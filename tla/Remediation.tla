----------------------------- MODULE Remediation -----------------------------
(***************************************************************************)
(* From a decision that was not approved to its reassessment: the findings *)
(* of decision 1, their remediation plans, the DevSync dispatches and      *)
(* callbacks, resolution evidence and reviews, resolution validation and   *)
(* reassessment (finding_, remediation_, devsync_, resolution_evidence_,   *)
(* review_, resolution_validation_ and reassessment_service).              *)
(*                                                                         *)
(* Workers serve one call at a time.  A call commits several times, and a  *)
(* commit expires what its session has loaded, so each later column is     *)
(* read anew: a handler is a series of "look" and "save" steps, and the    *)
(* row may change between a look and its save.  A save writes only the     *)
(* columns that differ from the copy looked at, as the ORM does.  A call   *)
(* that is refused writes nothing and is left out.                         *)
(*                                                                         *)
(* All rows are numbered in the order of created_at.                       *)
(***************************************************************************)
EXTENDS FindingRules, FiniteSets

CONSTANTS
  Workers,        \* threads that serve calls
  Bases,          \* what decision 1 may rest on (see FindingRules)
  MaxFindings, MaxPlans, MaxDispatches, MaxDecisions,   \* bounds on tables
  MaxCalls        \* bound on the calls served

ASSUME BoundsAssumption ==
  /\ {MaxFindings, MaxPlans, MaxDispatches, MaxCalls} \subseteq Nat
  /\ MaxDecisions \in Nat \ {0}

ASSUME BasesAssumption ==
  Bases \subseteq [prohibited : BOOLEAN, byPolicy : BOOLEAN,
                   results : Seq(STRING), evidence : Seq(STRING),
                   terminal : SUBSET STRING, ineligible : SUBSET STRING]

FindingStatus ==
  {"OPEN", "ASSIGNED", "IN_PROGRESS", "BLOCKED", "RESOLVED_PENDING_VALIDATION",
   "VALIDATION_FAILED", "CLOSED", "TERMINATED"}

PlanStatus ==
  {"DRAFT", "OPEN", "IN_PROGRESS", "BLOCKED", "DISPATCHED",
   "REMEDIATION_COMPLETE", "VALIDATED", "VALIDATION_FAILED", "CANCELLED"}

TerminalPlanStates == {"VALIDATED", "CANCELLED"}

\* "REFUSED" stands for REJECTED and INSUFFICIENT_EVIDENCE.
ValidationOutcome == {"VALIDATED", "REFUSED"}

Findings == 1 .. MaxFindings
Plans == 1 .. MaxPlans
Dispatches == 1 .. MaxDispatches
Decisions == 1 .. MaxDecisions
Nothing == 0
None == "none"

\* The decision the findings are about.
Original == 1

VARIABLES
  basis,                       \* what decision 1 rests on
  kind,                        \* findings: finding_type of each row
  status, outcome, resolvedBy, \*   the columns that change
  plans,                       \* plans: the finding, and whether evidence is required
  progress,                    \*   status
  sent,                        \* dispatches: the finding and the plan
  logged,                      \*   the length of the list of callbacks
  answered,                    \*   history: callbacks acknowledged
  evidence,                    \* resolution evidence: <<finding, is it VALID>>
  reviewed,                    \* findings with an approving review
  ledger,                      \* decisions: originating finding and prior
  successor,                   \*   superseded_by, Nothing if CURRENT
  intentDenied,                \* the intent has been terminated
  pc, call,                    \* the workers and what each is serving
  seen, seenOutcome, seenLog,  \* the columns a worker has looked at
  made,                        \* the number of rows, or the row, it has inserted
  fresh,                       \* history: nobody has written what it looked at
  calls,                       \* calls begun
  overwritten,                 \* history: findings on which an update was lost
  unlogged,                    \* history: dispatches on which one was lost
  broken                       \* history: generate calls raced, or stopped midway

findingVars == <<kind, status, outcome, resolvedBy>>
planVars == <<plans, progress>>
syncVars == <<sent, logged, answered>>
proofVars == <<evidence, reviewed>>
ledgerVars == <<ledger, successor, intentDenied>>
tables == <<basis, findingVars, planVars, syncVars, proofVars, ledgerVars>>
copyVars == <<seen, seenOutcome, seenLog>>
sessionVars == <<pc, call, copyVars, made, fresh, calls>>
historyVars == <<overwritten, unlogged, broken>>
vars == <<tables, sessionVars, historyVars>>

\* What a call is to do: write "want" to finding f if its status is in "from",
\* and "planWant" to plan p if its status is in "planFrom"; d is the dispatch
\* a callback is for, verdict the outcome a validation has reached.
Call == [f : Findings \cup {Nothing}, want : FindingStatus \cup {None},
         from : SUBSET FindingStatus, p : Plans \cup {Nothing},
         planWant : PlanStatus \cup {None}, planFrom : SUBSET PlanStatus,
         d : Dispatches \cup {Nothing}, verdict : ValidationOutcome \cup {None}]

NoCall == [f |-> Nothing, want |-> None, from |-> {}, p |-> Nothing,
           planWant |-> None, planFrom |-> {}, d |-> Nothing, verdict |-> None]

OnFinding(f, from, want) ==
  [NoCall EXCEPT !.f = f, !.from = from, !.want = want]

OnPlan(c, p, from, want) ==
  [c EXCEPT !.p = p, !.planFrom = from, !.planWant = want]

Stages == {"idle", "generate", "lookPlan", "savePlan", "look", "save",
           "callback", "log", "validate", "approve", "supersede", "close",
           "terminate"}

Existing == DOMAIN kind
Terminal(f) == kind[f] \in TerminalTypes(basis)
Eligible(f) == kind[f] \notin IneligibleTypes(basis)

\* What resolution validation and reassessment ask instead of Eligible: a type
\* that a package makes ineligible, and not terminal, does not stop them.
Resolvable(f) == ~ Terminal(f) /\ kind[f] \notin AlwaysIneligible

\* latest_for_finding, or Nothing.
PlansFor(f) == {p \in DOMAIN plans : plans[p].finding = f}
LatestPlan(f) ==
  IF PlansFor(f) = {} THEN Nothing
  ELSE CHOOSE p \in PlansFor(f) : \A q \in PlansFor(f) : p >= q

Init ==
  /\ basis \in Bases
  /\ kind = << >>
  /\ status = [f \in Findings |-> "OPEN"]
  /\ outcome = [f \in Findings |-> None]
  /\ resolvedBy = [f \in Findings |-> Nothing]
  /\ plans = << >>
  /\ progress = [p \in Plans |-> "OPEN"]
  /\ sent = << >>
  /\ logged = [d \in Dispatches |-> 0]
  /\ answered = [d \in Dispatches |-> 0]
  /\ evidence = {}
  /\ reviewed = {}
  /\ ledger = <<[origin |-> Nothing, prior |-> Nothing]>>
  /\ successor = [d \in Decisions |-> Nothing]
  /\ intentDenied = FALSE
  /\ pc = [w \in Workers |-> "idle"]
  /\ call = [w \in Workers |-> NoCall]
  /\ seen = [w \in Workers |-> None]
  /\ seenOutcome = [w \in Workers |-> None]
  /\ seenLog = [w \in Workers |-> 0]
  /\ made = [w \in Workers |-> 0]
  /\ fresh = [w \in Workers |-> TRUE]
  /\ calls = 0
  /\ overwritten = {}
  /\ unlogged = {}
  /\ broken = FALSE

-----------------------------------------------------------------------------
(* Steps that handlers share *)

\* A worker takes a call.
Begin(w, c, stage) ==
  /\ pc[w] = "idle" /\ calls < MaxCalls
  /\ calls' = calls + 1
  /\ call' = [call EXCEPT ![w] = c]
  /\ pc' = [pc EXCEPT ![w] = stage]

\* A worker goes on; its session ends with the call.
Goto(w, stage) ==
  /\ pc' = [pc EXCEPT ![w] = stage]
  /\ call' = IF stage = "idle" THEN [call EXCEPT ![w] = NoCall] ELSE call
  /\ made' = IF stage = "idle" THEN [made EXCEPT ![w] = 0] ELSE made

Forget(w) ==
  /\ seen' = [seen EXCEPT ![w] = None]
  /\ seenOutcome' = [seenOutcome EXCEPT ![w] = None]
  /\ seenLog' = [seenLog EXCEPT ![w] = 0]

Copy(w, value) ==
  /\ seen' = [seen EXCEPT ![w] = value]
  /\ fresh' = [fresh EXCEPT ![w] = TRUE]

\* The ORM writes a column only if the new value differs from the one loaded.
Put(loaded, new, current) == IF new = loaded THEN current ELSE new

\* The other sessions that have looked at finding f no longer hold its state.
Outdate(w, f) ==
  fresh' = [v \in Workers |->
              IF v # w /\ pc[v] \in {"save", "validate"} /\ call[v].f = f
              THEN FALSE ELSE fresh[v]]

\* The stage after the plan has been dealt with.
AfterPlan(w) == IF call[w].want = None THEN "idle" ELSE "look"

\* The plan's status is looked at; it is to be written, or left alone.
LookPlan(w) ==
  /\ pc[w] = "lookPlan"
  /\ IF progress[call[w].p] \in call[w].planFrom
     THEN Copy(w, progress[call[w].p]) /\ Goto(w, "savePlan")
     ELSE Goto(w, AfterPlan(w)) /\ UNCHANGED <<seen, fresh>>
  /\ UNCHANGED <<tables, seenOutcome, seenLog, calls, historyVars>>

SavePlan(w) ==
  /\ pc[w] = "savePlan"
  /\ progress' =
       [progress EXCEPT ![call[w].p] = Put(seen[w], call[w].planWant, @)]
  /\ Goto(w, AfterPlan(w))
  /\ Forget(w)
  /\ UNCHANGED <<basis, findingVars, plans, syncVars, proofVars, ledgerVars,
                 fresh, calls, historyVars>>

\* The finding's status is looked at.
Look(w) ==
  /\ pc[w] = "look"
  /\ IF status[call[w].f] \in call[w].from
     THEN Copy(w, status[call[w].f]) /\ Goto(w, "save")
     ELSE Goto(w, "idle") /\ UNCHANGED <<seen, fresh>>
  /\ UNCHANGED <<tables, seenOutcome, seenLog, calls, historyVars>>

\* A save on a finding that was written since it was looked at loses that
\* update.
Overwrite(w) ==
  overwritten' = IF fresh[w] THEN overwritten ELSE overwritten \cup {call[w].f}

\* reassessment_service goes on to the intent after a terminal finding.
Save(w) ==
  /\ pc[w] = "save"
  /\ status' = [status EXCEPT ![call[w].f] = Put(seen[w], call[w].want, @)]
  /\ Overwrite(w)
  /\ Outdate(w, call[w].f)
  /\ Goto(w, IF call[w].want = "TERMINATED" THEN "terminate" ELSE "idle")
  /\ Forget(w)
  /\ UNCHANGED <<basis, kind, outcome, resolvedBy, planVars, syncVars, proofVars,
                 ledgerVars, calls, unlogged, broken>>

-----------------------------------------------------------------------------
(* Findings *)

\* Mutant of GenerateCheck: existing findings do not stop it.
GenerateCheckAlways(w) ==
  /\ Begin(w, NoCall, "generate")
  /\ broken' = (broken \/ \E v \in Workers : pc[v] = "generate")
  /\ UNCHANGED <<tables, copyVars, made, fresh, overwritten, unlogged>>

\* generate_for_decision for decision 1: if it has findings they are returned.
GenerateCheck(w) ==
  /\ kind = << >>
  /\ Begin(w, NoCall, "generate")
  /\ broken' = (broken \/ \E v \in Workers : pc[v] = "generate")
  /\ UNCHANGED <<tables, copyVars, made, fresh, overwritten, unlogged>>

\* One commit for each finding.
GenerateInsert(w) ==
  /\ pc[w] = "generate" /\ Len(kind) < MaxFindings
  /\ kind' = Append(kind, GeneratedTypes(basis)[made[w] + 1])
  /\ IF made[w] + 1 = Len(GeneratedTypes(basis))
     THEN Goto(w, "idle")
     ELSE made' = [made EXCEPT ![w] = @ + 1] /\ UNCHANGED <<pc, call>>
  /\ UNCHANGED <<basis, status, outcome, resolvedBy, planVars, syncVars,
                 proofVars, ledgerVars, copyVars, fresh, calls, historyVars>>

Assign(w, f) ==
  /\ Begin(w, OnFinding(f, {"OPEN"}, "ASSIGNED"), "look")
  /\ UNCHANGED <<tables, copyVars, made, fresh, historyVars>>

-----------------------------------------------------------------------------
(* Remediation plans *)

CreatePlan(w, f, required) ==
  /\ Eligible(f) /\ Len(plans) < MaxPlans
  /\ Begin(w, OnFinding(f, {"OPEN", "ASSIGNED"}, "IN_PROGRESS"), "look")
  /\ plans' = Append(plans, [finding |-> f, mandatory |-> required])
  /\ UNCHANGED <<basis, findingVars, progress, syncVars, proofVars, ledgerVars,
                 copyVars, made, fresh, historyVars>>

\* Mutant of Mirror: progress that is reported reopens a closed finding.
MirrorClosed(f, reported) ==
  IF reported = "BLOCKED" THEN OnFinding(f, FindingStatus, "BLOCKED")
  ELSE IF reported \in {"IN_PROGRESS", "DISPATCHED", "RECEIVED"}
  THEN OnFinding(f, {"OPEN", "ASSIGNED", "BLOCKED"}, "IN_PROGRESS")
  ELSE [NoCall EXCEPT !.f = f]

\* What a plan's new status, or a callback, does to the finding.
Mirror(f, reported) ==
  IF reported = "BLOCKED" THEN OnFinding(f, FindingStatus \ {"CLOSED"}, "BLOCKED")
  ELSE IF reported \in {"IN_PROGRESS", "DISPATCHED", "RECEIVED"}
  THEN OnFinding(f, {"OPEN", "ASSIGNED", "BLOCKED"}, "IN_PROGRESS")
  ELSE [NoCall EXCEPT !.f = f]

\* update_status: any status may be asked for, VALIDATED too.
UpdateStatus(w, p, new) ==
  /\ progress[p] \notin TerminalPlanStates
  /\ Begin(w, OnPlan(Mirror(plans[p].finding, new), p, PlanStatus, new), "savePlan")
  /\ Copy(w, progress[p])
  /\ UNCHANGED <<tables, seenOutcome, seenLog, made, historyVars>>

-----------------------------------------------------------------------------
(* DevSync *)

\* dispatch: with the plan named, whatever finding it is for, or the latest.
\* Ineligible findings may be dispatched, only terminal ones may not.
Dispatch(w, f, p, accepted) ==
  /\ ~ Terminal(f) /\ Len(sent) < MaxDispatches
  /\ p \in DOMAIN plans \/ p = LatestPlan(f)
  /\ sent' = Append(sent, [finding |-> f, plan |-> p])
  /\ IF accepted
     THEN Begin(w, OnPlan(OnFinding(f, {"OPEN", "ASSIGNED"}, "IN_PROGRESS"), p,
                          PlanStatus \ TerminalPlanStates, "DISPATCHED"),
                IF p = Nothing THEN "look" ELSE "lookPlan")
     ELSE Begin(w, NoCall, "idle")
  /\ UNCHANGED <<basis, findingVars, planVars, logged, answered, proofVars,
                 ledgerVars, copyVars, made, fresh, historyVars>>

\* handle_callback stores the evidence first, if there is any.
Callback(w, d, reported, items) ==
  /\ evidence' = evidence \cup ({sent[d].finding} \X items)
  /\ Begin(w, LET c == Mirror(sent[d].finding, reported) IN
              [(IF reported = "COMPLETED" /\ sent[d].plan # Nothing
                THEN OnPlan(c, sent[d].plan, PlanStatus \ TerminalPlanStates,
                            "REMEDIATION_COMPLETE")
                ELSE c) EXCEPT !.d = d],
           "callback")
  /\ UNCHANGED <<basis, findingVars, planVars, syncVars, reviewed, ledgerVars,
                 copyVars, made, fresh, historyVars>>

\* It then loads the list of callbacks ...
CallbackLoad(w) ==
  /\ pc[w] = "callback"
  /\ seenLog' = [seenLog EXCEPT ![w] = logged[call[w].d]]
  /\ fresh' = [fresh EXCEPT ![w] = TRUE]
  /\ Goto(w, "log")
  /\ UNCHANGED <<tables, seen, seenOutcome, calls, historyVars>>

AfterLog(w) ==
  IF call[w].want # None THEN "look"
  ELSE IF call[w].p # Nothing THEN "lookPlan" ELSE "idle"

OutdateLog(w) ==
  fresh' = [v \in Workers |->
              IF v # w /\ pc[v] = "log" /\ call[v].d = call[w].d
              THEN FALSE ELSE fresh[v]]

\* Mutant of CallbackLog: the list is started anew.
CallbackLogAlone(w) ==
  /\ pc[w] = "log"
  /\ logged' = [logged EXCEPT ![call[w].d] = 1]
  /\ answered' = [answered EXCEPT ![call[w].d] = @ + 1]
  /\ unlogged' = IF fresh[w] THEN unlogged ELSE unlogged \cup {call[w].d}
  /\ OutdateLog(w)
  /\ Goto(w, AfterLog(w))
  /\ Forget(w)
  /\ UNCHANGED <<basis, findingVars, planVars, sent, proofVars, ledgerVars,
                 calls, overwritten, broken>>

\* ... and saves it with one more.
CallbackLog(w) ==
  /\ pc[w] = "log"
  /\ logged' = [logged EXCEPT ![call[w].d] = seenLog[w] + 1]
  /\ answered' = [answered EXCEPT ![call[w].d] = @ + 1]
  /\ unlogged' = IF fresh[w] THEN unlogged ELSE unlogged \cup {call[w].d}
  /\ OutdateLog(w)
  /\ Goto(w, AfterLog(w))
  /\ Forget(w)
  /\ UNCHANGED <<basis, findingVars, planVars, sent, proofVars, ledgerVars,
                 calls, overwritten, broken>>

-----------------------------------------------------------------------------
(* Evidence, reviews and validation *)

SubmitEvidence(f, valid) ==
  /\ calls < MaxCalls /\ calls' = calls + 1
  /\ evidence' = evidence \cup {<<f, valid>>}
  /\ UNCHANGED <<basis, findingVars, planVars, syncVars, reviewed, ledgerVars,
                 pc, call, copyVars, made, fresh, historyVars>>

\* Only an approving review makes a difference.
Review(f) ==
  /\ calls < MaxCalls /\ calls' = calls + 1
  /\ reviewed' = reviewed \cup {f}
  /\ UNCHANGED <<basis, findingVars, planVars, syncVars, evidence, ledgerVars,
                 pc, call, copyVars, made, fresh, historyVars>>

Required(f) == LatestPlan(f) # Nothing /\ plans[LatestPlan(f)].mandatory

\* The mapping of validate: a review where one is needed; VALID evidence where
\* the plan requires it, and where neither a review nor a plan asks for any.
Demonstrated(f) ==
  /\ kind[f] = "MANUAL_REVIEW" => f \in reviewed
  /\ kind[f] # "MANUAL_REVIEW" \/ Required(f) => <<f, TRUE>> \in evidence

\* Terminal findings and escalations that need an approval never validate.
Verdict(f) ==
  IF Resolvable(f) /\ Demonstrated(f) THEN "VALIDATED" ELSE "REFUSED"

\* The status validate means to leave the finding in, given the one it read.
StatusFor(f, current) ==
  IF Terminal(f) THEN "TERMINATED"
  ELSE IF Verdict(f) = "REFUSED" THEN "VALIDATION_FAILED"
  ELSE IF current = "CLOSED" THEN "CLOSED" ELSE "RESOLVED_PENDING_VALIDATION"

PlanStatusFor(f) ==
  IF Verdict(f) = "VALIDATED" THEN "VALIDATED" ELSE "VALIDATION_FAILED"

Validate(w, f) ==
  /\ Begin(w, [OnPlan(OnFinding(f, FindingStatus, StatusFor(f, status[f])),
                      IF Resolvable(f) THEN LatestPlan(f) ELSE Nothing,
                      PlanStatus \ {"CANCELLED"}, PlanStatusFor(f))
               EXCEPT !.verdict = Verdict(f)],
           "validate")
  /\ Copy(w, status[f])
  /\ seenOutcome' = [seenOutcome EXCEPT ![w] = outcome[f]]
  /\ UNCHANGED <<tables, seenLog, made, historyVars>>

\* The finding first, then the plan.
ValidateSave(w) ==
  LET f == call[w].f IN
  /\ pc[w] = "validate"
  /\ status' = [status EXCEPT ![f] = Put(seen[w], call[w].want, @)]
  /\ outcome' = [outcome EXCEPT ![f] = Put(seenOutcome[w], call[w].verdict, @)]
  /\ Overwrite(w)
  /\ Outdate(w, f)
  /\ pc' = [pc EXCEPT ![w] = IF call[w].p = Nothing THEN "idle" ELSE "lookPlan"]
  /\ call' = [call EXCEPT ![w] = IF @.p = Nothing THEN NoCall
                                 ELSE [@ EXCEPT !.want = None]]
  /\ Forget(w)
  /\ UNCHANGED <<basis, kind, resolvedBy, planVars, syncVars, proofVars,
                 ledgerVars, made, calls, unlogged, broken>>

-----------------------------------------------------------------------------
(* Reassessment *)

\* A terminal finding ends its intent.
TriggerTerminal(w, f) ==
  /\ Terminal(f)
  /\ Begin(w, OnFinding(f, FindingStatus, "TERMINATED"), "look")
  /\ UNCHANGED <<tables, copyVars, made, fresh, historyVars>>

\* No handler modelled here makes an intent EXECUTED or CANCELLED, the
\* statuses that would be left alone.
TerminateIntent(w) ==
  /\ pc[w] = "terminate"
  /\ intentDenied' = TRUE
  /\ Goto(w, "idle")
  /\ UNCHANGED <<basis, findingVars, planVars, syncVars, proofVars, ledger,
                 successor, copyVars, fresh, calls, historyVars>>

\* Mutant of Trigger: the outcome of validation is not looked at.
TriggerUnvalidated(w, f) ==
  /\ Resolvable(f)
  /\ kind[f] = "MANUAL_REVIEW" => f \in reviewed
  /\ Begin(w, [NoCall EXCEPT !.f = f], "approve")
  /\ UNCHANGED <<tables, copyVars, made, fresh, historyVars>>

\* Neither the finding's status and eligibility nor whether its decision is
\* still CURRENT, nor the other findings of that decision, are looked at.
Trigger(w, f) ==
  /\ Resolvable(f)
  /\ outcome[f] = "VALIDATED"
  /\ kind[f] = "MANUAL_REVIEW" => f \in reviewed
  /\ Begin(w, [NoCall EXCEPT !.f = f], "approve")
  /\ UNCHANGED <<tables, copyVars, made, fresh, historyVars>>

\* Mutant of Approve: the prior decision is not marked.
ApproveOnly(w) ==
  /\ pc[w] = "approve" /\ Len(ledger) < MaxDecisions
  /\ ledger' = Append(ledger, [origin |-> call[w].f, prior |-> Original])
  /\ made' = [made EXCEPT ![w] = Len(ledger')]
  /\ pc' = [pc EXCEPT ![w] = "close"]
  /\ UNCHANGED <<basis, findingVars, planVars, syncVars, proofVars, successor,
                 intentDenied, call, copyVars, fresh, calls, historyVars>>

\* A SATISFIED assessment and an APPROVED decision are inserted, ...
Approve(w) ==
  /\ pc[w] = "approve" /\ Len(ledger) < MaxDecisions
  /\ ledger' = Append(ledger, [origin |-> call[w].f, prior |-> Original])
  /\ made' = [made EXCEPT ![w] = Len(ledger')]
  /\ pc' = [pc EXCEPT ![w] = "supersede"]
  /\ UNCHANGED <<basis, findingVars, planVars, syncVars, proofVars, successor,
                 intentDenied, call, copyVars, fresh, calls, historyVars>>

\* ... the prior decision is marked SUPERSEDED, perhaps for the second time, ...
SupersedePrior(w) ==
  /\ pc[w] = "supersede"
  /\ successor' = [successor EXCEPT ![Original] = made[w]]
  /\ pc' = [pc EXCEPT ![w] = "close"]
  /\ UNCHANGED <<basis, findingVars, planVars, syncVars, proofVars, ledger,
                 intentDenied, call, copyVars, made, fresh, calls, historyVars>>

\* ... and the finding is closed.
Close(w) ==
  LET f == call[w].f IN
  /\ pc[w] = "close"
  /\ status' = [status EXCEPT ![f] = "CLOSED"]
  /\ resolvedBy' = [resolvedBy EXCEPT ![f] = made[w]]
  /\ Outdate(w, f)
  /\ Goto(w, "idle")
  /\ UNCHANGED <<basis, kind, outcome, planVars, syncVars, proofVars,
                 ledgerVars, copyVars, calls, historyVars>>

\* Another session decides anew, which supersedes the newest CURRENT decision.
Redecide(d) ==
  /\ calls < MaxCalls /\ calls' = calls + 1
  /\ Len(ledger) < MaxDecisions
  /\ d \in DOMAIN ledger /\ successor[d] = Nothing
  /\ \A e \in DOMAIN ledger : successor[e] = Nothing => e <= d
  /\ ledger' = Append(ledger, [origin |-> Nothing, prior |-> d])
  /\ successor' = [successor EXCEPT ![d] = Len(ledger')]
  /\ UNCHANGED <<basis, findingVars, planVars, syncVars, proofVars,
                 intentDenied, pc, call, copyVars, made, fresh, historyVars>>

\* A worker dies, or its call fails, between two commits.
Crash(w) ==
  /\ pc[w] # "idle"
  /\ broken' = (broken \/ pc[w] = "generate")
  /\ Goto(w, "idle")
  /\ Forget(w)
  /\ UNCHANGED <<tables, fresh, calls, overwritten, unlogged>>

Serve(w) ==
  \/ GenerateCheck(w) \/ GenerateInsert(w)
  \/ \E f \in Existing :
       \/ Assign(w, f)
       \/ \E required \in BOOLEAN : CreatePlan(w, f, required)
       \/ \E p \in DOMAIN plans \cup {Nothing}, accepted \in BOOLEAN :
            Dispatch(w, f, p, accepted)
       \/ Validate(w, f)
       \/ TriggerTerminal(w, f)
       \/ Trigger(w, f)
  \/ \E p \in DOMAIN plans, new \in PlanStatus : UpdateStatus(w, p, new)
  \/ \E d \in DOMAIN sent,
        reported \in {"RECEIVED", "BLOCKED", "COMPLETED", "REJECTED"},
        items \in SUBSET BOOLEAN : Callback(w, d, reported, items)
  \/ LookPlan(w) \/ SavePlan(w) \/ Look(w) \/ Save(w)
  \/ CallbackLoad(w) \/ CallbackLog(w)
  \/ ValidateSave(w)
  \/ TerminateIntent(w)
  \/ Approve(w) \/ SupersedePrior(w) \/ Close(w)
  \/ Crash(w)

Next ==
  \/ \E w \in Workers : Serve(w)
  \/ \E f \in Existing, valid \in BOOLEAN : SubmitEvidence(f, valid)
  \/ \E f \in Existing : Review(f)
  \/ \E d \in Decisions : Redecide(d)

Spec == Init /\ [][Next]_vars

-----------------------------------------------------------------------------
(* Properties *)

\* Every decision that a reassessment has issued is about a finding that is
\* neither terminal nor waits for a human approval, and rests on VALID
\* resolution evidence, or for a manual review on an approving one, however
\* plans, evidence, validations, callbacks and reassessments interleave and
\* whichever calls stop midway.  That its type was eligible for remediation
\* is not part of it: a package's ineligible types bar plans and nothing else.
ApprovedOnEvidence ==
  \A d \in DOMAIN ledger :
    LET f == ledger[d].origin IN
    f # Nothing => /\ Resolvable(f)
                   /\ IF kind[f] = "MANUAL_REVIEW" THEN f \in reviewed
                                                   ELSE <<f, TRUE>> \in evidence

\* A CLOSED finding was resolved by a decision of its own, and by then the
\* decision it was raised for is SUPERSEDED: no crash between the commits of a
\* reassessment, and no other handler, leaves a finding closed without both.
ClosedIsDecided ==
  \A f \in Existing :
    status[f] = "CLOSED" =>
      /\ resolvedBy[f] \in DOMAIN ledger
      /\ ledger[resolvedBy[f]] = [origin |-> f, prior |-> Original]
      /\ successor[Original] # Nothing

\* A CLOSED finding is reopened by a validation that fails, or where a session
\* loses another's update, and in no other way: a late callback, a dispatch or
\* a plan's progress that is reported after the closure does not reopen it.
ClosedStaysUnlessOverwritten ==
  [][\A f \in Existing :
       status[f] = "CLOSED" /\ status'[f] # "CLOSED" =>
         \/ f \in overwritten'
         \/ \E w \in Workers : pc[w] = "validate" /\ call[w].f = f
                               /\ pc'[w] # "validate"]_vars

\* Unless two generate calls raced or one of them stopped between its commits,
\* a decision has exactly the findings its basis gives rise to, each once.
GeneratedOnceUnlessBroken ==
  kind # << >> /\ ~ broken /\ (\A w \in Workers : pc[w] # "generate")
    => kind = GeneratedTypes(basis)

\* Every callback acknowledged to DevSync is in the list its dispatch keeps,
\* unless two callbacks raced on it.
CallbacksKeptUnlessRaced ==
  \A d \in DOMAIN sent : logged[d] = answered[d] \/ d \in unlogged

\* "A terminal policy prohibition is INELIGIBLE and can never be resolved into
\* an authorization" (canonical_enums.py:534): no reassessment approves a
\* decision that such a finding was raised for.
ProhibitionStands ==
  \A d \in DOMAIN ledger :
    ledger[d].origin # Nothing => \A f \in Existing : ~ Terminal(f)
=============================================================================
