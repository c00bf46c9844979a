-------------------------- MODULE DecisionLedger --------------------------
(***************************************************************************)
(* The ledger of decisions and the human approvals of escalated ones.      *)
(* Models decision_service.decide_for_resolution as called by the decide   *)
(* endpoint, and escalation_approval_service (submit, apply).              *)
(*                                                                         *)
(* A decide call commits up to three times: it inserts its decision, then  *)
(* marks the prior one SUPERSEDED, then marks the approval CONSUMED.       *)
(* Other sessions run between the commits, and a session may stop after    *)
(* any of them: the model has no fairness, so a crashed or failed request  *)
(* is one that takes no further step.                                      *)
(*                                                                         *)
(* Decisions, and approvals, are numbered in the order of created_at.      *)
(***************************************************************************)
EXTENDS Integers, FiniteSets

CONSTANTS
  Requests,      \* calls of decide, submit and apply, each in a session
  Evaluations,   \* policy resolutions; a decision's evaluation_id
  MaxDecisions,  \* bound on the decisions table
  MaxApprovals,  \* bound on the escalation_approvals table
  None           \* no evaluation

ASSUME NoneAssumption == None \notin Evaluations
ASSUME BoundsAssumption == MaxDecisions \in Nat /\ MaxApprovals \in Nat

\* The outcomes the ledger tells apart: "OTHER" stands for DENIED and for an
\* escalation without the reason submit looks for.
Verdicts == {"APPROVED", "ESCALATED_BY_POLICY", "OTHER"}

\* How far a request's session has come.
Stages == {"new", "called", "gathered", "inserted", "superseded", "verified",
           "done"}

\* No decision (approval), and an identifier that no decision has.
Nothing == 0
Dangling == MaxDecisions + 1

VARIABLES
  \* the decisions table
  decided,       \* the number of its rows
  evaluation, verdict, supersession, successor, prior,
  relied,        \* the approval whose facts approval_hash binds
  reliedExpired, \* whether those facts say it is expired
  \* the escalation_approvals table
  granted,       \* the number of its rows
  approves,      \* the escalated decision
  approval, consumedBy,
  lapsed,        \* the approvals whose valid_until has passed
  \* the requests' sessions
  pc,
  about,         \* the evaluation to decide
  asked,         \* prior_decision_id, or the decision to approve
  found,         \* the approval loaded as a runtime fact
  replaced,      \* the prior decision's row, once loaded
  result,        \* the verdict of the engine
  expired,       \* whether the approval loaded had expired at decided_at
  own            \* the decision inserted

contentVars == <<decided, evaluation, verdict, relied, reliedExpired>>
lineageVars == <<supersession, successor, prior>>
approvalVars == <<granted, approves, approval, consumedBy, lapsed>>
callVars == <<about, asked>>
factVars == <<found, expired, result>>
vars == <<contentVars, lineageVars, approvalVars, pc, callVars, factVars,
          replaced, own>>

Rows == 1 .. MaxDecisions
Decisions == 1 .. decided
Approvals == 1 .. granted

Init ==
  /\ decided = 0
  /\ evaluation = [d \in Rows |-> None]
  /\ verdict = [d \in Rows |-> "OTHER"]
  /\ supersession = [d \in Rows |-> "CURRENT"]
  /\ successor = [d \in Rows |-> Nothing]
  /\ prior = [d \in Rows |-> Nothing]
  /\ relied = [d \in Rows |-> Nothing]
  /\ reliedExpired = [d \in Rows |-> FALSE]
  /\ granted = 0
  /\ approves = [a \in 1 .. MaxApprovals |-> Nothing]
  /\ approval = [a \in 1 .. MaxApprovals |-> "ACTIVE"]
  /\ consumedBy = [a \in 1 .. MaxApprovals |-> Nothing]
  /\ pc = [r \in Requests |-> "new"]
  /\ about = [r \in Requests |-> None]
  /\ asked = [r \in Requests |-> Nothing]
  /\ found = [r \in Requests |-> Nothing]
  /\ replaced = [r \in Requests |-> Nothing]
  /\ result = [r \in Requests |-> "OTHER"]
  /\ expired = [r \in Requests |-> FALSE]
  /\ own = [r \in Requests |-> Nothing]
  /\ lapsed = {}

\* The newest element of a set of rows that are numbered by age.
IsNewestOf(x, S) == x \in S /\ \A y \in S : x >= y

NewestOrNothing(x, S) == IsNewestOf(x, S) \/ (S = {} /\ x = Nothing)

CurrentOf(e) ==
  {d \in Decisions : evaluation[d] = e /\ supersession[d] = "CURRENT"}

ActiveFor(d) == {a \in Approvals : approves[a] = d /\ approval[a] = "ACTIVE"}

-----------------------------------------------------------------------------
(* decide_for_resolution *)

\* The endpoint takes any prior_decision_id, of any evaluation or none.
DecideCall(r, e, p) ==
  /\ pc[r] = "new"
  /\ pc' = [pc EXCEPT ![r] = "called"]
  /\ about' = [about EXCEPT ![r] = e]
  /\ asked' = [asked EXCEPT ![r] = p]
  /\ UNCHANGED <<contentVars, lineageVars, approvalVars, factVars, replaced,
                 own>>

\* Load the newest ACTIVE approval of the prior decision, run the engine, and
\* load the decision to replace: the one asked for, whatever its evaluation and
\* its state, and otherwise the current one of the evaluation.  One of the two
\* lookups at most depends on what other sessions do, so they are one step.
\* The verdict is free: the facts and the package's conditions decide it.
Gather(r, a, p, v) ==
  /\ pc[r] = "called"
  /\ NewestOrNothing(a, ActiveFor(asked[r]))
  /\ IF asked[r] \in Decisions THEN p = asked[r]
                               ELSE NewestOrNothing(p, CurrentOf(about[r]))
  /\ pc' = [pc EXCEPT ![r] = "gathered"]
  /\ found' = [found EXCEPT ![r] = a]
  /\ expired' = [expired EXCEPT ![r] = a \in lapsed]
  /\ result' = [result EXCEPT ![r] = v]
  /\ replaced' = [replaced EXCEPT ![r] = p]
  /\ UNCHANGED <<contentVars, lineageVars, approvalVars, callVars, own>>

\* Mutant of Spends: an expired approval is spent as well.
SpendsExpired(r) == found[r] # Nothing /\ result[r] = "APPROVED"

\* An unexpired approval that the engine approved on is spent.
Spends(r) ==
  /\ found[r] # Nothing
  /\ result[r] = "APPROVED"
  /\ ~ expired[r]

AfterSupersede(r) == IF Spends(r) THEN "superseded" ELSE "done"

Insert(r) ==
  /\ pc[r] = "gathered" /\ decided < MaxDecisions
  /\ LET d == decided + 1 IN
     /\ decided' = d
     /\ evaluation' = [evaluation EXCEPT ![d] = about[r]]
     /\ verdict' = [verdict EXCEPT ![d] = result[r]]
     /\ prior' = [prior EXCEPT ![d] = asked[r]]
     /\ relied' = [relied EXCEPT ![d] = found[r]]
     /\ reliedExpired' = [reliedExpired EXCEPT ![d] = expired[r]]
     /\ own' = [own EXCEPT ![r] = d]
  /\ pc' = [pc EXCEPT ![r] = IF replaced[r] # Nothing THEN "inserted"
                                                      ELSE AfterSupersede(r)]
  /\ UNCHANGED <<supersession, successor, approvalVars, callVars, factVars,
                 replaced>>

\* Mutant of Supersede: the prior decision stays CURRENT.
SupersedeLinkOnly(r) ==
  /\ pc[r] = "inserted"
  /\ successor' = [successor EXCEPT ![replaced[r]] = own[r]]
  /\ prior' = IF asked[r] = Nothing THEN [prior EXCEPT ![own[r]] = replaced[r]]
                                    ELSE prior
  /\ pc' = [pc EXCEPT ![r] = AfterSupersede(r)]
  /\ UNCHANGED <<contentVars, supersession, approvalVars, callVars, factVars,
                 replaced, own>>

\* Mutant of Supersede: the new decision is marked in place of the prior one.
SupersedeBackwards(r) ==
  /\ pc[r] = "inserted"
  /\ supersession' = [supersession EXCEPT ![own[r]] = "SUPERSEDED"]
  /\ successor' = [successor EXCEPT ![own[r]] = replaced[r]]
  /\ prior' = IF asked[r] = Nothing THEN [prior EXCEPT ![own[r]] = replaced[r]]
                                    ELSE prior
  /\ pc' = [pc EXCEPT ![r] = AfterSupersede(r)]
  /\ UNCHANGED <<contentVars, approvalVars, callVars, factVars, replaced, own>>

\* One commit: both rows are dirty in the session.
Supersede(r) ==
  /\ pc[r] = "inserted"
  /\ supersession' = [supersession EXCEPT ![replaced[r]] = "SUPERSEDED"]
  /\ successor' = [successor EXCEPT ![replaced[r]] = own[r]]
  /\ prior' = IF asked[r] = Nothing THEN [prior EXCEPT ![own[r]] = replaced[r]]
                                    ELSE prior
  /\ pc' = [pc EXCEPT ![r] = AfterSupersede(r)]
  /\ UNCHANGED <<contentVars, approvalVars, callVars, factVars, replaced, own>>

\* Mutant of Consume: the approval is set aside as EXPIRED.
ConsumeAsExpired(r) ==
  /\ pc[r] = "superseded"
  /\ approval' = [approval EXCEPT ![found[r]] = "EXPIRED"]
  /\ consumedBy' = [consumedBy EXCEPT ![found[r]] = own[r]]
  /\ pc' = [pc EXCEPT ![r] = "done"]
  /\ UNCHANGED <<contentVars, lineageVars, granted, approves, lapsed, callVars,
                 factVars, replaced, own>>

Consume(r) ==
  /\ pc[r] = "superseded"
  /\ approval' = [approval EXCEPT ![found[r]] = "CONSUMED"]
  /\ consumedBy' = [consumedBy EXCEPT ![found[r]] = own[r]]
  /\ pc' = [pc EXCEPT ![r] = "done"]
  /\ UNCHANGED <<contentVars, lineageVars, granted, approves, lapsed, callVars,
                 factVars, replaced, own>>

-----------------------------------------------------------------------------
(* Escalation approvals *)

\* submit checks the decision, then asks the identity service whether the
\* approver may approve; a refused request is not modelled further.
SubmitCheck(r, d) ==
  /\ pc[r] = "new"
  /\ verdict[d] = "ESCALATED_BY_POLICY" /\ supersession[d] = "CURRENT"
  /\ pc' = [pc EXCEPT ![r] = "verified"]
  /\ asked' = [asked EXCEPT ![r] = d]
  /\ UNCHANGED <<contentVars, lineageVars, approvalVars, about, factVars,
                 replaced, own>>

SubmitInsert(r) ==
  /\ pc[r] = "verified" /\ granted < MaxApprovals
  /\ granted' = granted + 1
  /\ approves' = [approves EXCEPT ![granted + 1] = asked[r]]
  /\ pc' = [pc EXCEPT ![r] = "done"]
  /\ UNCHANGED <<contentVars, lineageVars, approval, consumedBy, lapsed,
                 callVars, factVars, replaced, own>>

\* apply re-decides the approved decision; the approval itself is looked up
\* again by Gather.
ApplyCheck(r, a) ==
  /\ pc[r] = "new"
  /\ approval[a] = "ACTIVE"
  /\ pc' = [pc EXCEPT ![r] = "called"]
  /\ about' = [about EXCEPT ![r] = evaluation[approves[a]]]
  /\ asked' = [asked EXCEPT ![r] = approves[a]]
  /\ UNCHANGED <<contentVars, lineageVars, approvalVars, factVars, replaced,
                 own>>

\* The clock passes an approval's valid_until; nothing is written.
Lapse(a) ==
  /\ lapsed' = lapsed \cup {a}
  /\ UNCHANGED <<contentVars, lineageVars, granted, approves, approval,
                 consumedBy, pc, callVars, factVars, replaced, own>>

Serve(r) ==
  \/ \E e \in Evaluations, p \in Decisions \cup {Nothing, Dangling} :
       DecideCall(r, e, p)
  \/ \E a \in Approvals \cup {Nothing}, p \in Decisions \cup {Nothing},
       v \in Verdicts : Gather(r, a, p, v)
  \/ Insert(r)
  \/ Supersede(r)
  \/ Consume(r)
  \/ \E d \in Decisions : SubmitCheck(r, d)
  \/ SubmitInsert(r)
  \/ \E a \in Approvals : ApplyCheck(r, a)

Next == (\E a \in Approvals : Lapse(a)) \/ (\E r \in Requests : Serve(r))

Spec == Init /\ [][Next]_vars

-----------------------------------------------------------------------------
(* Properties *)

LedgerType ==
  /\ decided \in 0 .. MaxDecisions
  /\ evaluation \in [Rows -> Evaluations \cup {None}]
  /\ verdict \in [Rows -> Verdicts]
  /\ supersession \in [Rows -> {"CURRENT", "SUPERSEDED"}]
  /\ successor \in [Rows -> 0 .. MaxDecisions]
  /\ prior \in [Rows -> 0 .. Dangling]
  /\ relied \in [Rows -> 0 .. MaxApprovals]
  /\ reliedExpired \in [Rows -> BOOLEAN]

ApprovalType ==
  /\ granted \in 0 .. MaxApprovals
  /\ approves \in [1 .. MaxApprovals -> 0 .. MaxDecisions]
  /\ approval \in [1 .. MaxApprovals -> {"ACTIVE", "CONSUMED"}]
  /\ consumedBy \in [1 .. MaxApprovals -> 0 .. MaxDecisions]
  /\ lapsed \subseteq Approvals

SessionType ==
  /\ pc \in [Requests -> Stages]
  /\ about \in [Requests -> Evaluations \cup {None}]
  /\ asked \in [Requests -> 0 .. Dangling]
  /\ found \in [Requests -> 0 .. MaxApprovals]
  /\ replaced \in [Requests -> 0 .. MaxDecisions]
  /\ result \in [Requests -> Verdicts]
  /\ expired \in [Requests -> BOOLEAN]
  /\ own \in [Requests -> 0 .. MaxDecisions]

TypeOK == LedgerType /\ ApprovalType /\ SessionType

\* Both lineage pointers run along the age of the decisions and agree: a
\* successor is newer and names the decision it superseded as its prior (or
\* an identifier no decision has).  Walking either pointer, as decision_chain
\* does, therefore ends, whatever priors callers name and however they race.
LineageSound ==
  \A d \in Decisions :
    /\ prior[d] < d \/ prior[d] = Dangling
    /\ supersession[d] = "SUPERSEDED" =>
         successor[d] > d /\ prior[successor[d]] \in {d, Dangling}

\* No decide call stands between the commits that insert its decision and that
\* supersede the prior one.
Settled(e) == \A r \in Requests : pc[r] = "inserted" => about[r] # e

\* A decision of evaluation e that replaces no other decision of e.
IsRoot(d, e) ==
  prior[d] \in {Nothing, Dangling} \/ evaluation[prior[d]] # e

Forked(e) ==
  \E d, f \in Decisions :
    /\ d # f /\ evaluation[d] = e /\ evaluation[f] = e
    /\ prior[d] = prior[f] \/ (IsRoot(d, e) /\ IsRoot(f, e))

\* An evaluation has two CURRENT decisions only while a decide call stands
\* between its commits, or when its lineage forks: two of its decisions name
\* the same prior, or none of its own.
CurrentUniqueUnlessForked ==
  \A e \in Evaluations :
    Settled(e) => Cardinality(CurrentOf(e)) <= 1 \/ Forked(e)

\* A decided evaluation always has a CURRENT decision, and it is its newest,
\* unless a decide call of another evaluation named that one as its prior: no
\* interleaving of supersessions leaves an evaluation without one.
NewestStaysCurrent ==
  \A d \in Decisions :
    (\A f \in Decisions : evaluation[f] = evaluation[d] => f <= d)
      => \/ supersession[d] = "CURRENT"
         \/ evaluation[successor[d]] # evaluation[d]

\* Approval a was spent on an APPROVED decision that was taken while it was
\* valid and that names the decision it approves as its prior.
Backed(a) ==
  LET d == consumedBy[a] IN
  /\ d \in Decisions
  /\ verdict[d] = "APPROVED" /\ relied[d] = a /\ ~ reliedExpired[d]
  /\ prior[d] = approves[a]
  /\ supersession[approves[a]] = "SUPERSEDED"
  /\ verdict[approves[a]] = "ESCALATED_BY_POLICY"

\* A CONSUMED approval is backed by the decision it was spent on, and by then
\* the decision that had escalated is SUPERSEDED.
ConsumptionBacked ==
  \A a \in Approvals : approval[a] = "CONSUMED" => Backed(a)
=============================================================================
