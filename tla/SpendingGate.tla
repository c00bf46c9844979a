----------------------------- MODULE SpendingGate -----------------------------
(***************************************************************************)
(* The first-generation flow: transactions of an agent, the spending       *)
(* policy they are evaluated against, and the reviews of escalated ones    *)
(* (transaction_service, evaluation_service, rule_engine, approval_service, *)
(* policy_service, agent_service).                                         *)
(*                                                                         *)
(* A session serves one request.  Its queries and commits are steps of      *)
(* their own: nothing locks the rows that it has read.  One that dies is    *)
(* one that takes no further step.                                         *)
(***************************************************************************)
EXTENDS Integers, FiniteSets, FiniteSetsExt

CONSTANTS
  Transactions,
  Amount,         \* the amount of each
  Trait,          \* its vendor, chain and asset symbol
  Dimensions,     \* names of these three
  Sessions,
  PolicyIds,
  Policies,       \* what a policy row may hold
  Unlimited,      \* the value of a limit that is not set
  NoValue,
  MaxDay          \* bound on the calendar

ASSUME GateAssumption ==
  /\ IsFiniteSet(Transactions) /\ Amount \in [Transactions -> Nat \ {0}]
  /\ DOMAIN Trait = Transactions
  /\ MaxDay \in Nat

ASSUME PolicyAssumption ==
  \A p \in Policies : {p.daily_budget, p.max_transactions_per_day} \subseteq
                        Nat \cup {Unlimited}

ASSUME NoValueAssumption ==
  /\ NoValue \notin Policies /\ NoValue \notin Transactions
  /\ NoValue \notin {"SUBMITTED", "APPROVED", "DENIED", "ESCALATED"}

VARIABLES
  active,       \* is_active of the agent
  policies,     \* the agent's policy rows
  day,
  firstSecond,  \* its first second is not over
  status,       \* of each transaction: SUBMITTED, APPROVED, DENIED or ESCALATED
  createdOn, decisionResult,           \* its other columns
  uncounted,    \* transactions whose created_at sorts before their day's start
  proofs,       \* proof bundles: pairs of a transaction and a decision
  approvals,    \* reviewers' rows: pairs of a transaction and a verdict
  audit,        \* log entries: a transaction, what became of it, and by what
  stage, tx, loaded, policy, spend, outcome, judgedOn,   \* of each session
  inForce,      \* policies that some row has ever held
  overwritten,  \* transactions whose status was written over an unseen one
  late,         \* evaluated on a later day than they were created
  overruled     \* approved by a reviewer although they were not escalated

clock == <<day, firstSecond>>
table == <<status, createdOn, uncounted, decisionResult>>
trail == <<proofs, approvals, audit>>
session == <<stage, tx, loaded, policy, spend, outcome, judgedOn>>
history == <<inForce, overwritten, late, overruled>>
gateVars == <<active, policies, clock, table, trail, session, history>>

GateInit ==
  /\ active = TRUE
  /\ policies = [i \in PolicyIds |-> NoValue]
  /\ day = 0 /\ firstSecond = FALSE
  /\ status = [t \in Transactions |-> NoValue]
  /\ createdOn = [t \in Transactions |-> 0]
  /\ decisionResult = [t \in Transactions |-> NoValue]
  /\ uncounted = {}
  /\ proofs = {} /\ approvals = {} /\ audit = {}
  /\ stage = [s \in Sessions |-> "new"]
  /\ tx = [s \in Sessions |-> NoValue]
  /\ loaded = [s \in Sessions |-> NoValue]
  /\ policy = [s \in Sessions |-> NoValue]
  /\ spend = [s \in Sessions |-> 0]
  /\ outcome = [s \in Sessions |-> NoValue]
  /\ judgedOn = [s \in Sessions |-> 0]
  /\ inForce = {} /\ overwritten = {} /\ late = {} /\ overruled = {}

-----------------------------------------------------------------------------
(* The rules *)

Total(S) == FoldSet(LAMBDA t, sum : Amount[t] + sum, 0, S)

Exceeds(x, limit) == limit # Unlimited /\ x > limit
Reaches(x, limit) == limit # Unlimited /\ x >= limit

\* Rules 1 to 12.  The totals are those of the day, this transaction included.
IsDenied(t, p, total, count) ==
  \/ p = NoValue
  \/ \E d \in Dimensions :
       /\ Trait[t][d] # NoValue
       /\ \/ Trait[t][d] \in p.blocked[d]
          \/ p.allowed[d] # {} /\ Trait[t][d] \notin p.allowed[d]
  \/ Exceeds(Amount[t], p.per_tx_limit)
  \/ Exceeds(total + Amount[t], p.daily_budget)
  \/ Reaches(count, p.max_transactions_per_day)

\* Rules 13 and 14.
IsEscalated(t, p) ==
  \/ Exceeds(Amount[t], p.require_identity_check_above_amount)
  \/ p.require_approval_above_threshold /\ Reaches(Amount[t], p.escalation_threshold)

EvaluateRules(t, p, total, count) ==
  IF IsDenied(t, p, total, count) THEN "DENIED"
  ELSE IF IsEscalated(t, p) THEN "ESCALATED" ELSE "APPROVED"

-----------------------------------------------------------------------------
(* Agents, policies and transactions *)

SetActive(up) ==
  /\ active # up
  /\ active' = up
  /\ UNCHANGED <<policies, clock, table, trail, session, history>>

\* An agent may have several policies.  Deactivating one writes a column that
\* the evaluation does not look at: it goes on applying it.
PutPolicy(i, p) ==
  /\ policies[i] # p
  /\ policies' = [policies EXCEPT ![i] = p]
  /\ inForce' = inForce \cup {p}
  /\ UNCHANGED <<active, clock, table, trail, session, overwritten, late, overruled>>

CreateTransaction(t) ==
  /\ status[t] = NoValue
  /\ status' = [status EXCEPT ![t] = "SUBMITTED"]
  /\ createdOn' = [createdOn EXCEPT ![t] = day]
  /\ uncounted' = IF firstSecond THEN uncounted \cup {t} ELSE uncounted
  /\ UNCHANGED <<active, policies, clock, decisionResult, trail, session, history>>

NextDay ==
  /\ day < MaxDay /\ ~ firstSecond
  /\ day' = day + 1 /\ firstSecond' = TRUE
  /\ UNCHANGED <<active, policies, table, trail, session, history>>

FirstSecondEnds ==
  /\ firstSecond /\ firstSecond' = FALSE
  /\ UNCHANGED <<active, policies, day, table, trail, session, history>>

-----------------------------------------------------------------------------
(* Evaluation: load, read the agent and the policy, sum the day's spend,   *)
(* count the day's transactions and apply the rules, commit, store a proof, *)
(* log.                                                                    *)

Start(s, t, step) ==
  /\ stage[s] = "new"
  /\ stage' = [stage EXCEPT ![s] = step]
  /\ tx' = [tx EXCEPT ![s] = t]
  /\ loaded' = [loaded EXCEPT ![s] = status[t]]
  /\ UNCHANGED <<active, policies, clock, table, trail, policy, spend, outcome, judgedOn,
                 history>>

\* Mutant of Evaluate: an escalated transaction may be evaluated again.
EvaluateUndecided(s, t) == status[t] \in {"SUBMITTED", "ESCALATED"} /\ Start(s, t, "loaded")

Evaluate(s, t) == status[t] = "SUBMITTED" /\ Start(s, t, "loaded")

ReadAgent(s) ==
  /\ stage[s] = "loaded"
  /\ stage' = [stage EXCEPT ![s] = IF active THEN "active" ELSE "inactive"]
  /\ UNCHANGED <<active, policies, clock, table, trail, tx, loaded, policy, spend, outcome,
                 judgedOn, history>>

\* Whichever row the query returns first; none for an agent that was not active,
\* which the rules treat alike.
ReadPolicy(s) ==
  /\ stage[s] \in {"active", "inactive"}
  /\ LET rows == IF stage[s] = "active" THEN {policies[i] : i \in PolicyIds} \ {NoValue}
                 ELSE {}
     IN \E p \in IF rows = {} THEN {NoValue} ELSE rows :
          policy' = [policy EXCEPT ![s] = p]
  /\ stage' = [stage EXCEPT ![s] = "policed"]
  /\ UNCHANGED <<active, policies, clock, table, trail, tx, loaded, spend, outcome, judgedOn,
                 history>>

\* created_at >= start_of_day compares texts on the default database, where the
\* first has no fraction and the second ends in ".000000": what was created in
\* the first second of a day comes before the start of that day.
Today ==
  {t \in Transactions : status[t] # NoValue /\ createdOn[t] = day /\ t \notin uncounted}

\* Mutant of Spent: a transaction that waits for its evaluation does not count.
SpentDecided == {t \in Today : status[t] \in {"APPROVED", "ESCALATED"}}

Spent == {t \in Today : status[t] \in {"APPROVED", "SUBMITTED", "ESCALATED"}}

ReadSpend(s) ==
  /\ stage[s] = "policed"
  /\ stage' = [stage EXCEPT ![s] = "summed"]
  /\ spend' = [spend EXCEPT ![s] = Total(Spent)]
  /\ UNCHANGED <<active, policies, clock, table, trail, tx, loaded, policy, outcome, judgedOn,
                 history>>

Judge(s) ==
  /\ stage[s] = "summed"
  /\ stage' = [stage EXCEPT ![s] = "judged"]
  /\ outcome' = [outcome EXCEPT ![s] =
       EvaluateRules(tx[s], policy[s], spend[s], Cardinality(Today))]
  /\ judgedOn' = [judgedOn EXCEPT ![s] = day]
  /\ policy' = [policy EXCEPT ![s] = NoValue]
  /\ spend' = [spend EXCEPT ![s] = 0]
  /\ UNCHANGED <<active, policies, clock, table, trail, tx, loaded, history>>

\* An update of a row that has changed since it was loaded goes unnoticed.
Write(s, value) ==
  /\ status' = [status EXCEPT ![tx[s]] = value]
  /\ overwritten' = IF status[tx[s]] = loaded[s] THEN overwritten
                    ELSE overwritten \cup {tx[s]}

SaveDecision(s) ==
  /\ stage[s] = "judged"
  /\ stage' = [stage EXCEPT ![s] = "saved"]
  /\ Write(s, outcome[s])
  /\ decisionResult' = [decisionResult EXCEPT ![tx[s]] = outcome[s]]
  /\ late' = IF judgedOn[s] = createdOn[tx[s]] THEN late ELSE late \cup {tx[s]}
  /\ judgedOn' = [judgedOn EXCEPT ![s] = 0]
  /\ UNCHANGED <<active, policies, clock, createdOn, uncounted, trail, tx, loaded, policy,
                 spend, outcome, inForce, overruled>>

CreateProof(s) ==
  /\ stage[s] = "saved"
  /\ stage' = [stage EXCEPT ![s] = "proved"]
  /\ proofs' = proofs \cup {<<tx[s], outcome[s]>>}
  /\ UNCHANGED <<active, policies, clock, table, approvals, audit, tx, loaded, policy, spend,
                 outcome, judgedOn, history>>

-----------------------------------------------------------------------------
(* Review: load, commit, log.  Any transaction may be reviewed. *)

Review(s, t) == status[t] # NoValue /\ Start(s, t, "reviewing")

\* The status is not written when the row that was loaded says the same already.
\* The approval row is inserted in the same commit; no proof is written.
SaveReview(s) ==
  /\ stage[s] = "reviewing"
  /\ stage' = [stage EXCEPT ![s] = "reviewed"]
  /\ \E verdict \in {"APPROVED", "DENIED"} :
       /\ approvals' = approvals \cup {<<tx[s], verdict>>}
       /\ outcome' = [outcome EXCEPT ![s] = verdict]
       /\ loaded' = [loaded EXCEPT ![s] = NoValue]
       /\ IF verdict = loaded[s] THEN UNCHANGED <<status, overwritten, overruled>>
          ELSE /\ Write(s, verdict)
               /\ overruled' =
                    IF verdict = "APPROVED" /\ status[tx[s]] \in {"SUBMITTED", "DENIED"}
                      THEN overruled \cup {tx[s]} ELSE overruled
  /\ UNCHANGED <<active, policies, clock, createdOn, uncounted, decisionResult, proofs, audit,
                 tx, policy, spend, judgedOn, inForce, late>>

-----------------------------------------------------------------------------

\* log_event, the last call of an evaluation and of a review.
Log(s) ==
  /\ stage[s] \in {"proved", "reviewed"}
  /\ stage' = [stage EXCEPT ![s] = "done"]
  /\ audit' = audit \cup
       {<<tx[s], outcome[s], IF stage[s] = "proved" THEN "EVALUATION" ELSE "APPROVAL">>}
  /\ tx' = [tx EXCEPT ![s] = NoValue]
  /\ loaded' = [loaded EXCEPT ![s] = NoValue]
  /\ outcome' = [outcome EXCEPT ![s] = NoValue]
  /\ UNCHANGED <<active, policies, clock, table, proofs, approvals, policy, spend, judgedOn,
                 history>>

GateNext ==
  \/ \E up \in BOOLEAN : SetActive(up)
  \/ \E i \in PolicyIds, p \in Policies : PutPolicy(i, p)
  \/ \E t \in Transactions : CreateTransaction(t)
  \/ NextDay \/ FirstSecondEnds
  \/ \E s \in Sessions :
       \/ \E t \in Transactions : Evaluate(s, t) \/ Review(s, t)
       \/ ReadAgent(s) \/ ReadPolicy(s) \/ ReadSpend(s) \/ Judge(s) \/ SaveDecision(s)
       \/ CreateProof(s) \/ SaveReview(s) \/ Log(s)

GateSpec == GateInit /\ [][GateNext]_gateVars

-----------------------------------------------------------------------------
(* Properties *)

Regular == Transactions \ (overwritten \cup late \cup overruled \cup uncounted)

\* The transactions of a day that are approved or escalated fit the budget and
\* the number of some policy that has been in force, although their
\* evaluations run at once and none sees what the others are about to decide:
\* each counts all that were submitted by then, itself included.  The totals
\* leave out what a racing write, an evaluation on a later day, a review of
\* something that was not escalated or a creation in the first second of the
\* day has let through.
LimitsUnlessBypassed ==
  \A d \in 0 .. day :
    LET granted ==
          {t \in Regular : status[t] \in {"APPROVED", "ESCALATED"} /\ createdOn[t] = d}
    IN granted # {} =>
         \E p \in inForce :
           /\ ~ Exceeds(Total(granted), p.daily_budget)
           /\ ~ Reaches(Cardinality(granted), p.max_transactions_per_day)

\* A call has written the row and has records of that still to write.
Unrecorded(t) ==
  \E s \in Sessions : tx[s] = t /\ stage[s] \in {"saved", "proved", "reviewed"}

Evaluated(t, result) == <<t, result>> \in proofs /\ <<t, result, "EVALUATION">> \in audit
Reviewed(t, verdict) == <<t, verdict>> \in approvals /\ <<t, verdict, "APPROVAL">> \in audit

\* Whichever evaluations and reviews race, the records account for the row once
\* the calls that wrote it have logged: its decision has a proof and a log
\* entry, and its status is that of such a proof or that of an approval row and
\* its log entry.  Unless two calls wrote the row at once, no proof tells of
\* another decision than the row, nor of another status than the row except
\* where a reviewer has given a verdict, which no proof is written for.
RecordsTell ==
  \A t \in Transactions :
    /\ ~ Unrecorded(t) =>
         /\ decisionResult[t] # NoValue => Evaluated(t, decisionResult[t])
         /\ status[t] \notin {NoValue, "SUBMITTED"} =>
              Evaluated(t, status[t]) \/ Reviewed(t, status[t])
    /\ t \notin overwritten =>
         \A p \in proofs : p[1] = t =>
           /\ p[2] = decisionResult[t]
           /\ p[2] = status[t] \/ \E a \in approvals : a[1] = t
=============================================================================
