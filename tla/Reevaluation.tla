--------------------------- MODULE Reevaluation ---------------------------
(***************************************************************************)
(* Automated re-evaluation of one intent.  Models reevaluation_job.trigger *)
(* with the services it calls (impact_analysis, supersession_service,      *)
(* authorization_invalidation, proof_supersession), and the calls of other *)
(* sessions that meet it: decide, issue, whatever ends an authorization,   *)
(* and the storing of a proof.                                             *)
(*                                                                         *)
(* A job commits after every record it writes.  Any exception rolls back   *)
(* what is not committed and marks the run FAILED; earlier commits stay.   *)
(* A job whose process dies takes no further step.                         *)
(*                                                                         *)
(* Decisions, authorizations and proofs are numbered in the order of       *)
(* created_at.  The evaluations that decisions belong to, which the job's  *)
(* queries do not look at, which terminal status an authorization has (see *)
(* ExecutionAuthorization) and the proofs' handoff are left out.           *)
(***************************************************************************)
EXTENDS Integers

CONSTANTS
  Jobs,               \* calls of trigger
  PageSize,           \* the limit of list_for_intent: 100 in the code
  FirstDecisions,     \* bound: decide is not called on a longer table
  MaxDecisions,       \* bound on the decisions table
  MaxAuthorizations,  \* bound on the authorizations table
  FirstProofs,        \* bound: generate is not called on a longer table
  MaxProofs           \* bound on the canonical_ai_proofs table

ASSUME BoundsAssumption ==
  /\ PageSize \in Nat \ {0} /\ MaxAuthorizations \in Nat
  /\ MaxDecisions \in Nat /\ FirstDecisions \in 0 .. MaxDecisions
  /\ MaxProofs \in Nat /\ FirstProofs \in 0 .. MaxProofs

\* "OTHER" stands for DENIED and ESCALATED.
Outcomes == {"APPROVED", "OTHER"}

Nothing == 0

VARIABLES
  \* the decisions of the intent
  decided, outcome, supersession, successor, prior,
  \* its authorizations
  issued,
  live,         \* those in no terminal status
  revived,      \* those that verify made live again
  \* its proofs
  proved, follows, followedBy,
  \* the reevaluation_runs, one per job, and the jobs' sessions
  pc, run,
  outstanding,  \* the number of authorizations when the impact was analyzed
  before, result,
  withdraws,    \* whether the conditions no longer hold
  own, oldProof, ownProof,
  cursor        \* how many of the authorizations listed have been dealt with

decisionVars == <<decided, outcome, supersession, successor, prior>>
authorizationVars == <<issued, live, revived>>
proofVars == <<proved, follows, followedBy>>
planVars == <<outstanding, before, result, withdraws>>
ownVars == <<own, oldProof, ownProof>>
jobVars == <<pc, run, planVars, ownVars, cursor>>
vars == <<decisionVars, authorizationVars, proofVars, jobVars>>

Rows == 1 .. MaxDecisions
Decisions == 1 .. decided
Authorizations == 1 .. issued
ProofRows == 1 .. MaxProofs
Proofs == 1 .. proved

Init ==
  /\ decided = 0
  /\ outcome = [d \in Rows |-> "OTHER"]
  /\ supersession = [d \in Rows |-> "CURRENT"]
  /\ successor = [d \in Rows |-> Nothing]
  /\ prior = [d \in Rows |-> Nothing]
  /\ issued = 0
  /\ live = {}
  /\ revived = {}
  /\ proved = 0
  /\ follows = [p \in ProofRows |-> Nothing]
  /\ followedBy = [p \in ProofRows |-> Nothing]
  /\ pc = [j \in Jobs |-> "idle"]
  /\ run = [j \in Jobs |-> "none"]
  /\ outstanding = [j \in Jobs |-> 0]
  /\ before = [j \in Jobs |-> Nothing]
  /\ result = [j \in Jobs |-> "OTHER"]
  /\ withdraws = [j \in Jobs |-> FALSE]
  /\ own = [j \in Jobs |-> Nothing]
  /\ oldProof = [j \in Jobs |-> Nothing]
  /\ ownProof = [j \in Jobs |-> Nothing]
  /\ cursor = [j \in Jobs |-> 0]

\* The newest element of a set of rows that are numbered by age.
IsNewestOf(x, S) == x \in S /\ \A y \in S : x >= y

NewestOrNothing(x, S) == IsNewestOf(x, S) \/ (S = {} /\ x = Nothing)

Current == {d \in Decisions : supersession[d] = "CURRENT"}

Unfollowed == {p \in Proofs : followedBy[p] = Nothing}

-----------------------------------------------------------------------------
(* The job *)

\* The run is committed, and the impact of the event analyzed: the query that
\* lists the intent's authorizations returns one page of them, oldest first.
\* What happens between the two steps could as well happen before both.
Trigger(j) ==
  /\ pc[j] = "idle"
  /\ pc' = [pc EXCEPT ![j] = "analyzed"]
  /\ run' = [run EXCEPT ![j] = "IN_PROGRESS"]
  /\ outstanding' = [outstanding EXCEPT ![j] = issued]
  /\ UNCHANGED <<decisionVars, authorizationVars, proofVars, before, result,
                 withdraws, ownVars, cursor>>

\* The event leads to no intent: the run ends.
NoAction(j) ==
  /\ pc[j] = "idle"
  /\ pc' = [pc EXCEPT ![j] = "ended"]
  /\ run' = [run EXCEPT ![j] = "NO_ACTION"]
  /\ UNCHANGED <<decisionVars, authorizationVars, proofVars, planVars, ownVars,
                 cursor>>

Listed(j) == IF outstanding[j] <= PageSize THEN outstanding[j] ELSE PageSize

\* Load the current decision and resolve the outcome: any, since the caller may
\* request one in place of the change's default.  Authorizations are withdrawn
\* unless it is APPROVED, and by some kinds of change (w) even then.  The
\* assessment commits after this step, and the decision after that.
FindPrior(j, p, o, w) ==
  /\ pc[j] = "analyzed"
  /\ NewestOrNothing(p, Current)
  /\ pc' = [pc EXCEPT ![j] = "resolved"]
  /\ before' = [before EXCEPT ![j] = p]
  /\ result' = [result EXCEPT ![j] = o]
  /\ withdraws' = [withdraws EXCEPT ![j] = o # "APPROVED" \/ w]
  /\ UNCHANGED <<decisionVars, authorizationVars, proofVars, run, outstanding,
                 ownVars, cursor>>

AfterSupersede(j) == IF withdraws[j] THEN "withdrawing" ELSE "proving"

\* Mutant of Insert: the new decision does not name the prior one.
InsertWithoutPrior(j) ==
  /\ pc[j] = "resolved" /\ decided < MaxDecisions
  /\ decided' = decided + 1
  /\ outcome' = [outcome EXCEPT ![decided + 1] = result[j]]
  /\ own' = [own EXCEPT ![j] = decided + 1]
  /\ pc' = [pc EXCEPT ![j] = IF before[j] = Nothing THEN AfterSupersede(j)
                                                    ELSE "inserted"]
  /\ UNCHANGED <<supersession, successor, prior, authorizationVars, proofVars,
                 run, planVars, oldProof, ownProof, cursor>>

Insert(j) ==
  /\ pc[j] = "resolved" /\ decided < MaxDecisions
  /\ decided' = decided + 1
  /\ outcome' = [outcome EXCEPT ![decided + 1] = result[j]]
  /\ prior' = [prior EXCEPT ![decided + 1] = before[j]]
  /\ own' = [own EXCEPT ![j] = decided + 1]
  /\ pc' = [pc EXCEPT ![j] = IF before[j] = Nothing THEN AfterSupersede(j)
                                                    ELSE "inserted"]
  /\ UNCHANGED <<supersession, successor, authorizationVars, proofVars,
                 run, planVars, oldProof, ownProof, cursor>>

\* Mutant of Supersede: the link leads to the newest decision.
SupersedeByNewest(j) ==
  /\ pc[j] = "inserted"
  /\ supersession' = [supersession EXCEPT ![before[j]] = "SUPERSEDED"]
  /\ successor' = [successor EXCEPT ![before[j]] = decided]
  /\ pc' = [pc EXCEPT ![j] = AfterSupersede(j)]
  /\ UNCHANGED <<decided, outcome, prior, authorizationVars, proofVars,
                 run, planVars, ownVars, cursor>>

\* The row may have been superseded by another job meanwhile.
Supersede(j) ==
  /\ pc[j] = "inserted"
  /\ supersession' = [supersession EXCEPT ![before[j]] = "SUPERSEDED"]
  /\ successor' = [successor EXCEPT ![before[j]] = own[j]]
  /\ pc' = [pc EXCEPT ![j] = AfterSupersede(j)]
  /\ UNCHANGED <<decided, outcome, prior, authorizationVars, proofVars,
                 run, planVars, ownVars, cursor>>

\* Mutant of WithdrawNext: it runs past the end of the page.
WithdrawPastPage(j) ==
  /\ pc[j] = "withdrawing" /\ cursor[j] <= Listed(j)
  /\ live' = live \ {cursor[j] + 1}
  /\ cursor' = [cursor EXCEPT ![j] = cursor[j] + 1]
  /\ UNCHANGED <<decisionVars, issued, revived, proofVars, pc, run, planVars,
                 ownVars>>

\* Mutant of WithdrawNext: off by one.
WithdrawLast(j) ==
  /\ pc[j] = "withdrawing" /\ cursor[j] < Listed(j)
  /\ live' = live \ {cursor[j]}
  /\ cursor' = [cursor EXCEPT ![j] = cursor[j] + 1]
  /\ UNCHANGED <<decisionVars, issued, revived, proofVars, pc, run, planVars,
                 ownVars>>

\* The page is dealt with in order, one commit each: an authorization that is
\* not terminal yet becomes EXPIRED or REVOKED.
WithdrawNext(j) ==
  /\ pc[j] = "withdrawing" /\ cursor[j] < Listed(j)
  /\ live' = live \ {cursor[j] + 1}
  /\ cursor' = [cursor EXCEPT ![j] = cursor[j] + 1]
  /\ UNCHANGED <<decisionVars, issued, revived, proofVars, pc, run, planVars,
                 ownVars>>

\* Load the newest proof that none has superseded.
LoadProof(j, p) ==
  /\ pc[j] = "proving" \/ (pc[j] = "withdrawing" /\ cursor[j] = Listed(j))
  /\ NewestOrNothing(p, Unfollowed)
  /\ pc' = [pc EXCEPT ![j] = "generated"]
  /\ oldProof' = [oldProof EXCEPT ![j] = p]
  /\ UNCHANGED <<decisionVars, authorizationVars, proofVars, run, planVars,
                 own, ownProof, cursor>>

StoreProof(j) ==
  /\ pc[j] = "generated" /\ proved < MaxProofs
  /\ proved' = proved + 1
  /\ follows' = [follows EXCEPT ![proved + 1] = oldProof[j]]
  /\ ownProof' = [ownProof EXCEPT ![j] = proved + 1]
  /\ pc' = [pc EXCEPT ![j] = IF oldProof[j] = Nothing THEN "finishing"
                                                      ELSE "stored"]
  /\ UNCHANGED <<decisionVars, authorizationVars, followedBy, run,
                 planVars, own, oldProof, cursor>>

SupersedeProof(j) ==
  /\ pc[j] = "stored"
  /\ followedBy' = [followedBy EXCEPT ![oldProof[j]] = ownProof[j]]
  /\ pc' = [pc EXCEPT ![j] = "finishing"]
  /\ UNCHANGED <<decisionVars, authorizationVars, proved, follows, run,
                 planVars, ownVars, cursor>>

Complete(j) ==
  /\ pc[j] = "finishing"
  /\ pc' = [pc EXCEPT ![j] = "ended"]
  /\ run' = [run EXCEPT ![j] = "COMPLETED"]
  /\ UNCHANGED <<decisionVars, authorizationVars, proofVars, planVars, ownVars,
                 cursor>>

\* An exception: what is committed stays, and the run says FAILED; it names
\* none of the records that the job wrote.
Fail(j) ==
  /\ pc[j] \notin {"idle", "ended"}
  /\ pc' = [pc EXCEPT ![j] = "ended"]
  /\ run' = [run EXCEPT ![j] = "FAILED"]
  /\ outstanding' = [outstanding EXCEPT ![j] = 0]
  /\ before' = [before EXCEPT ![j] = Nothing]
  /\ result' = [result EXCEPT ![j] = "OTHER"]
  /\ withdraws' = [withdraws EXCEPT ![j] = FALSE]
  /\ own' = [own EXCEPT ![j] = Nothing]
  /\ oldProof' = [oldProof EXCEPT ![j] = Nothing]
  /\ ownProof' = [ownProof EXCEPT ![j] = Nothing]
  /\ cursor' = [cursor EXCEPT ![j] = 0]
  /\ UNCHANGED <<decisionVars, authorizationVars, proofVars>>

-----------------------------------------------------------------------------
(* Other sessions *)

\* The first decision of an evaluation: it has no prior to supersede.
Decide(o) ==
  /\ decided < FirstDecisions
  /\ decided' = decided + 1
  /\ outcome' = [outcome EXCEPT ![decided + 1] = o]
  /\ UNCHANGED <<supersession, successor, prior, authorizationVars, proofVars,
                 jobVars>>

\* issue looks at the outcome of the decision only, which may be SUPERSEDED.
Issue(d) ==
  /\ outcome[d] = "APPROVED" /\ issued < MaxAuthorizations
  /\ issued' = issued + 1
  /\ live' = live \cup {issued + 1}
  /\ UNCHANGED <<decisionVars, revived, proofVars, jobVars>>

\* consume, the revoke endpoint, or an expiry noticed on a read: whichever
\* terminal status is written, and over which.
Close(a) ==
  /\ live' = live \ {a}
  /\ UNCHANGED <<decisionVars, issued, revived, proofVars, jobVars>>

\* verify saves as ACTIVE a row that it read while it was ISSUED.  A call can
\* have read it at any time before it became terminal and keeps nothing else,
\* so only the save is a step.
VerifyRevives(a) ==
  /\ live' = live \cup {a}
  /\ revived' = revived \cup {a}
  /\ UNCHANGED <<decisionVars, issued, proofVars, jobVars>>

\* The generate endpoint stores a proof; the caller names the proof it follows,
\* if any, and that one is not marked.
Generate(p) ==
  /\ proved < FirstProofs
  /\ proved' = proved + 1
  /\ follows' = [follows EXCEPT ![proved + 1] = p]
  /\ UNCHANGED <<decisionVars, authorizationVars, followedBy, jobVars>>

Step(j) ==
  \/ Trigger(j)
  \/ NoAction(j)
  \/ \E p \in Decisions \cup {Nothing}, o \in Outcomes, w \in BOOLEAN :
       FindPrior(j, p, o, w)
  \/ Insert(j)
  \/ Supersede(j)
  \/ WithdrawNext(j)
  \/ \E p \in Proofs \cup {Nothing} : LoadProof(j, p)
  \/ StoreProof(j)
  \/ SupersedeProof(j)
  \/ Complete(j)
  \/ Fail(j)

Others ==
  \/ \E o \in Outcomes : Decide(o)
  \/ \E d \in Decisions : Issue(d)
  \/ \E a \in live : Close(a)
  \/ \E a \in Authorizations \ live : VerifyRevives(a)
  \/ \E p \in Proofs \cup {Nothing} : Generate(p)

Next ==
  \/ \E j \in Jobs : Step(j)
  \/ Others

Spec == Init /\ [][Next]_vars

-----------------------------------------------------------------------------
(* Properties *)

TypeOK ==
  /\ decided \in 0 .. MaxDecisions
  /\ outcome \in [Rows -> Outcomes]
  /\ supersession \in [Rows -> {"CURRENT", "SUPERSEDED"}]
  /\ successor \in [Rows -> 0 .. MaxDecisions]
  /\ prior \in [Rows -> 0 .. MaxDecisions]
  /\ issued \in 0 .. MaxAuthorizations
  /\ live \subseteq Authorizations
  /\ revived \subseteq Authorizations
  /\ proved \in 0 .. MaxProofs
  /\ follows \in [ProofRows -> 0 .. MaxProofs]
  /\ followedBy \in [ProofRows -> 0 .. MaxProofs]
  /\ pc \in [Jobs -> {"idle", "analyzed", "resolved", "inserted",
                      "withdrawing", "proving", "generated", "stored",
                      "finishing", "ended"}]
  /\ run \in [Jobs -> {"none", "IN_PROGRESS", "NO_ACTION", "COMPLETED",
                       "FAILED"}]
  /\ outstanding \in [Jobs -> 0 .. MaxAuthorizations]
  /\ before \in [Jobs -> 0 .. MaxDecisions]
  /\ result \in [Jobs -> Outcomes]
  /\ withdraws \in [Jobs -> BOOLEAN]
  /\ own \in [Jobs -> 0 .. MaxDecisions]
  /\ oldProof \in [Jobs -> 0 .. MaxProofs]
  /\ ownProof \in [Jobs -> 0 .. MaxProofs]
  /\ cursor \in [Jobs -> 0 .. PageSize]

\* Both chains that a re-evaluation extends are linked both ways and run along
\* the age of the records: the successor of a decision (proof) is newer and
\* names it as its prior.  So however jobs race, a walk along the links ends.
ChainsSound ==
  /\ \A d \in Decisions :
       /\ prior[d] < d
       /\ supersession[d] = "SUPERSEDED" =>
            successor[d] > d /\ prior[successor[d]] = d
  /\ \A p \in Proofs :
       followedBy[p] # Nothing =>
         followedBy[p] > p /\ follows[followedBy[p]] = p

\* decision_chain: back from d along prior_decision_id to the root, and forward
\* from there along superseded_by_decision_id.
Root[d \in Rows] == IF prior[d] = Nothing THEN d ELSE Root[prior[d]]

Onward[d \in Rows] ==
  {d} \cup IF successor[d] = Nothing THEN {} ELSE Onward[successor[d]]

Chain(d) == Onward[Root[d]]

Lineage[d \in Rows] ==
  {d} \cup IF prior[d] = Nothing THEN {} ELSE Lineage[prior[d]]

\* A decision that its own chain does not list has in its lineage one that two
\* decisions name as their prior, or that is not linked forward (the job that
\* should do it is between its commits, or has failed there).
ChainWholeUnlessForked ==
  \A d \in Decisions :
    d \notin Chain(d) =>
      \E e \in Lineage[d] :
        /\ prior[e] # Nothing
        /\ \/ successor[prior[e]] = Nothing
           \/ \E f \in Decisions : f # e /\ prior[f] = prior[e]

Completed(j) == run[j] = "COMPLETED"

\* A COMPLETED run has done all it stands for, whatever met it on the way: its
\* decision superseded the prior one, its proof the old one, and when the
\* conditions no longer hold none of the authorizations on the page listed at
\* the trigger is live, but those that verify revived.
CompletedIsWhole ==
  \A j \in Jobs :
    Completed(j) =>
      /\ before[j] # Nothing => supersession[before[j]] = "SUPERSEDED"
      /\ oldProof[j] # Nothing => followedBy[oldProof[j]] # Nothing
      /\ withdraws[j] =>
           \A a \in live : a > outstanding[j] \/ a > PageSize \/ a \in revived
=============================================================================
