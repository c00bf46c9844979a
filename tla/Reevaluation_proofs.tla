------------------------- MODULE Reevaluation_proofs -------------------------
(***************************************************************************)
(* Proofs about Reevaluation, for any number of jobs and any bounds.       *)
(*                                                                         *)
(* The inductive invariant says what a job has achieved at each of its     *)
(* commits, in terms that no step of another job undoes: the links it has  *)
(* written lead to newer records that name their predecessors, and of the  *)
(* authorizations it has dealt with only revived ones are live.            *)
(***************************************************************************)
EXTENDS Reevaluation, FiniteSetTheorems, WellFoundedInduction, TLAPS

\* Links lead to newer decisions that name the older one; rows still unused
\* have none.
DecisionsSound ==
  /\ \A d \in Rows \ Decisions :
       /\ prior[d] = Nothing /\ successor[d] = Nothing
       /\ supersession[d] = "CURRENT"
  /\ \A d \in Decisions :
       /\ prior[d] < d
       /\ supersession[d] = "SUPERSEDED" <=> successor[d] # Nothing
       /\ successor[d] # Nothing =>
            /\ successor[d] \in Decisions /\ successor[d] > d
            /\ prior[successor[d]] = d

ProofsSound ==
  /\ \A p \in ProofRows \ Proofs : followedBy[p] = Nothing
  /\ \A p \in Proofs :
       followedBy[p] # Nothing =>
         /\ followedBy[p] \in Proofs /\ followedBy[p] > p
         /\ follows[followedBy[p]] = p

\* The job is at one of the stages, or was at the last one when it completed.
Reached(j, stages) == pc[j] \in stages \/ Completed(j)

Proving == {"generated", "stored", "finishing"}
Superseded == {"withdrawing", "proving"} \cup Proving
Resolved == {"resolved", "inserted"} \cup Superseded

\* The job's decision and the one before it.
DecisionLinked(j) ==
  /\ Reached(j, Resolved) => before[j] \in Decisions \cup {Nothing}
  /\ pc[j] = "inserted" =>
       /\ before[j] \in Decisions /\ own[j] \in Decisions
       /\ own[j] > before[j] /\ prior[own[j]] = before[j]
  /\ Reached(j, Superseded) /\ before[j] # Nothing =>
       supersession[before[j]] = "SUPERSEDED"

\* The job's proof and the one before it.
ProofLinked(j) ==
  /\ Reached(j, Proving) => oldProof[j] \in Proofs \cup {Nothing}
  /\ pc[j] = "stored" =>
       /\ oldProof[j] \in Proofs /\ ownProof[j] \in Proofs
       /\ ownProof[j] > oldProof[j] /\ follows[ownProof[j]] = oldProof[j]
  /\ Reached(j, {"finishing"}) /\ oldProof[j] # Nothing =>
       followedBy[oldProof[j]] # Nothing

\* The authorizations up to n are dealt with.
Dealt(n) == \A a \in live : a > n \/ a \in revived

Withdrawn(j) ==
  /\ outstanding[j] <= issued
  /\ cursor[j] <= Listed(j)
  /\ pc[j] \in {"idle", "analyzed", "resolved", "inserted"} => cursor[j] = 0
  /\ pc[j] = "withdrawing" => Dealt(cursor[j])
  /\ pc[j] = "proving" => ~ withdraws[j]
  /\ Reached(j, Proving) /\ withdraws[j] => Dealt(Listed(j))

JobSound(j) ==
  /\ Completed(j) => pc[j] = "ended"
  /\ DecisionLinked(j)
  /\ ProofLinked(j)
  /\ Withdrawn(j)

JobsSound == \A j \in Jobs : JobSound(j)

\* A step leaves what the invariant says of the job alone.
JobUnchanged(j) ==
  /\ pc'[j] = pc[j] /\ run'[j] = run[j]
  /\ outstanding'[j] = outstanding[j] /\ before'[j] = before[j]
  /\ withdraws'[j] = withdraws[j] /\ own'[j] = own[j]
  /\ oldProof'[j] = oldProof[j] /\ ownProof'[j] = ownProof[j]
  /\ cursor'[j] = cursor[j]

IInv ==
  /\ TypeOK
  /\ DecisionsSound
  /\ ProofsSound
  /\ JobsSound

LEMMA InitInv == Init => IInv
BY BoundsAssumption
   DEF Init, IInv, TypeOK, DecisionsSound, ProofsSound, JobsSound, JobSound,
       DecisionLinked, ProofLinked, Withdrawn, Reached, Completed, Listed,
       Resolved, Superseded, Proving, Dealt, Rows, ProofRows, Decisions,
       Authorizations, Proofs, Nothing, Outcomes

\* The tables and the rows that are still free.
LEMMA TableFacts ==
  ASSUME TypeOK
  PROVE  /\ MaxDecisions \in Nat /\ decided \in Nat /\ decided <= MaxDecisions
         /\ Decisions \subseteq Rows
         /\ decided < MaxDecisions => decided + 1 \in Rows \ Decisions
         /\ MaxProofs \in Nat /\ proved \in Nat /\ proved <= MaxProofs
         /\ Proofs \subseteq ProofRows
         /\ proved < MaxProofs => proved + 1 \in ProofRows \ Proofs
<1>1. /\ MaxDecisions \in Nat /\ MaxProofs \in Nat
      /\ decided \in 0 .. MaxDecisions /\ proved \in 0 .. MaxProofs
  BY BoundsAssumption DEF TypeOK
<1> QED
  BY <1>1 DEF Rows, Decisions, ProofRows, Proofs

\* The links back lead to older decisions.
LEMMA PriorOlder ==
  ASSUME TypeOK, DecisionsSound, NEW d \in Rows, prior[d] # Nothing
  PROVE  /\ prior[d] \in Decisions /\ prior[d] \in Rows /\ prior[d] < d
         /\ prior[d] \in Nat /\ d \in Nat
<1>1. /\ d \in Decisions /\ prior[d] < d /\ prior[d] \in Nat \ {0}
      /\ decided \in Nat
  BY TableFacts DEF TypeOK, DecisionsSound, Nothing
<1>2. prior[d] \in Decisions /\ d \in Nat
  BY <1>1 DEF Decisions
<1> QED
  BY <1>1, <1>2, TableFacts

-----------------------------------------------------------------------------
(* Steps of a job that write no decision, authorization or proof *)

LEMMA JobMoves ==
  ASSUME IInv, NEW j \in Jobs,
         UNCHANGED <<decisionVars, authorizationVars, proofVars>>, TypeOK',
         \A k \in Jobs \ {j} : JobUnchanged(k), JobSound(j)'
  PROVE  IInv'
<1> USE DEF IInv, decisionVars, authorizationVars, proofVars
<1>1. DecisionsSound' /\ ProofsSound'
  BY DEF DecisionsSound, ProofsSound, Decisions, Proofs
<1>2. ASSUME NEW k \in Jobs \ {j}
      PROVE  JobSound(k)'
  <2>1. JobSound(k)
    BY DEF JobsSound
  <2> QED
    BY <2>1
       DEF JobUnchanged, JobSound, DecisionLinked, ProofLinked, Withdrawn,
           Reached, Completed, Listed, Dealt, Decisions, Proofs
<1> QED
  BY <1>1, <1>2 DEF JobsSound

LEMMA TriggerInv ==
  ASSUME IInv, NEW j \in Jobs, Trigger(j)
  PROVE  IInv'
<1> USE DEF Trigger, ownVars
<1>1. TypeOK'
  BY DEF IInv, TypeOK, Authorizations, Proofs, Decisions,
         decisionVars, authorizationVars, proofVars
<1>2. /\ pc'[j] = "analyzed" /\ run'[j] = "IN_PROGRESS" /\ cursor'[j] = 0
      /\ outstanding'[j] = issued
  BY DEF IInv, TypeOK, JobsSound, JobSound, Withdrawn
<1>3. JobSound(j)'
  BY <1>2, BoundsAssumption
     DEF IInv, TypeOK, JobSound, DecisionLinked, ProofLinked, Withdrawn,
         Reached, Completed, Listed, Resolved, Superseded, Proving,
         authorizationVars
<1> QED
  BY <1>1, <1>3, JobMoves DEF IInv, TypeOK, JobUnchanged

LEMMA NoActionInv ==
  ASSUME IInv, NEW j \in Jobs, NoAction(j)
  PROVE  IInv'
<1> USE DEF NoAction, planVars, ownVars
<1>1. TypeOK'
  BY DEF IInv, TypeOK, Authorizations, decisionVars, authorizationVars,
         proofVars
<1>2. /\ pc'[j] = "ended" /\ run'[j] = "NO_ACTION"
      /\ outstanding[j] <= issued /\ cursor[j] <= Listed(j)
  BY DEF IInv, TypeOK, JobsSound, JobSound, Withdrawn
<1>3. JobSound(j)'
  BY <1>2
     DEF JobSound, DecisionLinked, ProofLinked, Withdrawn,
         Reached, Completed, Listed, Resolved, Superseded, Proving,
         authorizationVars
<1> QED
  BY <1>1, <1>3, JobMoves DEF IInv, TypeOK, JobUnchanged

LEMMA FindPriorInv ==
  ASSUME IInv, NEW j \in Jobs, NEW p \in Decisions \cup {Nothing},
         NEW o \in Outcomes, NEW w \in BOOLEAN, FindPrior(j, p, o, w)
  PROVE  IInv'
<1> USE DEF FindPrior, ownVars
<1>1. TypeOK'
  BY BoundsAssumption
     DEF IInv, TypeOK, Authorizations, Decisions, Nothing,
         decisionVars, authorizationVars, proofVars
<1>2. /\ pc[j] = "analyzed" /\ pc'[j] = "resolved" /\ before'[j] = p
      /\ ~ Completed(j)
      /\ outstanding[j] <= issued /\ cursor[j] <= Listed(j) /\ cursor[j] = 0
  BY DEF IInv, TypeOK, JobsSound, JobSound, Withdrawn
<1>3. JobSound(j)'
  BY <1>2
     DEF JobSound, DecisionLinked, ProofLinked, Withdrawn,
         Reached, Completed, Listed, Resolved, Superseded, Proving, Decisions,
         authorizationVars, decisionVars
<1> QED
  BY <1>1, <1>3, JobMoves DEF IInv, TypeOK, JobUnchanged

LEMMA LoadProofInv ==
  ASSUME IInv, NEW j \in Jobs, NEW p \in Proofs \cup {Nothing}, LoadProof(j, p)
  PROVE  IInv'
<1> USE DEF LoadProof, planVars
<1>1. TypeOK'
  BY BoundsAssumption
     DEF IInv, TypeOK, Authorizations, Proofs, Nothing,
         decisionVars, authorizationVars, proofVars
<1>2. /\ pc[j] \in {"proving", "withdrawing"} /\ pc'[j] = "generated"
      /\ oldProof'[j] = p /\ ~ Completed(j)
      /\ DecisionLinked(j) /\ Withdrawn(j)
      /\ withdraws[j] => Dealt(Listed(j))
  BY DEF IInv, TypeOK, JobsSound, JobSound, Withdrawn
<1>3. DecisionLinked(j)'
  BY <1>2 DEF DecisionLinked, Reached, Completed, Resolved, Superseded, Proving,
              Decisions, decisionVars
<1>4. ProofLinked(j)' /\ (Completed(j) => pc[j] = "ended")'
  BY <1>2 DEF ProofLinked, Reached, Completed, Proving, Proofs, proofVars
<1>5. Withdrawn(j)'
  BY <1>2 DEF Withdrawn, Reached, Completed, Proving, Listed, Dealt,
              authorizationVars
<1> QED
  BY <1>1, <1>3, <1>4, <1>5, JobMoves
     DEF IInv, TypeOK, JobSound, JobUnchanged

LEMMA CompleteInv ==
  ASSUME IInv, NEW j \in Jobs, Complete(j)
  PROVE  IInv'
<1> USE DEF Complete, planVars, ownVars
<1>1. TypeOK'
  BY DEF IInv, TypeOK, Authorizations, decisionVars, authorizationVars,
         proofVars
<1>2. /\ pc[j] = "finishing" /\ pc'[j] = "ended" /\ JobSound(j)
  BY DEF IInv, TypeOK, JobsSound
<1>3. JobSound(j)'
  BY <1>2
     DEF JobSound, DecisionLinked, ProofLinked, Withdrawn, Reached, Completed,
         Listed, Dealt, Resolved, Superseded, Proving, Decisions, Proofs,
         decisionVars, authorizationVars, proofVars
<1> QED
  BY <1>1, <1>3, JobMoves DEF IInv, TypeOK, JobUnchanged

LEMMA FailInv ==
  ASSUME IInv, NEW j \in Jobs, Fail(j)
  PROVE  IInv'
<1> USE DEF Fail
<1>1. TypeOK'
  BY BoundsAssumption
     DEF IInv, TypeOK, Authorizations, Nothing, Outcomes,
         decisionVars, authorizationVars, proofVars
<1>2. /\ pc'[j] = "ended" /\ run'[j] = "FAILED"
      /\ outstanding'[j] = 0 /\ cursor'[j] = 0
  BY DEF IInv, TypeOK
<1>3. JobSound(j)'
  BY <1>2, BoundsAssumption
     DEF IInv, TypeOK, JobSound, DecisionLinked, ProofLinked, Withdrawn,
         Reached, Completed, Listed, Resolved, Superseded, Proving,
         authorizationVars
<1> QED
  BY <1>1, <1>3, JobMoves DEF IInv, TypeOK, JobUnchanged

-----------------------------------------------------------------------------
(* Steps that write records *)

\* What a job relies on survives every write that keeps the links there are and
\* revives no authorization unnoticed.
LEMMA TablesGrow ==
  ASSUME IInv, TypeOK', DecisionsSound', ProofsSound',
         \A k \in Jobs : JobUnchanged(k) \/ JobSound(k)',
         decided <= decided', proved <= proved', issued <= issued',
         \A d \in Decisions :
           /\ prior'[d] = prior[d]
           /\ supersession[d] = "SUPERSEDED" => supersession'[d] = "SUPERSEDED",
         \A p \in Proofs :
           /\ follows'[p] = follows[p]
           /\ followedBy[p] # Nothing => followedBy'[p] # Nothing,
         \A a \in live' \ live : a > issued \/ a \in revived',
         revived \subseteq revived'
  PROVE  IInv'
<1>1. /\ Decisions \subseteq Decisions' /\ Proofs \subseteq Proofs'
      /\ PageSize \in Nat /\ issued \in Nat /\ issued' \in Nat
  BY BoundsAssumption DEF IInv, TypeOK, Decisions, Proofs
<1>2. ASSUME NEW k \in Jobs, JobUnchanged(k)
      PROVE  JobSound(k)'
  <2> USE DEF JobUnchanged, Reached, Completed
  <2>1. JobSound(k)
    BY DEF IInv, JobsSound
  <2>2. DecisionLinked(k)'
    BY <1>1, <1>2, <2>1
       DEF JobSound, DecisionLinked, Resolved, Superseded, Nothing
  <2>3. ProofLinked(k)'
    BY <1>1, <1>2, <2>1 DEF JobSound, ProofLinked, Proving, Nothing
  <2>4. /\ cursor[k] <= Listed(k) /\ Listed(k) <= outstanding[k]
        /\ outstanding[k] <= issued /\ Listed(k)' = Listed(k)
        /\ cursor[k] \in Nat /\ Listed(k) \in Nat /\ outstanding[k] \in Nat
    BY <1>1, <1>2, <2>1, BoundsAssumption
       DEF IInv, TypeOK, JobSound, Withdrawn, Listed
  <2>5. \A a \in live' : \/ a \in live
                         \/ a > cursor[k] /\ a > Listed(k) /\ a \in Nat
                         \/ a \in revived'
    BY <1>1, <2>4 DEF IInv, TypeOK, Authorizations
  <2>6. Withdrawn(k)'
    BY <1>1, <1>2, <2>1, <2>4, <2>5 DEF JobSound, Withdrawn, Dealt
  <2> QED
    BY <1>2, <2>1, <2>2, <2>3, <2>6 DEF JobSound
<1> QED
  BY <1>2 DEF IInv, JobsSound

LEMMA InsertInv ==
  ASSUME IInv, NEW j \in Jobs, Insert(j)
  PROVE  IInv'
<1> DEFINE d == decided + 1
<1> USE DEF Insert, authorizationVars, proofVars, planVars
<1>1. /\ d \in Rows /\ d \notin Decisions /\ Decisions' = Decisions \cup {d}
      /\ decided' = d /\ decided \in Nat
  <2>1. decided < MaxDecisions /\ decided' = decided + 1 /\ TypeOK
    BY DEF IInv
  <2> QED
    BY <2>1, TableFacts DEF Decisions
<1>2. /\ pc[j] = "resolved" /\ JobSound(j) /\ ~ Completed(j) /\ ~ Completed(j)'
      /\ before[j] \in Decisions \cup {Nothing}
  BY DEF IInv, TypeOK, JobsSound, JobSound, DecisionLinked, Reached, Resolved,
         Completed
<1>3. TypeOK'
  <2>1. /\ outcome' \in [Rows -> Outcomes]
        /\ prior' \in [Rows -> 0 .. MaxDecisions]
        /\ own' \in [Jobs -> 0 .. MaxDecisions]
        /\ decided' \in 0 .. MaxDecisions
    BY <1>1 DEF IInv, TypeOK, Rows
  <2> QED
    BY <2>1 DEF IInv, TypeOK, AfterSupersede, Authorizations
<1>4. /\ prior'[d] = before[j] /\ own'[j] = d
      /\ pc'[j] \in {"inserted", "withdrawing", "proving"}
      /\ pc'[j] = "inserted" => before[j] # Nothing
      /\ pc'[j] # "inserted" => before[j] = Nothing
      /\ pc'[j] = "proving" => ~ withdraws[j]
      /\ \A e \in Rows \ {d} : prior'[e] = prior[e]
  BY <1>1 DEF IInv, TypeOK, AfterSupersede
<1> HIDE DEF d
<1>5. DecisionsSound'
  <2>1. prior'[d] < d
    BY <1>1, <1>2, <1>4 DEF Decisions, Nothing, d
  <2>2. \A e \in Decisions : successor[e] # Nothing => successor[e] \in Decisions
    BY DEF IInv, DecisionsSound
  <2> QED
    BY <1>1, <1>4, <2>1, <2>2 DEF IInv, DecisionsSound, Rows
<1>6. ProofsSound'
  BY DEF IInv, ProofsSound, Proofs
<1>7. DecisionLinked(j)'
  BY <1>1, <1>2, <1>4
     DEF DecisionLinked, Reached, Resolved, Superseded, Proving, Decisions
<1>8. ProofLinked(j)' /\ Withdrawn(j)'
  <2>1. cursor[j] = 0 /\ Withdrawn(j)
    BY <1>2 DEF JobSound, Withdrawn
  <2>2. Dealt(0)
    BY DEF Dealt, IInv, TypeOK, Authorizations
  <2> QED
    BY <1>2, <1>4, <2>1, <2>2
       DEF ProofLinked, Withdrawn, Reached, Proving, Listed, Dealt
<1>9. JobSound(j)'
  BY <1>2, <1>7, <1>8 DEF JobSound
<1> QED
  <2>1. /\ decided <= decided' /\ issued <= issued' /\ proved <= proved'
        /\ \A e \in Decisions : prior'[e] = prior[e]
    BY <1>1, <1>4 DEF IInv, TypeOK, Decisions, Rows
  <2> QED
    BY <1>3, <1>5, <1>6, <1>9, <2>1, TablesGrow
       DEF IInv, TypeOK, JobUnchanged

LEMMA SupersedeInv ==
  ASSUME IInv, NEW j \in Jobs, Supersede(j)
  PROVE  IInv'
<1> DEFINE b == before[j]
           d == own[j]
<1> USE DEF Supersede, authorizationVars, proofVars, planVars, ownVars
<1>1. /\ pc[j] = "inserted" /\ JobSound(j) /\ ~ Completed(j) /\ ~ Completed(j)'
      /\ b \in Decisions /\ d \in Decisions /\ d > b /\ prior[d] = b
      /\ Decisions' = Decisions /\ Decisions \subseteq Rows
  <2>1. pc[j] = "inserted" /\ JobSound(j)
    BY DEF IInv, JobsSound
  <2>2. ~ Completed(j) /\ ~ Completed(j)'
    BY <2>1 DEF JobSound, Completed
  <2> QED
    BY <2>1, <2>2, TableFacts DEF IInv, JobSound, DecisionLinked, Decisions
<1>2. TypeOK'
  BY DEF IInv, TypeOK, AfterSupersede, Authorizations
<1>3. /\ supersession'[b] = "SUPERSEDED" /\ successor'[b] = d
      /\ \A e \in Rows \ {b} : /\ supersession'[e] = supersession[e]
                               /\ successor'[e] = successor[e]
      /\ pc'[j] \in {"withdrawing", "proving"}
      /\ pc'[j] = "proving" => ~ withdraws[j]
  BY <1>1 DEF IInv, TypeOK, AfterSupersede
<1> HIDE DEF b, d
<1>4. DecisionsSound'
  BY <1>1, <1>3 DEF IInv, DecisionsSound, Decisions, Nothing
<1>5. ProofsSound'
  BY DEF IInv, ProofsSound, Proofs
<1>6. DecisionLinked(j)'
  BY <1>1, <1>3
     DEF DecisionLinked, Reached, Resolved, Superseded, Proving, b
<1>7. ProofLinked(j)' /\ Withdrawn(j)'
  <2>1. cursor[j] = 0 /\ Withdrawn(j)
    BY <1>1 DEF JobSound, Withdrawn
  <2>2. Dealt(0)
    BY DEF Dealt, IInv, TypeOK, Authorizations
  <2> QED
    BY <1>1, <1>3, <2>1, <2>2
       DEF ProofLinked, Withdrawn, Reached, Proving, Listed, Dealt
<1>8. JobSound(j)'
  BY <1>1, <1>6, <1>7 DEF JobSound
<1> QED
  <2>1. /\ decided <= decided' /\ issued <= issued' /\ proved <= proved'
        /\ \A e \in Decisions : supersession[e] = "SUPERSEDED" =>
                                  supersession'[e] = "SUPERSEDED"
    BY <1>1, <1>3 DEF IInv, TypeOK
  <2> QED
    BY <1>2, <1>4, <1>5, <1>8, <2>1, TablesGrow
       DEF IInv, TypeOK, JobUnchanged

LEMMA WithdrawNextInv ==
  ASSUME IInv, NEW j \in Jobs, WithdrawNext(j)
  PROVE  IInv'
<1> USE DEF WithdrawNext, decisionVars, proofVars, planVars, ownVars
<1>1. /\ pc[j] = "withdrawing" /\ JobSound(j) /\ ~ Completed(j) /\ ~ Completed(j)'
      /\ cursor[j] < Listed(j) /\ cursor'[j] = cursor[j] + 1
      /\ cursor[j] \in Nat /\ Listed(j) \in 0 .. PageSize
  BY BoundsAssumption DEF IInv, TypeOK, JobsSound, JobSound, Completed, Listed
<1>2. TypeOK'
  <2>1. cursor' \in [Jobs -> 0 .. PageSize] /\ live' \subseteq Authorizations
    BY <1>1, BoundsAssumption DEF IInv, TypeOK
  <2> QED
    BY <2>1 DEF IInv, TypeOK, Authorizations
<1>3. DecisionsSound' /\ ProofsSound'
  BY DEF IInv, DecisionsSound, ProofsSound, Decisions, Proofs
<1>4. DecisionLinked(j)' /\ ProofLinked(j)'
  BY <1>1 DEF JobSound, DecisionLinked, ProofLinked, Reached, Resolved,
              Superseded, Proving, Decisions
<1>5. Dealt(cursor[j])'
  BY <1>1 DEF JobSound, Withdrawn, Dealt, IInv, TypeOK, Authorizations
<1>6. Withdrawn(j)'
  BY <1>1, <1>5 DEF JobSound, Withdrawn, Reached, Completed, Proving, Listed
<1>7. JobSound(j)'
  BY <1>1, <1>4, <1>6 DEF JobSound
<1> QED
  <2>1. decided <= decided' /\ issued <= issued' /\ proved <= proved'
    BY DEF IInv, TypeOK
  <2> QED
    BY <1>2, <1>3, <1>7, <2>1, TablesGrow
       DEF IInv, TypeOK, JobUnchanged

LEMMA StoreProofInv ==
  ASSUME IInv, NEW j \in Jobs, StoreProof(j)
  PROVE  IInv'
<1> DEFINE p == proved + 1
<1> USE DEF StoreProof, decisionVars, authorizationVars, planVars
<1>1. /\ p \in ProofRows /\ p \notin Proofs /\ Proofs' = Proofs \cup {p}
      /\ proved' = p /\ proved \in Nat
  <2>1. proved < MaxProofs /\ proved' = proved + 1 /\ TypeOK
    BY DEF IInv
  <2> QED
    BY <2>1, TableFacts DEF Proofs
<1>2. /\ pc[j] = "generated" /\ JobSound(j) /\ ~ Completed(j) /\ ~ Completed(j)'
      /\ oldProof[j] \in Proofs \cup {Nothing}
  BY DEF IInv, TypeOK, JobsSound, JobSound, ProofLinked, Reached, Proving,
         Completed
<1>3. TypeOK'
  <2>1. /\ follows' \in [ProofRows -> 0 .. MaxProofs]
        /\ ownProof' \in [Jobs -> 0 .. MaxProofs]
        /\ proved' \in 0 .. MaxProofs
    BY <1>1, <1>2 DEF IInv, TypeOK, ProofRows
  <2> QED
    BY <2>1 DEF IInv, TypeOK, Authorizations
<1>4. /\ follows'[p] = oldProof[j] /\ ownProof'[j] = p
      /\ pc'[j] \in {"stored", "finishing"}
      /\ pc'[j] = "stored" => oldProof[j] # Nothing
      /\ pc'[j] # "stored" => oldProof[j] = Nothing
      /\ \A q \in ProofRows \ {p} : follows'[q] = follows[q]
  BY <1>1 DEF IInv, TypeOK
<1> HIDE DEF p
<1>5. ProofsSound'
  BY <1>1, <1>4 DEF IInv, ProofsSound, Proofs
<1>6. DecisionsSound'
  BY DEF IInv, DecisionsSound, Decisions
<1>7. ProofLinked(j)'
  BY <1>1, <1>2, <1>4 DEF ProofLinked, Reached, Proving, Proofs
<1>8. DecisionLinked(j)' /\ Withdrawn(j)'
  BY <1>2, <1>4 DEF JobSound, DecisionLinked, Withdrawn, Reached, Resolved,
                    Superseded, Proving, Listed, Dealt, Decisions
<1>9. JobSound(j)'
  BY <1>2, <1>7, <1>8 DEF JobSound
<1> QED
  <2>1. /\ decided <= decided' /\ issued <= issued' /\ proved <= proved'
        /\ \A q \in Proofs : follows'[q] = follows[q]
    BY <1>1, <1>4 DEF IInv, TypeOK, Proofs, ProofRows
  <2> QED
    BY <1>3, <1>5, <1>6, <1>9, <2>1, TablesGrow
       DEF IInv, TypeOK, JobUnchanged

LEMMA SupersedeProofInv ==
  ASSUME IInv, NEW j \in Jobs, SupersedeProof(j)
  PROVE  IInv'
<1> DEFINE b == oldProof[j]
           p == ownProof[j]
<1> USE DEF SupersedeProof, decisionVars, authorizationVars, planVars, ownVars
<1>1. /\ pc[j] = "stored" /\ JobSound(j) /\ ~ Completed(j) /\ ~ Completed(j)'
      /\ b \in Proofs /\ p \in Proofs /\ p > b /\ follows[p] = b
      /\ Proofs' = Proofs /\ Proofs \subseteq ProofRows
  <2>1. pc[j] = "stored" /\ JobSound(j)
    BY DEF IInv, JobsSound
  <2>2. ~ Completed(j) /\ ~ Completed(j)'
    BY <2>1 DEF JobSound, Completed
  <2> QED
    BY <2>1, <2>2, TableFacts DEF IInv, JobSound, ProofLinked, Proofs
<1>2. TypeOK'
  BY DEF IInv, TypeOK, Authorizations
<1>3. /\ followedBy'[b] = p /\ pc'[j] = "finishing"
      /\ \A q \in ProofRows \ {b} : followedBy'[q] = followedBy[q]
  BY <1>1 DEF IInv, TypeOK
<1> HIDE DEF b, p
<1>4. ProofsSound'
  BY <1>1, <1>3 DEF IInv, ProofsSound, Proofs, Nothing
<1>5. DecisionsSound'
  BY DEF IInv, DecisionsSound, Decisions
<1>6. ProofLinked(j)'
  BY <1>1, <1>3 DEF ProofLinked, Reached, Proving, Proofs, Nothing, b
<1>7. DecisionLinked(j)' /\ Withdrawn(j)'
  BY <1>1, <1>3 DEF JobSound, DecisionLinked, Withdrawn, Reached, Resolved,
                    Superseded, Proving, Listed, Dealt, Decisions
<1>8. JobSound(j)'
  BY <1>1, <1>6, <1>7 DEF JobSound
<1> QED
  <2>1. /\ decided <= decided' /\ issued <= issued' /\ proved <= proved'
        /\ \A q \in Proofs : followedBy[q] # Nothing => followedBy'[q] # Nothing
    BY <1>1, <1>3 DEF IInv, TypeOK, Proofs, Nothing
  <2> QED
    BY <1>2, <1>4, <1>5, <1>8, <2>1, TablesGrow
       DEF IInv, TypeOK, JobUnchanged

\* The endpoints that write a decision, an authorization or a proof meet no job
\* at a stage that relies on what they write.
LEMMA DecideInv ==
  ASSUME IInv, NEW o \in Outcomes, Decide(o)
  PROVE  IInv'
<1> USE DEF Decide, authorizationVars, proofVars, jobVars, planVars, ownVars
<1>1. /\ decided' = decided + 1 /\ decided \in Nat /\ decided' \in 0 .. MaxDecisions
      /\ Decisions' = Decisions \cup {decided + 1}
      /\ decided + 1 \in Rows \ Decisions
  <2>1. decided < MaxDecisions /\ decided' = decided + 1 /\ TypeOK
    BY BoundsAssumption DEF IInv, TypeOK
  <2> QED
    BY <2>1, TableFacts DEF Decisions
<1>2. TypeOK'
  BY <1>1 DEF IInv, TypeOK, Authorizations
<1>3. DecisionsSound'
  <2>1. \A e \in Decisions : successor[e] # Nothing => successor[e] \in Decisions
    BY DEF IInv, DecisionsSound
  <2> QED
    BY <1>1, <2>1 DEF IInv, DecisionsSound, Nothing
<1>4. ProofsSound'
  BY DEF IInv, ProofsSound, Proofs
<1> QED
  BY <1>1, <1>2, <1>3, <1>4, TablesGrow DEF IInv, TypeOK, JobUnchanged

LEMMA GenerateInv ==
  ASSUME IInv, NEW p \in Proofs \cup {Nothing}, Generate(p)
  PROVE  IInv'
<1> USE DEF Generate, decisionVars, authorizationVars, jobVars, planVars, ownVars
<1>1. /\ proved' = proved + 1 /\ proved \in Nat /\ proved' \in 0 .. MaxProofs
      /\ Proofs' = Proofs \cup {proved + 1}
      /\ proved + 1 \in ProofRows \ Proofs
      /\ p \in 0 .. MaxProofs
  <2>1. proved < MaxProofs /\ proved' = proved + 1 /\ TypeOK
    BY BoundsAssumption DEF IInv, TypeOK
  <2> QED
    BY <2>1, TableFacts DEF Proofs, Nothing
<1>2. TypeOK'
  BY <1>1 DEF IInv, TypeOK, Authorizations
<1>3. \A q \in ProofRows \ {proved + 1} : follows'[q] = follows[q]
  BY DEF IInv, TypeOK
<1>4. ProofsSound'
  BY <1>1, <1>3 DEF IInv, ProofsSound
<1>5. DecisionsSound'
  BY DEF IInv, DecisionsSound, Decisions
<1>6. \A q \in Proofs : follows'[q] = follows[q]
  BY <1>1, <1>3 DEF Proofs, ProofRows, IInv, TypeOK
<1> QED
  BY <1>1, <1>2, <1>4, <1>5, <1>6, TablesGrow DEF IInv, TypeOK, JobUnchanged

LEMMA AuthorizationsInv ==
  ASSUME IInv,
         \/ \E d \in Decisions : Issue(d)
         \/ \E a \in live : Close(a)
         \/ \E a \in Authorizations \ live : VerifyRevives(a)
  PROVE  IInv'
<1> USE DEF Issue, Close, VerifyRevives, decisionVars, proofVars, jobVars,
            planVars, ownVars
<1>1. /\ UNCHANGED <<decisionVars, proofVars, jobVars>>
      /\ issued \in Nat /\ issued' \in 0 .. MaxAuthorizations
      /\ issued <= issued' /\ revived \subseteq revived'
      /\ \A a \in live' \ live : a > issued \/ a \in revived'
  BY BoundsAssumption DEF IInv, TypeOK
<1>2. live' \subseteq Authorizations' /\ revived' \subseteq Authorizations'
  <2>1. ASSUME NEW d \in Decisions, Issue(d)
        PROVE  live' \subseteq Authorizations' /\ revived' \subseteq Authorizations'
    BY <1>1, <2>1 DEF IInv, TypeOK, Authorizations
  <2>2. ASSUME NEW a \in Authorizations, Close(a) \/ VerifyRevives(a)
        PROVE  live' \subseteq Authorizations' /\ revived' \subseteq Authorizations'
    BY <1>1, <2>2 DEF IInv, TypeOK, Authorizations
  <2>3. live \subseteq Authorizations
    BY DEF IInv, TypeOK
  <2> HIDE DEF Issue, Close, VerifyRevives
  <2> QED
    BY <2>1, <2>2, <2>3
<1>3. TypeOK'
  BY <1>1, <1>2 DEF IInv, TypeOK
<1>4. DecisionsSound' /\ ProofsSound'
  BY <1>1 DEF IInv, DecisionsSound, ProofsSound, Decisions, Proofs
<1> HIDE DEF Issue, Close, VerifyRevives
<1> QED
  BY <1>1, <1>3, <1>4, TablesGrow DEF IInv, TypeOK, JobUnchanged

-----------------------------------------------------------------------------
(* The chain of decisions: the recursive functions that walk it, by induction *)
(* along the age of the records                                               *)

\* Any non-empty set of natural numbers has a least element: the induction
\* principle of the lemmas below.
LEMMA LeastNatural ==
  ASSUME NEW S \in SUBSET Nat, S # {}
  PROVE  \E n \in S : \A m \in S : n <= m
<1> DEFINE Below == {0 .. n : n \in S}
<1>1. IsWellFoundedOn(StrictSubsetOrdering(Nat), FiniteSubsetsOf(Nat))
  BY FS_StrictSubsetOrderingWellFounded
<1>2. Below # {} /\ Below \subseteq FiniteSubsetsOf(Nat)
  <2>1. ASSUME NEW n \in S PROVE IsFiniteSet(0 .. n)
    BY FS_Interval
  <2>2. ASSUME NEW n \in S PROVE 0 .. n \in SUBSET Nat
    OBVIOUS
  <2> QED
    BY <2>1, <2>2 DEF FiniteSubsetsOf
<1>3. \E X \in Below : \A Y \in Below : ~ (<<Y, X>> \in StrictSubsetOrdering(Nat))
  <2> HIDE DEF Below
  <2> QED
    BY <1>1, <1>2, WFMin
<1>4. PICK n \in S :
        \A m \in S : ~ (<<0 .. m, 0 .. n>> \in StrictSubsetOrdering(Nat))
  BY <1>3
<1>5. ASSUME NEW m \in S, m < n PROVE FALSE
  <2>1. 0 .. m \in SUBSET Nat /\ 0 .. n \in SUBSET Nat
    OBVIOUS
  <2>2. 0 .. m \subseteq 0 .. n /\ n \in 0 .. n /\ n \notin 0 .. m
    BY <1>5
  <2> QED
    BY <1>4, <2>1, <2>2 DEF StrictSubsetOrdering
<1> QED
  BY <1>4, <1>5

\* Links that lower a rank, the value where they end, and the value at a row
\* from the value at the next one.
Recursive(D, N, rank, next, V, base, step) ==
  /\ N \in Nat /\ rank \in [D -> 0 .. N]
  /\ next \in [D -> D \cup {Nothing}]
  /\ \A d \in D : next[d] # Nothing => rank[next[d]] < rank[d]
  /\ base \in [D -> V] /\ step \in [D \X V -> V]

Solves(f, D, next, base, step) ==
  \A d \in D : f[d] = IF next[d] = Nothing THEN base[d]
                      ELSE step[<<d, f[next[d]]>>]

\* A function may be defined by recursion along such links.
LEMMA Recursion ==
  ASSUME NEW D, NEW N, NEW rank, NEW next, NEW V, NEW base, NEW step,
         Recursive(D, N, rank, next, V, base, step)
  PROVE  \E f \in [D -> V] : Solves(f, D, next, base, step)
<1> USE DEF Recursive
<1> DEFINE Value(f, d) == IF next[d] = Nothing THEN base[d]
                          ELSE step[<<d, f[next[d]]>>]
           Good(n, f) == \A d \in D : rank[d] <= n => f[d] = Value(f, d)
           Bad == {n \in Nat : \A f \in [D -> V] : ~ Good(n, f)}
<1>1. ASSUME Bad # {} PROVE FALSE
  <2> HIDE DEF Bad
  <2>1. PICK n \in Bad : \A m \in Bad : n <= m
    <3>1. Bad \in SUBSET Nat
      BY DEF Bad
    <3> QED
      BY <1>1, <3>1, LeastNatural
  <2>2. n \in Nat /\ \A f \in [D -> V] : ~ Good(n, f)
    BY DEF Bad
  <2>3. CASE n = 0
    <3>1. \A d \in D : rank[d] \in Nat /\ (rank[d] <= 0 => next[d] = Nothing)
      OBVIOUS
    <3>2. Good(0, base)
      BY <3>1
    <3> QED
      BY <2>2, <2>3, <3>2
  <2>4. CASE n # 0
    <3>1. n - 1 \in Nat /\ n - 1 \notin Bad
      BY <2>1, <2>2, <2>4
    <3>2. PICK f \in [D -> V] : Good(n - 1, f)
      BY <3>1 DEF Bad
    <3> DEFINE g == [d \in D |-> Value(f, d)]
    <3>3. g \in [D -> V]
      OBVIOUS
    <3>4. ASSUME NEW d \in D, rank[d] <= n
          PROVE  g[d] = Value(g, d)
      <4>1. CASE next[d] = Nothing
        BY <4>1
      <4>2. CASE next[d] # Nothing
        <5>1. next[d] \in D /\ rank[next[d]] <= n - 1
          BY <2>2, <3>4, <4>2
        <5>2. g[next[d]] = f[next[d]]
          BY <3>2, <5>1
        <5> QED
          BY <4>2, <5>2
      <4> QED
        BY <4>1, <4>2
    <3>5. Good(n, g)
      BY <3>4
    <3> QED
      BY <2>2, <3>3, <3>5
  <2> QED
    BY <2>3, <2>4
<1>2. PICK f \in [D -> V] : Good(N, f)
  BY <1>1
<1>3. \A d \in D : f[d] = Value(f, d)
  BY <1>2
<1> QED
  BY <1>3 DEF Solves

\* Root is what its equation says: links run along the age of the records, so
\* the recursion ends.
LEMMA RootDef ==
  ASSUME TypeOK, DecisionsSound
  PROVE  Root = [d \in Rows |-> IF prior[d] = Nothing THEN d ELSE Root[prior[d]]]
<1> DEFINE rank == [d \in Rows |-> d]
           base == [d \in Rows |-> d]
           step == [y \in Rows \X Rows |-> y[2]]
<1>1. MaxDecisions \in Nat
  BY BoundsAssumption
<1>2. /\ rank \in [Rows -> 0 .. MaxDecisions] /\ base \in [Rows -> Rows]
      /\ step \in [Rows \X Rows -> Rows]
  BY <1>1 DEF Rows
<1>3. /\ prior \in [Rows -> Rows \cup {Nothing}]
      /\ \A d \in Rows : prior[d] # Nothing => rank[prior[d]] < rank[d]
  BY PriorOlder DEF TypeOK
<1>4. PICK f \in [Rows -> Rows] : Solves(f, Rows, prior, base, step)
  <2> HIDE DEF rank, base, step
  <2>1. Recursive(Rows, MaxDecisions, rank, prior, Rows, base, step)
    BY <1>1, <1>2, <1>3 DEF Recursive
  <2> QED
    BY <2>1, Recursion
<1>5. f = [d \in Rows |-> IF prior[d] = Nothing THEN d ELSE f[prior[d]]]
  BY <1>3, <1>4 DEF Solves
<1> QED
  BY <1>5 DEF Root

\* The walk back ends at a decision.
LEMMA RootInRows ==
  ASSUME TypeOK, DecisionsSound
  PROVE  \A d \in Rows : Root[d] \in Rows
<1> DEFINE Bad == {d \in Rows : Root[d] \notin Rows}
<1>1. ASSUME Bad # {} PROVE FALSE
  <2>1. Bad \in SUBSET Nat
    BY BoundsAssumption DEF Rows
  <2>2. PICK d \in Bad : \A m \in Bad : d <= m
    <3> HIDE DEF Bad
    <3> QED
      BY <1>1, <2>1, LeastNatural
  <2>3. prior[d] # Nothing /\ Root[d] = Root[prior[d]]
    BY RootDef
  <2>4. /\ prior[d] \in Rows /\ prior[d] < d
        /\ prior[d] \in Nat /\ d \in Nat
    BY <2>3, PriorOlder
  <2>5. prior[d] \notin Bad
    <3> HIDE DEF Bad
    <3> QED
      BY <2>1, <2>2, <2>4
  <2> QED
    BY <2>3, <2>4, <2>5
<1> QED
  BY <1>1

\* Lineage is what its equation says.
LEMMA LineageDef ==
  ASSUME TypeOK, DecisionsSound
  PROVE  Lineage = [d \in Rows |-> {d} \cup IF prior[d] = Nothing THEN {}
                                           ELSE Lineage[prior[d]]]
<1> DEFINE rank == [d \in Rows |-> d]
           base == [d \in Rows |-> {d}]
           step == [y \in Rows \X SUBSET Rows |-> {y[1]} \cup y[2]]
<1>1. MaxDecisions \in Nat
  BY BoundsAssumption
<1>2. /\ rank \in [Rows -> 0 .. MaxDecisions] /\ base \in [Rows -> SUBSET Rows]
      /\ step \in [Rows \X SUBSET Rows -> SUBSET Rows]
  BY <1>1 DEF Rows
<1>3. /\ prior \in [Rows -> Rows \cup {Nothing}]
      /\ \A d \in Rows : prior[d] # Nothing => rank[prior[d]] < rank[d]
  BY PriorOlder DEF TypeOK
<1>4. PICK f \in [Rows -> SUBSET Rows] : Solves(f, Rows, prior, base, step)
  <2> HIDE DEF rank, base, step
  <2>1. Recursive(Rows, MaxDecisions, rank, prior, SUBSET Rows, base, step)
    BY <1>1, <1>2, <1>3 DEF Recursive
  <2> QED
    BY <2>1, Recursion
<1>5. f = [d \in Rows |-> {d} \cup IF prior[d] = Nothing THEN {}
                                   ELSE f[prior[d]]]
  BY <1>3, <1>4 DEF Solves
<1> QED
  BY <1>5 DEF Lineage

\* Onward is what its equation says.
LEMMA OnwardDef ==
  ASSUME TypeOK, DecisionsSound
  PROVE  Onward = [d \in Rows |-> {d} \cup IF successor[d] = Nothing THEN {}
                                          ELSE Onward[successor[d]]]
<1> DEFINE rank == [d \in Rows |-> MaxDecisions - d]
           base == [d \in Rows |-> {d}]
           step == [y \in Rows \X SUBSET Rows |-> {y[1]} \cup y[2]]
<1>1. MaxDecisions \in Nat
  BY BoundsAssumption
<1>2. /\ rank \in [Rows -> 0 .. MaxDecisions] /\ base \in [Rows -> SUBSET Rows]
      /\ step \in [Rows \X SUBSET Rows -> SUBSET Rows]
  BY <1>1 DEF Rows
<1>3. /\ successor \in [Rows -> Rows \cup {Nothing}]
      /\ \A d \in Rows : successor[d] # Nothing => rank[successor[d]] < rank[d]
  <2>1. \A d \in Rows : successor[d] # Nothing =>
          /\ successor[d] \in Rows /\ successor[d] > d
          /\ d \in Nat /\ successor[d] \in Nat
    BY <1>1 DEF TypeOK, DecisionsSound, Rows, Decisions, Nothing
  <2>2. successor \in [Rows -> Rows \cup {Nothing}]
    BY <2>1 DEF TypeOK
  <2> QED
    BY <1>1, <2>1, <2>2
<1>4. PICK f \in [Rows -> SUBSET Rows] : Solves(f, Rows, successor, base, step)
  <2> HIDE DEF rank, base, step
  <2>1. Recursive(Rows, MaxDecisions, rank, successor, SUBSET Rows, base, step)
    BY <1>1, <1>2, <1>3 DEF Recursive
  <2> QED
    BY <2>1, Recursion
<1>5. f = [d \in Rows |-> {d} \cup IF successor[d] = Nothing THEN {}
                                   ELSE f[successor[d]]]
  BY <1>3, <1>4 DEF Solves
<1> QED
  BY <1>5 DEF Onward

\* A walk onward from a decision includes the successor of what it includes.
LEMMA OnwardClosed ==
  ASSUME TypeOK, DecisionsSound
  PROVE  \A r \in Rows : \A p \in Onward[r] :
           p \in Rows /\ (successor[p] # Nothing => successor[p] \in Onward[r])
<1> DEFINE Closed(r) ==
             \A p \in Onward[r] :
               p \in Rows /\ (successor[p] # Nothing => successor[p] \in Onward[r])
           Bad == {n \in Nat : \E r \in Rows : n = MaxDecisions - r /\ ~ Closed(r)}
<1>1. MaxDecisions \in Nat /\ \A r \in Rows : r \in Nat /\ MaxDecisions - r \in Nat
  BY BoundsAssumption DEF Rows
<1>2. \A r \in Rows : successor[r] # Nothing =>
                        successor[r] \in Rows /\ successor[r] > r
  BY <1>1 DEF TypeOK, DecisionsSound, Rows, Decisions, Nothing
<1>3. \A r \in Rows : /\ r \in Onward[r]
                      /\ successor[r] # Nothing =>
                           Onward[r] = {r} \cup Onward[successor[r]]
                      /\ successor[r] = Nothing => Onward[r] = {r}
  BY OnwardDef
<1>4. ASSUME Bad # {} PROVE FALSE
  <2>1. Bad \in SUBSET Nat
    OBVIOUS
  <2>2. PICK n \in Bad : \A m \in Bad : n <= m
    <3> HIDE DEF Bad
    <3> QED
      BY <1>4, <2>1, LeastNatural
  <2>3. PICK r \in Rows : n = MaxDecisions - r /\ ~ Closed(r)
    OBVIOUS
  <2>4. CASE successor[r] = Nothing
    BY <1>3, <2>3, <2>4
  <2>5. CASE successor[r] # Nothing
    <3>1. successor[r] \in Rows /\ MaxDecisions - successor[r] < n
      BY <1>1, <1>2, <2>3, <2>5
    <3>2. Closed(successor[r])
      BY <1>1, <2>2, <3>1
    <3>3. Closed(r)
      BY <1>3, <2>5, <3>1, <3>2
    <3> QED
      BY <2>3, <3>3
  <2> QED
    BY <2>4, <2>5
<1> QED
  BY <1>1, <1>4

\* The links make a chain that leaves out no decision, but where two decisions
\* name the same prior or a job has not linked its decision.
LEMMA WholeChain ==
  ASSUME TypeOK, DecisionsSound
  PROVE  ChainWholeUnlessForked
<1> DEFINE Broken(e) == /\ prior[e] # Nothing
                        /\ \/ successor[prior[e]] = Nothing
                           \/ \E f \in Decisions : f # e /\ prior[f] = prior[e]
           Whole(d) == d \in Chain(d) \/ \E e \in Lineage[d] : Broken(e)
           Bad == {d \in Decisions : ~ Whole(d)}
<1>1. MaxDecisions \in Nat /\ Decisions \subseteq Rows /\ Decisions \subseteq Nat
  BY BoundsAssumption DEF TypeOK, Decisions, Rows
<1>2. ASSUME Bad # {} PROVE FALSE
  <2>1. PICK d \in Bad : \A m \in Bad : d <= m
    <3>1. Bad \in SUBSET Nat
      BY <1>1
    <3> HIDE DEF Bad
    <3> QED
      BY <1>2, <3>1, LeastNatural
  <2>2. d \in Decisions /\ d \in Rows /\ d \notin Onward[Root[d]]
        /\ \A e \in Lineage[d] : ~ Broken(e)
    BY <1>1 DEF Chain
  <2>3. CASE prior[d] = Nothing
    <3>1. Root[d] = d
      BY <2>2, <2>3, RootDef
    <3>2. d \in Onward[d]
      BY <2>2, OnwardDef
    <3> QED
      BY <2>2, <3>1, <3>2
  <2>4. CASE prior[d] # Nothing
    <3> DEFINE p == prior[d]
    <3>1. p \in Decisions /\ p \in Rows /\ p < d /\ p \in Nat /\ d \in Nat
      BY <2>2, <2>4, PriorOlder
    <3>2. Root[d] = Root[p] /\ Lineage[d] = {d} \cup Lineage[p]
      BY <2>2, <2>4, RootDef, LineageDef
    <3>3. p \notin Bad
      <4> HIDE DEF Bad
      <4> QED
        BY <2>1, <3>1
    <3>4. p \in Onward[Root[d]]
      BY <2>2, <3>1, <3>2, <3>3 DEF Chain
    <3>5. successor[p] = d
      <4>1. ~ Broken(d)
        BY <2>2, <3>2
      <4>2. successor[p] # Nothing /\ \A f \in Decisions : prior[f] = p => f = d
        BY <2>4, <4>1
      <4> QED
        BY <3>1, <4>2 DEF DecisionsSound
    <3>6. Root[d] \in Rows
      BY <2>2, RootInRows
    <3>7. d \in Onward[Root[d]]
      <4>1. successor[p] # Nothing
        BY <3>1, <3>5 DEF Nothing
      <4> QED
        BY <3>4, <3>5, <3>6, <4>1, OnwardClosed
    <3> QED
      BY <2>2, <3>7
  <2> QED
    BY <2>3, <2>4
<1> QED
  BY <1>2 DEF ChainWholeUnlessForked
-----------------------------------------------------------------------------
(* Theorems *)

LEMMA NextInv ==
  ASSUME IInv, [Next]_vars
  PROVE  IInv'
<1>1. ASSUME NEW j \in Jobs, Step(j)
      PROVE  IInv'
  BY <1>1, TriggerInv, NoActionInv, FindPriorInv, InsertInv, SupersedeInv,
     WithdrawNextInv, LoadProofInv, StoreProofInv, SupersedeProofInv,
     CompleteInv, FailInv
     DEF Step
<1>2. CASE Others
  BY <1>2, DecideInv, GenerateInv, AuthorizationsInv DEF Others
<1>3. CASE UNCHANGED vars
  <2>1. TypeOK' /\ DecisionsSound' /\ ProofsSound'
    BY <1>3 DEF vars, decisionVars, authorizationVars, proofVars, jobVars,
                planVars, ownVars, IInv, TypeOK, DecisionsSound, ProofsSound,
                Decisions, Proofs, Authorizations
  <2> QED
    BY <1>3, <2>1, TablesGrow
       DEF vars, decisionVars, authorizationVars, proofVars, jobVars, planVars,
           ownVars, IInv, TypeOK, JobUnchanged
<1> QED
  BY <1>1, <1>2, <1>3 DEF Next

\* The inductive invariant holds in every reachable state.
THEOREM Invariance == Spec => []IInv
BY InitInv, NextInv, PTL DEF Spec

\* Every column, plan and cursor has its type: no link leads out of the tables,
\* and no job goes past the page it listed.
THEOREM TypeCorrect == Spec => []TypeOK
<1>1. IInv => TypeOK
  BY DEF IInv
<1> QED
  BY Invariance, <1>1, PTL

\* Chains: the links that jobs write lead to newer records that name the older
\* ones, whichever jobs race.
THEOREM Chains == Spec => []ChainsSound
<1>1. IInv => ChainsSound
  BY DEF IInv, DecisionsSound, ProofsSound, ChainsSound
<1> QED
  BY Invariance, <1>1, PTL

\* Completion: a run that says COMPLETED has superseded the prior decision and
\* the old proof and withdrawn what it was to withdraw, and no later step takes
\* that back but a verify that revives an authorization.
THEOREM Completion == Spec => []CompletedIsWhole
<1>1. ASSUME IInv
      PROVE  CompletedIsWhole
  <2> SUFFICES ASSUME NEW j \in Jobs, Completed(j)
               PROVE  /\ before[j] # Nothing =>
                           supersession[before[j]] = "SUPERSEDED"
                      /\ oldProof[j] # Nothing =>
                           followedBy[oldProof[j]] # Nothing
                      /\ withdraws[j] =>
                           \A a \in live : \/ a > outstanding[j] \/ a > PageSize
                                           \/ a \in revived
    BY DEF CompletedIsWhole
  <2>1. JobSound(j)
    BY <1>1 DEF IInv, JobsSound
  <2>2. withdraws[j] => Dealt(Listed(j))
    BY <2>1 DEF JobSound, Withdrawn, Reached
  <2>3. withdraws[j] =>
          \A a \in live : a > outstanding[j] \/ a > PageSize \/ a \in revived
    BY <2>2 DEF Dealt, Listed
  <2> QED
    BY <2>1, <2>3 DEF JobSound, DecisionLinked, ProofLinked, Reached
<1> QED
  BY Invariance, <1>1, PTL

\* Whole chains: a decision is listed by decision_chain, or its lineage forks or
\* is not linked, whatever jobs do.
THEOREM WholeChains == Spec => []ChainWholeUnlessForked
<1>1. IInv => ChainWholeUnlessForked
  BY WholeChain DEF IInv
<1> QED
  BY Invariance, <1>1, PTL
=============================================================================
