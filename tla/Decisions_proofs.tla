--------------------------- MODULE Decisions_proofs ---------------------------
(***************************************************************************)
(* Proofs about the two components that grant requests: DecisionLedger, for *)
(* any number of concurrent requests and evaluations and any size of the    *)
(* two tables, and SpendingGate, for any amounts, policies, days and number *)
(* of evaluations that run at once.                                         *)
(*                                                                         *)
(* The ledger's inductive invariant says what a decide call may still rely  *)
(* on between its commits: the row it inserted is its own, newer than the   *)
(* one it replaces, and still bears what the call gathered.  The gate's     *)
(* says which transactions each evaluation has counted: of those of a day,  *)
(* one has counted all.                                                     *)
(***************************************************************************)
EXTENDS DecisionLedger, SpendingGate, FiniteSetTheorems, WellFoundedInduction, TLAPS

-----------------------------------------------------------------------------
(* The decision ledger *)

\* What a caller, or an approval, names is in the ledger, or is no row of it.
CallsSound ==
  /\ \A r \in Requests : asked[r] \in Decisions \cup {Nothing, Dangling}
  /\ \A r \in Requests : pc[r] = "verified" =>
       /\ asked[r] \in Decisions
       /\ verdict[asked[r]] = "ESCALATED_BY_POLICY"
  /\ \A a \in Approvals :
       /\ approves[a] \in Decisions
       /\ verdict[approves[a]] = "ESCALATED_BY_POLICY"

\* Rows not yet inserted are CURRENT, and a successor is a row of the ledger.
RowsSound ==
  /\ \A d \in Rows : d > decided => supersession[d] = "CURRENT"
  /\ \A d \in Decisions : supersession[d] = "SUPERSEDED" =>
       successor[d] \in Decisions
  /\ \A a \in 1 .. MaxApprovals : a > granted => approval[a] = "ACTIVE"

\* The session of r has gathered its facts and not yet finished.
Deciding(r) == pc[r] \in {"gathered", "inserted", "superseded"}

\* The decision to replace is the one asked for, if that one exists, and the
\* approval loaded approves it.
GatheredSound ==
  \A r \in Requests : Deciding(r) =>
    /\ replaced[r] \in Decisions \cup {Nothing}
    /\ asked[r] \in {replaced[r], Nothing, Dangling}
    /\ found[r] \in Approvals \cup {Nothing}
    /\ found[r] # Nothing => approves[found[r]] = asked[r]

\* The decision inserted bears what its session gathered, and is newer than
\* the one it replaces.
InsertedSound ==
  \A r \in Requests : pc[r] \in {"inserted", "superseded"} =>
    /\ own[r] \in Decisions
    /\ replaced[r] \in Decisions
    /\ replaced[r] < own[r]
    /\ verdict[own[r]] = result[r]
    /\ relied[own[r]] = found[r]
    /\ reliedExpired[own[r]] = expired[r]

\* Until it supersedes, a session's decision keeps the prior it was inserted
\* with, and it is no other session's.
LinkPending ==
  \A r \in Requests : pc[r] = "inserted" =>
    /\ prior[own[r]] = asked[r]
    /\ \A q \in Requests : pc[q] = "inserted" /\ own[q] = own[r] => q = r

\* A session about to consume an approval has superseded the decision that the
\* approval approves.
SpendSound ==
  \A r \in Requests : pc[r] = "superseded" =>
    /\ Spends(r)
    /\ prior[own[r]] = asked[r]
    /\ supersession[asked[r]] = "SUPERSEDED"

IInv ==
  /\ TypeOK
  /\ CallsSound
  /\ RowsSound
  /\ GatheredSound
  /\ InsertedSound
  /\ LinkPending
  /\ SpendSound
  /\ LineageSound
  /\ ConsumptionBacked

-----------------------------------------------------------------------------
(* The initial state *)

LEMMA InitInv == Init => IInv
BY BoundsAssumption
   DEF Init, IInv, TypeOK, LedgerType, ApprovalType, SessionType, CallsSound,
       RowsSound, GatheredSound, Deciding, InsertedSound, LinkPending,
       SpendSound, LineageSound, ConsumptionBacked, Backed, Decisions,
       Approvals, Rows, Verdicts, Stages, Nothing, Dangling

-----------------------------------------------------------------------------
(* Steps that leave the two tables alone *)

\* Such a step keeps whatever the invariant says of the tables only.
LEMMA TablesKept ==
  ASSUME IInv, UNCHANGED <<contentVars, lineageVars, granted, approves,
                           approval, consumedBy>>
  PROVE  LedgerType' /\ RowsSound' /\ LineageSound' /\ ConsumptionBacked'
BY DEF IInv, TypeOK, LedgerType, RowsSound, LineageSound, ConsumptionBacked,
       Backed, contentVars, lineageVars, Decisions, Approvals, Rows, Nothing,
       Dangling

LEMMA DecideCallInv ==
  ASSUME IInv, NEW r \in Requests, NEW e \in Evaluations,
         NEW p \in Decisions \cup {Nothing, Dangling}, DecideCall(r, e, p)
  PROVE  IInv'
<1> USE DEF IInv, TypeOK, DecideCall, contentVars, lineageVars, approvalVars,
            factVars
<1>1. TypeOK'
  <2>1. pc' \in [Requests -> Stages]
          /\ about' \in [Requests -> Evaluations \cup {None}]
    BY DEF SessionType, Stages
  <2>2. asked' \in [Requests -> 0 .. Dangling]
    BY BoundsAssumption DEF LedgerType, SessionType, Decisions, Nothing,
                            Dangling
  <2>3. LedgerType' /\ ApprovalType'
    BY DEF LedgerType, ApprovalType, Approvals
  <2> QED
    BY <2>1, <2>2, <2>3 DEF SessionType
<1>2. CallsSound'
  BY DEF CallsSound, SessionType, Decisions, Approvals, Nothing, Dangling
<1>3. GatheredSound' /\ InsertedSound' /\ LinkPending' /\ SpendSound'
  BY DEF GatheredSound, Deciding, InsertedSound, LinkPending, SpendSound,
         Spends, SessionType, Decisions, Approvals, Nothing, Dangling
<1> QED
  BY <1>1, <1>2, <1>3, TablesKept

LEMMA GatherInv ==
  ASSUME IInv, NEW r \in Requests, NEW a \in Approvals \cup {Nothing},
         NEW p \in Decisions \cup {Nothing}, NEW v \in Verdicts,
         Gather(r, a, p, v)
  PROVE  IInv'
<1> USE DEF IInv, TypeOK, Gather, contentVars, lineageVars, approvalVars,
            callVars
<1>1. TypeOK'
  <2>1. pc' \in [Requests -> Stages]
    BY DEF SessionType, Stages
  <2>2. found' \in [Requests -> 0 .. MaxApprovals]
    BY BoundsAssumption DEF ApprovalType, SessionType, Approvals, Nothing
  <2>3. replaced' \in [Requests -> 0 .. MaxDecisions]
    BY BoundsAssumption DEF LedgerType, SessionType, Decisions, Nothing
  <2>4. result' \in [Requests -> Verdicts]
          /\ expired' \in [Requests -> BOOLEAN]
    BY DEF SessionType
  <2>5. LedgerType' /\ ApprovalType'
    BY DEF LedgerType, ApprovalType, Approvals
  <2> QED
    BY <2>1, <2>2, <2>3, <2>4, <2>5 DEF SessionType
<1>2. CallsSound'
  BY DEF CallsSound, SessionType, Decisions, Approvals, Nothing, Dangling
<1>3. GatheredSound'
  BY DEF GatheredSound, CallsSound, Deciding, NewestOrNothing, IsNewestOf,
         ActiveFor, SessionType, Decisions, Approvals, Nothing, Dangling
<1>4. InsertedSound' /\ LinkPending' /\ SpendSound'
  BY DEF InsertedSound, LinkPending, SpendSound, Spends, SessionType,
         Decisions, Nothing
<1> QED
  BY <1>1, <1>2, <1>3, <1>4, TablesKept

LEMMA SubmitCheckInv ==
  ASSUME IInv, NEW r \in Requests, NEW d \in Decisions, SubmitCheck(r, d)
  PROVE  IInv'
<1> USE DEF IInv, TypeOK, SubmitCheck, contentVars, lineageVars, approvalVars,
            factVars
<1>1. TypeOK'
  <2>1. pc' \in [Requests -> Stages]
    BY DEF SessionType, Stages
  <2>2. asked' \in [Requests -> 0 .. Dangling]
    BY BoundsAssumption DEF LedgerType, SessionType, Decisions, Dangling
  <2>3. LedgerType' /\ ApprovalType'
    BY DEF LedgerType, ApprovalType, Approvals
  <2> QED
    BY <2>1, <2>2, <2>3 DEF SessionType
<1>2. CallsSound'
  BY DEF CallsSound, SessionType, Decisions, Approvals, Nothing, Dangling
<1>3. GatheredSound' /\ InsertedSound' /\ LinkPending' /\ SpendSound'
  BY DEF GatheredSound, Deciding, InsertedSound, LinkPending, SpendSound,
         Spends, SessionType, Decisions, Approvals, Nothing, Dangling
<1> QED
  BY <1>1, <1>2, <1>3, TablesKept

LEMMA ApplyCheckInv ==
  ASSUME IInv, NEW r \in Requests, NEW a \in Approvals, ApplyCheck(r, a)
  PROVE  IInv'
<1> USE DEF IInv, TypeOK, ApplyCheck, contentVars, lineageVars, approvalVars,
            factVars
<1>1. approves[a] \in Decisions
        /\ evaluation[approves[a]] \in Evaluations \cup {None}
  <2>1. approves[a] \in Decisions
    BY DEF CallsSound
  <2>2. approves[a] \in Rows
    BY <2>1, BoundsAssumption DEF LedgerType, Decisions, Rows
  <2> QED
    BY <2>1, <2>2 DEF LedgerType
<1>2. TypeOK'
  <2>1. pc' \in [Requests -> Stages]
          /\ about' \in [Requests -> Evaluations \cup {None}]
    BY <1>1 DEF SessionType, Stages
  <2>2. asked' \in [Requests -> 0 .. Dangling]
    BY <1>1, BoundsAssumption DEF LedgerType, SessionType, Decisions, Dangling
  <2>3. LedgerType' /\ ApprovalType'
    BY DEF LedgerType, ApprovalType, Approvals
  <2> QED
    BY <2>1, <2>2, <2>3 DEF SessionType
<1>3. CallsSound'
  BY <1>1 DEF CallsSound, SessionType, Decisions, Approvals, Nothing, Dangling
<1>4. GatheredSound' /\ InsertedSound' /\ LinkPending' /\ SpendSound'
  BY DEF GatheredSound, Deciding, InsertedSound, LinkPending, SpendSound,
         Spends, SessionType, Decisions, Approvals, Nothing, Dangling
<1> QED
  BY <1>2, <1>3, <1>4, TablesKept

LEMMA LapseInv ==
  ASSUME IInv, NEW a \in Approvals, Lapse(a)
  PROVE  IInv'
<1> USE DEF IInv, TypeOK, Lapse, contentVars, lineageVars, callVars, factVars
<1>1. TypeOK'
  BY DEF LedgerType, ApprovalType, SessionType, Approvals
<1>2. CallsSound' /\ GatheredSound' /\ InsertedSound' /\ LinkPending'
        /\ SpendSound'
  BY DEF CallsSound, GatheredSound, Deciding, InsertedSound, LinkPending,
         SpendSound, Spends, Decisions, Approvals, Nothing, Dangling
<1> QED
  BY <1>1, <1>2, TablesKept

-----------------------------------------------------------------------------
(* Approvals that are granted and consumed *)

LEMMA SubmitInsertInv ==
  ASSUME IInv, NEW r \in Requests, SubmitInsert(r)
  PROVE  IInv'
<1> USE DEF IInv, TypeOK, SubmitInsert, contentVars, lineageVars, callVars,
            factVars
<1>1. asked[r] \in Decisions /\ verdict[asked[r]] = "ESCALATED_BY_POLICY"
  BY DEF CallsSound
<1>2. /\ granted \in Nat /\ granted < MaxApprovals /\ granted' = granted + 1
      /\ approves' = [approves EXCEPT ![granted + 1] = asked[r]]
      /\ approval[granted + 1] = "ACTIVE"
      /\ \A a \in Approvals : a # granted + 1 /\ approves'[a] = approves[a]
      /\ approves'[granted + 1] = asked[r]
  BY BoundsAssumption DEF ApprovalType, Approvals, RowsSound
<1>3. \A a \in 1 .. granted' : a \in Approvals \/ a = granted + 1
  BY <1>2, BoundsAssumption DEF Approvals
<1>4. TypeOK'
  <2>1. approves' \in [1 .. MaxApprovals -> 0 .. MaxDecisions]
    BY <1>1, <1>2, BoundsAssumption DEF ApprovalType, LedgerType, Decisions
  <2>2. pc' \in [Requests -> Stages]
    BY DEF SessionType, Stages
  <2>3. granted' \in 0 .. MaxApprovals /\ lapsed' \subseteq Approvals'
    BY <1>2, BoundsAssumption DEF ApprovalType, Approvals
  <2> QED
    BY <2>1, <2>2, <2>3 DEF LedgerType, ApprovalType, SessionType
<1>5. CallsSound'
  BY <1>1, <1>2, <1>3 DEF CallsSound, SessionType, Decisions, Approvals
<1>6. RowsSound' /\ LineageSound'
  <2>1. Decisions' = Decisions
    BY DEF Decisions
  <2>2. LineageSound'
    BY <2>1 DEF LineageSound
  <2>3. \A a \in 1 .. MaxApprovals : a > granted' => a > granted
    BY <1>2
  <2>4. RowsSound'
    BY <2>1, <2>3 DEF RowsSound
  <2> QED
    BY <2>2, <2>4
<1>7. GatheredSound'
  BY <1>2 DEF GatheredSound, Deciding, SessionType, Decisions, Approvals
<1>8. InsertedSound' /\ LinkPending' /\ SpendSound'
  BY DEF InsertedSound, LinkPending, SpendSound, Spends, SessionType,
         Decisions, Nothing
<1>9. ConsumptionBacked'
  BY <1>2, <1>3 DEF ConsumptionBacked, Backed, Decisions, Approvals
<1> QED
  BY <1>4, <1>5, <1>6, <1>7, <1>8, <1>9

LEMMA ConsumeInv ==
  ASSUME IInv, NEW r \in Requests, Consume(r)
  PROVE  IInv'
<1> USE DEF IInv, TypeOK, Consume, contentVars, lineageVars, callVars, factVars
<1>1. /\ found[r] \in Approvals /\ approves[found[r]] = asked[r]
      /\ own[r] \in Decisions /\ relied[own[r]] = found[r]
      /\ verdict[own[r]] = "APPROVED" /\ ~ reliedExpired[own[r]]
      /\ prior[own[r]] = asked[r] /\ supersession[asked[r]] = "SUPERSEDED"
  BY DEF GatheredSound, Deciding, InsertedSound, SpendSound, Spends
<1>2. verdict[approves[found[r]]] = "ESCALATED_BY_POLICY"
  BY <1>1 DEF CallsSound
<1>3. found[r] \in 1 .. MaxApprovals
  BY <1>1, BoundsAssumption DEF ApprovalType, Approvals
<1>4. TypeOK'
  <2>1. consumedBy' \in [1 .. MaxApprovals -> 0 .. MaxDecisions]
    BY DEF ApprovalType, SessionType
  <2>2. approval' \in [1 .. MaxApprovals -> {"ACTIVE", "CONSUMED"}]
    BY DEF ApprovalType
  <2>3. LedgerType' /\ SessionType'
    BY DEF LedgerType, SessionType, Stages
  <2> QED
    BY <2>1, <2>2, <2>3 DEF ApprovalType, Approvals
<1>5. CallsSound'
  BY DEF CallsSound, SessionType, Decisions, Approvals
<1>6. RowsSound' /\ LineageSound'
  BY <1>1, <1>3
     DEF RowsSound, LineageSound, ApprovalType, Decisions, Approvals, Rows,
         Nothing, Dangling
<1>7. GatheredSound' /\ InsertedSound' /\ LinkPending' /\ SpendSound'
  BY DEF GatheredSound, Deciding, InsertedSound, LinkPending, SpendSound,
         Spends, SessionType, Decisions, Approvals, Nothing
<1>8. ConsumptionBacked'
  <2> SUFFICES ASSUME NEW a \in Approvals, approval'[a] = "CONSUMED"
               PROVE  Backed(a)'
    BY DEF ConsumptionBacked, Approvals
  <2>1. CASE a = found[r]
    BY <2>1, <1>1, <1>2, <1>3 DEF Backed, ApprovalType, Decisions
  <2>2. CASE a # found[r]
    BY <2>2, <1>3 DEF ConsumptionBacked, Backed, ApprovalType, Approvals,
                      Decisions
  <2> QED
    BY <2>1, <2>2
<1> QED
  BY <1>4, <1>5, <1>6, <1>7, <1>8

-----------------------------------------------------------------------------
(* Decisions that are inserted and superseded *)

LEMMA InsertInv ==
  ASSUME IInv, NEW r \in Requests, Insert(r)
  PROVE  IInv'
<1> DEFINE d == decided + 1
<1> USE DEF IInv, TypeOK, approvalVars, callVars, factVars
<1>1. /\ decided \in Nat /\ d \in 1 .. MaxDecisions /\ decided' = d
      /\ UNCHANGED <<supersession, successor, approvalVars, callVars, factVars,
                     replaced>>
      /\ evaluation' = [evaluation EXCEPT ![d] = about[r]]
      /\ verdict' = [verdict EXCEPT ![d] = result[r]]
      /\ prior' = [prior EXCEPT ![d] = asked[r]]
      /\ relied' = [relied EXCEPT ![d] = found[r]]
      /\ reliedExpired' = [reliedExpired EXCEPT ![d] = expired[r]]
      /\ own' = [own EXCEPT ![r] = d]
      /\ pc[r] = "gathered"
      /\ pc' = [pc EXCEPT ![r] = IF replaced[r] # Nothing
                                   THEN "inserted" ELSE AfterSupersede(r)]
  BY BoundsAssumption DEF Insert, LedgerType
<1>2. /\ verdict'[d] = result[r] /\ prior'[d] = asked[r]
      /\ relied'[d] = found[r] /\ reliedExpired'[d] = expired[r]
      /\ supersession[d] = "CURRENT"
      /\ \A f \in Decisions :
           /\ f # d /\ f < d /\ f \in Rows
           /\ verdict'[f] = verdict[f] /\ prior'[f] = prior[f]
           /\ relied'[f] = relied[f] /\ reliedExpired'[f] = reliedExpired[f]
  BY <1>1, BoundsAssumption DEF LedgerType, RowsSound, Decisions, Rows
<1>3. Decisions' = Decisions \cup {d} /\ d \notin Decisions
        /\ Approvals' = Approvals
  BY <1>1 DEF Decisions, Approvals
\* A call that replaces no decision spends no approval.
<1>4. /\ replaced[r] \in Decisions \cup {Nothing}
      /\ asked[r] \in {replaced[r], Nothing, Dangling}
      /\ asked[r] \in Decisions \cup {Nothing, Dangling}
      /\ replaced[r] = Nothing => ~ Spends(r)
  <2>1. found[r] # Nothing => asked[r] \in Decisions
    BY <1>1 DEF GatheredSound, Deciding, CallsSound
  <2>2. Nothing \notin Decisions /\ Dangling \notin Decisions
    BY <1>1, BoundsAssumption DEF Nothing, Dangling, Decisions
  <2> QED
    BY <1>1, <2>1, <2>2 DEF GatheredSound, Deciding, CallsSound, Spends
<1>5. /\ pc'[r] = IF replaced[r] # Nothing THEN "inserted" ELSE "done"
      /\ own'[r] = d
      /\ \A q \in Requests \ {r} : pc'[q] = pc[q] /\ own'[q] = own[q]
  BY <1>1, <1>4 DEF AfterSupersede, SessionType
<1>6. TypeOK'
  <2>1. evaluation' \in [Rows -> Evaluations \cup {None}]
          /\ verdict' \in [Rows -> Verdicts]
    BY <1>1 DEF LedgerType, SessionType
  <2>2. prior' \in [Rows -> 0 .. Dangling]
          /\ relied' \in [Rows -> 0 .. MaxApprovals]
    BY <1>1 DEF LedgerType, SessionType
  <2>3. reliedExpired' \in [Rows -> BOOLEAN]
    BY <1>1 DEF LedgerType, SessionType
  <2>4. own' \in [Requests -> 0 .. MaxDecisions]
    BY <1>1 DEF SessionType
  <2>5. pc' \in [Requests -> Stages]
    BY <1>1, <1>5 DEF SessionType, Stages
  <2>6. decided' \in 0 .. MaxDecisions
    BY <1>1
  <2> QED
    BY <1>1, <1>3, <2>1, <2>2, <2>3, <2>4, <2>5, <2>6
       DEF LedgerType, ApprovalType, SessionType
<1>7. CallsSound'
  BY <1>1, <1>2, <1>3, <1>5 DEF CallsSound
<1>8. RowsSound'
  BY <1>1, <1>2, <1>3, BoundsAssumption DEF RowsSound, Rows
<1>9. GatheredSound'
  BY <1>1, <1>3, <1>5 DEF GatheredSound, Deciding
<1>10. InsertedSound'
  BY <1>1, <1>2, <1>3, <1>4, <1>5 DEF InsertedSound
<1>11. LinkPending'
  BY <1>1, <1>2, <1>3, <1>5 DEF LinkPending, InsertedSound
<1>12. SpendSound'
  BY <1>1, <1>2, <1>5 DEF SpendSound, InsertedSound, Spends
<1>13. LineageSound'
  BY <1>1, <1>2, <1>3, <1>4, BoundsAssumption
     DEF LineageSound, RowsSound, Nothing, Dangling
<1>14. ConsumptionBacked'
  BY <1>1, <1>2, <1>3 DEF ConsumptionBacked, Backed, CallsSound
<1> QED
  BY <1>6, <1>7, <1>8, <1>9, <1>10, <1>11, <1>12, <1>13, <1>14

LEMMA SupersedeInv ==
  ASSUME IInv, NEW r \in Requests, Supersede(r)
  PROVE  IInv'
<1> USE DEF IInv, TypeOK, contentVars, approvalVars, callVars, factVars
<1>1. /\ UNCHANGED <<contentVars, approvalVars, callVars, factVars, replaced,
                     own>>
      /\ pc[r] = "inserted"
      /\ pc' = [pc EXCEPT ![r] = AfterSupersede(r)]
      /\ supersession' = [supersession EXCEPT ![replaced[r]] = "SUPERSEDED"]
      /\ successor' = [successor EXCEPT ![replaced[r]] = own[r]]
      /\ prior' = IF asked[r] = Nothing
                    THEN [prior EXCEPT ![own[r]] = replaced[r]] ELSE prior
  BY DEF Supersede
<1>2. /\ own[r] \in Decisions /\ replaced[r] \in Decisions
      /\ replaced[r] < own[r] /\ prior[own[r]] = asked[r]
      /\ asked[r] \in {replaced[r], Nothing, Dangling}
  BY <1>1 DEF GatheredSound, Deciding, InsertedSound, LinkPending
<1>3. /\ decided \in Nat /\ Decisions \subseteq Rows
      /\ Nothing \notin Decisions /\ Dangling \notin Decisions
      /\ Nothing # Dangling
  BY BoundsAssumption DEF LedgerType, Decisions, Rows, Nothing, Dangling
<1>4. /\ Decisions' = Decisions /\ Approvals' = Approvals
      /\ \A d \in Decisions \ {replaced[r]} :
           supersession'[d] = supersession[d] /\ successor'[d] = successor[d]
      /\ supersession'[replaced[r]] = "SUPERSEDED"
      /\ successor'[replaced[r]] = own[r]
      /\ prior'[own[r]] = IF asked[r] = Nothing THEN replaced[r] ELSE asked[r]
      /\ \A d \in Decisions \ {own[r]} : prior'[d] = prior[d]
  BY <1>1, <1>2, <1>3 DEF LedgerType, Decisions, Approvals
<1>5. /\ pc'[r] = AfterSupersede(r)
        /\ AfterSupersede(r) \in {"superseded", "done"}
      /\ \A q \in Requests \ {r} : pc'[q] = pc[q]
  BY <1>1 DEF SessionType, AfterSupersede
<1>6. TypeOK'
  <2>1. supersession' \in [Rows -> {"CURRENT", "SUPERSEDED"}]
    BY <1>1 DEF LedgerType
  <2>2. successor' \in [Rows -> 0 .. MaxDecisions]
    BY <1>1 DEF LedgerType, SessionType
  <2>3. prior' \in [Rows -> 0 .. Dangling]
    <3>1. replaced[r] \in 0 .. Dangling
      BY BoundsAssumption DEF SessionType, Dangling
    <3> QED
      BY <1>1, <3>1 DEF LedgerType
  <2>4. pc' \in [Requests -> Stages]
    BY <1>1, <1>5 DEF SessionType, Stages
  <2> QED
    BY <1>1, <1>4, <2>1, <2>2, <2>3, <2>4
       DEF LedgerType, ApprovalType, SessionType
<1>7. CallsSound'
  BY <1>1, <1>4, <1>5 DEF CallsSound
<1>8. RowsSound'
  <2>1. \A d \in Rows : d > decided => d # replaced[r]
    BY <1>2, <1>3 DEF Decisions
  <2>2. \A d \in Rows : d > decided' => supersession'[d] = "CURRENT"
    BY <1>1, <2>1 DEF RowsSound, LedgerType
  <2>3. \A d \in Decisions' : supersession'[d] = "SUPERSEDED" =>
          successor'[d] \in Decisions'
    BY <1>2, <1>4 DEF RowsSound
  <2> QED
    BY <1>1, <2>2, <2>3 DEF RowsSound
<1>9. GatheredSound'
  BY <1>1, <1>4, <1>5 DEF GatheredSound, Deciding
<1>10. InsertedSound'
  BY <1>1, <1>4, <1>5 DEF InsertedSound
<1>11. LinkPending'
  <2> SUFFICES ASSUME NEW q \in Requests, pc'[q] = "inserted"
               PROVE  /\ prior'[own[q]] = asked[q]
                      /\ \A p \in Requests :
                           pc'[p] = "inserted" /\ own[p] = own[q] => p = q
    BY <1>1 DEF LinkPending
  <2>1. q # r /\ pc[q] = "inserted"
    BY <1>5
  <2>2. own[q] # own[r] /\ own[q] \in Decisions
    BY <1>1, <2>1 DEF LinkPending, InsertedSound
  <2> QED
    BY <1>4, <1>5, <2>1, <2>2 DEF LinkPending
<1>12. SpendSound'
  <2> SUFFICES ASSUME NEW q \in Requests, pc'[q] = "superseded"
               PROVE  /\ Spends(q)' /\ prior'[own[q]] = asked[q]
                      /\ supersession'[asked[q]] = "SUPERSEDED"
    BY <1>1 DEF SpendSound
  <2>1. CASE q = r
    <3>1. Spends(r) /\ found[r] \in Approvals /\ approves[found[r]] = asked[r]
      BY <1>1, <1>5, <2>1
         DEF AfterSupersede, Spends, GatheredSound, Deciding
    <3>2. asked[r] \in Decisions
      BY <3>1 DEF CallsSound
    <3> QED
      BY <1>1, <1>2, <1>3, <1>4, <2>1, <3>1, <3>2 DEF Spends
  <2>2. CASE q # r
    <3>1. /\ pc[q] = "superseded" /\ Spends(q) /\ own[q] \in Decisions
          /\ prior[own[q]] = asked[q] /\ supersession[asked[q]] = "SUPERSEDED"
          /\ found[q] \in Approvals /\ approves[found[q]] = asked[q]
      BY <1>5, <2>2
         DEF SpendSound, InsertedSound, GatheredSound, Deciding, Spends
    <3>2. asked[q] \in Decisions
      BY <3>1 DEF CallsSound
    <3> QED
      BY <1>1, <1>2, <1>3, <1>4, <3>1, <3>2 DEF Spends
  <2> QED
    BY <2>1, <2>2
<1>13. LineageSound'
  <2> SUFFICES ASSUME NEW d \in Decisions
               PROVE  /\ prior'[d] < d \/ prior'[d] = Dangling
                      /\ supersession'[d] = "SUPERSEDED" =>
                           /\ successor'[d] > d
                           /\ prior'[successor'[d]] \in {d, Dangling}
    BY <1>4 DEF LineageSound, Dangling
  <2>1. /\ prior[d] < d \/ prior[d] = Dangling
        /\ supersession[d] = "SUPERSEDED" =>
             /\ successor[d] > d /\ successor[d] \in Decisions
             /\ prior[successor[d]] \in {d, Dangling}
    BY DEF LineageSound, RowsSound
  <2>2. prior'[d] < d \/ prior'[d] = Dangling
    BY <1>2, <1>4, <2>1
  <2>3. CASE d = replaced[r]
    BY <1>2, <1>4, <2>2, <2>3 DEF Decisions
  <2>4. CASE d # replaced[r]
    BY <1>2, <1>3, <1>4, <2>1, <2>2, <2>4
  <2> QED
    BY <2>3, <2>4
<1>14. ConsumptionBacked'
  <2> SUFFICES ASSUME NEW a \in Approvals, approval[a] = "CONSUMED"
               PROVE  Backed(a)'
    BY <1>1, <1>4 DEF ConsumptionBacked
  <2>1. Backed(a) /\ approves[a] \in Decisions
    BY DEF ConsumptionBacked, CallsSound
  <2> QED
    BY <1>1, <1>2, <1>3, <1>4, <2>1 DEF Backed
<1> QED
  BY <1>6, <1>7, <1>8, <1>9, <1>10, <1>11, <1>12, <1>13, <1>14

-----------------------------------------------------------------------------
(* The theorems *)

LEMMA NextInv == IInv /\ [Next]_vars => IInv'
<1> SUFFICES ASSUME IInv, [Next]_vars
             PROVE  IInv'
  OBVIOUS
<1>1. ASSUME NEW a \in Approvals, Lapse(a)
      PROVE  IInv'
  BY <1>1, LapseInv
<1>2. ASSUME NEW r \in Requests, Serve(r)
      PROVE  IInv'
  BY <1>2, DecideCallInv, GatherInv, InsertInv, SupersedeInv, ConsumeInv,
     SubmitCheckInv, SubmitInsertInv, ApplyCheckInv DEF Serve
<1>3. CASE UNCHANGED vars
  <2>1. TypeOK' /\ CallsSound' /\ GatheredSound'
    BY <1>3 DEF vars, contentVars, lineageVars, approvalVars, callVars,
                factVars, IInv, TypeOK, LedgerType, ApprovalType, SessionType,
                CallsSound, GatheredSound, Deciding, Decisions, Approvals
  <2>2. InsertedSound' /\ LinkPending' /\ SpendSound'
    BY <1>3 DEF vars, contentVars, lineageVars, approvalVars, callVars,
                factVars, IInv, InsertedSound, LinkPending, SpendSound, Spends,
                Decisions
  <2> QED
    BY <1>3, <2>1, <2>2, TablesKept DEF IInv, vars, approvalVars
<1> QED
  BY <1>1, <1>2, <1>3 DEF Next

LEMMA Invariance == Spec => []IInv
BY InitInv, NextInv, PTL DEF Spec

\* The tables and the sessions of decide, submit and apply stay within their
\* columns' values.
THEOREM TypeCorrect == Spec => []TypeOK
<1>1. IInv => TypeOK
  BY DEF IInv
<1> QED
  BY <1>1, Invariance, PTL

\* However decide calls race, and whatever prior their callers name, the two
\* lineage pointers that supersession_service walks run along the age of the
\* decisions and agree.
THEOREM LineageIsSound == Spec => []LineageSound
<1>1. IInv => LineageSound
  BY DEF IInv
<1> QED
  BY <1>1, Invariance, PTL

\* decide_for_resolution marks an approval CONSUMED only for the APPROVED
\* decision that relied on it while it was valid and superseded the decision
\* it approves, though three commits lie between the two.
THEOREM ConsumptionIsBacked == Spec => []ConsumptionBacked
<1>1. IInv => ConsumptionBacked
  BY DEF IInv
<1> QED
  BY <1>1, Invariance, PTL

\* The newest decision of an evaluation is superseded by decisions of other
\* evaluations only, since a successor is newer than what it supersedes.
THEOREM NewestIsCurrent == Spec => []NewestStaysCurrent
<1>1. IInv => NewestStaysCurrent
  <2> SUFFICES ASSUME IInv, NEW d \in Decisions,
                      \A f \in Decisions : evaluation[f] = evaluation[d]
                                             => f <= d,
                      supersession[d] # "CURRENT"
               PROVE  evaluation[successor[d]] # evaluation[d]
    BY DEF NewestStaysCurrent
  <2>1. supersession[d] = "SUPERSEDED"
    BY BoundsAssumption DEF IInv, TypeOK, LedgerType, Decisions, Rows
  <2>2. successor[d] \in Decisions /\ successor[d] > d
    BY <2>1 DEF IInv, RowsSound, LineageSound
  <2> QED
    BY <2>2, BoundsAssumption DEF IInv, TypeOK, LedgerType, Decisions
<1> QED
  BY <1>1, Invariance, PTL

-----------------------------------------------------------------------------
(* One current decision: an evaluation that no call is about to change has no *)
(* more decisions that are current than its lineage has ends                  *)

\* A decision's prior is superseded, or a call is about to supersede it.
PriorsPending ==
  \A d \in Decisions : prior[d] \in Decisions =>
    \/ supersession[prior[d]] = "SUPERSEDED"
    \/ \E r \in Requests :
         pc[r] = "inserted" /\ own[r] = d /\ about[r] = evaluation[d]

\* Most steps neither write the lineage nor end a call that stands between its
\* first two commits.
LEMMA PriorsKept ==
  ASSUME PriorsPending, UNCHANGED <<contentVars, lineageVars, own>>,
         \A r \in Requests :
           pc[r] = "inserted" => pc'[r] = "inserted" /\ about'[r] = about[r]
  PROVE  PriorsPending'
BY DEF PriorsPending, contentVars, lineageVars, Decisions

LEMMA InsertPriors ==
  ASSUME IInv, PriorsPending, NEW r \in Requests, Insert(r)
  PROVE  PriorsPending'
<1> DEFINE d == decided + 1
<1>1. /\ decided \in Nat /\ d \in Rows /\ decided' = d
      /\ UNCHANGED <<supersession, about>>
      /\ evaluation' = [evaluation EXCEPT ![d] = about[r]]
      /\ prior' = [prior EXCEPT ![d] = asked[r]]
      /\ own' = [own EXCEPT ![r] = d]
      /\ pc[r] = "gathered"
      /\ pc' = [pc EXCEPT ![r] = IF replaced[r] # Nothing
                                   THEN "inserted" ELSE AfterSupersede(r)]
  BY BoundsAssumption
     DEF Insert, IInv, TypeOK, LedgerType, Rows, callVars
<1>2. LedgerType /\ SessionType
  BY DEF IInv, TypeOK
<1>3. /\ prior'[d] = asked[r] /\ evaluation'[d] = about[r] /\ own'[r] = d
      /\ \A f \in Decisions : /\ prior'[f] = prior[f] /\ f # d
                             /\ evaluation'[f] = evaluation[f]
      /\ \A q \in Requests \ {r} : pc'[q] = pc[q] /\ own'[q] = own[q]
  BY <1>1, <1>2 DEF LedgerType, SessionType, Decisions
<1>4. Decisions' = Decisions \cup {d} /\ Nothing \notin Decisions'
        /\ Dangling \notin Decisions'
  BY <1>1, BoundsAssumption DEF Decisions, Rows, Nothing, Dangling
<1>5. ASSUME prior'[d] \in Decisions'
      PROVE  pc'[r] = "inserted"
  <2>1. asked[r] \in {replaced[r], Nothing, Dangling}
    BY <1>1 DEF IInv, GatheredSound, Deciding
  <2>2. replaced[r] # Nothing
    BY <1>3, <1>4, <1>5, <2>1
  <2> QED
    BY <1>1, <1>2, <2>2 DEF SessionType
<1>6. ASSUME NEW f \in Decisions, prior'[f] \in Decisions'
      PROVE  \/ supersession'[prior'[f]] = "SUPERSEDED"
             \/ \E q \in Requests : /\ pc'[q] = "inserted" /\ own'[q] = f
                                   /\ about'[q] = evaluation'[f]
  <2>1. prior[f] \in Decisions
    <3>1. prior[f] < f
      BY <1>3, <1>4, <1>6 DEF IInv, LineageSound
    <3>2. prior[f] # d
      BY <1>1, <3>1 DEF Decisions
    <3> QED
      BY <1>3, <1>4, <1>6, <3>2
  <2>2. CASE supersession[prior[f]] = "SUPERSEDED"
    BY <1>1, <1>3, <2>2
  <2>3. CASE supersession[prior[f]] # "SUPERSEDED"
    <3>1. PICK q \in Requests :
            pc[q] = "inserted" /\ own[q] = f /\ about[q] = evaluation[f]
      BY <2>1, <2>3 DEF PriorsPending
    <3>2. q # r
      BY <1>1, <3>1
    <3> QED
      BY <1>1, <1>3, <3>1, <3>2
  <2> QED
    BY <2>2, <2>3
<1> QED
  BY <1>1, <1>3, <1>4, <1>5, <1>6 DEF PriorsPending

LEMMA SupersedePriors ==
  ASSUME IInv, PriorsPending, NEW r \in Requests, Supersede(r)
  PROVE  PriorsPending'
<1>1. /\ UNCHANGED <<contentVars, callVars, own>>
      /\ pc[r] = "inserted"
      /\ pc' = [pc EXCEPT ![r] = AfterSupersede(r)]
      /\ supersession' = [supersession EXCEPT ![replaced[r]] = "SUPERSEDED"]
      /\ prior' = IF asked[r] = Nothing
                    THEN [prior EXCEPT ![own[r]] = replaced[r]] ELSE prior
  BY DEF Supersede
<1>2. LedgerType /\ SessionType
  BY DEF IInv, TypeOK
<1>3. /\ own[r] \in Decisions /\ replaced[r] \in Decisions
      /\ prior[own[r]] = asked[r] /\ asked[r] \in {replaced[r], Nothing, Dangling}
  BY <1>1 DEF IInv, GatheredSound, Deciding, InsertedSound, LinkPending
<1>4. /\ Decisions' = Decisions /\ Decisions \subseteq Rows
      /\ Nothing \notin Decisions /\ Dangling \notin Decisions
  BY <1>1, <1>2, BoundsAssumption
     DEF contentVars, LedgerType, Decisions, Rows, Nothing, Dangling
<1>5. /\ supersession'[replaced[r]] = "SUPERSEDED"
      /\ \A d \in Decisions : supersession[d] = "SUPERSEDED"
                              => supersession'[d] = "SUPERSEDED"
      /\ prior'[own[r]] \in {replaced[r], Dangling}
      /\ \A d \in Decisions \ {own[r]} : prior'[d] = prior[d]
      /\ \A q \in Requests \ {r} : pc'[q] = pc[q]
  BY <1>1, <1>2, <1>3, <1>4 DEF LedgerType, SessionType
<1>6. ASSUME NEW d \in Decisions, prior'[d] \in Decisions
      PROVE  \/ supersession'[prior'[d]] = "SUPERSEDED"
             \/ \E q \in Requests : /\ pc'[q] = "inserted" /\ own'[q] = d
                                   /\ about'[q] = evaluation'[d]
  <2>1. CASE d = own[r]
    BY <1>4, <1>5, <1>6, <2>1
  <2>2. CASE d # own[r] /\ supersession[prior[d]] = "SUPERSEDED"
    BY <1>5, <1>6, <2>2
  <2>3. CASE d # own[r] /\ supersession[prior[d]] # "SUPERSEDED"
    <3>1. PICK q \in Requests :
            pc[q] = "inserted" /\ own[q] = d /\ about[q] = evaluation[d]
      BY <1>5, <1>6, <2>3 DEF PriorsPending
    <3>2. q # r
      BY <2>3, <3>1
    <3> QED
      BY <1>1, <1>5, <3>1, <3>2 DEF contentVars, callVars
  <2> QED
    BY <2>1, <2>2, <2>3
<1> QED
  BY <1>4, <1>6 DEF PriorsPending

LEMMA NextPriors == IInv /\ PriorsPending /\ [Next]_vars => PriorsPending'
<1> SUFFICES ASSUME IInv, PriorsPending, [Next]_vars PROVE PriorsPending'
  OBVIOUS
<1> USE DEF IInv, TypeOK, SessionType
<1>1. CASE UNCHANGED vars
  BY <1>1, PriorsKept DEF vars, callVars
<1>2. ASSUME NEW a \in Approvals, Lapse(a) PROVE PriorsPending'
  BY <1>2, PriorsKept DEF Lapse, callVars
<1>3. ASSUME NEW r \in Requests, Serve(r) PROVE PriorsPending'
  <2>1. ASSUME NEW e \in Evaluations,
               NEW p \in Decisions \cup {Nothing, Dangling}, DecideCall(r, e, p)
        PROVE  PriorsPending'
    BY <2>1, PriorsKept DEF DecideCall
  <2>2. ASSUME NEW a \in Approvals \cup {Nothing},
               NEW p \in Decisions \cup {Nothing}, NEW v \in Verdicts,
               Gather(r, a, p, v)
        PROVE  PriorsPending'
    BY <2>2, PriorsKept DEF Gather, callVars
  <2>3. CASE Consume(r)
    BY <2>3, PriorsKept DEF Consume, callVars
  <2>4. ASSUME NEW d \in Decisions, SubmitCheck(r, d) PROVE PriorsPending'
    BY <2>4, PriorsKept DEF SubmitCheck
  <2>5. CASE SubmitInsert(r)
    BY <2>5, PriorsKept DEF SubmitInsert, callVars
  <2>6. ASSUME NEW a \in Approvals, ApplyCheck(r, a) PROVE PriorsPending'
    BY <2>6, PriorsKept DEF ApplyCheck
  <2> QED
    BY <1>3, <2>1, <2>2, <2>3, <2>4, <2>5, <2>6, InsertPriors, SupersedePriors
       DEF Serve
<1> QED
  BY <1>1, <1>2, <1>3 DEF Next

\* Each decision of a settled evaluation is a root or has superseded one of its
\* own, not two the same one: so there is at most one that none has superseded.
LEMMA OneEnd ==
  ASSUME IInv, PriorsPending, NEW e \in Evaluations, Settled(e), ~ Forked(e)
  PROVE  Cardinality(CurrentOf(e)) <= 1
<1> DEFINE All == {d \in Decisions : evaluation[d] = e}
           Past == All \ CurrentOf(e)
           link == [d \in All |-> IF IsRoot(d, e) THEN Nothing ELSE prior[d]]
<1>1. /\ decided \in Nat /\ Decisions \subseteq Rows
      /\ Nothing \notin Decisions /\ Dangling \notin Decisions
      /\ LedgerType
  BY BoundsAssumption
     DEF IInv, TypeOK, LedgerType, Decisions, Rows, Nothing, Dangling
<1>2. IsFiniteSet(Decisions)
  BY <1>1, FS_Interval DEF Decisions
<1>3. IsFiniteSet(All) /\ CurrentOf(e) \subseteq All /\ All \subseteq Decisions
  BY <1>2, FS_Subset DEF CurrentOf
<1>4. ASSUME NEW d \in All, ~ IsRoot(d, e)
      PROVE  prior[d] \in Past
  <2>1. prior[d] \notin {Nothing, Dangling} /\ evaluation[prior[d]] = e
    BY <1>4 DEF IsRoot
  <2>2. prior[d] < d /\ prior[d] \in 0 .. Dangling /\ d \in 1 .. decided
    BY <1>1, <1>3, <2>1 DEF IInv, LineageSound, LedgerType, Decisions
  <2>3. prior[d] \in Decisions
    BY <1>1, <2>1, <2>2, BoundsAssumption DEF Decisions, Nothing, Dangling
  <2>4. supersession[prior[d]] = "SUPERSEDED"
    BY <1>4, <2>3 DEF PriorsPending, Settled
  <2> QED
    BY <2>1, <2>3, <2>4 DEF CurrentOf
<1>5. link \in [All -> Past \cup {Nothing}]
  BY <1>4
<1>6. /\ IsFiniteSet(CurrentOf(e)) /\ IsFiniteSet(Past)
      /\ Cardinality(Past) = Cardinality(All) - Cardinality(CurrentOf(e))
  <2>1. All \cap CurrentOf(e) = CurrentOf(e) /\ CurrentOf(e) \in SUBSET All
    BY <1>3
  <2>2. IsFiniteSet(CurrentOf(e))
    <3> HIDE DEF All
    <3> QED
      BY <1>3, <2>1, FS_Subset
  <2>3. /\ IsFiniteSet(All \ CurrentOf(e))
        /\ Cardinality(All \ CurrentOf(e)) =
             Cardinality(All) - Cardinality(All \cap CurrentOf(e))
    <3> HIDE DEF All
    <3> QED
      BY <1>3, FS_Difference
  <2>4. Past = All \ CurrentOf(e)
    OBVIOUS
  <2> HIDE DEF Past, All
  <2> QED
    BY <2>1, <2>2, <2>3, <2>4
<1>7. /\ IsFiniteSet(Past \cup {Nothing})
      /\ Cardinality(Past \cup {Nothing}) = Cardinality(Past) + 1
  <2>1. Nothing \notin Past
    BY <1>1
  <2> HIDE DEF Past
  <2> QED
    BY <1>6, <2>1, FS_AddElement
<1>8. /\ Cardinality(All) \in Nat /\ Cardinality(CurrentOf(e)) \in Nat
      /\ Cardinality(Past) \in Nat
  BY <1>3, <1>6, FS_CardinalityType
<1>9. ASSUME ~ Cardinality(CurrentOf(e)) <= 1 PROVE FALSE
  <2>1. Cardinality(Past \cup {Nothing}) < Cardinality(All)
    <3> HIDE DEF All, Past
    <3> QED
      BY <1>6, <1>7, <1>8, <1>9
  <2>2. PICK d \in All, f \in All : d # f /\ link[d] = link[f]
    <3> HIDE DEF All, Past, link
    <3> QED
      BY <1>3, <1>5, <1>7, <2>1, FS_PigeonHole
  <2>3. Nothing \notin Past
    BY <1>1
  <2>4. prior[d] = prior[f] \/ (IsRoot(d, e) /\ IsRoot(f, e))
    BY <1>4, <2>2, <2>3
  <2> QED
    BY <1>3, <2>2, <2>4 DEF Forked
<1> QED
  BY <1>9

\* However decide calls race, an evaluation has two CURRENT decisions only
\* while a call stands between its commits or when its lineage forks.
THEOREM OneCurrent == Spec => []CurrentUniqueUnlessForked
<1>1. Init => PriorsPending
  BY DEF Init, PriorsPending, Decisions
<1>2. IInv /\ PriorsPending => CurrentUniqueUnlessForked
  BY OneEnd DEF CurrentUniqueUnlessForked
<1> QED
  BY <1>1, <1>2, InitInv, NextInv, NextPriors, PTL DEF Spec

-----------------------------------------------------------------------------
(* Serialised decide calls *)

\* The call of r has looked for the decision to replace and not superseded it.
Between(r) == pc[r] \in {"gathered", "inserted"}

\* Decide calls on one evaluation are served one at a time: what a lock on the
\* evaluation would guarantee.
OneDeciding ==
  \A r, q \in Requests : Between(r) /\ Between(q) /\ about[r] = about[q] => r = q

\* A caller that names a decision names the current one of its evaluation.
NamesCurrent ==
  \A r \in Requests :
    pc[r] = "called" /\ asked[r] \in Decisions => asked[r] \in CurrentOf(about[r])

CurrentUnique ==
  \A e \in Evaluations : Settled(e) => Cardinality(CurrentOf(e)) <= 1

Replaces(r) ==
  /\ pc[r] = "gathered" => CurrentOf(about[r]) = {replaced[r]} \ {Nothing}
  /\ pc[r] = "inserted" => CurrentOf(about[r]) = {replaced[r], own[r]}

\* An evaluation has one current decision, unless a call is about to supersede
\* one of two; and the decision a call is to replace is that one.
SoleCurrent ==
  /\ \A e \in Evaluations \cup {None} : Settled(e) =>
       \A d, f \in CurrentOf(e) : d = f
  /\ \A r \in Requests : Replaces(r)

\* A step that changes neither the decisions nor what such a call holds.
LEMMA SoleKept ==
  ASSUME SoleCurrent,
         UNCHANGED <<decided, evaluation, supersession>>,
         \A q \in Requests :
           /\ Between(q)' <=> Between(q)
           /\ Between(q) => /\ pc'[q] = pc[q] /\ about'[q] = about[q]
                            /\ replaced'[q] = replaced[q] /\ own'[q] = own[q]
  PROVE  SoleCurrent'
<1>1. \A e : CurrentOf(e)' = CurrentOf(e)
  BY DEF CurrentOf, Decisions
<1>2. \A q \in Requests : (pc'[q] \in {"gathered", "inserted"} \/ Between(q)) =>
        /\ pc'[q] = pc[q] /\ about'[q] = about[q]
        /\ replaced'[q] = replaced[q] /\ own'[q] = own[q]
  BY DEF Between
<1>3. \A e : Settled(e)' => Settled(e)
  BY <1>2 DEF Settled, Between
<1> QED
  BY <1>1, <1>2, <1>3 DEF SoleCurrent, Replaces

LEMMA GatherSole ==
  ASSUME IInv, SoleCurrent, OneDeciding', NamesCurrent, NEW r \in Requests,
         NEW a \in Approvals \cup {Nothing}, NEW p \in Decisions \cup {Nothing},
         NEW v \in Verdicts, Gather(r, a, p, v)
  PROVE  SoleCurrent'
<1> DEFINE e == about[r]
<1>1. \A k : CurrentOf(k)' = CurrentOf(k)
  BY DEF Gather, contentVars, lineageVars, CurrentOf, Decisions
<1>2. /\ pc'[r] = "gathered" /\ replaced'[r] = p /\ UNCHANGED <<about, asked, own>>
      /\ \A q \in Requests \ {r} : pc'[q] = pc[q] /\ replaced'[q] = replaced[q]
      /\ pc[r] = "called" /\ e \in Evaluations \cup {None}
  BY DEF Gather, callVars, IInv, TypeOK, SessionType
<1>3. \A k : Settled(k)' => Settled(k)
  BY <1>2 DEF Settled
<1>4. Settled(e)
  BY <1>2 DEF OneDeciding, Between, Settled
<1>5. \A d, f \in CurrentOf(e) : d = f
  BY <1>2, <1>4 DEF SoleCurrent
<1>6. CurrentOf(e) = {p} \ {Nothing}
  <2>1. Nothing \notin Decisions /\ CurrentOf(e) \subseteq Decisions
    BY BoundsAssumption DEF Nothing, Decisions, CurrentOf
  <2>2. CASE asked[r] \in Decisions
    <3>1. p = asked[r] /\ p \in CurrentOf(e)
      BY <1>2, <2>2 DEF Gather, NamesCurrent
    <3> QED
      BY <1>5, <2>1, <3>1
  <2>3. CASE asked[r] \notin Decisions
    <3>1. p \in CurrentOf(e) \/ (CurrentOf(e) = {} /\ p = Nothing)
      BY <2>3 DEF Gather, NewestOrNothing, IsNewestOf
    <3> QED
      BY <1>5, <2>1, <3>1
  <2> QED
    BY <2>2, <2>3
<1> QED
  BY <1>1, <1>2, <1>3, <1>6 DEF SoleCurrent, Replaces

LEMMA InsertSole ==
  ASSUME IInv, SoleCurrent, OneDeciding, NEW r \in Requests, Insert(r)
  PROVE  SoleCurrent'
<1> DEFINE e == about[r]  d == decided + 1
<1>1. /\ decided' = d /\ decided \in Nat /\ d \in Rows /\ d \notin Decisions
      /\ Decisions' = Decisions \cup {d} /\ Decisions \subseteq Rows
      /\ UNCHANGED <<supersession, about, replaced>>
      /\ supersession[d] = "CURRENT"
      /\ evaluation'[d] = e /\ \A f \in Decisions : evaluation'[f] = evaluation[f]
  BY BoundsAssumption
     DEF Insert, callVars, IInv, TypeOK, LedgerType, RowsSound, Decisions, Rows
<1>2. /\ CurrentOf(e)' = CurrentOf(e) \cup {d}
      /\ \A k : k # e => CurrentOf(k)' = CurrentOf(k)
  BY <1>1 DEF CurrentOf
<1>3. /\ pc[r] = "gathered" /\ own'[r] = d
      /\ pc'[r] = "inserted" <=> replaced[r] # Nothing
      /\ pc'[r] # "gathered"
      /\ \A q \in Requests \ {r} : pc'[q] = pc[q] /\ own'[q] = own[q]
  BY DEF Insert, AfterSupersede, IInv, TypeOK, SessionType
<1>4. CurrentOf(e) = {replaced[r]} \ {Nothing}
  BY <1>3 DEF SoleCurrent, Replaces
<1>5. \A q \in Requests \ {r} : Between(q) => about[q] # e
  BY <1>3 DEF OneDeciding, Between
<1>6. ASSUME NEW q \in Requests PROVE Replaces(q)'
  <2>1. CASE q = r
    BY <1>1, <1>2, <1>3, <1>4, <1>5, <2>1 DEF Replaces
  <2>2. CASE q # r
    BY <1>1, <1>2, <1>3, <1>4, <1>5, <2>2 DEF SoleCurrent, Replaces, Between
  <2> QED
    BY <2>1, <2>2
<1>7. ASSUME NEW k \in Evaluations \cup {None}, Settled(k)'
      PROVE  \A g, f \in CurrentOf(k)' : g = f
  <2>1. CASE k = e
    <3>1. replaced[r] = Nothing
      BY <1>1, <1>3, <1>7, <2>1 DEF Settled
    <3>2. CurrentOf(e)' = {d}
      BY <1>2, <1>4, <3>1
    <3>3. CurrentOf(k)' = {d}
      BY <1>1, <2>1, <3>2
    <3> QED
      BY <3>3
  <2>2. CASE k # e
    <3>1. Settled(k)
      BY <1>1, <1>3, <1>7, <2>2 DEF Settled
    <3> QED
      BY <1>2, <2>2, <3>1 DEF SoleCurrent
  <2> QED
    BY <2>1, <2>2
<1> QED
  BY <1>6, <1>7 DEF SoleCurrent

LEMMA SupersedeSole ==
  ASSUME IInv, SoleCurrent, OneDeciding, NEW r \in Requests, Supersede(r)
  PROVE  SoleCurrent'
<1> DEFINE e == about[r]
<1>1. /\ pc[r] = "inserted" /\ pc'[r] \notin {"gathered", "inserted"}
      /\ \A q \in Requests \ {r} : pc'[q] = pc[q]
      /\ UNCHANGED <<decided, evaluation, about, replaced, own>>
  BY DEF Supersede, AfterSupersede, contentVars, callVars, IInv, TypeOK, SessionType
<1>2. CurrentOf(e) = {replaced[r], own[r]}
  BY <1>1 DEF SoleCurrent, Replaces
<1>3. replaced[r] \in Rows /\ evaluation[replaced[r]] = e
  <2>1. replaced[r] \in CurrentOf(e)
    BY <1>2
  <2>2. Decisions \subseteq Rows
    BY BoundsAssumption DEF Decisions, Rows, IInv, TypeOK, LedgerType
  <2> QED
    BY <2>1, <2>2 DEF CurrentOf
<1>4. supersession' = [supersession EXCEPT ![replaced[r]] = "SUPERSEDED"]
      /\ supersession \in [Rows -> {"CURRENT", "SUPERSEDED"}]
  BY DEF Supersede, IInv, TypeOK, LedgerType
<1>5. \A k : CurrentOf(k)' = CurrentOf(k) \ {replaced[r]}
  BY <1>1, <1>3, <1>4 DEF CurrentOf, Decisions, Rows, IInv, TypeOK, LedgerType
<1>6. \A k : k # e => CurrentOf(k)' = CurrentOf(k)
  BY <1>3, <1>5 DEF CurrentOf
<1>7. \A q \in Requests \ {r} : Between(q) => about[q] # e
  BY <1>1 DEF OneDeciding, Between
<1>8. ASSUME NEW q \in Requests PROVE Replaces(q)'
  <2>1. CASE q = r
    BY <1>1, <1>6, <1>7, <2>1 DEF Replaces
  <2>2. CASE q # r
    BY <1>1, <1>6, <1>7, <2>2 DEF SoleCurrent, Replaces, Between
  <2> QED
    BY <2>1, <2>2
<1>9. ASSUME NEW k \in Evaluations \cup {None}, Settled(k)'
      PROVE  \A g, f \in CurrentOf(k)' : g = f
  <2>1. CASE k = e
    BY <1>2, <1>5, <2>1
  <2>2. CASE k # e
    <3>1. Settled(k)
      BY <1>1, <1>9, <2>2 DEF Settled
    <3> QED
      BY <1>6, <2>2, <3>1 DEF SoleCurrent
  <2> QED
    BY <2>1, <2>2
<1> QED
  BY <1>8, <1>9 DEF SoleCurrent

LEMMA NextSole ==
  ASSUME IInv, OneDeciding, OneDeciding', NamesCurrent, SoleCurrent, [Next]_vars
  PROVE  SoleCurrent'
<1> USE DEF IInv, TypeOK, SessionType, Between
<1>1. CASE UNCHANGED vars
  BY <1>1, SoleKept DEF vars, callVars, contentVars, lineageVars
<1>2. ASSUME NEW a \in Approvals, Lapse(a) PROVE SoleCurrent'
  BY <1>2, SoleKept DEF Lapse, callVars, contentVars, lineageVars
<1>3. ASSUME NEW r \in Requests, Serve(r) PROVE SoleCurrent'
  <2>1. ASSUME NEW e \in Evaluations,
               NEW p \in Decisions \cup {Nothing, Dangling}, DecideCall(r, e, p)
        PROVE  SoleCurrent'
    BY <2>1, SoleKept DEF DecideCall, contentVars, lineageVars
  <2>2. CASE Consume(r)
    BY <2>2, SoleKept DEF Consume, callVars, contentVars, lineageVars
  <2>3. ASSUME NEW d \in Decisions, SubmitCheck(r, d) PROVE SoleCurrent'
    BY <2>3, SoleKept DEF SubmitCheck, contentVars, lineageVars
  <2>4. CASE SubmitInsert(r)
    BY <2>4, SoleKept DEF SubmitInsert, callVars, contentVars, lineageVars
  <2>5. ASSUME NEW a \in Approvals, ApplyCheck(r, a) PROVE SoleCurrent'
    BY <2>5, SoleKept DEF ApplyCheck, contentVars, lineageVars
  <2> QED
    BY <1>3, <2>1, <2>2, <2>3, <2>4, <2>5, GatherSole, InsertSole, SupersedeSole
       DEF Serve
<1> QED
  BY <1>1, <1>2, <1>3 DEF Next

\* An evaluation has one current decision at most, between calls, where decide
\* calls on it are served one at a time and whoever names a prior decision names
\* the current one: a race and a stale name are all that forks a lineage.
THEOREM SerialOneCurrent ==
  Spec /\ []OneDeciding /\ []NamesCurrent => []CurrentUnique
<1>1. Init => SoleCurrent
  BY DEF Init, SoleCurrent, Replaces, CurrentOf, Decisions
<1>2. SoleCurrent => CurrentUnique
  <2> SUFFICES ASSUME SoleCurrent, NEW e \in Evaluations, Settled(e)
               PROVE  Cardinality(CurrentOf(e)) <= 1
    BY DEF CurrentUnique
  <2>1. CASE CurrentOf(e) = {}
    BY <2>1, FS_EmptySet
  <2>2. ASSUME NEW d \in CurrentOf(e) PROVE Cardinality(CurrentOf(e)) <= 1
    <3>1. CurrentOf(e) = {d}
      BY <2>2 DEF SoleCurrent
    <3> QED
      BY <3>1, FS_Singleton
  <2> QED
    BY <2>1, <2>2
<1> QED
  BY <1>1, <1>2, InitInv, NextInv, NextSole, PTL DEF Spec


-----------------------------------------------------------------------------
(* The spending gate: totals *)

\* Of the finite sets that have a property, some have no smaller one with it:
\* what takes the place of an induction over finite sets.
LEMMA SmallestSet ==
  ASSUME NEW U, IsFiniteSet(U), NEW Bad, Bad # {}, Bad \subseteq SUBSET U
  PROVE  \E S \in Bad : \A T \in Bad : T \subseteq S => T = S
<1>1. IsWellFoundedOn(StrictSubsetOrdering(U), FiniteSubsetsOf(U))
  BY FS_StrictSubsetOrderingWellFounded
<1>2. Bad \subseteq FiniteSubsetsOf(U)
  <2>1. ASSUME NEW S \in Bad PROVE S \in SUBSET U /\ IsFiniteSet(S)
    BY FS_Subset
  <2> QED
    BY <2>1 DEF FiniteSubsetsOf
<1>3. PICK S \in Bad : \A T \in Bad : ~ (<<T, S>> \in StrictSubsetOrdering(U))
  BY <1>1, <1>2, WFMin
<1> QED
  BY <1>3 DEF StrictSubsetOrdering


\* And of the natural numbers that have one, some is the least.
LEMMA LeastNatural ==
  ASSUME NEW S \in SUBSET Nat, S # {}
  PROVE  \E n \in S : \A m \in S : n <= m
<1>1. PICK k \in S : TRUE
  OBVIOUS
<1> DEFINE U == 0 .. k
           Below == {0 .. n : n \in {m \in S : m <= k}}
<1>2. Below # {} /\ Below \subseteq SUBSET U
  OBVIOUS
<1>3. PICK X \in Below : \A Y \in Below : Y \subseteq X => Y = X
  <2>1. IsFiniteSet(U)
    BY FS_Interval
  <2> HIDE DEF Below, U
  <2> QED
    BY <1>2, <2>1, SmallestSet
<1>4. PICK n \in S : X = 0 .. n /\ n <= k
  OBVIOUS
<1>5. ASSUME NEW m \in S, m < n PROVE FALSE
  <2>1. 0 .. m \in Below /\ 0 .. m \subseteq X
    BY <1>4, <1>5
  <2>2. n \in X /\ n \notin 0 .. m
    BY <1>4, <1>5
  <2> HIDE DEF Below
  <2> QED
    BY <1>3, <2>1, <2>2
<1> QED
  BY <1>4, <1>5

\* The member of a set that FoldSet takes first, and what it makes of a set
\* whose smaller subsets f has the totals of.
Element(S) == CHOOSE t \in S : TRUE

Summed(f, S) == IF S = {} THEN 0 ELSE Amount[Element(S)] + f[S \ {Element(S)}]

Sums(f) ==
  /\ f \in [SUBSET Transactions -> Nat]
  /\ \A S \in SUBSET Transactions : f[S] = Summed(f, S)

LEMMA ElementOf ==
  ASSUME NEW S \in SUBSET Transactions, S # {}
  PROVE  /\ Element(S) \in S /\ Amount[Element(S)] \in Nat
         /\ S \ {Element(S)} \in SUBSET Transactions
         /\ IsFiniteSet(S) /\ Cardinality(S) \in Nat /\ Cardinality(S) > 0
         /\ Cardinality(S \ {Element(S)}) = Cardinality(S) - 1
<1>1. Element(S) \in S
  BY DEF Element
<1>2. IsFiniteSet(S)
  BY FS_Subset, GateAssumption
<1>3. Cardinality(S) \in Nat /\ Cardinality(S \ {Element(S)}) = Cardinality(S) - 1
  BY <1>1, <1>2, FS_RemoveElement, FS_CardinalityType
<1>4. Cardinality(S) # 0
  BY <1>2, FS_EmptySet
<1> QED
  BY <1>1, <1>2, <1>3, <1>4, GateAssumption

\* Totals of sets of n members make totals of sets of n + 1: there is a function
\* that has them all.
LEMMA SumsExist == \E f : Sums(f)
<1> DEFINE F == [SUBSET Transactions -> Nat]
           Good(n, f) == \A S \in SUBSET Transactions :
                           Cardinality(S) <= n => f[S] = Summed(f, S)
           Bad == {n \in Nat : \A f \in F : ~ Good(n, f)}
<1>1. ASSUME NEW f \in F
      PROVE  [S \in SUBSET Transactions |-> Summed(f, S)] \in F
  <2>1. ASSUME NEW S \in SUBSET Transactions PROVE Summed(f, S) \in Nat
    <3>1. CASE S = {}
      BY <3>1 DEF Summed
    <3>2. CASE S # {}
      <4>1. S \ {Element(S)} \in SUBSET Transactions /\ Amount[Element(S)] \in Nat
        BY <3>2, ElementOf
      <4>2. f[S \ {Element(S)}] \in Nat
        BY <4>1
      <4> QED
        BY <3>2, <4>1, <4>2 DEF Summed
    <3> QED
      BY <3>1, <3>2
  <2> QED
    BY <2>1
<1>2. ASSUME Bad # {} PROVE FALSE
  <2>1. PICK n \in Bad : \A m \in Bad : n <= m
    <3>1. Bad \in SUBSET Nat
      OBVIOUS
    <3> HIDE DEF Bad
    <3> QED
      BY <1>2, <3>1, LeastNatural
  <2>2. n \in Nat /\ \A f \in F : ~ Good(n, f)
    OBVIOUS
  <2> HIDE DEF Bad
  <2>3. CASE n = 0
    <3> DEFINE g == [S \in SUBSET Transactions |-> 0]
    <3>1. g \in F
      OBVIOUS
    <3>2. ASSUME NEW S \in SUBSET Transactions, Cardinality(S) <= 0
          PROVE  g[S] = Summed(g, S)
      <4>1. CASE S # {}
        <5>1. Cardinality(S) \in Nat /\ Cardinality(S) > 0
          BY <4>1, ElementOf
        <5> QED
          BY <3>2, <5>1
      <4>2. CASE S = {}
        BY <4>2 DEF Summed
      <4> QED
        BY <4>1, <4>2
    <3> QED
      BY <2>2, <2>3, <3>1, <3>2
  <2>4. CASE n # 0
    <3>1. n - 1 \in Nat /\ n - 1 \notin Bad
      BY <2>1, <2>2, <2>4
    <3>2. PICK f \in F : Good(n - 1, f)
      BY <3>1 DEF Bad
    <3> DEFINE g == [S \in SUBSET Transactions |-> Summed(f, S)]
    <3>3. g \in F
      BY <1>1
    <3>4. ASSUME NEW S \in SUBSET Transactions, Cardinality(S) <= n
          PROVE  g[S] = Summed(g, S)
      <4>1. CASE S = {}
        BY <4>1 DEF Summed
      <4>2. CASE S # {}
        <5> DEFINE T == S \ {Element(S)}
        <5>1. T \in SUBSET Transactions /\ Cardinality(T) <= n - 1
          BY <2>2, <3>4, <4>2, ElementOf
        <5>2. g[T] = f[T]
          <6> HIDE DEF T
          <6> QED
            BY <3>2, <5>1
        <5> QED
          BY <4>2, <5>2 DEF Summed
      <4> QED
        BY <4>1, <4>2
    <3> HIDE DEF g, F
    <3> QED
      BY <2>2, <3>3, <3>4
  <2> QED
    BY <2>3, <2>4
<1>3. PICK f \in F : Good(Cardinality(Transactions), f)
  <2>1. Cardinality(Transactions) \in Nat
    BY GateAssumption, FS_CardinalityType
  <2> QED
    BY <1>2, <2>1
<1>4. ASSUME NEW S \in SUBSET Transactions PROVE f[S] = Summed(f, S)
  <2>1. Cardinality(S) <= Cardinality(Transactions)
    BY GateAssumption, FS_Subset
  <2> QED
    BY <1>3, <2>1
<1> QED
  BY <1>4 DEF Sums

\* FoldSet computes what any such function says.
LEMMA TotalIs ==
  ASSUME NEW f, Sums(f), NEW U \in SUBSET Transactions
  PROVE  Total(U) = f[U]
<1> DEFINE Sum(g) == [S \in SUBSET U |->
                        IF S = {} THEN 0
                        ELSE Amount[Element(S)] + g[S \ {Element(S)}]]
           sum == CHOOSE g : g = Sum(g)
<1>1. Total(U) = sum[U]
  BY DEF Total, FoldSet, MapThenFoldSet, Element
<1>2. sum = Sum(sum)
  <2> DEFINE h == [S \in SUBSET U |-> f[S]]
  <2>1. ASSUME NEW S \in SUBSET U
        PROVE  h[S] = IF S = {} THEN 0 ELSE Amount[Element(S)] + h[S \ {Element(S)}]
    BY DEF Sums, Summed
  <2>2. h = Sum(h)
    <3>1. Sum(h) = [S \in SUBSET U |->
                     IF S = {} THEN 0 ELSE Amount[Element(S)] + h[S \ {Element(S)}]]
      OBVIOUS
    <3> HIDE DEF Sum
    <3>2. h = [S \in SUBSET U |->
                     IF S = {} THEN 0 ELSE Amount[Element(S)] + h[S \ {Element(S)}]]
      BY <2>1
    <3> QED
      BY <3>1, <3>2
  <2> HIDE DEF h, Sum
  <2> QED
    BY <2>2
<1> DEFINE Bad == {S \in SUBSET U : sum[S] # f[S]}
<1>3. ASSUME Bad # {} PROVE FALSE
  <2>1. IsFiniteSet(U)
    BY FS_Subset, GateAssumption
  <2>2. PICK S \in Bad : \A T \in Bad : T \subseteq S => T = S
    <3>1. Bad \subseteq SUBSET U
      OBVIOUS
    <3> HIDE DEF Bad
    <3> QED
      BY <1>3, <2>1, <3>1, SmallestSet
  <2>3. S \in SUBSET U /\ sum[S] # f[S]
    OBVIOUS
  <2>4. sum[S] = IF S = {} THEN 0 ELSE Amount[Element(S)] + sum[S \ {Element(S)}]
    <3>1. sum[S] = Sum(sum)[S]
      BY <1>2
    <3> HIDE DEF sum
    <3> QED
      BY <2>3, <3>1
  <2>5. f[S] = IF S = {} THEN 0 ELSE Amount[Element(S)] + f[S \ {Element(S)}]
    BY <2>3 DEF Sums, Summed
  <2> DEFINE T == S \ {Element(S)}
  <2>6. S # {} => T \in SUBSET U /\ T # S /\ T \subseteq S
    BY <2>3, ElementOf
  <2>7. S # {} => T \notin Bad
    <3> HIDE DEF Bad, T
    <3> QED
      BY <2>2, <2>6
  <2>8. S # {} => sum[T] = f[T]
    BY <2>6, <2>7
  <2> HIDE DEF sum, Bad
  <2> QED
    BY <2>3, <2>4, <2>5, <2>8
<1> HIDE DEF sum
<1> QED
  BY <1>1, <1>3

\* A total does not depend on the order in which it is taken.
LEMMA SumsRemove ==
  ASSUME NEW f, Sums(f), NEW S \in SUBSET Transactions, NEW t \in S
  PROVE  f[S] = Amount[t] + f[S \ {t}]
<1> DEFINE Bad == {R \in SUBSET S : \E u \in R : f[R] # Amount[u] + f[R \ {u}]}
<1>1. ASSUME Bad # {} PROVE FALSE
  <2>1. PICK R \in Bad : \A Q \in Bad : Q \subseteq R => Q = R
    <3>1. IsFiniteSet(S) /\ Bad \subseteq SUBSET S
      BY FS_Subset, GateAssumption
    <3> HIDE DEF Bad
    <3> QED
      BY <1>1, <3>1, SmallestSet
  <2>2. PICK u \in R : R \in SUBSET S /\ f[R] # Amount[u] + f[R \ {u}]
    OBVIOUS
  <2> DEFINE e == Element(R)
  <2>3. e \in R /\ f[R] = Amount[e] + f[R \ {e}]
    BY <2>2, ElementOf DEF Sums, Summed
  <2>4. R \ {e} \notin Bad /\ R \ {u} \notin Bad
    <3>1. R \ {e} # R /\ R \ {u} # R /\ R \ {e} \subseteq R /\ R \ {u} \subseteq R
      BY <2>2, <2>3
    <3> HIDE DEF Bad, e
    <3> QED
      BY <2>1, <3>1
  <2> HIDE DEF e
  <2>5. u # e
    BY <2>2, <2>3
  <2>6. f[R \ {e}] = Amount[u] + f[(R \ {e}) \ {u}]
    BY <2>2, <2>4, <2>5
  <2>7. f[R \ {u}] = Amount[e] + f[(R \ {u}) \ {e}]
    BY <2>2, <2>3, <2>4, <2>5
  <2>8. (R \ {e}) \ {u} = (R \ {u}) \ {e}
    OBVIOUS
  <2>9. /\ Amount[u] \in Nat /\ Amount[e] \in Nat
        /\ f[(R \ {u}) \ {e}] \in Nat
    BY <2>2, <2>3, GateAssumption DEF Sums
  <2>10. \A a, b, k \in Nat : a + (b + k) = b + (a + k)
    OBVIOUS
  <2>11. f[R \ {e}] = Amount[u] + f[(R \ {u}) \ {e}]
    BY <2>6, <2>8
  <2>12. f[R] = Amount[e] + (Amount[u] + f[(R \ {u}) \ {e}])
    BY <2>3, <2>11
  <2> QED
    BY <2>2, <2>7, <2>9, <2>10, <2>12
<1>2. S \notin Bad
  <2> HIDE DEF Bad
  <2> QED
    BY <1>1
<1> QED
  BY <1>2

\* More transactions have no smaller total.
LEMMA TotalGrows ==
  ASSUME NEW R, NEW S \in SUBSET Transactions, R \subseteq S
  PROVE  Total(R) \in Nat /\ Total(S) \in Nat /\ Total(R) <= Total(S)
<1>1. PICK f : Sums(f)
  BY SumsExist
<1> DEFINE Bad == {Q \in SUBSET S : R \subseteq Q /\ ~ (f[R] <= f[Q])}
<1>2. ASSUME Bad # {} PROVE FALSE
  <2>1. PICK Q \in Bad : \A P \in Bad : P \subseteq Q => P = Q
    <3>1. IsFiniteSet(S) /\ Bad \subseteq SUBSET S
      BY FS_Subset, GateAssumption
    <3> HIDE DEF Bad
    <3> QED
      BY <1>2, <3>1, SmallestSet
  <2>2. Q \in SUBSET S /\ R \subseteq Q /\ ~ (f[R] <= f[Q])
    OBVIOUS
  <2>3. f[R] \in Nat /\ f[Q] \in Nat
    BY <1>1, <2>2 DEF Sums
  <2>4. PICK t \in Q : t \notin R
    BY <2>2, <2>3
  <2>5. Q \ {t} \notin Bad
    <3> HIDE DEF Bad
    <3> QED
      BY <2>1, <2>4
  <2>6. f[R] <= f[Q \ {t}]
    BY <2>2, <2>4, <2>5
  <2>7. f[Q] = Amount[t] + f[Q \ {t}]
    BY <1>1, <2>2, SumsRemove
  <2>8. Amount[t] \in Nat /\ f[Q \ {t}] \in Nat
    BY <1>1, <2>2, GateAssumption DEF Sums
  <2> QED
    BY <2>2, <2>3, <2>6, <2>7, <2>8
<1>3. f[R] <= f[S]
  BY <1>2
<1>4. Total(R) = f[R] /\ Total(S) = f[S]
  BY <1>1, TotalIs
<1> QED
  BY <1>1, <1>3, <1>4 DEF Sums

-----------------------------------------------------------------------------
(* The spending gate: the invariant *)

Statuses == {"SUBMITTED", "APPROVED", "DENIED", "ESCALATED"}
Outcomes == {"APPROVED", "DENIED", "ESCALATED"}
Granted == {"APPROVED", "ESCALATED"}
Countable == {"SUBMITTED", "APPROVED", "ESCALATED"}

Evaluating ==
  {"loaded", "active", "inactive", "policed", "summed", "judged", "saved", "proved"}
Busy == Evaluating \cup {"reviewing", "reviewed"}

Types ==
  /\ policies \in [PolicyIds -> Policies \cup {NoValue}]
  /\ day \in Nat
  /\ status \in [Transactions -> Statuses \cup {NoValue}]
  /\ createdOn \in [Transactions -> Nat]
  /\ decisionResult \in [Transactions -> Outcomes \cup {NoValue}]
  /\ stage \in [Sessions -> Busy \cup {"new", "done"}]
  /\ tx \in [Sessions -> Transactions \cup {NoValue}]
  /\ loaded \in [Sessions -> Statuses \cup {NoValue}]
  /\ policy \in [Sessions -> Policies \cup {NoValue}]
  /\ spend \in [Sessions -> Nat]
  /\ outcome \in [Sessions -> Outcomes \cup {NoValue}]
  /\ judgedOn \in [Sessions -> Nat]
  /\ inForce \subseteq Policies

TableSound ==
  /\ \A i \in PolicyIds : policies[i] # NoValue => policies[i] \in inForce
  /\ \A t \in Transactions :
       /\ status[t] # NoValue => createdOn[t] <= day
       /\ decisionResult[t] # NoValue => status[t] \notin {NoValue, "SUBMITTED"}

\* What a session has loaded and outcome is on its way to the rows.
SessionSound(s) ==
  /\ stage[s] \in Busy => tx[s] \in Transactions /\ status[tx[s]] # NoValue
  /\ stage[s] \in {"new", "done"} => tx[s] = NoValue
  /\ stage[s] \in {"loaded", "active", "inactive", "policed", "summed", "judged"} =>
       loaded[s] = "SUBMITTED"
  /\ stage[s] = "reviewing" => loaded[s] # NoValue
  /\ stage[s] \in {"policed", "summed"} => policy[s] \in inForce \cup {NoValue}
  /\ stage[s] \in {"judged", "saved", "proved", "reviewed"} => outcome[s] \in Outcomes

SessionsSound == \A s \in Sessions : SessionSound(s)

\* The transactions that stand for money spent, now and, if they do not leave
\* the regular ones, at any time since they were created.
Alive(t) == t \in Regular /\ status[t] \in Countable

Fits(S) ==
  \E p \in inForce : /\ ~ Exceeds(Total(S), p.daily_budget)
                     /\ ~ Reaches(Cardinality(S), p.max_transactions_per_day)

\* An evaluation counts such a transaction of its day.
Waiting(t) == status[t] = "SUBMITTED" /\ t \notin uncounted

\* x tells which transaction each session has evaluated that has summed the
\* day's spend, and sum which transactions it counted.
Trace(s, x, sum) ==
  /\ sum[s] \in SUBSET Transactions /\ x[s] \in Transactions \cup {NoValue}
  /\ x[s] # NoValue => /\ stage[s] \in {"summed", "judged", "saved", "proved", "done"}
                    /\ status[x[s]] # NoValue
  /\ stage[s] \in {"summed", "judged", "saved", "proved"} => x[s] = tx[s]
  /\ stage[s] = "summed" =>
       /\ spend[s] = Total(sum[s])
       /\ createdOn[tx[s]] = day =>
            sum[s] \subseteq Today /\ (Waiting(tx[s]) => tx[s] \in sum[s])
  /\ stage[s] = "judged" /\ outcome[s] \in Granted /\ judgedOn[s] = createdOn[tx[s]] =>
       Fits(sum[s]) /\ (Waiting(tx[s]) => tx[s] \in sum[s])

\* A transaction that is granted has been counted by its own evaluation, and
\* what that evaluation counted fits some policy.
Covered(t, x, sum) ==
  t \in Regular /\ status[t] \in Granted =>
    \E s \in Sessions : x[s] = t /\ t \in sum[s] /\ Fits(sum[s])

\* The evaluations that count still: of any of them of one day, one has
\* counted the transactions of all.
Counting(x, sum) == {s \in Sessions : x[s] # NoValue /\ x[s] \in sum[s] /\ Alive(x[s])}

OneSeesAll(x, sum) ==
  \A d \in Nat, A \in SUBSET Counting(x, sum) :
    A # {} /\ (\A s \in A : createdOn[x[s]] = d) =>
      \E s \in A : \A r \in A : x[r] \in sum[s]

Accounted(x, sum) ==
  /\ \A s \in Sessions : Trace(s, x, sum)
  /\ \A t \in Transactions : Covered(t, x, sum)
  /\ OneSeesAll(x, sum)

GateIInv ==
  /\ Types /\ TableSound /\ SessionsSound
  /\ \E x, sum : Accounted(x, sum)

-----------------------------------------------------------------------------
(* The spending gate: types *)

LEMMA TypesInit == GateInit => Types
  BY DEF GateInit, Types

LEMMA TypesStep ==
  ASSUME Types, SessionsSound, [GateNext]_gateVars
  PROVE  Types'
<1> USE DEF Types, clock, table, trail, session, history
<1>1. ASSUME NEW up \in BOOLEAN, SetActive(up) PROVE Types'
  BY <1>1 DEF SetActive
<1>2. ASSUME NEW i \in PolicyIds, NEW p \in Policies, PutPolicy(i, p) PROVE Types'
  BY <1>2 DEF PutPolicy
<1>3. ASSUME NEW t \in Transactions, CreateTransaction(t) PROVE Types'
  BY <1>3 DEF CreateTransaction, Statuses
<1>4. CASE NextDay \/ FirstSecondEnds
  BY <1>4 DEF NextDay, FirstSecondEnds
<1>5. ASSUME NEW s \in Sessions, NEW t \in Transactions, Evaluate(s, t) \/ Review(s, t)
      PROVE  Types'
  BY <1>5 DEF Evaluate, Review, Start, Busy, Evaluating
<1>6. ASSUME NEW s \in Sessions, ReadPolicy(s) PROVE Types'
  <2>1. policy'[s] \in Policies \cup {NoValue}
    BY <1>6 DEF ReadPolicy
  <2> QED
    BY <1>6, <2>1 DEF ReadPolicy, Busy, Evaluating
<1>14. ASSUME NEW s \in Sessions, ReadAgent(s) PROVE Types'
  BY <1>14 DEF ReadAgent, Busy, Evaluating
<1>7. ASSUME NEW s \in Sessions, ReadSpend(s) PROVE Types'
  <2>1. Total(Spent) \in Nat
    BY TotalGrows DEF Spent, Today
  <2> QED
    BY <1>7, <2>1 DEF ReadSpend, Busy, Evaluating
<1>8. ASSUME NEW s \in Sessions, Judge(s) PROVE Types'
  BY <1>8 DEF Judge, EvaluateRules, Outcomes, Busy, Evaluating
<1>9. ASSUME NEW s \in Sessions, SaveDecision(s) PROVE Types'
  <2>1. outcome[s] \in Outcomes
    BY <1>9 DEF SaveDecision, SessionsSound, SessionSound
  <2> QED
    BY <1>9, <2>1 DEF SaveDecision, Write, Outcomes, Statuses, Busy, Evaluating
<1>10. ASSUME NEW s \in Sessions, CreateProof(s) PROVE Types'
  BY <1>10 DEF CreateProof, Busy, Evaluating
<1>11. ASSUME NEW s \in Sessions, SaveReview(s) PROVE Types'
  <2>1. status' \in [Transactions -> Statuses \cup {NoValue}]
    BY <1>11 DEF SaveReview, Write, Statuses
  <2>2. outcome' \in [Sessions -> Outcomes \cup {NoValue}]
    BY <1>11 DEF SaveReview, Outcomes
  <2> QED
    BY <1>11, <2>1, <2>2 DEF SaveReview, Busy
<1>12. ASSUME NEW s \in Sessions, Log(s) PROVE Types'
  BY <1>12 DEF Log, Busy
<1>13. CASE UNCHANGED gateVars
  BY <1>13 DEF gateVars
<1> QED
  BY <1>1, <1>2, <1>3, <1>4, <1>5, <1>6, <1>7, <1>8, <1>9, <1>10, <1>11, <1>12, <1>13,
     <1>14 DEF GateNext

-----------------------------------------------------------------------------
(* The spending gate: rows and sessions *)

\* What no step takes back: a policy that has been in force, a transaction that
\* exists, when it was created, and that it is no longer SUBMITTED.
Grows ==
  /\ inForce \subseteq inForce'
  /\ \A t \in Transactions :
       status[t] # NoValue => /\ status'[t] # NoValue /\ createdOn'[t] = createdOn[t]
                              /\ status'[t] = "SUBMITTED" => status[t] = "SUBMITTED"
                              /\ t \in uncounted' <=> t \in uncounted

Same(s) ==
  /\ stage'[s] = stage[s] /\ tx'[s] = tx[s] /\ loaded'[s] = loaded[s]
  /\ policy'[s] = policy[s] /\ spend'[s] = spend[s]
  /\ outcome'[s] = outcome[s] /\ judgedOn'[s] = judgedOn[s]

LEMMA SessionStays ==
  ASSUME Types, NEW s \in Sessions, SessionSound(s), Grows, Same(s)
  PROVE  SessionSound(s)'
BY DEF SessionSound, Grows, Same, Types

LEMMA GrowsStep ==
  ASSUME Types, SessionsSound, [GateNext]_gateVars
  PROVE  Grows
<1> USE DEF Grows, clock, table, trail, session, history
<1>1. ASSUME NEW up \in BOOLEAN, SetActive(up) PROVE Grows
  BY <1>1 DEF SetActive
<1>2. ASSUME NEW i \in PolicyIds, NEW p \in Policies, PutPolicy(i, p) PROVE Grows
  BY <1>2 DEF PutPolicy
<1>3. ASSUME NEW t \in Transactions, CreateTransaction(t) PROVE Grows
  BY <1>3 DEF CreateTransaction, Types
<1>4. CASE NextDay \/ FirstSecondEnds
  BY <1>4 DEF NextDay, FirstSecondEnds
<1>5. ASSUME NEW s \in Sessions, NEW t \in Transactions, Evaluate(s, t) \/ Review(s, t)
      PROVE  Grows
  BY <1>5 DEF Evaluate, Review, Start
<1>6. ASSUME NEW s \in Sessions, SaveDecision(s) PROVE Grows
  <2>1. outcome[s] \in Outcomes /\ NoValue \notin Outcomes
    BY <1>6, NoValueAssumption DEF SaveDecision, SessionsSound, SessionSound, Outcomes
  <2> QED
    BY <1>6, <2>1 DEF SaveDecision, Write, Outcomes, Types
<1>7. ASSUME NEW s \in Sessions, SaveReview(s) PROVE Grows
  BY <1>7, NoValueAssumption DEF SaveReview, Write, Types
<1>8. ASSUME NEW s \in Sessions,
             \/ ReadAgent(s) \/ ReadPolicy(s) \/ ReadSpend(s) \/ Judge(s)
             \/ CreateProof(s) \/ Log(s)
      PROVE  Grows
  BY <1>8 DEF ReadAgent, ReadPolicy, ReadSpend, Judge, CreateProof, Log
<1>9. CASE UNCHANGED gateVars
  BY <1>9 DEF gateVars
<1> QED
  BY <1>1, <1>2, <1>3, <1>4, <1>5, <1>6, <1>7, <1>8, <1>9 DEF GateNext

LEMMA TableInit == GateInit => TableSound
  BY DEF GateInit, TableSound

LEMMA TableStep ==
  ASSUME Types, TableSound, SessionsSound, [GateNext]_gateVars
  PROVE  TableSound'
<1> USE DEF TableSound, clock, table, trail, session, history
<1>1. ASSUME NEW up \in BOOLEAN, SetActive(up) PROVE TableSound'
  BY <1>1 DEF SetActive
<1>2. ASSUME NEW i \in PolicyIds, NEW p \in Policies, PutPolicy(i, p) PROVE TableSound'
  BY <1>2 DEF PutPolicy, Types
<1>3. ASSUME NEW t \in Transactions, CreateTransaction(t) PROVE TableSound'
  BY <1>3, NoValueAssumption DEF CreateTransaction, Types
<1>4. CASE NextDay \/ FirstSecondEnds
  BY <1>4 DEF NextDay, FirstSecondEnds, Types
<1>5. ASSUME NEW s \in Sessions, NEW t \in Transactions, Evaluate(s, t) \/ Review(s, t)
      PROVE  TableSound'
  BY <1>5 DEF Evaluate, Review, Start
<1>6. ASSUME NEW s \in Sessions, SaveDecision(s) PROVE TableSound'
  <2>1. /\ outcome[s] \in Outcomes /\ NoValue \notin Outcomes
        /\ tx[s] \in Transactions /\ status[tx[s]] # NoValue
    BY <1>6, NoValueAssumption
       DEF SaveDecision, SessionsSound, SessionSound, Outcomes, Busy, Evaluating
  <2> QED
    BY <1>6, <2>1 DEF SaveDecision, Write, Outcomes, Types
<1>7. ASSUME NEW s \in Sessions, SaveReview(s) PROVE TableSound'
  <2>1. tx[s] \in Transactions /\ status[tx[s]] # NoValue
    BY <1>7 DEF SaveReview, SessionsSound, SessionSound, Busy
  <2> QED
    BY <1>7, <2>1, NoValueAssumption DEF SaveReview, Write, Types
<1>8. ASSUME NEW s \in Sessions,
             \/ ReadAgent(s) \/ ReadPolicy(s) \/ ReadSpend(s) \/ Judge(s)
             \/ CreateProof(s) \/ Log(s)
      PROVE  TableSound'
  BY <1>8 DEF ReadAgent, ReadPolicy, ReadSpend, Judge, CreateProof, Log
<1>9. CASE UNCHANGED gateVars
  BY <1>9 DEF gateVars
<1> QED
  BY <1>1, <1>2, <1>3, <1>4, <1>5, <1>6, <1>7, <1>8, <1>9 DEF GateNext

LEMMA SessionsInit == GateInit => SessionsSound
  BY DEF GateInit, SessionsSound, SessionSound, Busy, Evaluating

LEMMA SessionsStep ==
  ASSUME Types, TableSound, SessionsSound, [GateNext]_gateVars
  PROVE  SessionsSound'
<1> USE DEF clock, table, trail, session, history
<1>0. Grows
  BY GrowsStep
<1>a. SUFFICES ASSUME NEW r \in Sessions PROVE SessionSound(r)'
  BY DEF SessionsSound
<1>b. SessionSound(r)
  BY DEF SessionsSound
<1>c. CASE Same(r)
  BY <1>0, <1>b, <1>c, SessionStays
<1>1. ASSUME NEW s \in Sessions, NEW t \in Transactions, Evaluate(s, t) \/ Review(s, t),
             ~ Same(r)
      PROVE  SessionSound(r)'
  <2>1. r = s
    BY <1>1 DEF Evaluate, Review, Start, Types, Same
  <2> QED
    BY <1>1, <2>1, NoValueAssumption
       DEF Evaluate, Review, Start, Types, SessionSound, Busy, Evaluating
<1>2. ASSUME NEW s \in Sessions, ReadPolicy(s), ~ Same(r) PROVE SessionSound(r)'
  <2>1. r = s
    BY <1>2 DEF ReadPolicy, Types, Same
  <2>2. policy'[s] \in inForce \cup {NoValue}
    BY <1>2 DEF ReadPolicy, Types, TableSound
  <2> QED
    BY <1>2, <1>b, <2>1, <2>2 DEF ReadPolicy, Types, SessionSound, Busy, Evaluating
<1>13. ASSUME NEW s \in Sessions, ReadAgent(s), ~ Same(r) PROVE SessionSound(r)'
  <2>1. r = s
    BY <1>13 DEF ReadAgent, Types, Same
  <2> QED
    BY <1>13, <1>b, <2>1 DEF ReadAgent, Types, SessionSound, Busy, Evaluating
<1>3. ASSUME NEW s \in Sessions, ReadSpend(s), ~ Same(r) PROVE SessionSound(r)'
  <2>1. r = s
    BY <1>3 DEF ReadSpend, Types, Same
  <2> QED
    BY <1>3, <1>b, <2>1 DEF ReadSpend, Types, SessionSound, Busy, Evaluating
<1>4. ASSUME NEW s \in Sessions, Judge(s), ~ Same(r) PROVE SessionSound(r)'
  <2>1. r = s
    BY <1>4 DEF Judge, Types, Same
  <2>2. outcome'[s] \in Outcomes
    BY <1>4 DEF Judge, Types, EvaluateRules, Outcomes
  <2> QED
    BY <1>4, <1>b, <2>1, <2>2 DEF Judge, Types, SessionSound, Busy, Evaluating
<1>5. ASSUME NEW s \in Sessions, SaveDecision(s), ~ Same(r) PROVE SessionSound(r)'
  <2>1. r = s
    BY <1>5 DEF SaveDecision, Types, Same
  <2> QED
    BY <1>5, <1>0, <1>b, <2>1
       DEF SaveDecision, Types, SessionSound, Busy, Evaluating, Grows
<1>6. ASSUME NEW s \in Sessions, CreateProof(s), ~ Same(r) PROVE SessionSound(r)'
  <2>1. r = s
    BY <1>6 DEF CreateProof, Types, Same
  <2> QED
    BY <1>6, <1>b, <2>1 DEF CreateProof, Types, SessionSound, Busy, Evaluating
<1>7. ASSUME NEW s \in Sessions, SaveReview(s), ~ Same(r) PROVE SessionSound(r)'
  <2>1. r = s
    BY <1>7 DEF SaveReview, Types, Same
  <2>2. outcome'[s] \in Outcomes
    BY <1>7 DEF SaveReview, Types, Outcomes
  <2> QED
    BY <1>7, <1>0, <1>b, <2>1, <2>2
       DEF SaveReview, Types, SessionSound, Busy, Evaluating, Grows
<1>8. ASSUME NEW s \in Sessions, Log(s), ~ Same(r) PROVE SessionSound(r)'
  <2>1. r = s
    BY <1>8 DEF Log, Types, Same
  <2> QED
    BY <1>8, <2>1 DEF Log, Types, SessionSound, Busy, Evaluating
<1>9. ASSUME NEW i \in PolicyIds, NEW p \in Policies, PutPolicy(i, p) PROVE Same(r)
  BY <1>9 DEF PutPolicy, Same
<1>10. ASSUME NEW t \in Transactions, CreateTransaction(t) PROVE Same(r)
  BY <1>10 DEF CreateTransaction, Same
<1>11. ASSUME NEW up \in BOOLEAN, SetActive(up) PROVE Same(r)
  BY <1>11 DEF SetActive, Same
<1>12. CASE NextDay \/ FirstSecondEnds \/ UNCHANGED gateVars
  <2>1. Same(r)
    BY <1>12 DEF NextDay, FirstSecondEnds, gateVars, Same
  <2> QED
    BY <1>c, <2>1
<1> QED
  BY <1>c, <1>1, <1>2, <1>3, <1>4, <1>5, <1>6, <1>7, <1>8, <1>9, <1>10, <1>11, <1>12, <1>13
     DEF GateNext

-----------------------------------------------------------------------------
(* The spending gate: what the evaluations have counted *)

LEMMA AccountedInit == GateInit => \E x, sum : Accounted(x, sum)
<1> SUFFICES ASSUME GateInit PROVE \E x, sum : Accounted(x, sum)
  OBVIOUS
<1> DEFINE x == [s \in Sessions |-> NoValue]
           sum == [s \in Sessions |-> {}]
<1>1. \A s \in Sessions : Trace(s, x, sum)
  BY DEF GateInit, Trace
<1>2. \A t \in Transactions : Covered(t, x, sum)
  BY NoValueAssumption DEF GateInit, Covered, Granted
<1>3. OneSeesAll(x, sum)
  BY DEF OneSeesAll, Counting
<1> QED
  BY <1>1, <1>2, <1>3 DEF Accounted

LEMMA FitsStays ==
  ASSUME NEW S, Fits(S), Grows
  PROVE  Fits(S)'
BY DEF Fits, Grows

\* A smaller set fits what a larger one fits.
LEMMA FitsLess ==
  ASSUME Types, NEW S \in SUBSET Transactions, NEW R, R \subseteq S, NEW p \in inForce,
         NEW n \in Nat, ~ Exceeds(Total(S) + n, p.daily_budget),
         ~ Reaches(Cardinality(S), p.max_transactions_per_day)
  PROVE  Fits(R)
<1>1. Total(R) \in Nat /\ Total(S) \in Nat /\ Total(R) <= Total(S)
  BY TotalGrows
<1>2. /\ Cardinality(R) \in Nat /\ Cardinality(S) \in Nat
      /\ Cardinality(R) <= Cardinality(S)
  BY FS_Subset, FS_CardinalityType, GateAssumption
<1>3. /\ p.daily_budget \in Nat \cup {Unlimited}
      /\ p.max_transactions_per_day \in Nat \cup {Unlimited}
  BY PolicyAssumption DEF Types
<1>4. ~ Exceeds(Total(R), p.daily_budget)
  <2>1. Total(R) <= Total(S) + n
    BY <1>1
  <2> HIDE DEF Total
  <2> QED
    BY <1>1, <1>3, <2>1 DEF Exceeds
<1>5. ~ Reaches(Cardinality(R), p.max_transactions_per_day)
  BY <1>2, <1>3 DEF Reaches
<1> QED
  BY <1>4, <1>5 DEF Fits

\* A session that takes no step still tells the same, though others take theirs
\* and days go by.
LEMMA TraceStays ==
  ASSUME Types, TableSound, NEW s \in Sessions, SessionSound(s), NEW x, NEW sum,
         Trace(s, x, sum), Grows, Same(s), day' \in {day, day + 1}
  PROVE  Trace(s, x, sum)'
<1> USE DEF Trace, Same
<1>1. x[s] # NoValue => status'[x[s]] # NoValue
  BY DEF Grows
<1>2. stage[s] \in Busy =>
        /\ tx[s] \in Transactions /\ status[tx[s]] # NoValue
        /\ createdOn'[tx[s]] = createdOn[tx[s]]
        /\ Waiting(tx[s])' => Waiting(tx[s])
        /\ createdOn[tx[s]] <= day
  BY DEF SessionSound, TableSound, Grows, Waiting
<1>3. day' = day => Today \subseteq Today'
  BY DEF Today, Grows
<1>4. ASSUME stage[s] = "summed"
      PROVE  createdOn'[tx[s]] = day' =>
               /\ sum[s] \subseteq Today'
               /\ Waiting(tx[s])' => tx[s] \in sum[s]
  <2>1. createdOn[tx[s]] \in Nat /\ day \in Nat
    BY <1>2, <1>4 DEF Busy, Evaluating, Types
  <2> QED
    BY <1>2, <1>3, <1>4, <2>1 DEF Busy, Evaluating
<1>5. ASSUME stage[s] = "judged", outcome[s] \in Granted, judgedOn[s] = createdOn'[tx[s]]
      PROVE  Fits(sum[s])' /\ (Waiting(tx[s])' => tx[s] \in sum[s])
  BY <1>2, <1>5, FitsStays DEF Busy, Evaluating
<1> QED
  BY <1>1, <1>4, <1>5

LEMMA OneSeesAllStays ==
  ASSUME Types, NEW x, NEW sum, Accounted(x, sum), Grows,
         \A t \in Transactions : status[t] # NoValue /\ Alive(t)' => Alive(t)
  PROVE  OneSeesAll(x, sum)'
<1>1. \A s \in Counting(x, sum)' : /\ s \in Counting(x, sum)
                                   /\ createdOn'[x[s]] = createdOn[x[s]]
  BY DEF Counting, Accounted, Trace, Grows
<1> SUFFICES ASSUME NEW d \in Nat, NEW A \in SUBSET Counting(x, sum)', A # {},
                    \A s \in A : createdOn'[x[s]] = d
             PROVE  \E s \in A : \A r \in A : x[r] \in sum[s]
  BY DEF OneSeesAll
<1>2. A \in SUBSET Counting(x, sum) /\ \A s \in A : createdOn[x[s]] = d
  BY <1>1
<1> QED
  BY <1>2 DEF Accounted, OneSeesAll

\* A transaction leaves the regular ones for good.
LEMMA CoveredStays ==
  ASSUME NEW x, NEW sum, NEW t \in Transactions, Covered(t, x, sum), Grows,
         t \in Regular' /\ status'[t] \in Granted => t \in Regular /\ status[t] \in Granted
  PROVE  Covered(t, x, sum)'
<1> SUFFICES ASSUME t \in Regular', status'[t] \in Granted
             PROVE  \E s \in Sessions : x[s] = t /\ t \in sum[s] /\ Fits(sum[s])'
  BY DEF Covered
<1>1. PICK s \in Sessions : x[s] = t /\ t \in sum[s] /\ Fits(sum[s])
  BY DEF Covered
<1> QED
  BY <1>1, FitsStays

\* The rules let a transaction through only if the day's total and number that
\* they are given fit the policy they are given.
LEMMA JudgedFits ==
  ASSUME NEW t, NEW p, NEW total, NEW count, EvaluateRules(t, p, total, count) \in Granted
  PROVE  /\ p # NoValue
         /\ ~ Exceeds(total + Amount[t], p.daily_budget)
         /\ ~ Reaches(count, p.max_transactions_per_day)
BY DEF EvaluateRules, IsDenied, Granted

\* The steps that leave the evaluations as they are.
LEMMA AccountedStays ==
  ASSUME Types, TableSound, SessionsSound, Grows, NEW x, NEW sum, Accounted(x, sum),
         \A s \in Sessions : Trace(s, x, sum)',
         \A t \in Transactions :
           /\ status[t] # NoValue /\ Alive(t)' => Alive(t)
           /\ t \in Regular' /\ status'[t] \in Granted => t \in Regular /\ status[t] \in Granted
  PROVE  Accounted(x, sum)'
<1>1. OneSeesAll(x, sum)'
  BY OneSeesAllStays
<1>2. ASSUME NEW t \in Transactions PROVE Covered(t, x, sum)'
  BY CoveredStays DEF Accounted
<1> QED
  BY <1>1, <1>2 DEF Accounted

LEMMA AccountedRead ==
  ASSUME Types, TableSound, SessionsSound, Grows, NEW x, NEW sum, Accounted(x, sum),
         NEW s \in Sessions, ReadSpend(s)
  PROVE  \E y, told : Accounted(y, told)'
<1>a. PICK y, told : /\ y = [r \in Sessions |-> IF r = s THEN tx[s] ELSE x[r]]
                      /\ told = [r \in Sessions |-> IF r = s THEN Spent ELSE sum[r]]
  OBVIOUS
<1> USE DEF clock, table, trail, session, history
<1>0. /\ stage[s] = "policed" /\ stage'[s] = "summed"
      /\ tx[s] \in Transactions /\ status[tx[s]] # NoValue
      /\ UNCHANGED <<day, status, createdOn, uncounted, tx, Regular, inForce>>
      /\ spend'[s] = Total(Spent) /\ Regular \subseteq Transactions
  BY DEF ReadSpend, SessionsSound, SessionSound, Busy, Evaluating, Types, Regular
<1>1. ASSUME NEW r \in Sessions, r # s PROVE Trace(r, y, told)'
  <2>1. Same(r) /\ day' = day
    BY <1>1 DEF ReadSpend, Same
  <2>2. Trace(r, x, sum)'
    BY <2>1, TraceStays DEF SessionsSound, Accounted
  <2> QED
    BY <1>a, <1>1, <2>2 DEF Trace
<1>2. Trace(s, y, told)'
  BY <1>a, <1>0 DEF Trace, Waiting, Spent, Today
<1>3. ASSUME NEW t \in Transactions PROVE Covered(t, y, told)'
  <2> SUFFICES ASSUME t \in Regular', status'[t] \in Granted
               PROVE  \E r \in Sessions : y[r] = t /\ t \in told[r] /\ Fits(told[r])'
    BY DEF Covered
  <2>1. PICK r \in Sessions : x[r] = t /\ t \in sum[r] /\ Fits(sum[r])
    BY <1>0 DEF Accounted, Covered
  <2>2. r # s
    BY <1>0, <2>1, NoValueAssumption DEF Accounted, Trace
  <2> QED
    BY <1>a, <2>1, <2>2, FitsStays
<1>4. OneSeesAll(y, told)'
  <2> SUFFICES ASSUME NEW d \in Nat, NEW A \in SUBSET Counting(y, told)', A # {},
                      \A r \in A : createdOn'[y[r]] = d
               PROVE  \E r \in A : \A q \in A : y[q] \in told[r]
    BY DEF OneSeesAll
  <2>1. CASE s \in A
    <3>1. tx[s] \in Spent /\ d = day
      BY <1>a, <1>0, <2>1 DEF Counting, Spent, Today
    <3>2. ASSUME NEW q \in A PROVE y[q] \in Spent
      <4>1. /\ y[q] \in Transactions /\ status[y[q]] \in Countable /\ createdOn[y[q]] = day
             /\ y[q] \notin uncounted
        BY <1>0, <3>1 DEF Counting, Alive, Regular
      <4> QED
        BY <4>1, NoValueAssumption DEF Spent, Today, Countable
    <3> QED
      BY <1>a, <2>1, <3>2
  <2>2. CASE s \notin A
    <3>1. A \in SUBSET Counting(x, sum) /\ \A r \in A : createdOn[x[r]] = d
      <4>1. ASSUME NEW r \in A PROVE r \in Counting(x, sum) /\ createdOn[x[r]] = d
        <5>1. r # s /\ r \in Counting(y, told)' /\ createdOn'[y[r]] = d
          BY <2>2
        <5> QED
          BY <1>a, <5>1, <1>0 DEF Counting, Alive
      <4> QED
        BY <4>1
    <3>2. PICK r \in A : \A q \in A : x[q] \in sum[r]
      BY <3>1 DEF Accounted, OneSeesAll
    <3> QED
      BY <1>a, <2>2, <3>1, <3>2 DEF Counting
  <2> QED
    BY <2>1, <2>2
<1>5. Accounted(y, told)'
  <2>1. \A r \in Sessions : Trace(r, y, told)'
    BY <1>1, <1>2
  <2> QED
    BY <1>3, <1>4, <2>1 DEF Accounted
<1> QED
  BY <1>5

\* What changes no transaction and nothing that tells of its evaluation.
LEMMA AccountedElse ==
  ASSUME Types, TableSound, SessionsSound, Grows, NEW x, NEW sum, Accounted(x, sum),
         UNCHANGED <<status, uncounted, overwritten, late, overruled>>,
         day' \in {day, day + 1},
         \A s \in Sessions : Same(s) \/ Trace(s, x, sum)'
  PROVE  Accounted(x, sum)'
<1>1. ASSUME NEW s \in Sessions PROVE Trace(s, x, sum)'
  BY TraceStays DEF SessionsSound, Accounted
<1>2. Regular' = Regular /\ UNCHANGED status
  BY DEF Regular
<1>3. \A t \in Transactions : Alive(t)' = Alive(t)
  BY <1>2 DEF Alive
<1> QED
  BY <1>1, <1>2, <1>3, AccountedStays

LEMMA AccountedCreate ==
  ASSUME Types, TableSound, SessionsSound, Grows, NEW x, NEW sum, Accounted(x, sum),
         NEW t \in Transactions, CreateTransaction(t)
  PROVE  Accounted(x, sum)'
<1> USE DEF CreateTransaction, clock, table, trail, session, history
<1>1. ASSUME NEW s \in Sessions PROVE Trace(s, x, sum)'
  <2>1. Same(s) /\ day' = day
    BY DEF Same
  <2> QED
    BY <2>1, TraceStays DEF SessionsSound, Accounted
<1>2. ASSUME NEW u \in Transactions, status[u] # NoValue
      PROVE  status'[u] = status[u] /\ Alive(u)' = Alive(u)
  <2>1. u \in Regular' <=> u \in Regular
    BY <1>2 DEF Regular
  <2>2. status'[u] = status[u]
    BY <1>2 DEF Types
  <2> QED
    BY <2>1, <2>2 DEF Alive
<1>3. ASSUME NEW u \in Transactions, u \in Regular', status'[u] \in Granted
      PROVE  u \in Regular /\ status[u] \in Granted
  BY <1>3 DEF Types, Granted, Regular
<1> QED
  BY <1>1, <1>2, <1>3, AccountedStays

LEMMA AccountedJudge ==
  ASSUME Types, TableSound, SessionsSound, Grows, NEW x, NEW sum, Accounted(x, sum),
         NEW s \in Sessions, Judge(s)
  PROVE  Accounted(x, sum)'
<1> USE DEF clock, table, trail, session, history
<1>1. /\ stage[s] = "summed" /\ stage'[s] = "judged" /\ judgedOn'[s] = day
      /\ outcome'[s] = EvaluateRules(tx[s], policy[s], spend[s], Cardinality(Today))
      /\ UNCHANGED <<status, createdOn, tx, inForce, uncounted, overwritten, late, overruled,
                     day>>
  BY DEF Judge, Types
<1>2. /\ tx[s] \in Transactions /\ policy[s] \in inForce \cup {NoValue}
      /\ spend[s] = Total(sum[s]) /\ Amount[tx[s]] \in Nat
  BY <1>1, GateAssumption
     DEF SessionsSound, SessionSound, Accounted, Trace, Busy, Evaluating
<1>3. ASSUME outcome'[s] \in Granted, judgedOn'[s] = createdOn[tx[s]]
      PROVE  Fits(sum[s]) /\ (Waiting(tx[s]) => tx[s] \in sum[s])
  <2>1. sum[s] \subseteq Today /\ (Waiting(tx[s]) => tx[s] \in sum[s])
    BY <1>1, <1>3 DEF Accounted, Trace
  <2>2. /\ policy[s] \in inForce
        /\ ~ Exceeds(Total(sum[s]) + Amount[tx[s]], policy[s].daily_budget)
        /\ ~ Reaches(Cardinality(Today), policy[s].max_transactions_per_day)
    BY <1>1, <1>2, <1>3, JudgedFits
  <2>3. Today \in SUBSET Transactions
    BY DEF Today
  <2>4. sum[s] \in SUBSET Transactions
    BY <2>1, <2>3
  <2>5. ~ Reaches(Cardinality(sum[s]), policy[s].max_transactions_per_day)
    <3>1. /\ Cardinality(sum[s]) \in Nat /\ Cardinality(Today) \in Nat
          /\ Cardinality(sum[s]) <= Cardinality(Today)
      BY <2>1, <2>3, FS_Subset, FS_CardinalityType, GateAssumption
    <3>2. policy[s].max_transactions_per_day \in Nat \cup {Unlimited}
      BY <2>2, PolicyAssumption DEF Types
    <3> QED
      BY <2>2, <3>1, <3>2 DEF Reaches
  <2>6. Fits(sum[s])
    BY <1>2, <2>2, <2>4, <2>5, FitsLess
  <2> QED
    BY <2>1, <2>6
<1>4. Trace(s, x, sum)'
  <2>1. Fits(sum[s]) => Fits(sum[s])'
    BY FitsStays
  <2> QED
    BY <1>1, <1>3, <2>1 DEF Accounted, Trace, Waiting
<1>5. ASSUME NEW r \in Sessions, r # s PROVE Same(r)
  BY <1>5 DEF Judge, Same
<1> QED
  BY <1>1, <1>4, <1>5, AccountedElse

LEMMA AccountedSave ==
  ASSUME Types, TableSound, SessionsSound, Grows, NEW x, NEW sum, Accounted(x, sum),
         NEW s \in Sessions, SaveDecision(s)
  PROVE  Accounted(x, sum)'
<1> USE DEF clock, table, trail, session, history
<1>1. /\ stage[s] = "judged" /\ stage'[s] = "saved" /\ tx[s] \in Transactions
      /\ loaded[s] = "SUBMITTED" /\ outcome[s] \in Outcomes
      /\ status' = [status EXCEPT ![tx[s]] = outcome[s]]
      /\ UNCHANGED <<createdOn, uncounted, tx, inForce, day>>
  BY DEF SaveDecision, Write, SessionsSound, SessionSound, Busy, Evaluating, Types
<1>2. Regular' \subseteq Regular /\ Regular \subseteq Transactions
  BY DEF SaveDecision, Write, Regular
<1>3. tx[s] \in Regular' => Waiting(tx[s]) /\ judgedOn[s] = createdOn[tx[s]]
  BY <1>1 DEF SaveDecision, Write, Regular, Waiting
<1>4. ASSUME NEW r \in Sessions PROVE Trace(r, x, sum)'
  <2>1. CASE r = s
    BY <1>1, <2>1 DEF Accounted, Trace, Grows
  <2>2. CASE r # s
    <3>1. Same(r) /\ day' = day
      BY <2>2 DEF SaveDecision, Same
    <3> QED
      BY <3>1, TraceStays DEF SessionsSound, Accounted
  <2> QED
    BY <2>1, <2>2
<1>5. ASSUME NEW t \in Transactions, Alive(t)' PROVE Alive(t)
  <2>1. CASE t = tx[s]
    BY <1>2, <1>3, <1>5, <2>1 DEF Alive, Countable, Waiting
  <2>2. CASE t # tx[s]
    BY <1>1, <1>2, <1>5, <2>2 DEF Alive, Types
  <2> QED
    BY <2>1, <2>2
<1>6. OneSeesAll(x, sum)'
  BY <1>5, OneSeesAllStays
<1>7. ASSUME NEW t \in Transactions PROVE Covered(t, x, sum)'
  <2>1. CASE t # tx[s]
    <3>1. t \in Regular' /\ status'[t] \in Granted => t \in Regular /\ status[t] \in Granted
      BY <1>1, <1>2, <2>1 DEF Types
    <3> QED
      BY <3>1, CoveredStays DEF Accounted
  <2>2. CASE t = tx[s]
    <3> SUFFICES ASSUME t \in Regular', status'[t] \in Granted
                 PROVE  \E r \in Sessions : x[r] = t /\ t \in sum[r] /\ Fits(sum[r])'
      BY DEF Covered
    <3>1. Waiting(t) /\ judgedOn[s] = createdOn[t] /\ outcome[s] \in Granted
      BY <1>1, <1>3, <2>2 DEF Types
    <3>2. x[s] = t /\ t \in sum[s] /\ Fits(sum[s])
      BY <1>1, <2>2, <3>1 DEF Accounted, Trace
    <3> QED
      BY <3>2, FitsStays
  <2> QED
    BY <2>1, <2>2
<1> QED
  BY <1>4, <1>6, <1>7 DEF Accounted

LEMMA AccountedReview ==
  ASSUME Types, TableSound, SessionsSound, Grows, NEW x, NEW sum, Accounted(x, sum),
         NEW s \in Sessions, SaveReview(s)
  PROVE  Accounted(x, sum)'
<1> USE DEF clock, table, trail, session, history
<1>1. /\ stage[s] = "reviewing" /\ stage'[s] = "reviewed" /\ tx[s] \in Transactions
      /\ UNCHANGED <<createdOn, uncounted, tx, inForce, day, late>>
  BY DEF SaveReview, SessionsSound, SessionSound, Busy, Types
<1>2. Regular' \subseteq Regular
  BY DEF SaveReview, Write, Regular
<1>3. ASSUME NEW r \in Sessions PROVE Trace(r, x, sum)'
  <2>1. CASE r = s
    BY <1>1, <2>1 DEF Accounted, Trace, Grows
  <2>2. CASE r # s
    <3>1. Same(r) /\ day' = day
      BY <2>2 DEF SaveReview, Same
    <3> QED
      BY <3>1, TraceStays DEF SessionsSound, Accounted
  <2> QED
    BY <2>1, <2>2
<1>4. ASSUME NEW t \in Transactions, t \in Regular'
      PROVE  \/ status'[t] = status[t]
             \/ status'[t] = "DENIED"
             \/ status'[t] = "APPROVED" /\ status[t] \notin {"SUBMITTED", "DENIED"}
  BY <1>4 DEF SaveReview, Write, Regular, Types
<1>5. ASSUME NEW t \in Transactions
      PROVE  /\ status[t] # NoValue /\ Alive(t)' => Alive(t)
             /\ t \in Regular' /\ status'[t] \in Granted =>
                  t \in Regular /\ status[t] \in Granted
  <2>1. status[t] \in Statuses \cup {NoValue}
    BY DEF Types
  <2>2. status[t] = NoValue => status'[t] = NoValue
    BY <1>1 DEF SaveReview, Write, Types, SessionsSound, SessionSound, Busy
  <2>3. t \in Regular' /\ status[t] # NoValue =>
          /\ status'[t] \in Countable => status[t] \in Countable
          /\ status'[t] \in Granted => status[t] \in Granted
    BY <1>4, <2>1 DEF Countable, Granted, Statuses
  <2> QED
    BY <1>2, <2>2, <2>3, NoValueAssumption DEF Alive, Granted
<1> QED
  BY <1>3, <1>5, AccountedStays

LEMMA AccountedStep ==
  ASSUME Types, TableSound, SessionsSound, NEW x, NEW sum, Accounted(x, sum),
         [GateNext]_gateVars
  PROVE  \E y, told : Accounted(y, told)'
<1> USE DEF clock, table, trail, session, history
<1>0. Grows
  BY GrowsStep
<1>1. ASSUME NEW up \in BOOLEAN, SetActive(up) PROVE Accounted(x, sum)'
  <2>1. \A s \in Sessions : Same(s)
    BY <1>1 DEF SetActive, Same
  <2> QED
    BY <1>0, <1>1, <2>1, AccountedElse DEF SetActive
<1>2. ASSUME NEW i \in PolicyIds, NEW p \in Policies, PutPolicy(i, p)
      PROVE  Accounted(x, sum)'
  <2>1. \A s \in Sessions : Same(s)
    BY <1>2 DEF PutPolicy, Same
  <2> QED
    BY <1>0, <1>2, <2>1, AccountedElse DEF PutPolicy
<1>3. ASSUME NEW t \in Transactions, CreateTransaction(t) PROVE Accounted(x, sum)'
  BY <1>0, <1>3, AccountedCreate
<1>4. CASE NextDay \/ FirstSecondEnds
  <2>1. \A s \in Sessions : Same(s)
    BY <1>4 DEF NextDay, FirstSecondEnds, Same
  <2> QED
    BY <1>0, <1>4, <2>1, AccountedElse DEF NextDay, FirstSecondEnds
<1>5. ASSUME NEW s \in Sessions, NEW t \in Transactions, Evaluate(s, t) \/ Review(s, t)
      PROVE  Accounted(x, sum)'
  <2>1. ASSUME NEW r \in Sessions, r # s PROVE Same(r)
    <3>1. Start(s, t, "loaded") \/ Start(s, t, "reviewing")
      BY <1>5 DEF Evaluate, Review
    <3> QED
      BY <2>1, <3>1 DEF Start, Same, Types
  <2>2. Trace(s, x, sum)'
    <3>1. stage[s] = "new" /\ stage'[s] \in {"loaded", "reviewing"}
      BY <1>5 DEF Evaluate, Review, Start, Types
    <3> QED
      BY <3>1 DEF Accounted, Trace
  <2> QED
    BY <1>0, <1>5, <2>1, <2>2, AccountedElse DEF Evaluate, Review, Start
<1>6. ASSUME NEW s \in Sessions, ReadPolicy(s) PROVE Accounted(x, sum)'
  <2>1. ASSUME NEW r \in Sessions, r # s PROVE Same(r)
    BY <1>6, <2>1 DEF ReadPolicy, Same
  <2>2. Trace(s, x, sum)'
    <3>1. stage[s] \in {"active", "inactive"} /\ stage'[s] = "policed"
      BY <1>6 DEF ReadPolicy, Types
    <3> QED
      BY <3>1 DEF Accounted, Trace
  <2> QED
    BY <1>0, <1>6, <2>1, <2>2, AccountedElse DEF ReadPolicy
<1>14. ASSUME NEW s \in Sessions, ReadAgent(s) PROVE Accounted(x, sum)'
  <2>1. ASSUME NEW r \in Sessions, r # s PROVE Same(r)
    BY <1>14, <2>1 DEF ReadAgent, Same
  <2>2. Trace(s, x, sum)'
    <3>1. stage[s] = "loaded" /\ stage'[s] \in {"active", "inactive"}
      BY <1>14 DEF ReadAgent, Types
    <3> QED
      BY <3>1 DEF Accounted, Trace
  <2> QED
    BY <1>0, <1>14, <2>1, <2>2, AccountedElse DEF ReadAgent
<1>7. ASSUME NEW s \in Sessions, ReadSpend(s) PROVE \E y, told : Accounted(y, told)'
  BY <1>0, <1>7, AccountedRead
<1>8. ASSUME NEW s \in Sessions, Judge(s) PROVE Accounted(x, sum)'
  BY <1>0, <1>8, AccountedJudge
<1>9. ASSUME NEW s \in Sessions, SaveDecision(s) PROVE Accounted(x, sum)'
  BY <1>0, <1>9, AccountedSave
<1>10. ASSUME NEW s \in Sessions, CreateProof(s) PROVE Accounted(x, sum)'
  <2>1. ASSUME NEW r \in Sessions, r # s PROVE Same(r)
    BY <1>10, <2>1 DEF CreateProof, Same
  <2>2. Trace(s, x, sum)'
    <3>1. stage[s] = "saved" /\ stage'[s] = "proved" /\ UNCHANGED <<tx, status>>
      BY <1>10 DEF CreateProof, Types
    <3> QED
      BY <3>1 DEF Accounted, Trace
  <2> QED
    BY <1>0, <1>10, <2>1, <2>2, AccountedElse DEF CreateProof
<1>11. ASSUME NEW s \in Sessions, SaveReview(s) PROVE Accounted(x, sum)'
  BY <1>0, <1>11, AccountedReview
<1>12. ASSUME NEW s \in Sessions, Log(s) PROVE Accounted(x, sum)'
  <2>1. ASSUME NEW r \in Sessions, r # s PROVE Same(r)
    BY <1>12, <2>1 DEF Log, Same
  <2>2. Trace(s, x, sum)'
    <3>1. stage[s] \in {"proved", "reviewed"} /\ stage'[s] = "done" /\ UNCHANGED status
      BY <1>12 DEF Log, Types
    <3> QED
      BY <3>1 DEF Accounted, Trace
  <2> QED
    BY <1>0, <1>12, <2>1, <2>2, AccountedElse DEF Log
<1>13. CASE UNCHANGED gateVars
  <2>1. \A s \in Sessions : Same(s)
    BY <1>13 DEF gateVars, Same
  <2> QED
    BY <1>0, <1>13, <2>1, AccountedElse DEF gateVars
<1> QED
  BY <1>1, <1>2, <1>3, <1>4, <1>5, <1>6, <1>7, <1>8, <1>9, <1>10, <1>11, <1>12, <1>13,
     <1>14 DEF GateNext

\* However the evaluations interleave and wherever they die, each transaction
\* that is granted was counted by its own evaluation within the limits of a
\* policy, and of any evaluations of one day one has counted them all.
THEOREM GateInvariance == GateSpec => []GateIInv
<1>1. GateInit => GateIInv
  BY TypesInit, TableInit, SessionsInit, AccountedInit DEF GateIInv
<1>2. GateIInv /\ [GateNext]_gateVars => GateIInv'
  <2> SUFFICES ASSUME GateIInv, [GateNext]_gateVars PROVE GateIInv'
    OBVIOUS
  <2>1. Types' /\ TableSound' /\ SessionsSound'
    BY TypesStep, TableStep, SessionsStep DEF GateIInv
  <2>2. \E y, told : Accounted(y, told)'
    BY AccountedStep DEF GateIInv
  <2> QED
    BY <2>1, <2>2 DEF GateIInv
<1> QED
  BY <1>1, <1>2, PTL DEF GateSpec

-----------------------------------------------------------------------------
(* The spending gate: limits *)

LEMMA LimitsFollow == GateIInv => LimitsUnlessBypassed
<1> SUFFICES ASSUME GateIInv, NEW d \in 0 .. day
             PROVE  LET spenders == {t \in Regular :
                                      status[t] \in Granted /\ createdOn[t] = d}
                    IN  spenders # {} => Fits(spenders)
  BY DEF LimitsUnlessBypassed, Fits, Granted
<1> DEFINE spenders == {t \in Regular : status[t] \in Granted /\ createdOn[t] = d}
<1> SUFFICES ASSUME spenders # {}
             PROVE  Fits(spenders)
  OBVIOUS
<1>1. PICK x, sum : Accounted(x, sum)
  BY DEF GateIInv
<1> DEFINE A == {s \in Sessions : /\ x[s] \in spenders /\ x[s] \in sum[s]
                                  /\ Fits(sum[s])}
<1>2. spenders \subseteq Transactions /\ d \in Nat
  BY DEF Regular, GateIInv, Types
<1>3. \A t \in spenders : \E s \in A : x[s] = t
  BY <1>1, <1>2 DEF Accounted, Covered
<1>4. A \subseteq Counting(x, sum) /\ A # {} /\ \A s \in A : createdOn[x[s]] = d
  <2>1. A # {}
    BY <1>3
  <2>2. A \subseteq Counting(x, sum)
    BY <1>2, NoValueAssumption DEF Counting, Alive, Granted, Countable
  <2> QED
    BY <2>1, <2>2
<1>5. PICK s \in A : \A r \in A : x[r] \in sum[s]
  <2> HIDE DEF A
  <2> QED
    BY <1>1, <1>2, <1>4 DEF Accounted, OneSeesAll
<1>6. spenders \subseteq sum[s] /\ Fits(sum[s]) /\ sum[s] \in SUBSET Transactions
  BY <1>1, <1>3, <1>5 DEF Accounted, Trace
<1> QED
  <2> HIDE DEF A, spenders
  <2>1. Total(spenders) \in Nat /\ Total(sum[s]) \in Nat /\ Total(spenders) <= Total(sum[s])
    BY <1>6, TotalGrows
  <2>2. /\ Cardinality(spenders) \in Nat /\ Cardinality(sum[s]) \in Nat
        /\ Cardinality(spenders) <= Cardinality(sum[s])
    <3>1. IsFiniteSet(sum[s])
      BY <1>6, FS_Subset, GateAssumption
    <3> QED
      BY <1>6, <3>1, FS_Subset, FS_CardinalityType
  <2>3. PICK p \in inForce : /\ ~ Exceeds(Total(sum[s]), p.daily_budget)
                             /\ ~ Reaches(Cardinality(sum[s]), p.max_transactions_per_day)
    BY <1>6 DEF Fits
  <2>4. /\ p.daily_budget \in Nat \cup {Unlimited}
        /\ p.max_transactions_per_day \in Nat \cup {Unlimited}
    BY <2>3, PolicyAssumption DEF GateIInv, Types
  <2>5. /\ ~ Exceeds(Total(spenders), p.daily_budget)
        /\ ~ Reaches(Cardinality(spenders), p.max_transactions_per_day)
    BY <2>1, <2>2, <2>3, <2>4 DEF Exceeds, Reaches
  <2> QED
    BY <2>5 DEF Fits

\* The spending limits hold for all that was granted regularly, whatever the
\* amounts, the policies and the number of evaluations that run at once.
THEOREM Limits == GateSpec => []LimitsUnlessBypassed
BY GateInvariance, LimitsFollow, PTL

-----------------------------------------------------------------------------
(* The spending gate: proofs, approvals and log entries *)

\* The evaluation has written this result, and has still to tell of it.
Telling(s, t, v) ==
  tx[s] = t /\ outcome[s] = v /\ stage[s] \in {"saved", "proved"}

\* An evaluation has told of the result, or is about to.
ByEvaluation(t, v) ==
  /\ \/ <<t, v>> \in proofs
     \/ \E s \in Sessions : Telling(s, t, v) /\ stage[s] = "saved"
  /\ \/ <<t, v, "EVALUATION">> \in audit
     \/ \E s \in Sessions : Telling(s, t, v)

\* A review has told of the verdict, or is about to.
ByReview(t, v) ==
  /\ <<t, v>> \in approvals
  /\ \/ <<t, v, "APPROVAL">> \in audit
     \/ \E s \in Sessions : tx[s] = t /\ outcome[s] = v /\ stage[s] = "reviewed"

Told(t) ==
  /\ decisionResult[t] # NoValue => ByEvaluation(t, decisionResult[t])
  /\ status[t] \notin {NoValue, "SUBMITTED"} =>
       ByEvaluation(t, status[t]) \/ ByReview(t, status[t])

\* A decision that was written over no unseen one is the only one: the row was
\* SUBMITTED, which it is no more once it shows a decision.
OneDecision(t) ==
  t \notin overwritten =>
    /\ \A p \in proofs : p[1] = t => p[2] = decisionResult[t]
    /\ \A s \in Sessions, v \in Outcomes :
         Telling(s, t, v) => v = decisionResult[t]

\* The status is the decision's until a reviewer changes it.
DecidedOrReviewed(t) ==
  decisionResult[t] # NoValue =>
    decisionResult[t] = status[t] \/ \E a \in approvals : a[1] = t

RecordsSound ==
  /\ proofs \subseteq Transactions \X Outcomes
  /\ \A t \in Transactions : Told(t) /\ OneDecision(t) /\ DecidedOrReviewed(t)

LEMMA RecordsInit == GateInit => RecordsSound
BY DEF GateInit, RecordsSound, Told, OneDecision, DecidedOrReviewed, Telling

\* A step of a session other than its write: what it has told of it has told.
LEMMA TellingStays ==
  ASSUME Types, SessionsSound, NEW s \in Sessions, CreateProof(s) \/ Log(s),
         NEW t \in Transactions, NEW v
  PROVE  /\ ByEvaluation(t, v) => ByEvaluation(t, v)'
         /\ ByReview(t, v) => ByReview(t, v)'
<1> USE DEF clock, table, trail, session, history
<1>1. CASE CreateProof(s)
  <2>1. /\ stage[s] = "saved" /\ stage' = [stage EXCEPT ![s] = "proved"]
        /\ proofs' = proofs \cup {<<tx[s], outcome[s]>>}
        /\ UNCHANGED <<tx, outcome, audit, approvals>>
    BY <1>1 DEF CreateProof
  <2>2. \A r \in Sessions : /\ stage[r] = "reviewed" => stage'[r] = "reviewed"
                            /\ Telling(r, t, v) => Telling(r, t, v)'
                            /\ stage[r] = "saved" => r = s \/ stage'[r] = "saved"
    BY <2>1 DEF Types, Telling
  <2>3. Telling(s, t, v) => <<t, v>> \in proofs'
    BY <2>1 DEF Telling
  <2> QED
    BY <2>1, <2>2, <2>3 DEF ByEvaluation, ByReview
<1>2. CASE Log(s)
  <2>1. /\ stage[s] \in {"proved", "reviewed"} /\ UNCHANGED <<proofs, approvals>>
        /\ audit \subseteq audit'
        /\ stage[s] = "proved" => <<tx[s], outcome[s], "EVALUATION">> \in audit'
        /\ stage[s] = "reviewed" => <<tx[s], outcome[s], "APPROVAL">> \in audit'
    BY <1>2 DEF Log
  <2>2. ASSUME NEW r \in Sessions, r # s
        PROVE  /\ stage'[r] = stage[r] /\ tx'[r] = tx[r] /\ outcome'[r] = outcome[r]
               /\ Telling(r, t, v) => Telling(r, t, v)'
    BY <1>2, <2>2 DEF Log, Types, Telling
  <2>3. ByEvaluation(t, v) => ByEvaluation(t, v)'
    <3>1. Telling(s, t, v) => stage[s] = "proved" /\ <<t, v, "EVALUATION">> \in audit'
      BY <2>1 DEF Telling
    <3> QED
      BY <2>1, <2>2, <3>1 DEF ByEvaluation
  <2>4. ByReview(t, v) => ByReview(t, v)'
    BY <2>1, <2>2 DEF ByReview
  <2> QED
    BY <2>3, <2>4
<1> QED
  BY <1>1, <1>2

\* The other steps leave the sessions that have still to tell where they are.
LEMMA TellingKept ==
  ASSUME UNCHANGED <<proofs, audit>>, approvals \subseteq approvals',
         \A s \in Sessions : stage[s] \in {"saved", "proved", "reviewed"} =>
           stage'[s] = stage[s] /\ tx'[s] = tx[s] /\ outcome'[s] = outcome[s],
         NEW t, NEW v
  PROVE  /\ ByEvaluation(t, v) => ByEvaluation(t, v)'
         /\ ByReview(t, v) => ByReview(t, v)'
BY DEF ByEvaluation, ByReview, Telling

LEMMA RecordsStay ==
  ASSUME RecordsSound, UNCHANGED <<status, decisionResult, overwritten, approvals>>,
         proofs' \subseteq Transactions \X Outcomes,
         \A t \in Transactions, v \in Outcomes \cup Statuses :
           /\ ByEvaluation(t, v) => ByEvaluation(t, v)'
           /\ ByReview(t, v) => ByReview(t, v)',
         Types,
         \A t \in Transactions : OneDecision(t)'
  PROVE  RecordsSound'
<1>1. ASSUME NEW t \in Transactions PROVE Told(t)'
  <2>1. /\ decisionResult[t] \in Outcomes \cup {NoValue}
        /\ status[t] \in Statuses \cup {NoValue}
    BY DEF Types
  <2> QED
    BY <2>1 DEF RecordsSound, Told
<1> QED
  BY <1>1 DEF RecordsSound, DecidedOrReviewed

\* Nothing is written, and no session has more to tell than it had.
LEMMA RecordsQuiet ==
  ASSUME Types, RecordsSound,
         UNCHANGED <<status, decisionResult, overwritten, proofs, approvals, audit>>,
         \A s \in Sessions : stage[s] \in {"saved", "proved", "reviewed"} =>
           stage'[s] = stage[s] /\ tx'[s] = tx[s] /\ outcome'[s] = outcome[s],
         \A s \in Sessions : stage'[s] \in {"saved", "proved"} => stage'[s] = stage[s]
  PROVE  RecordsSound'
<1>1. \A t \in Transactions, v \in Outcomes \cup Statuses :
        /\ ByEvaluation(t, v) => ByEvaluation(t, v)'
        /\ ByReview(t, v) => ByReview(t, v)'
  BY TellingKept
<1>2. \A t \in Transactions : OneDecision(t)'
  BY DEF RecordsSound, OneDecision, Telling
<1>3. proofs' \subseteq Transactions \X Outcomes
  BY DEF RecordsSound
<1> QED
  BY <1>1, <1>2, <1>3, RecordsStay

LEMMA RecordsSave ==
  ASSUME Types, TableSound, SessionsSound, RecordsSound, NEW s \in Sessions, SaveDecision(s)
  PROVE  RecordsSound'
<1> USE DEF clock, table, trail, session, history
<1>1. /\ stage[s] = "judged" /\ stage' = [stage EXCEPT ![s] = "saved"]
      /\ tx[s] \in Transactions /\ loaded[s] = "SUBMITTED" /\ outcome[s] \in Outcomes
      /\ decisionResult' = [decisionResult EXCEPT ![tx[s]] = outcome[s]]
      /\ status' = [status EXCEPT ![tx[s]] = outcome[s]]
      /\ UNCHANGED <<tx, outcome, proofs, approvals, audit>>
      /\ overwritten \subseteq overwritten'
      /\ status[tx[s]] # "SUBMITTED" => tx[s] \in overwritten'
  BY DEF SaveDecision, Write, SessionsSound, SessionSound, Busy, Evaluating
<1>2. NoValue \notin Outcomes
  BY NoValueAssumption DEF Outcomes
<1>3. \A r \in Sessions : r # s => stage'[r] = stage[r]
  BY <1>1 DEF Types
<1>4. ASSUME NEW t, NEW v
      PROVE  /\ ByEvaluation(t, v) => ByEvaluation(t, v)'
             /\ ByReview(t, v) => ByReview(t, v)'
  <2>1. \A r \in Sessions : stage[r] \in {"saved", "proved", "reviewed"} =>
          stage'[r] = stage[r] /\ tx'[r] = tx[r] /\ outcome'[r] = outcome[r]
    BY <1>1, <1>3
  <2> QED
    BY <1>1, <2>1, TellingKept
<1>5. ASSUME NEW t \in Transactions, t # tx[s]
      PROVE  Told(t)' /\ OneDecision(t)' /\ DecidedOrReviewed(t)'
  <2>1. decisionResult'[t] = decisionResult[t] /\ status'[t] = status[t]
    BY <1>1, <1>5 DEF Types
  <2>2. Told(t)'
    BY <1>4, <2>1 DEF RecordsSound, Told
  <2>3. \A r \in Sessions, v \in Outcomes : Telling(r, t, v)' => Telling(r, t, v)
    BY <1>1, <1>3, <1>5 DEF Telling
  <2>4. OneDecision(t)'
    BY <1>1, <2>1, <2>3 DEF RecordsSound, OneDecision
  <2> QED
    BY <1>1, <2>1, <2>2, <2>4 DEF RecordsSound, DecidedOrReviewed
<1>6. ASSUME NEW t \in Transactions, t = tx[s]
      PROVE  Told(t)' /\ OneDecision(t)' /\ DecidedOrReviewed(t)'
  <2>1. decisionResult'[t] = outcome[s] /\ status'[t] = outcome[s]
    BY <1>1, <1>6 DEF Types
  <2>2. Telling(s, t, outcome[s])' /\ stage'[s] = "saved"
    BY <1>1, <1>6 DEF Types, Telling
  <2>3. ByEvaluation(t, outcome[s])'
    BY <2>2 DEF ByEvaluation
  <2>5. Told(t)'
    BY <1>1, <2>1, <2>3 DEF Told, ByEvaluation, Telling
  <2>4. ASSUME t \notin overwritten' PROVE OneDecision(t)'
    <3>1. t \notin overwritten /\ decisionResult[t] = NoValue
      BY <1>1, <1>6, <2>4 DEF TableSound
    <3>2. \A p \in proofs : p[1] # t
      BY <1>2, <3>1 DEF RecordsSound, OneDecision
    <3>3. \A r \in Sessions, v \in Outcomes : ~ Telling(r, t, v)
      BY <1>2, <3>1 DEF RecordsSound, OneDecision
    <3>4. \A r \in Sessions, v \in Outcomes : Telling(r, t, v)' => r = s
      BY <1>1, <1>3, <3>3 DEF Telling
    <3> QED
      BY <1>1, <2>1, <3>2, <3>4 DEF OneDecision, Telling
  <2> QED
    BY <2>1, <2>4, <2>5 DEF OneDecision, DecidedOrReviewed
<1> QED
  BY <1>1, <1>5, <1>6 DEF RecordsSound

LEMMA RecordsReview ==
  ASSUME Types, TableSound, SessionsSound, RecordsSound, NEW s \in Sessions, SaveReview(s)
  PROVE  RecordsSound'
<1> USE DEF clock, table, trail, session, history
<1>1. PICK said \in {"APPROVED", "DENIED"} :
        /\ stage[s] = "reviewing" /\ stage' = [stage EXCEPT ![s] = "reviewed"]
        /\ approvals' = approvals \cup {<<tx[s], said>>}
        /\ outcome' = [outcome EXCEPT ![s] = said]
        /\ UNCHANGED <<tx, decisionResult, proofs, audit>>
        /\ \/ status' = status
           \/ status' = [status EXCEPT ![tx[s]] = said]
  BY DEF SaveReview, Write
<1>2. tx[s] \in Transactions /\ overwritten \subseteq overwritten'
  BY <1>1 DEF SessionsSound, SessionSound, Busy, SaveReview, Write
<1>3. /\ \A r \in Sessions : r # s => stage'[r] = stage[r] /\ outcome'[r] = outcome[r]
      /\ stage'[s] = "reviewed" /\ outcome'[s] = said
  BY <1>1 DEF Types
<1>4. ASSUME NEW t, NEW v
      PROVE  /\ ByEvaluation(t, v) => ByEvaluation(t, v)'
             /\ ByReview(t, v) => ByReview(t, v)'
  <2>1. \A r \in Sessions : stage[r] \in {"saved", "proved", "reviewed"} =>
          stage'[r] = stage[r] /\ tx'[r] = tx[r] /\ outcome'[r] = outcome[r]
    BY <1>1, <1>3
  <2> QED
    BY <1>1, <2>1, TellingKept
<1>5. ASSUME NEW t \in Transactions
      PROVE  Told(t)' /\ OneDecision(t)' /\ DecidedOrReviewed(t)'
  <2>1. \/ status'[t] = status[t]
        \/ t = tx[s] /\ status'[t] = said
    BY <1>1, <1>2 DEF Types
  <2>2. ByReview(tx[s], said)'
    BY <1>1, <1>3 DEF ByReview
  <2>3. Told(t)'
    BY <1>1, <1>4, <2>1, <2>2 DEF RecordsSound, Told
  <2>4. \A r \in Sessions, v \in Outcomes : Telling(r, t, v)' => Telling(r, t, v)
    BY <1>1, <1>3 DEF Telling
  <2>5. OneDecision(t)'
    BY <1>1, <1>2, <2>4 DEF RecordsSound, OneDecision
  <2>6. DecidedOrReviewed(t)'
    <3>1. t = tx[s] => <<tx[s], said>> \in approvals' /\ <<tx[s], said>>[1] = t
      BY <1>1
    <3> QED
      BY <1>1, <2>1, <3>1 DEF RecordsSound, DecidedOrReviewed
  <2> QED
    BY <2>3, <2>5, <2>6
<1> QED
  BY <1>1, <1>5 DEF RecordsSound

LEMMA RecordsProof ==
  ASSUME Types, SessionsSound, RecordsSound, NEW s \in Sessions, CreateProof(s)
  PROVE  RecordsSound'
<1> USE DEF clock, table, trail, session, history
<1>1. /\ stage[s] = "saved" /\ stage' = [stage EXCEPT ![s] = "proved"]
      /\ tx[s] \in Transactions /\ outcome[s] \in Outcomes
      /\ proofs' = proofs \cup {<<tx[s], outcome[s]>>}
      /\ UNCHANGED <<tx, outcome, audit, approvals, status, decisionResult, overwritten>>
  BY DEF CreateProof, SessionsSound, SessionSound, Busy, Evaluating
<1>2. \A r \in Sessions, t \in Transactions, v \in Outcomes :
        Telling(r, t, v)' => Telling(r, t, v)
  BY <1>1 DEF Telling, Types
<1>3. Telling(s, tx[s], outcome[s])
  BY <1>1 DEF Telling
<1>4. ASSUME NEW t \in Transactions, t \notin overwritten, NEW p \in proofs', p[1] = t
      PROVE  p[2] = decisionResult[t]
  <2>1. CASE p \in proofs
    BY <1>4, <2>1 DEF RecordsSound, OneDecision
  <2>2. CASE p = <<tx[s], outcome[s]>>
    BY <1>1, <1>3, <1>4, <2>2 DEF RecordsSound, OneDecision
  <2> QED
    BY <1>1, <1>4, <2>1, <2>2
<1>5. \A t \in Transactions : OneDecision(t)'
  BY <1>1, <1>2, <1>4 DEF RecordsSound, OneDecision
<1>6. proofs' \subseteq Transactions \X Outcomes
  BY <1>1 DEF RecordsSound
<1> QED
  BY <1>1, <1>5, <1>6, TellingStays, RecordsStay

LEMMA RecordsLog ==
  ASSUME Types, SessionsSound, RecordsSound, NEW s \in Sessions, Log(s)
  PROVE  RecordsSound'
<1> USE DEF clock, table, trail, session, history
<1>1. /\ stage' = [stage EXCEPT ![s] = "done"]
      /\ \A r \in Sessions : r # s => tx'[r] = tx[r] /\ outcome'[r] = outcome[r]
      /\ UNCHANGED <<proofs, approvals, status, decisionResult, overwritten>>
  BY DEF Log, Types
<1>2. \A r \in Sessions, t \in Transactions, v \in Outcomes :
        Telling(r, t, v)' => Telling(r, t, v)
  BY <1>1 DEF Telling, Types
<1>3. \A t \in Transactions : OneDecision(t)'
  BY <1>1, <1>2 DEF RecordsSound, OneDecision
<1>4. proofs' \subseteq Transactions \X Outcomes
  BY <1>1 DEF RecordsSound
<1> QED
  BY <1>1, <1>3, <1>4, TellingStays, RecordsStay

LEMMA RecordsCreate ==
  ASSUME Types, RecordsSound, NEW t \in Transactions, CreateTransaction(t)
  PROVE  RecordsSound'
<1> USE DEF clock, table, trail, session, history
<1>1. /\ status[t] = NoValue /\ status' = [status EXCEPT ![t] = "SUBMITTED"]
      /\ UNCHANGED <<stage, tx, outcome, decisionResult, overwritten, proofs, approvals, audit>>
  BY DEF CreateTransaction
<1>2. ASSUME NEW u, NEW v
      PROVE  /\ ByEvaluation(u, v) => ByEvaluation(u, v)'
             /\ ByReview(u, v) => ByReview(u, v)'
  BY <1>1 DEF ByEvaluation, ByReview, Telling
<1>3. ASSUME NEW u \in Transactions
      PROVE  Told(u)' /\ OneDecision(u)' /\ DecidedOrReviewed(u)'
  <2>1. IF u = t THEN status'[u] = "SUBMITTED" ELSE status'[u] = status[u]
    BY <1>1 DEF Types
  <2>2. Told(u)'
    BY <1>1, <1>2, <2>1 DEF RecordsSound, Told
  <2> QED
    BY <1>1, <2>1, <2>2 DEF RecordsSound, OneDecision, Telling, DecidedOrReviewed
<1> QED
  BY <1>1, <1>3 DEF RecordsSound

LEMMA RecordsStep ==
  ASSUME Types, TableSound, SessionsSound, RecordsSound, [GateNext]_gateVars
  PROVE  RecordsSound'
<1> USE DEF clock, table, trail, session, history
<1>1. ASSUME NEW up \in BOOLEAN, SetActive(up) PROVE RecordsSound'
  BY <1>1, RecordsQuiet DEF SetActive
<1>2. ASSUME NEW i \in PolicyIds, NEW p \in Policies, PutPolicy(i, p) PROVE RecordsSound'
  BY <1>2, RecordsQuiet DEF PutPolicy
<1>3. ASSUME NEW t \in Transactions, CreateTransaction(t) PROVE RecordsSound'
  BY <1>3, RecordsCreate
<1>4. CASE NextDay \/ FirstSecondEnds
  BY <1>4, RecordsQuiet DEF NextDay, FirstSecondEnds
<1>5. ASSUME NEW s \in Sessions, NEW t \in Transactions, Evaluate(s, t) \/ Review(s, t)
      PROVE  RecordsSound'
  <2>1. Start(s, t, "loaded") \/ Start(s, t, "reviewing")
    BY <1>5 DEF Evaluate, Review
  <2>2. ASSUME NEW r \in Sessions
        PROVE  /\ stage[r] \in {"saved", "proved", "reviewed"} =>
                    stage'[r] = stage[r] /\ tx'[r] = tx[r] /\ outcome'[r] = outcome[r]
               /\ stage'[r] \in {"saved", "proved"} => stage'[r] = stage[r]
    BY <2>1 DEF Start, Types
  <2> QED
    BY <2>1, <2>2, RecordsQuiet DEF Start
<1>6. ASSUME NEW s \in Sessions, ReadAgent(s) \/ ReadPolicy(s) \/ ReadSpend(s) \/ Judge(s)
      PROVE  RecordsSound'
  <2>1. ASSUME NEW r \in Sessions
        PROVE  /\ stage[r] \in {"saved", "proved", "reviewed"} =>
                    stage'[r] = stage[r] /\ tx'[r] = tx[r] /\ outcome'[r] = outcome[r]
               /\ stage'[r] \in {"saved", "proved"} => stage'[r] = stage[r]
    BY <1>6 DEF ReadAgent, ReadPolicy, ReadSpend, Judge, Types
  <2> QED
    BY <1>6, <2>1, RecordsQuiet DEF ReadAgent, ReadPolicy, ReadSpend, Judge
<1>7. ASSUME NEW s \in Sessions,
             SaveDecision(s) \/ CreateProof(s) \/ SaveReview(s) \/ Log(s)
      PROVE  RecordsSound'
  BY <1>7, RecordsSave, RecordsProof, RecordsReview, RecordsLog
<1>8. CASE UNCHANGED gateVars
  BY <1>8, RecordsQuiet DEF gateVars
<1> QED
  BY <1>1, <1>2, <1>3, <1>4, <1>5, <1>6, <1>7, <1>8 DEF GateNext

\* Proofs, approvals and log entries account for what the row says, however
\* evaluations and reviews race, as soon as the calls that wrote it are done.
THEOREM Records == GateSpec => []RecordsTell
<1>1. GateInit => RecordsSound
  BY RecordsInit
<1>2. GateIInv /\ RecordsSound /\ [GateNext]_gateVars => RecordsSound'
  BY RecordsStep DEF GateIInv
<1>3. RecordsSound => RecordsTell
  <2> SUFFICES ASSUME RecordsSound, NEW t \in Transactions
               PROVE  /\ ~ Unrecorded(t) =>
                           /\ decisionResult[t] # NoValue => Evaluated(t, decisionResult[t])
                           /\ status[t] \notin {NoValue, "SUBMITTED"} =>
                                Evaluated(t, status[t]) \/ Reviewed(t, status[t])
                      /\ t \notin overwritten =>
                           \A p \in proofs : p[1] = t =>
                             /\ p[2] = decisionResult[t]
                             /\ p[2] = status[t] \/ \E a \in approvals : a[1] = t
    BY DEF RecordsTell
  <2>1. ASSUME ~ Unrecorded(t), NEW v
        PROVE  /\ ByEvaluation(t, v) => Evaluated(t, v)
               /\ ByReview(t, v) => Reviewed(t, v)
    BY <2>1 DEF Unrecorded, ByEvaluation, ByReview, Telling, Evaluated, Reviewed
  <2>2. NoValue \notin Outcomes
    BY NoValueAssumption DEF Outcomes
  <2>3. ASSUME t \notin overwritten, NEW p \in proofs, p[1] = t
        PROVE  /\ p[2] = decisionResult[t]
               /\ p[2] = status[t] \/ \E a \in approvals : a[1] = t
    <3>1. p[2] = decisionResult[t] /\ p[2] \in Outcomes
      BY <2>3 DEF RecordsSound, OneDecision
    <3> QED
      BY <2>2, <3>1 DEF RecordsSound, DecidedOrReviewed
  <2> QED
    BY <2>1, <2>3 DEF RecordsSound, Told
<1> QED
  BY <1>1, <1>2, <1>3, GateInvariance, PTL DEF GateSpec

-----------------------------------------------------------------------------
(* Serialised sessions on a transaction *)

\* The session has loaded a transaction that it is going to write.
Writing(s) ==
  stage[s] \in {"loaded", "active", "inactive", "policed", "summed", "judged", "reviewing"}

\* No two sessions are about to write one transaction: what a lock on its row
\* would guarantee.  Sessions on different transactions still run at once.
OneWriting ==
  \A r, s \in Sessions : Writing(r) /\ Writing(s) /\ tx[r] = tx[s] => r = s

ProofsAlwaysTell ==
  \A t \in Transactions : \A p \in proofs : p[1] = t =>
    /\ p[2] = decisionResult[t]
    /\ p[2] = status[t] \/ \E a \in approvals : a[1] = t

\* As LimitsUnlessBypassed, of what is granted by an evaluation of its own day
\* and was not created in that day's first second.
LimitsUnlessLate ==
  \A d \in 0 .. day :
    LET spenders == {t \in Transactions \ (late \cup overruled \cup uncounted) :
                       status[t] \in Granted /\ createdOn[t] = d}
    IN spenders # {} => Fits(spenders)

NothingUnseen ==
  /\ overwritten = {}
  /\ \A s \in Sessions : Writing(s) => loaded[s] = status[tx[s]]

LEMMA UnseenStays ==
  ASSUME NothingUnseen, overwritten' = {},
         \A s \in Sessions : Writing(s)' =>
           \/ loaded'[s] = status'[tx'[s]]
           \/ /\ Writing(s) /\ tx'[s] = tx[s] /\ loaded'[s] = loaded[s]
              /\ status'[tx[s]] = status[tx[s]]
  PROVE  NothingUnseen'
BY DEF NothingUnseen

LEMMA WriteUnseen ==
  ASSUME Types, SessionsSound, OneWriting, NothingUnseen, NEW s \in Sessions,
         Writing(s), NEW value, Write(s, value),
         UNCHANGED tx, \A r \in Sessions \ {s} : loaded'[r] = loaded[r],
         \A r \in Sessions : Writing(r)' => r # s /\ Writing(r)
  PROVE  NothingUnseen'
<1>1. overwritten' = {}
  BY DEF Write, NothingUnseen
<1>2. ASSUME NEW r \in Sessions, Writing(r)'
      PROVE  Writing(r) /\ status'[tx[r]] = status[tx[r]]
  BY <1>2 DEF Write, Types, OneWriting
<1> QED
  BY <1>1, <1>2, UnseenStays

LEMMA UnseenStep ==
  ASSUME Types, SessionsSound, OneWriting, NothingUnseen, [GateNext]_gateVars
  PROVE  NothingUnseen'
<1> USE DEF clock, table, trail, session, history
<1>0. overwritten = {}
  BY DEF NothingUnseen
<1>1. ASSUME NEW up \in BOOLEAN, SetActive(up) PROVE NothingUnseen'
  BY <1>0, <1>1, UnseenStays DEF SetActive, Writing
<1>2. ASSUME NEW i \in PolicyIds, NEW p \in Policies, PutPolicy(i, p) PROVE NothingUnseen'
  BY <1>0, <1>2, UnseenStays DEF PutPolicy, Writing
<1>3. ASSUME NEW t \in Transactions, CreateTransaction(t) PROVE NothingUnseen'
  <2>1. ASSUME NEW s \in Sessions, Writing(s) PROVE tx[s] # t
    BY <1>3, <2>1 DEF CreateTransaction, SessionsSound, SessionSound, Writing, Busy, Evaluating
  <2> QED
    BY <1>0, <1>3, <2>1, UnseenStays DEF CreateTransaction, Writing, Types
<1>4. CASE NextDay \/ FirstSecondEnds \/ UNCHANGED gateVars
  BY <1>0, <1>4, UnseenStays DEF NextDay, FirstSecondEnds, gateVars, Writing
<1>5. ASSUME NEW s \in Sessions, NEW t \in Transactions, Evaluate(s, t) \/ Review(s, t)
      PROVE  NothingUnseen'
  <2>1. Start(s, t, "loaded") \/ Start(s, t, "reviewing")
    BY <1>5 DEF Evaluate, Review
  <2> QED
    BY <1>0, <2>1, UnseenStays DEF Start, Writing, Types
<1>6. ASSUME NEW s \in Sessions, ReadPolicy(s) PROVE NothingUnseen'
  BY <1>0, <1>6, UnseenStays DEF ReadPolicy, Writing, Types
<1>13. ASSUME NEW s \in Sessions, ReadAgent(s) PROVE NothingUnseen'
  BY <1>0, <1>13, UnseenStays DEF ReadAgent, Writing, Types
<1>7. ASSUME NEW s \in Sessions, ReadSpend(s) PROVE NothingUnseen'
  BY <1>0, <1>7, UnseenStays DEF ReadSpend, Writing, Types
<1>8. ASSUME NEW s \in Sessions, Judge(s) PROVE NothingUnseen'
  BY <1>0, <1>8, UnseenStays DEF Judge, Writing, Types
<1>9. ASSUME NEW s \in Sessions, SaveDecision(s) PROVE NothingUnseen'
  <2>1. \A r \in Sessions : Writing(r)' => r # s /\ Writing(r)
    BY <1>9 DEF SaveDecision, Writing, Types
  <2> QED
    BY <1>9, <2>1, WriteUnseen DEF SaveDecision, Writing
<1>10. ASSUME NEW s \in Sessions, CreateProof(s) PROVE NothingUnseen'
  BY <1>0, <1>10, UnseenStays DEF CreateProof, Writing, Types
<1>11. ASSUME NEW s \in Sessions, SaveReview(s) PROVE NothingUnseen'
  <2>1. \A r \in Sessions : Writing(r)' => r # s /\ Writing(r)
    BY <1>11 DEF SaveReview, Writing, Types
  <2>2. CASE UNCHANGED <<status, overwritten>>
    BY <1>0, <1>11, <2>1, <2>2, UnseenStays DEF SaveReview
  <2>3. ASSUME NEW value, Write(s, value) PROVE NothingUnseen'
    BY <1>11, <2>1, <2>3, WriteUnseen DEF SaveReview, Writing
  <2> QED
    BY <1>11, <2>2, <2>3 DEF SaveReview
<1>12. ASSUME NEW s \in Sessions, Log(s) PROVE NothingUnseen'
  BY <1>0, <1>12, UnseenStays DEF Log, Writing, Types
<1> QED
  BY <1>1, <1>2, <1>3, <1>4, <1>5, <1>6, <1>7, <1>8, <1>9, <1>10, <1>11, <1>12, <1>13
     DEF GateNext

LEMMA SerialNothingUnseen == GateSpec /\ []OneWriting => []NothingUnseen
<1>1. GateInit => NothingUnseen
  BY DEF GateInit, NothingUnseen, Writing
<1>2. GateIInv /\ OneWriting /\ NothingUnseen /\ [GateNext]_gateVars => NothingUnseen'
  BY UnseenStep DEF GateIInv
<1> QED
  BY <1>1, <1>2, GateInvariance, PTL DEF GateSpec

\* Where no two sessions write one transaction at once, every proof carries the
\* decision that its row shows, and the status too unless a reviewer has spoken.
THEOREM SerialRecords == GateSpec /\ []OneWriting => []ProofsAlwaysTell
<1>1. RecordsTell /\ NothingUnseen => ProofsAlwaysTell
  BY DEF RecordsTell, NothingUnseen, ProofsAlwaysTell
<1> QED
  BY <1>1, Records, SerialNothingUnseen, PTL

\* There the daily limits hold of all that evaluations grant on the day of the
\* transaction, its first second excepted, though any number of them run at
\* once: to keep the limits takes a lock on the transaction, and none on the
\* agent.
THEOREM SerialLimits == GateSpec /\ []OneWriting => []LimitsUnlessLate
<1>1. LimitsUnlessBypassed /\ NothingUnseen => LimitsUnlessLate
  BY DEF LimitsUnlessBypassed, LimitsUnlessLate, NothingUnseen, Regular, Granted, Fits
<1> QED
  BY <1>1, Limits, SerialNothingUnseen, PTL
=============================================================================
