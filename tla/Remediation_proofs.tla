------------------------- MODULE Remediation_proofs -------------------------
(***************************************************************************)
(* Proofs about Remediation, for any number of workers and any tables.     *)
(*                                                                         *)
(* The inductive invariant says what a call still knows between two of its *)
(* commits: rows and their evidence never go away, so a finding that was   *)
(* once fit for a reassessment stays fit; a look that nobody has written   *)
(* over still shows the row; and a call that may reopen a finding holds a  *)
(* look at an open one, or is about a prohibition, which never closes.     *)
(***************************************************************************)
EXTENDS Remediation, SequenceTheorems, FiniteSetTheorems, WellFoundedInduction,
        TLAPS

FindingTypes ==
  {"POLICY_PROHIBITION", "CONTROL_FAILURE", "MANUAL_REVIEW", "EVIDENCE_GAP",
   "INVALID_EVIDENCE", "ESCALATION_APPROVAL_REQUIRED", "OTHER"}

Due == GeneratedTypes(basis)

PlanRows == [finding : Findings, mandatory : BOOLEAN]
DispatchRows == [finding : Findings, plan : Plans \cup {Nothing}]
LedgerRows == [origin : Findings \cup {Nothing}, prior : Nat]

TableTypes ==
  /\ basis \in Bases
  /\ kind \in Seq(FindingTypes) /\ Len(kind) <= MaxFindings
  /\ status \in [Findings -> FindingStatus]
  /\ outcome \in [Findings -> ValidationOutcome \cup {None}]
  /\ resolvedBy \in [Findings -> Nat]
  /\ plans \in Seq(PlanRows)
  /\ Len(plans) <= MaxPlans
  /\ progress \in [Plans -> PlanStatus \cup {None}]
  /\ sent \in Seq(DispatchRows)
  /\ Len(sent) <= MaxDispatches
  /\ logged \in [Dispatches -> Nat] /\ answered \in [Dispatches -> Nat]
  /\ ledger \in Seq(LedgerRows)
  /\ successor \in [Decisions -> Nat]

CopyTypes ==
  /\ seen \in [Workers -> FindingStatus \cup PlanStatus \cup {None}]
  /\ seenOutcome \in [Workers -> ValidationOutcome \cup {None}]
  /\ seenLog \in [Workers -> Nat]
  /\ fresh \in [Workers -> BOOLEAN]

Types ==
  /\ TableTypes /\ CopyTypes
  /\ pc \in [Workers -> Stages] /\ call \in [Workers -> Call]
  /\ made \in [Workers -> Nat] /\ broken \in BOOLEAN

\* The finding may be resolved, and what a reassessment of it needs is there.
Fit(f) ==
  /\ f \in Existing /\ Resolvable(f)
  /\ IF kind[f] = "MANUAL_REVIEW" THEN f \in reviewed ELSE <<f, TRUE>> \in evidence

\* d is the decision of a reassessment of f.
Decided(f, d) ==
  d \in DOMAIN ledger /\ ledger[d] = [origin |-> f, prior |-> Original]

Superseded == successor[Original] # Nothing

\* The call does not reopen a closed finding, if what it has looked at is true.
Harmless(c) ==
  /\ c.want \in {None, "ASSIGNED", "IN_PROGRESS", "BLOCKED", "TERMINATED"}
  /\ IF c.want = "TERMINATED"
     THEN c.f \in Existing /\ c.f \in Findings /\ Terminal(c.f)
     ELSE c.want = None \/ (c.f \in Findings /\ "CLOSED" \notin c.from)

\* What a call knows of its own, whatever other calls do.
Knows(w) ==
  /\ pc[w] = "generate" => made[w] < Len(Due)
  /\ pc[w] \in {"lookPlan", "savePlan", "look", "save", "callback", "log"}
       => Harmless(call[w])
  /\ pc[w] \in {"look", "save"} => call[w].want # None
  /\ pc[w] = "save" => seen[w] \in call[w].from
  /\ pc[w] \in {"callback", "log"} => call[w].d \in Dispatches
  /\ pc[w] = "validate" =>
       /\ call[w].f \in Findings /\ call[w].want # None
       /\ call[w].verdict = "VALIDATED" => Fit(call[w].f)
       /\ call[w].want = "CLOSED" => seen[w] = "CLOSED"
       /\ seen[w] = "CLOSED" /\ call[w].verdict # "REFUSED"
            => call[w].want = "CLOSED"
  /\ pc[w] \in {"approve", "supersede", "close"} => Fit(call[w].f)
  /\ pc[w] \in {"supersede", "close"} => Decided(call[w].f, made[w])
  /\ pc[w] = "close" => Superseded
  /\ pc[w] \notin {"generate", "supersede", "close"} => made[w] = 0

\* What it has looked at still is in the row, as far as it is fresh.
Current(w) ==
  fresh[w] =>
    /\ pc[w] \in {"save", "validate"} => seen[w] = status[call[w].f]
    /\ pc[w] = "log" => seenLog[w] = logged[call[w].d]

\* Unless generate calls raced or stopped, the findings there are the first of
\* those that are due, and one call at most is adding the rest.
Generated ==
  ~ broken =>
    /\ Len(kind) <= Len(Due)
    /\ \A i \in 1 .. Len(kind) : kind[i] = Due[i]
    /\ \A w \in Workers : pc[w] = "generate" => made[w] = Len(kind)
    /\ \A v, w \in Workers : pc[v] = "generate" /\ pc[w] = "generate" => v = w
    /\ \/ Len(kind) \in {0, Len(Due)}
       \/ \E w \in Workers : pc[w] = "generate"

RowsSound ==
  /\ \A f \in Findings : outcome[f] = "VALIDATED" => Fit(f)
  /\ \A d \in DOMAIN ledger : ledger[d].origin # Nothing => Fit(ledger[d].origin)
  /\ \A f \in Findings :
       status[f] = "CLOSED" => Decided(f, resolvedBy[f]) /\ Superseded
  /\ \A d \in Dispatches : logged[d] = answered[d] \/ d \in unlogged

IInv ==
  /\ Types
  /\ \A w \in Workers : Knows(w)
  /\ \A w \in Workers : Current(w)
  /\ Generated
  /\ RowsSound

-----------------------------------------------------------------------------
(* The findings that are due *)

\* Any non-empty set of natural numbers has a least element: the induction
\* principle of the lemmas below.
LEMMA LeastNatural ==
  ASSUME NEW S \in SUBSET Nat, S # {}
  PROVE  \E n \in S : \A m \in S : n <= m
<1> DEFINE Below == {0 .. n : n \in S}
<1>1. IsWellFoundedOn(StrictSubsetOrdering(Nat), FiniteSubsetsOf(Nat))
  BY FS_StrictSubsetOrderingWellFounded
<1>2. Below # {} /\ Below \subseteq FiniteSubsetsOf(Nat)
  <2>1. ASSUME NEW n \in S PROVE IsFiniteSet(0 .. n)
    BY FS_Interval
  <2>2. ASSUME NEW n \in S PROVE 0 .. n \in SUBSET Nat
    OBVIOUS
  <2> QED
    BY <2>1, <2>2 DEF FiniteSubsetsOf
<1>3. \E X \in Below : \A Y \in Below : ~ (<<Y, X>> \in StrictSubsetOrdering(Nat))
  <2> HIDE DEF Below
  <2> QED
    BY <1>1, <1>2, WFMin
<1>4. PICK n \in S :
        \A m \in S : ~ (<<0 .. m, 0 .. n>> \in StrictSubsetOrdering(Nat))
  BY <1>3
<1>5. ASSUME NEW m \in S, m < n PROVE FALSE
  <2>1. 0 .. m \in SUBSET Nat /\ 0 .. n \in SUBSET Nat
    OBVIOUS
  <2>2. 0 .. m \subseteq 0 .. n /\ n \in 0 .. n /\ n \notin 0 .. m
    BY <1>5
  <2> QED
    BY <1>4, <2>1, <2>2 DEF StrictSubsetOrdering
<1> QED
  BY <1>4, <1>5

\* Values may be computed one from another.
Iterable(V, n, base, step) ==
  n \in Nat /\ base \in V /\ step \in [1 .. n -> [V -> V]]

LEMMA Iteration ==
  ASSUME NEW V, NEW n, NEW base, NEW step, Iterable(V, n, base, step)
  PROVE  \E f \in [0 .. n -> V] :
           f[0] = base /\ \A i \in 1 .. n : f[i] = step[i][f[i - 1]]
<1> USE DEF Iterable
<1> DEFINE Good(m, f) == /\ f[0] = base
                         /\ \A i \in 1 .. m : f[i] = step[i][f[i - 1]]
           Bad == {m \in Nat : m <= n /\ \A f \in [0 .. n -> V] : ~ Good(m, f)}
<1>1. ASSUME Bad # {} PROVE FALSE
  <2>1. PICK m \in Bad : \A k \in Bad : m <= k
    <3>1. Bad \in SUBSET Nat
      OBVIOUS
    <3> HIDE DEF Bad
    <3> QED
      BY <1>1, <3>1, LeastNatural
  <2>2. m \in Nat /\ m <= n /\ \A f \in [0 .. n -> V] : ~ Good(m, f)
    OBVIOUS
  <2>3. CASE m = 0
    <3>1. [i \in 0 .. n |-> base] \in [0 .. n -> V] /\ Good(0, [i \in 0 .. n |-> base])
      OBVIOUS
    <3> QED
      BY <2>2, <2>3, <3>1
  <2>4. CASE m # 0
    <3>1. m - 1 \in Nat /\ m - 1 <= n /\ m - 1 \notin Bad
      <4> HIDE DEF Bad
      <4> QED
        BY <2>1, <2>2, <2>4
    <3>2. PICK f \in [0 .. n -> V] : Good(m - 1, f)
      BY <3>1
    <3> DEFINE g == [f EXCEPT ![m] = step[m][f[m - 1]]]
    <3>3. m \in 1 .. n /\ m - 1 \in 0 .. n
      BY <2>2, <2>4
    <3>4. f[m - 1] \in V /\ step[m][f[m - 1]] \in V
      <4>1. f[m - 1] \in V /\ step[m] \in [V -> V]
        BY <3>3
      <4> QED
        BY <4>1
    <3>5. g \in [0 .. n -> V]
      BY <3>4
    <3>6. g[m] = step[m][f[m - 1]] /\ \A i \in 0 .. n : i # m => g[i] = f[i]
      BY <3>3
    <3>7. \A i \in 1 .. m : g[i] = step[i][g[i - 1]]
      <4> SUFFICES ASSUME NEW i \in 1 .. m
                   PROVE  g[i] = step[i][g[i - 1]]
        OBVIOUS
      <4>1. i - 1 \in 0 .. n /\ i - 1 # m /\ i \in 0 .. n
        BY <2>2
      <4>2. g[i - 1] = f[i - 1]
        BY <3>6, <4>1
      <4>3. i # m => i \in 1 .. m - 1
        BY <2>2
      <4> HIDE DEF g
      <4> QED
        BY <3>2, <3>6, <4>1, <4>2, <4>3
    <3>8. g[0] = base
      BY <2>2, <2>4, <3>2, <3>6
    <3> HIDE DEF g
    <3> QED
      BY <2>2, <3>5, <3>7, <3>8
  <2> QED
    BY <2>3, <2>4
<1>2. n \notin Bad
  <2> HIDE DEF Bad
  <2> QED
    BY <1>1
<1>3. ~ \A f \in [0 .. n -> V] : ~ Good(n, f)
  <2> HIDE DEF Good
  <2> QED
    BY <1>2
<1> QED
  BY <1>3

\* A table raises a sequence of finding types.
LEMMA RaiseType ==
  ASSUME NEW table, \A s \in DOMAIN table : table[s] \in FindingTypes,
         NEW states \in Seq(STRING)
  PROVE  Raise(table, states) \in Seq(FindingTypes)
<1> DEFINE V == Seq(FindingTypes)
           n == Len(states)
           More(i, s) == IF states[i] \in DOMAIN table
                         THEN Append(s, table[states[i]]) ELSE s
           step == [i \in 1 .. n |-> [s \in V |-> More(i, s)]]
           Value(f, i) == IF i = 0 THEN << >>
                          ELSE IF states[i] \in DOMAIN table
                          THEN Append(f[i - 1], table[states[i]]) ELSE f[i - 1]
           raised == CHOOSE f : f = [i \in 0 .. n |-> Value(f, i)]
<1>1. n \in Nat /\ << >> \in V /\ \A i \in 1 .. n, s \in V : More(i, s) \in V
  OBVIOUS
<1>2. step \in [1 .. n -> [V -> V]]
  <2> HIDE DEF More, V, n
  <2> QED
    BY <1>1
<1>3. PICK f \in [0 .. n -> V] :
        f[0] = << >> /\ \A i \in 1 .. n : f[i] = step[i][f[i - 1]]
  <2> HIDE DEF step, V, n
  <2>1. Iterable(V, n, << >>, step)
    BY <1>1, <1>2 DEF Iterable
  <2> QED
    BY <2>1, Iteration
<1>4. \A i \in 1 .. n : f[i] = More(i, f[i - 1])
  <2> SUFFICES ASSUME NEW i \in 1 .. n
               PROVE  f[i] = More(i, f[i - 1])
    OBVIOUS
  <2>1. i - 1 \in 0 .. n
    BY <1>1
  <2>2. f[i - 1] \in V
    <3> HIDE DEF V, n
    <3> QED
      BY <1>3, <2>1
  <2> HIDE DEF More, V, n
  <2> QED
    BY <1>3, <2>2
<1>5. f = [i \in 0 .. n |-> Value(f, i)]
  <2>1. ASSUME NEW i \in 0 .. n
        PROVE  f[i] = Value(f, i)
    <3>1. CASE i = 0
      BY <1>3, <3>1
    <3>2. CASE i # 0
      <4>1. i \in 1 .. n
        BY <1>1, <3>2
      <4> QED
        BY <1>4, <3>2, <4>1
    <3> QED
      BY <3>1, <3>2
  <2> HIDE DEF Value, V, n
  <2> QED
    BY <1>3, <2>1
<1>6. raised = [i \in 0 .. n |-> Value(raised, i)]
  <2> HIDE DEF Value, n
  <2> QED
    BY <1>5
<1> DEFINE Bad == {i \in 0 .. n : raised[i] \notin V}
<1>7. ASSUME Bad # {} PROVE FALSE
  <2>1. PICK i \in Bad : \A k \in Bad : i <= k
    <3>1. Bad \in SUBSET Nat
      BY <1>1
    <3> HIDE DEF Bad
    <3> QED
      BY <1>7, <3>1, LeastNatural
  <2>2. i \in 0 .. n /\ raised[i] \notin V
    OBVIOUS
  <2>3. raised[i] = Value(raised, i)
    <3> HIDE DEF Value, n, raised
    <3> QED
      BY <1>6, <2>2
  <2>4. i # 0 => i - 1 \in 0 .. n /\ raised[i - 1] \in V
    <3> HIDE DEF V, raised, n
    <3> QED
      BY <1>1, <2>1, <2>2
  <2>5. i # 0 => Value(raised, i) = More(i, raised[i - 1]) /\ i \in 1 .. n
    <3> HIDE DEF raised, n
    <3> QED
      BY <1>1, <2>2
  <2> HIDE DEF raised, n, V, More
  <2> QED
    BY <1>1, <2>2, <2>3, <2>4, <2>5
<1>8. raised[n] \in V
  <2> HIDE DEF raised, V
  <2> QED
    BY <1>1, <1>7
<1> QED
  BY <1>8 DEF Raise

\* A decision has at least one finding.
LEMMA DueType ==
  ASSUME basis \in Bases
  PROVE  Due \in Seq(FindingTypes) /\ Len(Due) \in Nat /\ Len(Due) > 0
<1>1. /\ basis.results \in Seq(STRING) /\ basis.evidence \in Seq(STRING)
  BY BasesAssumption
<1>2. Raise(TypeOfControl, basis.results) \in Seq(FindingTypes)
  <2>1. \A s \in DOMAIN TypeOfControl : TypeOfControl[s] \in FindingTypes
    BY DEF TypeOfControl, FindingTypes
  <2> QED
    BY <1>1, <2>1, RaiseType
<1>3. Raise(TypeOfEvidence, basis.evidence) \in Seq(FindingTypes)
  <2>1. \A s \in DOMAIN TypeOfEvidence : TypeOfEvidence[s] \in FindingTypes
    BY DEF TypeOfEvidence, FindingTypes
  <2> QED
    BY <1>1, <2>1, RaiseType
<1>4. Prohibition(basis) \in Seq(FindingTypes)
  <2>1. << >> \in Seq(FindingTypes) /\ "POLICY_PROHIBITION" \in FindingTypes
    BY DEF FindingTypes
  <2>2. <<"POLICY_PROHIBITION">> \in Seq(FindingTypes)
    BY <2>1
  <2> QED
    BY <2>1, <2>2, Zenon DEF Prohibition
<1>5. Specific(basis) \in Seq(FindingTypes)
  BY <1>2, <1>3, <1>4, ConcatProperties DEF Specific
<1>6. Unspecific(basis) \in FindingTypes
  BY DEF Unspecific, FindingTypes
<1> QED
  BY <1>5, <1>6, EmptySeq DEF Due, GeneratedTypes

-----------------------------------------------------------------------------
(* What a step must show *)

\* Rows stay, and with them what they say.
Grown ==
  /\ basis' = basis
  /\ Existing \subseteq Existing' /\ \A f \in Existing : kind'[f] = kind[f]
  /\ reviewed \subseteq reviewed' /\ evidence \subseteq evidence'
  /\ DOMAIN ledger \subseteq DOMAIN ledger'
  /\ \A d \in DOMAIN ledger : ledger'[d] = ledger[d]
  /\ Superseded => Superseded'

\* A step of w leaves the other calls where they are, and what they have
\* looked at as it was, or marks it as written over.
OthersStay(w) ==
  \A v \in Workers \ {w} :
    /\ pc'[v] = pc[v] /\ call'[v] = call[v] /\ made'[v] = made[v]
    /\ seen'[v] = seen[v] /\ seenLog'[v] = seenLog[v]
    /\ fresh'[v] =>
         /\ fresh[v]
         /\ pc[v] \in {"save", "validate"} => status'[call[v].f] = status[call[v].f]
         /\ pc[v] = "log" => logged'[call[v].d] = logged[call[v].d]

LEMMA FitStays ==
  ASSUME Grown, NEW f, Fit(f)
  PROVE  Fit(f)'
BY DEF Grown, Fit, Resolvable, Terminal

LEMMA DecidedStays ==
  ASSUME Grown, NEW f, NEW d, Decided(f, d)
  PROVE  Decided(f, d)'
BY DEF Grown, Decided

LEMMA OthersKnow ==
  ASSUME NEW w \in Workers, NEW v \in Workers \ {w}, Grown, OthersStay(w),
         Knows(v), Current(v)
  PROVE  Knows(v)' /\ Current(v)'
<1>1. /\ pc'[v] = pc[v] /\ call'[v] = call[v] /\ made'[v] = made[v]
      /\ seen'[v] = seen[v] /\ seenLog'[v] = seenLog[v]
  BY DEF OthersStay
<1>2. Due' = Due
  BY DEF Due, Grown
<1>3. Fit(call[v].f) => Fit(call[v].f)'
  <2>1. ASSUME NEW f, f = call[v].f, Fit(f) PROVE Fit(f)'
    BY <2>1, FitStays
  <2> QED
    BY <1>1, <2>1 DEF Fit, Resolvable, Terminal
<1>4. Decided(call[v].f, made[v]) => Decided(call[v].f, made[v])'
  BY <1>1 DEF Decided, Grown
<1>5. Harmless(call[v]) => Harmless(call[v])'
  BY <1>1 DEF Harmless, Terminal, Grown
<1>6. Knows(v)'
  BY <1>1, <1>2, <1>3, <1>4, <1>5 DEF Knows, Grown
<1>7. Current(v)'
  BY <1>1 DEF Current, OthersStay
<1> QED
  BY <1>6, <1>7

\* The calls that generate findings are where they were.
LEMMA GeneratedStays ==
  ASSUME Generated, UNCHANGED <<basis, kind>>, broken => broken',
         \A w \in Workers : /\ pc'[w] = "generate" <=> pc[w] = "generate"
                            /\ pc[w] = "generate" => made'[w] = made[w]
  PROVE  Generated'
BY DEF Generated, Due

LEMMA StepInv ==
  ASSUME IInv, NEW w \in Workers, Types', Grown, OthersStay(w),
         Knows(w)', Current(w)', Generated', RowsSound'
  PROVE  IInv'
BY OthersKnow DEF IInv

\* A step that writes none of the columns that findings and decisions rest on.
Quietly ==
  /\ UNCHANGED <<basis, findingVars, ledger, successor, logged, answered,
                 unlogged, broken>>
  /\ reviewed \subseteq reviewed' /\ evidence \subseteq evidence'

LEMMA QuietRows ==
  ASSUME RowsSound, Quietly
  PROVE  Grown /\ RowsSound'
<1>1. Grown
  BY DEF Quietly, findingVars, Grown, Existing, Superseded
<1>2. \A f : Fit(f) => Fit(f)'
  BY <1>1, FitStays
<1> QED
  BY <1>1, <1>2 DEF RowsSound, Quietly, findingVars, Decided, Superseded

LEMMA MoveInv ==
  ASSUME IInv, NEW w \in Workers, Quietly, Types',
         OthersStay(w), Knows(w)', Current(w)',
         pc[w] # "generate", pc'[w] # "generate"
  PROVE  IInv'
<1>1. Grown /\ RowsSound'
  BY QuietRows DEF IInv
<1>2. Generated'
  <2>1. UNCHANGED <<basis, kind, broken>>
    BY DEF Quietly, findingVars
  <2>2. \A v \in Workers : /\ pc'[v] = "generate" <=> pc[v] = "generate"
                           /\ pc[v] = "generate" => made'[v] = made[v]
    BY DEF OthersStay
  <2> QED
    BY <2>1, <2>2, GeneratedStays DEF IInv
<1> QED
  BY <1>1, <1>2, StepInv

-----------------------------------------------------------------------------
(* Calls *)

LEMMA NoCallType ==
  /\ NoCall \in Call
  /\ NoCall.f = Nothing /\ NoCall.want = None /\ NoCall.verdict = None
BY DEF NoCall, Call

LEMMA OnFindingType ==
  ASSUME NEW f \in Findings \cup {Nothing}, NEW from \in SUBSET FindingStatus,
         NEW want \in FindingStatus \cup {None}
  PROVE  LET c == OnFinding(f, from, want) IN
         /\ c \in Call
         /\ c.f = f /\ c.from = from /\ c.want = want /\ c.verdict = None
BY DEF OnFinding, NoCall, Call

LEMMA OnPlanType ==
  ASSUME NEW c \in Call, NEW p \in Plans \cup {Nothing},
         NEW from \in SUBSET PlanStatus, NEW want \in PlanStatus \cup {None}
  PROVE  LET e == OnPlan(c, p, from, want) IN
         /\ e \in Call
         /\ e.f = c.f /\ e.from = c.from /\ e.want = c.want
         /\ e.verdict = c.verdict
BY DEF OnPlan, Call

LEMMA CallbackType ==
  ASSUME NEW c \in Call, NEW d \in Dispatches
  PROVE  LET e == [c EXCEPT !.d = d] IN
         e \in Call /\ e.f = c.f /\ e.from = c.from /\ e.want = c.want /\ e.d = d
BY DEF Call

LEMMA VerdictType ==
  ASSUME NEW c \in Call, NEW verdict \in ValidationOutcome
  PROVE  LET e == [c EXCEPT !.verdict = verdict] IN
         e \in Call /\ e.f = c.f /\ e.want = c.want /\ e.verdict = verdict
BY DEF Call

LEMMA MirrorType ==
  ASSUME NEW f \in Findings, NEW reported
  PROVE  Mirror(f, reported) \in Call /\ Harmless(Mirror(f, reported))
<1>1. CASE reported = "BLOCKED"
  BY <1>1, OnFindingType DEF Mirror, Harmless, FindingStatus
<1>2. CASE reported \in {"IN_PROGRESS", "DISPATCHED", "RECEIVED"}
  BY <1>2, OnFindingType DEF Mirror, Harmless, FindingStatus
<1>3. CASE reported \notin {"BLOCKED", "IN_PROGRESS", "DISPATCHED", "RECEIVED"}
  <2>1. Mirror(f, reported) = [NoCall EXCEPT !.f = f]
    BY <1>3 DEF Mirror
  <2>2. [NoCall EXCEPT !.f = f] \in Call /\ [NoCall EXCEPT !.f = f].want = None
    BY DEF NoCall, Call
  <2>3. None # "TERMINATED"
    BY DEF None
  <2> QED
    BY <2>1, <2>2, <2>3 DEF Harmless
<1> QED
  BY <1>1, <1>2, <1>3

LEMMA RowTypes ==
  ASSUME Types
  PROVE  /\ Existing \subseteq Findings /\ Nothing \notin Findings
         /\ \A p \in DOMAIN plans : p \in Plans /\ plans[p].finding \in Findings
         /\ \A d \in DOMAIN sent : /\ d \in Dispatches /\ sent[d].finding \in Findings
                                   /\ sent[d].plan \in Plans \cup {Nothing}
<1>1. {MaxFindings, MaxPlans, MaxDispatches} \subseteq Nat
  BY BoundsAssumption
<1>2. Existing \subseteq Findings /\ Nothing \notin Findings
  BY <1>1 DEF Types, TableTypes, CopyTypes, Existing, Findings, Nothing
<1>3. \A p \in DOMAIN plans : p \in Plans /\ plans[p].finding \in Findings
  <2>1. /\ Len(plans) \in Nat /\ DOMAIN plans = 1 .. Len(plans)
        /\ Len(plans) <= MaxPlans
        /\ \A p \in DOMAIN plans : plans[p] \in PlanRows
    BY DEF Types, TableTypes
  <2> QED
    BY <1>1, <2>1 DEF Plans, PlanRows
<1>4. \A d \in DOMAIN sent : /\ d \in Dispatches /\ sent[d].finding \in Findings
                             /\ sent[d].plan \in Plans \cup {Nothing}
  <2>1. /\ Len(sent) \in Nat /\ DOMAIN sent = 1 .. Len(sent)
        /\ Len(sent) <= MaxDispatches
        /\ \A d \in DOMAIN sent : sent[d] \in DispatchRows
    BY DEF Types, TableTypes
  <2> QED
    BY <1>1, <2>1 DEF Dispatches, DispatchRows
<1> QED
  BY <1>2, <1>3, <1>4

LEMMA LatestPlanType ==
  ASSUME Types, NEW f
  PROVE  LatestPlan(f) \in Plans \cup {Nothing}
<1>1. CASE PlansFor(f) = {}
  BY <1>1 DEF LatestPlan
<1>2. CASE PlansFor(f) # {}
  <2>1. /\ Len(plans) \in Nat /\ MaxPlans \in Nat /\ Len(plans) <= MaxPlans
        /\ PlansFor(f) \subseteq 1 .. Len(plans)
    BY BoundsAssumption DEF Types, TableTypes, CopyTypes, PlansFor
  <2> DEFINE S == {Len(plans) - p : p \in PlansFor(f)}
  <2>2. S \in SUBSET Nat /\ S # {}
    BY <1>2, <2>1
  <2>3. PICK n \in S : \A m \in S : n <= m
    <3> HIDE DEF S
    <3> QED
      BY <2>2, LeastNatural
  <2>4. PICK p \in PlansFor(f) : n = Len(plans) - p
    OBVIOUS
  <2>5. \A q \in PlansFor(f) : p >= q
    <3> SUFFICES ASSUME NEW q \in PlansFor(f) PROVE p >= q
      OBVIOUS
    <3>1. n <= Len(plans) - q
      BY <2>3
    <3> QED
      BY <2>1, <2>4, <3>1
  <2>6. LatestPlan(f) \in PlansFor(f)
    BY <1>2, <2>5 DEF LatestPlan
  <2> QED
    BY <2>1, <2>6 DEF Plans
<1> QED
  BY <1>1, <1>2

-----------------------------------------------------------------------------
(* Steps that begin a call, look, or write a plan or a dispatch *)

\* A session that has nothing to show for its copies.
LEMMA BeginInv ==
  ASSUME IInv, NEW w \in Workers, NEW c \in Call,
         NEW stage \in {"look", "lookPlan", "savePlan", "callback", "approve", "idle"},
         Begin(w, c, stage), Quietly, TableTypes', CopyTypes',
         UNCHANGED <<made, seenLog>>,
         \A v \in Workers \ {w} : seen'[v] = seen[v] /\ fresh'[v] = fresh[v],
         stage = "look" => c.want # None,
         stage \in {"look", "lookPlan", "savePlan", "callback"} => Harmless(c)',
         stage = "callback" => c.d \in Dispatches,
         stage = "approve" => Fit(c.f)'
  PROVE  IInv'
<1>1. /\ pc[w] = "idle" /\ pc'[w] = stage /\ call'[w] = c /\ made'[w] = 0
      /\ \A v \in Workers \ {w} : pc'[v] = pc[v] /\ call'[v] = call[v]
  BY DEF IInv, Types, TableTypes, CopyTypes, Knows, Begin
<1>2. Knows(w)'
  BY <1>1 DEF Knows
<1>3. Current(w)'
  BY <1>1 DEF Current
<1>4. OthersStay(w)
  BY <1>1 DEF OthersStay, Quietly, findingVars
<1>5. Types'
  BY DEF IInv, Types, Begin, Quietly, Stages
<1> QED
  BY <1>1, <1>2, <1>3, <1>4, <1>5, MoveInv

LEMMA AssignInv ==
  ASSUME IInv, NEW w \in Workers, NEW f \in Existing, Assign(w, f)
  PROVE  IInv'
<1>1. Types /\ f \in Findings
  BY RowTypes DEF IInv
<1>2. PICK c \in Call : /\ c = OnFinding(f, {"OPEN"}, "ASSIGNED")
                        /\ c.f = f /\ c.want = "ASSIGNED" /\ c.from = {"OPEN"}
  BY <1>1, OnFindingType DEF FindingStatus
<1>3. Begin(w, c, "look") /\ UNCHANGED <<tables, copyVars, made, fresh, historyVars>>
  BY <1>2 DEF Assign
<1>4. TableTypes' /\ CopyTypes' /\ Quietly /\ UNCHANGED <<made, seen, seenLog, fresh>>
  BY <1>1, <1>3 DEF Types, TableTypes, CopyTypes, Begin, tables, findingVars, planVars, syncVars,
     proofVars, ledgerVars, copyVars, historyVars, Stages, Quietly
<1>5. Harmless(c)' /\ c.want # None
  BY <1>1, <1>2 DEF Harmless, None
<1> QED
  BY <1>3, <1>4, <1>5, BeginInv

LEMMA CreatePlanInv ==
  ASSUME IInv, NEW w \in Workers, NEW f \in Existing, NEW required \in BOOLEAN,
         CreatePlan(w, f, required)
  PROVE  IInv'
<1>1. Types /\ f \in Findings
  BY RowTypes DEF IInv
<1>2. PICK c \in Call : /\ c = OnFinding(f, {"OPEN", "ASSIGNED"}, "IN_PROGRESS")
                        /\ c.f = f /\ c.want = "IN_PROGRESS"
                        /\ c.from = {"OPEN", "ASSIGNED"}
  BY <1>1, OnFindingType DEF FindingStatus
<1>3. Begin(w, c, "look") /\ Quietly /\ UNCHANGED <<made, seen, seenLog, fresh>>
  BY <1>2 DEF CreatePlan, Quietly, findingVars, syncVars, proofVars, ledgerVars,
     copyVars, historyVars
<1>4. TableTypes' /\ CopyTypes'
  <2>1. /\ plans' \in Seq(PlanRows)
        /\ Len(plans') <= MaxPlans
    <3>1. [finding |-> f, mandatory |-> required] \in PlanRows
      BY <1>1 DEF PlanRows
    <3> QED
      BY <1>1, <3>1, BoundsAssumption DEF CreatePlan, Types, TableTypes
  <2> QED
    BY <1>1, <1>3, <2>1 DEF CreatePlan, Types, TableTypes, CopyTypes, Begin, findingVars,
       syncVars, ledgerVars, copyVars, historyVars, Stages
<1>5. Harmless(c)' /\ c.want # None
  BY <1>1, <1>2 DEF Harmless, None
<1> QED
  BY <1>3, <1>4, <1>5, BeginInv

LEMMA UpdateStatusInv ==
  ASSUME IInv, NEW w \in Workers, NEW p \in DOMAIN plans, NEW to \in PlanStatus,
         UpdateStatus(w, p, to)
  PROVE  IInv'
<1>1. Types /\ plans[p].finding \in Findings /\ p \in Plans
  BY RowTypes DEF IInv
<1>2. PICK m \in Call : m = Mirror(plans[p].finding, to) /\ Harmless(m)
  BY <1>1, MirrorType
<1>3. PICK c \in Call : /\ c = OnPlan(m, p, PlanStatus, to)
                        /\ c.f = m.f /\ c.want = m.want /\ c.from = m.from
  BY <1>1, OnPlanType
<1>4. /\ Begin(w, c, "savePlan") /\ Copy(w, progress[p])
      /\ UNCHANGED <<tables, seenOutcome, seenLog, made, historyVars>>
  BY <1>2, <1>3 DEF UpdateStatus
<1>5. Quietly /\ Harmless(c)'
  BY <1>2, <1>3, <1>4 DEF Quietly, tables, findingVars, syncVars, proofVars,
     ledgerVars, historyVars, Harmless, Existing, Terminal
<1>6. TableTypes' /\ CopyTypes' /\ \A v \in Workers \ {w} : seen'[v] = seen[v] /\ fresh'[v] = fresh[v]
  <2>1. progress[p] \in PlanStatus \cup {None}
    BY <1>1 DEF Types, TableTypes, CopyTypes
  <2> QED
    BY <1>1, <1>4, <2>1 DEF Types, TableTypes, CopyTypes, Begin, Copy, tables, findingVars,
       planVars, syncVars, proofVars, ledgerVars, historyVars, Stages
<1> QED
  BY <1>4, <1>5, <1>6, BeginInv

LEMMA DispatchInv ==
  ASSUME IInv, NEW w \in Workers, NEW f \in Existing,
         NEW p \in DOMAIN plans \cup {Nothing}, NEW accepted \in BOOLEAN,
         Dispatch(w, f, p, accepted)
  PROVE  IInv'
<1>1. Types /\ f \in Findings /\ p \in Plans \cup {Nothing}
  BY RowTypes DEF IInv
<1>2. PICK m \in Call : /\ m = OnFinding(f, {"OPEN", "ASSIGNED"}, "IN_PROGRESS")
                        /\ m.f = f /\ m.want = "IN_PROGRESS"
                        /\ m.from = {"OPEN", "ASSIGNED"}
  BY <1>1, OnFindingType DEF FindingStatus
<1>3. PICK c \in Call : /\ c = OnPlan(m, p, PlanStatus \ TerminalPlanStates, "DISPATCHED")
                        /\ c.f = f /\ c.want = "IN_PROGRESS"
                        /\ c.from = {"OPEN", "ASSIGNED"}
  <2>1. PlanStatus \ TerminalPlanStates \in SUBSET PlanStatus /\ "DISPATCHED" \in PlanStatus
    BY DEF PlanStatus
  <2> QED
    BY <1>1, <1>2, <2>1, OnPlanType
<1>4. Quietly /\ UNCHANGED <<made, seen, seenLog, fresh>>
  BY DEF Dispatch, Quietly, findingVars, syncVars, proofVars, ledgerVars,
     copyVars, historyVars
<1>5. /\ sent' \in Seq(DispatchRows)
      /\ Len(sent') <= MaxDispatches
  <2>1. [finding |-> f, plan |-> p] \in DispatchRows
    BY <1>1 DEF DispatchRows
  <2> QED
    BY <1>1, <2>1, BoundsAssumption DEF Dispatch, Types, TableTypes
<1>6. TableTypes' /\ CopyTypes'
  BY <1>1, <1>4, <1>5 DEF Dispatch, Types, TableTypes, CopyTypes, Begin, findingVars, planVars,
     ledgerVars, copyVars, historyVars, Stages
<1>7. CASE ~ accepted
  <2>1. Begin(w, NoCall, "idle")
    BY <1>7 DEF Dispatch
  <2> QED
    BY <1>4, <1>6, <2>1, NoCallType, BeginInv
<1>8. CASE accepted
  <2>1. PICK stage \in {"look", "lookPlan"} : Begin(w, c, stage)
    BY <1>2, <1>3, <1>8 DEF Dispatch
  <2>2. Harmless(c)' /\ c.want # None
    BY <1>1, <1>3 DEF Harmless, None
  <2> QED
    BY <1>4, <1>6, <2>1, <2>2, BeginInv
<1> QED
  BY <1>7, <1>8

LEMMA CallbackInv ==
  ASSUME IInv, NEW w \in Workers, NEW d \in DOMAIN sent, NEW reported,
         NEW items \in SUBSET BOOLEAN, Callback(w, d, reported, items)
  PROVE  IInv'
<1>1. /\ Types /\ d \in Dispatches /\ sent[d].finding \in Findings
      /\ sent[d].plan \in Plans \cup {Nothing}
  BY RowTypes DEF IInv
<1>2. PICK m \in Call : m = Mirror(sent[d].finding, reported) /\ Harmless(m)
  BY <1>1, MirrorType
<1>3. PICK e \in Call :
        /\ e = IF reported = "COMPLETED" /\ sent[d].plan # Nothing
               THEN OnPlan(m, sent[d].plan, PlanStatus \ TerminalPlanStates,
                           "REMEDIATION_COMPLETE")
               ELSE m
        /\ e.f = m.f /\ e.want = m.want /\ e.from = m.from
  <2>1. /\ PlanStatus \ TerminalPlanStates \in SUBSET PlanStatus
        /\ "REMEDIATION_COMPLETE" \in PlanStatus
    BY DEF PlanStatus
  <2> QED
    BY <1>1, <2>1, OnPlanType
<1>4. PICK c \in Call : /\ c = [e EXCEPT !.d = d]
                        /\ c.f = m.f /\ c.want = m.want /\ c.from = m.from
                        /\ c.d = d
  <2>1. LET x == [e EXCEPT !.d = d] IN
        /\ x \in Call /\ x.f = e.f /\ x.want = e.want /\ x.from = e.from
        /\ x.d = d
    BY <1>1, CallbackType
  <2> QED
    BY <1>3, <2>1
<1>5. Begin(w, c, "callback")
  BY <1>2, <1>3, <1>4 DEF Callback
<1>6. Quietly /\ UNCHANGED <<made, seen, seenLog, fresh>>
  BY DEF Callback, Quietly, findingVars, syncVars, proofVars, ledgerVars,
     copyVars, historyVars
<1>7. Harmless(c)'
  BY <1>2, <1>4, <1>6 DEF Harmless, Quietly, findingVars, Existing, Terminal
<1>8. TableTypes' /\ CopyTypes'
  BY <1>1, <1>5, <1>6 DEF Callback, Types, TableTypes, CopyTypes, Begin, findingVars, planVars,
     syncVars, ledgerVars, copyVars, historyVars, Stages
<1> QED
  BY <1>1, <1>4, <1>5, <1>6, <1>7, <1>8, BeginInv

LEMMA TriggerInv ==
  ASSUME IInv, NEW w \in Workers, NEW f \in Existing,
         TriggerTerminal(w, f) \/ Trigger(w, f)
  PROVE  IInv'
<1>1. Types /\ f \in Findings /\ f # Nothing
  BY RowTypes DEF IInv
<1>2. UNCHANGED <<tables, copyVars, made, fresh, historyVars>>
  BY DEF TriggerTerminal, Trigger
<1>3. Quietly /\ UNCHANGED <<made, seen, seenLog, fresh>>
  BY <1>2 DEF Quietly, tables, findingVars, syncVars, proofVars, ledgerVars,
     copyVars, historyVars
<1>4. TableTypes' /\ CopyTypes'
  BY <1>1, <1>2 DEF Types, TableTypes, CopyTypes, Begin, tables, findingVars, planVars, syncVars,
     ledgerVars, copyVars, historyVars, Stages
<1>5. CASE TriggerTerminal(w, f)
  <2>1. PICK c \in Call : /\ c = OnFinding(f, FindingStatus, "TERMINATED")
                          /\ c.want = "TERMINATED" /\ c.f = f
    BY <1>1, OnFindingType DEF FindingStatus
  <2>2. Begin(w, c, "look") /\ Terminal(f)
    BY <1>5, <2>1 DEF TriggerTerminal
  <2>3. Harmless(c)' /\ c.want # None
    BY <1>1, <1>2, <2>1, <2>2 DEF Harmless, tables, findingVars, Existing, Terminal, None
  <2> QED
    BY <1>3, <1>4, <2>2, <2>3, BeginInv
<1>6. CASE Trigger(w, f)
  <2>1. PICK c \in Call : c = [NoCall EXCEPT !.f = f] /\ c.f = f
    <3>1. [NoCall EXCEPT !.f = f] \in Call /\ [NoCall EXCEPT !.f = f].f = f
      BY <1>1 DEF NoCall, Call
    <3> QED
      BY <3>1
  <2>2. Begin(w, c, "approve") /\ Fit(f)
    BY <1>1, <1>6, <2>1 DEF Trigger, IInv, RowsSound
  <2>3. Fit(c.f)'
    BY <1>2, <2>1, <2>2 DEF Fit, tables, findingVars, proofVars, Existing, Resolvable, Terminal
  <2> QED
    BY <1>3, <1>4, <2>2, <2>3, BeginInv
<1> QED
  BY <1>5, <1>6

-----------------------------------------------------------------------------
(* Steps in the middle of a call *)

LEMMA GotoTypes ==
  ASSUME Types, NEW w \in Workers, NEW stage \in Stages, Goto(w, stage)
  PROVE  /\ pc' \in [Workers -> Stages] /\ call' \in [Workers -> Call]
         /\ made' \in [Workers -> Nat]
         /\ pc'[w] = stage
         /\ stage = "idle" => made'[w] = 0
         /\ stage # "idle" => call'[w] = call[w] /\ made'[w] = made[w]
         /\ \A v \in Workers \ {w} :
              pc'[v] = pc[v] /\ call'[v] = call[v] /\ made'[v] = made[v]
BY NoCallType DEF Goto, Types

\* The call goes on to a look or a save, or ends.
LEMMA GoOnInv ==
  ASSUME IInv, NEW w \in Workers, Quietly, TableTypes', CopyTypes',
         NEW stage \in {"lookPlan", "savePlan", "look", "save", "log", "idle"},
         Goto(w, stage), pc[w] # "generate",
         \A v \in Workers \ {w} :
           seen'[v] = seen[v] /\ seenLog'[v] = seenLog[v] /\ fresh'[v] = fresh[v],
         stage # "idle" => Harmless(call[w]) /\ made[w] = 0,
         stage \in {"look", "save"} => call[w].want # None,
         stage = "save" =>
           seen'[w] \in call[w].from /\ seen'[w] = status[call[w].f],
         stage = "log" =>
           call[w].d \in Dispatches /\ seenLog'[w] = logged[call[w].d]
  PROVE  IInv'
<1>1. stage \in Stages /\ Types
  BY DEF Stages, IInv
<1>2. Types'
  BY <1>1, GotoTypes DEF Types, Quietly
<1>3. OthersStay(w)
  BY <1>1, GotoTypes DEF OthersStay, Quietly, findingVars
<1>4. stage # "idle" => Harmless(call[w])'
  BY <1>1, GotoTypes DEF Harmless, Quietly, findingVars, Existing, Terminal
<1>5. Knows(w)'
  BY <1>1, <1>4, GotoTypes DEF Knows
<1>6. Current(w)'
  BY <1>1, GotoTypes DEF Current, Quietly, findingVars
<1>7. pc'[w] # "generate"
  BY <1>1, GotoTypes
<1> QED
  BY <1>2, <1>3, <1>5, <1>6, <1>7, MoveInv

LEMMA LookPlanInv ==
  ASSUME IInv, NEW w \in Workers, LookPlan(w)
  PROVE  IInv'
<1>1. Types /\ Knows(w) /\ pc[w] = "lookPlan"
  BY DEF IInv, LookPlan
<1>2. Harmless(call[w]) /\ made[w] = 0
  BY <1>1 DEF Knows
<1>3. Quietly /\ seenLog' = seenLog
  BY DEF LookPlan, Quietly, tables, findingVars, syncVars, proofVars, ledgerVars,
     historyVars
<1>4. CASE progress[call[w].p] \in call[w].planFrom
  <2>1. Copy(w, progress[call[w].p]) /\ Goto(w, "savePlan")
    BY <1>4 DEF LookPlan
  <2>2. progress[call[w].p] \in PlanStatus \cup {None}
    BY <1>1, <1>4 DEF Types, Call
  <2>3. TableTypes' /\ CopyTypes'
    BY <1>1, <2>1, <2>2 DEF Types, TableTypes, CopyTypes, LookPlan, Copy, tables,
       findingVars, planVars, syncVars, ledgerVars
  <2>4. \A v \in Workers \ {w} :
          seen'[v] = seen[v] /\ seenLog'[v] = seenLog[v] /\ fresh'[v] = fresh[v]
    BY <1>1, <1>3, <2>1 DEF Copy, Types, CopyTypes
  <2> QED
    BY <1>1, <1>2, <1>3, <2>1, <2>3, <2>4, GoOnInv
<1>5. CASE progress[call[w].p] \notin call[w].planFrom
  <2>1. Goto(w, AfterPlan(w)) /\ UNCHANGED <<seen, fresh, seenLog, seenOutcome>>
    BY <1>5 DEF LookPlan
  <2>2. PICK stage \in {"look", "idle"} :
          Goto(w, stage) /\ (stage = "look" => call[w].want # None)
    BY <2>1 DEF AfterPlan
  <2>3. TableTypes' /\ CopyTypes'
    BY <1>1, <2>1 DEF Types, TableTypes, CopyTypes, LookPlan, tables,
       findingVars, planVars, syncVars, ledgerVars
  <2> QED
    BY <1>1, <1>2, <1>3, <2>1, <2>2, <2>3, GoOnInv
<1> QED
  BY <1>4, <1>5

LEMMA SavePlanInv ==
  ASSUME IInv, NEW w \in Workers, SavePlan(w)
  PROVE  IInv'
<1>1. Types /\ Knows(w) /\ pc[w] = "savePlan"
  BY DEF IInv, SavePlan
<1>2. Harmless(call[w]) /\ made[w] = 0
  BY <1>1 DEF Knows
<1>3. Quietly /\ fresh' = fresh /\ Forget(w)
  BY DEF SavePlan, Quietly, findingVars, syncVars, proofVars, ledgerVars,
     historyVars
<1>4. PICK stage \in {"look", "idle"} :
        Goto(w, stage) /\ (stage = "look" => call[w].want # None)
  BY DEF SavePlan, AfterPlan
<1>5. progress' \in [Plans -> PlanStatus \cup {None}]
  BY <1>1 DEF SavePlan, Types, TableTypes, Call, Put
<1>6. TableTypes' /\ CopyTypes'
  BY <1>1, <1>3, <1>5 DEF Types, TableTypes, CopyTypes, SavePlan, Forget,
     findingVars, syncVars, ledgerVars
<1>7. \A v \in Workers \ {w} :
        seen'[v] = seen[v] /\ seenLog'[v] = seenLog[v] /\ fresh'[v] = fresh[v]
  BY <1>1, <1>3 DEF Forget, Types, CopyTypes
<1> QED
  BY <1>1, <1>2, <1>3, <1>4, <1>6, <1>7, GoOnInv

LEMMA LookInv ==
  ASSUME IInv, NEW w \in Workers, Look(w)
  PROVE  IInv'
<1>1. Types /\ Knows(w) /\ pc[w] = "look"
  BY DEF IInv, Look
<1>2. Harmless(call[w]) /\ made[w] = 0 /\ call[w].want # None
  BY <1>1 DEF Knows
<1>3. Quietly /\ seenLog' = seenLog
  BY DEF Look, Quietly, tables, findingVars, syncVars, proofVars, ledgerVars,
     historyVars
<1>4. CASE status[call[w].f] \in call[w].from
  <2>1. Copy(w, status[call[w].f]) /\ Goto(w, "save")
    BY <1>4 DEF Look
  <2>2. status[call[w].f] \in FindingStatus
    BY <1>1, <1>4 DEF Types, Call
  <2>3. TableTypes' /\ CopyTypes'
    BY <1>1, <2>1, <2>2 DEF Types, TableTypes, CopyTypes, Look, Copy, tables,
       findingVars, planVars, syncVars, ledgerVars
  <2>4. /\ seen'[w] = status[call[w].f]
        /\ \A v \in Workers \ {w} :
             seen'[v] = seen[v] /\ seenLog'[v] = seenLog[v] /\ fresh'[v] = fresh[v]
    BY <1>1, <1>3, <2>1 DEF Copy, Types, CopyTypes
  <2> QED
    BY <1>1, <1>2, <1>3, <1>4, <2>1, <2>3, <2>4, GoOnInv
<1>5. CASE status[call[w].f] \notin call[w].from
  <2>1. Goto(w, "idle") /\ UNCHANGED <<seen, fresh, seenLog, seenOutcome>>
    BY <1>5 DEF Look
  <2>2. TableTypes' /\ CopyTypes'
    BY <1>1, <2>1 DEF Types, TableTypes, CopyTypes, Look, tables,
       findingVars, planVars, syncVars, ledgerVars
  <2> QED
    BY <1>1, <1>3, <2>1, <2>2, GoOnInv
<1> QED
  BY <1>4, <1>5

LEMMA CallbackLoadInv ==
  ASSUME IInv, NEW w \in Workers, CallbackLoad(w)
  PROVE  IInv'
<1>1. Types /\ Knows(w) /\ pc[w] = "callback"
  BY DEF IInv, CallbackLoad
<1>2. Harmless(call[w]) /\ made[w] = 0 /\ call[w].d \in Dispatches
  BY <1>1 DEF Knows
<1>3. Quietly /\ Goto(w, "log")
  BY DEF CallbackLoad, Quietly, tables, findingVars, syncVars, proofVars,
     ledgerVars, historyVars
<1>4. /\ seenLog'[w] = logged[call[w].d]
      /\ \A v \in Workers \ {w} :
           seen'[v] = seen[v] /\ seenLog'[v] = seenLog[v] /\ fresh'[v] = fresh[v]
  BY <1>1 DEF CallbackLoad, Types, CopyTypes
<1>5. TableTypes' /\ CopyTypes'
  BY <1>1, <1>2 DEF Types, TableTypes, CopyTypes, CallbackLoad, tables,
     findingVars, planVars, syncVars, ledgerVars
<1> QED
  BY <1>1, <1>2, <1>3, <1>4, <1>5, GoOnInv

LEMMA CallbackLogInv ==
  ASSUME IInv, NEW w \in Workers, CallbackLog(w)
  PROVE  IInv'
<1> DEFINE d == call[w].d
<1>1. Types /\ Knows(w) /\ Current(w) /\ pc[w] = "log" /\ d \in Dispatches
  BY DEF IInv, CallbackLog, Knows
<1>2. Harmless(call[w]) /\ made[w] = 0
  BY <1>1 DEF Knows
<1>3. PICK stage \in {"look", "lookPlan", "idle"} :
        Goto(w, stage) /\ (stage = "look" => call[w].want # None)
  BY DEF CallbackLog, AfterLog
<1>4. stage \in Stages
  BY DEF Stages
<1>5. Types'
  <2>1. fresh' \in [Workers -> BOOLEAN]
    BY <1>1 DEF CallbackLog, OutdateLog, Types, CopyTypes
  <2>2. /\ logged' \in [Dispatches -> Nat] /\ answered' \in [Dispatches -> Nat]
    BY <1>1 DEF CallbackLog, Types, TableTypes, CopyTypes
  <2> QED
    BY <1>1, <1>3, <1>4, <2>1, <2>2, GotoTypes DEF CallbackLog, Types, TableTypes,
       CopyTypes, Forget, findingVars, planVars, ledgerVars
<1>6. Grown
  BY DEF CallbackLog, Grown, findingVars, proofVars, ledgerVars, Existing, Superseded
<1>7. OthersStay(w)
  <2> SUFFICES ASSUME NEW v \in Workers \ {w}
               PROVE  /\ seen'[v] = seen[v] /\ seenLog'[v] = seenLog[v]
                      /\ fresh'[v] =>
                           /\ fresh[v] /\ status' = status
                           /\ pc[v] = "log" => logged'[call[v].d] = logged[call[v].d]
    BY <1>1, <1>3, <1>4, GotoTypes DEF OthersStay
  <2>1. seen'[v] = seen[v] /\ seenLog'[v] = seenLog[v] /\ status' = status
    BY <1>1 DEF CallbackLog, Forget, Types, CopyTypes, findingVars
  <2>2. ASSUME fresh'[v]
        PROVE  fresh[v] /\ (pc[v] = "log" => call[v].d # d)
    BY <2>2 DEF CallbackLog, OutdateLog
  <2>3. pc[v] = "log" => call[v].d \in Dispatches
    BY DEF IInv, Knows
  <2>4. \A e \in Dispatches \ {d} : logged'[e] = logged[e]
    BY <1>1 DEF CallbackLog, Types, TableTypes
  <2> QED
    BY <2>1, <2>2, <2>3, <2>4
<1>8. Knows(w)'
  <2>1. stage # "idle" => Harmless(call[w])'
    BY <1>1, <1>2, <1>3, <1>4, GotoTypes DEF Harmless, CallbackLog, findingVars,
       Existing, Terminal
  <2> QED
    BY <1>1, <1>2, <1>3, <1>4, <2>1, GotoTypes DEF Knows
<1>9. Current(w)'
  BY <1>1, <1>3, <1>4, GotoTypes DEF Current
<1>10. Generated'
  <2>1. UNCHANGED <<basis, kind, broken>>
    BY DEF CallbackLog, findingVars
  <2>2. \A v \in Workers : /\ pc'[v] = "generate" <=> pc[v] = "generate"
                           /\ pc[v] = "generate" => made'[v] = made[v]
    BY <1>1, <1>3, <1>4, GotoTypes
  <2> QED
    BY <2>1, <2>2, GeneratedStays DEF IInv
<1>11. RowsSound'
  <2>1. ASSUME NEW e \in Dispatches
        PROVE  logged'[e] = answered'[e] \/ e \in unlogged'
    <3>1. e # d => UNCHANGED <<logged[e], answered[e]>> /\ (e \in unlogged => e \in unlogged')
      BY <1>1 DEF CallbackLog, Types, TableTypes
    <3>2. CASE fresh[w]
      <4>1. /\ logged'[d] = logged[d] + 1 /\ answered'[d] = answered[d] + 1
            /\ unlogged' = unlogged
        BY <1>1, <3>2 DEF CallbackLog, Types, TableTypes, Current
      <4> QED
        BY <3>1, <4>1 DEF IInv, RowsSound
    <3>3. CASE ~ fresh[w]
      <4>1. d \in unlogged'
        BY <3>3 DEF CallbackLog
      <4> QED
        BY <3>1, <4>1 DEF IInv, RowsSound
    <3> QED
      BY <3>2, <3>3
  <2> QED
    BY <2>1 DEF IInv, RowsSound, CallbackLog, findingVars, proofVars, ledgerVars,
       Fit, Existing, Resolvable, Terminal, Decided, Superseded
<1> QED
  BY <1>5, <1>6, <1>7, <1>8, <1>9, <1>10, <1>11, StepInv

-----------------------------------------------------------------------------
(* Steps that write a finding *)

\* The others have not looked at the finding, or no longer count as fresh.
LEMMA OutdateStays ==
  ASSUME IInv, NEW w \in Workers, NEW f \in Findings, Outdate(w, f),
         \A x \in Findings \ {f} : status'[x] = status[x],
         \A v \in Workers \ {w} :
           /\ pc'[v] = pc[v] /\ call'[v] = call[v] /\ made'[v] = made[v]
           /\ seen'[v] = seen[v] /\ seenLog'[v] = seenLog[v],
         logged' = logged
  PROVE  OthersStay(w)
<1> SUFFICES ASSUME NEW v \in Workers \ {w}, fresh'[v]
             PROVE  /\ fresh[v]
                    /\ pc[v] \in {"save", "validate"} =>
                         status'[call[v].f] = status[call[v].f]
  BY DEF OthersStay
<1>1. fresh[v] /\ (pc[v] \in {"save", "validate"} => call[v].f # f)
  BY DEF Outdate
<1>2. pc[v] \in {"save", "validate"} => call[v].f \in Findings
  <2>1. Knows(v)
    BY DEF IInv
  <2> QED
    BY <2>1 DEF Knows, Harmless
<1> QED
  BY <1>1, <1>2

LEMMA SaveInv ==
  ASSUME IInv, NEW w \in Workers, Save(w)
  PROVE  IInv'
<1> DEFINE f == call[w].f
<1>1. Types /\ Knows(w) /\ pc[w] = "save"
  BY DEF IInv, Save
<1>2. /\ f \in Findings /\ made[w] = 0
      /\ call[w].want \in {"ASSIGNED", "IN_PROGRESS", "BLOCKED", "TERMINATED"}
  BY <1>1 DEF Knows, Harmless
<1>3. PICK stage \in {"terminate", "idle"} : Goto(w, stage)
  BY DEF Save
<1>4. stage \in Stages
  BY DEF Stages
<1>5. /\ \A x \in Findings \ {f} : status'[x] = status[x]
      /\ status'[f] = status[f] \/ status'[f] = call[w].want
      /\ status' \in [Findings -> FindingStatus]
  BY <1>1, <1>2 DEF Save, Put, Types, TableTypes, FindingStatus
<1>6. Types'
  <2>1. fresh' \in [Workers -> BOOLEAN]
    BY <1>1 DEF Save, Outdate, Types, CopyTypes
  <2> QED
    BY <1>1, <1>3, <1>4, <1>5, <2>1, GotoTypes DEF Save, Types, TableTypes,
       CopyTypes, Forget, planVars, syncVars, ledgerVars
<1>7. Grown
  BY DEF Save, Grown, proofVars, ledgerVars, Existing, Superseded
<1>8. OthersStay(w)
  <2>1. \A v \in Workers \ {w} :
          /\ pc'[v] = pc[v] /\ call'[v] = call[v] /\ made'[v] = made[v]
          /\ seen'[v] = seen[v] /\ seenLog'[v] = seenLog[v]
    BY <1>1, <1>3, <1>4, GotoTypes DEF Save, Forget, Types, CopyTypes
  <2>2. Outdate(w, f) /\ logged' = logged
    BY DEF Save, syncVars
  <2> QED
    BY <1>2, <1>5, <2>1, <2>2, OutdateStays
<1>9. Knows(w)' /\ Current(w)'
  BY <1>1, <1>2, <1>3, <1>4, GotoTypes DEF Knows, Current
<1>10. Generated'
  <2>1. UNCHANGED <<basis, kind, broken>>
    BY DEF Save
  <2>2. \A v \in Workers : /\ pc'[v] = "generate" <=> pc[v] = "generate"
                           /\ pc[v] = "generate" => made'[v] = made[v]
    BY <1>1, <1>3, <1>4, GotoTypes
  <2> QED
    BY <2>1, <2>2, GeneratedStays DEF IInv
<1>11. RowsSound'
  <2>1. \A x \in Findings : status'[x] = "CLOSED" => status[x] = "CLOSED"
    BY <1>2, <1>5
  <2> QED
    BY <2>1 DEF IInv, RowsSound, Save, syncVars, proofVars, ledgerVars,
       Fit, Existing, Resolvable, Terminal, Decided, Superseded
<1> QED
  BY <1>6, <1>7, <1>8, <1>9, <1>10, <1>11, StepInv

\* A verdict is well-founded when it is reached.
LEMMA VerdictFit ==
  ASSUME NEW f \in Existing, Verdict(f) = "VALIDATED"
  PROVE  Fit(f)
BY DEF Verdict, Demonstrated, Fit

LEMMA ValidateInv ==
  ASSUME IInv, NEW w \in Workers, NEW f \in Existing, Validate(w, f)
  PROVE  IInv'
<1>1. Types /\ f \in Findings
  BY RowTypes DEF IInv
<1> DEFINE want == StatusFor(f, status[f])
           p == IF Resolvable(f) THEN LatestPlan(f) ELSE Nothing
<1>2. /\ want \in FindingStatus /\ Verdict(f) \in ValidationOutcome
      /\ want = "CLOSED" => status[f] = "CLOSED"
      /\ status[f] = "CLOSED" /\ Verdict(f) # "REFUSED" => want = "CLOSED"
  BY DEF StatusFor, Verdict, FindingStatus, ValidationOutcome, Resolvable, Terminal,
     AlwaysIneligible, TerminalTypes
<1>3. p \in Plans \cup {Nothing} /\ PlanStatusFor(f) \in PlanStatus
  BY <1>1, LatestPlanType DEF PlanStatusFor, PlanStatus
<1>4. PICK m \in Call : /\ m = OnFinding(f, FindingStatus, want)
                        /\ m.f = f /\ m.want = want
  BY <1>1, <1>2, OnFindingType
<1>5. PICK e \in Call :
        /\ e = OnPlan(m, p, PlanStatus \ {"CANCELLED"}, PlanStatusFor(f))
        /\ e.f = f /\ e.want = want
  <2>1. PlanStatus \ {"CANCELLED"} \in SUBSET PlanStatus
    OBVIOUS
  <2> HIDE DEF want, p
  <2> QED
    BY <1>3, <1>4, <2>1, OnPlanType
<1>6. PICK c \in Call : /\ c = [e EXCEPT !.verdict = Verdict(f)]
                        /\ c.f = f /\ c.want = want /\ c.verdict = Verdict(f)
  <2>1. LET x == [e EXCEPT !.verdict = Verdict(f)] IN
        x \in Call /\ x.f = e.f /\ x.want = e.want /\ x.verdict = Verdict(f)
    BY <1>2, VerdictType
  <2> QED
    BY <1>5, <2>1
<1>7. Begin(w, c, "validate") /\ Copy(w, status[f])
  BY <1>4, <1>5, <1>6 DEF Validate
<1>8. /\ Quietly /\ UNCHANGED <<made, seenLog, broken, tables>>
  BY DEF Validate, Quietly, tables, findingVars, syncVars, proofVars, ledgerVars,
     historyVars
<1>9. /\ pc[w] = "idle" /\ pc'[w] = "validate" /\ call'[w] = c
      /\ seen'[w] = status[f]
      /\ \A v \in Workers \ {w} : /\ pc'[v] = pc[v] /\ call'[v] = call[v]
                                  /\ seen'[v] = seen[v] /\ fresh'[v] = fresh[v]
  BY <1>1, <1>7 DEF Begin, Copy, Types, CopyTypes
<1>10. Types'
  <2>1. status[f] \in FindingStatus /\ outcome[f] \in ValidationOutcome \cup {None}
    BY <1>1 DEF Types, TableTypes
  <2>2. CopyTypes'
    BY <1>1, <1>7, <1>8, <2>1 DEF Types, CopyTypes, Copy, Validate
  <2>3. TableTypes'
    BY <1>1, <1>8 DEF Types, TableTypes, tables, findingVars, planVars, syncVars,
       ledgerVars
  <2> QED
    BY <1>1, <1>7, <1>8, <2>2, <2>3 DEF Types, Begin, Stages
<1>11. Knows(w)'
  <2>1. made[w] = 0
    BY <1>9 DEF IInv, Knows
  <2>2. c.verdict = "VALIDATED" => Fit(f)'
    BY <1>6, <1>8, VerdictFit DEF Fit, tables, findingVars, proofVars, Existing,
       Resolvable, Terminal
  <2>3. Fit(f)' => Fit(call[w].f)'
    BY <1>6, <1>9 DEF Fit, Resolvable, Terminal
  <2> QED
    BY <1>1, <1>2, <1>6, <1>8, <1>9, <2>1, <2>2, <2>3 DEF Knows, FindingStatus, None
<1>12. Current(w)'
  BY <1>6, <1>8, <1>9 DEF Current, tables, findingVars
<1>13. OthersStay(w)
  BY <1>8, <1>9 DEF OthersStay, tables, findingVars, syncVars
<1> QED
  BY <1>8, <1>9, <1>10, <1>11, <1>12, <1>13, MoveInv

LEMMA ValidateSaveInv ==
  ASSUME IInv, NEW w \in Workers, ValidateSave(w)
  PROVE  IInv'
<1> DEFINE f == call[w].f
<1>1. Types /\ Knows(w) /\ pc[w] = "validate"
  BY DEF IInv, ValidateSave
<1>2. /\ f \in Findings /\ made[w] = 0
      /\ call[w].verdict = "VALIDATED" => Fit(f)
      /\ call[w].want = "CLOSED" => seen[w] = "CLOSED"
  BY <1>1 DEF Knows
<1>3. /\ \A v \in Workers \ {w} :
           /\ pc'[v] = pc[v] /\ call'[v] = call[v] /\ made'[v] = made[v]
           /\ seen'[v] = seen[v] /\ seenLog'[v] = seenLog[v]
      /\ pc'[w] \in {"idle", "lookPlan"} /\ made' = made
      /\ pc'[w] = "lookPlan" => call'[w].want = None
  <2>1. pc'[w] = "lookPlan" => call'[w] = [call[w] EXCEPT !.want = None]
    BY <1>1 DEF ValidateSave, Types
  <2>2. call[w] \in Call
    BY <1>1 DEF Types
  <2>3. [call[w] EXCEPT !.want = None].want = None
    BY <2>2 DEF Call
  <2> QED
    BY <1>1, <2>1, <2>3 DEF ValidateSave, Types, CopyTypes, Forget
<1>4. /\ \A x \in Findings \ {f} : status'[x] = status[x] /\ outcome'[x] = outcome[x]
      /\ status'[f] = status[f] \/ (status'[f] = call[w].want /\ status'[f] # seen[w])
      /\ outcome'[f] = outcome[f] \/ outcome'[f] = call[w].verdict
  BY <1>1, <1>2 DEF ValidateSave, Put, Types, TableTypes
<1>5. status' \in [Findings -> FindingStatus]
  <2>1. call[w].want \in FindingStatus
    BY <1>1 DEF Knows, Types, Call
  <2> QED
    BY <1>1, <2>1 DEF ValidateSave, Put, Types, TableTypes
<1>6. outcome' \in [Findings -> ValidationOutcome \cup {None}]
  <2>1. call[w].verdict \in ValidationOutcome \cup {None}
    BY <1>1 DEF Types, Call
  <2> QED
    BY <1>1, <2>1 DEF ValidateSave, Put, Types, TableTypes
<1>7. Types'
  <2>1. fresh' \in [Workers -> BOOLEAN]
    BY <1>1 DEF ValidateSave, Outdate, Types, CopyTypes
  <2>2. call' \in [Workers -> Call]
    <3>1. call[w] \in Call
      BY <1>1 DEF Types
    <3>2. [call[w] EXCEPT !.want = None] \in Call
      BY <3>1 DEF Call
    <3> QED
      BY <1>1, <3>2, NoCallType DEF ValidateSave, Types
  <2>3. pc' \in [Workers -> Stages]
    BY <1>1 DEF ValidateSave, Types, Stages
  <2>4. TableTypes'
    BY <1>1, <1>5, <1>6 DEF ValidateSave, Types, TableTypes, planVars, syncVars,
       ledgerVars
  <2>5. CopyTypes'
    BY <1>1, <2>1 DEF ValidateSave, Types, CopyTypes, Forget
  <2> QED
    BY <1>1, <2>2, <2>3, <2>4, <2>5 DEF ValidateSave, Types
<1>8. Grown
  BY DEF ValidateSave, Grown, proofVars, ledgerVars, Existing, Superseded
<1>9. OthersStay(w)
  <2>1. Outdate(w, f) /\ logged' = logged
    BY DEF ValidateSave, syncVars
  <2> QED
    BY <1>2, <1>3, <1>4, <2>1, OutdateStays
<1>10. Knows(w)' /\ Current(w)'
  BY <1>2, <1>3 DEF Knows, Current, Harmless, None
<1>11. Generated'
  <2>1. UNCHANGED <<basis, kind, broken>>
    BY DEF ValidateSave
  <2>2. \A v \in Workers : /\ pc'[v] = "generate" <=> pc[v] = "generate"
                           /\ pc[v] = "generate" => made'[v] = made[v]
    BY <1>1, <1>3
  <2> QED
    BY <2>1, <2>2, GeneratedStays DEF IInv
<1>12. RowsSound'
  <2>1. \A x \in Findings : status'[x] = "CLOSED" => status[x] = "CLOSED"
    BY <1>2, <1>4
  <2>2. ASSUME NEW x \in Findings, outcome'[x] = "VALIDATED"
        PROVE  Fit(x)
    BY <1>2, <1>4, <2>2 DEF IInv, RowsSound
  <2>3. \A x \in Findings : Fit(x) => Fit(x)'
    BY <1>8, FitStays
  <2>4. \A d \in DOMAIN ledger : ledger[d].origin # Nothing => Fit(ledger[d].origin)'
    BY DEF IInv, RowsSound, ValidateSave, proofVars, ledgerVars,
       Fit, Existing, Resolvable, Terminal
  <2> QED
    BY <2>1, <2>2, <2>3, <2>4 DEF IInv, RowsSound, ValidateSave, syncVars, ledgerVars,
       Decided, Superseded
<1> QED
  BY <1>7, <1>8, <1>9, <1>10, <1>11, <1>12, StepInv

LEMMA CloseInv ==
  ASSUME IInv, NEW w \in Workers, Close(w)
  PROVE  IInv'
<1> DEFINE f == call[w].f
<1>1. Types /\ Knows(w) /\ pc[w] = "close"
  BY DEF IInv, Close
<1>2. f \in Findings /\ Fit(f) /\ Decided(f, made[w]) /\ Superseded
  BY <1>1, RowTypes DEF Knows, Fit
<1>3. Goto(w, "idle") /\ "idle" \in Stages
  BY DEF Close, Stages
<1>4. /\ \A x \in Findings \ {f} :
           status'[x] = status[x] /\ resolvedBy'[x] = resolvedBy[x]
      /\ resolvedBy'[f] = made[w]
      /\ status' \in [Findings -> FindingStatus]
      /\ resolvedBy' \in [Findings -> Nat]
  BY <1>1, <1>2 DEF Close, Types, TableTypes, FindingStatus
<1>5. Types'
  <2>1. fresh' \in [Workers -> BOOLEAN]
    BY <1>1 DEF Close, Outdate, Types, CopyTypes
  <2> QED
    BY <1>1, <1>3, <1>4, <2>1, GotoTypes DEF Close, Types, TableTypes,
       CopyTypes, copyVars, planVars, syncVars, ledgerVars, historyVars
<1>6. Grown
  BY DEF Close, Grown, proofVars, ledgerVars, Existing, Superseded
<1>7. OthersStay(w)
  <2>1. \A v \in Workers \ {w} :
          /\ pc'[v] = pc[v] /\ call'[v] = call[v] /\ made'[v] = made[v]
          /\ seen'[v] = seen[v] /\ seenLog'[v] = seenLog[v]
    BY <1>1, <1>3, GotoTypes DEF Close, copyVars
  <2>2. Outdate(w, f) /\ logged' = logged
    BY DEF Close, syncVars
  <2> QED
    BY <1>2, <1>4, <2>1, <2>2, OutdateStays
<1>8. Knows(w)' /\ Current(w)'
  BY <1>1, <1>3, GotoTypes DEF Knows, Current
<1>9. Generated'
  <2>1. UNCHANGED <<basis, kind, broken>>
    BY DEF Close, historyVars
  <2>2. \A v \in Workers : /\ pc'[v] = "generate" <=> pc[v] = "generate"
                           /\ pc[v] = "generate" => made'[v] = made[v]
    BY <1>1, <1>3, GotoTypes
  <2> QED
    BY <2>1, <2>2, GeneratedStays DEF IInv
<1>10. RowsSound'
  <2>1. ASSUME NEW x \in Findings, status'[x] = "CLOSED"
        PROVE  Decided(x, resolvedBy'[x]) /\ Superseded
    BY <1>2, <1>4, <2>1 DEF IInv, RowsSound
  <2> QED
    BY <2>1 DEF IInv, RowsSound, Close, syncVars, proofVars, ledgerVars, historyVars,
       Fit, Existing, Resolvable, Terminal, Decided, Superseded
<1> QED
  BY <1>5, <1>6, <1>7, <1>8, <1>9, <1>10, StepInv

-----------------------------------------------------------------------------
(* Reassessments, and decisions by others *)

LEMMA TerminateIntentInv ==
  ASSUME IInv, NEW w \in Workers, TerminateIntent(w)
  PROVE  IInv'
<1>1. Types /\ Knows(w) /\ pc[w] = "terminate"
  BY DEF IInv, TerminateIntent
<1>2. Quietly /\ Goto(w, "idle") /\ UNCHANGED <<seen, seenLog, fresh>>
  BY DEF TerminateIntent, Quietly, findingVars, syncVars, proofVars, historyVars,
     copyVars
<1>3. TableTypes' /\ CopyTypes'
  BY <1>1 DEF Types, TableTypes, CopyTypes, TerminateIntent, findingVars, planVars,
     syncVars, copyVars
<1> QED
  BY <1>1, <1>2, <1>3, GoOnInv

\* A decision is added at the end of the ledger.
LEMMA LedgerGrows ==
  ASSUME Types, NEW row \in LedgerRows, ledger' = Append(ledger, row)
  PROVE  /\ ledger' \in Seq(LedgerRows)
         /\ Len(ledger') \in DOMAIN ledger' /\ Len(ledger') \in Nat \ {0}
         /\ ledger'[Len(ledger')] = row
         /\ DOMAIN ledger' = DOMAIN ledger \cup {Len(ledger')}
         /\ \A d \in DOMAIN ledger : ledger'[d] = ledger[d]
<1>1. ledger \in Seq(LedgerRows) /\ Len(ledger) \in Nat
  BY DEF Types, TableTypes
<1> QED
  BY <1>1

\* A row that is added, or a mark on decision 1, changes nothing for findings.
LEMMA LedgerRowsSound ==
  ASSUME RowsSound, Types, Grown, UNCHANGED <<findingVars, syncVars, proofVars, unlogged>>,
         \A d \in DOMAIN ledger' \ DOMAIN ledger :
           ledger'[d].origin # Nothing => Fit(ledger'[d].origin)
  PROVE  RowsSound'
<1>1. \A f : Fit(f) => Fit(f)'
  BY FitStays
<1>2. \A f, d : Decided(f, d) => Decided(f, d)'
  BY DecidedStays
<1>3. \A d \in DOMAIN ledger' : ledger'[d].origin # Nothing => Fit(ledger'[d].origin)
  BY DEF RowsSound, Grown
<1>4. \A d \in DOMAIN ledger' :
        ledger'[d].origin # Nothing => Fit(ledger[d].origin)'
  BY <1>3 DEF Fit, Grown, findingVars, proofVars, Existing, Resolvable, Terminal
<1>5. \A f \in Findings : outcome'[f] = "VALIDATED" => Fit(f)'
  BY <1>1 DEF RowsSound, findingVars
<1>6. \A f \in Findings :
        status'[f] = "CLOSED" => Decided(f, resolvedBy[f])' /\ Superseded'
  <2> SUFFICES ASSUME NEW f \in Findings, status'[f] = "CLOSED"
               PROVE  Decided(f, resolvedBy[f])' /\ Superseded'
    OBVIOUS
  <2>1. Decided(f, resolvedBy[f]) /\ Superseded /\ resolvedBy' = resolvedBy
    BY DEF RowsSound, findingVars
  <2> QED
    BY <2>1 DEF Decided, Grown
<1> QED
  BY <1>4, <1>5, <1>6 DEF RowsSound, syncVars

LEMMA ApproveInv ==
  ASSUME IInv, NEW w \in Workers, Approve(w)
  PROVE  IInv'
<1> DEFINE f == call[w].f
           row == [origin |-> f, prior |-> Original]
<1>1. Types /\ Knows(w) /\ pc[w] = "approve"
  BY DEF IInv, Approve
<1>2. f \in Findings /\ Fit(f)
  BY <1>1, RowTypes DEF Knows, Fit
<1>3. /\ ledger' \in Seq(LedgerRows)
      /\ Len(ledger') \in DOMAIN ledger' /\ Len(ledger') \in Nat \ {0}
      /\ ledger'[Len(ledger')] = row
      /\ DOMAIN ledger' = DOMAIN ledger \cup {Len(ledger')}
      /\ \A d \in DOMAIN ledger : ledger'[d] = ledger[d]
  <2>1. row \in LedgerRows /\ ledger' = Append(ledger, row)
    BY <1>2 DEF Approve, LedgerRows, Original
  <2> HIDE DEF row
  <2> QED
    BY <1>1, <2>1, LedgerGrows
<1>4. /\ pc'[w] = "supersede" /\ made'[w] = Len(ledger') /\ call' = call
      /\ \A v \in Workers \ {w} : pc'[v] = pc[v] /\ made'[v] = made[v]
      /\ UNCHANGED <<seen, seenLog, fresh>>
      /\ UNCHANGED <<findingVars, syncVars, proofVars, unlogged, successor, broken, basis>>
  BY <1>1 DEF Approve, Types, copyVars, historyVars
<1>5. Types'
  BY <1>1, <1>3 DEF Types, TableTypes, CopyTypes, Approve, findingVars,
     planVars, syncVars, copyVars, historyVars, Stages
<1>6. Grown
  BY <1>3, <1>4 DEF Grown, findingVars, proofVars, Existing, Superseded
<1>7. OthersStay(w)
  BY <1>4 DEF OthersStay, findingVars, syncVars
<1>8. Knows(w)' /\ Current(w)'
  <2>1. Fit(call[w].f)'
    BY <1>2, <1>4 DEF Fit, findingVars, proofVars, Existing, Resolvable, Terminal
  <2>2. Decided(call[w].f, made[w])'
    BY <1>3, <1>4 DEF Decided
  <2> QED
    BY <1>4, <2>1, <2>2 DEF Knows, Current
<1>9. Generated'
  <2>1. UNCHANGED <<basis, kind, broken>>
    BY <1>4 DEF findingVars
  <2>2. \A v \in Workers : /\ pc'[v] = "generate" <=> pc[v] = "generate"
                           /\ pc[v] = "generate" => made'[v] = made[v]
    BY <1>1, <1>4
  <2> QED
    BY <2>1, <2>2, GeneratedStays DEF IInv
<1>10. RowsSound'
  <2>1. ASSUME NEW d \in DOMAIN ledger' \ DOMAIN ledger
        PROVE  Fit(ledger'[d].origin)
    <3>1. ledger'[d] = row /\ row.origin = f
      BY <1>3
    <3> QED
      BY <1>2, <3>1
  <2> QED
    BY <1>1, <1>4, <1>6, <2>1, LedgerRowsSound DEF IInv
<1> QED
  BY <1>5, <1>6, <1>7, <1>8, <1>9, <1>10, StepInv

LEMMA SupersedePriorInv ==
  ASSUME IInv, NEW w \in Workers, SupersedePrior(w)
  PROVE  IInv'
<1>1. Types /\ Knows(w) /\ pc[w] = "supersede"
  BY DEF IInv, SupersedePrior
<1>2. /\ Fit(call[w].f) /\ Decided(call[w].f, made[w]) /\ made[w] \in Nat \ {0}
  <2>1. Decided(call[w].f, made[w])
    BY <1>1 DEF Knows
  <2>2. DOMAIN ledger = 1 .. Len(ledger) /\ Len(ledger) \in Nat
    BY <1>1 DEF Types, TableTypes
  <2> QED
    BY <1>1, <2>1, <2>2 DEF Knows, Decided
<1>3. successor' \in [Decisions -> Nat] /\ Superseded'
  <2>1. Original \in Decisions
    BY BoundsAssumption DEF Original, Decisions
  <2> QED
    BY <1>1, <1>2, <2>1 DEF SupersedePrior, Types, TableTypes, Superseded, Nothing
<1>4. /\ pc'[w] = "close" /\ UNCHANGED <<call, made, seen, seenLog, fresh>>
      /\ \A v \in Workers \ {w} : pc'[v] = pc[v]
      /\ UNCHANGED <<findingVars, syncVars, proofVars, unlogged, ledger, broken, basis>>
  BY <1>1 DEF SupersedePrior, Types, copyVars, historyVars
<1>5. Types'
  BY <1>1, <1>3 DEF Types, TableTypes, CopyTypes, SupersedePrior, findingVars,
     planVars, syncVars, copyVars, historyVars, Stages
<1>6. Grown
  BY <1>3, <1>4 DEF Grown, findingVars, proofVars, Existing
<1>7. OthersStay(w)
  BY <1>4 DEF OthersStay, findingVars, syncVars
<1>8. Knows(w)' /\ Current(w)'
  <2>1. Fit(call[w].f)'
    BY <1>2, <1>4 DEF Fit, findingVars, proofVars, Existing, Resolvable, Terminal
  <2>2. Decided(call[w].f, made[w])'
    BY <1>2, <1>4 DEF Decided
  <2> QED
    BY <1>3, <1>4, <2>1, <2>2 DEF Knows, Current
<1>9. Generated'
  <2>1. UNCHANGED <<basis, kind, broken>>
    BY <1>4 DEF findingVars
  <2>2. \A v \in Workers : /\ pc'[v] = "generate" <=> pc[v] = "generate"
                           /\ pc[v] = "generate" => made'[v] = made[v]
    BY <1>1, <1>4
  <2> QED
    BY <2>1, <2>2, GeneratedStays DEF IInv
<1>10. RowsSound'
  BY <1>1, <1>4, <1>6, LedgerRowsSound DEF IInv
<1> QED
  BY <1>5, <1>6, <1>7, <1>8, <1>9, <1>10, StepInv

\* A step that no call takes leaves every call where it is.
LEMMA OutsideInv ==
  ASSUME IInv, Grown, TableTypes', RowsSound',
         UNCHANGED <<pc, call, copyVars, made, fresh, broken, status, kind, logged>>
  PROVE  IInv'
<1>1. Types'
  BY DEF IInv, Types, CopyTypes, copyVars
<1>2. \A v \in Workers : Knows(v)' /\ Current(v)'
  <2> SUFFICES ASSUME NEW v \in Workers PROVE Knows(v)' /\ Current(v)'
    OBVIOUS
  <2>1. Knows(v) /\ Current(v)
    BY DEF IInv
  <2>2. Fit(call[v].f) => Fit(call[v].f)'
    BY DEF Fit, Resolvable, Terminal, Grown, Existing
  <2>3. Decided(call[v].f, made[v]) => Decided(call[v].f, made[v])'
    BY DEF Decided, Grown
  <2>4. Harmless(call[v]) => Harmless(call[v])'
    BY DEF Harmless, Terminal, Existing, Grown
  <2>5. Due' = Due
    BY DEF Due, Grown
  <2> QED
    BY <2>1, <2>2, <2>3, <2>4, <2>5 DEF Knows, Current, copyVars, Grown
<1>3. Generated'
  BY GeneratedStays DEF IInv, Grown
<1> QED
  BY <1>1, <1>2, <1>3 DEF IInv

LEMMA SubmitInv ==
  ASSUME IInv, \/ \E f \in Existing, valid \in BOOLEAN : SubmitEvidence(f, valid)
               \/ \E f \in Existing : Review(f)
  PROVE  IInv'
<1>1. /\ Quietly
      /\ UNCHANGED <<pc, call, copyVars, made, fresh, broken, status, kind, logged>>
  BY DEF SubmitEvidence, Review, Quietly, findingVars, syncVars, ledgerVars,
     historyVars
<1>2. Grown /\ RowsSound'
  BY <1>1, QuietRows DEF IInv
<1>3. TableTypes'
  BY DEF IInv, Types, TableTypes, SubmitEvidence, Review, findingVars, planVars,
     syncVars, ledgerVars
<1> QED
  BY <1>1, <1>2, <1>3, OutsideInv

LEMMA RedecideInv ==
  ASSUME IInv, NEW d \in Decisions, Redecide(d)
  PROVE  IInv'
<1> DEFINE row == [origin |-> Nothing, prior |-> d]
<1>1. Types /\ d \in Nat
  BY DEF IInv, Decisions
<1>2. /\ ledger' \in Seq(LedgerRows)
      /\ Len(ledger') \in DOMAIN ledger' /\ Len(ledger') \in Nat \ {0}
      /\ ledger'[Len(ledger')] = row
      /\ DOMAIN ledger' = DOMAIN ledger \cup {Len(ledger')}
      /\ \A e \in DOMAIN ledger : ledger'[e] = ledger[e]
  <2>1. row \in LedgerRows /\ ledger' = Append(ledger, row)
    BY <1>1 DEF Redecide, LedgerRows
  <2> HIDE DEF row
  <2> QED
    BY <1>1, <2>1, LedgerGrows
<1>3. successor' \in [Decisions -> Nat] /\ (Superseded => Superseded')
  BY <1>1, <1>2 DEF Redecide, Types, TableTypes, Superseded, Nothing
<1>4. /\ UNCHANGED <<findingVars, syncVars, proofVars, unlogged, basis>>
      /\ UNCHANGED <<pc, call, copyVars, made, fresh, broken, status, kind, logged>>
  BY DEF Redecide, findingVars, syncVars, historyVars
<1>5. Grown
  BY <1>2, <1>3, <1>4 DEF Grown, findingVars, proofVars, Existing
<1>6. TableTypes'
  BY <1>1, <1>2, <1>3 DEF Types, TableTypes, Redecide, findingVars, planVars,
     syncVars
<1>7. RowsSound'
  <2>1. ASSUME NEW e \in DOMAIN ledger' \ DOMAIN ledger
        PROVE  ledger'[e].origin = Nothing
    <3>1. ledger'[e] = row
      BY <1>2
    <3> QED
      BY <3>1
  <2> QED
    BY <1>1, <1>4, <1>5, <2>1, LedgerRowsSound DEF IInv
<1> QED
  BY <1>4, <1>5, <1>6, <1>7, OutsideInv

-----------------------------------------------------------------------------
(* The findings of the decision, and calls that stop *)

LEMMA GenerateCheckInv ==
  ASSUME IInv, NEW w \in Workers, GenerateCheck(w)
  PROVE  IInv'
<1>1. Types /\ Knows(w) /\ pc[w] = "idle" /\ made[w] = 0 /\ kind = << >>
  BY DEF IInv, GenerateCheck, Begin, Knows
<1>2. /\ pc'[w] = "generate" /\ UNCHANGED <<made, seen, seenLog, fresh>>
      /\ \A v \in Workers \ {w} : pc'[v] = pc[v] /\ call'[v] = call[v]
      /\ UNCHANGED <<tables, unlogged>>
      /\ UNCHANGED <<basis, kind, status, logged>>
  BY <1>1 DEF GenerateCheck, Begin, Types, copyVars, tables, findingVars, syncVars
<1>3. Types'
  <2>1. /\ pc' \in [Workers -> Stages] /\ call' \in [Workers -> Call]
        /\ broken' \in BOOLEAN
    BY <1>1, NoCallType DEF GenerateCheck, Begin, Types, Stages
  <2> QED
    BY <1>1, <2>1 DEF Types, TableTypes, CopyTypes, GenerateCheck, tables,
       findingVars, planVars, syncVars, ledgerVars, copyVars
<1>4. Grown /\ RowsSound'
  BY <1>2 DEF IInv, Grown, RowsSound, tables, findingVars, syncVars, proofVars,
     ledgerVars, Fit, Existing, Resolvable, Terminal, Decided, Superseded
<1>5. OthersStay(w)
  BY <1>2 DEF OthersStay
<1>6. Due' = Due /\ Len(Due) > 0 /\ Len(Due) \in Nat /\ Len(kind) = 0
  BY <1>1, <1>2, DueType DEF Types, TableTypes, Due
<1>7. Knows(w)' /\ Current(w)'
  BY <1>1, <1>2, <1>6 DEF Knows, Current
<1>8. Generated'
  <2> SUFFICES ASSUME ~ broken'
               PROVE  Generated'
    BY DEF Generated
  <2>1. \A v \in Workers : pc[v] # "generate"
    BY <1>1 DEF GenerateCheck, Types
  <2>2. \A v \in Workers : pc'[v] = "generate" <=> v = w
    BY <1>2, <2>1
  <2> QED
    BY <1>1, <1>2, <1>6, <2>2 DEF Generated
<1> QED
  BY <1>3, <1>4, <1>5, <1>7, <1>8, StepInv

LEMMA GenerateInsertInv ==
  ASSUME IInv, NEW w \in Workers, GenerateInsert(w)
  PROVE  IInv'
<1> DEFINE n == Len(kind)
           m == made[w] + 1
<1>1. /\ Types /\ Knows(w) /\ Generated /\ pc[w] = "generate"
      /\ made[w] \in Nat /\ made[w] < Len(Due)
      /\ n \in Nat /\ kind \in Seq(FindingTypes)
  BY DEF IInv, GenerateInsert, Knows, Types, TableTypes
<1>2. Due' = Due /\ Due \in Seq(FindingTypes) /\ Len(Due) \in Nat
  BY <1>1, DueType DEF GenerateInsert, Due, Types, TableTypes
<1>3. m \in 1 .. Len(Due) /\ Due[m] \in FindingTypes
  <2>1. m \in 1 .. Len(Due)
    BY <1>1, <1>2
  <2> QED
    BY <1>2, <2>1
<1>4. /\ kind' = Append(kind, Due[m])
      /\ kind' \in Seq(FindingTypes) /\ Len(kind') = n + 1 /\ n < MaxFindings
      /\ kind'[n + 1] = Due[m]
      /\ \A i \in 1 .. n : kind'[i] = kind[i]
      /\ Existing = 1 .. n /\ Existing' = 1 .. n + 1
  <2>1. kind' = Append(kind, Due[m]) /\ n < MaxFindings
    BY DEF GenerateInsert, Due
  <2> HIDE DEF m
  <2> QED
    BY <1>1, <1>3, <2>1 DEF Existing
<1>5. PICK stage \in {"generate", "idle"} :
        /\ stage = "idle" <=> m = Len(Due)
        /\ pc'[w] = stage /\ pc' \in [Workers -> Stages]
        /\ call' \in [Workers -> Call]
        /\ stage = "generate" => made'[w] = m
        /\ stage = "idle" => made'[w] = 0
        /\ made' \in [Workers -> Nat]
        /\ \A v \in Workers \ {w} :
             pc'[v] = pc[v] /\ call'[v] = call[v] /\ made'[v] = made[v]
  <2>1. CASE m = Len(Due)
    <3>1. Goto(w, "idle") /\ "idle" \in Stages
      BY <2>1 DEF GenerateInsert, Stages, Due
    <3> QED
      BY <1>1, <2>1, <3>1, GotoTypes
  <2>2. CASE m # Len(Due)
    <3>1. made' = [made EXCEPT ![w] = @ + 1] /\ UNCHANGED <<pc, call>>
      BY <2>2 DEF GenerateInsert, Due
    <3>2. made' \in [Workers -> Nat] /\ made'[w] = m
      BY <1>1, <3>1 DEF Types
    <3> QED
      BY <1>1, <2>2, <3>1, <3>2 DEF Types
  <2> QED
    BY <2>1, <2>2
<1>6. /\ UNCHANGED <<basis, status, outcome, resolvedBy, planVars, syncVars,
                     proofVars, ledgerVars, copyVars, fresh, historyVars>>
      /\ UNCHANGED <<seen, seenLog, broken, logged>>
  BY DEF GenerateInsert, copyVars, historyVars, syncVars
<1>7. Types'
  <2>1. Len(kind') <= MaxFindings
    BY <1>1, <1>4, BoundsAssumption
  <2> QED
    BY <1>1, <1>4, <1>5, <1>6, <2>1 DEF Types, TableTypes, CopyTypes, planVars,
       syncVars, ledgerVars, copyVars
<1>8. Grown
  BY <1>4, <1>6 DEF Grown, proofVars, ledgerVars, Superseded
<1>9. RowsSound'
  <2>1. \A f : Fit(f) => Fit(f)'
    BY <1>8, FitStays
  <2>2. \A f, d : Decided(f, d) => Decided(f, d)'
    BY <1>8, DecidedStays
  <2> QED
    BY <1>6, <2>1, <2>2 DEF IInv, RowsSound, syncVars, ledgerVars, historyVars,
       Superseded
<1>10. OthersStay(w)
  BY <1>5, <1>6 DEF OthersStay
<1>11. Knows(w)' /\ Current(w)'
  BY <1>1, <1>2, <1>3, <1>5 DEF Knows, Current
<1>12. Generated'
  <2> SUFFICES ASSUME ~ broken'
               PROVE  Generated'
    BY DEF Generated
  <2>1. /\ made[w] = n
        /\ \A i \in 1 .. n : kind[i] = Due[i]
        /\ \A v \in Workers \ {w} : pc[v] # "generate"
    BY <1>1, <1>6 DEF Generated
  <2>2. \A i \in 1 .. n + 1 : kind'[i] = Due[i]
    BY <1>1, <1>4, <2>1
  <2>3. \A v \in Workers \ {w} : pc'[v] # "generate"
    BY <1>5, <2>1
  <2>4. Len(kind') <= Len(Due)
    BY <1>1, <1>2, <1>4, <2>1
  <2>5. CASE stage = "idle"
    BY <1>1, <1>2, <1>4, <1>5, <2>1, <2>2, <2>3, <2>4, <2>5 DEF Generated
  <2>6. CASE stage = "generate"
    BY <1>1, <1>2, <1>4, <1>5, <2>1, <2>2, <2>3, <2>4, <2>6 DEF Generated
  <2> QED
    BY <2>5, <2>6
<1> QED
  BY <1>7, <1>8, <1>9, <1>10, <1>11, <1>12, StepInv

LEMMA CrashInv ==
  ASSUME IInv, NEW w \in Workers, Crash(w)
  PROVE  IInv'
<1>1. Types /\ Goto(w, "idle") /\ "idle" \in Stages /\ Forget(w)
  BY DEF IInv, Crash, Stages
<1>2. /\ UNCHANGED <<tables, fresh, unlogged>>
      /\ UNCHANGED <<basis, kind, status, logged>>
      /\ broken' \in BOOLEAN
      /\ \A v \in Workers \ {w} : seen'[v] = seen[v] /\ seenLog'[v] = seenLog[v]
  BY <1>1 DEF Crash, Types, CopyTypes, Forget, tables, findingVars, syncVars
<1>3. Types'
  <2>1. CopyTypes'
    BY <1>1, <1>2 DEF Types, CopyTypes, Forget
  <2>2. TableTypes'
    BY <1>1, <1>2 DEF Types, TableTypes, tables, findingVars, planVars, syncVars,
       ledgerVars
  <2> QED
    BY <1>1, <1>2, <2>1, <2>2, GotoTypes DEF Types
<1>4. Grown /\ RowsSound'
  BY <1>2 DEF IInv, Grown, RowsSound, tables, findingVars, syncVars, proofVars,
     ledgerVars, Fit, Existing, Resolvable, Terminal, Decided, Superseded
<1>5. OthersStay(w)
  BY <1>1, <1>2, GotoTypes DEF OthersStay
<1>6. Knows(w)' /\ Current(w)'
  BY <1>1, GotoTypes DEF Knows, Current
<1>7. Generated'
  <2>1. CASE pc[w] = "generate"
    <3>1. broken'
      BY <2>1 DEF Crash
    <3> QED
      BY <3>1 DEF Generated
  <2>2. CASE pc[w] # "generate"
    <3>1. broken => broken'
      BY DEF Crash
    <3>2. \A v \in Workers : /\ pc'[v] = "generate" <=> pc[v] = "generate"
                             /\ pc[v] = "generate" => made'[v] = made[v]
      BY <1>1, <2>2, GotoTypes
    <3> QED
      BY <1>2, <3>1, <3>2, GeneratedStays DEF IInv
  <2> QED
    BY <2>1, <2>2
<1> QED
  BY <1>3, <1>4, <1>5, <1>6, <1>7, StepInv

-----------------------------------------------------------------------------
(* The invariant and what follows from it *)

LEMMA InitInv == Init => IInv
<1> SUFFICES ASSUME Init
             PROVE  IInv
  OBVIOUS
<1>1. Original \in Decisions
  BY BoundsAssumption DEF Original, Decisions
<1>2. TableTypes
  <2>1. [origin |-> Nothing, prior |-> Nothing] \in LedgerRows
    BY DEF LedgerRows, Nothing
  <2>2. ledger \in Seq(LedgerRows)
    BY <2>1 DEF Init
  <2> QED
    BY <2>2, BoundsAssumption DEF Init, TableTypes, FindingStatus, PlanStatus, Nothing
<1>3. Types
  BY <1>2, NoCallType DEF Init, Types, CopyTypes, Stages
<1>4. \A w \in Workers : Knows(w) /\ Current(w)
  BY DEF Init, Knows, Current
<1>5. Generated
  <2>1. Len(Due) \in Nat
    BY <1>2, DueType DEF TableTypes
  <2> QED
    BY <2>1 DEF Init, Generated
<1>6. RowsSound
  BY DEF Init, RowsSound, Nothing, None
<1> QED
  BY <1>3, <1>4, <1>5, <1>6 DEF IInv

LEMMA NextInv == IInv /\ [Next]_vars => IInv'
<1> SUFFICES ASSUME IInv, [Next]_vars
             PROVE  IInv'
  OBVIOUS
<1>1. ASSUME UNCHANGED vars
      PROVE  IInv'
  <2>1. /\ Quietly /\ TableTypes'
        /\ UNCHANGED <<pc, call, copyVars, made, fresh, broken, status, kind, logged>>
    BY <1>1 DEF vars, tables, sessionVars, historyVars, Quietly, findingVars,
       planVars, syncVars, proofVars, ledgerVars, IInv, Types, TableTypes
  <2>2. Grown /\ RowsSound'
    BY <2>1, QuietRows DEF IInv
  <2> QED
    BY <2>1, <2>2, OutsideInv
<1>2. ASSUME NEW w \in Workers, NEW f \in Existing,
             \/ Assign(w, f) \/ Validate(w, f) \/ TriggerTerminal(w, f) \/ Trigger(w, f)
             \/ \E required \in BOOLEAN : CreatePlan(w, f, required)
             \/ \E p \in DOMAIN plans \cup {Nothing}, accepted \in BOOLEAN :
                  Dispatch(w, f, p, accepted)
      PROVE  IInv'
  BY <1>2, AssignInv, ValidateInv, TriggerInv, CreatePlanInv, DispatchInv
<1>3. ASSUME NEW w \in Workers, Serve(w)
      PROVE  IInv'
  BY <1>2, <1>3, GenerateCheckInv, GenerateInsertInv, UpdateStatusInv, CallbackInv,
     LookPlanInv, SavePlanInv, LookInv, SaveInv, CallbackLoadInv, CallbackLogInv,
     ValidateSaveInv, TerminateIntentInv, ApproveInv, SupersedePriorInv, CloseInv,
     CrashInv DEF Serve
<1> QED
  BY <1>1, <1>3, SubmitInv, RedecideInv DEF Next

\* Whatever the calls do, each still knows what its next commit rests on.
THEOREM Invariance == Spec => []IInv
BY InitInv, NextInv, PTL DEF Spec

\* A reassessment approves nothing that is not resolved: its decisions are
\* about findings neither terminal nor waiting for an approval, with the evidence
\* or the review that their kind calls for.
THEOREM ResolvedBeforeApproved == Spec => []ApprovedOnEvidence
<1>1. IInv => ApprovedOnEvidence
  BY DEF IInv, RowsSound, ApprovedOnEvidence, Fit
<1> QED
  BY <1>1, Invariance, PTL

\* A closed finding has its own decision, and the one it was raised for is
\* superseded, wherever a reassessment may have stopped.
THEOREM ClosedDecided == Spec => []ClosedIsDecided
<1>1. IInv => ClosedIsDecided
  <2> SUFFICES ASSUME IInv
               PROVE  ClosedIsDecided
    OBVIOUS
  <2>1. Existing \subseteq Findings
    BY RowTypes DEF IInv
  <2> QED
    BY <2>1 DEF IInv, RowsSound, ClosedIsDecided, Decided, Superseded
<1> QED
  BY <1>1, Invariance, PTL

\* What may reopen a closed finding: a lost update or a failed validation.
LEMMA ClosedStep ==
  ASSUME IInv, [Next]_vars, NEW f \in Existing, status[f] = "CLOSED",
         status'[f] # "CLOSED"
  PROVE  \/ f \in overwritten'
         \/ \E w \in Workers : ValidateSave(w) /\ call[w].f = f
<1>1. Types /\ f \in Findings /\ f # Nothing
  BY RowTypes DEF IInv
<1>2. Resolvable(f)
  <2> DEFINE d == resolvedBy[f]
  <2>1. Decided(f, d)
    BY <1>1 DEF IInv, RowsSound
  <2>2. d \in DOMAIN ledger /\ ledger[d].origin = f
    BY <2>1 DEF Decided
  <2>3. Fit(ledger[d].origin)
    BY <1>1, <2>2 DEF IInv, RowsSound
  <2> QED
    BY <2>2, <2>3 DEF Fit
<1>3. ASSUME status' = status
      PROVE  FALSE
  BY <1>3
<1>4. ASSUME NEW w \in Workers, Save(w)
      PROVE  f \in overwritten'
  <2>1. call[w].f = f
    BY <1>1, <1>4 DEF Save, Types, TableTypes
  <2>2. CASE ~ fresh[w]
    BY <1>4, <2>1, <2>2 DEF Save, Overwrite
  <2>3. CASE fresh[w]
    <3>1. /\ pc[w] = "save" /\ Knows(w) /\ Current(w)
      BY <1>4 DEF IInv, Save
    <3>2. "CLOSED" \in call[w].from /\ Harmless(call[w]) /\ call[w].want # None
      BY <2>1, <2>3, <3>1 DEF Knows, Current
    <3>3. Terminal(f)
      BY <2>1, <3>2 DEF Harmless
    <3> QED
      BY <1>2, <3>3 DEF Resolvable
  <2> QED
    BY <2>2, <2>3
<1>5. ASSUME NEW w \in Workers, ValidateSave(w)
      PROVE  call[w].f = f
  BY <1>1, <1>5 DEF ValidateSave, Types, TableTypes
<1>6. ASSUME NEW w \in Workers, Close(w)
      PROVE  FALSE
  BY <1>1, <1>6 DEF Close, Types, TableTypes
<1>7. ASSUME NEW w \in Workers, Serve(w)
      PROVE  status' = status \/ Save(w) \/ ValidateSave(w) \/ Close(w)
  BY <1>7 DEF Serve, GenerateCheck, GenerateInsert, Assign, CreatePlan, Dispatch,
     Validate, TriggerTerminal, Trigger, UpdateStatus, Callback, LookPlan, SavePlan,
     Look, CallbackLoad, CallbackLog, TerminateIntent, Approve, SupersedePrior,
     Crash, tables, findingVars
<1>8. ASSUME UNCHANGED vars \/ ~ \E w \in Workers : Serve(w)
      PROVE  status' = status
  BY <1>8 DEF Next, SubmitEvidence, Review, Redecide, vars, tables, findingVars
<1> QED
  BY <1>3, <1>4, <1>5, <1>6, <1>7, <1>8 DEF Next

\* A closed finding stays closed, but for a validation that fails and for
\* sessions that lose updates.
THEOREM ClosedStays == Spec => ClosedStaysUnlessOverwritten
<1>1. IInv /\ [Next]_vars =>
        [\A f \in Existing :
           status[f] = "CLOSED" /\ status'[f] # "CLOSED" =>
             \/ f \in overwritten'
             \/ \E w \in Workers : pc[w] = "validate" /\ call[w].f = f
                                   /\ pc'[w] # "validate"]_vars
  <2>1. ASSUME Types, NEW w \in Workers, ValidateSave(w)
        PROVE  pc[w] = "validate" /\ pc'[w] # "validate"
    BY <2>1 DEF ValidateSave, Types
  <2> QED
    BY <2>1, ClosedStep DEF IInv
<1> QED
  BY <1>1, Invariance, PTL DEF Spec, ClosedStaysUnlessOverwritten

\* Where generate calls neither raced nor stopped, the findings are the ones
\* that the rules give, each once.
THEOREM GeneratedOnce == Spec => []GeneratedOnceUnlessBroken
<1>1. IInv => GeneratedOnceUnlessBroken
  <2> SUFFICES ASSUME IInv, kind # << >>, ~ broken,
                      \A w \in Workers : pc[w] # "generate"
               PROVE  kind = Due
    BY DEF GeneratedOnceUnlessBroken, Due
  <2>1. kind \in Seq(FindingTypes) /\ Due \in Seq(FindingTypes)
    BY DueType DEF IInv, Types, TableTypes
  <2>2. Len(kind) # 0
    BY <2>1, EmptySeq
  <2>3. Len(kind) = Len(Due) /\ \A i \in 1 .. Len(kind) : kind[i] = Due[i]
    BY <2>2 DEF IInv, Generated
  <2> QED
    BY <2>1, <2>3, SeqEqual
<1> QED
  BY <1>1, Invariance, PTL

\* No callback that was acknowledged is missing, unless two of them raced.
THEOREM CallbacksKept == Spec => []CallbacksKeptUnlessRaced
<1>1. IInv => CallbacksKeptUnlessRaced
  <2> SUFFICES ASSUME IInv
               PROVE  CallbacksKeptUnlessRaced
    OBVIOUS
  <2>1. \A d \in DOMAIN sent : d \in Dispatches
    BY RowTypes DEF IInv
  <2> QED
    BY <2>1 DEF IInv, RowsSound, CallbacksKeptUnlessRaced
<1> QED
  BY <1>1, Invariance, PTL

-----------------------------------------------------------------------------
(* Calls served one at a time *)

\* What a single worker thread would guarantee, and what it would spare.
OneAtATime ==
  \A v, w \in Workers : pc[v] # "idle" /\ pc[w] # "idle" => v = w

NothingLost ==
  overwritten = {} /\ unlogged = {} /\ \A w \in Workers : fresh[w]

LEMMA NothingLostNext ==
  Types /\ OneAtATime /\ NothingLost /\ [Next]_vars => NothingLost'
<1> SUFFICES ASSUME Types, OneAtATime, NothingLost, [Next]_vars
             PROVE  NothingLost'
  OBVIOUS
<1> DEFINE Unwritten == UNCHANGED <<overwritten, unlogged>>
<1>1. ASSUME UNCHANGED <<fresh, overwritten, unlogged>>
      PROVE  NothingLost'
  BY <1>1 DEF NothingLost
<1>2. ASSUME NEW w \in Workers, NEW value, Copy(w, value), Unwritten
      PROVE  NothingLost'
  BY <1>2 DEF Copy, NothingLost, Types, CopyTypes
<1>3. ASSUME NEW w \in Workers, Save(w) \/ ValidateSave(w) \/ Close(w)
      PROVE  NothingLost'
  <2>1. \A v \in Workers \ {w} : pc[v] = "idle"
    BY <1>3 DEF OneAtATime, Save, ValidateSave, Close
  <2>2. \A v \in Workers : fresh'[v]
    BY <1>3, <2>1 DEF Save, ValidateSave, Close, Outdate, NothingLost
  <2>3. Unwritten
    BY <1>3 DEF Save, ValidateSave, Close, Overwrite, NothingLost, historyVars
  <2> QED
    BY <2>2, <2>3 DEF NothingLost
<1>4. ASSUME NEW w \in Workers, CallbackLog(w)
      PROVE  NothingLost'
  <2>1. \A v \in Workers \ {w} : pc[v] = "idle"
    BY <1>4 DEF OneAtATime, CallbackLog
  <2>2. \A v \in Workers : fresh'[v]
    BY <1>4, <2>1 DEF CallbackLog, OutdateLog, NothingLost
  <2> QED
    BY <1>4, <2>2 DEF CallbackLog, NothingLost
<1>5. ASSUME NEW w \in Workers, CallbackLoad(w)
      PROVE  NothingLost'
  BY <1>5 DEF CallbackLoad, NothingLost, historyVars, Types, CopyTypes
<1>6. ASSUME NEW w \in Workers, LookPlan(w) \/ Look(w)
      PROVE  NothingLost'
  BY <1>1, <1>2, <1>6 DEF LookPlan, Look, historyVars
<1>7. ASSUME NEW w \in Workers, NEW f \in Existing, Validate(w, f)
      PROVE  NothingLost'
  BY <1>2, <1>7 DEF Validate, historyVars
<1>8. ASSUME NEW w \in Workers, NEW p \in DOMAIN plans,
             NEW new, UpdateStatus(w, p, new)
      PROVE  NothingLost'
  BY <1>2, <1>8 DEF UpdateStatus, historyVars
<1>9. ASSUME NEW w \in Workers, NEW f \in Existing,
             \/ Assign(w, f) \/ TriggerTerminal(w, f) \/ Trigger(w, f)
             \/ \E required \in BOOLEAN : CreatePlan(w, f, required)
             \/ \E p \in DOMAIN plans \cup {Nothing}, accepted \in BOOLEAN :
                  Dispatch(w, f, p, accepted)
      PROVE  NothingLost'
  BY <1>1, <1>9 DEF Assign, TriggerTerminal, Trigger, CreatePlan, Dispatch, historyVars
<1>10. ASSUME NEW w \in Workers, Serve(w)
       PROVE  NothingLost'
  <2>1. ASSUME \/ GenerateCheck(w) \/ GenerateInsert(w) \/ SavePlan(w)
               \/ TerminateIntent(w) \/ Approve(w) \/ SupersedePrior(w) \/ Crash(w)
               \/ \E d, reported, items : Callback(w, d, reported, items)
        PROVE  NothingLost'
    BY <1>1, <2>1 DEF GenerateCheck, GenerateInsert, SavePlan, TerminateIntent,
       Approve, SupersedePrior, Crash, Callback, historyVars
  <2> QED
    BY <1>3, <1>4, <1>5, <1>6, <1>7, <1>8, <1>9, <1>10, <2>1 DEF Serve
<1>11. ASSUME ~ \E w \in Workers : Serve(w)
       PROVE  NothingLost'
  BY <1>1, <1>11 DEF Next, SubmitEvidence, Review, Redecide, vars, sessionVars,
     historyVars
<1> QED
  BY <1>10, <1>11

LEMMA SerialNothingLost == Spec /\ []OneAtATime => []NothingLost
<1>1. Init => NothingLost
  BY DEF Init, NothingLost
<1>2. IInv => Types
  BY DEF IInv
<1> QED
  BY <1>1, <1>2, Invariance, NothingLostNext, PTL DEF Spec

CallbacksKeptAll == \A d \in DOMAIN sent : logged[d] = answered[d]

\* Where calls are served one at a time, every callback that was acknowledged
\* is in its dispatch's list.
THEOREM SerialCallbacksKept == Spec /\ []OneAtATime => []CallbacksKeptAll
<1>1. CallbacksKeptUnlessRaced /\ NothingLost => CallbacksKeptAll
  BY DEF CallbacksKeptUnlessRaced, NothingLost, CallbacksKeptAll
<1> QED
  BY <1>1, CallbacksKept, SerialNothingLost, PTL

ClosedUntilRefused ==
  [][\A f \in Existing :
       status[f] = "CLOSED" /\ status'[f] # "CLOSED" =>
         \E w \in Workers : /\ pc[w] = "validate" /\ call[w].f = f
                            /\ call[w].verdict = "REFUSED"]_vars

\* Where calls are served one at a time, nothing but a validation that fails
\* takes a finding out of CLOSED.
THEOREM SerialClosedStays == Spec /\ []OneAtATime => ClosedUntilRefused
<1>1. IInv /\ NothingLost /\ NothingLost' /\ [Next]_vars =>
        [\A f \in Existing :
           status[f] = "CLOSED" /\ status'[f] # "CLOSED" =>
             \E w \in Workers : /\ pc[w] = "validate" /\ call[w].f = f
                                /\ call[w].verdict = "REFUSED"]_vars
  <2> SUFFICES ASSUME IInv, NothingLost, NothingLost', [Next]_vars,
                      NEW f \in Existing, status[f] = "CLOSED", status'[f] # "CLOSED"
               PROVE  \E w \in Workers : /\ pc[w] = "validate" /\ call[w].f = f
                                         /\ call[w].verdict = "REFUSED"
    OBVIOUS
  <2>1. PICK w \in Workers : ValidateSave(w) /\ call[w].f = f
    BY ClosedStep DEF NothingLost
  <2>2. /\ pc[w] = "validate" /\ f \in Findings /\ status \in [Findings -> FindingStatus]
        /\ Knows(w)
    BY <2>1, RowTypes DEF IInv, ValidateSave, Types, TableTypes
  <2>3. seen[w] = "CLOSED"
    BY <2>1, <2>2 DEF IInv, Current, NothingLost
  <2>4. call[w].want # "CLOSED"
    BY <2>1, <2>2 DEF ValidateSave, Put
  <2> QED
    BY <2>1, <2>2, <2>3, <2>4 DEF Knows
<1> QED
  BY <1>1, Invariance, SerialNothingLost, PTL DEF Spec, ClosedUntilRefused
=============================================================================
