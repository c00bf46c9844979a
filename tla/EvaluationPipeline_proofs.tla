---------------------- MODULE EvaluationPipeline_proofs ----------------------
(***************************************************************************)
(* Proofs about EvaluationPipeline, for any number of workers and calls    *)
(* and any governing package.                                              *)
(*                                                                         *)
(* The inductive invariant lists the agendas a call can have and what it   *)
(* has obtained by then: the rows that it needs exist, and if nothing has  *)
(* come during a decision they are the newest ones.                        *)
(***************************************************************************)
EXTENDS EvaluationPipeline, FiniteSetTheorems, SequenceTheorems,
        WellFoundedInduction, TLAPS

\* What a deciding call has obtained: a control set, a package, and its first
\* n sufficiency records; the newest ones unless the call has been disturbed.
ObtainedControls(w) ==
  /\ controlSet[w] # 0
  /\ w \notin disturbed => controlSets[controlSet[w]] = results

ObtainedPackage(w) ==
  /\ package[w] # 0
  /\ w \notin disturbed => package[w] = Len(packages)

Judged(w, n) ==
  /\ Len(judged[w]) = n
  /\ w \notin disturbed => \A k \in 1 .. n : judged[w][k] = Len(packages)

ReportSound(w) ==
  /\ Judged(w, 0)
  /\ \/ agenda[w] \in
          {<<"checkSufficiency", "checkControls", "checkSufficiency",
             "readPackage", "decide">>,
           <<"readPackage", "insertSufficiency", "checkControls",
             "checkSufficiency", "readPackage", "decide">>}
     \/ /\ agenda[w] = <<"insertSufficiency", "checkControls",
                         "checkSufficiency", "readPackage", "decide">>
        /\ ObtainedPackage(w)

ControlsSound(w) ==
  /\ Judged(w, 1)
  /\ \/ agenda[w] \in
          {<<"checkControls", "checkSufficiency", "readPackage", "decide">>,
           <<"readResults", "insertControls", "checkSufficiency",
             "readPackage", "decide">>}
     \/ /\ agenda[w] = <<"insertControls", "checkSufficiency", "readPackage",
                         "decide">>
        /\ w \notin disturbed => basis[w] = results

CountSound(w) ==
  /\ Judged(w, 1) /\ ObtainedControls(w)
  /\ \/ agenda[w] \in
          {<<"checkSufficiency", "readPackage", "decide">>,
           <<"readPackage", "insertSufficiency", "readPackage", "decide">>}
     \/ /\ agenda[w] = <<"insertSufficiency", "readPackage", "decide">>
        /\ ObtainedPackage(w)

ObserveSound(w) ==
  /\ Judged(w, 2) /\ ObtainedControls(w)
  /\ \/ agenda[w] = <<"readPackage", "decide">>
     \/ agenda[w] = <<"decide">> /\ ObtainedPackage(w)

DecideSound(w) ==
  /\ packages # << >>
  /\ ReportSound(w) \/ ControlsSound(w) \/ CountSound(w) \/ ObserveSound(w)

\* The other calls: each has the rows that its next steps refer to.
DetermineSound(w) ==
  agenda[w] \in {<< >>, <<"record">>, <<"insertControls">>,
                 <<"readResults", "insertControls">>}

RequireSound(w) ==
  \/ agenda[w] \in
       {<<"checkControls", "insertEvidence">>,
        <<"readResults", "insertControls", "insertEvidence">>,
        <<"insertControls", "insertEvidence">>,
        <<"checkControls", "insertEvidence", "package">>,
        <<"readResults", "insertControls", "insertEvidence", "package">>,
        <<"insertControls", "insertEvidence", "package">>}
  \/ /\ agenda[w] \in {<<"insertEvidence">>, <<"insertEvidence", "package">>}
     /\ controlSet[w] # 0

CollectSound(w) ==
  /\ evidenceSet[w] # 0
  /\ \/ agenda[w] \in
          {<<"checkControls", "compare", "package">>,
           <<"readResults", "insertControls", "compare", "package">>,
           <<"insertControls", "compare", "package">>,
           <<"package">>}
     \/ agenda[w] = <<"compare", "package">> /\ controlSet[w] # 0

CallSound(w) ==
  \/ judged[w] = << >> /\ (DetermineSound(w) \/ RequireSound(w) \/ CollectSound(w))
  \/ DecideSound(w)

\* The decision follows from the rows it refers to.
DecisionSound ==
  decision.outcome # None =>
    /\ decision.controlSet # 0 /\ decision.counted # 0 /\ decision.observed # 0
    /\ decision.outcome =
         ResolveOutcome(
           ConditionOutcome(decision.matching),
           Assessment(MandatoryResults(decision.controlSet, decision.counted,
                                       decision.observed)),
           decision.authority)

IInv ==
  /\ TypeOK
  /\ \A w \in Workers : CallSound(w)
  /\ DecisionSound

-----------------------------------------------------------------------------
(* Types *)

\* TypeOK by the lengths of the tables.
RowTypes ==
  /\ results \in Results
  /\ controlSets \in Seq(Results)
  /\ evidenceSets \in Seq(1 .. Len(controlSets))
  /\ packages \in Seq([set : 1 .. Len(evidenceSets), found : Collections,
                       observed : Observations])
  /\ sufficiency \in 0 .. Len(packages)

DecisionType ==
  /\ decision.outcome \in Outcome \cup {None}
  /\ decision.matching \subseteq DOMAIN Conditions
  /\ decision.authority \in {None, "UNAVAILABLE"}
  /\ decision.controlSet \in 0 .. Len(controlSets)
  /\ decision.reported \in 0 .. Len(packages)
  /\ decision.counted \in 0 .. Len(packages)
  /\ decision.observed \in 0 .. Len(packages)
  /\ decision.bound \in 0 .. Len(packages)
  /\ decision.disturbed \in BOOLEAN

CallTypes ==
  /\ agenda \in [Workers -> Seq(Steps)]
  /\ derived \in [Workers -> Results] /\ basis \in [Workers -> Results]
  /\ controlSet \in [Workers -> 0 .. Len(controlSets)]
  /\ evidenceSet \in [Workers -> 0 .. Len(evidenceSets)]
  /\ package \in [Workers -> 0 .. Len(packages)]
  /\ judged \in [Workers -> Seq(1 .. Len(packages))]
  /\ disturbed \subseteq Workers
  /\ calls \in 0 .. MaxCalls

LEMMA Types ==
  TypeOK <=> world \in Worlds /\ RowTypes /\ DecisionType /\ CallTypes
<1>1. ASSUME NEW S, NEW s \in Seq(S)
      PROVE  Len(s) \in Nat /\ DOMAIN s = 1 .. Len(s) /\ {0} \cup 1 .. Len(s) = 0 .. Len(s)
  OBVIOUS
<1>2. controlSets \in Seq(Results) =>
        DOMAIN controlSets = 1 .. Len(controlSets)
        /\ {0} \cup 1 .. Len(controlSets) = 0 .. Len(controlSets)
  BY <1>1
<1>3. evidenceSets \in Seq(1 .. Len(controlSets)) =>
        DOMAIN evidenceSets = 1 .. Len(evidenceSets)
        /\ {0} \cup 1 .. Len(evidenceSets) = 0 .. Len(evidenceSets)
  BY <1>1
<1>4. packages \in Seq([set : 1 .. Len(evidenceSets), found : Collections,
                        observed : Observations]) =>
        DOMAIN packages = 1 .. Len(packages)
        /\ {0} \cup 1 .. Len(packages) = 0 .. Len(packages)
  BY <1>1
<1>5. TypeOK => world \in Worlds /\ RowTypes /\ DecisionType /\ CallTypes
  BY <1>2, <1>3, <1>4 DEF TypeOK, RowTypes, DecisionType, CallTypes
<1>6. world \in Worlds /\ RowTypes /\ DecisionType /\ CallTypes => TypeOK
  BY <1>2, <1>3, <1>4 DEF TypeOK, RowTypes, DecisionType, CallTypes
<1> QED
  BY <1>5, <1>6

LEMMA TypesNext ==
  TypeOK' <=> (world \in Worlds /\ RowTypes /\ DecisionType /\ CallTypes)'
BY Types, PTL

\* A table only grows.
Grown(s, t) ==
  /\ Len(s) \in Nat /\ Len(t) \in Nat /\ Len(s) <= Len(t)
  /\ \A k \in 1 .. Len(s) : t[k] = s[k]

RowsGrow ==
  /\ Grown(controlSets, controlSets') /\ Grown(evidenceSets, evidenceSets')
  /\ Grown(packages, packages')

LEMMA AppendGrows ==
  ASSUME NEW S, NEW s \in Seq(S), NEW e
  PROVE  /\ Grown(s, s)
         /\ e \in S => /\ Append(s, e) \in Seq(S) /\ Grown(s, Append(s, e))
                       /\ Len(Append(s, e)) = Len(s) + 1
                       /\ Append(s, e)[Len(s) + 1] = e
BY DEF Grown

LEMMA RowsStay ==
  ASSUME TypeOK, UNCHANGED <<controlSets, evidenceSets, packages>>
  PROVE  RowsGrow
BY Types, AppendGrows DEF RowTypes, RowsGrow

\* References stay references when their tables grow.
LEMMA ReferencesKept ==
  ASSUME TypeOK, RowsGrow
  PROVE  /\ 0 .. Len(controlSets) \subseteq 0 .. Len(controlSets')
         /\ 0 .. Len(evidenceSets) \subseteq 0 .. Len(evidenceSets')
         /\ 0 .. Len(packages) \subseteq 0 .. Len(packages')
         /\ 1 .. Len(controlSets) \subseteq 1 .. Len(controlSets')
         /\ 1 .. Len(evidenceSets) \subseteq 1 .. Len(evidenceSets')
         /\ 1 .. Len(packages) \subseteq 1 .. Len(packages')
BY DEF RowsGrow, Grown

-----------------------------------------------------------------------------
(* What a step leaves of the calls it is not of *)

CallKept(w) ==
  /\ agenda'[w] = agenda[w] /\ basis'[w] = basis[w]
  /\ controlSet'[w] = controlSet[w] /\ evidenceSet'[w] = evidenceSet[w]
  /\ package'[w] = package[w] /\ judged'[w] = judged[w]

\* Nothing comes that could disturb a decision, or else it is disturbed.
Followed(w) ==
  \/ /\ w \in disturbed' <=> w \in disturbed
     /\ UNCHANGED <<results, packages>>
  \/ Deciding(w) => w \in disturbed'

LEMMA DecideAgendas ==
  ASSUME NEW w \in Workers, DecideSound(w)
  PROVE  Deciding(w)
<1> DEFINE Decides(a) == a # << >> /\ a[Len(a)] = "decide"
<1>1. ReportSound(w) => Decides(agenda[w])
  <2>1. Decides(<<"checkSufficiency", "checkControls",
                  "checkSufficiency", "readPackage", "decide">>)
    OBVIOUS
  <2>2. Decides(<<"readPackage", "insertSufficiency", "checkControls", "checkSufficiency",
                  "readPackage", "decide">>)
    OBVIOUS
  <2>3. Decides(<<"insertSufficiency", "checkControls",
                  "checkSufficiency", "readPackage", "decide">>)
    OBVIOUS
  <2> HIDE DEF Decides
  <2> QED
    BY <2>1, <2>2, <2>3 DEF ReportSound
<1>2. ControlsSound(w) => Decides(agenda[w])
  <2>1. Decides(<<"checkControls", "checkSufficiency", "readPackage", "decide">>)
    OBVIOUS
  <2>2. Decides(<<"readResults", "insertControls",
                  "checkSufficiency", "readPackage", "decide">>)
    OBVIOUS
  <2>3. Decides(<<"insertControls", "checkSufficiency", "readPackage", "decide">>)
    OBVIOUS
  <2> HIDE DEF Decides
  <2> QED
    BY <2>1, <2>2, <2>3 DEF ControlsSound
<1>3. CountSound(w) => Decides(agenda[w])
  <2>1. Decides(<<"checkSufficiency", "readPackage", "decide">>)
    OBVIOUS
  <2>2. Decides(<<"readPackage", "insertSufficiency", "readPackage", "decide">>)
    OBVIOUS
  <2>3. Decides(<<"insertSufficiency", "readPackage", "decide">>)
    OBVIOUS
  <2> HIDE DEF Decides
  <2> QED
    BY <2>1, <2>2, <2>3 DEF CountSound
<1>4. ObserveSound(w) => Decides(agenda[w])
  <2>1. Decides(<<"readPackage", "decide">>)
    OBVIOUS
  <2>2. Decides(<<"decide">>)
    OBVIOUS
  <2> HIDE DEF Decides
  <2> QED
    BY <2>1, <2>2 DEF ObserveSound
<1> QED
  BY <1>1, <1>2, <1>3, <1>4 DEF DecideSound, Deciding, Idle

LEMMA CallKeptSound ==
  ASSUME NEW w \in Workers, TypeOK, CallSound(w), CallKept(w), Followed(w), RowsGrow
  PROVE  CallSound(w)'
<1>1. CASE judged[w] = << >> /\ (DetermineSound(w) \/ RequireSound(w) \/ CollectSound(w))
  BY <1>1 DEF CallSound, CallKept, DetermineSound, RequireSound, CollectSound
<1>2. CASE DecideSound(w)
  <2>1. packages' # << >>
    <3>1. Len(packages) # 0
      BY <1>2, Types, EmptySeq DEF DecideSound, RowTypes
    <3>2. Len(packages') # 0
      BY <3>1 DEF RowsGrow, Grown
    <3> QED
      BY <3>2
  <2>2. ObtainedControls(w) => ObtainedControls(w)'
    <3>1. controlSet[w] \in 0 .. Len(controlSets)
      BY Types DEF CallTypes
    <3> QED
      BY <1>2, <3>1, DecideAgendas
         DEF ObtainedControls, CallKept, Followed, RowsGrow, Grown
  <2>3. ObtainedPackage(w) => ObtainedPackage(w)'
    BY <1>2, DecideAgendas DEF ObtainedPackage, CallKept, Followed
  <2>4. ASSUME NEW n, Judged(w, n)
        PROVE  Judged(w, n)'
    BY <1>2, <2>4, DecideAgendas DEF Judged, CallKept, Followed
  <2>5. (w \notin disturbed => basis[w] = results) =>
          (w \notin disturbed => basis[w] = results)'
    BY <1>2, DecideAgendas DEF CallKept, Followed
  <2>6. ReportSound(w) => ReportSound(w)'
    BY <2>3, <2>4 DEF ReportSound, CallKept
  <2>7. ControlsSound(w) => ControlsSound(w)'
    BY <2>4, <2>5 DEF ControlsSound, CallKept
  <2>8. CountSound(w) => CountSound(w)'
    BY <2>2, <2>3, <2>4 DEF CountSound, CallKept
  <2>9. ObserveSound(w) => ObserveSound(w)'
    BY <2>2, <2>3, <2>4 DEF ObserveSound, CallKept
  <2> QED
    BY <1>2, <2>1, <2>6, <2>7, <2>8, <2>9 DEF DecideSound, CallSound
<1> QED
  BY <1>1, <1>2 DEF CallSound
-----------------------------------------------------------------------------
(* What a call has obtained when it is at a step *)

LEMMA AtRecord ==
  ASSUME NEW w \in Workers, CallSound(w), At(w, "record")
  PROVE  /\ agenda[w] = <<"record">>
         /\ judged[w] = << >>
<1> USE DEF At, Idle
<1>1. DetermineSound(w) =>
        agenda[w] = <<"record">>
  BY DEF DetermineSound
<1>2. ~ RequireSound(w)
  BY DEF RequireSound
<1>3. ~ CollectSound(w)
  BY DEF CollectSound
<1>4. ~ ReportSound(w)
  BY DEF ReportSound
<1>5. ~ ControlsSound(w)
  BY DEF ControlsSound
<1>6. ~ CountSound(w)
  BY DEF CountSound
<1>7. ~ ObserveSound(w)
  BY DEF ObserveSound
<1> QED
  BY <1>1, <1>2, <1>3, <1>4, <1>5, <1>6, <1>7 DEF CallSound, DecideSound

LEMMA AtCheckControls ==
  ASSUME NEW w \in Workers, CallSound(w), At(w, "checkControls")
  PROVE  \/ /\ agenda[w] = <<"checkControls", "insertEvidence">>
            /\ judged[w] = << >>
         \/ /\ agenda[w] = <<"checkControls", "insertEvidence", "package">>
            /\ judged[w] = << >>
         \/ /\ agenda[w] = <<"checkControls", "compare", "package">>
            /\ evidenceSet[w] # 0 /\ judged[w] = << >>
         \/ /\ agenda[w] = <<"checkControls", "checkSufficiency", "readPackage",
                             "decide">>
            /\ Judged(w, 1) /\ packages # << >>
<1> USE DEF At, Idle
<1>1. ~ DetermineSound(w)
  BY DEF DetermineSound
<1>2. RequireSound(w) =>
        \/ agenda[w] = <<"checkControls", "insertEvidence">>
        \/ agenda[w] = <<"checkControls", "insertEvidence", "package">>
  BY DEF RequireSound
<1>3. CollectSound(w) =>
        /\ agenda[w] = <<"checkControls", "compare", "package">>
        /\ evidenceSet[w] # 0
  BY DEF CollectSound
<1>4. ~ ReportSound(w)
  BY DEF ReportSound
<1>5. ControlsSound(w) =>
        /\ agenda[w] = <<"checkControls", "checkSufficiency", "readPackage",
                         "decide">>
        /\ Judged(w, 1)
  BY DEF ControlsSound
<1>6. ~ CountSound(w)
  BY DEF CountSound
<1>7. ~ ObserveSound(w)
  BY DEF ObserveSound
<1> QED
  BY <1>1, <1>2, <1>3, <1>4, <1>5, <1>6, <1>7 DEF CallSound, DecideSound

LEMMA AtReadResults ==
  ASSUME NEW w \in Workers, CallSound(w), At(w, "readResults")
  PROVE  \/ /\ agenda[w] = <<"readResults", "insertControls">>
            /\ judged[w] = << >>
         \/ /\ agenda[w] = <<"readResults", "insertControls", "insertEvidence">>
            /\ judged[w] = << >>
         \/ /\ agenda[w] = <<"readResults", "insertControls", "insertEvidence",
                             "package">>
            /\ judged[w] = << >>
         \/ /\ agenda[w] = <<"readResults", "insertControls", "compare", "package">>
            /\ evidenceSet[w] # 0 /\ judged[w] = << >>
         \/ /\ agenda[w] = <<"readResults", "insertControls", "checkSufficiency",
                             "readPackage", "decide">>
            /\ Judged(w, 1) /\ packages # << >>
<1> USE DEF At, Idle
<1>1. DetermineSound(w) =>
        agenda[w] = <<"readResults", "insertControls">>
  BY DEF DetermineSound
<1>2. RequireSound(w) =>
        \/ agenda[w] = <<"readResults", "insertControls", "insertEvidence">>
        \/ agenda[w] = <<"readResults", "insertControls", "insertEvidence",
                         "package">>
  BY DEF RequireSound
<1>3. CollectSound(w) =>
        /\ agenda[w] = <<"readResults", "insertControls", "compare", "package">>
        /\ evidenceSet[w] # 0
  BY DEF CollectSound
<1>4. ~ ReportSound(w)
  BY DEF ReportSound
<1>5. ControlsSound(w) =>
        /\ agenda[w] = <<"readResults", "insertControls", "checkSufficiency",
                         "readPackage", "decide">>
        /\ Judged(w, 1)
  BY DEF ControlsSound
<1>6. ~ CountSound(w)
  BY DEF CountSound
<1>7. ~ ObserveSound(w)
  BY DEF ObserveSound
<1> QED
  BY <1>1, <1>2, <1>3, <1>4, <1>5, <1>6, <1>7 DEF CallSound, DecideSound

LEMMA AtInsertControls ==
  ASSUME NEW w \in Workers, CallSound(w), At(w, "insertControls")
  PROVE  \/ /\ agenda[w] = <<"insertControls">>
            /\ judged[w] = << >>
         \/ /\ agenda[w] = <<"insertControls", "insertEvidence">>
            /\ judged[w] = << >>
         \/ /\ agenda[w] = <<"insertControls", "insertEvidence", "package">>
            /\ judged[w] = << >>
         \/ /\ agenda[w] = <<"insertControls", "compare", "package">>
            /\ evidenceSet[w] # 0 /\ judged[w] = << >>
         \/ /\ agenda[w] = <<"insertControls", "checkSufficiency", "readPackage",
                             "decide">>
            /\ Judged(w, 1) /\ (w \notin disturbed => basis[w] = results) /\ packages # << >>
<1> USE DEF At, Idle
<1>1. DetermineSound(w) =>
        agenda[w] = <<"insertControls">>
  BY DEF DetermineSound
<1>2. RequireSound(w) =>
        \/ agenda[w] = <<"insertControls", "insertEvidence">>
        \/ agenda[w] = <<"insertControls", "insertEvidence", "package">>
  BY DEF RequireSound
<1>3. CollectSound(w) =>
        /\ agenda[w] = <<"insertControls", "compare", "package">>
        /\ evidenceSet[w] # 0
  BY DEF CollectSound
<1>4. ~ ReportSound(w)
  BY DEF ReportSound
<1>5. ControlsSound(w) =>
        /\ agenda[w] = <<"insertControls", "checkSufficiency", "readPackage",
                         "decide">>
        /\ Judged(w, 1) /\ (w \notin disturbed => basis[w] = results)
  BY DEF ControlsSound
<1>6. ~ CountSound(w)
  BY DEF CountSound
<1>7. ~ ObserveSound(w)
  BY DEF ObserveSound
<1> QED
  BY <1>1, <1>2, <1>3, <1>4, <1>5, <1>6, <1>7 DEF CallSound, DecideSound

LEMMA AtInsertEvidence ==
  ASSUME NEW w \in Workers, CallSound(w), At(w, "insertEvidence")
  PROVE  \/ /\ agenda[w] = <<"insertEvidence">>
            /\ controlSet[w] # 0 /\ judged[w] = << >>
         \/ /\ agenda[w] = <<"insertEvidence", "package">>
            /\ controlSet[w] # 0 /\ judged[w] = << >>
<1> USE DEF At, Idle
<1>1. ~ DetermineSound(w)
  BY DEF DetermineSound
<1>2. RequireSound(w) =>
        \/ /\ agenda[w] = <<"insertEvidence">>
           /\ controlSet[w] # 0
        \/ /\ agenda[w] = <<"insertEvidence", "package">>
           /\ controlSet[w] # 0
  BY DEF RequireSound
<1>3. ~ CollectSound(w)
  BY DEF CollectSound
<1>4. ~ ReportSound(w)
  BY DEF ReportSound
<1>5. ~ ControlsSound(w)
  BY DEF ControlsSound
<1>6. ~ CountSound(w)
  BY DEF CountSound
<1>7. ~ ObserveSound(w)
  BY DEF ObserveSound
<1> QED
  BY <1>1, <1>2, <1>3, <1>4, <1>5, <1>6, <1>7 DEF CallSound, DecideSound

LEMMA AtCompare ==
  ASSUME NEW w \in Workers, CallSound(w), At(w, "compare")
  PROVE  /\ agenda[w] = <<"compare", "package">>
         /\ evidenceSet[w] # 0 /\ controlSet[w] # 0 /\ judged[w] = << >>
<1> USE DEF At, Idle
<1>1. ~ DetermineSound(w)
  BY DEF DetermineSound
<1>2. ~ RequireSound(w)
  BY DEF RequireSound
<1>3. CollectSound(w) =>
        /\ agenda[w] = <<"compare", "package">>
        /\ evidenceSet[w] # 0 /\ controlSet[w] # 0
  BY DEF CollectSound
<1>4. ~ ReportSound(w)
  BY DEF ReportSound
<1>5. ~ ControlsSound(w)
  BY DEF ControlsSound
<1>6. ~ CountSound(w)
  BY DEF CountSound
<1>7. ~ ObserveSound(w)
  BY DEF ObserveSound
<1> QED
  BY <1>1, <1>2, <1>3, <1>4, <1>5, <1>6, <1>7 DEF CallSound, DecideSound

LEMMA AtPackage ==
  ASSUME NEW w \in Workers, CallSound(w), At(w, "package")
  PROVE  /\ agenda[w] = <<"package">>
         /\ evidenceSet[w] # 0 /\ judged[w] = << >>
<1> USE DEF At, Idle
<1>1. ~ DetermineSound(w)
  BY DEF DetermineSound
<1>2. ~ RequireSound(w)
  BY DEF RequireSound
<1>3. CollectSound(w) =>
        /\ agenda[w] = <<"package">>
        /\ evidenceSet[w] # 0
  BY DEF CollectSound
<1>4. ~ ReportSound(w)
  BY DEF ReportSound
<1>5. ~ ControlsSound(w)
  BY DEF ControlsSound
<1>6. ~ CountSound(w)
  BY DEF CountSound
<1>7. ~ ObserveSound(w)
  BY DEF ObserveSound
<1> QED
  BY <1>1, <1>2, <1>3, <1>4, <1>5, <1>6, <1>7 DEF CallSound, DecideSound

LEMMA AtCheckSufficiency ==
  ASSUME NEW w \in Workers, CallSound(w), At(w, "checkSufficiency")
  PROVE  \/ /\ agenda[w] = <<"checkSufficiency", "checkControls",
                             "checkSufficiency", "readPackage", "decide">>
            /\ Judged(w, 0) /\ packages # << >>
         \/ /\ agenda[w] = <<"checkSufficiency", "readPackage", "decide">>
            /\ Judged(w, 1) /\ ObtainedControls(w) /\ packages # << >>
<1> USE DEF At, Idle
<1>1. ~ DetermineSound(w)
  BY DEF DetermineSound
<1>2. ~ RequireSound(w)
  BY DEF RequireSound
<1>3. ~ CollectSound(w)
  BY DEF CollectSound
<1>4. ReportSound(w) =>
        /\ agenda[w] = <<"checkSufficiency", "checkControls", "checkSufficiency",
                         "readPackage", "decide">>
        /\ Judged(w, 0)
  BY DEF ReportSound
<1>5. ~ ControlsSound(w)
  BY DEF ControlsSound
<1>6. CountSound(w) =>
        /\ agenda[w] = <<"checkSufficiency", "readPackage", "decide">>
        /\ Judged(w, 1) /\ ObtainedControls(w)
  BY DEF CountSound
<1>7. ~ ObserveSound(w)
  BY DEF ObserveSound
<1> QED
  BY <1>1, <1>2, <1>3, <1>4, <1>5, <1>6, <1>7 DEF CallSound, DecideSound

LEMMA AtReadPackage ==
  ASSUME NEW w \in Workers, CallSound(w), At(w, "readPackage")
  PROVE  \/ /\ agenda[w] = <<"readPackage", "insertSufficiency", "checkControls",
                             "checkSufficiency", "readPackage", "decide">>
            /\ Judged(w, 0) /\ packages # << >>
         \/ /\ agenda[w] = <<"readPackage", "insertSufficiency", "readPackage",
                             "decide">>
            /\ Judged(w, 1) /\ ObtainedControls(w) /\ packages # << >>
         \/ /\ agenda[w] = <<"readPackage", "decide">>
            /\ Judged(w, 2) /\ ObtainedControls(w) /\ packages # << >>
<1> USE DEF At, Idle
<1>1. ~ DetermineSound(w)
  BY DEF DetermineSound
<1>2. ~ RequireSound(w)
  BY DEF RequireSound
<1>3. ~ CollectSound(w)
  BY DEF CollectSound
<1>4. ReportSound(w) =>
        /\ agenda[w] = <<"readPackage", "insertSufficiency", "checkControls",
                         "checkSufficiency", "readPackage", "decide">>
        /\ Judged(w, 0)
  BY DEF ReportSound
<1>5. ~ ControlsSound(w)
  BY DEF ControlsSound
<1>6. CountSound(w) =>
        /\ agenda[w] = <<"readPackage", "insertSufficiency", "readPackage",
                         "decide">>
        /\ Judged(w, 1) /\ ObtainedControls(w)
  BY DEF CountSound
<1>7. ObserveSound(w) =>
        /\ agenda[w] = <<"readPackage", "decide">>
        /\ Judged(w, 2) /\ ObtainedControls(w)
  BY DEF ObserveSound
<1> QED
  BY <1>1, <1>2, <1>3, <1>4, <1>5, <1>6, <1>7 DEF CallSound, DecideSound

LEMMA AtInsertSufficiency ==
  ASSUME NEW w \in Workers, CallSound(w), At(w, "insertSufficiency")
  PROVE  \/ /\ agenda[w] = <<"insertSufficiency", "checkControls",
                             "checkSufficiency", "readPackage", "decide">>
            /\ Judged(w, 0) /\ ObtainedPackage(w) /\ packages # << >>
         \/ /\ agenda[w] = <<"insertSufficiency", "readPackage", "decide">>
            /\ Judged(w, 1) /\ ObtainedControls(w) /\ ObtainedPackage(w) /\ packages # << >>
<1> USE DEF At, Idle
<1>1. ~ DetermineSound(w)
  BY DEF DetermineSound
<1>2. ~ RequireSound(w)
  BY DEF RequireSound
<1>3. ~ CollectSound(w)
  BY DEF CollectSound
<1>4. ReportSound(w) =>
        /\ agenda[w] = <<"insertSufficiency", "checkControls", "checkSufficiency",
                         "readPackage", "decide">>
        /\ Judged(w, 0) /\ ObtainedPackage(w)
  BY DEF ReportSound
<1>5. ~ ControlsSound(w)
  BY DEF ControlsSound
<1>6. CountSound(w) =>
        /\ agenda[w] = <<"insertSufficiency", "readPackage", "decide">>
        /\ Judged(w, 1) /\ ObtainedControls(w) /\ ObtainedPackage(w)
  BY DEF CountSound
<1>7. ~ ObserveSound(w)
  BY DEF ObserveSound
<1> QED
  BY <1>1, <1>2, <1>3, <1>4, <1>5, <1>6, <1>7 DEF CallSound, DecideSound

LEMMA AtDecide ==
  ASSUME NEW w \in Workers, CallSound(w), At(w, "decide")
  PROVE  /\ agenda[w] = <<"decide">>
         /\ Judged(w, 2) /\ ObtainedControls(w) /\ ObtainedPackage(w) /\ packages # << >>
<1> USE DEF At, Idle
<1>1. ~ DetermineSound(w)
  BY DEF DetermineSound
<1>2. ~ RequireSound(w)
  BY DEF RequireSound
<1>3. ~ CollectSound(w)
  BY DEF CollectSound
<1>4. ~ ReportSound(w)
  BY DEF ReportSound
<1>5. ~ ControlsSound(w)
  BY DEF ControlsSound
<1>6. ~ CountSound(w)
  BY DEF CountSound
<1>7. ObserveSound(w) =>
        /\ agenda[w] = <<"decide">>
        /\ Judged(w, 2) /\ ObtainedControls(w) /\ ObtainedPackage(w)
  BY DEF ObserveSound
<1> QED
  BY <1>1, <1>2, <1>3, <1>4, <1>5, <1>6, <1>7 DEF CallSound, DecideSound

-----------------------------------------------------------------------------
(* Agendas *)

LEMMA PutFirst ==
  ASSUME NEW x \in Steps, NEW y \in Steps, NEW t \in Seq(Steps)
  PROVE  /\ <<x, y>> \o t \in Seq(Steps) /\ Len(<<x, y>> \o t) = Len(t) + 2
         /\ (<<x, y>> \o t)[1] = x /\ (<<x, y>> \o t)[2] = y
         /\ \A k \in 1 .. Len(t) : (<<x, y>> \o t)[k + 2] = t[k]
<1> DEFINE s == <<x, y>>
<1>1. s \in Seq(Steps) /\ Len(s) = 2 /\ s[1] = x /\ s[2] = y
  OBVIOUS
<1> HIDE DEF s
<1>2. /\ s \o t \in Seq(Steps) /\ Len(s \o t) = Len(s) + Len(t)
      /\ \A k \in 1 .. Len(s) + Len(t) :
           (s \o t)[k] = IF k <= Len(s) THEN s[k] ELSE t[k - Len(s)]
  BY <1>1, ConcatProperties
<1>3. Len(t) \in Nat
  OBVIOUS
<1>4. /\ s \o t \in Seq(Steps) /\ Len(s \o t) = Len(t) + 2
      /\ (s \o t)[1] = x /\ (s \o t)[2] = y
      /\ \A k \in 1 .. Len(t) : (s \o t)[k + 2] = t[k]
  BY <1>1, <1>2, <1>3
<1> QED
  BY <1>4 DEF s

\* What the steps that put others before the rest of their call make of it.
LEMMA PutFirstAgendas ==
  ASSUME NEW x \in Steps, NEW y \in Steps
  PROVE  /\ <<x, y>> \o <<"insertEvidence">> = <<x, y, "insertEvidence">>
         /\ <<x, y>> \o <<"package">> = <<x, y, "package">>
         /\ <<x, y>> \o <<"insertEvidence", "package">> =
              <<x, y, "insertEvidence", "package">>
         /\ <<x, y>> \o <<"compare", "package">> = <<x, y, "compare", "package">>
         /\ <<x, y>> \o <<"readPackage", "decide">> =
              <<x, y, "readPackage", "decide">>
         /\ <<x, y>> \o <<"checkSufficiency", "readPackage", "decide">> =
              <<x, y, "checkSufficiency", "readPackage", "decide">>
         /\ <<x, y>> \o <<"checkControls", "checkSufficiency", "readPackage",
                          "decide">> =
              <<x, y, "checkControls", "checkSufficiency", "readPackage", "decide">>
<1>1. ASSUME NEW a \in Steps
      PROVE  <<x, y>> \o <<a>> = <<x, y, a>>
  <2>1. PICK t \in Seq(Steps) : t = <<a>> /\ Len(t) = 1 /\ t[1] = a
    <3>1. /\ <<a>> \in Seq(Steps) /\ Len(<<a>>) = 1
          /\ <<a>>[1] = a
      OBVIOUS
    <3> QED
      BY <3>1
  <2>2. PICK s \in Seq(Steps) : s = <<x, y>> \o t
    BY PutFirst
  <2>3. Len(s) = 3 /\ s[1] = x /\ s[2] = y /\ s[3] = a
    BY <2>1, <2>2, PutFirst
  <2>4. s = <<x, y, a>>
    BY <2>3
  <2> QED
    BY <2>1, <2>2, <2>4
<1>2. ASSUME NEW a \in Steps, NEW b \in Steps
      PROVE  <<x, y>> \o <<a, b>> = <<x, y, a, b>>
  <2>1. PICK t \in Seq(Steps) : t = <<a, b>> /\ Len(t) = 2 /\ t[1] = a /\ t[2] = b
    <3>1. /\ <<a, b>> \in Seq(Steps) /\ Len(<<a, b>>) = 2
          /\ <<a, b>>[1] = a /\ <<a, b>>[2] = b
      OBVIOUS
    <3> QED
      BY <3>1
  <2>2. PICK s \in Seq(Steps) : s = <<x, y>> \o t
    BY PutFirst
  <2>3. Len(s) = 4 /\ s[1] = x /\ s[2] = y /\ s[3] = a /\ s[4] = b
    BY <2>1, <2>2, PutFirst
  <2>4. s = <<x, y, a, b>>
    BY <2>3
  <2> QED
    BY <2>1, <2>2, <2>4
<1>3. ASSUME NEW a \in Steps, NEW b \in Steps, NEW c \in Steps
      PROVE  <<x, y>> \o <<a, b, c>> = <<x, y, a, b, c>>
  <2>1. PICK t \in Seq(Steps) :
          t = <<a, b, c>> /\ Len(t) = 3 /\ t[1] = a /\ t[2] = b /\ t[3] = c
    <3>1. /\ <<a, b, c>> \in Seq(Steps) /\ Len(<<a, b, c>>) = 3
          /\ <<a, b, c>>[1] = a /\ <<a, b, c>>[2] = b
          /\ <<a, b, c>>[3] = c
      OBVIOUS
    <3> QED
      BY <3>1
  <2>2. PICK s \in Seq(Steps) : s = <<x, y>> \o t
    BY PutFirst
  <2>3. Len(s) = 5 /\ s[1] = x /\ s[2] = y /\ s[3] = a /\ s[4] = b /\ s[5] = c
    BY <2>1, <2>2, PutFirst
  <2>4. s = <<x, y, a, b, c>>
    BY <2>3
  <2> QED
    BY <2>1, <2>2, <2>4
<1>4. ASSUME NEW a \in Steps, NEW b \in Steps, NEW c \in Steps, NEW d \in Steps
      PROVE  <<x, y>> \o <<a, b, c, d>> = <<x, y, a, b, c, d>>
  <2>1. PICK t \in Seq(Steps) :
          /\ t = <<a, b, c, d>> /\ Len(t) = 4
          /\ t[1] = a /\ t[2] = b /\ t[3] = c /\ t[4] = d
    <3>1. /\ <<a, b, c, d>> \in Seq(Steps) /\ Len(<<a, b, c, d>>) = 4
          /\ <<a, b, c, d>>[1] = a /\ <<a, b, c, d>>[2] = b
          /\ <<a, b, c, d>>[3] = c /\ <<a, b, c, d>>[4] = d
      OBVIOUS
    <3> QED
      BY <3>1
  <2>2. PICK s \in Seq(Steps) : s = <<x, y>> \o t
    BY PutFirst
  <2>3. /\ Len(s) = 6 /\ s[1] = x /\ s[2] = y
        /\ s[3] = a /\ s[4] = b /\ s[5] = c /\ s[6] = d
    BY <2>1, <2>2, PutFirst
  <2>4. s = <<x, y, a, b, c, d>>
    BY <2>3
  <2> QED
    BY <2>1, <2>2, <2>4
<1>5. {"insertEvidence", "package", "compare", "readPackage", "decide",
       "checkSufficiency", "checkControls"} \subseteq Steps
  BY DEF Steps
<1>6. /\ <<x, y>> \o <<"insertEvidence">> = <<x, y, "insertEvidence">>
      /\ <<x, y>> \o <<"package">> = <<x, y, "package">>
  BY <1>1, <1>5
<1>7. /\ <<x, y>> \o <<"insertEvidence", "package">> =
           <<x, y, "insertEvidence", "package">>
      /\ <<x, y>> \o <<"compare", "package">> = <<x, y, "compare", "package">>
      /\ <<x, y>> \o <<"readPackage", "decide">> = <<x, y, "readPackage", "decide">>
  BY <1>2, <1>5
<1>8. <<x, y>> \o <<"checkSufficiency", "readPackage", "decide">> =
        <<x, y, "checkSufficiency", "readPackage", "decide">>
  BY <1>3, <1>5
<1>9. <<x, y>> \o <<"checkControls", "checkSufficiency", "readPackage", "decide">> =
        <<x, y, "checkControls", "checkSufficiency", "readPackage", "decide">>
  BY <1>4, <1>5
<1> QED
  BY <1>6, <1>7, <1>8, <1>9

\* How a step changes the agendas.
LEMMA AgendaDone ==
  ASSUME TypeOK, NEW w \in Workers, ~ Idle(w), Done(w)
  PROVE  /\ agenda' \in [Workers -> Seq(Steps)] /\ agenda'[w] = Tail(agenda[w])
         /\ \A v \in Workers \ {w} : agenda'[v] = agenda[v]
<1>1. agenda \in [Workers -> Seq(Steps)] /\ agenda[w] # << >>
  BY Types DEF CallTypes, Idle
<1>2. Tail(agenda[w]) \in Seq(Steps)
  BY <1>1
<1> QED
  BY <1>1, <1>2 DEF Done

LEMMA AgendaFirst ==
  ASSUME TypeOK, NEW w \in Workers, ~ Idle(w), NEW x \in Steps, NEW y \in Steps,
         First(w, <<x, y>>)
  PROVE  /\ agenda' \in [Workers -> Seq(Steps)]
         /\ agenda'[w] = <<x, y>> \o Tail(agenda[w])
         /\ \A v \in Workers \ {w} : agenda'[v] = agenda[v]
<1>1. agenda \in [Workers -> Seq(Steps)] /\ agenda[w] # << >>
  BY Types DEF CallTypes, Idle
<1>2. Tail(agenda[w]) \in Seq(Steps)
  BY <1>1
<1>3. <<x, y>> \o Tail(agenda[w]) \in Seq(Steps)
  BY <1>2, PutFirst
<1> QED
  BY <1>1, <1>3 DEF First

LEMMA AgendaBegin ==
  ASSUME TypeOK, NEW w \in Workers, NEW steps \in Seq(Steps), Begin(w, steps)
  PROVE  /\ agenda' \in [Workers -> Seq(Steps)] /\ agenda'[w] = steps
         /\ \A v \in Workers \ {w} : agenda'[v] = agenda[v]
         /\ calls' \in 0 .. MaxCalls
<1>1. agenda \in [Workers -> Seq(Steps)] /\ calls \in 0 .. MaxCalls /\ MaxCalls \in Nat
  BY Types, WorldAssumption DEF CallTypes
<1> QED
  BY <1>1 DEF Begin

-----------------------------------------------------------------------------
(* Steps *)

LEMMA MandatoryKept ==
  ASSUME TypeOK, RowsGrow, NEW set \in 1 .. Len(controlSets),
         NEW p \in 1 .. Len(packages), NEW q \in 1 .. Len(packages)
  PROVE  MandatoryResults(set, p, q)' = MandatoryResults(set, p, q)
<1>1. /\ packages[p] \in [set : 1 .. Len(evidenceSets), found : Collections,
                          observed : Observations]
      /\ packages'[p] = packages[p] /\ packages'[q] = packages[q]
      /\ controlSets'[set] = controlSets[set]
  BY Types, ElementOfSeq DEF RowTypes, RowsGrow, Grown
<1>2. packages[p].set \in 1 .. Len(evidenceSets)
  BY <1>1
<1>3. /\ evidenceSets[packages[p].set] \in 1 .. Len(controlSets)
      /\ evidenceSets'[packages[p].set] = evidenceSets[packages[p].set]
  BY <1>2, Types, ElementOfSeq DEF RowTypes, RowsGrow, Grown
<1>4. controlSets'[evidenceSets[packages[p].set]] =
        controlSets[evidenceSets[packages[p].set]]
  BY <1>3 DEF RowsGrow, Grown
<1>5. ResultsOf(packages[p].set)' = ResultsOf(packages[p].set)
  BY <1>1, <1>3, <1>4 DEF ResultsOf
<1>6. \A c \in Controls : Statuses(c, p)' = Statuses(c, p)
  BY <1>1, <1>5 DEF Statuses
<1> QED
  BY <1>1, <1>6 DEF MandatoryResults, Included

\* A step that makes no decision.
LEMMA StepInv ==
  ASSUME IInv, TypeOK', RowsGrow, UNCHANGED decision,
         \A w \in Workers : CallSound(w)' \/ (CallKept(w) /\ Followed(w))
  PROVE  IInv'
<1>1. \A w \in Workers : CallSound(w)'
  BY CallKeptSound DEF IInv
<1>2. DecisionSound'
  <2>1. CASE decision.outcome = None
    BY <2>1 DEF DecisionSound
  <2>2. CASE decision.outcome # None
    <3>1. PICK set \in 1 .. Len(controlSets), p \in 1 .. Len(packages),
               q \in 1 .. Len(packages) :
            set = decision.controlSet /\ p = decision.counted /\ q = decision.observed
      BY <2>2, Types DEF IInv, DecisionSound, DecisionType
    <3>2. MandatoryResults(set, p, q)' = MandatoryResults(set, p, q)
      BY MandatoryKept DEF IInv
    <3> QED
      BY <2>2, <3>1, <3>2 DEF IInv, DecisionSound
  <2> QED
    BY <2>1, <2>2
<1> QED
  BY <1>1, <1>2 DEF IInv

\* A step that writes no row.
LEMMA CallStepInv ==
  ASSUME IInv, UNCHANGED rowVars, world' \in Worlds, CallTypes',
         \A w \in Workers :
           CallSound(w)' \/ (CallKept(w) /\ (w \in disturbed' <=> w \in disturbed))
  PROVE  IInv'
<1>1. TypeOK'
  BY Types, TypesNext DEF IInv, rowVars, RowTypes, DecisionType
<1>2. RowsGrow
  BY RowsStay DEF IInv, rowVars
<1> QED
  BY <1>1, <1>2, StepInv DEF rowVars, Followed

LEMMA IdleCall ==
  ASSUME NEW w \in Workers, CallSound(w), Idle(w)
  PROVE  judged[w] = << >>
<1>1. ~ Deciding(w)
  BY DEF Deciding
<1> QED
  BY <1>1, DecideAgendas DEF CallSound

LEMMA DerivedTypes == \A r : Derived(r) \in ApplicabilityResult
BY DEF Derived, DeriveResult, ApplicabilityResult

LEMMA NoResultsType == NoResults \in Results
BY DEF NoResults, Results

LEMMA EvaluateApplicabilityInv ==
  ASSUME IInv, NEW w \in Workers, EvaluateApplicability(w)
  PROVE  IInv'
<1>1. /\ Begin(w, <<"record">>) /\ TypeOK
      /\ derived' = [derived EXCEPT ![w] = [r \in Requirements |-> Derived(r)]]
      /\ UNCHANGED <<world, rowVars, basis, controlSet, evidenceSet, package, judged,
                     disturbed>>
  BY DEF EvaluateApplicability, IInv
<1>2. <<"record">> \in Seq(Steps)
  BY DEF Steps
<1>3. /\ agenda' \in [Workers -> Seq(Steps)] /\ agenda'[w] = <<"record">>
      /\ \A v \in Workers \ {w} : agenda'[v] = agenda[v]
      /\ calls' \in 0 .. MaxCalls
  BY <1>1, <1>2, AgendaBegin
<1>4. [r \in Requirements |-> Derived(r)] \in Results
  BY DerivedTypes DEF Results
<1>5. CallTypes'
  BY <1>1, <1>3, <1>4, Types DEF CallTypes, rowVars
<1>6. CallSound(w)'
  BY <1>1, IdleCall, <1>3 DEF Begin, IInv, sessionVars, CallSound, DetermineSound
<1>7. world' \in Worlds
  BY <1>1, Types
<1> QED
  BY <1>1, <1>3, <1>5, <1>6, <1>7, CallStepInv DEF CallKept

LEMMA RecordInv ==
  ASSUME IInv, NEW w \in Workers, NEW r \in Requirements, Record(w, r)
  PROVE  IInv'
<1>1. /\ At(w, "record") /\ derived[w][r] # None /\ TypeOK
      /\ results' = [results EXCEPT ![r] = derived[w][r]]
      /\ derived' = [derived EXCEPT ![w] = [@ EXCEPT ![r] = None]]
      /\ Done(w) \/ UNCHANGED agenda
      /\ disturbed' = {v \in Workers : Deciding(v)}
      /\ UNCHANGED <<world, controlSets, evidenceSets, packages, sufficiency, decision,
                     basis, controlSet, evidenceSet, package, judged, calls>>
  BY DEF Record, IInv, Disturb
<1>2. RowTypes /\ DecisionType /\ CallTypes /\ world \in Worlds
  BY <1>1, Types
<1>3. derived[w] \in Results /\ results \in Results
  BY <1>2 DEF CallTypes, RowTypes
<1>4. results' \in Results
  BY <1>1, <1>3 DEF Results
<1>5. [derived[w] EXCEPT ![r] = None] \in Results
  BY <1>3 DEF Results
<1>6. derived' \in [Workers -> Results]
  BY <1>1, <1>2, <1>5 DEF CallTypes
<1>7. ~ Idle(w) /\ agenda[w] = <<"record">> /\ judged[w] = << >>
  BY <1>1, AtRecord DEF At, IInv
<1>8. /\ agenda' \in [Workers -> Seq(Steps)] /\ agenda'[w] \in {<<"record">>, << >>}
      /\ \A v \in Workers \ {w} : agenda'[v] = agenda[v]
  <2>1. CASE UNCHANGED agenda
    BY <1>2, <1>7, <2>1 DEF CallTypes
  <2>2. CASE Done(w)
    <3>1. Tail(<<"record">>) = << >>
      OBVIOUS
    <3> QED
      BY <1>1, <1>7, <2>2, <3>1, AgendaDone
  <2> QED
    BY <1>1, <2>1, <2>2
<1>9. TypeOK'
  <2>1. RowTypes' /\ DecisionType' /\ world' \in Worlds
    BY <1>1, <1>2, <1>4 DEF RowTypes, DecisionType
  <2>2. CallTypes'
    BY <1>1, <1>2, <1>6, <1>8 DEF CallTypes
  <2> QED
    BY <2>1, <2>2, TypesNext
<1>10. RowsGrow
  BY <1>1, RowsStay
<1>11. CallSound(w)'
  BY <1>1, <1>7, <1>8 DEF CallSound, DetermineSound
<1>12. \A v \in Workers \ {w} : CallKept(v) /\ Followed(v)
  BY <1>1, <1>8 DEF CallKept, Followed
<1> QED
  BY <1>1, <1>9, <1>10, <1>11, <1>12, StepInv

LEMMA DetermineInv ==
  ASSUME IInv, NEW w \in Workers, Determine(w)
  PROVE  IInv'
<1>1. /\ Begin(w, <<"readResults", "insertControls">>) /\ TypeOK
      /\ UNCHANGED <<world, rowVars, sessionVars, disturbed>>
  BY DEF Determine, IInv
<1>2. <<"readResults", "insertControls">> \in Seq(Steps)
  BY DEF Steps
<1>3. /\ agenda' \in [Workers -> Seq(Steps)]
      /\ agenda'[w] = <<"readResults", "insertControls">>
      /\ \A v \in Workers \ {w} : agenda'[v] = agenda[v]
      /\ calls' \in 0 .. MaxCalls
  BY <1>1, <1>2, AgendaBegin
<1>4. CallTypes' /\ world' \in Worlds
  BY <1>1, <1>3, Types DEF CallTypes, rowVars, sessionVars
<1>5. CallSound(w)'
  BY <1>1, IdleCall, <1>3 DEF Begin, IInv, sessionVars, CallSound, DetermineSound
<1> QED
  BY <1>1, <1>3, <1>4, <1>5, CallStepInv DEF CallKept, sessionVars

LEMMA RequireInv ==
  ASSUME IInv, NEW w \in Workers, Require(w)
  PROVE  IInv'
<1>1. /\ Begin(w, <<"checkControls", "insertEvidence">>) /\ TypeOK
      /\ UNCHANGED <<world, rowVars, sessionVars, disturbed>>
  BY DEF Require, IInv
<1>2. <<"checkControls", "insertEvidence">> \in Seq(Steps)
  BY DEF Steps
<1>3. /\ agenda' \in [Workers -> Seq(Steps)]
      /\ agenda'[w] = <<"checkControls", "insertEvidence">>
      /\ \A v \in Workers \ {w} : agenda'[v] = agenda[v]
      /\ calls' \in 0 .. MaxCalls
  BY <1>1, <1>2, AgendaBegin
<1>4. CallTypes' /\ world' \in Worlds
  BY <1>1, <1>3, Types DEF CallTypes, rowVars, sessionVars
<1>5. CallSound(w)'
  BY <1>1, IdleCall, <1>3 DEF Begin, IInv, sessionVars, CallSound, RequireSound
<1> QED
  BY <1>1, <1>3, <1>4, <1>5, CallStepInv DEF CallKept, sessionVars

LEMMA CollectInv ==
  ASSUME IInv, NEW w \in Workers, Collect(w)
  PROVE  IInv'
<1>1. PICK steps \in {<<"checkControls", "insertEvidence", "package">>,
                      <<"checkControls", "compare", "package">>} :
        /\ Begin(w, steps)
        /\ evidenceSets = << >> =>
             steps = <<"checkControls", "insertEvidence", "package">>
  BY DEF Collect
<1>2. /\ evidenceSet' = [evidenceSet EXCEPT ![w] = Len(evidenceSets)] /\ TypeOK
      /\ UNCHANGED <<world, rowVars, derived, basis, controlSet, package, judged,
                     disturbed>>
  BY DEF Collect, IInv
<1>3. <<"checkControls", "insertEvidence", "package">> \in Seq(Steps)
      /\ <<"checkControls", "compare", "package">> \in Seq(Steps)
  BY DEF Steps
<1>4. steps \in Seq(Steps)
  BY <1>1, <1>3
<1>5. /\ agenda' \in [Workers -> Seq(Steps)] /\ agenda'[w] = steps
      /\ \A v \in Workers \ {w} : agenda'[v] = agenda[v]
      /\ calls' \in 0 .. MaxCalls
  BY <1>1, <1>2, <1>4, AgendaBegin
<1>6. /\ Len(evidenceSets) \in 0 .. Len(evidenceSets)
      /\ evidenceSets # << >> => Len(evidenceSets) # 0
  BY <1>2, Types, EmptySeq DEF RowTypes
<1>7. CallTypes' /\ world' \in Worlds
  BY <1>2, <1>5, <1>6, Types DEF CallTypes, rowVars
<1>8. /\ evidenceSet'[w] = Len(evidenceSets)
      /\ \A v \in Workers \ {w} : evidenceSet'[v] = evidenceSet[v]
  BY <1>2, Types DEF CallTypes
<1>9. CallSound(w)'
  BY <1>1, <1>2, IdleCall, <1>5, <1>6, <1>8
     DEF Begin, IInv, sessionVars, CallSound, RequireSound, CollectSound
<1> QED
  BY <1>2, <1>5, <1>7, <1>8, <1>9, CallStepInv DEF CallKept

LEMMA DecideInv ==
  ASSUME IInv, NEW w \in Workers, Decide(w)
  PROVE  IInv'
<1> DEFINE steps == <<"checkSufficiency", "checkControls", "checkSufficiency",
                      "readPackage", "decide">>
<1>1. /\ packages # << >> /\ Begin(w, steps) /\ TypeOK
      /\ UNCHANGED <<world, rowVars, sessionVars, disturbed>>
  BY DEF Decide, IInv
<1>2. steps \in Seq(Steps)
  BY DEF Steps
<1>3. /\ agenda' \in [Workers -> Seq(Steps)] /\ agenda'[w] = steps
      /\ \A v \in Workers \ {w} : agenda'[v] = agenda[v]
      /\ calls' \in 0 .. MaxCalls
  BY <1>1, <1>2, AgendaBegin
<1>4. CallTypes' /\ world' \in Worlds
  BY <1>1, <1>3, Types DEF CallTypes, rowVars, sessionVars
<1>5. judged'[w] = << >>
  BY <1>1, IdleCall DEF Begin, IInv, sessionVars
<1>6. Judged(w, 0)'
  BY <1>5 DEF Judged
<1>7. CallSound(w)'
  BY <1>1, <1>3, <1>6 DEF CallSound, DecideSound, ReportSound, rowVars
<1> QED
  BY <1>1, <1>3, <1>4, <1>7, CallStepInv DEF CallKept, sessionVars

LEMMA CheckControlsInv ==
  ASSUME IInv, NEW w \in Workers, CheckControls(w)
  PROVE  IInv'
<1>1. /\ At(w, "checkControls") /\ ~ Idle(w) /\ TypeOK /\ CallSound(w)
      /\ UNCHANGED <<world, rowVars, derived, basis, evidenceSet, package, judged,
                     disturbed, calls>>
  BY DEF CheckControls, At, IInv
<1>2. /\ \/ agenda[w] = <<"checkControls", "insertEvidence">>
            /\ judged[w] = << >>
         \/ agenda[w] = <<"checkControls", "insertEvidence", "package">>
            /\ judged[w] = << >>
         \/ agenda[w] = <<"checkControls", "compare", "package">>
            /\ evidenceSet[w] # 0 /\ judged[w] = << >>
         \/ agenda[w] = <<"checkControls", "checkSufficiency", "readPackage",
                          "decide">>
            /\ packages # << >> /\ Judged(w, 1)
      /\ Judged(w, 1) => Judged(w, 1)'
  BY <1>1, AtCheckControls DEF Judged, rowVars
<1>3. CASE FreshControls
  <2>1. /\ Done(w) /\ controlSet' = [controlSet EXCEPT ![w] = Len(controlSets)]
        /\ controlSets # << >> /\ controlSets[Len(controlSets)] = results
    BY <1>3 DEF CheckControls, FreshControls
  <2>2. Len(controlSets) \in 1 .. Len(controlSets)
    BY <1>1, <2>1, Types, EmptySeq DEF RowTypes
  <2>3. /\ controlSet' \in [Workers -> 0 .. Len(controlSets)]
        /\ controlSet'[w] = Len(controlSets) /\ controlSet'[w] # 0
        /\ \A v \in Workers \ {w} : controlSet'[v] = controlSet[v]
    BY <1>1, <2>1, <2>2, Types DEF CallTypes
  <2>4. /\ agenda' \in [Workers -> Seq(Steps)] /\ agenda'[w] = Tail(agenda[w])
        /\ \A v \in Workers \ {w} : agenda'[v] = agenda[v]
    BY <1>1, <2>1, AgendaDone
  <2>5. CallTypes' /\ world' \in Worlds
    BY <1>1, <2>3, <2>4, Types DEF CallTypes, rowVars
  <2>6. ObtainedControls(w)'
    BY <1>1, <2>1, <2>3 DEF ObtainedControls, rowVars
  <2>7. CallSound(w)'
    <3>1. CASE agenda[w] = <<"checkControls", "insertEvidence">> /\ judged[w] = << >>
      <4>1. agenda'[w] = <<"insertEvidence">>
        BY <2>4, <3>1
      <4> QED
        BY <1>1, <2>3, <3>1, <4>1 DEF CallSound, RequireSound
    <3>2. CASE agenda[w] = <<"checkControls", "insertEvidence", "package">>
               /\ judged[w] = << >>
      <4>1. agenda'[w] = <<"insertEvidence", "package">>
        BY <2>4, <3>2
      <4> QED
        BY <1>1, <2>3, <3>2, <4>1 DEF CallSound, RequireSound
    <3>3. CASE agenda[w] = <<"checkControls", "compare", "package">>
               /\ evidenceSet[w] # 0 /\ judged[w] = << >>
      <4>1. agenda'[w] = <<"compare", "package">>
        BY <2>4, <3>3
      <4> QED
        BY <1>1, <2>3, <3>3, <4>1 DEF CallSound, CollectSound
    <3>4. CASE agenda[w] = <<"checkControls", "checkSufficiency", "readPackage",
                             "decide">>
               /\ packages # << >> /\ Judged(w, 1)
      <4>1. agenda'[w] = <<"checkSufficiency", "readPackage", "decide">>
        BY <2>4, <3>4
      <4>2. CountSound(w)' /\ packages' # << >>
        BY <1>1, <1>2, <2>6, <3>4, <4>1 DEF CountSound, rowVars
      <4> QED
        BY <4>2 DEF CallSound, DecideSound
    <3> QED
      BY <1>2, <3>1, <3>2, <3>3, <3>4
  <2> QED
    BY <1>1, <2>3, <2>4, <2>5, <2>7, CallStepInv DEF CallKept
<1>4. CASE ~ FreshControls
  <2>1. /\ First(w, <<"readResults", "insertControls">>) /\ UNCHANGED controlSet
        /\ {"readResults", "insertControls"} \subseteq Steps
    BY <1>4 DEF CheckControls, Steps
  <2>2. /\ agenda' \in [Workers -> Seq(Steps)]
        /\ agenda'[w] = <<"readResults", "insertControls">> \o Tail(agenda[w])
        /\ \A v \in Workers \ {w} : agenda'[v] = agenda[v]
    BY <1>1, <2>1, AgendaFirst
  <2>3. CallTypes' /\ world' \in Worlds
    BY <1>1, <2>1, <2>2, Types DEF CallTypes, rowVars
  <2>4. CallSound(w)'
    <3>1. CASE agenda[w] = <<"checkControls", "insertEvidence">> /\ judged[w] = << >>
      <4>1. Tail(agenda[w]) = <<"insertEvidence">>
        BY <3>1
      <4>2. agenda'[w] = <<"readResults", "insertControls", "insertEvidence">>
        BY <2>1, <2>2, <4>1, PutFirstAgendas
      <4> QED
        BY <1>1, <3>1, <4>2 DEF CallSound, RequireSound
    <3>2. CASE agenda[w] = <<"checkControls", "insertEvidence", "package">>
               /\ judged[w] = << >>
      <4>1. Tail(agenda[w]) = <<"insertEvidence", "package">>
        BY <3>2
      <4>2. agenda'[w] =
              <<"readResults", "insertControls", "insertEvidence", "package">>
        BY <2>1, <2>2, <4>1, PutFirstAgendas
      <4> QED
        BY <1>1, <3>2, <4>2 DEF CallSound, RequireSound
    <3>3. CASE agenda[w] = <<"checkControls", "compare", "package">>
               /\ evidenceSet[w] # 0 /\ judged[w] = << >>
      <4>1. Tail(agenda[w]) = <<"compare", "package">>
        BY <3>3
      <4>2. agenda'[w] = <<"readResults", "insertControls", "compare", "package">>
        BY <2>1, <2>2, <4>1, PutFirstAgendas
      <4> QED
        BY <1>1, <3>3, <4>2 DEF CallSound, CollectSound
    <3>4. CASE agenda[w] = <<"checkControls", "checkSufficiency", "readPackage",
                             "decide">>
               /\ packages # << >> /\ Judged(w, 1)
      <4>1. Tail(agenda[w]) = <<"checkSufficiency", "readPackage", "decide">>
        BY <3>4
      <4>2. agenda'[w] = <<"readResults", "insertControls", "checkSufficiency",
                           "readPackage", "decide">>
        BY <2>1, <2>2, <4>1, PutFirstAgendas
      <4>3. ControlsSound(w)' /\ packages' # << >>
        BY <1>1, <1>2, <3>4, <4>2 DEF ControlsSound, rowVars
      <4> QED
        BY <4>3 DEF CallSound, DecideSound
    <3> QED
      BY <1>2, <3>1, <3>2, <3>3, <3>4
  <2> QED
    BY <1>1, <2>1, <2>2, <2>3, <2>4, CallStepInv DEF CallKept
<1> QED
  BY <1>3, <1>4

LEMMA ReadResultsInv ==
  ASSUME IInv, NEW w \in Workers, ReadResults(w)
  PROVE  IInv'
<1>1. /\ At(w, "readResults") /\ ~ Idle(w) /\ Done(w) /\ TypeOK /\ CallSound(w)
      /\ basis' = [basis EXCEPT ![w] = results]
      /\ UNCHANGED <<world, rowVars, derived, controlSet, evidenceSet, package, judged,
                     disturbed, calls>>
  BY DEF ReadResults, At, IInv
<1>2. /\ agenda' \in [Workers -> Seq(Steps)] /\ agenda'[w] = Tail(agenda[w])
      /\ \A v \in Workers \ {w} : agenda'[v] = agenda[v]
  BY <1>1, AgendaDone
<1>3. /\ basis' \in [Workers -> Results] /\ basis'[w] = results
      /\ \A v \in Workers \ {w} : basis'[v] = basis[v]
  BY <1>1, Types DEF CallTypes, RowTypes
<1>4. CallTypes' /\ world' \in Worlds
  BY <1>1, <1>2, <1>3, Types DEF CallTypes, rowVars
<1>5. CallSound(w)'
  <2>1. CASE agenda[w] = <<"readResults", "insertControls">> /\ judged[w] = << >>
    <3>1. agenda'[w] = <<"insertControls">>
      BY <1>2, <2>1
    <3> QED
      BY <1>1, <2>1, <3>1 DEF CallSound, DetermineSound
  <2>2. CASE agenda[w] = <<"readResults", "insertControls", "insertEvidence">>
             /\ judged[w] = << >>
    <3>1. agenda'[w] = <<"insertControls", "insertEvidence">>
      BY <1>2, <2>2
    <3> QED
      BY <1>1, <2>2, <3>1 DEF CallSound, RequireSound
  <2>3. CASE agenda[w] =
               <<"readResults", "insertControls", "insertEvidence", "package">>
             /\ judged[w] = << >>
    <3>1. agenda'[w] = <<"insertControls", "insertEvidence", "package">>
      BY <1>2, <2>3
    <3> QED
      BY <1>1, <2>3, <3>1 DEF CallSound, RequireSound
  <2>4. CASE agenda[w] = <<"readResults", "insertControls", "compare", "package">>
             /\ evidenceSet[w] # 0 /\ judged[w] = << >>
    <3>1. agenda'[w] = <<"insertControls", "compare", "package">>
      BY <1>2, <2>4
    <3> QED
      BY <1>1, <2>4, <3>1 DEF CallSound, CollectSound
  <2>5. CASE agenda[w] = <<"readResults", "insertControls", "checkSufficiency",
                           "readPackage", "decide">>
             /\ Judged(w, 1) /\ packages # << >>
    <3>1. agenda'[w] = <<"insertControls", "checkSufficiency", "readPackage", "decide">>
      BY <1>2, <2>5
    <3>2. Judged(w, 1)' /\ packages' # << >> /\ basis'[w] = results'
      BY <1>1, <1>3, <2>5 DEF Judged, rowVars
    <3> QED
      BY <3>1, <3>2 DEF CallSound, DecideSound, ControlsSound
  <2> QED
    BY <1>1, <2>1, <2>2, <2>3, <2>4, <2>5, AtReadResults
<1> QED
  BY <1>1, <1>2, <1>3, <1>4, <1>5, CallStepInv DEF CallKept

LEMMA InsertControlsInv ==
  ASSUME IInv, NEW w \in Workers, InsertControls(w)
  PROVE  IInv'
<1>1. /\ At(w, "insertControls") /\ ~ Idle(w) /\ Done(w) /\ TypeOK /\ CallSound(w)
      /\ controlSets' = Append(controlSets, basis[w])
      /\ controlSet' = [controlSet EXCEPT ![w] = HandOn(w, Len(controlSets'))]
      /\ basis' = [basis EXCEPT ![w] = NoResults]
      /\ UNCHANGED <<world, results, evidenceSets, packages, sufficiency, decision,
                     derived, evidenceSet, package, judged, disturbed, calls>>
  BY DEF InsertControls, At, IInv
<1>2. /\ agenda' \in [Workers -> Seq(Steps)] /\ agenda'[w] = Tail(agenda[w])
      /\ \A v \in Workers \ {w} : agenda'[v] = agenda[v]
  BY <1>1, AgendaDone
<1>3. RowTypes /\ DecisionType /\ CallTypes /\ world \in Worlds /\ basis[w] \in Results
  BY <1>1, Types DEF CallTypes
<1>4. /\ controlSets' \in Seq(Results) /\ Len(controlSets') = Len(controlSets) + 1
      /\ controlSets'[Len(controlSets')] = basis[w]
      /\ Grown(controlSets, controlSets') /\ Len(controlSets) \in Nat
  BY <1>1, <1>3, AppendGrows DEF RowTypes, Grown
<1>5. RowsGrow
  BY <1>1, <1>3, <1>4, AppendGrows DEF RowsGrow, RowTypes
<1>6. HandOn(w, Len(controlSets')) \in 0 .. Len(controlSets')
  BY <1>4 DEF HandOn
<1>7. /\ controlSet' \in [Workers -> 0 .. Len(controlSets')]
      /\ controlSet'[w] = HandOn(w, Len(controlSets'))
      /\ \A v \in Workers \ {w} : controlSet'[v] = controlSet[v]
  BY <1>1, <1>3, <1>5, <1>6, ReferencesKept DEF CallTypes
<1>8. /\ basis' \in [Workers -> Results]
      /\ \A v \in Workers \ {w} : basis'[v] = basis[v]
  BY <1>1, <1>3, NoResultsType DEF CallTypes
<1>9. TypeOK'
  <2>1. evidenceSets' \in Seq(1 .. Len(controlSets'))
    BY <1>1, <1>3, <1>5, ReferencesKept, SeqMonotonic DEF RowTypes
  <2>2. RowTypes'
    BY <1>1, <1>3, <1>4, <2>1 DEF RowTypes
  <2>3. DecisionType'
    BY <1>1, <1>3, <1>5, ReferencesKept DEF DecisionType
  <2>4. CallTypes'
    BY <1>1, <1>2, <1>3, <1>7, <1>8 DEF CallTypes
  <2> QED
    BY <1>1, <1>3, <2>2, <2>3, <2>4, TypesNext
<1>10. CallSound(w)'
  <2>1. CASE agenda[w] = <<"insertControls">> /\ judged[w] = << >>
    <3>1. agenda'[w] = << >>
      BY <1>2, <2>1
    <3> QED
      BY <1>1, <2>1, <3>1 DEF CallSound, DetermineSound
  <2>2. CASE agenda[w] = <<"insertControls", "insertEvidence">> /\ judged[w] = << >>
    <3>1. agenda'[w] = <<"insertEvidence">> /\ Len(agenda[w]) = 2
      BY <1>2, <2>2
    <3>2. controlSet'[w] # 0
      BY <1>4, <1>7, <3>1 DEF HandOn
    <3> QED
      BY <1>1, <2>2, <3>1, <3>2 DEF CallSound, RequireSound
  <2>3. CASE agenda[w] = <<"insertControls", "insertEvidence", "package">>
             /\ judged[w] = << >>
    <3>1. agenda'[w] = <<"insertEvidence", "package">> /\ Len(agenda[w]) = 3
      BY <1>2, <2>3
    <3>2. controlSet'[w] # 0
      BY <1>4, <1>7, <3>1 DEF HandOn
    <3> QED
      BY <1>1, <2>3, <3>1, <3>2 DEF CallSound, RequireSound
  <2>4. CASE agenda[w] = <<"insertControls", "compare", "package">>
             /\ evidenceSet[w] # 0 /\ judged[w] = << >>
    <3>1. agenda'[w] = <<"compare", "package">> /\ Len(agenda[w]) = 3
      BY <1>2, <2>4
    <3>2. controlSet'[w] # 0
      BY <1>4, <1>7, <3>1 DEF HandOn
    <3> QED
      BY <1>1, <2>4, <3>1, <3>2 DEF CallSound, CollectSound
  <2>5. CASE agenda[w] = <<"insertControls", "checkSufficiency", "readPackage",
                           "decide">>
             /\ Judged(w, 1) /\ packages # << >>
             /\ (w \notin disturbed => basis[w] = results)
    <3>1. /\ agenda'[w] = <<"checkSufficiency", "readPackage", "decide">>
          /\ Len(agenda[w]) = 4
      BY <1>2, <2>5
    <3>2. controlSet'[w] = Len(controlSets') /\ controlSet'[w] # 0
      BY <1>4, <1>7, <3>1 DEF HandOn
    <3>3. ObtainedControls(w)'
      BY <1>1, <1>4, <2>5, <3>2 DEF ObtainedControls
    <3>4. Judged(w, 1)' /\ packages' # << >>
      BY <1>1, <2>5 DEF Judged
    <3> QED
      BY <3>1, <3>3, <3>4 DEF CallSound, DecideSound, CountSound
  <2> QED
    BY <1>1, <2>1, <2>2, <2>3, <2>4, <2>5, AtInsertControls
<1>11. \A v \in Workers \ {w} : CallKept(v) /\ Followed(v)
  BY <1>1, <1>2, <1>7, <1>8 DEF CallKept, Followed
<1> QED
  BY <1>1, <1>5, <1>9, <1>10, <1>11, StepInv

LEMMA InsertEvidenceInv ==
  ASSUME IInv, NEW w \in Workers, InsertEvidence(w)
  PROVE  IInv'
<1>1. /\ At(w, "insertEvidence") /\ ~ Idle(w) /\ Done(w) /\ TypeOK /\ CallSound(w)
      /\ evidenceSets' = Append(evidenceSets, controlSet[w])
      /\ evidenceSet' = [evidenceSet EXCEPT ![w] = HandOn(w, Len(evidenceSets'))]
      /\ controlSet' = [controlSet EXCEPT ![w] = 0]
      /\ UNCHANGED <<world, results, controlSets, packages, sufficiency, decision,
                     derived, basis, package, judged, disturbed, calls>>
  BY DEF InsertEvidence, At, IInv
<1>2. /\ agenda' \in [Workers -> Seq(Steps)] /\ agenda'[w] = Tail(agenda[w])
      /\ \A v \in Workers \ {w} : agenda'[v] = agenda[v]
  BY <1>1, AgendaDone
<1>3. RowTypes /\ DecisionType /\ CallTypes /\ world \in Worlds
  BY <1>1, Types
<1>4. /\ controlSet[w] # 0 /\ judged[w] = << >>
      /\ agenda[w] \in {<<"insertEvidence">>, <<"insertEvidence", "package">>}
  BY <1>1, AtInsertEvidence
<1>5. controlSet[w] \in 1 .. Len(controlSets) /\ Len(controlSets) \in Nat
  BY <1>3, <1>4 DEF CallTypes, RowTypes
<1>6. /\ evidenceSets' \in Seq(1 .. Len(controlSets))
      /\ Len(evidenceSets') = Len(evidenceSets) + 1
      /\ Grown(evidenceSets, evidenceSets') /\ Len(evidenceSets) \in Nat
  BY <1>1, <1>3, <1>5, AppendGrows DEF RowTypes, Grown
<1>7. RowsGrow
  BY <1>1, <1>3, <1>6, AppendGrows DEF RowsGrow, RowTypes
<1>8. HandOn(w, Len(evidenceSets')) \in 0 .. Len(evidenceSets')
  BY <1>6 DEF HandOn
<1>9. /\ evidenceSet' \in [Workers -> 0 .. Len(evidenceSets')]
      /\ evidenceSet'[w] = HandOn(w, Len(evidenceSets'))
      /\ \A v \in Workers \ {w} : evidenceSet'[v] = evidenceSet[v]
  BY <1>1, <1>3, <1>7, <1>8, ReferencesKept DEF CallTypes
<1>10. /\ controlSet' \in [Workers -> 0 .. Len(controlSets)]
       /\ \A v \in Workers \ {w} : controlSet'[v] = controlSet[v]
  BY <1>1, <1>3, <1>5 DEF CallTypes
<1>11. TypeOK'
  <2> DEFINE R == [set : 1 .. Len(evidenceSets), found : Collections,
                   observed : Observations]
  <2> DEFINE S == [set : 1 .. Len(evidenceSets'), found : Collections,
                   observed : Observations]
  <2>1. R \subseteq S
    BY <1>7, <1>3, <1>1, ReferencesKept
  <2>2. packages' \in Seq(S)
    <3>1. packages \in Seq(R) /\ packages' = packages
      BY <1>1, <1>3 DEF RowTypes
    <3> HIDE DEF R, S
    <3> QED
      BY <2>1, <3>1, SeqMonotonic
  <2>3. RowTypes'
    BY <1>1, <1>3, <1>6, <2>2 DEF RowTypes
  <2>4. DecisionType'
    BY <1>1, <1>3 DEF DecisionType
  <2>5. CallTypes'
    BY <1>1, <1>2, <1>3, <1>9, <1>10 DEF CallTypes
  <2> QED
    BY <1>1, <1>3, <2>3, <2>4, <2>5, TypesNext
<1>12. CallSound(w)'
  <2>1. CASE agenda[w] = <<"insertEvidence">>
    <3>1. agenda'[w] = << >>
      BY <1>2, <2>1
    <3> QED
      BY <1>1, <1>4, <3>1 DEF CallSound, DetermineSound
  <2>2. CASE agenda[w] = <<"insertEvidence", "package">>
    <3>1. agenda'[w] = <<"package">> /\ Len(agenda[w]) = 2
      BY <1>2, <2>2
    <3>2. evidenceSet'[w] # 0
      BY <1>6, <1>9, <3>1 DEF HandOn
    <3> QED
      BY <1>1, <1>4, <3>1, <3>2 DEF CallSound, CollectSound
  <2> QED
    BY <1>4, <2>1, <2>2
<1>13. \A v \in Workers \ {w} : CallKept(v) /\ Followed(v)
  BY <1>1, <1>2, <1>9, <1>10 DEF CallKept, Followed
<1> QED
  BY <1>1, <1>7, <1>11, <1>12, <1>13, StepInv

LEMMA CompareEvidenceInv ==
  ASSUME IInv, NEW w \in Workers, CompareEvidence(w)
  PROVE  IInv'
<1>1. /\ At(w, "compare") /\ ~ Idle(w) /\ TypeOK /\ CallSound(w)
      /\ controlSet' = [controlSet EXCEPT ![w] = 0]
      /\ UNCHANGED <<world, rowVars, derived, basis, package, judged, disturbed, calls>>
  BY DEF CompareEvidence, At, IInv
<1>2. /\ agenda[w] = <<"compare", "package">> /\ evidenceSet[w] # 0
      /\ judged[w] = << >>
  BY <1>1, AtCompare
<1>3. Tail(agenda[w]) = <<"package">>
  BY <1>2
<1>4. /\ controlSet' \in [Workers -> 0 .. Len(controlSets)]
      /\ \A v \in Workers \ {w} : controlSet'[v] = controlSet[v]
  BY <1>1, Types DEF CallTypes, RowTypes
<1>5. CASE evidenceSets[evidenceSet[w]] = controlSet[w]
  <2>1. Done(w) /\ UNCHANGED evidenceSet
    BY <1>5 DEF CompareEvidence
  <2>2. /\ agenda' \in [Workers -> Seq(Steps)] /\ agenda'[w] = <<"package">>
        /\ \A v \in Workers \ {w} : agenda'[v] = agenda[v]
    BY <1>1, <1>3, <2>1, AgendaDone
  <2>3. CallTypes' /\ world' \in Worlds
    BY <1>1, <1>4, <2>1, <2>2, Types DEF CallTypes, rowVars
  <2>4. CallSound(w)'
    BY <1>1, <1>2, <2>1, <2>2 DEF CallSound, CollectSound
  <2> QED
    BY <1>1, <1>4, <2>1, <2>2, <2>3, <2>4, CallStepInv DEF CallKept
<1>6. CASE evidenceSets[evidenceSet[w]] # controlSet[w]
  <2>1. /\ First(w, <<"checkControls", "insertEvidence">>)
        /\ evidenceSet' = [evidenceSet EXCEPT ![w] = 0]
        /\ {"checkControls", "insertEvidence"} \subseteq Steps
    BY <1>6 DEF CompareEvidence, Steps
  <2>2. /\ agenda' \in [Workers -> Seq(Steps)]
        /\ agenda'[w] = <<"checkControls", "insertEvidence">> \o Tail(agenda[w])
        /\ \A v \in Workers \ {w} : agenda'[v] = agenda[v]
    BY <1>1, <2>1, AgendaFirst
  <2>3. agenda'[w] = <<"checkControls", "insertEvidence", "package">>
    BY <1>3, <2>1, <2>2, PutFirstAgendas
  <2>4. /\ evidenceSet' \in [Workers -> 0 .. Len(evidenceSets)]
        /\ \A v \in Workers \ {w} : evidenceSet'[v] = evidenceSet[v]
    BY <1>1, <2>1, Types DEF CallTypes, RowTypes
  <2>5. CallTypes' /\ world' \in Worlds
    BY <1>1, <1>4, <2>2, <2>4, Types DEF CallTypes, rowVars
  <2>6. CallSound(w)'
    BY <1>1, <1>2, <2>3 DEF CallSound, RequireSound
  <2> QED
    BY <1>1, <1>4, <2>2, <2>4, <2>5, <2>6, CallStepInv DEF CallKept
<1> QED
  BY <1>5, <1>6

LEMMA BuildPackageInv ==
  ASSUME IInv, NEW w \in Workers, NEW found \in Collections,
         NEW observed \in Observations, BuildPackage(w, found, observed)
  PROVE  IInv'
<1>1. /\ At(w, "package") /\ ~ Idle(w) /\ Done(w) /\ TypeOK /\ CallSound(w)
      /\ packages' = Append(packages, [set |-> evidenceSet[w], found |-> found,
                                       observed |-> observed])
      /\ evidenceSet' = [evidenceSet EXCEPT ![w] = 0]
      /\ disturbed' = {v \in Workers : Deciding(v)}
      /\ UNCHANGED <<world, results, controlSets, evidenceSets, sufficiency, decision,
                     derived, basis, controlSet, package, judged, calls>>
  BY DEF BuildPackage, At, IInv, Disturb
<1>2. /\ agenda[w] = <<"package">> /\ evidenceSet[w] # 0 /\ judged[w] = << >>
  BY <1>1, AtPackage
<1>3. Tail(agenda[w]) = << >>
  BY <1>2
<1>4. /\ agenda' \in [Workers -> Seq(Steps)] /\ agenda'[w] = << >>
      /\ \A v \in Workers \ {w} : agenda'[v] = agenda[v]
  BY <1>1, <1>3, AgendaDone
<1>5. RowTypes /\ DecisionType /\ CallTypes /\ world \in Worlds
  BY <1>1, Types
<1>6. evidenceSet[w] \in 1 .. Len(evidenceSets) /\ Len(evidenceSets) \in Nat
  BY <1>2, <1>5 DEF CallTypes, RowTypes
<1>7. PICK row \in [set : 1 .. Len(evidenceSets), found : Collections,
                    observed : Observations] :
        packages' = Append(packages, row)
  BY <1>1, <1>6
<1>8. /\ packages' \in Seq([set : 1 .. Len(evidenceSets), found : Collections,
                            observed : Observations])
      /\ Grown(packages, packages') /\ Len(packages) \in Nat
  BY <1>5, <1>7, AppendGrows DEF RowTypes, Grown
<1>9. RowsGrow
  BY <1>1, <1>5, <1>8, AppendGrows DEF RowsGrow, RowTypes
<1>10. /\ evidenceSet' \in [Workers -> 0 .. Len(evidenceSets)]
       /\ \A v \in Workers \ {w} : evidenceSet'[v] = evidenceSet[v]
  BY <1>1, <1>5, <1>6 DEF CallTypes
<1>11. TypeOK'
  <2>1. RowTypes'
    BY <1>1, <1>5, <1>8, <1>9, ReferencesKept DEF RowTypes
  <2>2. DecisionType'
    BY <1>1, <1>5, <1>9, ReferencesKept DEF DecisionType
  <2>3. /\ judged' \in [Workers -> Seq(1 .. Len(packages'))]
        /\ package' \in [Workers -> 0 .. Len(packages')]
    <3>1. Seq(1 .. Len(packages)) \subseteq Seq(1 .. Len(packages'))
      BY <1>1, <1>9, ReferencesKept, SeqMonotonic
    <3> QED
      BY <1>1, <1>5, <1>9, <3>1, ReferencesKept DEF CallTypes
  <2>4. CallTypes'
    BY <1>1, <1>4, <1>5, <1>10, <2>3 DEF CallTypes
  <2> QED
    BY <1>1, <1>5, <2>1, <2>2, <2>4, TypesNext
<1>12. CallSound(w)'
  BY <1>1, <1>2, <1>4 DEF CallSound, DetermineSound
<1>13. \A v \in Workers \ {w} : CallKept(v) /\ Followed(v)
  BY <1>1, <1>4, <1>10 DEF CallKept, Followed
<1> QED
  BY <1>1, <1>9, <1>11, <1>12, <1>13, StepInv

LEMMA JudgedMore ==
  ASSUME TypeOK, NEW w \in Workers, NEW n \in {0, 1}, Judged(w, n),
         NEW p \in 1 .. Len(packages), w \notin disturbed => p = Len(packages),
         judged' = [judged EXCEPT ![w] = Append(@, p)],
         UNCHANGED <<packages, disturbed>>
  PROVE  /\ n = 0 => Judged(w, 1)'
         /\ n = 1 => Judged(w, 2)'
         /\ judged' \in [Workers -> Seq(1 .. Len(packages))]
         /\ \A v \in Workers \ {w} : judged'[v] = judged[v]
<1>1. judged \in [Workers -> Seq(1 .. Len(packages))]
  BY Types DEF CallTypes
<1>2. PICK s \in Seq(1 .. Len(packages)) :
        /\ s = judged[w] /\ Len(s) = n
        /\ w \notin disturbed => \A k \in 1 .. n : s[k] = Len(packages)
  BY <1>1 DEF Judged
<1>3. PICK t \in Seq(1 .. Len(packages)) :
        /\ t = Append(s, p) /\ Len(t) = n + 1 /\ t[n + 1] = p
        /\ \A k \in 1 .. n : t[k] = s[k]
  <2>1. /\ Append(s, p) \in Seq(1 .. Len(packages)) /\ Len(Append(s, p)) = n + 1
        /\ Append(s, p)[n + 1] = p /\ \A k \in 1 .. n : Append(s, p)[k] = s[k]
    BY <1>2
  <2> QED
    BY <2>1
<1>4. /\ judged'[w] = t /\ judged' \in [Workers -> Seq(1 .. Len(packages))]
      /\ \A v \in Workers \ {w} : judged'[v] = judged[v]
  BY <1>1, <1>2, <1>3
<1>5. w \notin disturbed => \A k \in 1 .. n + 1 : t[k] = Len(packages)
  BY <1>2, <1>3
<1> QED
  BY <1>3, <1>4, <1>5 DEF Judged

LEMMA CheckSufficiencyInv ==
  ASSUME IInv, NEW w \in Workers, CheckSufficiency(w)
  PROVE  IInv'
<1> DEFINE Report == <<"checkSufficiency", "checkControls", "checkSufficiency",
                       "readPackage", "decide">>
<1> DEFINE Count == <<"checkSufficiency", "readPackage", "decide">>
<1>1. /\ At(w, "checkSufficiency") /\ ~ Idle(w) /\ TypeOK /\ CallSound(w)
      /\ UNCHANGED <<world, rowVars, derived, basis, controlSet, evidenceSet, package,
                     disturbed, calls>>
  BY DEF CheckSufficiency, At, IInv
<1>2. /\ packages # << >>
      /\ \/ agenda[w] = Report /\ Judged(w, 0)
         \/ agenda[w] = Count /\ Judged(w, 1) /\ ObtainedControls(w)
  BY <1>1, AtCheckSufficiency
<1>3. ObtainedControls(w) => ObtainedControls(w)'
  BY <1>1 DEF ObtainedControls, rowVars
<1>4. CASE sufficiency = Len(packages)
  <2>1. /\ Done(w) /\ judged' = [judged EXCEPT ![w] = Append(@, sufficiency)]
    BY <1>4 DEF CheckSufficiency
  <2>2. Len(packages) \in 1 .. Len(packages)
    BY <1>1, <1>2, Types, EmptySeq DEF RowTypes
  <2>3. PICK p \in 1 .. Len(packages) : p = sufficiency /\ p = Len(packages)
    BY <1>4, <2>2
  <2>4. /\ judged' \in [Workers -> Seq(1 .. Len(packages))]
        /\ \A v \in Workers \ {w} : judged'[v] = judged[v]
        /\ Judged(w, 0) => Judged(w, 1)'
        /\ Judged(w, 1) => Judged(w, 2)'
    <3>1. judged' = [judged EXCEPT ![w] = Append(@, p)]
      BY <2>1, <2>3, Zenon
    <3>2. UNCHANGED <<packages, disturbed>>
      BY <1>1 DEF rowVars
    <3> QED
      BY <1>1, <1>2, <2>3, <3>1, <3>2, JudgedMore
  <2>5. /\ agenda' \in [Workers -> Seq(Steps)] /\ agenda'[w] = Tail(agenda[w])
        /\ \A v \in Workers \ {w} : agenda'[v] = agenda[v]
    BY <1>1, <2>1, AgendaDone
  <2>6. CallTypes' /\ world' \in Worlds
    BY <1>1, <2>4, <2>5, Types DEF CallTypes, rowVars
  <2>7. CallSound(w)'
    <3>1. CASE agenda[w] = Report /\ Judged(w, 0)
      <4>1. agenda'[w] =
              <<"checkControls", "checkSufficiency", "readPackage", "decide">>
        BY <2>5, <3>1
      <4>2. Judged(w, 1)' /\ packages' # << >>
        BY <1>1, <1>2, <2>4, <3>1 DEF rowVars
      <4> QED
        BY <4>1, <4>2 DEF CallSound, DecideSound, ControlsSound
    <3>2. CASE agenda[w] = Count /\ Judged(w, 1) /\ ObtainedControls(w)
      <4>1. agenda'[w] = <<"readPackage", "decide">>
        BY <2>5, <3>2
      <4>2. Judged(w, 2)' /\ packages' # << >>
        BY <1>1, <1>2, <2>4, <3>2 DEF rowVars
      <4> QED
        BY <1>3, <3>2, <4>1, <4>2 DEF CallSound, DecideSound, ObserveSound
    <3> QED
      BY <1>2, <3>1, <3>2
  <2> QED
    BY <1>1, <2>4, <2>5, <2>6, <2>7, CallStepInv DEF CallKept
<1>5. CASE sufficiency # Len(packages)
  <2>1. /\ First(w, <<"readPackage", "insertSufficiency">>) /\ UNCHANGED judged
        /\ {"readPackage", "insertSufficiency"} \subseteq Steps
    BY <1>5 DEF CheckSufficiency, Steps
  <2>2. /\ agenda' \in [Workers -> Seq(Steps)]
        /\ agenda'[w] = <<"readPackage", "insertSufficiency">> \o Tail(agenda[w])
        /\ \A v \in Workers \ {w} : agenda'[v] = agenda[v]
    BY <1>1, <2>1, AgendaFirst
  <2>3. CallTypes' /\ world' \in Worlds
    BY <1>1, <2>1, <2>2, Types DEF CallTypes, rowVars
  <2>4. ASSUME NEW n, Judged(w, n) PROVE Judged(w, n)'
    BY <1>1, <2>1, <2>4 DEF Judged, rowVars
  <2>5. CallSound(w)'
    <3>1. CASE agenda[w] = Report /\ Judged(w, 0)
      <4>1. Tail(agenda[w]) =
              <<"checkControls", "checkSufficiency", "readPackage", "decide">>
        BY <3>1
      <4>2. agenda'[w] = <<"readPackage", "insertSufficiency", "checkControls",
                           "checkSufficiency", "readPackage", "decide">>
        BY <2>1, <2>2, <4>1, PutFirstAgendas
      <4>3. Judged(w, 0)' /\ packages' # << >>
        BY <1>1, <1>2, <2>4, <3>1 DEF rowVars
      <4> QED
        BY <4>2, <4>3 DEF CallSound, DecideSound, ReportSound
    <3>2. CASE agenda[w] = Count /\ Judged(w, 1) /\ ObtainedControls(w)
      <4>1. Tail(agenda[w]) = <<"readPackage", "decide">>
        BY <3>2
      <4>2. agenda'[w] =
              <<"readPackage", "insertSufficiency", "readPackage", "decide">>
        BY <2>1, <2>2, <4>1, PutFirstAgendas
      <4>3. Judged(w, 1)' /\ packages' # << >>
        BY <1>1, <1>2, <2>4, <3>2 DEF rowVars
      <4> QED
        BY <1>3, <3>2, <4>2, <4>3 DEF CallSound, DecideSound, CountSound
    <3> QED
      BY <1>2, <3>1, <3>2
  <2> QED
    BY <1>1, <2>1, <2>2, <2>3, <2>5, CallStepInv DEF CallKept
<1> QED
  BY <1>4, <1>5

LEMMA ReadPackageInv ==
  ASSUME IInv, NEW w \in Workers, ReadPackage(w)
  PROVE  IInv'
<1>1. /\ At(w, "readPackage") /\ ~ Idle(w) /\ Done(w) /\ TypeOK /\ CallSound(w)
      /\ package' = [package EXCEPT ![w] = Len(packages)]
      /\ UNCHANGED <<world, rowVars, derived, basis, controlSet, evidenceSet, judged,
                     disturbed, calls>>
  BY DEF ReadPackage, At, IInv
<1>2. /\ agenda' \in [Workers -> Seq(Steps)] /\ agenda'[w] = Tail(agenda[w])
      /\ \A v \in Workers \ {w} : agenda'[v] = agenda[v]
  BY <1>1, AgendaDone
<1>3. packages # << >>
  BY <1>1, AtReadPackage
<1>4. Len(packages) \in 1 .. Len(packages)
  BY <1>1, <1>3, Types, EmptySeq DEF RowTypes
<1>5. /\ package' \in [Workers -> 0 .. Len(packages)] /\ package'[w] = Len(packages)
      /\ \A v \in Workers \ {w} : package'[v] = package[v]
  BY <1>1, <1>4, Types DEF CallTypes
<1>6. CallTypes' /\ world' \in Worlds
  BY <1>1, <1>2, <1>5, Types DEF CallTypes, rowVars
<1>7. ObtainedPackage(w)' /\ packages' # << >>
  BY <1>1, <1>3, <1>4, <1>5 DEF ObtainedPackage, rowVars
<1>8. /\ ObtainedControls(w) => ObtainedControls(w)'
      /\ \A n \in {0, 1, 2} : Judged(w, n) => Judged(w, n)'
  BY <1>1 DEF ObtainedControls, Judged, rowVars
<1>9. CallSound(w)'
  <2>1. CASE /\ agenda[w] = <<"readPackage", "insertSufficiency", "checkControls",
                              "checkSufficiency", "readPackage", "decide">>
             /\ Judged(w, 0)
    <3>1. agenda'[w] = <<"insertSufficiency", "checkControls", "checkSufficiency",
                         "readPackage", "decide">>
      BY <1>2, <2>1
    <3> QED
      BY <1>7, <1>8, <2>1, <3>1 DEF CallSound, DecideSound, ReportSound
  <2>2. CASE /\ agenda[w] =
                  <<"readPackage", "insertSufficiency", "readPackage", "decide">>
             /\ Judged(w, 1) /\ ObtainedControls(w)
    <3>1. agenda'[w] = <<"insertSufficiency", "readPackage", "decide">>
      BY <1>2, <2>2
    <3> QED
      BY <1>7, <1>8, <2>2, <3>1 DEF CallSound, DecideSound, CountSound
  <2>3. CASE /\ agenda[w] = <<"readPackage", "decide">>
             /\ Judged(w, 2) /\ ObtainedControls(w)
    <3>1. agenda'[w] = <<"decide">>
      BY <1>2, <2>3
    <3> QED
      BY <1>7, <1>8, <2>3, <3>1 DEF CallSound, DecideSound, ObserveSound
  <2> QED
    BY <1>1, <2>1, <2>2, <2>3, AtReadPackage
<1> QED
  BY <1>1, <1>2, <1>5, <1>6, <1>9, CallStepInv DEF CallKept

LEMMA InsertSufficiencyInv ==
  ASSUME IInv, NEW w \in Workers, InsertSufficiency(w)
  PROVE  IInv'
<1>1. /\ At(w, "insertSufficiency") /\ ~ Idle(w) /\ Done(w) /\ TypeOK /\ CallSound(w)
      /\ sufficiency' = package[w]
      /\ judged' = [judged EXCEPT ![w] = Append(@, package[w])]
      /\ package' = [package EXCEPT ![w] = 0]
      /\ UNCHANGED <<world, results, controlSets, evidenceSets, packages, decision,
                     derived, basis, controlSet, evidenceSet, disturbed, calls>>
  BY DEF InsertSufficiency, At, IInv
<1>2. /\ agenda' \in [Workers -> Seq(Steps)] /\ agenda'[w] = Tail(agenda[w])
      /\ \A v \in Workers \ {w} : agenda'[v] = agenda[v]
  BY <1>1, AgendaDone
<1>3. /\ packages # << >> /\ ObtainedPackage(w)
      /\ \/ /\ agenda[w] = <<"insertSufficiency", "checkControls", "checkSufficiency",
                             "readPackage", "decide">>
            /\ Judged(w, 0)
         \/ /\ agenda[w] = <<"insertSufficiency", "readPackage", "decide">>
            /\ Judged(w, 1) /\ ObtainedControls(w)
  BY <1>1, AtInsertSufficiency
<1>4. RowTypes /\ DecisionType /\ CallTypes /\ world \in Worlds
  BY <1>1, Types
<1>5. PICK p \in 1 .. Len(packages) :
        /\ p = package[w]
        /\ w \notin disturbed => p = Len(packages)
  BY <1>3, <1>4 DEF CallTypes, ObtainedPackage
<1>6. /\ judged' \in [Workers -> Seq(1 .. Len(packages))]
      /\ \A v \in Workers \ {w} : judged'[v] = judged[v]
      /\ Judged(w, 0) => Judged(w, 1)'
      /\ Judged(w, 1) => Judged(w, 2)'
  <2>1. judged' = [judged EXCEPT ![w] = Append(@, p)]
    BY <1>1, <1>5, Zenon
  <2> QED
    BY <1>1, <1>3, <1>5, <2>1, JudgedMore
<1>7. /\ package' \in [Workers -> 0 .. Len(packages)]
      /\ \A v \in Workers \ {w} : package'[v] = package[v]
  BY <1>1, <1>4, <1>5 DEF CallTypes
<1>8. TypeOK'
  <2>1. sufficiency' \in 0 .. Len(packages)
    BY <1>1, <1>5
  <2>2. RowTypes' /\ DecisionType'
    BY <1>1, <1>4, <2>1 DEF RowTypes, DecisionType
  <2>3. CallTypes'
    BY <1>1, <1>2, <1>4, <1>6, <1>7 DEF CallTypes
  <2> QED
    BY <1>1, <1>4, <2>2, <2>3, TypesNext
<1>9. CallSound(w)'
  <2>1. CASE /\ agenda[w] = <<"insertSufficiency", "checkControls",
                              "checkSufficiency", "readPackage", "decide">>
             /\ Judged(w, 0)
    <3>1. agenda'[w] = <<"checkControls", "checkSufficiency", "readPackage", "decide">>
      BY <1>2, <2>1
    <3> QED
      BY <1>1, <1>3, <1>6, <2>1, <3>1 DEF CallSound, DecideSound, ControlsSound
  <2>2. CASE /\ agenda[w] = <<"insertSufficiency", "readPackage", "decide">>
             /\ Judged(w, 1) /\ ObtainedControls(w)
    <3>1. agenda'[w] = <<"readPackage", "decide">>
      BY <1>2, <2>2
    <3>2. ObtainedControls(w)'
      BY <1>1, <2>2 DEF ObtainedControls
    <3> QED
      BY <1>1, <1>3, <1>6, <2>2, <3>1, <3>2 DEF CallSound, DecideSound, ObserveSound
  <2> QED
    BY <1>3, <2>1, <2>2
<1>10. RowsGrow
  BY <1>1, RowsStay
<1>11. \A v \in Workers \ {w} : CallKept(v) /\ Followed(v)
  BY <1>1, <1>2, <1>6, <1>7 DEF CallKept, Followed
<1> QED
  BY <1>1, <1>8, <1>9, <1>10, <1>11, StepInv

LEMMA ResolveTypes ==
  \A condition, assessment, authority :
    ResolveOutcome(condition, assessment, authority) \in Outcome
BY DEF ResolveOutcome, Outcome

\* The rows that a decision is made on.
LEMMA AboutToDecide ==
  ASSUME TypeOK, NEW w \in Workers, CallSound(w), At(w, "decide")
  PROVE  /\ agenda[w] = <<"decide">> /\ ObtainedControls(w) /\ ObtainedPackage(w)
         /\ Judged(w, 2)
         /\ controlSet[w] \in 1 .. Len(controlSets)
         /\ package[w] \in 1 .. Len(packages)
         /\ judged[w][1] \in 1 .. Len(packages)
         /\ judged[w][2] \in 1 .. Len(packages)
<1>1. /\ agenda[w] = <<"decide">> /\ ObtainedControls(w) /\ ObtainedPackage(w)
      /\ Judged(w, 2)
  BY AtDecide
<1>2. RowTypes /\ CallTypes
  BY Types
<1>3. /\ controlSet[w] \in 1 .. Len(controlSets)
      /\ package[w] \in 1 .. Len(packages)
  <2>1. controlSet[w] \in 0 .. Len(controlSets) /\ package[w] \in 0 .. Len(packages)
    BY <1>2 DEF CallTypes
  <2>2. Len(controlSets) \in Nat /\ Len(packages) \in Nat
    BY <1>2 DEF RowTypes
  <2>3. controlSet[w] # 0 /\ package[w] # 0
    BY <1>1 DEF ObtainedControls, ObtainedPackage
  <2> QED
    BY <2>1, <2>2, <2>3
<1>4. judged[w] \in Seq(1 .. Len(packages)) /\ Len(judged[w]) = 2
  BY <1>1, <1>2 DEF CallTypes, Judged
<1>5. judged[w][1] \in 1 .. Len(packages) /\ judged[w][2] \in 1 .. Len(packages)
  BY <1>4
<1> QED
  BY <1>1, <1>3, <1>5

\* The decision that the step makes.
LEMMA DecisionMade ==
  ASSUME IInv, NEW w \in Workers, NEW matching \in SUBSET DOMAIN Conditions,
         NEW authority \in {None, "UNAVAILABLE"},
         InsertDecision(w, matching, authority)
  PROVE  /\ decision'.outcome =
              ResolveOutcome(
                ConditionOutcome(matching),
                Assessment(MandatoryResults(controlSet[w], judged[w][2], package[w])),
                authority)
         /\ decision'.matching = matching /\ decision'.authority = authority
         /\ decision'.controlSet = controlSet[w]
         /\ decision'.reported = judged[w][1] /\ decision'.counted = judged[w][2]
         /\ decision'.observed = package[w] /\ decision'.bound = Len(packages)
         /\ decision'.disturbed = (w \in disturbed)
<1> DEFINE verdict ==
      ResolveOutcome(
        ConditionOutcome(matching),
        Assessment(MandatoryResults(controlSet[w], judged[w][2], package[w])),
        authority)
<1>1. decision' =
        [outcome |-> verdict, matching |-> matching, authority |-> authority,
         controlSet |-> controlSet[w], reported |-> judged[w][1],
         counted |-> judged[w][2], observed |-> package[w],
         bound |-> Len(packages), disturbed |-> w \in disturbed]
  BY DEF InsertDecision
<1> HIDE DEF verdict
<1>2. /\ decision'.outcome = verdict
      /\ decision'.matching = matching /\ decision'.authority = authority
      /\ decision'.controlSet = controlSet[w]
      /\ decision'.reported = judged[w][1] /\ decision'.counted = judged[w][2]
      /\ decision'.observed = package[w] /\ decision'.bound = Len(packages)
      /\ decision'.disturbed = (w \in disturbed)
  BY <1>1
<1> QED
  BY <1>2 DEF verdict

LEMMA InsertDecisionInv ==
  ASSUME IInv, NEW w \in Workers, NEW matching \in SUBSET DOMAIN Conditions,
         NEW authority \in {None, "UNAVAILABLE"},
         InsertDecision(w, matching, authority)
  PROVE  IInv'
<1>1. /\ At(w, "decide") /\ ~ Idle(w) /\ Done(w) /\ TypeOK /\ CallSound(w)
      /\ controlSet' = [controlSet EXCEPT ![w] = 0]
      /\ package' = [package EXCEPT ![w] = 0]
      /\ judged' = [judged EXCEPT ![w] = << >>]
      /\ disturbed' = disturbed \ {w}
      /\ UNCHANGED <<world, results, controlSets, evidenceSets, packages, sufficiency,
                     derived, basis, evidenceSet, calls>>
  BY DEF InsertDecision, At, IInv
<1>2. PICK set \in 1 .. Len(controlSets), p \in 1 .. Len(packages),
           q \in 1 .. Len(packages), r \in 1 .. Len(packages) :
        /\ set = controlSet[w] /\ p = judged[w][2] /\ q = package[w]
        /\ r = judged[w][1]
  BY <1>1, AboutToDecide
<1>3. RowTypes /\ CallTypes /\ world \in Worlds /\ Len(packages) \in Nat
  BY <1>1, Types DEF RowTypes
<1>4. Len(controlSets) \in Nat
  BY <1>3 DEF RowTypes
<1>5. PICK assessment : assessment = Assessment(MandatoryResults(set, p, q))
  OBVIOUS
<1>6. /\ decision'.outcome =
           ResolveOutcome(ConditionOutcome(matching), assessment, authority)
      /\ decision'.matching = matching /\ decision'.authority = authority
      /\ decision'.controlSet = set /\ decision'.reported = r
      /\ decision'.counted = p /\ decision'.observed = q
      /\ decision'.bound = Len(packages)
      /\ decision'.disturbed \in BOOLEAN
  <2>1. MandatoryResults(controlSet[w], judged[w][2], package[w]) =
          MandatoryResults(set, p, q)
    BY <1>2
  <2>2. /\ decision'.outcome =
             ResolveOutcome(
               ConditionOutcome(matching),
               Assessment(MandatoryResults(controlSet[w], judged[w][2], package[w])),
               authority)
        /\ decision'.matching = matching /\ decision'.authority = authority
        /\ decision'.controlSet = controlSet[w]
        /\ decision'.reported = judged[w][1] /\ decision'.counted = judged[w][2]
        /\ decision'.observed = package[w] /\ decision'.bound = Len(packages)
        /\ decision'.disturbed = (w \in disturbed)
    BY DecisionMade
  <2>3. decision'.outcome =
          ResolveOutcome(ConditionOutcome(matching), assessment, authority)
    BY <1>5, <2>1, <2>2
  <2>4. decision'.disturbed \in BOOLEAN
    <3>1. decision'.disturbed = (w \in disturbed)
      BY <2>2
    <3>2. CASE w \in disturbed
      BY <3>1, <3>2
    <3>3. CASE w \notin disturbed
      BY <3>1, <3>3
    <3> QED
      BY <3>2, <3>3
  <2> QED
    BY <1>2, <2>2, <2>3, <2>4
<1>7. DecisionType'
  BY <1>1, <1>3, <1>4, <1>6, ResolveTypes DEF DecisionType
<1>8. Tail(<<"decide">>) = << >>
  OBVIOUS
<1>9. /\ agenda' \in [Workers -> Seq(Steps)] /\ agenda'[w] = << >>
      /\ \A v \in Workers \ {w} : agenda'[v] = agenda[v]
  BY <1>1, <1>8, AboutToDecide, AgendaDone
<1>10. << >> \in Seq(1 .. Len(packages))
  OBVIOUS
<1>11. /\ judged' \in [Workers -> Seq(1 .. Len(packages))] /\ judged'[w] = << >>
       /\ controlSet' \in [Workers -> 0 .. Len(controlSets)]
       /\ package' \in [Workers -> 0 .. Len(packages)]
       /\ \A v \in Workers \ {w} : /\ judged'[v] = judged[v]
                                   /\ controlSet'[v] = controlSet[v]
                                   /\ package'[v] = package[v]
  BY <1>1, <1>3, <1>4, <1>10 DEF CallTypes
<1>12. CallTypes'
  BY <1>1, <1>3, <1>9, <1>11 DEF CallTypes
<1>13. TypeOK'
  BY <1>1, <1>3, <1>7, <1>12, TypesNext DEF RowTypes
<1>14. RowsGrow
  BY <1>1, RowsStay
<1>15. DecisionSound'
  <2>1. MandatoryResults(set, p, q)' = MandatoryResults(set, p, q)
    BY <1>1, <1>14, MandatoryKept
  <2>2. decision'.controlSet # 0 /\ decision'.counted # 0 /\ decision'.observed # 0
    BY <1>6
  <2> QED
    BY <1>5, <1>6, <2>1, <2>2 DEF DecisionSound
<1>16. CallSound(w)'
  BY <1>9, <1>11 DEF CallSound, DetermineSound
<1>17. ASSUME NEW v \in Workers \ {w} PROVE CallSound(v)'
  <2>1. CallKept(v) /\ Followed(v) /\ CallSound(v)
    BY <1>1, <1>9, <1>11 DEF CallKept, Followed, IInv
  <2> QED
    BY <1>1, <1>14, <2>1, CallKeptSound
<1> QED
  BY <1>13, <1>15, <1>16, <1>17 DEF IInv

LEMMA CrashInv ==
  ASSUME IInv, NEW w \in Workers, Crash(w)
  PROVE  IInv'
<1>1. /\ agenda' = [agenda EXCEPT ![w] = << >>]
      /\ derived' = [derived EXCEPT ![w] = NoResults]
      /\ basis' = [basis EXCEPT ![w] = NoResults]
      /\ controlSet' = [controlSet EXCEPT ![w] = 0]
      /\ evidenceSet' = [evidenceSet EXCEPT ![w] = 0]
      /\ package' = [package EXCEPT ![w] = 0]
      /\ judged' = [judged EXCEPT ![w] = << >>]
      /\ disturbed' = disturbed \ {w}
      /\ UNCHANGED <<world, rowVars, calls>> /\ TypeOK
  BY DEF Crash, IInv
<1>2. RowTypes /\ CallTypes /\ world \in Worlds
  BY <1>1, Types
<1>3. /\ Len(controlSets) \in Nat /\ Len(evidenceSets) \in Nat /\ Len(packages) \in Nat
  BY <1>2 DEF RowTypes
<1>4. << >> \in Seq(1 .. Len(packages)) /\ << >> \in Seq(Steps)
  OBVIOUS
<1>5. CallTypes'
  BY <1>1, <1>2, <1>3, <1>4, NoResultsType DEF CallTypes, rowVars
<1>6. agenda'[w] = << >> /\ judged'[w] = << >>
  BY <1>1, <1>2 DEF CallTypes
<1>7. CallSound(w)'
  BY <1>6 DEF CallSound, DetermineSound
<1>8. \A v \in Workers \ {w} : CallKept(v) /\ (v \in disturbed' <=> v \in disturbed)
  BY <1>1, <1>2 DEF CallTypes, CallKept
<1> QED
  BY <1>1, <1>2, <1>5, <1>7, <1>8, CallStepInv

LEMMA PatchInv ==
  ASSUME IInv, NEW new \in Worlds, Patch(new)
  PROVE  IInv'
<1>1. /\ calls < MaxCalls /\ calls' = calls + 1 /\ world' = new /\ TypeOK
      /\ UNCHANGED <<rowVars, agenda, sessionVars, disturbed>>
  BY DEF Patch, IInv
<1>2. CallTypes' /\ world' \in Worlds
  BY <1>1, Types, WorldAssumption DEF CallTypes, rowVars, sessionVars
<1> QED
  BY <1>1, <1>2, CallStepInv DEF CallKept, sessionVars

-----------------------------------------------------------------------------
(* Theorems *)

LEMMA InitInv == Init => IInv
<1> SUFFICES ASSUME Init PROVE IInv
  OBVIOUS
<1>1. \A S : << >> \in Seq(S) /\ Len(<< >>) = 0
  OBVIOUS
<1>2. RowTypes
  BY <1>1, NoResultsType DEF Init, RowTypes
<1>3. DecisionType
  BY DEF Init, DecisionType, NoDecision
<1>4. CallTypes
  BY <1>1, NoResultsType, WorldAssumption DEF Init, CallTypes
<1>5. TypeOK
  BY <1>2, <1>3, <1>4, Types DEF Init
<1>6. \A w \in Workers : CallSound(w)
  BY DEF Init, CallSound, DetermineSound
<1>7. DecisionSound
  BY DEF Init, DecisionSound, NoDecision
<1> QED
  BY <1>5, <1>6, <1>7 DEF IInv

LEMMA NextInv == IInv /\ [Next]_vars => IInv'
<1> SUFFICES ASSUME IInv, [Next]_vars PROVE IInv'
  OBVIOUS
<1>1. CASE UNCHANGED vars
  <2>1. CallTypes' /\ world' \in Worlds
    BY <1>1, Types DEF IInv, CallTypes, vars, rowVars, sessionVars
  <2> QED
    BY <1>1, <2>1, CallStepInv DEF CallKept, vars, sessionVars
<1>2. CASE \E new \in Worlds : Patch(new)
  BY <1>2, PatchInv
<1>3. CASE \E w \in Workers : Serve(w)
  <2>1. PICK w \in Workers : Serve(w)
    BY <1>3
  <2>2. CASE EvaluateApplicability(w) \/ \E r \in Requirements : Record(w, r)
    BY <2>2, EvaluateApplicabilityInv, RecordInv
  <2>3. CASE \/ Determine(w) \/ CheckControls(w) \/ ReadResults(w)
             \/ InsertControls(w)
    BY <2>3, DetermineInv, CheckControlsInv, ReadResultsInv, InsertControlsInv
  <2>4. CASE \/ Require(w) \/ InsertEvidence(w) \/ Collect(w) \/ CompareEvidence(w)
             \/ \E found \in Collections, observed \in Observations :
                  BuildPackage(w, found, observed)
    BY <2>4, RequireInv, InsertEvidenceInv, CollectInv, CompareEvidenceInv,
       BuildPackageInv
  <2>5. CASE \/ CheckSufficiency(w) \/ ReadPackage(w) \/ InsertSufficiency(w)
             \/ Decide(w) \/ Crash(w)
    BY <2>5, CheckSufficiencyInv, ReadPackageInv, InsertSufficiencyInv, DecideInv,
       CrashInv
  <2>6. CASE \E matching \in SUBSET DOMAIN Conditions,
               authority \in {None, "UNAVAILABLE"} :
               InsertDecision(w, matching, authority)
    BY <2>6, InsertDecisionInv
  <2> QED
    BY <2>1, <2>2, <2>3, <2>4, <2>5, <2>6 DEF Serve
<1> QED
  BY <1>1, <1>2, <1>3 DEF Next

\* The inductive invariant.
THEOREM Invariance == Spec => []IInv
BY InitInv, NextInv, PTL DEF Spec

\* Every row refers to rows there are, and no call takes a step for which what
\* it needs has not been obtained.
THEOREM TypeCorrect == Spec => []TypeOK
<1>1. IInv => TypeOK
  BY DEF IInv
<1> QED
  BY <1>1, Invariance, PTL

\* A decision that nothing has come during rests on the newest results and on
\* one package, the newest.
THEOREM Current == Spec => CurrentUnlessDisturbed
<1>1. ASSUME IInv, [Next]_vars, decision' # decision, ~ decision'.disturbed
      PROVE  /\ controlSets[decision'.controlSet] = results
             /\ {decision'.reported, decision'.counted, decision'.observed,
                 decision'.bound} = {Len(packages)}
  <2>1. PICK w \in Workers, matching \in SUBSET DOMAIN Conditions,
             authority \in {None, "UNAVAILABLE"} :
          InsertDecision(w, matching, authority)
    BY <1>1
       DEF Next, Serve, vars, rowVars, EvaluateApplicability, Record, Determine,
           CheckControls, ReadResults, InsertControls, Require, InsertEvidence,
           Collect, CompareEvidence, BuildPackage, CheckSufficiency, ReadPackage,
           InsertSufficiency, Decide, Crash, Patch
  <2>2. w \notin disturbed
    BY <1>1, <2>1, DecisionMade
  <2>3. /\ controlSets[controlSet[w]] = results /\ package[w] = Len(packages)
        /\ judged[w][1] = Len(packages) /\ judged[w][2] = Len(packages)
    <3>1. At(w, "decide") /\ TypeOK /\ CallSound(w)
      BY <1>1, <2>1 DEF InsertDecision, IInv
    <3>2. ObtainedControls(w) /\ ObtainedPackage(w) /\ Judged(w, 2)
      BY <3>1, AboutToDecide
    <3> QED
      BY <2>2, <3>2 DEF ObtainedControls, ObtainedPackage, Judged
  <2> QED
    BY <1>1, <2>1, <2>3, DecisionMade
<1> QED
  BY <1>1, Invariance, PTL DEF CurrentUnlessDisturbed, Spec

-----------------------------------------------------------------------------
(* What an approval says of the conditions and of the controls *)

\* A finite set of numbers has a least and a greatest one.
LEMMA Extremes ==
  ASSUME NEW S \in SUBSET Nat, IsFiniteSet(S), S # {}
  PROVE  /\ \E n \in S : \A m \in S : n <= m
         /\ \E n \in S : \A m \in S : m <= n
<1> DEFINE Below(n) == {m \in S : m < n}
           Above(n) == {m \in S : m > n}
           AllBelow == {Below(n) : n \in S}
           AllAbove == {Above(n) : n \in S}
<1>1. IsWellFoundedOn(StrictSubsetOrdering(S), FiniteSubsetsOf(S))
  BY FS_StrictSubsetOrderingWellFounded
<1>2. \A X \in SUBSET S : X \in FiniteSubsetsOf(S)
  BY FS_Subset DEF FiniteSubsetsOf
<1>3. /\ AllBelow \subseteq FiniteSubsetsOf(S) /\ AllBelow # {}
      /\ AllAbove \subseteq FiniteSubsetsOf(S) /\ AllAbove # {}
  BY <1>2
<1>4. /\ \E X \in AllBelow : \A Y \in AllBelow :
           ~ (<<Y, X>> \in StrictSubsetOrdering(S))
      /\ \E X \in AllAbove : \A Y \in AllAbove :
           ~ (<<Y, X>> \in StrictSubsetOrdering(S))
  <2> HIDE DEF AllBelow, AllAbove
  <2> QED
    BY <1>1, <1>3, WFMin
<1>5. PICK n \in S : \A m \in S : ~ (<<Below(m), Below(n)>> \in StrictSubsetOrdering(S))
  BY <1>4
<1>6. ASSUME NEW m \in S, m < n PROVE FALSE
  <2>1. Below(m) \in SUBSET S /\ Below(n) \in SUBSET S
    OBVIOUS
  <2>2. \A k \in S : k < m => k < n
    BY <1>6
  <2>3. Below(m) \subseteq Below(n)
    BY <2>2
  <2>4. m \in Below(n) /\ m \notin Below(m)
    BY <1>6
  <2> QED
    BY <1>5, <2>1, <2>3, <2>4 DEF StrictSubsetOrdering
<1>7. PICK l \in S : \A m \in S : ~ (<<Above(m), Above(l)>> \in StrictSubsetOrdering(S))
  BY <1>4
<1>8. ASSUME NEW m \in S, m > l PROVE FALSE
  <2>1. Above(m) \in SUBSET S /\ Above(l) \in SUBSET S
    OBVIOUS
  <2>2. \A k \in S : k > m => k > l
    BY <1>8
  <2>3. Above(m) \subseteq Above(l)
    BY <2>2
  <2>4. m \in Above(l) /\ m \notin Above(m)
    BY <1>8
  <2> QED
    BY <1>7, <2>1, <2>3, <2>4 DEF StrictSubsetOrdering
<1> HIDE DEF Below, Above
<1> QED
  BY <1>5, <1>6, <1>7, <1>8

\* Conditions that match have a last one that is reached: the outcome is one of
\* theirs, and none before it is terminal.
LEMMA ApprovingCondition ==
  ASSUME NEW matching \in SUBSET DOMAIN Conditions,
         ConditionOutcome(matching) = "APPROVED"
  PROVE  \E i \in matching :
           /\ Conditions[i].verdict = "APPROVED"
           /\ \A j \in matching : j < i => ~ Conditions[j].terminal
<1> DEFINE stops == {j \in matching : Conditions[j].terminal}
<1>1. matching # {} /\ matching \in SUBSET Nat /\ IsFiniteSet(matching)
  BY PackageAssumption, FS_Subset DEF ConditionOutcome, None
<1>2. \E i \in matching : \A j \in stops : j >= i
  <2>1. CASE stops = {}
    BY <1>1, <2>1
  <2>2. CASE stops # {}
    <3>1. stops \in SUBSET Nat /\ IsFiniteSet(stops)
      BY <1>1, FS_Subset
    <3>2. PICK i \in stops : \A j \in stops : i <= j
      <4> HIDE DEF stops
      <4> QED
        BY <2>2, <3>1, Extremes
    <3>3. i \in matching /\ i \in Nat /\ stops \subseteq Nat
      BY <1>1
    <3> HIDE DEF stops
    <3> QED
      BY <3>2, <3>3
  <2> QED
    BY <2>1, <2>2
<1>3. /\ Triggered(matching) # {} /\ Triggered(matching) \in SUBSET Nat
      /\ IsFiniteSet(Triggered(matching))
  BY <1>1, <1>2, FS_Subset DEF Triggered
<1>4. \E i \in Triggered(matching) : \A j \in Triggered(matching) : j <= i
  BY <1>3, Extremes
<1>5. PICK i \in Triggered(matching) : Conditions[i].verdict = "APPROVED"
  BY <1>1, <1>4 DEF ConditionOutcome
<1>6. i \in matching /\ i \in Nat
      /\ \A j \in matching : Conditions[j].terminal => j >= i
  BY <1>1, <1>5 DEF Triggered
<1>7. ASSUME NEW j \in matching, j < i PROVE ~ Conditions[j].terminal
  BY <1>1, <1>6, <1>7
<1> QED
  BY <1>5, <1>6, <1>7

\* The gate lets the expression decide only if nothing is the matter with any
\* item.
LEMMA OpenGate ==
  ASSUME NEW statuses, Gate(statuses) = None
  PROVE  statuses \cap {"MANUAL_REVIEW_REQUIRED", None, "STALE", "NOT_EVALUABLE",
                        "MISSING", "INVALID", "PARTIAL"} = {}
<1>1. "MANUAL_REVIEW_REQUIRED" \notin statuses
  BY DEF Gate, None
<1>2. statuses \cap {None, "STALE", "NOT_EVALUABLE"} = {}
  BY <1>1 DEF Gate, None
<1>3. statuses \cap {"MISSING", "INVALID", "PARTIAL"} = {}
  BY <1>1, <1>2 DEF Gate, None
<1> QED
  BY <1>1, <1>2, <1>3

\* A control that is not wanting passes the gate, and its expression holds.
LEMMA NotWanting ==
  ASSUME NEW c, NEW statuses, NEW observed,
         ControlResult(c, statuses, observed) \notin
           {"MANUAL_REVIEW_REQUIRED", "NOT_EVALUABLE", "NOT_SATISFIED"}
  PROVE  Gate(statuses) = None /\ (c \in Expressed => observed = "TRUE")
<1>1. Gate(statuses) \in {None, "MANUAL_REVIEW_REQUIRED", "NOT_EVALUABLE",
                          "NOT_SATISFIED"}
  BY DEF Gate
<1>2. Gate(statuses) = None
  BY <1>1 DEF ControlResult
<1> QED
  BY <1>2 DEF ControlResult

\* An item with which nothing is the matter takes part, needs no review and has
\* the valid evidence it needs.
LEMMA SufficientItem ==
  ASSUME NEW i \in Items, NEW rs, NEW entry \in Entry,
         Sufficiency(i, rs, entry) \notin
           {"MANUAL_REVIEW_REQUIRED", None, "STALE", "NOT_EVALUABLE", "MISSING",
            "INVALID", "PARTIAL"}
  PROVE  /\ i \notin ManualItems /\ ValidCount(entry) >= MinimumCardinality[i]
         /\ \E d \in Referencing(i) : \E r \in RequirementsOf[d] :
              rs[r] \in {"APPLICABLE", "CONDITIONAL"}
<1>1. ItemState(i, rs) \notin {"NOT_REQUIRED", "UNRESOLVED"} /\ i \notin ManualItems
  BY DEF Sufficiency
<1>2. ValidCount(entry) >= MinimumCardinality[i]
  BY <1>1 DEF Sufficiency, Entry, Failure, ValidCount, None
<1>3. \E d \in Referencing(i) : ControlStatus(d, rs) \in {"APPLICABLE", "CONDITIONAL"}
  BY <1>1 DEF ItemState
<1>4. \A d : ControlStatus(d, rs) \in {"APPLICABLE", "CONDITIONAL"} =>
        \E r \in RequirementsOf[d] : rs[r] \in {"APPLICABLE", "CONDITIONAL"}
  BY DEF ControlStatus
<1> QED
  BY <1>1, <1>2, <1>3, <1>4

\* A mandatory control of a satisfied assessment stands, and its expression
\* holds if it takes part.
LEMMA SatisfiedControl ==
  ASSUME RowTypes, NEW c \in MandatoryControls, NEW set \in 1 .. Len(controlSets),
         NEW p \in 1 .. Len(packages), NEW q \in 1 .. Len(packages),
         Assessment(MandatoryResults(set, p, q)) = "SATISFIED"
  PROVE  /\ Stands(c, set, p)
         /\ c \in Expressed /\ c \in Included(controlSets[set])
              => packages[q].observed[c] = "TRUE"
<1>1. c \in Controls /\ RequirementsOf[c] \subseteq Requirements
      /\ ItemsOf[c] \subseteq Items
  BY PackageAssumption
<1>2. CASE c \notin Included(controlSets[set])
  <2>1. controlSets[set] \in Results
    BY DEF RowTypes
  <2>2. ControlStatus(c, controlSets[set]) = "EXCLUDED"
    BY <1>1, <1>2 DEF Included
  <2>3. \A r \in RequirementsOf[c] :
          /\ controlSets[set][r] \in ApplicabilityResult \cup {None}
          /\ controlSets[set][r] \notin
               {"APPLICABLE", "CONDITIONAL", "INDETERMINATE", None}
    BY <1>1, <2>1, <2>2 DEF ControlStatus, Results
  <2> QED
    BY <1>2, <2>3 DEF Stands, ApplicabilityResult
<1>3. CASE c \in Included(controlSets[set])
  <2>1. ControlResult(c, Statuses(c, p), packages[q].observed[c]) \in
          MandatoryResults(set, p, q)
    BY <1>3 DEF MandatoryResults
  <2>2. MandatoryResults(set, p, q) \cap
          {"MANUAL_REVIEW_REQUIRED", "NOT_EVALUABLE", "NOT_SATISFIED"} = {}
    BY DEF Assessment
  <2>3. Gate(Statuses(c, p)) = None
        /\ (c \in Expressed => packages[q].observed[c] = "TRUE")
    BY <2>1, <2>2, NotWanting
  <2>4. Statuses(c, p) \cap
          {"MANUAL_REVIEW_REQUIRED", None, "STALE", "NOT_EVALUABLE", "MISSING",
           "INVALID", "PARTIAL"} = {}
    BY <2>3, OpenGate
  <2>5. ASSUME NEW i \in ItemsOf[c]
        PROVE  /\ i \notin ManualItems
               /\ ValidCount(packages[p].found[i]) >= MinimumCardinality[i]
               /\ \E d \in Referencing(i) :
                    \E r \in RequirementsOf[d] :
                      ResultsOf(packages[p].set)[r] \in {"APPLICABLE", "CONDITIONAL"}
    <3>1. i \in Items /\ packages[p].found[i] \in Entry
      <4>1. packages[p] \in [set : 1 .. Len(evidenceSets), found : Collections,
                             observed : Observations]
        BY ElementOfSeq DEF RowTypes
      <4>2. packages[p].found \in Collections
        BY <4>1
      <4>3. packages[p].found \in [Items -> Entry]
        BY <4>2, WorldAssumption
      <4> QED
        BY <1>1, <4>3
    <3>2. Sufficiency(i, ResultsOf(packages[p].set), packages[p].found[i]) \in
            Statuses(c, p)
      BY DEF Statuses
    <3>3. Sufficiency(i, ResultsOf(packages[p].set), packages[p].found[i]) \notin
            {"MANUAL_REVIEW_REQUIRED", None, "STALE", "NOT_EVALUABLE", "MISSING",
             "INVALID", "PARTIAL"}
      BY <2>4, <3>2
    <3> QED
      BY <3>1, <3>3, SufficientItem
  <2> QED
    BY <2>3, <2>5 DEF Stands
<1> QED
  BY <1>2, <1>3

\* An approval rests on an approving condition, a satisfied assessment and
\* authority that is not UNAVAILABLE.
LEMMA ApprovingOutcome ==
  ASSUME NEW condition, NEW assessment, NEW authority,
         assessment \in {"MANUAL_REVIEW_REQUIRED", "NOT_EVALUABLE",
                         "NOT_SATISFIED", "SATISFIED"},
         ResolveOutcome(condition, assessment, authority) = "APPROVED"
  PROVE  /\ condition = "APPROVED" /\ assessment = "SATISFIED"
         /\ authority # "UNAVAILABLE"
BY DEF ResolveOutcome

\* An approved decision rests on an approving condition that is reached, on
\* authority that is not UNAVAILABLE, and on mandatory controls that stand.
THEOREM Earned == Spec => []ApprovedIsEarned
<1>1. ASSUME IInv, decision.outcome = "APPROVED" PROVE ApprovedIsEarned
  <2>1. RowTypes /\ DecisionType /\ DecisionSound
    BY <1>1, Types DEF IInv
  <2>2. /\ decision.controlSet # 0 /\ decision.counted # 0 /\ decision.observed # 0
        /\ decision.outcome =
             ResolveOutcome(
               ConditionOutcome(decision.matching),
               Assessment(MandatoryResults(decision.controlSet, decision.counted,
                                           decision.observed)),
               decision.authority)
    BY <1>1, <2>1 DEF DecisionSound, None
  <2>3. /\ ConditionOutcome(decision.matching) = "APPROVED"
        /\ Assessment(MandatoryResults(decision.controlSet, decision.counted,
                                       decision.observed)) = "SATISFIED"
        /\ decision.authority # "UNAVAILABLE"
    <3>1. \A s : Assessment(s) \in {"MANUAL_REVIEW_REQUIRED", "NOT_EVALUABLE",
                                    "NOT_SATISFIED", "SATISFIED"}
      BY DEF Assessment
    <3> QED
      BY <1>1, <2>2, <3>1, ApprovingOutcome
  <2>4. \E i \in decision.matching :
          /\ Conditions[i].verdict = "APPROVED"
          /\ \A j \in decision.matching : j < i => ~ Conditions[j].terminal
    BY <2>1, <2>3, ApprovingCondition DEF DecisionType
  <2>5. /\ decision.controlSet \in 1 .. Len(controlSets)
        /\ decision.counted \in 1 .. Len(packages)
        /\ decision.observed \in 1 .. Len(packages)
    <3>1. Len(controlSets) \in Nat /\ Len(packages) \in Nat
      BY <2>1 DEF RowTypes
    <3>2. /\ decision.controlSet \in 0 .. Len(controlSets)
          /\ decision.counted \in 0 .. Len(packages)
          /\ decision.observed \in 0 .. Len(packages)
      BY <2>1 DEF DecisionType
    <3> QED
      BY <2>2, <3>1, <3>2
  <2>6. \A c \in MandatoryControls :
          /\ Stands(c, decision.controlSet, decision.counted)
          /\ c \in Expressed /\ c \in Included(controlSets[decision.controlSet])
               => packages[decision.observed].observed[c] = "TRUE"
    BY <2>1, <2>3, <2>5, SatisfiedControl
  <2> QED
    BY <2>3, <2>4, <2>6 DEF ApprovedIsEarned
<1>2. IInv => ApprovedIsEarned
  BY <1>1 DEF ApprovedIsEarned
<1> QED
  BY <1>2, Invariance, PTL
=============================================================================
