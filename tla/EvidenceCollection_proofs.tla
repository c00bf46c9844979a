---------------------- MODULE EvidenceCollection_proofs ----------------------
(***************************************************************************)
(* Proofs about EvidenceCollection, for any number of jobs, items and      *)
(* connectors and any requirements and reports.                            *)
(*                                                                         *)
(* The inductive invariant says, of each job alone, what each table holds  *)
(* in terms of the one before it: answers of their tasks, rows of their    *)
(* answers, outcomes of their rows, normalized evidence of valid outcomes, *)
(* and a package of all of them, once nothing of the job changes any more. *)
(***************************************************************************)
EXTENDS EvidenceCollection, TLAPS

PlanSound(j) ==
  IF pc[j] = "new" THEN Tasks(j) = {}
  ELSE \A i \in Items : Planned(requirements[j], i, task[<<j, i>>])

\* An answer belongs to a planned task; evidence is what could be collected,
\* and not a simulator's in production.
AnswerSound(j, i) ==
  /\ answer[<<j, i>>] # Nothing =>
       i \in Tasks(j) /\ answer[<<j, i>>].status # None
  /\ answer[<<j, i>>].status = "COLLECTED" =>
       answer[<<j, i>>] \in Reports[i] /\ ~ Rejected(j, i)
  /\ pc[j] \in {"persist", "validate", "done"} /\ i \in Tasks(j) =>
       answer[<<j, i>>] # Nothing

\* A task is asked again only while attempts are left.
AttemptSound(j, i) ==
  attempts[<<j, i>>] > 0 =>
    /\ i \in Tasks(j)
    /\ answer[<<j, i>>] = Nothing => attempts[<<j, i>>] < MaxAttempts[task[<<j, i>>]]

\* What is stored of an item is what was answered, and what it is found to be
\* is what is stored.
RowSound(j, i) ==
  /\ raw[<<j, i>>] # Nothing =>
       /\ i \in Tasks(j) /\ raw[<<j, i>>] = Row(j, i)
       /\ pc[j] \in {"persist", "validate", "done", "cut"}
  /\ pc[j] \in {"validate", "done"} /\ i \in Tasks(j) => raw[<<j, i>>] # Nothing
  /\ outcome[<<j, i>>] # None =>
       /\ i \in RawOf(j) /\ outcome[<<j, i>>] = Verdict(i, raw[<<j, i>>])
       /\ pc[j] \in {"validate", "done", "cut"}
  /\ <<j, i>> \in normalized => outcome[<<j, i>>] = "VALID"

ItemsSound(j) ==
  \A i \in Items : AnswerSound(j, i) /\ AttemptSound(j, i) /\ RowSound(j, i)

JobSound(j) ==
  /\ PlanSound(j)
  /\ ItemsSound(j)
  /\ pc[j] \in {"validate", "done"} => status[j] = JobStatus(j)

\* A package sums up a job that has ended.
PackageSound(p) ==
  /\ pc[p.job] = "done"
  /\ \A i \in RawOf(p.job) : outcome[<<p.job, i>>] # None
  /\ ValidOf(p.job) \subseteq NormalizedOf(p.job)
  /\ p.normalized = NormalizedOf(p.job)
  /\ p.missing = Missing(p.job) /\ p.invalid = Invalid(p.job)

IInv ==
  /\ TypeOK
  /\ \A j \in Jobs : JobSound(j)
  /\ \A p \in packages : PackageSound(p)

-----------------------------------------------------------------------------
(* What a step of one job leaves alone *)

JobUnchanged(j) ==
  /\ pc'[j] = pc[j] /\ status'[j] = status[j]
  /\ requirements'[j] = requirements[j] /\ production'[j] = production[j]
  /\ \A i \in Items :
       /\ task'[<<j, i>>] = task[<<j, i>>]
       /\ attempts'[<<j, i>>] = attempts[<<j, i>>]
       /\ answer'[<<j, i>>] = answer[<<j, i>>]
       /\ raw'[<<j, i>>] = raw[<<j, i>>]
       /\ outcome'[<<j, i>>] = outcome[<<j, i>>]
       /\ <<j, i>> \in normalized' <=> <<j, i>> \in normalized

LEMMA UnchangedSets ==
  ASSUME NEW j \in Jobs, JobUnchanged(j)
  PROVE  /\ Tasks(j)' = Tasks(j) /\ RawOf(j)' = RawOf(j) /\ ValidOf(j)' = ValidOf(j)
         /\ NormalizedOf(j)' = NormalizedOf(j) /\ Unresolved(j)' = Unresolved(j)
         /\ Missing(j)' = Missing(j) /\ Invalid(j)' = Invalid(j)
         /\ JobStatus(j)' = JobStatus(j)
<1> USE DEF JobUnchanged
<1>1. Tasks(j)' = Tasks(j) /\ RawOf(j)' = RawOf(j) /\ ValidOf(j)' = ValidOf(j)
  BY DEF Tasks, RawOf, ValidOf
<1>2. NormalizedOf(j)' = NormalizedOf(j)
  BY DEF NormalizedOf
<1>3. Unresolved(j)' = Unresolved(j)
  BY <1>1 DEF Unresolved
<1>4. Missing(j)' = Missing(j)
  BY <1>2, <1>3, RequirementAssumption DEF Missing
<1>5. Invalid(j)' = Invalid(j)
  BY DEF Invalid
<1>6. {i \in Tasks(j) : Collected(j, i)}' = {i \in Tasks(j) : Collected(j, i)}
  BY <1>1 DEF Collected, Tasks
<1>7. JobStatus(j)' = JobStatus(j)
  BY <1>1, <1>3, <1>6 DEF JobStatus
<1> QED
  BY <1>1, <1>2, <1>3, <1>4, <1>5, <1>7

LEMMA UnchangedSound ==
  ASSUME NEW j \in Jobs, JobSound(j), JobUnchanged(j)
  PROVE  JobSound(j)'
<1>1. PlanSound(j)'
  BY UnchangedSets DEF JobSound, JobUnchanged, PlanSound, Planned
<1>2. ASSUME NEW i \in Items
      PROVE  (AnswerSound(j, i) /\ AttemptSound(j, i) /\ RowSound(j, i))'
  <2>1. AnswerSound(j, i) /\ AttemptSound(j, i) /\ RowSound(j, i)
    BY DEF JobSound, ItemsSound
  <2>2. Row(j, i)' = Row(j, i)
    BY DEF JobUnchanged, Row
  <2> QED
    BY <2>1, <2>2, UnchangedSets
       DEF JobUnchanged, AnswerSound, AttemptSound, RowSound, Rejected
<1> QED
  BY <1>1, <1>2, UnchangedSets DEF JobSound, ItemsSound, JobUnchanged

LEMMA StepInv ==
  ASSUME IInv, NEW j \in Jobs, TypeOK', pc[j] # "done", JobSound(j)',
         \A k \in Jobs \ {j} : JobUnchanged(k),
         \A p \in packages' \ packages : PackageSound(p)'
  PROVE  IInv'
<1>1. ASSUME NEW k \in Jobs
      PROVE  JobSound(k)'
  BY UnchangedSound DEF IInv
<1>2. ASSUME NEW p \in packages
      PROVE  PackageSound(p)'
  <2>1. p.job \in Jobs \ {j} /\ PackageSound(p)
    BY DEF IInv, TypeOK, PackageRow, PackageSound
  <2>2. JobUnchanged(p.job)
    BY <2>1
  <2> QED
    BY <2>1, <2>2, UnchangedSets DEF PackageSound, JobUnchanged, RawOf
<1> QED
  BY <1>1, <1>2 DEF IInv
-----------------------------------------------------------------------------
(* Steps of one item *)

ItemSound(j, i) == AnswerSound(j, i) /\ AttemptSound(j, i) /\ RowSound(j, i)

\* Only this item of the job is dealt with.
OnlyItem(j, i) ==
  /\ \A x \in (Jobs \X Items) \ {<<j, i>>} :
       /\ attempts'[x] = attempts[x] /\ answer'[x] = answer[x]
       /\ raw'[x] = raw[x] /\ outcome'[x] = outcome[x]
       /\ x \in normalized' <=> x \in normalized
  /\ UNCHANGED <<plans, status, packages, pc>>

LEMMA ItemStepInv ==
  ASSUME IInv, NEW j \in Jobs, NEW i \in Items, OnlyItem(j, i), TypeOK',
         pc[j] # "done", pc[j] = "validate" => UNCHANGED answer, ItemSound(j, i)'
  PROVE  IInv'
<1>1. JobSound(j)
  BY DEF IInv
<1>2. PlanSound(j)'
  <2>1. Tasks(j)' = Tasks(j)
    BY DEF OnlyItem, Tasks, plans
  <2> QED
    BY <1>1, <2>1 DEF JobSound, PlanSound, Planned, OnlyItem, plans
<1>3. ASSUME NEW k \in Items \ {i}
      PROVE  ItemSound(j, k)'
  <2>1. ItemSound(j, k)
    BY <1>1 DEF JobSound, ItemsSound, ItemSound
  <2>2. /\ <<j, k>> \in (Jobs \X Items) \ {<<j, i>>}
        /\ UNCHANGED <<plans, pc>>
    BY DEF OnlyItem
  <2>3. /\ attempts'[<<j, k>>] = attempts[<<j, k>>]
        /\ answer'[<<j, k>>] = answer[<<j, k>>]
        /\ raw'[<<j, k>>] = raw[<<j, k>>] /\ outcome'[<<j, k>>] = outcome[<<j, k>>]
        /\ <<j, k>> \in normalized' <=> <<j, k>> \in normalized
    BY <2>2 DEF OnlyItem
  <2>4. Row(j, k)' = Row(j, k)
    BY <2>3 DEF Row
  <2>5. /\ k \in Tasks(j)' <=> k \in Tasks(j)
        /\ k \in RawOf(j)' <=> k \in RawOf(j)
    BY <2>2, <2>3 DEF Tasks, RawOf, plans
  <2> QED
    BY <2>1, <2>2, <2>3, <2>4, <2>5
       DEF ItemSound, AnswerSound, AttemptSound, RowSound, Rejected, plans
<1>4. ItemsSound(j)'
  BY <1>3 DEF ItemsSound, ItemSound
<1>5. pc[j] = "validate" => JobStatus(j)' = JobStatus(j)
  BY DEF OnlyItem, plans, JobStatus, Collected, Tasks, Unresolved
<1>6. JobSound(j)'
  BY <1>1, <1>2, <1>4, <1>5 DEF JobSound, OnlyItem
<1>7. ASSUME NEW k \in Jobs \ {j}
      PROVE  JobUnchanged(k)
  <2>1. ASSUME NEW l \in Items
        PROVE  <<k, l>> \in (Jobs \X Items) \ {<<j, i>>}
    OBVIOUS
  <2> QED
    BY <2>1 DEF OnlyItem, JobUnchanged, plans
<1> QED
  BY <1>6, <1>7, StepInv DEF OnlyItem

\* Types of the tables that only items' steps write.
LEMMA ItemTypes ==
  ASSUME IInv, NEW j \in Jobs, NEW i \in Items
  PROVE  /\ <<j, i>> \in Jobs \X Items /\ ItemSound(j, i)
         /\ task[<<j, i>>] \in Connectors \cup {None}
         /\ i \in Tasks(j) <=> task[<<j, i>>] \in Connectors
         /\ attempts[<<j, i>>] \in Nat
         /\ answer \in [Jobs \X Items -> Result] /\ raw \in [Jobs \X Items -> Result]
         /\ answer[<<j, i>>] \in Result /\ raw[<<j, i>>] \in Result
         /\ outcome[<<j, i>>] \in Outcomes \cup {None}
<1>1. <<j, i>> \in Jobs \X Items /\ TypeOK /\ JobSound(j)
  BY DEF IInv
<1>2. answer \in [Jobs \X Items -> Result] /\ raw \in [Jobs \X Items -> Result]
  BY <1>1 DEF TypeOK
<1>3. answer[<<j, i>>] \in Result /\ raw[<<j, i>>] \in Result
  BY <1>1, <1>2
<1>4. /\ task[<<j, i>>] \in Connectors \cup {None} /\ attempts[<<j, i>>] \in Nat
      /\ outcome[<<j, i>>] \in Outcomes \cup {None}
  BY <1>1 DEF TypeOK
<1> QED
  BY <1>1, <1>2, <1>3, <1>4, NoneAssumption
     DEF JobSound, ItemsSound, ItemSound, Tasks

LEMMA ResultTypes ==
  /\ \A why \in Failure \cup {None} : Empty(why) \in Result /\ Empty(why).status = why
  /\ Nothing \in Result
  /\ \A i \in Items : \A r \in Reports[i] : r \in Result /\ r.status = "COLLECTED"
<1>1. \A i \in Items : Reports[i] \subseteq Report
  BY RequirementAssumption
<1> QED
  BY <1>1 DEF Empty, Nothing, Result, Report, Failure, Attested

\* An attempt ends with a result for its task, or with another attempt left.
LEMMA AttemptInv ==
  ASSUME IInv, NEW j \in Jobs, NEW i \in Items, NEW result, Attempt(j, i, result),
         result \in Reports[i] \cup {Empty(why) : why \in Failure \cup {None}},
         result = Nothing => AttemptsLeft(j, i)
  PROVE  IInv'
<1> DEFINE x == <<j, i>>
<1>1. /\ pc[j] = "collect" /\ i \in Tasks(j) /\ answer[x] = Nothing
      /\ ~ Rejected(j, i)
      /\ UNCHANGED <<plans, tables, pc>>
      /\ attempts' = [attempts EXCEPT ![x] = @ + 1]
      /\ answer' = [answer EXCEPT ![x] = result]
  BY DEF Attempt, Pending
<1>2. /\ x \in Jobs \X Items /\ ItemSound(j, i) /\ TypeOK
      /\ task[x] \in Connectors /\ attempts[x] \in Nat
      /\ answer \in [Jobs \X Items -> Result] /\ raw \in [Jobs \X Items -> Result]
      /\ MaxAttempts[task[x]] \in Nat
  BY <1>1, ItemTypes, RegistryAssumption DEF IInv
<1>3. result \in Result /\ (result # Nothing => result.status # None)
  BY ResultTypes, NoneAssumption DEF Nothing
<1>4. /\ answer'[x] = result /\ attempts'[x] = attempts[x] + 1
      /\ attempts' \in [Jobs \X Items -> Nat] /\ answer' \in [Jobs \X Items -> Result]
  BY <1>1, <1>2, <1>3 DEF TypeOK
<1>5. \A y \in (Jobs \X Items) \ {x} :
         attempts'[y] = attempts[y] /\ answer'[y] = answer[y]
  BY <1>1, <1>2 DEF TypeOK
<1>6. attempts[x] > 0 => attempts[x] < MaxAttempts[task[x]]
  BY <1>1, <1>2 DEF ItemSound, AttemptSound
<1>7. \A k \in Jobs, l \in Items :
        attempts'[<<k, l>>] > 0 =>
          \/ attempts'[<<k, l>>] = 1
          \/ attempts'[<<k, l>>] <= MaxAttempts[task'[<<k, l>>]]
  <2>1. TAKE k \in Jobs, l \in Items
  <2>2. CASE <<k, l>> = x
    BY <1>1, <1>2, <1>4, <1>6, <2>2 DEF plans
  <2>3. CASE <<k, l>> # x
    <3>1. attempts'[<<k, l>>] = attempts[<<k, l>>] /\ task'[<<k, l>>] = task[<<k, l>>]
      BY <1>1, <1>5, <2>3 DEF plans
    <3> QED
      BY <1>2, <3>1 DEF TypeOK
  <2> QED
    BY <2>2, <2>3
<1>8. TypeOK'
  <2>1. {answer', raw'} \subseteq [Jobs \X Items -> Result]
    BY <1>1, <1>2, <1>4 DEF tables
  <2> QED
    BY <1>1, <1>2, <1>4, <1>7, <2>1 DEF TypeOK, plans, tables
<1>9. i \in Tasks(j)' /\ Rejected(j, i)' = Rejected(j, i)
  BY <1>1 DEF plans, Tasks, Rejected
<1>10. AnswerSound(j, i)'
  <2>1. result.status = "COLLECTED" => result \in Reports[i]
    BY ResultTypes, NoneAssumption DEF Failure
  <2> QED
    BY <1>1, <1>3, <1>4, <1>9, <2>1, NoneAssumption DEF AnswerSound
<1>11. AttemptSound(j, i)'
  BY <1>1, <1>2, <1>4, <1>9 DEF AttemptSound, AttemptsLeft, plans
<1>12. RowSound(j, i)'
  BY <1>1, <1>2, <1>9 DEF ItemSound, RowSound, RawOf, tables
<1> QED
  BY <1>1, <1>5, <1>8, <1>10, <1>11, <1>12, ItemStepInv
     DEF ItemSound, OnlyItem, tables

LEMMA AskInv ==
  ASSUME IInv, NEW j \in Jobs, NEW i \in Items, Ask(j, i)
  PROVE  IInv'
<1>1. \A why \in Failure : Empty(why) # Nothing
  BY ResultTypes, NoneAssumption DEF Nothing
<1>2. \A r \in Reports[i] : r # Nothing
  BY ResultTypes, NoneAssumption DEF Nothing
<1>3. CASE Answer(j, i)
  <2>1. PICK r \in Reports[i] \cup {Empty("NOT_FOUND")} : Attempt(j, i, r)
    BY <1>3 DEF Answer
  <2> QED
    BY <2>1, <1>1, <1>2, AttemptInv DEF Failure
<1>4. CASE Timeout(j, i)
  <2>1. CASE AttemptsLeft(j, i) /\ task[<<j, i>>] \in RetryOnTimeout
    BY <1>4, <2>1, AttemptInv DEF Timeout, Nothing
  <2>2. CASE ~ (AttemptsLeft(j, i) /\ task[<<j, i>>] \in RetryOnTimeout)
    <3>1. Attempt(j, i, Empty("TIMEOUT"))
      BY <1>4, <2>2 DEF Timeout
    <3> QED
      BY <3>1, <1>1, AttemptInv DEF Failure
  <2> QED
    BY <2>1, <2>2
<1>5. CASE Error(j, i)
  <2>1. CASE AttemptsLeft(j, i)
    BY <1>5, <2>1, AttemptInv DEF Error, Nothing
  <2>2. CASE ~ AttemptsLeft(j, i)
    <3>1. Attempt(j, i, Empty("FAILED"))
      BY <1>5, <2>2 DEF Error
    <3> QED
      BY <3>1, <1>1, AttemptInv DEF Failure
  <2> QED
    BY <2>1, <2>2
<1>6. CASE Raise(j, i)
  BY <1>6, <1>1, AttemptInv DEF Raise, Failure
<1> QED
  BY <1>3, <1>4, <1>5, <1>6 DEF Ask

LEMMA RejectMockInv ==
  ASSUME IInv, NEW j \in Jobs, NEW i \in Items, RejectMock(j, i)
  PROVE  IInv'
<1> DEFINE x == <<j, i>>
<1> DEFINE result == Empty("REJECTED_MOCK")
<1>1. /\ pc[j] = "collect" /\ i \in Tasks(j) /\ answer[x] = Nothing
      /\ UNCHANGED <<plans, attempts, tables, pc>>
      /\ answer' = [answer EXCEPT ![x] = result]
  BY DEF RejectMock, Pending
<1>2. /\ x \in Jobs \X Items /\ ItemSound(j, i) /\ TypeOK
      /\ answer \in [Jobs \X Items -> Result] /\ raw \in [Jobs \X Items -> Result]
  BY <1>1, ItemTypes DEF IInv
<1>3. /\ result \in Result /\ result.status = "REJECTED_MOCK"
      /\ result.status \notin {None, "COLLECTED"} /\ result # Nothing
  BY ResultTypes, NoneAssumption DEF Failure, Nothing
<1> HIDE DEF result
<1>4. answer'[x] = result /\ answer' \in [Jobs \X Items -> Result]
  BY <1>1, <1>2, <1>3
<1>5. \A y \in (Jobs \X Items) \ {x} : answer'[y] = answer[y]
  BY <1>1, <1>2
<1>6. TypeOK'
  <2>1. {answer', raw'} \subseteq [Jobs \X Items -> Result]
    BY <1>1, <1>2, <1>4 DEF tables
  <2> QED
    BY <1>1, <1>2, <2>1 DEF TypeOK, plans, tables
<1>7. i \in Tasks(j)'
  BY <1>1 DEF plans, Tasks
<1>8. AnswerSound(j, i)' /\ AttemptSound(j, i)'
  BY <1>1, <1>2, <1>3, <1>4, <1>7
     DEF AnswerSound, AttemptSound, ItemSound
<1>9. RowSound(j, i)'
  BY <1>1, <1>2, <1>7 DEF ItemSound, RowSound, RawOf, tables
<1> QED
  BY <1>1, <1>5, <1>6, <1>8, <1>9, ItemStepInv DEF ItemSound, OnlyItem, tables

LEMMA RowType ==
  ASSUME IInv, NEW j \in Jobs, NEW i \in Items, i \in Tasks(j), answer[<<j, i>>] # Nothing
  PROVE  /\ Row(j, i) \in Result /\ Row(j, i) # Nothing
         /\ Row(j, i).status = answer[<<j, i>>].status
         /\ Row(j, i).flaws = answer[<<j, i>>].flaws
         /\ Row(j, i).subject = Stored(i, "subject", answer[<<j, i>>].subject)
         /\ Row(j, i).target = Stored(i, "target", answer[<<j, i>>].target)
<1>1. PICK r \in Result : r = answer[<<j, i>>]
  BY ItemTypes
<1>2. r.status # None /\ Nothing.status = None
  BY <1>1, ItemTypes, ResultTypes DEF ItemSound, AnswerSound, Nothing
<1>3. /\ Stored(i, "subject", r.subject) \in Attested
      /\ Stored(i, "target", r.target) \in Attested
  BY DEF Stored, Result, Attested
<1>4. PICK s, t \in Attested : /\ s = Stored(i, "subject", r.subject)
                             /\ t = Stored(i, "target", r.target)
  BY <1>3
<1>5. Row(j, i) = [r EXCEPT !.subject = s, !.target = t]
  BY <1>1, <1>4 DEF Row
<1>6. LET row == [r EXCEPT !.subject = s, !.target = t] IN
      /\ row \in Result /\ row.status = r.status /\ row.flaws = r.flaws
      /\ row.subject = s /\ row.target = t
  BY DEF Result
<1> QED
  BY <1>1, <1>2, <1>4, <1>5, <1>6

LEMMA PersistInv ==
  ASSUME IInv, NEW j \in Jobs, NEW i \in Items, Persist(j, i)
  PROVE  IInv'
<1> DEFINE x == <<j, i>>
<1>1. /\ pc[j] = "persist" /\ i \in Tasks(j) /\ raw[x] = Nothing
      /\ UNCHANGED <<plans, pool, status, outcome, normalized, packages, pc>>
      /\ raw' = [raw EXCEPT ![x] = Row(j, i)]
  BY DEF Persist
<1>2. /\ x \in Jobs \X Items /\ ItemSound(j, i) /\ TypeOK
      /\ answer \in [Jobs \X Items -> Result] /\ raw \in [Jobs \X Items -> Result]
      /\ answer[x] # Nothing
  BY <1>1, ItemTypes DEF IInv, ItemSound, AnswerSound
<1>3. Row(j, i) \in Result /\ Row(j, i) # Nothing
  BY <1>1, <1>2, RowType
<1>4. raw'[x] = Row(j, i) /\ raw' \in [Jobs \X Items -> Result]
  BY <1>1, <1>2, <1>3
<1>5. \A y \in (Jobs \X Items) \ {x} : raw'[y] = raw[y]
  BY <1>1, <1>2
<1>6. TypeOK'
  <2>1. {answer', raw'} \subseteq [Jobs \X Items -> Result]
    BY <1>1, <1>2, <1>4 DEF pool
  <2> QED
    BY <1>1, <1>2, <2>1 DEF TypeOK, plans, pool
<1>7. /\ i \in Tasks(j)' /\ Row(j, i)' = Row(j, i)
      /\ Rejected(j, i)' = Rejected(j, i)
  BY <1>1 DEF plans, pool, Tasks, Row, Rejected
<1>8. AnswerSound(j, i)' /\ AttemptSound(j, i)'
  BY <1>1, <1>2, <1>7 DEF AnswerSound, AttemptSound, ItemSound, plans, pool
<1>9. RowSound(j, i)'
  BY <1>1, <1>2, <1>3, <1>4, <1>7 DEF ItemSound, RowSound, RawOf
<1> QED
  BY <1>1, <1>5, <1>6, <1>8, <1>9, ItemStepInv DEF ItemSound, OnlyItem, pool

LEMMA VerdictType ==
  \A i, row : Verdict(i, row) \in Outcomes /\ Verdict(i, row) # None
BY NoneAssumption DEF Verdict, Outcomes, Flaw

LEMMA ValidateInv ==
  ASSUME IInv, NEW j \in Jobs, NEW i \in Items, Validate(j, i)
  PROVE  IInv'
<1> DEFINE x == <<j, i>>
<1>1. /\ pc[j] = "validate" /\ i \in RawOf(j) /\ outcome[x] = None
      /\ UNCHANGED <<plans, pool, status, raw, normalized, packages, pc>>
      /\ outcome' = [outcome EXCEPT ![x] = Verdict(i, raw[x])]
  BY DEF Validate
<1>2. /\ x \in Jobs \X Items /\ ItemSound(j, i) /\ TypeOK
      /\ x \notin normalized
  BY <1>1, ItemTypes, NoneAssumption DEF IInv, ItemSound, RowSound, Outcomes
<1>3. /\ outcome' \in [Jobs \X Items -> Outcomes \cup {None}]
      /\ outcome'[x] = Verdict(i, raw[x]) /\ outcome'[x] # None
      /\ \A y \in (Jobs \X Items) \ {x} : outcome'[y] = outcome[y]
  BY <1>1, <1>2, VerdictType DEF TypeOK
<1>4. TypeOK'
  BY <1>1, <1>2, <1>3 DEF TypeOK, plans, pool
<1>5. /\ i \in Tasks(j)' <=> i \in Tasks(j)
      /\ i \in RawOf(j)' /\ Row(j, i)' = Row(j, i)
      /\ Rejected(j, i)' = Rejected(j, i)
  BY <1>1 DEF plans, pool, Tasks, RawOf, Row, Rejected
<1>6. AnswerSound(j, i)' /\ AttemptSound(j, i)'
  BY <1>1, <1>2, <1>5 DEF AnswerSound, AttemptSound, ItemSound, plans, pool
<1>7. RowSound(j, i)'
  BY <1>1, <1>2, <1>3, <1>5 DEF ItemSound, RowSound
<1> QED
  BY <1>1, <1>3, <1>4, <1>6, <1>7, ItemStepInv DEF ItemSound, OnlyItem, pool

LEMMA NormalizeInv ==
  ASSUME IInv, NEW j \in Jobs, NEW i \in Items, Normalize(j, i)
  PROVE  IInv'
<1> DEFINE x == <<j, i>>
<1>1. /\ pc[j] = "validate" /\ outcome[x] = "VALID"
      /\ UNCHANGED <<plans, pool, status, raw, outcome, packages, pc>>
      /\ normalized' = normalized \cup {x}
  BY DEF Normalize, ValidOf
<1>2. x \in Jobs \X Items /\ ItemSound(j, i) /\ TypeOK
  BY ItemTypes DEF IInv
<1>3. TypeOK'
  BY <1>1, <1>2 DEF TypeOK, plans, pool
<1>4. /\ i \in Tasks(j)' <=> i \in Tasks(j)
      /\ i \in RawOf(j)' <=> i \in RawOf(j)
      /\ Row(j, i)' = Row(j, i) /\ Rejected(j, i)' = Rejected(j, i)
  BY <1>1 DEF plans, pool, Tasks, RawOf, Row, Rejected
<1>5. AnswerSound(j, i)' /\ AttemptSound(j, i)'
  BY <1>1, <1>2, <1>4 DEF AnswerSound, AttemptSound, ItemSound, plans, pool
<1>6. RowSound(j, i)'
  BY <1>1, <1>2, <1>4 DEF ItemSound, RowSound
<1> QED
  BY <1>1, <1>3, <1>5, <1>6, ItemStepInv DEF ItemSound, OnlyItem, pool
-----------------------------------------------------------------------------
(* Steps from one stage to the next *)

LEMMA StageInv ==
  ASSUME IInv, NEW j \in Jobs, NEW stage,
         stage \in {"collect", "persist", "validate", "done", "cut"},
         pc[j] \notin {"new", "done"}, Goto(j, stage),
         UNCHANGED <<plans, pool, raw, outcome, normalized>>,
         TypeOK', \A k \in Jobs \ {j} : status'[k] = status[k],
         stage \in {"persist", "validate", "done"} =>
           \A i \in Tasks(j) : answer[<<j, i>>] # Nothing,
         stage \in {"validate", "done"} =>
           (\A i \in Tasks(j) : raw[<<j, i>>] # Nothing) /\ status'[j] = JobStatus(j),
         stage = "collect" => pc[j] = "planned",
         stage = "persist" => pc[j] = "collect",
         \A p \in packages' \ packages : PackageSound(p)'
  PROVE  IInv'
<1>1. /\ JobSound(j) /\ pc'[j] = stage
      /\ \A k \in Jobs \ {j} : pc'[k] = pc[k]
  BY DEF IInv, TypeOK, Goto
<1>2. PlanSound(j)'
  BY <1>1, ItemTypes DEF JobSound, PlanSound, Planned, plans
<1>3. /\ Tasks(j)' = Tasks(j) /\ Unresolved(j)' = Unresolved(j)
      /\ RawOf(j)' = RawOf(j) /\ JobStatus(j)' = JobStatus(j)
  BY DEF plans, pool, Tasks, Unresolved, RawOf, JobStatus, Collected
<1>4. ASSUME NEW i \in Items
      PROVE  ItemSound(j, i)'
  <2>1. ItemSound(j, i)
    BY <1>1 DEF JobSound, ItemsSound, ItemSound
  <2>2. Row(j, i)' = Row(j, i) /\ Rejected(j, i)' = Rejected(j, i)
    BY DEF plans, pool, Row, Rejected
  <2>3. AnswerSound(j, i)' /\ AttemptSound(j, i)'
    BY <1>1, <1>3, <2>1, <2>2
       DEF ItemSound, AnswerSound, AttemptSound, plans, pool
  <2>4. RowSound(j, i)'
    BY <1>1, <1>3, <2>1, <2>2 DEF ItemSound, RowSound, RawOf
  <2> QED
    BY <2>3, <2>4 DEF ItemSound
<1>5. JobSound(j)'
  BY <1>1, <1>2, <1>3, <1>4 DEF JobSound, ItemsSound, ItemSound
<1>6. \A k \in Jobs \ {j} : JobUnchanged(k)
  BY <1>1 DEF JobUnchanged, plans, pool
<1> QED
  BY <1>5, <1>6, StepInv

LEMMA PlanInv ==
  ASSUME IInv, NEW j \in Jobs, Plan(j)
  PROVE  IInv'
<1>1. /\ pc[j] = "new" /\ UNCHANGED <<pool, tables>>
      /\ pc' = [pc EXCEPT ![j] = "planned"]
  BY DEF Plan, Goto
<1>2. PICK set \in Sets, mode \in BOOLEAN, choice \in [Items -> Connectors \cup {None}] :
        /\ \A i \in Items : Planned(set, i, choice[i])
        /\ requirements' = [requirements EXCEPT ![j] = set]
        /\ production' = [production EXCEPT ![j] = mode]
        /\ task' = [x \in Jobs \X Items |-> IF x[1] = j THEN choice[x[2]] ELSE task[x]]
  BY DEF Plan
<1>3. TypeOK /\ JobSound(j) /\ set \in [Items -> ItemState]
  BY RequirementAssumption DEF IInv
<1>4. ASSUME NEW i \in Items
      PROVE  /\ ItemSound(j, i) /\ i \notin Tasks(j) /\ attempts[<<j, i>>] = 0
         /\ answer[<<j, i>>] = Nothing /\ raw[<<j, i>>] = Nothing
         /\ outcome[<<j, i>>] = None /\ <<j, i>> \notin normalized
  <2>1. ItemSound(j, i) /\ i \notin Tasks(j) /\ attempts[<<j, i>>] \in Nat
    BY <1>1, <1>3, ItemTypes DEF JobSound, PlanSound
  <2> QED
    BY <1>1, <2>1, NoneAssumption
       DEF ItemSound, AnswerSound, AttemptSound, RowSound, Outcomes
<1>5. /\ \A i \in Items : task'[<<j, i>>] = choice[i]
      /\ \A k \in Jobs \ {j}, i \in Items : task'[<<k, i>>] = task[<<k, i>>]
      /\ task' \in [Jobs \X Items -> Connectors \cup {None}]
  BY <1>2, <1>3 DEF TypeOK
<1>6. /\ requirements' \in [Jobs -> [Items -> ItemState]] /\ requirements'[j] = set
      /\ production' \in [Jobs -> BOOLEAN]
      /\ pc' \in [Jobs -> {"new", "planned", "collect", "persist", "validate", "done", "cut"}]
      /\ pc'[j] = "planned"
  BY <1>1, <1>2, <1>3 DEF TypeOK
<1>7. \A k \in Jobs \ {j} : JobUnchanged(k)
  BY <1>1, <1>2, <1>3, <1>5 DEF TypeOK, JobUnchanged, pool, tables
<1>8. TypeOK'
  <2>1. \A k \in Jobs, i \in Items :
          attempts'[<<k, i>>] > 0 =>
            \/ attempts'[<<k, i>>] = 1
            \/ attempts'[<<k, i>>] <= MaxAttempts[task'[<<k, i>>]]
    <3>1. TAKE k \in Jobs, i \in Items
    <3>2. CASE k = j
      BY <1>1, <1>4, <3>2 DEF pool
    <3>3. CASE k # j
      BY <1>1, <1>3, <1>5, <3>3 DEF TypeOK, pool
    <3> QED
      BY <3>2, <3>3
  <2>2. UNCHANGED <<attempts, answer, raw, outcome, normalized, packages, status>>
    BY <1>1 DEF pool, tables
  <2> QED
    BY <1>3, <1>5, <1>6, <2>1, <2>2 DEF TypeOK
<1>9. JobSound(j)'
  <2>1. PlanSound(j)'
    BY <1>2, <1>5, <1>6 DEF PlanSound
  <2>2. ASSUME NEW i \in Items
        PROVE  ItemSound(j, i)'
    <3>1. /\ attempts'[<<j, i>>] = 0 /\ answer'[<<j, i>>] = Nothing
          /\ raw'[<<j, i>>] = Nothing /\ outcome'[<<j, i>>] = None
          /\ <<j, i>> \notin normalized'
      BY <1>1, <1>4 DEF pool, tables
    <3>2. Nothing.status = None
      BY ResultTypes DEF Nothing
    <3> QED
      BY <1>6, <3>1, <3>2, NoneAssumption
         DEF ItemSound, AnswerSound, AttemptSound, RowSound
  <2> QED
    BY <1>6, <2>1, <2>2 DEF JobSound, ItemsSound, ItemSound
<1> QED
  BY <1>1, <1>7, <1>8, <1>9, StepInv DEF tables

LEMMA OpenJobInv ==
  ASSUME IInv, NEW j \in Jobs, OpenJob(j)
  PROVE  IInv'
<1>1. TypeOK'
  BY DEF IInv, TypeOK, OpenJob, Goto, JobStates, plans, pool
<1> QED
  BY <1>1, StageInv DEF IInv, TypeOK, OpenJob

LEMMA GatherInv ==
  ASSUME IInv, NEW j \in Jobs, Gather(j)
  PROVE  IInv'
<1>1. PICK stage \in {"cut", "persist"} : Goto(j, stage)
  BY DEF Gather
<1>2. TypeOK'
  BY <1>1 DEF IInv, TypeOK, Gather, Goto, plans, pool, tables
<1> QED
  BY <1>1, <1>2, StageInv DEF Gather, tables

LEMMA FinishJobInv ==
  ASSUME IInv, NEW j \in Jobs, FinishJob(j)
  PROVE  IInv'
<1>1. JobStatus(j) \in JobStates
  BY DEF JobStatus, JobStates
<1>2. TypeOK'
  BY <1>1 DEF IInv, TypeOK, FinishJob, Goto, plans, pool
<1>3. \A i \in Tasks(j) : answer[<<j, i>>] # Nothing
  <2>1. \A i \in Items : AnswerSound(j, i)
    BY DEF IInv, JobSound, ItemsSound
  <2> QED
    BY <2>1 DEF FinishJob, AnswerSound, Tasks
<1>4. status'[j] = JobStatus(j) /\ \A k \in Jobs \ {j} : status'[k] = status[k]
  BY DEF IInv, TypeOK, FinishJob
<1> QED
  BY <1>2, <1>3, <1>4, StageInv DEF FinishJob

LEMMA BuildPackageInv ==
  ASSUME IInv, NEW j \in Jobs, BuildPackage(j)
  PROVE  IInv'
<1>1. PICK p : /\ p = [job |-> j, normalized |-> NormalizedOf(j),
                      missing |-> Missing(j), invalid |-> Invalid(j)]
               /\ packages' = packages \cup {p}
  BY DEF BuildPackage
<1>2. /\ pc[j] = "validate" /\ \A i \in RawOf(j) : outcome[<<j, i>>] # None
      /\ ValidOf(j) \subseteq NormalizedOf(j)
      /\ Goto(j, "done")
      /\ UNCHANGED <<plans, pool, status, raw, outcome, normalized>>
  BY DEF BuildPackage
<1>3. TypeOK /\ JobSound(j) /\ pc'[j] = "done"
  BY <1>2 DEF IInv, TypeOK, Goto
<1>4. p \in PackageRow
  BY <1>1, RequirementAssumption
     DEF PackageRow, NormalizedOf, Missing, Unresolved, Invalid
<1>5. TypeOK'
  BY <1>1, <1>2, <1>3, <1>4 DEF TypeOK, Goto, plans, pool
<1>6. /\ RawOf(j)' = RawOf(j) /\ ValidOf(j)' = ValidOf(j)
      /\ NormalizedOf(j)' = NormalizedOf(j) /\ Invalid(j)' = Invalid(j)
      /\ Missing(j)' = Missing(j)
  BY <1>2 DEF plans, RawOf, ValidOf, NormalizedOf, Invalid, Missing, Unresolved, Tasks
<1>7. PackageSound(p)'
  BY <1>1, <1>2, <1>3, <1>6 DEF PackageSound
<1>8. /\ \A i \in Tasks(j) : answer[<<j, i>>] # Nothing /\ raw[<<j, i>>] # Nothing
      /\ status[j] = JobStatus(j)
  <2>1. \A i \in Items : AnswerSound(j, i) /\ RowSound(j, i)
    BY <1>3 DEF JobSound, ItemsSound
  <2> QED
    BY <1>2, <1>3, <2>1 DEF JobSound, AnswerSound, RowSound, Tasks
<1>9. \A q \in packages' \ packages : PackageSound(q)'
  BY <1>1, <1>7
<1> QED
  BY <1>2, <1>5, <1>8, <1>9, StageInv

LEMMA CrashInv ==
  ASSUME IInv, NEW j \in Jobs, Crash(j)
  PROVE  IInv'
<1>1. TypeOK'
  BY DEF IInv, TypeOK, Crash, Goto, plans, pool, tables
<1> QED
  BY <1>1, StageInv DEF Crash, tables

-----------------------------------------------------------------------------
(* Theorems *)

LEMMA InitInv == Init => IInv
<1> SUFFICES ASSUME Init PROVE IInv
  OBVIOUS
<1>1. Nothing \in Result /\ Nothing.status = None
  BY ResultTypes DEF Nothing
<1>2. TypeOK
  BY <1>1 DEF Init, TypeOK, ItemState
<1>3. ASSUME NEW j \in Jobs
      PROVE  JobSound(j)
  BY <1>1, NoneAssumption
     DEF Init, JobSound, PlanSound, ItemsSound, AnswerSound, AttemptSound, RowSound,
         Tasks
<1> QED
  BY <1>2, <1>3 DEF IInv, Init

LEMMA NextInv == IInv /\ [Next]_vars => IInv'
<1> SUFFICES ASSUME IInv, [Next]_vars PROVE IInv'
  OBVIOUS
<1>1. CASE UNCHANGED vars
  <2>1. TypeOK'
    BY <1>1 DEF IInv, TypeOK, vars, plans, pool, tables
  <2>2. \A j \in Jobs : JobUnchanged(j)
    BY <1>1 DEF JobUnchanged, vars, plans, pool, tables
  <2>3. ASSUME NEW p \in packages'
        PROVE  PackageSound(p)'
    <3>1. p \in packages /\ p.job \in Jobs /\ PackageSound(p)
      BY <1>1 DEF IInv, TypeOK, PackageRow, vars, tables
    <3> QED
      BY <2>2, <3>1, UnchangedSets DEF PackageSound, JobUnchanged, RawOf
  <2> QED
    BY <2>1, <2>2, <2>3, UnchangedSound DEF IInv
<1>2. CASE Next
  <2>1. PICK j \in Jobs : Plan(j) \/ Proceed(j) \/ Crash(j)
    BY <1>2 DEF Next
  <2>2. CASE Proceed(j)
    <3>1. CASE \E i \in Items : \/ RejectMock(j, i) \/ Ask(j, i) \/ Persist(j, i)
                              \/ Validate(j, i) \/ Normalize(j, i)
      BY <3>1, RejectMockInv, AskInv, PersistInv, ValidateInv, NormalizeInv
    <3> QED
      BY <2>2, <3>1, OpenJobInv, GatherInv, FinishJobInv, BuildPackageInv DEF Proceed
  <2> QED
    BY <2>1, <2>2, PlanInv, CrashInv
<1> QED
  BY <1>1, <1>2

\* The inductive invariant.
THEOREM Invariance == Spec => []IInv
BY InitInv, NextInv, PTL DEF Spec

\* Every table holds rows of its kind, and no task is attempted more often
\* than its connector's policy allows, once at least.
THEOREM TypeCorrect == Spec => []TypeOK
<1>1. IInv => TypeOK
  BY DEF IInv
<1> QED
  BY <1>1, Invariance, PTL

LEMMA ValidPasses ==
  ASSUME NEW i \in Items, NEW row \in Result, Verdict(i, row) = "VALID"
  PROVE  /\ row.status = "COLLECTED" /\ row.flaws = {}
         /\ "subject" \in Binds[i] => row.subject = "requested"
         /\ "target" \in Binds[i] => row.target = "requested"
<1>1. \A flaw \in Flaw : flaw \notin row.flaws
  BY DEF Verdict, Flaw
<1>2. row.flaws \subseteq Flaw
  BY DEF Result
<1>3. row.flaws = {}
  BY <1>1, <1>2
<1> QED
  BY <1>3 DEF Verdict

\* Normalized evidence has been collected and stored, and passes every check.
LEMMA NormalizedItem ==
  ASSUME IInv, NEW j \in Jobs, NEW i \in Items, <<j, i>> \in normalized
  PROVE  /\ i \in Tasks(j) /\ answer[<<j, i>>].status = "COLLECTED"
         /\ outcome[<<j, i>>] = "VALID" /\ raw[<<j, i>>] = Row(j, i)
         /\ answer[<<j, i>>] # Nothing
         /\ Verdict(i, Row(j, i)) = "VALID" /\ Row(j, i) \in Result
         /\ pc[j] # "new"
<1>1. ItemSound(j, i) /\ raw[<<j, i>>] \in Result
  BY ItemTypes
<1>2. /\ outcome[<<j, i>>] = "VALID" /\ i \in RawOf(j)
      /\ i \in Tasks(j) /\ raw[<<j, i>>] = Row(j, i)
      /\ Verdict(i, Row(j, i)) = "VALID" /\ pc[j] # "new"
  BY <1>1, NoneAssumption DEF ItemSound, RowSound, RawOf, Outcomes
<1>3. Row(j, i).status = "COLLECTED" /\ Row(j, i) \in Result
  BY <1>1, <1>2, ValidPasses
<1>4. answer[<<j, i>>].status = "COLLECTED"
  BY <1>3 DEF Row
<1>5. answer[<<j, i>>] # Nothing
  BY <1>4, ResultTypes, NoneAssumption DEF Nothing
<1> QED
  BY <1>1, <1>2, <1>3, <1>4, <1>5

\* What a package presents as normalized was collected for its job by the
\* authoritative connector, and nothing is wrong with it.
THEOREM Backed == Spec => []NormalizedIsBacked
<1>1. ASSUME IInv
      PROVE  NormalizedIsBacked
  <2>1. SUFFICES ASSUME NEW p \in packages, NEW i \in p.normalized
                 PROVE  LET c == task[<<p.job, i>>]
                            report == answer[<<p.job, i>>]
                        IN  /\ c \in Connectors /\ IsAuthoritative(c, i)
                            /\ c \in Mock => ~ production[p.job]
                            /\ report.status = "COLLECTED" /\ report.flaws = {}
                            /\ "subject" \in Binds[i] => report.subject # "other"
                            /\ "target" \in Binds[i] => report.target # "other"
    BY DEF NormalizedIsBacked
  <2>2. PICK j \in Jobs : j = p.job
    BY <1>1 DEF IInv, TypeOK, PackageRow
  <2>3. i \in Items /\ <<j, i>> \in normalized
    BY <1>1, <2>2 DEF IInv, PackageSound, NormalizedOf
  <2>4. /\ i \in Tasks(j) /\ answer[<<j, i>>].status = "COLLECTED"
        /\ answer[<<j, i>>] # Nothing /\ pc[j] # "new"
        /\ Verdict(i, Row(j, i)) = "VALID" /\ Row(j, i) \in Result
    BY <1>1, <2>3, NormalizedItem
  <2>5. /\ task[<<j, i>>] \in Connectors /\ IsAuthoritative(task[<<j, i>>], i)
        /\ ~ Rejected(j, i)
    <3>1. PlanSound(j) /\ AnswerSound(j, i)
      BY <1>1, <2>3 DEF IInv, JobSound, ItemsSound
    <3>2. task[<<j, i>>] \in Connectors
      BY <1>1, <2>3, <2>4, ItemTypes
    <3>3. task[<<j, i>>] # None
      BY <3>2, NoneAssumption
    <3> QED
      BY <2>3, <2>4, <3>1, <3>2, <3>3 DEF PlanSound, Planned, AnswerSound
  <2>6. /\ answer[<<j, i>>].flaws = {}
        /\ "subject" \in Binds[i] =>
             Stored(i, "subject", answer[<<j, i>>].subject) = "requested"
        /\ "target" \in Binds[i] =>
             Stored(i, "target", answer[<<j, i>>].target) = "requested"
    <3>1. /\ Row(j, i).flaws = {}
          /\ "subject" \in Binds[i] => Row(j, i).subject = "requested"
          /\ "target" \in Binds[i] => Row(j, i).target = "requested"
      BY <2>3, <2>4, ValidPasses
    <3> QED
      BY <1>1, <2>3, <2>4, <3>1, RowType
  <2> QED
    BY <2>2, <2>4, <2>5, <2>6, NoneAssumption DEF Stored, Rejected
<1> QED
  BY <1>1, Invariance, PTL

\* Of a job with a package: an item without normalized evidence is either
\* unresolved or stored with an outcome that is not VALID.
LEMMA Accounted ==
  ASSUME IInv, NEW p \in packages, NEW i \in Items
  PROVE  LET j == p.job
             required == requirements[j][i] # "NOT_REQUIRED"
         IN  /\ j \in Jobs
             /\ i \in Tasks(j) => required /\ i \in RawOf(j)
             /\ i \in RawOf(j) => i \in Tasks(j) /\ outcome[<<j, i>>] # None
             /\ outcome[<<j, i>>] = "VALID" <=> i \in p.normalized
             /\ outcome[<<j, i>>] # None => i \in RawOf(j)
<1>1. PICK j \in Jobs : j = p.job
  BY DEF IInv, TypeOK, PackageRow
<1>2. PackageSound(p) /\ PlanSound(j) /\ RowSound(j, i) /\ pc[j] = "done"
  BY <1>1 DEF IInv, JobSound, ItemsSound, PackageSound
<1>3. i \in Tasks(j) => requirements[j][i] # "NOT_REQUIRED"
  BY <1>2 DEF PlanSound, Planned, Tasks
<1>4. /\ i \in Tasks(j) <=> i \in RawOf(j)
      /\ outcome[<<j, i>>] # None => i \in RawOf(j)
      /\ i \in RawOf(j) => outcome[<<j, i>>] # None
  BY <1>1, <1>2 DEF RowSound, RawOf, PackageSound
<1>5. outcome[<<j, i>>] = "VALID" <=> i \in p.normalized
  BY <1>1, <1>2 DEF RowSound, PackageSound, ValidOf, NormalizedOf
<1> QED
  BY <1>1, <1>3, <1>4, <1>5

\* A package leaves no required item unmentioned, and one without anything
\* missing or invalid belongs to a job that is COMPLETED.
THEOREM Accounts == Spec => []PackageAccounts
<1>1. ASSUME IInv, NEW p \in packages
      PROVE  LET set == requirements[p.job]
                 absent == {i \in Items : set[i] # "NOT_REQUIRED"} \ p.normalized
             IN  /\ absent = p.missing \cup p.invalid
                 /\ {i \in absent \cap MandatoryItems : set[i] = "REQUIRED"}
                      \subseteq p.missing
                 /\ absent = {} => status[p.job] = "COMPLETED"
  <2> DEFINE set == requirements[p.job]
  <2> DEFINE absent == {i \in Items : set[i] # "NOT_REQUIRED"} \ p.normalized
  <2>1. PICK j \in Jobs : j = p.job
    BY <1>1 DEF IInv, TypeOK, PackageRow
  <2>2. /\ p.normalized = NormalizedOf(j) /\ p.missing = Missing(j)
        /\ p.invalid = Invalid(j) /\ status[j] = JobStatus(j)
    BY <1>1, <2>1 DEF IInv, JobSound, PackageSound
  <2>3. /\ p.missing \subseteq Items /\ p.invalid \subseteq Items
        /\ absent \subseteq Items
    BY <2>2, RequirementAssumption DEF Missing, Unresolved, Invalid
  <2>4. ASSUME NEW i \in Items
        PROVE  i \in absent <=> i \in p.missing \/ i \in p.invalid
    <3>1. /\ i \in Unresolved(j) <=> (set[i] # "NOT_REQUIRED" /\ i \notin Tasks(j))
          /\ i \in Invalid(j) <=> outcome[<<j, i>>] \notin {None, "VALID"}
      BY <2>1 DEF Unresolved, Invalid
    <3>2. i \in Missing(j) => /\ i \notin p.normalized \/ i \in Unresolved(j)
                             /\ set[i] # "NOT_REQUIRED"
      BY <2>1, <2>2, <3>1 DEF Missing
    <3>3. i \in Unresolved(j) => i \in Missing(j)
      BY DEF Missing
    <3>4. "VALID" # None
      BY NoneAssumption DEF Outcomes
    <3> QED
      BY <1>1, <2>1, <2>2, <3>1, <3>2, <3>3, <3>4, Accounted
  <2>5. absent = p.missing \cup p.invalid
    BY <2>3, <2>4
  <2>6. {i \in absent \cap MandatoryItems : set[i] = "REQUIRED"} \subseteq p.missing
    BY <2>1, <2>2 DEF Missing
  <2>7. ASSUME absent = {}
        PROVE  status[p.job] = "COMPLETED"
    <3>1. ASSUME NEW i \in Tasks(j)
          PROVE  Collected(j, i)
      <4>1. i \in Items /\ i \in p.normalized
        BY <1>1, <2>1, <2>7, Accounted DEF Tasks
      <4>2. <<j, i>> \in normalized
        BY <2>2, <4>1 DEF NormalizedOf
      <4> QED
        BY <1>1, <4>1, <4>2, NormalizedItem DEF Collected
    <3>2. Unresolved(j) = {}
      BY <2>2, <2>5, <2>7 DEF Missing
    <3> QED
      BY <2>1, <2>2, <3>1, <3>2 DEF JobStatus
  <2> QED
    BY <2>5, <2>6, <2>7
<1>2. IInv => PackageAccounts
  BY <1>1 DEF PackageAccounts
<1> QED
  BY <1>2, Invariance, PTL
=============================================================================
