-------------------------- MODULE EvidenceCollection --------------------------
(***************************************************************************)
(* One call of start_collection per job: plan the evidence requirements,   *)
(* ask the connectors concurrently with retries, store what they answered, *)
(* validate and normalise it, and assemble the evidence package            *)
(* (evidence_collection_, evidence_orchestration_, evidence_validation_,   *)
(* evidence_normalization_ and evidence_package_service).                  *)
(*                                                                         *)
(* Every row is committed on its own, so a call that dies leaves the rows  *)
(* it has stored so far.  Jobs share the tables and nothing else.          *)
(***************************************************************************)
EXTENDS Integers, FiniteSets

CONSTANTS
  Jobs,            \* calls of start_collection, with the job each opens
  Items,           \* evidence requirements
  Connectors,      \* registered connectors, all from one process
  Serves,          \* items whose source and evidence type a connector serves
  Mock,            \* simulators
  Position,        \* alphabetical position of a connector's id
  MaxAttempts,     \* retry_policy.max_attempts of each connector
  RetryOnTimeout,  \* connectors whose policy retries a timeout
  MandatoryItems,
  Binds,           \* of each item: the bindings that resolve to an identifier
  Sets,            \* evidence requirement sets: the state of each item
  Reports,         \* what may be collected for each item
  None

ItemState == {"REQUIRED", "OPTIONAL", "CONDITIONAL", "NOT_REQUIRED", "UNRESOLVED"}
Binding == {"subject", "target"}
Flaw == {"INVALID", "UNTRUSTED_SOURCE", "REVOKED", "EXPIRED", "STALE"}
Outcomes == Flaw \cup {"VALID", "INDETERMINATE", "SUBJECT_MISMATCH", "TARGET_MISMATCH"}
JobStates == {"RUNNING", "COMPLETED", "PARTIAL", "FAILED"}

\* How a task may end without evidence: "raised" when its exception leaves it.
Failure == {"NOT_FOUND", "TIMEOUT", "FAILED", "REJECTED_MOCK", "raised"}

\* What evidence attests to: the identifier it was requested for, another
\* one, or, where a connector leaves the field None, nothing.
Attested == {"requested", "other", None}

\* A collected result: the checks it will fail and the bindings it reports.
Report == [status : {"COLLECTED"}, flaws : SUBSET Flaw,
           subject : Attested, target : Attested]

ASSUME RegistryAssumption ==
  /\ Serves \in [Connectors -> SUBSET Items]
  /\ Mock \subseteq Connectors
  /\ Position \in [Connectors -> Nat]
  /\ \A c, d \in Connectors : Position[c] = Position[d] => c = d
  /\ MaxAttempts \in [Connectors -> Nat]
  /\ RetryOnTimeout \subseteq Connectors

ASSUME RequirementAssumption ==
  /\ MandatoryItems \subseteq Items
  /\ Binds \in [Items -> SUBSET Binding]
  /\ Sets \subseteq [Items -> ItemState]
  /\ Reports \in [Items -> SUBSET Report]

ASSUME NoneAssumption ==
  None \notin Connectors \cup Failure \cup Outcomes \cup JobStates \cup
                {"COLLECTED", "requested", "other"}

VARIABLES
  requirements,  \* of each job's plan: its evidence requirement set
  production,    \* of each job's plan: the production mode
  task,          \* of each job and item: the connector planned, if any
  status,        \* status of each job
  attempts,      \* of each job and item: attempts made
  answer,        \* of each job and item: the result of its collection
  raw,           \* of each job and item: the raw evidence stored
  outcome,       \* of each job and item: the outcome of its validation
  normalized,    \* normalized evidence: <<job, item>>
  packages,      \* evidence packages
  pc             \* of each call

plans == <<requirements, production, task>>
pool == <<attempts, answer>>
tables == <<status, raw, outcome, normalized, packages>>
vars == <<plans, pool, tables, pc>>

\* A result that carries nothing, and why; no result at all.
Empty(why) == [status |-> why, flaws |-> {}, subject |-> None, target |-> None]
Nothing == Empty(None)

Init ==
  /\ requirements = [j \in Jobs |-> [i \in Items |-> "NOT_REQUIRED"]]
  /\ production = [j \in Jobs |-> FALSE]
  /\ task = [x \in Jobs \X Items |-> None]
  /\ status = [j \in Jobs |-> None]
  /\ attempts = [x \in Jobs \X Items |-> 0]
  /\ answer = [x \in Jobs \X Items |-> Nothing]
  /\ raw = [x \in Jobs \X Items |-> Nothing]
  /\ outcome = [x \in Jobs \X Items |-> None]
  /\ normalized = {}
  /\ packages = {}
  /\ pc = [j \in Jobs |-> "new"]

Goto(j, stage) == pc' = [pc EXCEPT ![j] = stage]

-----------------------------------------------------------------------------
(* The plan *)

\* candidates in the registry's order: real connectors first, then by id.
Precedes(c, d) ==
  \/ c \notin Mock /\ d \in Mock
  \/ (c \in Mock <=> d \in Mock) /\ Position[c] <= Position[d]

IsAuthoritative(c, i) ==
  /\ i \in Serves[c]
  /\ \A d \in Connectors : i \in Serves[d] => Precedes(c, d)

Planned(set, i, c) ==
  IF set[i] \in {"REQUIRED", "CONDITIONAL", "OPTIONAL"}
    THEN \/ c \in Connectors /\ IsAuthoritative(c, i)
         \/ c = None /\ \A d \in Connectors : i \notin Serves[d]
    ELSE c = None

Tasks(j) == {i \in Items : task[<<j, i>>] # None}

\* What the plan and later the job list as unresolved.
Unresolved(j) ==
  {i \in Items : requirements[j][i] # "NOT_REQUIRED"} \ Tasks(j)

Plan(j) ==
  /\ pc[j] = "new"
  /\ \E set \in Sets, mode \in BOOLEAN, choice \in [Items -> Connectors \cup {None}] :
       /\ \A i \in Items : Planned(set, i, choice[i])
       /\ requirements' = [requirements EXCEPT ![j] = set]
       /\ production' = [production EXCEPT ![j] = mode]
       /\ task' = [x \in Jobs \X Items |-> IF x[1] = j THEN choice[x[2]] ELSE task[x]]
  /\ Goto(j, "planned")
  /\ UNCHANGED <<pool, tables>>

-----------------------------------------------------------------------------
(* Collection *)

OpenJob(j) ==
  /\ pc[j] = "planned"
  /\ status' = [status EXCEPT ![j] = "RUNNING"]
  /\ Goto(j, "collect")
  /\ UNCHANGED <<plans, pool, raw, outcome, normalized, packages>>

Pending(j, i) == pc[j] = "collect" /\ i \in Tasks(j) /\ answer[<<j, i>>] = Nothing

Rejected(j, i) == production[j] /\ task[<<j, i>>] \in Mock

RejectMock(j, i) ==
  /\ Pending(j, i) /\ Rejected(j, i)
  /\ answer' = [answer EXCEPT ![<<j, i>>] = Empty("REJECTED_MOCK")]
  /\ UNCHANGED <<plans, attempts, tables, pc>>

\* Mutant: the first attempt does not count.
AttemptsLeftOneMore(j, i) == attempts[<<j, i>>] < MaxAttempts[task[<<j, i>>]]

\* range(max(1, max_attempts)): a policy of 0 attempts makes one.
AttemptsLeft(j, i) == attempts[<<j, i>>] + 1 < MaxAttempts[task[<<j, i>>]]

\* One attempt, by the task's thread of the pool.
Attempt(j, i, result) ==
  /\ Pending(j, i) /\ ~ Rejected(j, i)
  /\ attempts' = [attempts EXCEPT ![<<j, i>>] = @ + 1]
  /\ answer' = [answer EXCEPT ![<<j, i>>] = result]
  /\ UNCHANGED <<plans, tables, pc>>

\* The connector answers: with evidence, or that there is none.
Answer(j, i) == \E result \in Reports[i] \cup {Empty("NOT_FOUND")} : Attempt(j, i, result)

Timeout(j, i) ==
  LET again == AttemptsLeft(j, i) /\ task[<<j, i>>] \in RetryOnTimeout
  IN  Attempt(j, i, IF again THEN Nothing ELSE Empty("TIMEOUT"))

Error(j, i) == Attempt(j, i, IF AttemptsLeft(j, i) THEN Nothing ELSE Empty("FAILED"))

\* An exception that is neither a ConnectorTimeout nor a ConnectorError, such
\* as an answer whose body is not JSON, leaves the thread.
Raise(j, i) == Attempt(j, i, Empty("raised"))

\* Mutant: waits until every task has collected something.
GatherCollected(j) ==
  /\ pc[j] = "collect"
  /\ \A i \in Tasks(j) : answer[<<j, i>>].status = "COLLECTED"
  /\ Goto(j, "persist")
  /\ UNCHANGED <<plans, pool, tables>>

\* pool.map re-raises it once the other threads are done: the call ends.
Gather(j) ==
  /\ pc[j] = "collect"
  /\ \A i \in Tasks(j) : answer[<<j, i>>] # Nothing
  /\ Goto(j, IF \E i \in Tasks(j) : answer[<<j, i>>].status = "raised" THEN "cut" ELSE "persist")
  /\ UNCHANGED <<plans, pool, tables>>

\* Mutant: the requested identifier replaces whatever is reported.
StoredAsRequested(i, binding, attested) ==
  IF binding \in Binds[i] THEN "requested" ELSE attested

\* A binding the connector is silent about is stored as the requested one.
Stored(i, binding, attested) ==
  IF attested = None /\ binding \in Binds[i] THEN "requested" ELSE attested

Collected(j, i) == answer[<<j, i>>].status = "COLLECTED"

Row(j, i) ==
  [answer[<<j, i>>] EXCEPT !.subject = Stored(i, "subject", @),
                       !.target = Stored(i, "target", @)]

\* The rows are stored one by one, in the order of the ids, which is any.
Persist(j, i) ==
  /\ pc[j] = "persist"
  /\ i \in Tasks(j) /\ raw[<<j, i>>] = Nothing
  /\ raw' = [raw EXCEPT ![<<j, i>>] = Row(j, i)]
  /\ UNCHANGED <<plans, pool, status, outcome, normalized, packages, pc>>

JobStatus(j) ==
  LET collected == {i \in Tasks(j) : Collected(j, i)}
  IN  IF collected = Tasks(j) /\ Unresolved(j) = {} THEN "COMPLETED"
      ELSE IF collected # {} THEN "PARTIAL" ELSE "FAILED"

FinishJob(j) ==
  /\ pc[j] = "persist"
  /\ \A i \in Tasks(j) : raw[<<j, i>>] # Nothing
  /\ status' = [status EXCEPT ![j] = JobStatus(j)]
  /\ Goto(j, "validate")
  /\ UNCHANGED <<plans, pool, raw, outcome, normalized, packages>>

-----------------------------------------------------------------------------
(* Validation, normalization, assembly *)

RawOf(j) == {i \in Items : raw[<<j, i>>] # Nothing}

\* _decide: the first failing check names the outcome.
Verdict(i, row) ==
  LET fails(flaw) == flaw \in row.flaws
      mismatch(binding, attested) == binding \in Binds[i] /\ attested # "requested"
  IN  IF row.status # "COLLECTED" THEN "INDETERMINATE"
      ELSE IF fails("INVALID") THEN "INVALID"
      ELSE IF fails("UNTRUSTED_SOURCE") THEN "UNTRUSTED_SOURCE"
      ELSE IF mismatch("subject", row.subject) THEN "SUBJECT_MISMATCH"
      ELSE IF mismatch("target", row.target) THEN "TARGET_MISMATCH"
      ELSE IF fails("REVOKED") THEN "REVOKED"
      ELSE IF fails("EXPIRED") THEN "EXPIRED"
      ELSE IF fails("STALE") THEN "STALE" ELSE "VALID"

ValidOf(j) == {i \in Items : outcome[<<j, i>>] = "VALID"}
NormalizedOf(j) == {i \in Items : <<j, i>> \in normalized}

\* Each row is validated and, if it is VALID, normalized before the next.
Validate(j, i) ==
  /\ pc[j] = "validate"
  /\ i \in RawOf(j) /\ outcome[<<j, i>>] = None
  /\ ValidOf(j) \subseteq NormalizedOf(j)
  /\ outcome' = [outcome EXCEPT ![<<j, i>>] = Verdict(i, raw[<<j, i>>])]
  /\ UNCHANGED <<plans, pool, status, raw, normalized, packages, pc>>

Normalize(j, i) ==
  /\ pc[j] = "validate"
  /\ i \in ValidOf(j) \ NormalizedOf(j)
  /\ normalized' = normalized \cup {<<j, i>>}
  /\ UNCHANGED <<plans, pool, status, raw, outcome, packages, pc>>

\* Mutant: forgets what the plan found no connector for.
MissingMandatory(j) ==
  {i \in MandatoryItems \ NormalizedOf(j) : requirements[j][i] = "REQUIRED"}

Missing(j) ==
  Unresolved(j) \cup
    {i \in MandatoryItems \ NormalizedOf(j) : requirements[j][i] = "REQUIRED"}

Invalid(j) == {i \in Items : outcome[<<j, i>>] \notin {None, "VALID"}}

BuildPackage(j) ==
  /\ pc[j] = "validate"
  /\ \A i \in RawOf(j) : outcome[<<j, i>>] # None
  /\ ValidOf(j) \subseteq NormalizedOf(j)
  /\ packages' = packages \cup
       {[job |-> j, normalized |-> NormalizedOf(j),
         missing |-> Missing(j), invalid |-> Invalid(j)]}
  /\ Goto(j, "done")
  /\ UNCHANGED <<plans, pool, status, raw, outcome, normalized>>

\* The process dies, or a commit fails: nothing takes the job up again.
Crash(j) ==
  /\ pc[j] \in {"planned", "collect", "persist", "validate"}
  /\ Goto(j, "cut")
  /\ UNCHANGED <<plans, pool, tables>>

Ask(j, i) == Answer(j, i) \/ Timeout(j, i) \/ Error(j, i) \/ Raise(j, i)

Proceed(j) ==
  \/ OpenJob(j) \/ Gather(j) \/ FinishJob(j) \/ BuildPackage(j)
  \/ \E i \in Items : \/ RejectMock(j, i) \/ Ask(j, i) \/ Persist(j, i)
                      \/ Validate(j, i) \/ Normalize(j, i)

Next == \E j \in Jobs : Plan(j) \/ Proceed(j) \/ Crash(j)

\* A call in progress is carried on by its thread; every connector answers or
\* gives up, its HTTP client having a timeout of its own.
Fairness == \A j \in Jobs : WF_vars(Proceed(j))

Spec == Init /\ [][Next]_vars /\ Fairness

-----------------------------------------------------------------------------
(* Properties *)

Result == [status : {"COLLECTED", None} \cup Failure, flaws : SUBSET Flaw,
           subject : Attested, target : Attested]
PackageRow == [job : Jobs, normalized : SUBSET Items,
               missing : SUBSET Items, invalid : SUBSET Items]

TypeOK ==
  /\ requirements \in [Jobs -> [Items -> ItemState]]
  /\ production \in [Jobs -> BOOLEAN]
  /\ task \in [Jobs \X Items -> Connectors \cup {None}]
  /\ status \in [Jobs -> JobStates \cup {None}]
  /\ attempts \in [Jobs \X Items -> Nat]
  /\ \A j \in Jobs, i \in Items :
       attempts[<<j, i>>] > 0 =>
         attempts[<<j, i>>] = 1 \/ attempts[<<j, i>>] <= MaxAttempts[task[<<j, i>>]]
  /\ {answer, raw} \subseteq [Jobs \X Items -> Result]
  /\ outcome \in [Jobs \X Items -> Outcomes \cup {None}]
  /\ normalized \subseteq Jobs \X Items
  /\ packages \subseteq PackageRow
  /\ pc \in [Jobs -> {"new", "planned", "collect", "persist", "validate", "done", "cut"}]

\* What a package presents as normalized evidence was collected for its job
\* by the authoritative connector, a real one in production, fails none of
\* the checks, and attests to the subject and target of the request unless
\* its connector was silent about them.
NormalizedIsBacked ==
  \A p \in packages : \A i \in p.normalized :
    LET c == task[<<p.job, i>>]
        report == answer[<<p.job, i>>]
    IN  /\ c \in Connectors /\ IsAuthoritative(c, i)
        /\ c \in Mock => ~ production[p.job]
        /\ report.status = "COLLECTED" /\ report.flaws = {}
        /\ "subject" \in Binds[i] => report.subject # "other"
        /\ "target" \in Binds[i] => report.target # "other"

\* A package never lets an item go unmentioned: whatever connectors are
\* missing, time out, are rejected or return bad evidence, every item that is
\* not NOT_REQUIRED is normalized or else listed as missing or invalid, the
\* mandatory REQUIRED ones as missing.  A package without either list belongs
\* to a job that is COMPLETED.
PackageAccounts ==
  \A p \in packages :
    LET set == requirements[p.job]
        absent == {i \in Items : set[i] # "NOT_REQUIRED"} \ p.normalized
    IN  /\ absent = p.missing \cup p.invalid
        /\ {i \in absent \cap MandatoryItems : set[i] = "REQUIRED"} \subseteq p.missing
        /\ absent = {} => status[p.job] = "COMPLETED"

\* Every job that is opened ends with a package, however its connectors fail
\* and retry, unless the call dies.
EventuallyPackaged ==
  \A j \in Jobs :
    status[j] = "RUNNING" ~> pc[j] = "cut" \/ \E p \in packages : p.job = j
=============================================================================
