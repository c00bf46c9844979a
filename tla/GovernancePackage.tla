------------------------ MODULE GovernancePackage ------------------------
(***************************************************************************)
(* The registry of executable governance packages: their lifecycle from    *)
(* DRAFT to RETIRED and the supersession of published versions.  Models    *)
(* governance_package_service.                                             *)
(*                                                                         *)
(* A request reads its package and checks the transition on that copy,     *)
(* makes its further checks (a call to the identity service, the           *)
(* signature, the uniqueness of the published version), and commits once.  *)
(* Rows are written by primary key, without locks or constraints, so what  *)
(* was checked may no longer hold at the commit.  Content is bound at      *)
(* creation and no operation changes it, so the hash always verifies.      *)
(*                                                                         *)
(* Two variables are history, read by properties only: "fresh" (nothing    *)
(* this request's checks read has been written since) and "stale" (the     *)
(* versions some request wrote after its checks had gone out of date).     *)
(***************************************************************************)
EXTENDS FiniteSets

CONSTANTS
  Workers,       \* threads that serve requests, one at a time
  Packages,      \* row identifiers
  Versions,      \* pairs of a package name and a package version
  None           \* absent value

ASSUME NoneAssumption == None \notin Packages \cup Versions

PackageStatus ==
  {"DRAFT", "VALIDATED", "APPROVED", "PUBLISHED", "SUPERSEDED", "RETIRED",
   "REJECTED"}

\* PACKAGE_TRANSITIONS, as <<from, to>> pairs.
PackageTransitions ==
  {<<"DRAFT", "VALIDATED">>, <<"DRAFT", "REJECTED">>,
   <<"VALIDATED", "APPROVED">>, <<"VALIDATED", "REJECTED">>,
   <<"VALIDATED", "DRAFT">>,
   <<"APPROVED", "PUBLISHED">>, <<"APPROVED", "REJECTED">>,
   <<"PUBLISHED", "SUPERSEDED">>, <<"PUBLISHED", "RETIRED">>,
   <<"SUPERSEDED", "RETIRED">>}

VARIABLES
  \* the executable_governance_packages table
  status,        \* "none" for an identifier no row has yet
  version,       \* package_name and package_version
  supersedes,    \* supersedes_package_id
  valid,         \* the packages whose content meets the contract
  approvedBy,    \* the packages with an approver recorded
  publishedAt,   \* the packages with a publication date
  supersededBy,  \* superseded_by_package_id
  \* the requests under way
  pc,
  target,        \* the status the request is to write
  package,       \* the package it works on
  wanted,        \* the version it is to create
  other,         \* the successor, or the predecessor to supersede
  fresh,         \* history
  stale          \* history

boundVars == <<version, supersedes, valid>>
rowVars == <<status, boundVars, approvedBy, publishedAt, supersededBy>>
workerVars == <<pc, target, package, wanted, other, fresh>>
vars == <<rowVars, workerVars, stale>>

Existing == {p \in Packages : status[p] # "none"}

PublishedOf(v) == {p \in Packages : status[p] = "PUBLISHED" /\ version[p] = v}

Init ==
  /\ status = [p \in Packages |-> "none"]
  /\ version = [p \in Packages |-> None]
  /\ supersedes = [p \in Packages |-> None]
  /\ valid = {}
  /\ approvedBy = {}
  /\ publishedAt = {}
  /\ supersededBy = [p \in Packages |-> None]
  /\ pc = [w \in Workers |-> "idle"]
  /\ target = [w \in Workers |-> "DRAFT"]
  /\ package = [w \in Workers |-> None]
  /\ wanted = [w \in Workers |-> None]
  /\ other = [w \in Workers |-> None]
  /\ fresh = [w \in Workers |-> TRUE]
  /\ stale = {}

\* The request is answered, and the worker may serve the next one.
Finish(w) ==
  /\ pc' = [pc EXCEPT ![w] = "idle"]
  /\ target' = [target EXCEPT ![w] = "DRAFT"]
  /\ package' = [package EXCEPT ![w] = None]
  /\ wanted' = [wanted EXCEPT ![w] = None]
  /\ other' = [other EXCEPT ![w] = None]

\* Whether the checks of a request read the row of p: its own package, and for
\* a publication the packages of the same version and the predecessor.
HasRead(w, p) ==
  /\ pc[w] # "idle" /\ package[w] # None
  /\ \/ package[w] = p
     \/ /\ pc[w] = "checked"
        /\ version[p] = version[package[w]] \/ supersedes[package[w]] = p

\* What a commit of w to the given rows means for the requests under way.
Touch(w, rows) ==
  /\ fresh' = [x \in Workers |->
                 IF x = w THEN TRUE
                 ELSE fresh[x] /\ \A p \in rows : ~ HasRead(x, p)]
  /\ stale' = IF fresh[w] THEN stale ELSE stale \cup {version[p] : p \in rows}

-----------------------------------------------------------------------------
(* Operations *)

\* create refuses a version that is published at the moment.
CreateCheck(w, v) ==
  /\ pc[w] = "idle"
  /\ PublishedOf(v) = {}
  /\ pc' = [pc EXCEPT ![w] = "read"]
  /\ wanted' = [wanted EXCEPT ![w] = v]
  /\ UNCHANGED <<rowVars, target, package, other, fresh, stale>>

\* The predecessor a package names is not looked up until publication.
CreateInsert(w, p, s, ok) ==
  /\ pc[w] = "read" /\ wanted[w] # None
  /\ status[p] = "none"
  /\ status' = [status EXCEPT ![p] = "DRAFT"]
  /\ version' = [version EXCEPT ![p] = wanted[w]]
  /\ supersedes' = [supersedes EXCEPT ![p] = s]
  /\ valid' = IF ok THEN valid \cup {p} ELSE valid
  /\ Finish(w)
  /\ UNCHANGED <<approvedBy, publishedAt, supersededBy, fresh, stale>>

\* Mutant of MayBegin: the lifecycle table is not consulted.
MayBeginAnywhere(p, t) == p \in Existing /\ (t = "VALIDATED" => p \in valid)

\* The checks an operation makes on its copy of the package; validate writes
\* only a DRAFT whose content meets the contract.
MayBegin(p, t) ==
  /\ <<status[p], t>> \in PackageTransitions
  /\ t = "VALIDATED" => p \in valid

\* validate, approve, publish, retire: named by the status they write.
Read(w, p, t) ==
  /\ pc[w] = "idle"
  /\ MayBegin(p, t)
  /\ pc' = [pc EXCEPT ![w] = "read"]
  /\ target' = [target EXCEPT ![w] = t]
  /\ package' = [package EXCEPT ![w] = p]
  /\ fresh' = [fresh EXCEPT ![w] = TRUE]
  /\ UNCHANGED <<rowVars, wanted, other, stale>>

\* supersede: any other package will do as the successor.
ReadSupersede(w, p, q) ==
  /\ pc[w] = "idle"
  /\ MayBegin(p, "SUPERSEDED")
  /\ q \in Existing \ {p}
  /\ pc' = [pc EXCEPT ![w] = "read"]
  /\ target' = [target EXCEPT ![w] = "SUPERSEDED"]
  /\ package' = [package EXCEPT ![w] = p]
  /\ other' = [other EXCEPT ![w] = q]
  /\ fresh' = [fresh EXCEPT ![w] = TRUE]
  /\ UNCHANGED <<rowVars, wanted, stale>>

Checked(w) ==
  LET s == supersedes[package[w]] IN
  /\ pc' = [pc EXCEPT ![w] = "checked"]
  /\ other' = [other EXCEPT ![w] =
                 IF s # None /\ status[s] = "PUBLISHED" THEN s ELSE None]
  /\ UNCHANGED <<rowVars, target, package, wanted, fresh, stale>>

\* Mutant of PublishCheck: no uniqueness check.
PublishCheckAnyVersion(w) ==
  /\ pc[w] = "read" /\ target[w] = "PUBLISHED"
  /\ Checked(w)

\* The version is not published by another package, and the predecessor, if it
\* is published, is to be superseded along with the publication.
PublishCheck(w) ==
  /\ pc[w] = "read" /\ target[w] = "PUBLISHED"
  /\ PublishedOf(version[package[w]]) \ {package[w]} = {}
  /\ Checked(w)

\* The identity service does not confirm the approver, the signature does not
\* verify, the version is already published, or the caller's hash differs.
Reject(w) ==
  /\ pc[w] # "idle"
  /\ Finish(w)
  /\ UNCHANGED <<rowVars, fresh, stale>>

\* validate, approve and retire.
Commit(w) ==
  /\ pc[w] = "read" /\ target[w] \in {"VALIDATED", "APPROVED", "RETIRED"}
  /\ status' = [status EXCEPT ![package[w]] = target[w]]
  /\ approvedBy' = IF target[w] = "APPROVED" THEN approvedBy \cup {package[w]}
                                             ELSE approvedBy
  /\ Touch(w, {package[w]})
  /\ Finish(w)
  /\ UNCHANGED <<boundVars, publishedAt, supersededBy>>

CommitSupersede(w) ==
  /\ pc[w] = "read" /\ target[w] = "SUPERSEDED"
  /\ status' = [status EXCEPT ![package[w]] = "SUPERSEDED"]
  /\ supersededBy' = [supersededBy EXCEPT ![package[w]] = other[w]]
  /\ Touch(w, {package[w]})
  /\ Finish(w)
  /\ UNCHANGED <<boundVars, approvedBy, publishedAt>>

\* Mutant of CommitPublish: the predecessor gets a status of its own.
CommitPublishWithdrawing(w) ==
  LET rows == {package[w], other[w]} \ {None} IN
  /\ pc[w] = "checked"
  /\ status' = [p \in Packages |->
                  IF p = package[w] THEN "PUBLISHED"
                  ELSE IF p = other[w] THEN "WITHDRAWN" ELSE status[p]]
  /\ publishedAt' = publishedAt \cup {package[w]}
  /\ supersededBy' = [p \in Packages |->
                        IF p = other[w] THEN package[w] ELSE supersededBy[p]]
  /\ Touch(w, rows)
  /\ Finish(w)
  /\ UNCHANGED <<boundVars, approvedBy>>

\* One commit writes the package and its predecessor.
CommitPublish(w) ==
  LET rows == {package[w], other[w]} \ {None} IN
  /\ pc[w] = "checked"
  /\ status' = [p \in Packages |->
                  IF p = package[w] THEN "PUBLISHED"
                  ELSE IF p = other[w] THEN "SUPERSEDED" ELSE status[p]]
  /\ publishedAt' = publishedAt \cup {package[w]}
  /\ supersededBy' = [p \in Packages |->
                        IF p = other[w] THEN package[w] ELSE supersededBy[p]]
  /\ Touch(w, rows)
  /\ Finish(w)
  /\ UNCHANGED <<boundVars, approvedBy>>

Serve(w) ==
  \/ \E v \in Versions : CreateCheck(w, v)
  \/ \E p \in Packages, s \in Existing \cup {None}, ok \in BOOLEAN :
       CreateInsert(w, p, s, ok)
  \/ \E p \in Packages, t \in {"VALIDATED", "APPROVED", "PUBLISHED", "RETIRED"} :
       Read(w, p, t)
  \/ \E p, q \in Packages : ReadSupersede(w, p, q)
  \/ PublishCheck(w)
  \/ Reject(w)
  \/ Commit(w)
  \/ CommitSupersede(w)
  \/ CommitPublish(w)

Next == \E w \in Workers : Serve(w)

Spec == Init /\ [][Next]_vars

-----------------------------------------------------------------------------
(* Properties *)

TypeOK ==
  /\ status \in [Packages -> PackageStatus \cup {"none"}]
  /\ version \in [Packages -> Versions \cup {None}]
  /\ supersedes \in [Packages -> Packages \cup {None}]
  /\ valid \subseteq Packages
  /\ approvedBy \subseteq Packages
  /\ publishedAt \subseteq Packages
  /\ supersededBy \in [Packages -> Packages \cup {None}]
  /\ pc \in [Workers -> {"idle", "read", "checked"}]
  /\ target \in [Workers -> PackageStatus]
  /\ package \in [Workers -> Packages \cup {None}]
  /\ wanted \in [Workers -> Versions \cup {None}]
  /\ other \in [Workers -> Packages \cup {None}]
  /\ fresh \in [Workers -> BOOLEAN]
  /\ stale \subseteq Versions

\* At most one package of a version is PUBLISHED, unless a request wrote the
\* version on checks that had gone out of date: publish checks uniqueness
\* against the rows it reads, and no constraint backs the check.
UniquePublishedUnlessStale ==
  \A p, q \in Packages :
    /\ status[p] = "PUBLISHED" /\ status[q] = "PUBLISHED"
    /\ version[p] = version[q]
    => p = q \/ version[p] \in stale

\* No package takes effect, or has been in effect, without valid content and an
\* identified approver, even when racing requests set its status back and it
\* runs through its lifecycle again.
EffectiveIsApproved ==
  \A p \in Packages :
    status[p] \in {"PUBLISHED", "SUPERSEDED", "RETIRED"} \/ p \in publishedAt
      => p \in valid /\ p \in approvedBy
=============================================================================
