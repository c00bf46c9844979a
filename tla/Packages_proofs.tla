--------------------------- MODULE Packages_proofs --------------------------
(***************************************************************************)
(* Proofs about governance packages, for any number of workers, packages   *)
(* and versions: about their registry (GovernancePackage) and about which  *)
(* of them govern a request, and what their expressions come to            *)
(* (PolicyEvaluation).                                                     *)
(*                                                                         *)
(* The inductive invariant of the registry says what a request may rely on *)
(* when it commits on checks that no lock protects: what it has read of    *)
(* the content and the approver of its rows never becomes false, and as    *)
(* long as it is fresh, no other package of the version it is to publish   *)
(* is PUBLISHED.                                                           *)
(*                                                                         *)
(* What is shown of expressions holds at every one of their nodes.  Where  *)
(* an induction over the nodes would do it, the proofs take the least node *)
(* of which it does not hold: it stands after its arguments.               *)
(***************************************************************************)
EXTENDS GovernancePackage, PolicyEvaluation, FiniteSetTheorems, WellFoundedInduction, TLAPS

-----------------------------------------------------------------------------
(* The registry *)


\* Operations of the service that begin by reading their package.
Targets == {"VALIDATED", "APPROVED", "PUBLISHED", "SUPERSEDED", "RETIRED"}

InEffect == {"PUBLISHED", "SUPERSEDED", "RETIRED"}

Effective(p) == p \in valid /\ p \in approvedBy

\* A row has its version, and names no package without a row.
RowsSound ==
  /\ \A p \in Existing : version[p] \in Versions
  /\ \A p \in Packages : supersedes[p] # None => supersedes[p] \in Existing
  /\ publishedAt \subseteq Existing

\* An idle worker has no package, and a request under way either creates one or
\* works on one there is.
RequestSound(w) ==
  \/ /\ pc[w] = "idle" /\ package[w] = None /\ wanted[w] = None
     /\ target[w] = "DRAFT" /\ other[w] = None
  \/ /\ pc[w] = "read" /\ package[w] = None
     /\ wanted[w] \in Versions /\ target[w] = "DRAFT"
  \/ /\ pc[w] # "idle" /\ package[w] \in Existing /\ wanted[w] = None
     /\ target[w] \in Targets
     /\ pc[w] = "checked" => target[w] = "PUBLISHED"
     /\ other[w] # None => other[w] \in Existing
     /\ target[w] = "SUPERSEDED" => other[w] # None

RequestsSound == \A w \in Workers : RequestSound(w)

\* What a status says of the content and the approver holds of the row, and a
\* request that is to write it has found it so.
RowsApproved ==
  \A p \in Packages :
    /\ status[p] \in Targets => p \in valid
    /\ status[p] \in InEffect \cup {"APPROVED"} => p \in approvedBy
    /\ p \in publishedAt => Effective(p)

RequestApproved(w) ==
  package[w] # None =>
    /\ package[w] \in valid
    /\ target[w] \in InEffect => package[w] \in approvedBy
    /\ pc[w] = "checked" /\ other[w] # None => Effective(other[w])

RequestsApproved == \A w \in Workers : RequestApproved(w)

\* A publication whose checks are not out of date will be the only one.
Alone(w) ==
  pc[w] = "checked" /\ fresh[w] =>
    PublishedOf(version[package[w]]) \ {package[w]} = {}

FreshIsAlone == \A w \in Workers : Alone(w)

IInv ==
  /\ TypeOK
  /\ RowsSound
  /\ RequestsSound
  /\ RowsApproved
  /\ RequestsApproved
  /\ FreshIsAlone
  /\ UniquePublishedUnlessStale

LEMMA InitInv == Init => IInv
BY NoneAssumption
   DEF Init, IInv, TypeOK, RowsSound, RequestsSound, RequestSound, RowsApproved,
       RequestsApproved, RequestApproved, FreshIsAlone, Alone,
       UniquePublishedUnlessStale, Existing, Targets, InEffect, Effective,
       PackageStatus

-----------------------------------------------------------------------------
(* Requests that begin, check and are refused *)

\* The step writes no row, and what it does to the request of w is sound.
LEMMA RequestMoves ==
  ASSUME IInv, NEW w \in Workers, UNCHANGED <<rowVars, stale>>, TypeOK',
         \A x \in Workers \ {w} :
           /\ pc'[x] = pc[x] /\ fresh'[x] = fresh[x]
           /\ target'[x] = target[x] /\ package'[x] = package[x]
           /\ wanted'[x] = wanted[x] /\ other'[x] = other[x],
         RequestSound(w)', RequestApproved(w)', Alone(w)'
  PROVE  IInv'
<1> USE DEF IInv, rowVars, boundVars
<1>1. RowsSound' /\ RowsApproved' /\ UniquePublishedUnlessStale'
  BY DEF RowsSound, RowsApproved, Effective, Existing,
         UniquePublishedUnlessStale
<1>2. RequestsSound' /\ RequestsApproved'
  BY DEF RequestsSound, RequestSound, RequestsApproved, RequestApproved,
         Effective, Existing
<1>3. FreshIsAlone'
  BY DEF FreshIsAlone, Alone, PublishedOf
<1> QED
  BY <1>1, <1>2, <1>3

LEMMA CreateCheckInv ==
  ASSUME IInv, NEW w \in Workers, NEW v \in Versions, CreateCheck(w, v)
  PROVE  IInv'
<1>1. TypeOK'
  BY DEF IInv, TypeOK, CreateCheck, rowVars, boundVars
<1>2. pc'[w] = "read" /\ package'[w] = None /\ wanted'[w] = v
  BY DEF IInv, TypeOK, CreateCheck, RequestsSound, RequestSound
<1>3. target[w] = "DRAFT"
  BY DEF IInv, CreateCheck, RequestsSound, RequestSound
<1>4. RequestSound(w)' /\ RequestApproved(w)' /\ Alone(w)'
  BY <1>2, <1>3 DEF CreateCheck, RequestSound, RequestApproved, Alone
<1> QED
  BY <1>1, <1>4, RequestMoves DEF IInv, TypeOK, CreateCheck

\* What a request reads of its package is sound and stays so.
LEMMA MayBeginFacts ==
  ASSUME IInv, NEW p \in Packages, NEW t \in Targets, MayBegin(p, t)
  PROVE  /\ p \in Existing /\ p # None
         /\ p \in valid
         /\ t \in InEffect => p \in approvedBy
BY NoneAssumption
   DEF IInv, TypeOK, RowsApproved, MayBegin, PackageTransitions, Targets,
       InEffect, Existing

LEMMA ReadInv ==
  ASSUME IInv, NEW w \in Workers, NEW p \in Packages,
         NEW t \in {"VALIDATED", "APPROVED", "PUBLISHED", "RETIRED"},
         Read(w, p, t)
  PROVE  IInv'
<1>1. TypeOK'
  BY DEF IInv, TypeOK, Read, rowVars, boundVars, PackageStatus
<1>2. /\ p \in Existing /\ p \in valid
      /\ t \in InEffect => p \in approvedBy
  BY MayBeginFacts DEF Read, Targets
<1>3. /\ pc'[w] = "read" /\ package'[w] = p /\ target'[w] = t
      /\ wanted'[w] = None /\ other'[w] = None
  BY DEF IInv, TypeOK, Read, RequestsSound, RequestSound
<1>4. RequestSound(w)' /\ RequestApproved(w)' /\ Alone(w)'
  BY <1>2, <1>3 DEF Read, RequestSound, RequestApproved, Alone, Targets,
                    rowVars, boundVars, Existing
<1> QED
  BY <1>1, <1>4, RequestMoves DEF IInv, TypeOK, Read

LEMMA ReadSupersedeInv ==
  ASSUME IInv, NEW w \in Workers, NEW p \in Packages, NEW q \in Packages,
         ReadSupersede(w, p, q)
  PROVE  IInv'
<1>1. TypeOK'
  BY DEF IInv, TypeOK, ReadSupersede, rowVars, boundVars, PackageStatus
<1>2. p \in Existing /\ p \in valid /\ p \in approvedBy /\ q \in Existing /\ q # None
  BY MayBeginFacts, NoneAssumption DEF ReadSupersede, Targets, InEffect
<1>3. /\ pc'[w] = "read" /\ package'[w] = p /\ target'[w] = "SUPERSEDED"
      /\ wanted'[w] = None /\ other'[w] = q
  BY DEF IInv, TypeOK, ReadSupersede, RequestsSound, RequestSound
<1>4. RequestSound(w)' /\ RequestApproved(w)' /\ Alone(w)'
  BY <1>2, <1>3 DEF ReadSupersede, RequestSound, RequestApproved, Alone,
                    Targets, rowVars, boundVars, Existing
<1> QED
  BY <1>1, <1>4, RequestMoves DEF IInv, TypeOK, ReadSupersede

LEMMA PublishCheckInv ==
  ASSUME IInv, NEW w \in Workers, PublishCheck(w)
  PROVE  IInv'
<1> USE DEF PublishCheck, Checked
<1>1. TypeOK'
  <2>1. package[w] \in Packages
    BY DEF IInv, RequestsSound, RequestSound, Existing
  <2> QED
    BY <2>1 DEF IInv, TypeOK, rowVars, boundVars
<1>2. /\ package[w] \in Existing /\ wanted[w] = None
      /\ package[w] \in valid /\ package[w] \in approvedBy
  BY NoneAssumption
     DEF IInv, RequestsSound, RequestSound, RequestsApproved, RequestApproved,
         InEffect, Existing
<1>3. /\ pc'[w] = "checked" /\ package'[w] = package[w]
      /\ wanted'[w] = None /\ target'[w] = "PUBLISHED"
  BY <1>2 DEF IInv, TypeOK
<1>4. other'[w] # None => /\ other'[w] \in Existing
                          /\ status[other'[w]] = "PUBLISHED"
  BY <1>2 DEF IInv, TypeOK, RowsSound, Existing
<1>5. other'[w] # None => Effective(other'[w])
  BY <1>4 DEF IInv, RowsApproved, Effective, Targets, InEffect, Existing
<1>6. RequestSound(w)'
  BY <1>2, <1>3, <1>4 DEF RequestSound, Targets, rowVars, boundVars, Existing
<1>7. RequestApproved(w)'
  BY <1>2, <1>3, <1>5 DEF RequestApproved, Effective, rowVars, boundVars
<1>8. Alone(w)'
  BY <1>3 DEF Alone, PublishedOf, rowVars, boundVars
<1> QED
  BY <1>1, <1>6, <1>7, <1>8, RequestMoves DEF IInv, TypeOK

LEMMA RejectInv ==
  ASSUME IInv, NEW w \in Workers, Reject(w)
  PROVE  IInv'
<1> USE DEF Reject, Finish
<1>1. TypeOK'
  BY DEF IInv, TypeOK, rowVars, boundVars, PackageStatus
<1>2. RequestSound(w)' /\ RequestApproved(w)' /\ Alone(w)'
  BY DEF IInv, TypeOK, RequestSound, RequestApproved, Alone
<1> QED
  BY <1>1, <1>2, RequestMoves DEF IInv, TypeOK

-----------------------------------------------------------------------------
(* Rows that are inserted and written *)

LEMMA CreateInsertInv ==
  ASSUME IInv, NEW w \in Workers, NEW p \in Packages,
         NEW s \in Existing \cup {None}, NEW ok \in BOOLEAN,
         CreateInsert(w, p, s, ok)
  PROVE  IInv'
<1> USE DEF CreateInsert, Finish
<1>1. /\ package[w] = None /\ wanted[w] \in Versions /\ pc[w] = "read"
      /\ status[p] = "none"
  BY DEF IInv, RequestsSound, RequestSound
<1>2. TypeOK'
  BY <1>1 DEF IInv, TypeOK, PackageStatus, Existing
<1>3. /\ Existing' = Existing \cup {p}
      /\ \A q \in Existing :
           q # p /\ status'[q] = status[q] /\ version'[q] = version[q]
  BY <1>1 DEF IInv, TypeOK, Existing
<1>4. RowsSound'
  <2>1. \A q \in Existing' : version'[q] \in Versions
    BY <1>1, <1>3 DEF IInv, TypeOK, RowsSound, Existing
  <2>2. \A q \in Packages : supersedes'[q] # None => supersedes'[q] \in Existing'
    BY <1>3 DEF IInv, TypeOK, RowsSound
  <2> QED
    BY <2>1, <2>2, <1>3 DEF IInv, RowsSound
<1>5. RowsApproved'
  BY <1>1 DEF IInv, TypeOK, RowsApproved, RowsSound, Effective, Targets,
              InEffect, Existing
<1>6. \A x \in Workers \ {w} :
        /\ pc'[x] = pc[x] /\ target'[x] = target[x]
        /\ package'[x] = package[x] /\ wanted'[x] = wanted[x]
        /\ other'[x] = other[x]
  BY DEF IInv, TypeOK
<1>7. /\ pc'[w] = "idle" /\ target'[w] = "DRAFT"
      /\ package'[w] = None /\ wanted'[w] = None /\ other'[w] = None
  BY DEF IInv, TypeOK
<1>8. RequestsSound'
  BY <1>3, <1>6, <1>7 DEF IInv, RequestsSound, RequestSound
<1>9. RequestsApproved'
  BY <1>6, <1>7 DEF IInv, RequestsApproved, RequestApproved, Effective
<1>10. FreshIsAlone'
  <2> SUFFICES ASSUME NEW x \in Workers, pc'[x] = "checked", fresh'[x]
               PROVE  PublishedOf(version[package[x]])' \ {package'[x]} = {}
    BY DEF FreshIsAlone, Alone
  <2>1. x # w /\ pc[x] = "checked" /\ fresh[x] /\ package'[x] = package[x]
    BY <1>6, <1>7
  <2>2. package[x] \in Existing
    BY <2>1 DEF IInv, RequestsSound, RequestSound
  <2>3. PublishedOf(version[package[x]]) \ {package[x]} = {}
    BY <2>1 DEF IInv, FreshIsAlone, Alone
  <2>4. version'[package'[x]] = version[package[x]]
    BY <2>1, <2>2, <1>3
  <2>5. \A q \in Packages : status'[q] = "PUBLISHED" => q # p
    BY DEF IInv, TypeOK
  <2> QED
    BY <2>1, <2>3, <2>4, <2>5 DEF IInv, TypeOK, PublishedOf
<1>11. UniquePublishedUnlessStale'
  BY DEF IInv, TypeOK, UniquePublishedUnlessStale
<1> QED
  BY <1>2, <1>4, <1>5, <1>8, <1>9, <1>10, <1>11 DEF IInv

\* A commit to rows there are, which leaves them sound and unique, keeps what
\* the other requests rely on: a request that is still fresh has read none of
\* the rows that were written.
LEMMA CommitMoves ==
  ASSUME IInv, NEW w \in Workers, NEW rows \in SUBSET Existing,
         UNCHANGED boundVars, Finish(w), Touch(w, rows),
         status' \in [Packages -> PackageStatus \cup {"none"}],
         \A p \in Packages \ rows : status'[p] = status[p],
         \A p \in rows : status'[p] # "none",
         approvedBy \subseteq approvedBy', approvedBy' \subseteq Packages,
         publishedAt' \subseteq Existing,
         supersededBy' \in [Packages -> Packages \cup {None}],
         RowsApproved', UniquePublishedUnlessStale'
  PROVE  IInv'
<1> USE DEF Finish, boundVars
<1>1. Existing' = Existing
  BY DEF Existing
<1>2. TypeOK'
  <2>1. fresh' \in [Workers -> BOOLEAN]
    BY DEF Touch, IInv, TypeOK
  <2>2. stale' \subseteq Versions
    BY DEF Touch, IInv, TypeOK, RowsSound
  <2>3. /\ pc' \in [Workers -> {"idle", "read", "checked"}]
        /\ target' \in [Workers -> PackageStatus]
        /\ package' \in [Workers -> Packages \cup {None}]
        /\ wanted' \in [Workers -> Versions \cup {None}]
        /\ other' \in [Workers -> Packages \cup {None}]
    BY DEF IInv, TypeOK, PackageStatus
  <2>4. publishedAt' \subseteq Packages
    BY DEF Existing
  <2> QED
    BY <2>1, <2>2, <2>3, <2>4 DEF IInv, TypeOK
<1>3. RowsSound'
  BY <1>1 DEF IInv, RowsSound
<1>4. \A x \in Workers \ {w} :
        /\ pc'[x] = pc[x] /\ target'[x] = target[x]
        /\ package'[x] = package[x] /\ wanted'[x] = wanted[x]
        /\ other'[x] = other[x]
  BY DEF IInv, TypeOK
<1>5. /\ pc'[w] = "idle" /\ target'[w] = "DRAFT"
      /\ package'[w] = None /\ wanted'[w] = None /\ other'[w] = None
  BY DEF IInv, TypeOK
<1>6. RequestsSound'
  BY <1>1, <1>4, <1>5 DEF IInv, RequestsSound, RequestSound
<1>7. RequestsApproved'
  BY <1>4, <1>5 DEF IInv, RequestsApproved, RequestApproved, Effective
<1>8. FreshIsAlone'
  <2> SUFFICES ASSUME NEW x \in Workers, pc'[x] = "checked", fresh'[x]
               PROVE  PublishedOf(version[package[x]])' \ {package'[x]} = {}
    BY DEF FreshIsAlone, Alone
  <2>1. x # w /\ pc[x] = "checked" /\ package'[x] = package[x]
    BY <1>4, <1>5
  <2>2. package[x] # None
    BY <2>1, NoneAssumption DEF IInv, RequestsSound, RequestSound, Existing
  <2>3. fresh[x] /\ \A p \in rows : ~ HasRead(x, p)
    BY <2>1 DEF Touch
  <2>4. \A p \in rows : version[p] # version[package[x]]
    BY <2>1, <2>2, <2>3 DEF HasRead
  <2>5. PublishedOf(version[package[x]]) \ {package[x]} = {}
    BY <2>1, <2>3 DEF IInv, FreshIsAlone, Alone
  <2> QED
    BY <2>1, <2>4, <2>5 DEF PublishedOf
<1> QED
  BY <1>2, <1>3, <1>6, <1>7, <1>8 DEF IInv

\* A request that writes finds its package among the rows.
LEMMA CommitFacts ==
  ASSUME IInv, NEW w \in Workers, target[w] \in Targets
  PROVE  /\ package[w] \in Existing /\ package[w] # None
         /\ package[w] \in valid
         /\ target[w] \in InEffect => package[w] \in approvedBy
         /\ other[w] # None => other[w] \in Existing
BY NoneAssumption
   DEF IInv, RequestsSound, RequestSound, RequestsApproved, RequestApproved,
       Targets, Existing

LEMMA CommitInv ==
  ASSUME IInv, NEW w \in Workers, Commit(w)
  PROVE  IInv'
<1> DEFINE p == package[w]
<1>1. target[w] \in Targets /\ target[w] \in {"VALIDATED", "APPROVED", "RETIRED"}
  BY DEF Commit, Targets
<1>2. /\ p \in Existing /\ p \in valid
      /\ target[w] \in InEffect => p \in approvedBy
  BY <1>1, CommitFacts
<1>3. /\ status' = [status EXCEPT ![p] = target[w]]
      /\ approvedBy' = IF target[w] = "APPROVED" THEN approvedBy \cup {p}
                                                 ELSE approvedBy
      /\ Touch(w, {p}) /\ Finish(w)
      /\ UNCHANGED <<boundVars, publishedAt, supersededBy>>
  BY DEF Commit
<1>4. p \in Packages
  BY <1>2 DEF Existing
<1> HIDE DEF p
<1>5. /\ status' \in [Packages -> PackageStatus \cup {"none"}]
      /\ \A q \in Packages \ {p} : status'[q] = status[q]
      /\ status'[p] = target[w]
  BY <1>1, <1>3, <1>4 DEF IInv, TypeOK, PackageStatus
<1>6. /\ approvedBy \subseteq approvedBy' /\ approvedBy' \subseteq Packages
      /\ target[w] \in {"APPROVED", "RETIRED"} => p \in approvedBy'
  BY <1>1, <1>2, <1>3, <1>4 DEF IInv, TypeOK, InEffect
<1>7. RowsApproved'
  BY <1>1, <1>2, <1>3, <1>5, <1>6
     DEF IInv, RowsApproved, Effective, boundVars, InEffect
<1>8. UniquePublishedUnlessStale'
  <2>1. stale \subseteq stale'
    BY <1>3 DEF Touch
  <2> QED
    BY <1>1, <1>3, <1>5, <2>1 DEF IInv, UniquePublishedUnlessStale, boundVars
<1>9. publishedAt' \subseteq Existing /\ status'[p] # "none"
  BY <1>1, <1>3, <1>5 DEF IInv, RowsSound
<1>10. supersededBy' \in [Packages -> Packages \cup {None}]
  BY <1>3 DEF IInv, TypeOK
<1> QED
  BY <1>2, <1>3, <1>5, <1>6, <1>7, <1>8, <1>9, <1>10, CommitMoves

LEMMA CommitSupersedeInv ==
  ASSUME IInv, NEW w \in Workers, CommitSupersede(w)
  PROVE  IInv'
<1> DEFINE p == package[w]
<1>1. target[w] = "SUPERSEDED" /\ target[w] \in Targets
  BY DEF CommitSupersede, Targets
<1>2. p \in Existing /\ p \in valid /\ p \in approvedBy
  BY <1>1, CommitFacts DEF InEffect
<1>3. /\ status' = [status EXCEPT ![p] = "SUPERSEDED"]
      /\ supersededBy' = [supersededBy EXCEPT ![p] = other[w]]
      /\ Touch(w, {p}) /\ Finish(w)
      /\ UNCHANGED <<boundVars, approvedBy, publishedAt>>
  BY DEF CommitSupersede
<1>4. p \in Packages
  BY <1>2 DEF Existing
<1> HIDE DEF p
<1>5. /\ status' \in [Packages -> PackageStatus \cup {"none"}]
      /\ \A q \in Packages \ {p} : status'[q] = status[q]
      /\ status'[p] = "SUPERSEDED"
      /\ supersededBy' \in [Packages -> Packages \cup {None}]
  BY <1>3, <1>4 DEF IInv, TypeOK, PackageStatus
<1>6. RowsApproved'
  BY <1>2, <1>3, <1>5 DEF IInv, RowsApproved, Effective, boundVars
<1>7. UniquePublishedUnlessStale'
  <2>1. stale \subseteq stale'
    BY <1>3 DEF Touch
  <2> QED
    BY <1>3, <1>5, <2>1 DEF IInv, UniquePublishedUnlessStale, boundVars
<1>8. publishedAt' \subseteq Existing /\ approvedBy' \subseteq Packages
  BY <1>3 DEF IInv, TypeOK, RowsSound
<1> QED
  BY <1>2, <1>3, <1>5, <1>6, <1>7, <1>8, CommitMoves

LEMMA CommitPublishInv ==
  ASSUME IInv, NEW w \in Workers, CommitPublish(w)
  PROVE  IInv'
<1> DEFINE p == package[w]
           o == other[w]
           rows == {p, o} \ {None}
<1>1. target[w] \in Targets /\ target[w] = "PUBLISHED" /\ pc[w] = "checked"
  BY DEF CommitPublish, IInv, RequestsSound, RequestSound, Targets
<1>2. /\ p \in Existing /\ p # None /\ p \in Packages
      /\ p \in valid /\ p \in approvedBy
      /\ o # None => o \in Existing /\ Effective(o)
  BY <1>1, CommitFacts
     DEF InEffect, Existing, IInv, RequestsApproved, RequestApproved
<1>3. /\ status' = [q \in Packages |->
                      IF q = p THEN "PUBLISHED"
                      ELSE IF q = o THEN "SUPERSEDED" ELSE status[q]]
      /\ publishedAt' = publishedAt \cup {p}
      /\ supersededBy' = [q \in Packages |->
                            IF q = o THEN p ELSE supersededBy[q]]
      /\ Touch(w, rows) /\ Finish(w)
      /\ UNCHANGED <<boundVars, approvedBy>>
  BY DEF CommitPublish
<1>4. (fresh[w] => PublishedOf(version[p]) \ {p} = {})
  BY <1>1 DEF IInv, FreshIsAlone, Alone
<1> HIDE DEF p, o
<1>5. /\ rows \in SUBSET Existing /\ p \in rows
      /\ \A q \in Packages : q = o => q \in rows
  BY <1>2, NoneAssumption
<1> HIDE DEF rows
<1>6. /\ status' \in [Packages -> PackageStatus \cup {"none"}]
      /\ supersededBy' \in [Packages -> Packages \cup {None}]
  BY <1>2, <1>3 DEF IInv, TypeOK, PackageStatus
<1>7. /\ \A q \in Packages \ rows : status'[q] = status[q]
      /\ \A q \in rows : status'[q] # "none"
  BY <1>3, <1>5 DEF Existing
<1>8. RowsApproved'
  <2>1. \A q \in Packages : q = o => Effective(q)
    BY <1>2, NoneAssumption
  <2> QED
    BY <1>2, <1>3, <2>1 DEF IInv, RowsApproved, Effective, boundVars
<1>9. UniquePublishedUnlessStale'
  <2> SUFFICES ASSUME NEW q \in Packages, NEW r \in Packages,
                      status'[q] = "PUBLISHED", status'[r] = "PUBLISHED",
                      version[q] = version[r], q # r
               PROVE  version[q] \in stale'
    BY <1>3 DEF UniquePublishedUnlessStale, boundVars
  <2>1. stale \subseteq stale' /\ (~ fresh[w] => version[p] \in stale')
    BY <1>3, <1>5 DEF Touch
  <2>2. /\ q # p => status[q] = "PUBLISHED"
        /\ r # p => status[r] = "PUBLISHED"
    BY <1>3
  <2>3. CASE q = p \/ r = p
    BY <1>4, <2>1, <2>2, <2>3 DEF PublishedOf
  <2>4. CASE q # p /\ r # p
    BY <2>1, <2>2, <2>4 DEF IInv, UniquePublishedUnlessStale
  <2> QED
    BY <2>3, <2>4
<1>10. publishedAt' \subseteq Existing /\ approvedBy' \subseteq Packages
  BY <1>2, <1>3 DEF IInv, TypeOK, RowsSound
<1> QED
  BY <1>3, <1>5, <1>6, <1>7, <1>8, <1>9, <1>10, CommitMoves

-----------------------------------------------------------------------------
(* Theorems *)

LEMMA NextInv ==
  ASSUME IInv, [Next]_vars
  PROVE  IInv'
<1>1. ASSUME NEW w \in Workers, Serve(w)
      PROVE  IInv'
  BY <1>1, CreateCheckInv, CreateInsertInv, ReadInv, ReadSupersedeInv,
     PublishCheckInv, RejectInv, CommitInv, CommitSupersedeInv,
     CommitPublishInv
     DEF Serve
<1>2. CASE UNCHANGED vars
  BY <1>2 DEF vars, rowVars, boundVars, workerVars, IInv, TypeOK, RowsSound,
              RequestsSound, RequestSound, RowsApproved, RequestsApproved,
              RequestApproved, FreshIsAlone, Alone, PublishedOf, Existing,
              Effective, UniquePublishedUnlessStale
<1> QED
  BY <1>1, <1>2 DEF Next

\* The inductive invariant holds in every reachable state of the registry.
THEOREM Invariance == Spec => []IInv
BY InitInv, NextInv, PTL DEF Spec

\* Every column of the package table and every copy a request keeps has its
\* type.
THEOREM TypeCorrect == Spec => []TypeOK
<1>1. IInv => TypeOK
  BY DEF IInv
<1> QED
  BY Invariance, <1>1, PTL

\* Approval gate: no package is, or ever was, in effect without content that
\* meets the contract and an identified approver, however its requests race.
THEOREM ApprovalGate == Spec => []EffectiveIsApproved
<1>1. IInv => EffectiveIsApproved
  BY DEF IInv, TypeOK, RowsApproved, EffectiveIsApproved, Effective, Targets,
         InEffect
<1> QED
  BY Invariance, <1>1, PTL

\* Uniqueness: two packages of a version are PUBLISHED at once only when some
\* request committed to the version on checks that had gone out of date.
THEOREM UniqueVersion == Spec => []UniquePublishedUnlessStale
<1>1. IInv => UniquePublishedUnlessStale
  BY DEF IInv
<1> QED
  BY Invariance, <1>1, PTL

-----------------------------------------------------------------------------
(* Requests served one at a time *)

\* What a single worker thread, or a lock on the registry, would guarantee.
OneAtATime ==
  \A w, x \in Workers : pc[w] # "idle" /\ pc[x] # "idle" => w = x

UniquePublished ==
  \A p, q \in Packages :
    status[p] = "PUBLISHED" /\ status[q] = "PUBLISHED" /\ version[p] = version[q]
      => p = q

NothingStale == stale = {} /\ \A w \in Workers : fresh[w]

LEMMA NothingStaleNext ==
  TypeOK /\ OneAtATime /\ NothingStale /\ [Next]_vars => NothingStale'
<1> SUFFICES ASSUME TypeOK, OneAtATime, NothingStale, [Next]_vars
             PROVE  NothingStale'
  OBVIOUS
<1>1. ASSUME NEW w \in Workers, NEW rows, pc[w] # "idle", Touch(w, rows)
      PROVE  NothingStale'
  <2>1. \A x \in Workers \ {w}, p \in rows : ~ HasRead(x, p)
    BY <1>1 DEF OneAtATime, HasRead
  <2>2. stale' = {}
    BY <1>1 DEF Touch, NothingStale
  <2>3. \A x \in Workers : fresh'[x]
    BY <1>1, <2>1 DEF Touch, NothingStale
  <2> QED
    BY <2>2, <2>3 DEF NothingStale
<1>2. ASSUME NEW w \in Workers,
             Commit(w) \/ CommitSupersede(w) \/ CommitPublish(w)
      PROVE  NothingStale'
  BY <1>1, <1>2 DEF Commit, CommitSupersede, CommitPublish
<1>3. ASSUME NEW w \in Workers,
             \/ \E v \in Versions : CreateCheck(w, v)
             \/ \E p \in Packages, s \in Existing \cup {None}, ok \in BOOLEAN :
                  CreateInsert(w, p, s, ok)
             \/ PublishCheck(w) \/ Reject(w)
      PROVE  NothingStale'
  BY <1>3
     DEF NothingStale, CreateCheck, CreateInsert, PublishCheck, Checked, Reject
<1>4. ASSUME NEW w \in Workers,
             \/ \E p \in Packages,
                   t \in {"VALIDATED", "APPROVED", "PUBLISHED", "RETIRED"} :
                  Read(w, p, t)
             \/ \E p, q \in Packages : ReadSupersede(w, p, q)
      PROVE  NothingStale'
  <2>1. fresh' = [fresh EXCEPT ![w] = TRUE] /\ stale' = stale
    BY <1>4 DEF Read, ReadSupersede
  <2> QED
    BY <2>1 DEF TypeOK, NothingStale
<1>5. CASE UNCHANGED vars
  BY <1>5 DEF vars, workerVars, NothingStale
<1> QED
  BY <1>2, <1>3, <1>4, <1>5 DEF Next, Serve

\* Uniqueness holds outright where requests are served one at a time: that
\* the check and the commit of a publication are apart is all that stands
\* against it.
THEOREM SerialUniqueVersion == Spec /\ []OneAtATime => []UniquePublished
<1>1. Init => NothingStale
  BY DEF Init, NothingStale
<1>2. IInv => TypeOK
  BY DEF IInv
<1>3. IInv /\ NothingStale => UniquePublished
  BY DEF IInv, NothingStale, UniquePublishedUnlessStale, UniquePublished
<1> QED
  BY <1>1, <1>2, <1>3, Invariance, NothingStaleNext, PTL DEF Spec


-----------------------------------------------------------------------------
(* Expressions: the verdicts of the nodes *)

\* Of the natural numbers that have a property, some is the least: what takes
\* the place of an induction over the nodes of an expression.
LEMMA LeastNatural ==
  ASSUME NEW S \in SUBSET Nat, S # {}
  PROVE  \E n \in S : \A m \in S : n <= m
<1> DEFINE Below == {0 .. n : n \in S}
<1>1. IsWellFoundedOn(StrictSubsetOrdering(Nat), FiniteSubsetsOf(Nat))
  BY FS_StrictSubsetOrderingWellFounded
<1>2. Below # {} /\ Below \subseteq FiniteSubsetsOf(Nat)
  <2>1. ASSUME NEW n \in S PROVE IsFiniteSet(0 .. n)
    BY FS_Interval
  <2>2. ASSUME NEW n \in S PROVE 0 .. n \in SUBSET Nat
    OBVIOUS
  <2> QED
    BY <2>1, <2>2 DEF FiniteSubsetsOf
<1>3. \E X \in Below : \A Y \in Below : ~ (<<Y, X>> \in StrictSubsetOrdering(Nat))
  <2> HIDE DEF Below
  <2> QED
    BY <1>1, <1>2, WFMin
<1>4. PICK n \in S :
        \A m \in S : ~ (<<0 .. m, 0 .. n>> \in StrictSubsetOrdering(Nat))
  BY <1>3
<1>5. ASSUME NEW m \in S, m < n PROVE FALSE
  <2>1. 0 .. m \in SUBSET Nat /\ 0 .. n \in SUBSET Nat
    OBVIOUS
  <2>2. 0 .. m \subseteq 0 .. n /\ n \in 0 .. n /\ n \notin 0 .. m
    BY <1>5
  <2> QED
    BY <1>4, <2>1, <2>2 DEF StrictSubsetOrdering
<1> QED
  BY <1>4, <1>5


\* A step makes the value at a position from those at the positions before it.
Stepwise(n, V, step) ==
  /\ n \in Nat /\ V # {} /\ step \in [1 .. n -> [[1 .. n -> V] -> V]]
  /\ \A i \in 1 .. n, f, g \in [1 .. n -> V] :
       (\A j \in 1 .. i - 1 : f[j] = g[j]) => step[i][f] = step[i][g]

\* Such a step defines a function.
LEMMA NodeByNode ==
  ASSUME NEW n, NEW V, NEW step, Stepwise(n, V, step)
  PROVE  \E f \in [1 .. n -> V] : \A i \in 1 .. n : f[i] = step[i][f]
<1> USE DEF Stepwise
<1>0. PICK v \in V : TRUE
  OBVIOUS
<1> DEFINE F == [1 .. n -> V]
           Good(m, f) == \A i \in 1 .. m : f[i] = step[i][f]
           Bad == {m \in 0 .. n : \A f \in F : ~ Good(m, f)}
<1>1. ASSUME Bad # {} PROVE FALSE
  <2>1. PICK m \in Bad : \A k \in Bad : m <= k
    <3>1. Bad \in SUBSET Nat
      OBVIOUS
    <3> HIDE DEF Bad
    <3> QED
      BY <1>1, <3>1, LeastNatural
  <2>2. m \in 0 .. n /\ \A f \in F : ~ Good(m, f)
    OBVIOUS
  <2>3. CASE m = 0
    <3>1. [i \in 1 .. n |-> v] \in F /\ Good(0, [i \in 1 .. n |-> v])
      OBVIOUS
    <3> QED
      BY <2>2, <2>3, <3>1
  <2>4. CASE m # 0
    <3>1. m - 1 \in 0 .. n /\ m - 1 \notin Bad
      <4>1. m \in Nat /\ m - 1 \in 0 .. n /\ ~ (m <= m - 1)
        BY <2>2, <2>4
      <4> HIDE DEF Bad
      <4> QED
        BY <2>1, <4>1
    <3>2. PICK f \in F : Good(m - 1, f)
      BY <3>1
    <3> DEFINE g == [i \in 1 .. n |-> step[i][f]]
    <3>3. g \in F
      OBVIOUS
    <3>4. ASSUME NEW i \in 1 .. m PROVE g[i] = step[i][g]
      <4>1. i \in 1 .. n /\ \A j \in 1 .. i - 1 : j \in 1 .. m - 1 /\ j \in 1 .. n
        BY <2>2
      <4>2. \A j \in 1 .. i - 1 : g[j] = f[j]
        BY <3>2, <4>1
      <4>3. step[i][g] = step[i][f]
        <5> HIDE DEF g
        <5> QED
          BY <3>2, <3>3, <4>1, <4>2
      <4> QED
        BY <4>1, <4>3
    <3> HIDE DEF g
    <3> QED
      BY <2>2, <3>3, <3>4
  <2> QED
    BY <2>3, <2>4
<1> QED
  <2>1. n \notin Bad
    <3> HIDE DEF Bad
    <3> QED
      BY <1>1
  <2> QED
    BY <2>1

Verdicts == {"TRUE", "FALSE", "INDETERMINATE", "MALFORMED"}
Results == {"TRUE", "FALSE", "MALFORMED", "RAISES"}
Definite == {"TRUE", "FALSE"}

LEMMA ComparisonType ==
  ASSUME NEW op, NEW a, NEW b
  PROVE  Comparison(op, a, b) \in Results
<1>1. \A p \in BOOLEAN : Truth(p) \in Definite
  BY DEF Truth, Definite
<1>2. Contains(a, b) \in Definite \cup {"RAISES"} /\ Contains(b, a) \in Definite \cup {"RAISES"}
  BY DEF Contains, Truth, Definite
<1>3. Negation(Contains(b, a)) \in Definite \cup {"RAISES"}
  BY <1>2 DEF Negation, Definite
<1>4. Order(op, a, b) \in Definite \cup {"RAISES"}
  BY DEF Order, Truth, Definite
<1> HIDE DEF Contains, Order, Negation
<1>5. Truth(Equal(a, b)) \in Definite /\ Truth(~ Equal(a, b)) \in Definite
  BY DEF Truth, Definite
<1> QED
  BY <1>2, <1>3, <1>4, <1>5 DEF Comparison, Results, Definite

LEMMA ApplyOperatorType ==
  ASSUME NEW op \in ComparisonTests, NEW a, NEW b
  PROVE  ApplyOperator(op, a, b) \in Verdicts \ {"MALFORMED"}
<1>1. StartsWith(a, b) \in Verdicts \ {"MALFORMED"}
  BY DEF StartsWith, Truth, Verdicts
<1>2. DateOrder(op, a, b) \in Verdicts \ {"MALFORMED"}
  BY DEF DateOrder, Truth, Verdicts
<1>3. ASSUME op # "starts_with", op \notin DateTests
      PROVE  Comparison(op, a, b) \in Definite \cup {"RAISES"}
  <2>1. Contains(a, b) \in Definite \cup {"RAISES"} /\ Contains(b, a) \in Definite \cup {"RAISES"}
    BY DEF Contains, Truth, Definite
  <2>2. Negation(Contains(b, a)) \in Definite \cup {"RAISES"}
    BY <2>1 DEF Negation, Definite
  <2>3. Order(op, a, b) \in Definite \cup {"RAISES"}
    BY DEF Order, Truth, Definite
  <2>4. Truth(Equal(a, b)) \in Definite /\ Truth(~ Equal(a, b)) \in Definite
    BY DEF Truth, Definite
  <2> QED
    BY <1>3, <2>1, <2>2, <2>3, <2>4 DEF Comparison, ComparisonTests
<1> QED
  BY <1>1, <1>2, <1>3 DEF ApplyOperator, Verdicts, Definite

LEMMA TestType ==
  ASSUME NEW node, NEW v
  PROVE  Test(node, v) \in Verdicts
<1>1. \A p \in BOOLEAN : Truth(p) \in Verdicts
  BY DEF Truth, Verdicts
<1>2. Truth(IsPresent(v)) \in Verdicts /\ Truth(~ IsPresent(v)) \in Verdicts
  BY DEF Truth, Verdicts
<1>3. node.op \in ComparisonTests => ApplyOperator(node.op, v, node.value) \in Verdicts
  BY ApplyOperatorType
<1> QED
  BY <1>2, <1>3 DEF Test, Verdicts

LEMMA InterpretTestType ==
  ASSUME NEW node, NEW v
  PROVE  InterpretTest(node, v) \in Results
<1> DEFINE value == IF v = Missing THEN Null ELSE v
<1>1. Truth(value # Null) \in Results /\ Truth(value = Null) \in Results
  BY DEF Truth, Results
<1>2. Comparison(node.op, value, node.value) \in Results
  BY ComparisonType
<1> HIDE DEF value
<1>3. InterpretTest(node, v) =
        IF node.op = "exists" THEN Truth(value # Null)
        ELSE IF node.op = "not_exists" THEN Truth(value = Null)
        ELSE Comparison(node.op, value, node.value)
  BY DEF InterpretTest, value
<1> QED
  BY <1>1, <1>2, <1>3

LEMMA CombineType ==
  ASSUME NEW op, NEW S \in SUBSET Verdicts
  PROVE  Combine(op, S) \in Verdicts
<1>1. S # {} => (CHOOSE r \in S : TRUE) \in S
  OBVIOUS
<1>2. S # {} => Negation(CHOOSE r \in S : TRUE) \in Verdicts
  BY <1>1 DEF Negation, Verdicts
<1> QED
  BY <1>2 DEF Combine, Truth, Negation, Verdicts

\* The first operand that is not neutral.
LEMMA ShortCircuitIs ==
  ASSUME NEW neutral, NEW n \in Nat, NEW results, DOMAIN results = 1 .. n,
         ~ \A k \in 1 .. n : results[k] = neutral
  PROVE  \E k \in 1 .. n : results[k] # neutral /\ ShortCircuit(neutral, results) = results[k]
<1> DEFINE S == {k \in 1 .. n : results[k] # neutral}
<1>1. PICK k \in S : \A j \in S : k <= j
  <2>1. S \in SUBSET Nat /\ S # {}
    OBVIOUS
  <2> HIDE DEF S
  <2> QED
    BY <2>1, LeastNatural
<1>2. \A j \in 1 .. k - 1 : results[j] = neutral
  <2> SUFFICES ASSUME NEW j \in 1 .. k - 1, results[j] # neutral PROVE FALSE
    OBVIOUS
  <2>1. j \in S /\ j < k
    OBVIOUS
  <2> QED
    BY <1>1, <2>1
<1> DEFINE First(i) == results[i] # neutral /\ \A j \in 1 .. i - 1 : results[j] = neutral
           i == CHOOSE i \in DOMAIN results : First(i)
<1>3. i \in DOMAIN results /\ First(i)
  <2>1. k \in DOMAIN results /\ First(k)
    BY <1>2
  <2> HIDE DEF First
  <2> QED
    BY <2>1
<1>4. ShortCircuit(neutral, results) = results[i]
  BY DEF ShortCircuit
<1> HIDE DEF i
<1> QED
  BY <1>3, <1>4

\* What v and r say of each node, v as the engine evaluates and r as the
\* interpreter does.
NodeVerdict(e, fs, v, i) ==
  IF e[i].op \in Connectives
    THEN Combine(e[i].op, {v[e[i].args[k]] : k \in DOMAIN e[i].args})
    ELSE Test(e[i], fs[e[i].field])

NodeResult(e, fs, r, i) ==
  IF e[i].op \notin Connectives THEN InterpretTest(e[i], fs[e[i].field])
  ELSE LET results == [k \in DOMAIN e[i].args |-> r[e[i].args[k]]] IN
    IF e[i].op = "not" THEN Negation(results[1])
    ELSE ShortCircuit(Truth(e[i].op = "all"), results)

Evaluated(e, fs, v) ==
  v \in [DOMAIN e -> Verdicts] /\ \A i \in DOMAIN e : v[i] = NodeVerdict(e, fs, v, i)

Interpreted(e, fs, r) ==
  r \in [DOMAIN e -> Results] /\ \A i \in DOMAIN e : r[i] = NodeResult(e, fs, r, i)

\* Arguments stand before the node that takes them.
LEMMA ArgumentsBefore ==
  ASSUME NEW e, NEW fields, IsExpression(e, fields), NEW i \in DOMAIN e,
         e[i].op \in Connectives
  PROVE  /\ Len(e[i].args) \in Nat /\ DOMAIN e[i].args = 1 .. Len(e[i].args)
         /\ \A k \in DOMAIN e[i].args : e[i].args[k] \in 1 .. i - 1 /\ e[i].args[k] \in DOMAIN e
         /\ e[i].op = "not" => DOMAIN e[i].args = {1}
<1>1. e[i].args \in Seq(1 .. i - 1) /\ (e[i].op = "not" => Len(e[i].args) = 1)
  BY DEF IsExpression, IsNode
<1>2. i \in Nat /\ Len(e) \in Nat /\ DOMAIN e = 1 .. Len(e)
  BY DEF IsExpression
<1> QED
  BY <1>1, <1>2

LEMMA EvaluateIs ==
  ASSUME NEW e, NEW fields, IsExpression(e, fields), NEW fs
  PROVE  \E v : Evaluated(e, fs, v) /\ Evaluate(e, fs) = v[Len(e)]
<1> DEFINE n == Len(e)
           F == [1 .. n -> Verdicts]
           step == [i \in 1 .. n |-> [f \in F |-> NodeVerdict(e, fs, f, i)]]
<1>1. n \in Nat /\ n \in 1 .. n /\ DOMAIN e = 1 .. n
  BY DEF IsExpression
<1>2. ASSUME NEW i \in 1 .. n, NEW f, NEW g, \A j \in 1 .. i - 1 : f[j] = g[j]
      PROVE  NodeVerdict(e, fs, f, i) = NodeVerdict(e, fs, g, i)
  <2>1. CASE e[i].op \in Connectives
    <3>1. \A k \in DOMAIN e[i].args : f[e[i].args[k]] = g[e[i].args[k]]
      BY <1>1, <1>2, <2>1, ArgumentsBefore
    <3>2. {f[e[i].args[k]] : k \in DOMAIN e[i].args} = {g[e[i].args[k]] : k \in DOMAIN e[i].args}
      BY <3>1
    <3> QED
      BY <2>1, <3>2 DEF NodeVerdict
  <2>2. CASE e[i].op \notin Connectives
    BY <2>2 DEF NodeVerdict
  <2> QED
    BY <2>1, <2>2
<1>3. ASSUME NEW i \in 1 .. n, NEW f \in F PROVE NodeVerdict(e, fs, f, i) \in Verdicts
  <2>1. CASE e[i].op \in Connectives
    <3>1. {f[e[i].args[k]] : k \in DOMAIN e[i].args} \in SUBSET Verdicts
      BY <1>1, <2>1, ArgumentsBefore
    <3> QED
      BY <2>1, <3>1, CombineType DEF NodeVerdict
  <2>2. CASE e[i].op \notin Connectives
    BY <2>2, TestType DEF NodeVerdict
  <2> QED
    BY <2>1, <2>2
<1>4. PICK v \in F : \A i \in 1 .. n : v[i] = NodeVerdict(e, fs, v, i)
  <2>1. step \in [1 .. n -> [F -> Verdicts]]
    BY <1>3
  <2>2. ASSUME NEW i \in 1 .. n, NEW f \in F, NEW g \in F, \A j \in 1 .. i - 1 : f[j] = g[j]
        PROVE  step[i][f] = step[i][g]
    BY <1>2, <2>2
  <2>3. "TRUE" \in Verdicts
    BY DEF Verdicts
  <2>4. \A i \in 1 .. n, f, g \in F :
          (\A j \in 1 .. i - 1 : f[j] = g[j]) => step[i][f] = step[i][g]
    <3> HIDE DEF F, step, n
    <3> QED
      BY <2>2
  <2> HIDE DEF step, n
  <2>5. Stepwise(n, Verdicts, step)
    BY <1>1, <2>1, <2>3, <2>4 DEF Stepwise
  <2>6. PICK f \in F : \A i \in 1 .. n : f[i] = step[i][f]
    BY <2>5, NodeByNode
  <2>7. \A i \in 1 .. n : step[i][f] = NodeVerdict(e, fs, f, i)
    BY DEF step
  <2> QED
    BY <2>6, <2>7
<1>5. Evaluated(e, fs, v)
  BY <1>1, <1>4 DEF Evaluated
<1> DEFINE Fixed(f) == f = [i \in DOMAIN e |-> NodeVerdict(e, fs, f, i)]
           w == CHOOSE f : Fixed(f)
<1>6. Evaluate(e, fs) = w[n]
  BY DEF Evaluate, NodeVerdict
<1>7. Fixed(w)
  <2>1. v = [i \in DOMAIN e |-> NodeVerdict(e, fs, v, i)]
    BY <1>1, <1>4
  <2>2. Fixed(v)
    BY <2>1
  <2> HIDE DEF Fixed
  <2> QED
    BY <2>2
<1>8. \A i \in 1 .. n : w[i] = NodeVerdict(e, fs, w, i)
  <2> HIDE DEF w
  <2> QED
    BY <1>1, <1>7
<1> HIDE DEF w, Fixed, n, step
<1> DEFINE Bad == {i \in 1 .. n : w[i] # v[i]}
<1>9. ASSUME Bad # {} PROVE FALSE
  <2>1. PICK i \in Bad : \A j \in Bad : i <= j
    <3>1. Bad \in SUBSET Nat
      OBVIOUS
    <3> HIDE DEF Bad
    <3> QED
      BY <1>9, <3>1, LeastNatural
  <2>2. \A j \in 1 .. i - 1 : w[j] = v[j]
    <3> SUFFICES ASSUME NEW j \in 1 .. i - 1, w[j] # v[j] PROVE FALSE
      OBVIOUS
    <3>1. j \in Bad /\ j < i
      BY <1>1
    <3> HIDE DEF Bad
    <3> QED
      BY <1>1, <2>1, <3>1
  <2> QED
    BY <1>2, <1>4, <1>8, <2>2
<1> QED
  BY <1>1, <1>5, <1>6, <1>9

LEMMA InterpretIs ==
  ASSUME NEW e, NEW fields, IsExpression(e, fields), NEW fs
  PROVE  \E r : Interpreted(e, fs, r) /\ Interpret(e, fs) = r[Len(e)]
<1> DEFINE n == Len(e)
           F == [1 .. n -> Results]
           step == [i \in 1 .. n |-> [f \in F |-> NodeResult(e, fs, f, i)]]
           results(f, i) == [k \in DOMAIN e[i].args |-> f[e[i].args[k]]]
<1>1. n \in Nat /\ n \in 1 .. n /\ DOMAIN e = 1 .. n
  BY DEF IsExpression
<1>2. ASSUME NEW i \in 1 .. n, NEW f, NEW g, \A j \in 1 .. i - 1 : f[j] = g[j]
      PROVE  NodeResult(e, fs, f, i) = NodeResult(e, fs, g, i)
  <2>1. CASE e[i].op \in Connectives
    <3>1. \A k \in DOMAIN e[i].args : f[e[i].args[k]] = g[e[i].args[k]]
      BY <1>1, <1>2, <2>1, ArgumentsBefore
    <3>2. results(f, i) = results(g, i)
      BY <3>1
    <3> QED
      BY <2>1, <3>2 DEF NodeResult
  <2>2. CASE e[i].op \notin Connectives
    BY <2>2 DEF NodeResult
  <2> QED
    BY <2>1, <2>2
<1>3. ASSUME NEW i \in 1 .. n, NEW f \in F PROVE NodeResult(e, fs, f, i) \in Results
  <2>1. CASE e[i].op \in Connectives
    <3> DEFINE m == Len(e[i].args)
    <3>1. /\ m \in Nat /\ DOMAIN e[i].args = 1 .. m
          /\ \A k \in 1 .. m : e[i].args[k] \in 1 .. n
          /\ e[i].op = "not" => 1 \in 1 .. m
      <4>1. e[i].op = "not" => DOMAIN e[i].args = {1}
        BY <1>1, <2>1, ArgumentsBefore
      <4>2. m \in Nat /\ DOMAIN e[i].args = 1 .. m
            /\ \A k \in 1 .. m : e[i].args[k] \in 1 .. n
        BY <1>1, <2>1, ArgumentsBefore
      <4> QED
        BY <4>1, <4>2
    <3>2. DOMAIN results(f, i) = 1 .. m /\ \A k \in 1 .. m : results(f, i)[k] \in Results
      BY <3>1
    <3> HIDE DEF results, m
    <3>3. CASE e[i].op = "not"
      <4>1. results(f, i)[1] \in Results
        BY <3>1, <3>2, <3>3
      <4>2. NodeResult(e, fs, f, i) = Negation(results(f, i)[1])
        BY <2>1, <3>3 DEF NodeResult, results
      <4> QED
        BY <4>1, <4>2 DEF Negation, Results
    <3>4. CASE e[i].op # "not"
      <4> DEFINE neutral == Truth(e[i].op = "all")
      <4>1. neutral \in Results
        BY DEF Truth, Results
      <4>2. NodeResult(e, fs, f, i) = ShortCircuit(neutral, results(f, i))
        BY <2>1, <3>4 DEF NodeResult, results
      <4> HIDE DEF neutral
      <4>3. CASE \A k \in 1 .. m : results(f, i)[k] = neutral
        BY <3>2, <4>1, <4>2, <4>3 DEF ShortCircuit
      <4>4. CASE ~ \A k \in 1 .. m : results(f, i)[k] = neutral
        <5>1. PICK k \in 1 .. m : ShortCircuit(neutral, results(f, i)) = results(f, i)[k]
          BY <3>1, <3>2, <4>4, ShortCircuitIs
        <5> QED
          BY <3>2, <4>2, <5>1
      <4> QED
        BY <4>3, <4>4
    <3> QED
      BY <3>3, <3>4
  <2>2. CASE e[i].op \notin Connectives
    BY <2>2, InterpretTestType DEF NodeResult
  <2> QED
    BY <2>1, <2>2
<1>4. PICK r \in F : \A i \in 1 .. n : r[i] = NodeResult(e, fs, r, i)
  <2>1. step \in [1 .. n -> [F -> Results]]
    BY <1>3
  <2>2. ASSUME NEW i \in 1 .. n, NEW f \in F, NEW g \in F, \A j \in 1 .. i - 1 : f[j] = g[j]
        PROVE  step[i][f] = step[i][g]
    BY <1>2, <2>2
  <2>3. "TRUE" \in Results
    BY DEF Results
  <2>4. \A i \in 1 .. n, f, g \in F :
          (\A j \in 1 .. i - 1 : f[j] = g[j]) => step[i][f] = step[i][g]
    <3> HIDE DEF F, step, n
    <3> QED
      BY <2>2
  <2> HIDE DEF step, n
  <2>5. Stepwise(n, Results, step)
    BY <1>1, <2>1, <2>3, <2>4 DEF Stepwise
  <2>6. PICK f \in F : \A i \in 1 .. n : f[i] = step[i][f]
    BY <2>5, NodeByNode
  <2>7. \A i \in 1 .. n : step[i][f] = NodeResult(e, fs, f, i)
    BY DEF step
  <2> QED
    BY <2>6, <2>7
<1>5. Interpreted(e, fs, r)
  BY <1>1, <1>4 DEF Interpreted
<1> DEFINE Fixed(f) == f = [i \in DOMAIN e |-> NodeResult(e, fs, f, i)]
           w == CHOOSE f : Fixed(f)
<1>6. Interpret(e, fs) = w[n]
  BY DEF Interpret, NodeResult
<1>7. Fixed(w)
  <2>1. r = [i \in DOMAIN e |-> NodeResult(e, fs, r, i)]
    BY <1>1, <1>4
  <2>2. Fixed(r)
    BY <2>1
  <2> HIDE DEF Fixed
  <2> QED
    BY <2>2
<1>8. \A i \in 1 .. n : w[i] = NodeResult(e, fs, w, i)
  <2> HIDE DEF w
  <2> QED
    BY <1>1, <1>7
<1> HIDE DEF w, Fixed, n, step
<1> DEFINE Bad == {i \in 1 .. n : w[i] # r[i]}
<1>9. ASSUME Bad # {} PROVE FALSE
  <2>1. PICK i \in Bad : \A j \in Bad : i <= j
    <3>1. Bad \in SUBSET Nat
      OBVIOUS
    <3> HIDE DEF Bad
    <3> QED
      BY <1>9, <3>1, LeastNatural
  <2>2. \A j \in 1 .. i - 1 : w[j] = r[j]
    <3> SUFFICES ASSUME NEW j \in 1 .. i - 1, w[j] # r[j] PROVE FALSE
      OBVIOUS
    <3>1. j \in Bad /\ j < i
      BY <1>1
    <3> HIDE DEF Bad
    <3> QED
      BY <1>1, <2>1, <3>1
  <2> QED
    BY <1>2, <1>4, <1>8, <2>2
<1> QED
  BY <1>1, <1>5, <1>6, <1>9

-----------------------------------------------------------------------------
(* Expressions: the two engines *)

LEMMA TestsAgree ==
  ASSUME NEW node, NEW v, node.op \notin Connectives,
         Test(node, v) \in Definite, InterpretTest(node, v) \in Definite
  PROVE  InterpretTest(node, v) = Test(node, v)
<1> USE DEF Definite
<1>1. CASE node.op \in ExistenceTests
  <2>1. Null # Missing
    BY DEF Null, Missing, Scalar
  <2> QED
    BY <1>1, <2>1 DEF Test, InterpretTest, IsPresent, ExistenceTests, Truth
<1>2. CASE node.op \notin ExistenceTests
  <2>1. node.op \in ComparisonTests /\ v # Missing
        /\ Test(node, v) = ApplyOperator(node.op, v, node.value)
    BY <1>2 DEF Test, ExistenceTests
  <2>2. InterpretTest(node, v) = Comparison(node.op, v, node.value)
    BY <1>2, <2>1 DEF InterpretTest, ExistenceTests
  <2>3. node.op # "starts_with" /\ node.op \notin DateTests
    <3>1. ASSUME node.op = "starts_with" \/ node.op \in DateTests
          PROVE  Comparison(node.op, v, node.value) = "MALFORMED"
      BY <3>1 DEF Comparison, DateTests, OrderingTests
    <3> QED
      BY <2>2, <3>1
  <2> QED
    BY <2>1, <2>2, <2>3 DEF ApplyOperator
<1> QED
  BY <1>1, <1>2

\* What a definite verdict on a connective says of those on its arguments.
LEMMA CombineIs ==
  ASSUME NEW op \in {"all", "any"}, NEW S \in SUBSET Verdicts, Combine(op, S) \in Definite
  PROVE  /\ Combine(op, S) = Truth(op = "any") => Truth(op = "any") \in S
         /\ Combine(op, S) # Truth(op = "any") => S = {Truth(op = "all")}
BY DEF Combine, Truth, Negation, Definite, Verdicts

LEMMA ExpressionsAgree ==
  ASSUME NEW e, NEW fields, IsExpression(e, fields), NEW fs,
         Evaluate(e, fs) \in Definite, Interpret(e, fs) \in Definite
  PROVE  Interpret(e, fs) = Evaluate(e, fs)
<1>1. PICK v : Evaluated(e, fs, v) /\ Evaluate(e, fs) = v[Len(e)]
  BY EvaluateIs
<1>2. PICK r : Interpreted(e, fs, r) /\ Interpret(e, fs) = r[Len(e)]
  BY InterpretIs
<1>3. Len(e) \in Nat /\ Len(e) \in DOMAIN e /\ DOMAIN e = 1 .. Len(e)
  BY DEF IsExpression
<1> DEFINE Bad == {i \in DOMAIN e : v[i] \in Definite /\ r[i] \in Definite /\ r[i] # v[i]}
<1>4. ASSUME Bad # {} PROVE FALSE
  <2>1. PICK i \in Bad : \A j \in Bad : i <= j
    <3>1. Bad \in SUBSET Nat
      BY <1>3
    <3> HIDE DEF Bad
    <3> QED
      BY <1>4, <3>1, LeastNatural
  <2>2. i \in DOMAIN e /\ v[i] \in Definite /\ r[i] \in Definite /\ r[i] # v[i]
    OBVIOUS
  <2>3. ASSUME NEW j \in DOMAIN e, j \in 1 .. i - 1, v[j] \in Definite, r[j] \in Definite
        PROVE  r[j] = v[j]
    <3>1. j < i /\ i \in Nat /\ j \in Nat
      BY <1>3, <2>2, <2>3
    <3>2. j \notin Bad
      <4> HIDE DEF Bad
      <4> QED
        BY <2>1, <3>1
    <3> QED
      BY <2>3, <3>2
  <2> HIDE DEF Bad
  <2>4. v[i] = NodeVerdict(e, fs, v, i) /\ r[i] = NodeResult(e, fs, r, i)
    BY <1>1, <1>2, <2>2 DEF Evaluated, Interpreted
  <2>5. CASE e[i].op \notin Connectives
    BY <2>2, <2>4, <2>5, TestsAgree DEF NodeVerdict, NodeResult
  <2>6. CASE e[i].op \in Connectives
    <3> DEFINE m == Len(e[i].args)
               arg(k) == e[i].args[k]
               S == {v[arg(k)] : k \in DOMAIN e[i].args}
               results == [k \in DOMAIN e[i].args |-> r[arg(k)]]
    <3>1. /\ m \in Nat /\ DOMAIN e[i].args = 1 .. m
          /\ \A k \in 1 .. m : arg(k) \in 1 .. i - 1 /\ arg(k) \in DOMAIN e
          /\ e[i].op = "not" => DOMAIN e[i].args = {1}
      BY <2>2, <2>6, ArgumentsBefore
    <3>2. v[i] = Combine(e[i].op, S)
      BY <2>4, <2>6 DEF NodeVerdict
    <3>3. S \in SUBSET Verdicts
      BY <1>1, <3>1 DEF Evaluated
    <3>4. \A k \in 1 .. m :
            v[arg(k)] \in Definite /\ r[arg(k)] \in Definite => r[arg(k)] = v[arg(k)]
      BY <2>3, <3>1
    <3>5. DOMAIN results = 1 .. m /\ \A k \in 1 .. m : results[k] = r[arg(k)]
      BY <3>1
    <3>6. CASE e[i].op = "not"
      <4>1. S = {v[arg(1)]} /\ results[1] = r[arg(1)] /\ 1 \in 1 .. m
        BY <3>1, <3>6
      <4>2. r[i] = Negation(r[arg(1)])
        BY <2>4, <2>6, <3>6, <4>1 DEF NodeResult
      <4> HIDE DEF S, arg, results, m
      <4>3. v[i] = Negation(v[arg(1)]) /\ v[arg(1)] \in Definite
        BY <2>2, <3>2, <3>3, <3>6, <4>1 DEF Combine, Negation, Definite, Verdicts
      <4>4. r[arg(1)] \in Definite
        BY <2>2, <4>2 DEF Negation, Definite
      <4> QED
        BY <2>2, <3>4, <4>1, <4>2, <4>3, <4>4
    <3>7. CASE e[i].op # "not"
      <4> DEFINE neutral == Truth(e[i].op = "all")
                 decisive == Truth(e[i].op = "any")
      <4>1. e[i].op \in {"all", "any"}
        BY <2>6, <3>7 DEF Connectives
      <4>2. neutral # decisive /\ Definite = {neutral, decisive}
        BY <4>1 DEF Truth, Definite
      <4>3. r[i] = ShortCircuit(neutral, results)
        BY <2>4, <2>6, <3>7 DEF NodeResult
      <4>4. /\ v[i] = decisive => decisive \in S
            /\ v[i] # decisive => S = {neutral}
        BY <2>2, <3>2, <3>3, <4>1, CombineIs
      <4> HIDE DEF neutral, decisive, results
      <4>5. CASE \A k \in 1 .. m : results[k] = neutral
        <5>1. r[i] = neutral /\ v[i] = decisive
          BY <2>2, <3>5, <4>2, <4>3, <4>5 DEF ShortCircuit
        <5>2. PICK k \in 1 .. m : v[arg(k)] = decisive
          BY <3>1, <4>4, <5>1
        <5> QED
          BY <3>4, <3>5, <4>2, <4>5, <5>2
      <4>6. CASE ~ \A k \in 1 .. m : results[k] = neutral
        <5>1. PICK k \in 1 .. m : results[k] # neutral /\ r[i] = results[k]
          <6>1. m \in Nat /\ DOMAIN results = 1 .. m
            BY <3>1, <3>5
          <6>2. \E k \in 1 .. m :
                  results[k] # neutral /\ ShortCircuit(neutral, results) = results[k]
            BY <4>6, <6>1, ShortCircuitIs
          <6> QED
            BY <4>3, <6>2
        <5>2. r[arg(k)] = decisive /\ r[i] = decisive /\ v[i] = neutral
          BY <2>2, <3>5, <4>2, <5>1
        <5>3. v[arg(k)] = neutral
          BY <3>1, <4>2, <4>4, <5>2
        <5> QED
          BY <3>4, <4>2, <5>2, <5>3
      <4> QED
        BY <4>5, <4>6
    <3> QED
      BY <3>6, <3>7
  <2> QED
    BY <2>5, <2>6
<1> QED
  BY <1>1, <1>2, <1>3, <1>4

LEMMA Agreement == EnginesAgree
<1> SUFFICES ASSUME NEW e \in Criteria,
                    Evaluate(e, facts) \in Definite, Interpret(e, facts) \in Definite
             PROVE  Interpret(e, facts) = Evaluate(e, facts)
  BY DEF EnginesAgree, Definite
<1> QED
  BY CriteriaAssumption, ExpressionsAgree

\* Whatever is known about the request, the two languages never contradict one
\* another, on any expression of any depth.
THEOREM EnginesNeverContradict == ResolutionSpec => []EnginesAgree
BY Agreement, PTL

-----------------------------------------------------------------------------
(* Expressions: verdicts stand *)

LEMMA TestStands ==
  ASSUME NEW node, NEW v, NEW w, node.op \notin ExistenceTests, w = v \/ v = Missing
  PROVE  Test(node, v) \in {"INDETERMINATE", Test(node, w)}
BY DEF Test, ExistenceTests

\* More results that are definite change no verdict that they could not change
\* before: of each argument, either the verdict stands or there was none.
AllStand(m, old, now) ==
  /\ m \in Nat /\ old \in [1 .. m -> Verdicts] /\ now \in [1 .. m -> Verdicts]
  /\ \A k \in 1 .. m : old[k] \in {"INDETERMINATE", now[k]}
  /\ \A k \in 1 .. m : now[k] = "MALFORMED" => old[k] = "MALFORMED"

LEMMA CombineStands ==
  ASSUME NEW op \in {"all", "any"}, NEW m, NEW old, NEW now, AllStand(m, old, now)
  PROVE  Combine(op, {old[k] : k \in 1 .. m}) \in
           {"INDETERMINATE", Combine(op, {now[k] : k \in 1 .. m})}
<1> USE DEF AllStand
<1> DEFINE S == {old[k] : k \in 1 .. m}
           T == {now[k] : k \in 1 .. m}
           decisive == Truth(op = "any")
<1>1. S = {} <=> T = {}
  OBVIOUS
<1>2. "MALFORMED" \in S <=> "MALFORMED" \in T
  OBVIOUS
<1>3. decisive \in Definite /\ Negation(decisive) # decisive
  BY DEF Truth, Negation, Definite
<1>4. decisive \in S => decisive \in T
  BY <1>3 DEF Definite
<1>5. decisive \notin S /\ "INDETERMINATE" \notin S =>
        decisive \notin T /\ "INDETERMINATE" \notin T
  OBVIOUS
<1> HIDE DEF S, T, decisive
<1>6. /\ Combine(op, S) = IF S = {} \/ "MALFORMED" \in S THEN "MALFORMED"
                          ELSE IF decisive \in S THEN decisive
                          ELSE IF "INDETERMINATE" \in S THEN "INDETERMINATE"
                          ELSE Negation(decisive)
      /\ Combine(op, T) = IF T = {} \/ "MALFORMED" \in T THEN "MALFORMED"
                          ELSE IF decisive \in T THEN decisive
                          ELSE IF "INDETERMINATE" \in T THEN "INDETERMINATE"
                          ELSE Negation(decisive)
  BY DEF Combine, decisive
<1>7. Combine(op, S) \in {"INDETERMINATE", Combine(op, T)}
  BY <1>1, <1>2, <1>4, <1>5, <1>6
<1> QED
  BY <1>7 DEF S, T

\* A test is a defect whether its fact is known or not.
LEMMA DefectsStand ==
  ASSUME NEW node, NEW v, NEW w
  PROVE  Test(node, w) = "MALFORMED" => Test(node, v) = "MALFORMED"
<1> USE DEF Test, Truth
<1>1. CASE node.op \in ExistenceTests
  BY <1>1 DEF ExistenceTests
<1>2. CASE node.op \notin ExistenceTests /\ node.op \in ComparisonTests
  BY <1>2, ApplyOperatorType DEF ExistenceTests
<1>3. CASE node.op \notin ExistenceTests /\ node.op \notin ComparisonTests
  BY <1>3 DEF ExistenceTests
<1> QED
  BY <1>1, <1>2, <1>3

LEMMA ExpressionStands ==
  ASSUME NEW e, NEW fields, IsExpression(e, fields), NEW fs, NEW gs,
         \A f \in fields : gs[f] = fs[f] \/ fs[f] = Missing,
         ~ TestsExistence(e)
  PROVE  Evaluate(e, fs) \in {"INDETERMINATE", Evaluate(e, gs)}
<1>1. PICK v : Evaluated(e, fs, v) /\ Evaluate(e, fs) = v[Len(e)]
  BY EvaluateIs
<1>2. PICK w : Evaluated(e, gs, w) /\ Evaluate(e, gs) = w[Len(e)]
  BY EvaluateIs
<1>3. Len(e) \in Nat /\ Len(e) \in DOMAIN e /\ DOMAIN e = 1 .. Len(e)
  BY DEF IsExpression
<1> DEFINE Stands(i) == /\ v[i] \in {"INDETERMINATE", w[i]}
                        /\ w[i] = "MALFORMED" => v[i] = "MALFORMED"
           Bad == {i \in DOMAIN e : ~ Stands(i)}
<1>4. ASSUME Bad # {} PROVE FALSE
  <2>1. PICK i \in Bad : \A j \in Bad : i <= j
    <3>1. Bad \in SUBSET Nat
      BY <1>3
    <3> HIDE DEF Bad
    <3> QED
      BY <1>4, <3>1, LeastNatural
  <2>2. i \in DOMAIN e /\ ~ Stands(i)
    OBVIOUS
  <2>3. ASSUME NEW j \in DOMAIN e, j \in 1 .. i - 1 PROVE Stands(j)
    <3>1. j < i /\ i \in Nat /\ j \in Nat
      BY <1>3, <2>2, <2>3
    <3>2. j \notin Bad
      <4> HIDE DEF Bad
      <4> QED
        BY <2>1, <3>1
    <3> QED
      BY <3>2
  <2> HIDE DEF Bad
  <2>4. v[i] = NodeVerdict(e, fs, v, i) /\ w[i] = NodeVerdict(e, gs, w, i)
    BY <1>1, <1>2, <2>2 DEF Evaluated
  <2>5. CASE e[i].op \notin Connectives
    <3>1. e[i].field \in fields
      BY <2>2, <2>5 DEF IsExpression, IsNode
    <3>2. e[i].op \notin ExistenceTests
      BY <2>2 DEF TestsExistence
    <3>3. v[i] = Test(e[i], fs[e[i].field]) /\ w[i] = Test(e[i], gs[e[i].field])
      BY <2>4, <2>5 DEF NodeVerdict
    <3>4. Test(e[i], fs[e[i].field]) \in {"INDETERMINATE", Test(e[i], gs[e[i].field])}
      BY <3>1, <3>2, TestStands
    <3> QED
      BY <2>2, <3>3, <3>4, DefectsStand
  <2>6. CASE e[i].op \in Connectives
    <3> DEFINE m == Len(e[i].args)
               arg(k) == e[i].args[k]
               old == [k \in 1 .. m |-> v[arg(k)]]
               now == [k \in 1 .. m |-> w[arg(k)]]
    <3>1. /\ m \in Nat /\ DOMAIN e[i].args = 1 .. m
          /\ \A k \in 1 .. m : arg(k) \in 1 .. i - 1 /\ arg(k) \in DOMAIN e
          /\ e[i].op = "not" => 1 .. m = {1}
      <4>1. e[i].op = "not" => DOMAIN e[i].args = {1}
        BY <2>2, <2>6, ArgumentsBefore
      <4>2. /\ m \in Nat /\ DOMAIN e[i].args = 1 .. m
            /\ \A k \in 1 .. m : arg(k) \in 1 .. i - 1 /\ arg(k) \in DOMAIN e
        BY <2>2, <2>6, ArgumentsBefore
      <4> QED
        BY <4>1, <4>2
    <3>2. \A k \in 1 .. m : Stands(arg(k))
      BY <2>3, <3>1
    <3>3. old \in [1 .. m -> Verdicts] /\ now \in [1 .. m -> Verdicts]
      BY <1>1, <1>2, <3>1 DEF Evaluated
    <3>4. /\ \A k \in 1 .. m : old[k] \in {"INDETERMINATE", now[k]}
          /\ \A k \in 1 .. m : now[k] = "MALFORMED" => old[k] = "MALFORMED"
      BY <3>2
    <3>5. /\ v[i] = Combine(e[i].op, {v[arg(k)] : k \in 1 .. m})
          /\ w[i] = Combine(e[i].op, {w[arg(k)] : k \in 1 .. m})
      BY <2>4, <2>6, <3>1 DEF NodeVerdict
    <3>6. /\ {v[arg(k)] : k \in 1 .. m} = {old[k] : k \in 1 .. m}
          /\ {w[arg(k)] : k \in 1 .. m} = {now[k] : k \in 1 .. m}
      OBVIOUS
    <3> HIDE DEF m, arg, old, now
    <3>7. w[i] = "MALFORMED" => v[i] = "MALFORMED"
      <4>1. {old[k] : k \in 1 .. m} \in SUBSET Verdicts /\ {now[k] : k \in 1 .. m} \in SUBSET Verdicts
        BY <3>3
      <4>2. ASSUME NEW S \in SUBSET Verdicts, S # {}, "MALFORMED" \notin S
            PROVE  Combine(e[i].op, S) # "MALFORMED"
        BY <4>2 DEF Combine, Negation, Truth, Verdicts
      <4>3. CASE {now[k] : k \in 1 .. m} = {} \/ "MALFORMED" \in {now[k] : k \in 1 .. m}
        <5>1. {old[k] : k \in 1 .. m} = {} \/ "MALFORMED" \in {old[k] : k \in 1 .. m}
          BY <3>4, <4>3
        <5> QED
          BY <3>5, <3>6, <5>1 DEF Combine
      <4> QED
        BY <3>5, <3>6, <4>1, <4>2, <4>3
    <3>8. CASE e[i].op = "not"
      <4>1. /\ {v[arg(k)] : k \in 1 .. m} = {v[arg(1)]}
            /\ {w[arg(k)] : k \in 1 .. m} = {w[arg(1)]} /\ Stands(arg(1))
        BY <3>1, <3>2, <3>8
      <4>2. /\ v[arg(1)] \in Verdicts /\ w[arg(1)] \in Verdicts
        BY <1>1, <1>2, <3>1, <3>8 DEF Evaluated
      <4>3. \A x \in Verdicts : Combine("not", {x}) = Negation(x)
        BY DEF Combine, Negation, Verdicts
      <4>4. v[i] = Negation(v[arg(1)]) /\ w[i] = Negation(w[arg(1)])
        BY <3>5, <3>8, <4>1, <4>2, <4>3
      <4> QED
        BY <2>2, <4>1, <4>2, <4>4 DEF Negation, Verdicts
    <3>9. CASE e[i].op # "not"
      <4>1. e[i].op \in {"all", "any"}
        BY <2>6, <3>9 DEF Connectives
      <4>2. Combine(e[i].op, {old[k] : k \in 1 .. m}) \in
              {"INDETERMINATE", Combine(e[i].op, {now[k] : k \in 1 .. m})}
        <5>1. AllStand(m, old, now)
          BY <3>1, <3>3, <3>4 DEF AllStand
        <5> QED
          BY <4>1, <5>1, CombineStands
      <4> QED
        BY <2>2, <3>5, <3>6, <3>7, <4>2
    <3> QED
      BY <3>8, <3>9
  <2> QED
    BY <2>5, <2>6
<1> QED
  BY <1>1, <1>2, <1>3, <1>4

\* What is known about a request, or may turn out to be.
FactsType == DOMAIN facts = Fields

\* What an expression has come to on what is known about a request, it comes to
\* when more becomes known, at any depth.
THEOREM VerdictsAlwaysStand == ResolutionSpec => VerdictsStand
<1>1. ResolutionInit => FactsType
  BY DEF ResolutionInit, FactsType
<1>2. FactsType /\ [ResolutionNext]_resolutionVars => FactsType'
  BY DEF FactsType, ResolutionNext, Publish, Tick, Learn, resolutionVars
<1>3. FactsType /\ [ResolutionNext]_resolutionVars =>
        [facts' # facts =>
           \A e \in Criteria :
             Evaluate(e, facts) \notin {"INDETERMINATE", Evaluate(e, facts')}
               => TestsExistence(e)]_resolutionVars
  <2> SUFFICES ASSUME FactsType, [ResolutionNext]_resolutionVars, facts' # facts,
                      NEW e \in Criteria,
                      Evaluate(e, facts) \notin {"INDETERMINATE", Evaluate(e, facts')}
               PROVE  TestsExistence(e)
    OBVIOUS
  <2>1. PICK f \in Fields : \E v \in FactValues[f] : Learn(f, v)
    BY DEF ResolutionNext, resolutionVars, Publish, Tick
  <2>2. \A g \in Fields : facts'[g] = facts[g] \/ facts[g] = Missing
    BY <2>1 DEF Learn, FactsType
  <2>3. IsExpression(e, Fields)
    BY CriteriaAssumption
  <2> QED
    BY <2>2, <2>3, ExpressionStands
<1> QED
  BY <1>1, <1>2, <1>3, PTL DEF ResolutionSpec, VerdictsStand

-----------------------------------------------------------------------------
(* Policy resolution: a sort key is a strict total order *)

LEMMA VersionKeyType ==
  ASSUME NEW p \in Approved
  PROVE  VersionKey(p) \in Seq(Nat)
<1>1. Version[p] \in Seq(Nat \cup {NoDigit})
  BY PackageAssumption
<1>2. CASE Version[p] = << >>
  BY <1>2 DEF VersionKey
<1>3. CASE Version[p] # << >>
  <2> DEFINE key == [i \in DOMAIN Version[p] |->
                       IF Version[p][i] = NoDigit THEN 0 ELSE Version[p][i]]
  <2>1. DOMAIN Version[p] = 1 .. Len(Version[p]) /\ Len(Version[p]) \in Nat
    BY <1>1
  <2>2. \A i \in 1 .. Len(Version[p]) : key[i] \in Nat
    BY <1>1, <2>1
  <2>3. key \in [1 .. Len(Version[p]) -> Nat]
    BY <2>1, <2>2
  <2>4. key \in Seq(Nat)
    <3> HIDE DEF key
    <3> QED
      BY <2>1, <2>3
  <2> QED
    BY <1>3, <2>4 DEF VersionKey
<1> QED
  BY <1>2, <1>3

\* Where u, negated, comes ahead of v: at the first place at which they differ.
LeadsAt(u, v, i) ==
  /\ i \in DOMAIN v /\ (i \in DOMAIN u => u[i] > v[i])
  /\ \A j \in 1 .. i - 1 : j \in DOMAIN u /\ j \in DOMAIN v /\ u[j] = v[j]

Leads(u, v) == \E i \in DOMAIN v : LeadsAt(u, v, i)

LEMMA LeadsIs ==
  ASSUME NEW p \in Approved, NEW q \in Approved
  PROVE  NegatedVersionBefore(p, q) <=> Leads(VersionKey(p), VersionKey(q))
<1> DEFINE u == VersionKey(p)
           v == VersionKey(q)
<1>1. /\ Len(u) \in Nat /\ DOMAIN u = 1 .. Len(u) /\ u \in Seq(Nat)
      /\ Len(v) \in Nat /\ DOMAIN v = 1 .. Len(v) /\ v \in Seq(Nat)
  BY VersionKeyType
<1>2. NegatedVersionBefore(p, q) <=>
        \/ Len(u) < Len(v) /\ u = SubSeq(v, 1, Len(u))
        \/ \E i \in DOMAIN u \cap DOMAIN v :
             u[i] > v[i] /\ \A j \in 1 .. i - 1 : u[j] = v[j]
  BY DEF NegatedVersionBefore
<1> HIDE DEF u, v
<1>3. ASSUME Len(u) < Len(v), u = SubSeq(v, 1, Len(u)) PROVE Leads(u, v)
  <2>1. \A j \in 1 .. Len(u) : u[j] = v[j]
    BY <1>1, <1>3
  <2>2. LeadsAt(u, v, Len(u) + 1) /\ Len(u) + 1 \in DOMAIN v
    BY <1>1, <1>3, <2>1 DEF LeadsAt
  <2> QED
    BY <2>2 DEF Leads
<1>4. ASSUME NEW i \in DOMAIN u \cap DOMAIN v, u[i] > v[i], \A j \in 1 .. i - 1 : u[j] = v[j]
      PROVE  Leads(u, v)
  <2>1. LeadsAt(u, v, i)
    BY <1>1, <1>4 DEF LeadsAt
  <2> QED
    BY <2>1 DEF Leads
<1>5. ASSUME NEW i \in DOMAIN v, LeadsAt(u, v, i), i \notin DOMAIN u
      PROVE  Len(u) < Len(v) /\ u = SubSeq(v, 1, Len(u))
  <2>1. i = Len(u) + 1
    <3>1. i \in Nat /\ i > Len(u)
      BY <1>1, <1>5
    <3>2. ~ (i - 1 > Len(u))
      <4> SUFFICES ASSUME i - 1 > Len(u) PROVE FALSE
        OBVIOUS
      <4>1. i - 1 \in 1 .. i - 1
        BY <1>1, <3>1
      <4>2. i - 1 \in DOMAIN u
        BY <1>5, <4>1 DEF LeadsAt
      <4> QED
        BY <1>1, <4>2
    <3> QED
      BY <1>1, <3>1, <3>2
  <2>2. \A j \in 1 .. Len(u) : u[j] = v[j]
    BY <1>1, <1>5, <2>1 DEF LeadsAt
  <2>3. Len(u) < Len(v)
    BY <1>1, <2>1
  <2>4. SubSeq(v, 1, Len(u)) \in Seq(Nat) /\ Len(SubSeq(v, 1, Len(u))) = Len(u)
        /\ \A j \in 1 .. Len(u) : SubSeq(v, 1, Len(u))[j] = v[j]
    BY <1>1, <2>3
  <2> QED
    BY <1>1, <2>2, <2>3, <2>4
<1>6. ASSUME NEW i \in DOMAIN v, LeadsAt(u, v, i), i \in DOMAIN u
      PROVE  u[i] > v[i] /\ \A j \in 1 .. i - 1 : u[j] = v[j]
  BY <1>6 DEF LeadsAt
<1>7. Leads(u, v) <=>
        \/ Len(u) < Len(v) /\ u = SubSeq(v, 1, Len(u))
        \/ \E i \in DOMAIN u \cap DOMAIN v :
             u[i] > v[i] /\ \A j \in 1 .. i - 1 : u[j] = v[j]
  BY <1>3, <1>4, <1>5, <1>6 DEF Leads
<1> QED
  BY <1>2, <1>7 DEF u, v

LEMMA LeadsTotal ==
  ASSUME NEW u \in Seq(Nat), NEW v \in Seq(Nat), u # v
  PROVE  Leads(u, v) \/ Leads(v, u)
<1> DEFINE Same(i) == i \in DOMAIN u /\ i \in DOMAIN v /\ u[i] = v[i]
           Differ == {i \in Nat \ {0} : (i \in DOMAIN u \/ i \in DOMAIN v) /\ ~ Same(i)}
<1>1. /\ Len(u) \in Nat /\ DOMAIN u = 1 .. Len(u)
      /\ Len(v) \in Nat /\ DOMAIN v = 1 .. Len(v)
  OBVIOUS
<1>2. Differ # {}
  <2> SUFFICES ASSUME Differ = {} PROVE u = v
    OBVIOUS
  <2>1. \A i \in Nat \ {0} : (i \in DOMAIN u \/ i \in DOMAIN v) => Same(i)
    OBVIOUS
  <2>2. /\ \A i \in 1 .. Len(u) : i \in 1 .. Len(v) /\ u[i] = v[i]
        /\ \A i \in 1 .. Len(v) : i \in 1 .. Len(u)
    BY <1>1, <2>1
  <2> HIDE DEF Differ
  <2>3. ~ (Len(u) > Len(v)) /\ ~ (Len(v) > Len(u))
    <3>1. Len(u) > Len(v) => Len(u) \in 1 .. Len(u) /\ Len(u) \notin 1 .. Len(v)
      BY <1>1
    <3>2. Len(v) > Len(u) => Len(v) \in 1 .. Len(v) /\ Len(v) \notin 1 .. Len(u)
      BY <1>1
    <3> QED
      BY <2>2, <3>1, <3>2
  <2>4. Len(u) = Len(v)
    <3>1. \A a \in Nat, b \in Nat : ~ (a > b) /\ ~ (b > a) => a = b
      OBVIOUS
    <3> QED
      BY <1>1, <2>3, <3>1, Zenon
  <2> QED
    BY <2>2, <2>4
<1>3. PICK i \in Differ : \A j \in Differ : i <= j
  <2>1. Differ \in SUBSET Nat
    OBVIOUS
  <2> HIDE DEF Differ
  <2> QED
    BY <1>2, <2>1, LeastNatural
<1>4. i \in Nat \ {0} /\ (i \in DOMAIN u \/ i \in DOMAIN v) /\ ~ Same(i)
  OBVIOUS
<1>5. \A j \in 1 .. i - 1 : Same(j)
  <2> SUFFICES ASSUME NEW j \in 1 .. i - 1, ~ Same(j) PROVE FALSE
    OBVIOUS
  <2>1. j \in Nat \ {0} /\ j < i /\ (j \in DOMAIN u \/ j \in DOMAIN v)
    BY <1>1, <1>4
  <2>2. j \in Differ
    BY <2>1
  <2> HIDE DEF Differ
  <2> QED
    BY <1>3, <1>4, <2>1, <2>2
<1> HIDE DEF Differ
<1>6. LeadsAt(u, v, i) \/ LeadsAt(v, u, i)
  <2>1. i \in DOMAIN u => u[i] \in Nat
    OBVIOUS
  <2>2. i \in DOMAIN v => v[i] \in Nat
    OBVIOUS
  <2> QED
    BY <1>4, <1>5, <2>1, <2>2 DEF LeadsAt
<1> QED
  BY <1>6 DEF Leads, LeadsAt

LEMMA LeadsTransitive ==
  ASSUME NEW u \in Seq(Nat), NEW v \in Seq(Nat), NEW w \in Seq(Nat),
         Leads(u, v), Leads(v, w)
  PROVE  Leads(u, w)
<1>1. PICK i \in DOMAIN v : LeadsAt(u, v, i)
  BY DEF Leads
<1>2. PICK k \in DOMAIN w : LeadsAt(v, w, k)
  BY DEF Leads
<1>3. i \in Nat \ {0} /\ k \in Nat \ {0}
  OBVIOUS
<1>4. CASE i < k
  <2>1. i \in DOMAIN w /\ v[i] = w[i] /\ \A j \in 1 .. i - 1 : j \in 1 .. k - 1
    <3>1. i \in 1 .. k - 1 /\ \A j \in 1 .. i - 1 : j \in 1 .. k - 1
      BY <1>3, <1>4
    <3> QED
      BY <1>2, <3>1 DEF LeadsAt
  <2>2. LeadsAt(u, w, i)
    BY <1>1, <1>2, <2>1 DEF LeadsAt
  <2> QED
    BY <2>1, <2>2 DEF Leads
<1>5. CASE k < i
  <2>1. k \in DOMAIN u /\ u[k] = v[k] /\ \A j \in 1 .. k - 1 : j \in 1 .. i - 1
    <3>1. k \in 1 .. i - 1 /\ \A j \in 1 .. k - 1 : j \in 1 .. i - 1
      BY <1>3, <1>5
    <3> QED
      BY <1>1, <3>1 DEF LeadsAt
  <2>2. k \in DOMAIN v
    BY <1>1, <1>3, <1>5 DEF LeadsAt
  <2>3. LeadsAt(u, w, k)
    BY <1>1, <1>2, <2>1, <2>2 DEF LeadsAt
  <2> QED
    BY <2>3 DEF Leads
<1>6. CASE i = k
  <2>1. v[k] \in Nat /\ w[k] \in Nat /\ (k \in DOMAIN u => u[k] \in Nat)
    BY <1>6
  <2>2. LeadsAt(u, w, k)
    BY <1>1, <1>2, <1>6, <2>1 DEF LeadsAt
  <2> QED
    BY <2>2 DEF Leads
<1> QED
  BY <1>3, <1>4, <1>5, <1>6

LEMMA KeyTypes ==
  ASSUME NEW p \in Approved
  PROVE  /\ Priority[p] \in Int /\ Specificity(p) \in Int /\ p \in Nat
         /\ VersionKey(p) \in Seq(Nat)
BY PackageAssumption, VersionKeyType DEF Specificity

LEMMA SortsBeforeTotal ==
  ASSUME NEW p \in Approved, NEW q \in Approved, p # q
  PROVE  SortsBefore(p, q) \/ SortsBefore(q, p)
<1>1. VersionKey(p) # VersionKey(q) => NegatedVersionBefore(p, q) \/ NegatedVersionBefore(q, p)
  BY VersionKeyType, LeadsTotal, LeadsIs
<1> QED
  BY <1>1, KeyTypes DEF SortsBefore

LEMMA SortsBeforeTransitive ==
  ASSUME NEW p \in Approved, NEW q \in Approved, NEW r \in Approved,
         SortsBefore(p, q), SortsBefore(q, r)
  PROVE  SortsBefore(p, r)
<1> DEFINE Later(a, b) == \/ NegatedVersionBefore(a, b)
                          \/ VersionKey(a) = VersionKey(b) /\ a < b
<1>1. ASSUME Later(p, q), Later(q, r) PROVE Later(p, r)
  <2>1. ASSUME NegatedVersionBefore(p, q), NegatedVersionBefore(q, r)
        PROVE  NegatedVersionBefore(p, r)
    BY <2>1, VersionKeyType, LeadsTransitive, LeadsIs
  <2>2. ASSUME NegatedVersionBefore(p, q), VersionKey(q) = VersionKey(r)
        PROVE  NegatedVersionBefore(p, r)
    BY <2>2, LeadsIs
  <2>3. ASSUME NegatedVersionBefore(q, r), VersionKey(p) = VersionKey(q)
        PROVE  NegatedVersionBefore(p, r)
    BY <2>3, LeadsIs
  <2>4. p \in Nat /\ q \in Nat /\ r \in Nat
    BY KeyTypes
  <2> QED
    BY <1>1, <2>1, <2>2, <2>3, <2>4
<1>2. \A a \in Approved, b \in Approved :
        SortsBefore(a, b) <=>
          \/ Priority[a] < Priority[b]
          \/ /\ Priority[a] = Priority[b]
             /\ \/ Specificity(a) > Specificity(b)
                \/ Specificity(a) = Specificity(b) /\ Later(a, b)
  BY DEF SortsBefore
<1> HIDE DEF Later
<1>3. /\ Priority[p] \in Int /\ Priority[q] \in Int /\ Priority[r] \in Int
      /\ Specificity(p) \in Int /\ Specificity(q) \in Int /\ Specificity(r) \in Int
  BY KeyTypes
<1>4. \/ Priority[p] < Priority[r]
      \/ /\ Priority[p] = Priority[r]
         /\ \/ Specificity(p) > Specificity(r)
            \/ Specificity(p) = Specificity(r) /\ Later(p, q) /\ Later(q, r)
  <2>1. \/ Priority[p] < Priority[q]
        \/ /\ Priority[p] = Priority[q]
           /\ \/ Specificity(p) > Specificity(q)
              \/ Specificity(p) = Specificity(q) /\ Later(p, q)
    BY <1>2
  <2>2. \/ Priority[q] < Priority[r]
        \/ /\ Priority[q] = Priority[r]
           /\ \/ Specificity(q) > Specificity(r)
              \/ Specificity(q) = Specificity(r) /\ Later(q, r)
    BY <1>2
  <2> QED
    BY <1>3, <2>1, <2>2
<1> QED
  BY <1>1, <1>2, <1>4

\* Some package of a group comes first, whatever the group.
LEMMA SomeFirst ==
  ASSUME NEW S \in SUBSET Approved, S # {}
  PROVE  \E p \in S : \A q \in S \ {p} : SortsBefore(p, q)
<1> DEFINE HasFirst(T) == \E p \in T : \A q \in T \ {p} : SortsBefore(p, q)
           Bad == {T \in SUBSET Approved : T # {} /\ ~ HasFirst(T)}
<1>1. ASSUME Bad # {} PROVE FALSE
  <2>1. IsWellFoundedOn(StrictSubsetOrdering(Approved), FiniteSubsetsOf(Approved))
    BY FS_StrictSubsetOrderingWellFounded
  <2>2. Bad \subseteq FiniteSubsetsOf(Approved)
    BY PackageAssumption, FS_Subset DEF FiniteSubsetsOf
  <2>3. \E X \in Bad : \A Y \in Bad : ~ (<<Y, X>> \in StrictSubsetOrdering(Approved))
    <3> HIDE DEF Bad
    <3> QED
      BY <1>1, <2>1, <2>2, WFMin
  <2>4. PICK X \in Bad : \A Y \in Bad : ~ (<<Y, X>> \in StrictSubsetOrdering(Approved))
    BY <2>3
  <2>5. X \in SUBSET Approved /\ X # {} /\ ~ HasFirst(X)
    OBVIOUS
  <2>6. PICK x \in X : TRUE
    BY <2>5
  <2>7. X \ {x} \notin Bad
    <3>1. <<X \ {x}, X>> \in StrictSubsetOrdering(Approved)
      BY <2>5, <2>6 DEF StrictSubsetOrdering
    <3> HIDE DEF Bad
    <3> QED
      BY <2>4, <3>1
  <2>8. CASE X \ {x} = {}
    <3>1. \A q \in X \ {x} : SortsBefore(x, q)
      BY <2>8
    <3> QED
      BY <2>5, <2>6, <3>1
  <2>9. CASE X \ {x} # {}
    <3>1. PICK m \in X \ {x} : \A q \in (X \ {x}) \ {m} : SortsBefore(m, q)
      BY <2>5, <2>7, <2>9
    <3>2. x \in Approved /\ m \in Approved /\ x # m
      BY <2>5, <2>6, <3>1
    <3>3. CASE SortsBefore(m, x)
      <4>1. \A q \in X \ {m} : SortsBefore(m, q)
        BY <3>1, <3>3
      <4> QED
        BY <2>5, <3>1, <4>1
    <3>4. CASE SortsBefore(x, m)
      <4>1. \A q \in X \ {x} : SortsBefore(x, q)
        BY <2>5, <3>1, <3>2, <3>4, SortsBeforeTransitive
      <4> QED
        BY <2>5, <2>6, <4>1
    <3> QED
      BY <3>2, <3>3, <3>4, SortsBeforeTotal
  <2> QED
    BY <2>8, <2>9
<1> QED
  BY <1>1

\* Only a package that was approved is ever published.
PublishedType == published \subseteq Approved

LEMMA NoHigherVersionBut ==
  ASSUME NEW w \in Approved, NEW p \in Approved,
         HigherVersion(p, w), NegatedVersionBefore(w, p)
  PROVE  /\ Len(VersionKey(w)) < Len(VersionKey(p))
         /\ VersionKey(w) = SubSeq(VersionKey(p), 1, Len(VersionKey(w)))
<1> DEFINE u == VersionKey(w)
           v == VersionKey(p)
<1>1. /\ u \in Seq(Nat) /\ DOMAIN u = 1 .. Len(u) /\ Len(u) \in Nat
      /\ v \in Seq(Nat) /\ DOMAIN v = 1 .. Len(v) /\ Len(v) \in Nat
  BY VersionKeyType
<1>2. ASSUME NEW i \in DOMAIN u \cap DOMAIN v,
             u[i] > v[i], \A j \in 1 .. i - 1 : u[j] = v[j]
      PROVE  FALSE
  <2>1. PICK k \in DOMAIN v :
          Chunk(p, k) > Chunk(w, k) /\ \A j \in 1 .. k - 1 : Chunk(p, j) = Chunk(w, j)
    BY DEF HigherVersion
  <2>2. i \in Nat \ {0} /\ k \in Nat \ {0} /\ u[i] \in Nat /\ v[i] \in Nat
    BY <1>1, <2>1
  <2>3. Chunk(p, i) = v[i] /\ Chunk(w, i) = u[i]
    BY DEF Chunk
  <2> HIDE DEF u, v
  <2>4. CASE i < k
    <3>1. Chunk(p, i) = Chunk(w, i)
      BY <2>1, <2>2, <2>4
    <3> QED
      BY <1>2, <2>2, <2>3, <3>1
  <2>5. CASE i = k
    BY <1>2, <2>1, <2>2, <2>3, <2>5
  <2>6. CASE k < i
    <3>1. k \in DOMAIN u /\ k \in DOMAIN v /\ u[k] = v[k]
      BY <1>1, <1>2, <2>1, <2>2, <2>6
    <3>2. Chunk(p, k) = v[k] /\ Chunk(w, k) = u[k]
      BY <3>1 DEF Chunk, u, v
    <3>3. u[k] \in Nat /\ v[k] \in Nat
      BY <1>1, <3>1
    <3> QED
      BY <2>1, <3>1, <3>2, <3>3
  <2> QED
    BY <2>2, <2>4, <2>5, <2>6
<1> QED
  BY <1>2 DEF NegatedVersionBefore

LEMMA FirstHasPrecedence ==
  ASSUME NEW w \in Approved, NEW p \in Approved,
         p = w \/ SortsBefore(w, p), Preferable(p, w)
  PROVE  /\ Priority[p] = Priority[w] /\ Specificity(p) = Specificity(w)
         /\ Len(VersionKey(w)) < Len(VersionKey(p))
         /\ VersionKey(w) = SubSeq(VersionKey(p), 1, Len(VersionKey(w)))
<1>1. VersionKey(p) = VersionKey(w) => ~ HigherVersion(p, w)
  <2> SUFFICES ASSUME VersionKey(p) = VersionKey(w), NEW i \in DOMAIN VersionKey(p),
                      Chunk(p, i) > Chunk(w, i)
               PROVE  FALSE
    BY DEF HigherVersion
  <2>1. Chunk(p, i) = Chunk(w, i) /\ Chunk(p, i) \in Nat
    BY VersionKeyType DEF Chunk
  <2> QED
    BY <2>1
<1>2. /\ Priority[p] = Priority[w] /\ Specificity(p) = Specificity(w) /\ HigherVersion(p, w)
  BY KeyTypes DEF Preferable, SortsBefore
<1>3. NegatedVersionBefore(w, p)
  BY <1>1, <1>2, KeyTypes DEF SortsBefore
<1> QED
  BY <1>2, <1>3, NoHigherVersionBut

LEMMA Precedence == PublishedType => PrecedenceUnlessExtended
<1> SUFFICES ASSUME PublishedType, NEW p \in Candidates, NEW w \in Selected,
                    Domain[p] = Domain[w], Preferable(p, w)
             PROVE  /\ Priority[p] = Priority[w] /\ Specificity(p) = Specificity(w)
                    /\ Len(VersionKey(w)) < Len(VersionKey(p))
                    /\ VersionKey(w) = SubSeq(VersionKey(p), 1, Len(VersionKey(w)))
  BY DEF PrecedenceUnlessExtended
<1>1. Candidates \subseteq Approved
  BY DEF Candidates, PublishedType
<1>2. PICK c \in Candidates : w = Winner(Domain[c])
  BY DEF Selected
<1> DEFINE d == Domain[c]
<1>3. Group(d) \in SUBSET Approved /\ Group(d) # {}
  BY <1>1 DEF Group
<1>4. \E q \in Group(d) : \A r \in Group(d) \ {q} : SortsBefore(q, r)
  <2> HIDE DEF d
  <2> QED
    BY <1>3, SomeFirst
<1>5. w \in Group(d) /\ \A r \in Group(d) \ {w} : SortsBefore(w, r)
  BY <1>2, <1>4 DEF Winner
<1>6. p \in Group(d)
  BY <1>5 DEF Group
<1>7. p \in Approved /\ w \in Approved /\ (p = w \/ SortsBefore(w, p))
  BY <1>3, <1>5, <1>6
<1> QED
  BY <1>7, FirstHasPrecedence

\* The package selected in a domain is the one that the documented order of
\* precedence prefers among all the candidates, whatever the packages, but for
\* versions of which one extends the other.
THEOREM ResolutionKeepsPrecedence == ResolutionSpec => []PrecedenceUnlessExtended
<1>1. ResolutionInit => PublishedType
  BY DEF ResolutionInit, PublishedType
<1>2. PublishedType /\ [ResolutionNext]_resolutionVars => PublishedType'
  BY DEF PublishedType, ResolutionNext, Publish, Tick, Learn, resolutionVars
<1> QED
  BY <1>1, <1>2, Precedence, PTL DEF ResolutionSpec
=============================================================================
