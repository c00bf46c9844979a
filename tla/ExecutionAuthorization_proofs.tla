------------------ MODULE ExecutionAuthorization_proofs ------------------
(***************************************************************************)
(* Proofs about ExecutionAuthorization, for any number of concurrent       *)
(* requests, authorizations, decisions and keys, and any clock bound.      *)
(*                                                                         *)
(* The inductive invariant says what a session may still rely on between   *)
(* its read and its commit: a copy no one has written over equals the row, *)
(* and a granted operation was legal for the copy it was granted on.       *)
(***************************************************************************)
EXTENDS ExecutionAuthorization, FiniteSetTheorems, TLAPS

\* The session of r holds a copy of a row it may still write.
Holds(r) ==
  \/ pc[r] \in {"read", "checked"}
  \/ pc[r] = "granted" /\ call[r].op # "issue"

\* The steps a commit that loses no update may take.
Legal == AuthorizationTransitions \cup {<<"EXPIRED", "REVOKED">>}

\* No row is ever PENDING, and what is signed was issued for an APPROVED
\* decision.
RowsSound ==
  /\ \A a \in Existing :
       /\ status[a] # "PENDING"
       /\ terms[a].signed => terms[a].decision \in Approved
  /\ \A r \in Requests :
       auth[r] # None /\ pc[r] # "stamped" => auth[r] \in Existing

\* The rows in the order of created_at are those committed and those that are
\* about to be.
Row(a) == \E i \in 1 .. Len(created) : created[i] = a

StampedSound ==
  /\ \A a \in Existing : Row(a)
  /\ \A r \in Requests : pc[r] = "stamped" =>
       /\ auth[r] \in Auths \ Existing /\ Row(auth[r])
       /\ terms[auth[r]].key = call[r].key
       /\ terms[auth[r]].decision \in Approved
       /\ call[r].want = "PENDING" /\ call[r].op = "issue"
       /\ \A q \in Requests \ {r} : auth[q] # auth[r]

SessionsSound ==
  \A r \in Requests : Holds(r) =>
    /\ auth[r] # None
    /\ <<call[r].op, call[r].want>> \in Writes
    /\ seen[r] # "PENDING"
    /\ fresh[r] => seen[r] = status[auth[r]]
    /\ seen[r] = "REVOKED" =>
         auth[r] \in overwritten \/ status[auth[r]] = "REVOKED"

IssueSound ==
  \A r \in Requests :
    pc[r] = "granted" /\ call[r].op = "issue"
      => call[r].want = "PENDING" /\ call[r].decision \in Approved

\* A call that has checked the expiry began before it, on a signed row.
InTime(r) == began[r] < terms[auth[r]].expires /\ terms[auth[r]].signed

\* A call begins before its answer.
BeginsSound == \A r \in Requests : began[r] <= now

\* A granted operation is legal for the status its session has seen.
GrantsSound ==
  \A r \in Requests : pc[r] = "granted" /\ call[r].op # "issue" =>
    /\ <<seen[r], call[r].want>> \in Legal
    /\ call[r].op \in {"verify", "consume"} => InTime(r)

\* What a caller was told still holds of the row, unless it was overwritten.
AnswersStand ==
  \A r \in Requests : pc[r] = "ok" =>
    /\ auth[r] # None
    /\ call[r].want \in {"CONSUMED", "REVOKED"} =>
         auth[r] \in overwritten \/ status[auth[r]] = call[r].want

IInv ==
  /\ TypeOK
  /\ RowsSound
  /\ StampedSound
  /\ SessionsSound
  /\ BeginsSound
  /\ IssueSound
  /\ GrantsSound
  /\ AnswersStand
  /\ SingleUseUnlessOverwritten
  /\ RefusedFromExpiryOn
  /\ ConsumedOnlyIfApproved

\* Whatever leads out of a status stays within the table's statuses, never
\* ends in PENDING, and nothing leaves CONSUMED or REVOKED.
LEMMA LegalSteps ==
  ASSUME NEW s, NEW u, <<s, u>> \in Legal
  PROVE  /\ u \in AuthorizationStatus \ {"PENDING", "ISSUED"}
         /\ s \in AuthorizationStatus \ {"CONSUMED", "REVOKED"}
         /\ s # u
BY DEF Legal, AuthorizationTransitions, AuthorizationStatus

LEMMA InitInv == Init => IInv
BY NoneAssumption, TimeAssumption
   DEF Init, IInv, TypeOK, RowsSound, SessionsSound, IssueSound, GrantsSound,
       AnswersStand, SingleUseUnlessOverwritten, Spent, RefusedFromExpiryOn,
       ConsumedOnlyIfApproved, Existing, CallOf, NoTerms, Terms, Call,
       Holds, StampedSound, BeginsSound, Row, AuthorizationStatus, Ops, Answered

-----------------------------------------------------------------------------
(* Requests that begin *)

LEMMA BeginFacts ==
  ASSUME TypeOK, RowsSound
  PROVE  /\ \A a \in Auths : a # None
         /\ \A a \in Existing : status[a] \in AuthorizationStatus
         /\ \A w \in Writes : /\ w = <<w[1], w[2]>>
                              /\ w[1] \in Ops \ {"issue"}
                              /\ w[2] \in AuthorizationStatus
BY NoneAssumption
   DEF TypeOK, RowsSound, Existing, Writes, Ops, AuthorizationStatus

LEMMA IssueReplayInv ==
  ASSUME IInv, NEW r \in Requests, NEW a \in Auths, NEW k \in Keys,
         IssueReplay(r, a, k)
  PROVE  IInv'
<1> USE DEF IInv, IssueReplay, CallOf, rowVars, lossVars
<1>1. a \in Existing
  BY DEF IsOldest, WithKey, RowsSound
<1>2. TypeOK'
  BY DEF TypeOK, Call, Ops, Answered, AuthorizationStatus
<1>3. RowsSound' /\ SessionsSound' /\ IssueSound' /\ GrantsSound'
  BY <1>1 DEF TypeOK, RowsSound, SessionsSound, IssueSound, GrantsSound, InTime,
              Existing, Holds, Call, Answered
<1>4. AnswersStand' /\ SingleUseUnlessOverwritten'
  BY DEF TypeOK, AnswersStand, SingleUseUnlessOverwritten, Spent, Call
<1>5. RefusedFromExpiryOn' /\ ConsumedOnlyIfApproved'
  BY DEF TypeOK, RefusedFromExpiryOn, ConsumedOnlyIfApproved, Spent, Call
<1>6. StampedSound' /\ BeginsSound'
  BY <1>1 DEF TypeOK, StampedSound, BeginsSound, Row, Existing, Call
<1> QED
  BY <1>2, <1>3, <1>4, <1>5, <1>6

LEMMA IssueCheckInv ==
  ASSUME IInv, NEW r \in Requests, NEW k \in Keys \cup {None},
         NEW d \in Decisions, IssueCheck(r, k, d)
  PROVE  IInv'
<1> USE DEF IInv, IssueCheck, CallOf, rowVars, lossVars
<1>1. TypeOK'
  BY DEF TypeOK, Call, Ops, Answered, AuthorizationStatus
<1>2. RowsSound' /\ SessionsSound' /\ IssueSound' /\ GrantsSound'
  BY DEF TypeOK, RowsSound, SessionsSound, IssueSound, GrantsSound, InTime,
         Existing, Holds, Call, Answered
<1>3. AnswersStand' /\ SingleUseUnlessOverwritten'
  BY DEF TypeOK, AnswersStand, SingleUseUnlessOverwritten, Spent, Call
<1>4. RefusedFromExpiryOn' /\ ConsumedOnlyIfApproved'
  BY DEF TypeOK, RefusedFromExpiryOn, ConsumedOnlyIfApproved, Spent, Call
<1>5. StampedSound' /\ BeginsSound'
  BY DEF TypeOK, StampedSound, BeginsSound, Row, Existing, Call
<1> QED
  BY <1>1, <1>2, <1>3, <1>4, <1>5

LEMMA ReadInv ==
  ASSUME IInv, NEW r \in Requests, NEW a \in Auths, NEW w \in Writes,
         Read(r, a, w)
  PROVE  IInv'
<1> USE DEF IInv, Read, CallOf, rowVars, lossVars
<1>1. a # None /\ status[a] \in AuthorizationStatus \ {"PENDING"}
  BY BeginFacts DEF RowsSound
<1>2. w = <<w[1], w[2]>> /\ w[1] \in Ops \ {"issue"}
        /\ w[2] \in AuthorizationStatus
  BY BeginFacts
<1>3. TypeOK'
  BY <1>1, <1>2 DEF TypeOK, Call, Answered
<1>4. RowsSound'
  BY <1>1 DEF TypeOK, RowsSound, Existing
<1>5. SessionsSound'
  BY <1>1, <1>2 DEF TypeOK, SessionsSound, Holds, Call
<1>6. IssueSound' /\ GrantsSound'
  BY DEF TypeOK, IssueSound, GrantsSound, InTime, Call
<1>7. AnswersStand' /\ SingleUseUnlessOverwritten'
  BY DEF TypeOK, AnswersStand, SingleUseUnlessOverwritten, Spent, Call
<1>8. RefusedFromExpiryOn' /\ ConsumedOnlyIfApproved'
  BY DEF TypeOK, RefusedFromExpiryOn, ConsumedOnlyIfApproved, Spent, Call
<1>9. StampedSound' /\ BeginsSound'
  BY <1>1 DEF TypeOK, StampedSound, BeginsSound, Row, Existing, Call
<1> QED
  BY <1>3, <1>4, <1>5, <1>6, <1>7, <1>8, <1>9

-----------------------------------------------------------------------------
(* Insertions *)

\* A stamped row has been no one's, and leaves the rows there are alone.
LEMMA StampFacts ==
  ASSUME IInv, NEW r \in Requests, NEW a \in Auths, NEW columns,
         Stamp(r, a, columns)
  PROVE  /\ a # None /\ a \notin Existing /\ ~ Row(a) /\ Row(a)'
         /\ \A q \in Requests : auth[q] # a
         /\ \A q \in Requests : auth'[q] = IF q = r THEN a ELSE auth[q]
         /\ terms'[a] = columns
         /\ \A b \in Auths : Row(b) => /\ Row(b)' /\ b # a
                                       /\ terms'[b] = terms[b]
<1> USE DEF IInv, Stamp
<1>1. a # None /\ a \notin Existing /\ ~ Row(a)
  BY NoneAssumption DEF Row, Existing
<1>2. /\ Len(created) \in Nat /\ Len(created') = Len(created) + 1
      /\ created'[Len(created) + 1] = a
      /\ \A i \in 1 .. Len(created) : created'[i] = created[i]
  BY DEF TypeOK
<1>3. Row(a)'
  BY <1>2 DEF Row
<1>4. \A q \in Requests : auth[q] # a
  BY <1>1 DEF RowsSound, StampedSound
<1>5. terms'[a] = columns /\ \A b \in Auths \ {a} : terms'[b] = terms[b]
  BY DEF TypeOK
<1>6. \A b \in Auths : Row(b) => Row(b)'
  BY <1>2 DEF Row
<1>7. \A q \in Requests : auth'[q] = IF q = r THEN a ELSE auth[q]
  BY DEF TypeOK
<1> QED
  BY <1>1, <1>3, <1>4, <1>5, <1>6, <1>7

LEMMA IssueStampInv ==
  ASSUME IInv, NEW r \in Requests, NEW a \in Auths,
         NEW e \in 1 .. MaxTime + 1, IssueStamp(r, a, e)
  PROVE  IInv'
<1> DEFINE columns == [decision |-> call[r].decision, key |-> call[r].key,
                       signed |-> TRUE, expires |-> e]
<1>1. Stamp(r, a, columns)
  BY DEF IssueStamp
<1>2. /\ a # None /\ a \notin Existing /\ ~ Row(a) /\ Row(a)'
      /\ \A q \in Requests : auth[q] # a
      /\ \A q \in Requests : auth'[q] = IF q = r THEN a ELSE auth[q]
      /\ terms'[a] = columns
      /\ \A b \in Auths : Row(b) => /\ Row(b)' /\ b # a
                                    /\ terms'[b] = terms[b]
  BY <1>1, StampFacts, Zenon
<1>3. /\ columns \in Terms
      /\ columns.key = call[r].key /\ columns.decision = call[r].decision
  BY DEF IInv, TypeOK, Terms, Call, IssueStamp
<1>4. call[r].want = "PENDING" /\ call[r].decision \in Approved
  BY DEF IInv, IssueSound, IssueStamp
<1> HIDE DEF columns
<1> USE DEF IInv
<1>a. /\ pc' = [pc EXCEPT ![r] = "stamped"] /\ UNCHANGED <<status, call, overtaken>>
      /\ terms' = [terms EXCEPT ![a] = columns] /\ created' = Append(created, a)
      /\ auth' = [auth EXCEPT ![r] = a]
      /\ UNCHANGED <<seen, began, fresh, now, overwritten>>
  BY <1>1 DEF IssueStamp, Stamp
<1> USE <1>a
<1>5. TypeOK'
  BY <1>3 DEF TypeOK, Answered
<1>6. \A b \in Existing : Row(b) /\ terms'[b] = terms[b] /\ b \in Auths
  BY <1>2 DEF StampedSound, Existing
<1>7. /\ pc'[r] = "stamped" /\ Existing' = Existing
      /\ \A q \in Requests \ {r} : pc'[q] = pc[q]
  BY DEF TypeOK, Existing
<1>8. RowsSound'
  BY <1>2, <1>6, <1>7 DEF RowsSound, Existing
<1>9. StampedSound'
  <2>1. \A b \in Existing' : Row(b)'
    BY <1>2, <1>6, <1>7
  <2>2. ASSUME NEW q \in Requests, pc'[q] = "stamped"
        PROVE  /\ auth'[q] \in Auths \ Existing' /\ Row(auth[q])'
               /\ terms'[auth'[q]].key = call'[q].key
               /\ terms'[auth'[q]].decision \in Approved
               /\ call'[q].want = "PENDING" /\ call'[q].op = "issue"
               /\ \A p \in Requests \ {q} : auth'[p] # auth'[q]
    <3>1. CASE q = r
      <4>1. auth'[q] = a /\ a \in Auths \ Existing' /\ call' = call
        BY <1>2, <1>7, <3>1
      <4>2. Row(auth[q])'
        BY <1>2, <4>1 DEF Row
      <4>3. \A p \in Requests \ {q} : auth'[p] # auth'[q]
        BY <1>2, <3>1, <4>1
      <4>4. terms'[auth'[q]].key = call[r].key
              /\ terms'[auth'[q]].decision = call[r].decision
        BY <1>2, <1>3, <4>1
      <4>5. call[q].op = "issue"
        BY <3>1 DEF IssueStamp
      <4> QED
        BY <1>4, <3>1, <4>1, <4>2, <4>3, <4>4, <4>5
    <3>2. CASE q # r
      <4>1. /\ pc[q] = "stamped" /\ auth'[q] = auth[q]
            /\ auth[q] \in Auths \ Existing /\ Row(auth[q])
            /\ terms[auth[q]].key = call[q].key
            /\ terms[auth[q]].decision \in Approved
            /\ call[q].want = "PENDING" /\ call[q].op = "issue"
            /\ \A p \in Requests \ {q} : auth[p] # auth[q]
        BY <1>2, <1>7, <2>2, <3>2 DEF StampedSound
      <4>2. terms'[auth[q]] = terms[auth[q]] /\ auth[q] # a
        BY <1>2, <4>1
      <4>3. Row(auth[q])' /\ call' = call
        BY <1>2, <4>1 DEF Row
      <4>4. \A p \in Requests \ {q} : auth'[p] # auth'[q]
        BY <1>2, <4>1, <4>2
      <4> QED
        BY <1>7, <4>1, <4>2, <4>3, <4>4
    <3> QED
      BY <3>1, <3>2
  <2> QED
    BY <2>1, <2>2 DEF StampedSound, Row
<1>10. SessionsSound'
  BY <1>2 DEF TypeOK, SessionsSound, Holds
<1>11. IssueSound' /\ BeginsSound'
  BY DEF TypeOK, IssueSound, BeginsSound
<1>12. \A q \in Requests : q # r /\ pc[q] # "stamped" /\ auth[q] # None
         => auth'[q] = auth[q] /\ terms'[auth'[q]] = terms[auth[q]]
  BY <1>2, <1>6 DEF RowsSound
<1>13. GrantsSound'
  BY <1>7, <1>12 DEF TypeOK, GrantsSound, SessionsSound, Holds, InTime
<1>14. AnswersStand' /\ SingleUseUnlessOverwritten'
  BY <1>2, <1>4
     DEF TypeOK, AnswersStand, SingleUseUnlessOverwritten, Spent
<1>15. \A q \in Requests : pc'[q] = "ok" => q # r /\ pc[q] = "ok"
  BY <1>7
<1>16. RefusedFromExpiryOn' /\ ConsumedOnlyIfApproved'
  BY <1>12, <1>15, NoneAssumption
     DEF TypeOK, RefusedFromExpiryOn, ConsumedOnlyIfApproved, Spent, AnswersStand
<1> QED
  BY <1>5, <1>8, <1>9, <1>10, <1>11, <1>13, <1>14, <1>16

\* The rows there are keep their columns when another becomes visible.
LEMMA IssueCommitInv ==
  ASSUME IInv, NEW r \in Requests, IssueCommit(r)
  PROVE  IInv'
<1> DEFINE a == auth[r]
<1> USE DEF IInv, IssueCommit
<1>1. /\ a \in Auths \ Existing /\ Row(a) /\ a # None
      /\ terms[a].decision \in Approved
      /\ call[r].want = "PENDING" /\ call[r].op = "issue"
      /\ \A q \in Requests \ {r} : auth[q] # a
  BY NoneAssumption DEF StampedSound
<1> HIDE DEF a
<1>2. /\ pc'[r] = "ok" /\ \A q \in Requests \ {r} : pc'[q] = pc[q]
      /\ status'[a] = "ISSUED"
      /\ \A b \in Auths \ {a} : status'[b] = status[b]
      /\ Existing' = Existing \cup {a}
  BY <1>1 DEF TypeOK, Existing, a
<1>3. TypeOK'
  BY <1>1 DEF TypeOK, Answered, AuthorizationStatus, Call, IsOvertaken
<1>4. RowsSound'
  BY <1>1, <1>2 DEF RowsSound, a
<1>5. StampedSound'
  BY <1>1, <1>2 DEF StampedSound, Row, a
<1>6. SessionsSound'
  BY <1>1, <1>2 DEF TypeOK, SessionsSound, Holds, a
<1>7. IssueSound' /\ GrantsSound' /\ BeginsSound'
  BY <1>2 DEF IssueSound, GrantsSound, InTime, BeginsSound
<1>8. AnswersStand' /\ SingleUseUnlessOverwritten'
  BY <1>1, <1>2
     DEF TypeOK, AnswersStand, SingleUseUnlessOverwritten, Spent, a
<1>9. RefusedFromExpiryOn' /\ ConsumedOnlyIfApproved'
  BY <1>1, <1>2
     DEF TypeOK, RefusedFromExpiryOn, ConsumedOnlyIfApproved, Spent
<1> QED
  BY <1>3, <1>4, <1>5, <1>6, <1>7, <1>8, <1>9

LEMMA CreateLegacyInv ==
  ASSUME IInv, NEW r \in Requests, NEW a \in Auths, NEW d \in Decisions,
         NEW e \in 1 .. MaxTime + 1, CreateLegacy(r, a, d, e)
  PROVE  IInv'
<1> DEFINE columns == [decision |-> d, key |-> None,
                       signed |-> FALSE, expires |-> e]
<1>1. Stamp(r, a, columns) /\ columns \in Terms
  BY DEF CreateLegacy, Terms
<1>2. /\ a # None /\ a \notin Existing /\ ~ Row(a) /\ Row(a)'
      /\ \A q \in Requests : auth[q] # a
      /\ \A q \in Requests : auth'[q] = IF q = r THEN a ELSE auth[q]
      /\ terms'[a] = columns
      /\ \A b \in Auths : Row(b) => /\ Row(b)' /\ b # a
                                    /\ terms'[b] = terms[b]
  BY <1>1, StampFacts, Zenon
<1>3. ~ columns.signed
  OBVIOUS
<1> HIDE DEF columns
<1> USE DEF IInv, CallOf
<1>a. /\ pc[r] = "new" /\ pc' = [pc EXCEPT ![r] = "ok"] /\ overtaken' = overtaken
      /\ status' = [status EXCEPT ![a] = "AUTHORIZED"]
      /\ call' = [call EXCEPT ![r] = CallOf("create", "PENDING", None, d)]
      /\ terms' = [terms EXCEPT ![a] = columns] /\ created' = Append(created, a)
      /\ auth' = [auth EXCEPT ![r] = a]
      /\ UNCHANGED <<seen, began, fresh, now, overwritten>>
  BY <1>1 DEF CreateLegacy, Stamp
<1> USE <1>a
<1>4. TypeOK'
  BY <1>1 DEF TypeOK, Answered, AuthorizationStatus, Call, Ops
<1>5. \A b \in Existing : Row(b) /\ terms'[b] = terms[b] /\ b \in Auths /\ b # a
  BY <1>2 DEF StampedSound, Existing
<1>6. /\ pc'[r] = "ok" /\ \A q \in Requests \ {r} : pc'[q] = pc[q]
      /\ call'[r].want = "PENDING" /\ call'[r].op = "create"
      /\ \A q \in Requests \ {r} : call'[q] = call[q]
      /\ status'[a] = "AUTHORIZED"
      /\ \A b \in Auths \ {a} : status'[b] = status[b]
      /\ Existing' = Existing \cup {a}
  BY DEF TypeOK, Existing
<1>7. RowsSound'
  BY <1>2, <1>3, <1>5, <1>6 DEF RowsSound
<1>8. StampedSound'
  <2>1. \A b \in Existing' : Row(b)'
    BY <1>2, <1>5, <1>6
  <2>2. ASSUME NEW q \in Requests, pc'[q] = "stamped"
        PROVE  /\ auth'[q] \in Auths \ Existing' /\ Row(auth[q])'
               /\ terms'[auth'[q]].key = call'[q].key
               /\ terms'[auth'[q]].decision \in Approved
               /\ call'[q].want = "PENDING" /\ call'[q].op = "issue"
               /\ \A p \in Requests \ {q} : auth'[p] # auth'[q]
    BY <1>2, <1>6, <2>2 DEF StampedSound
  <2> QED
    BY <2>1, <2>2 DEF StampedSound, Row
<1>9. SessionsSound'
  BY <1>2, <1>6 DEF SessionsSound, Holds, RowsSound, Existing
<1>10. IssueSound' /\ BeginsSound'
  BY <1>6 DEF IssueSound, BeginsSound
<1>11. \A q \in Requests : q # r /\ pc[q] # "stamped" /\ auth[q] # None
         => auth'[q] = auth[q] /\ terms'[auth'[q]] = terms[auth[q]]
  BY <1>2, <1>5 DEF RowsSound
<1>12. GrantsSound'
  <2> SUFFICES ASSUME NEW q \in Requests, pc'[q] = "granted",
                      call'[q].op # "issue"
               PROVE  /\ <<seen'[q], call'[q].want>> \in Legal
                      /\ call'[q].op \in {"verify", "consume"} => InTime(q)'
    BY DEF GrantsSound
  <2>1. q # r /\ pc[q] = "granted" /\ call'[q] = call[q]
    BY <1>6
  <2>2. auth[q] # None
    BY <2>1 DEF SessionsSound, Holds
  <2>3. auth'[q] = auth[q] /\ terms'[auth'[q]] = terms[auth[q]]
    BY <1>11, <2>1, <2>2
  <2> QED
    BY <2>1, <2>3 DEF GrantsSound, InTime
<1>13. AnswersStand' /\ SingleUseUnlessOverwritten'
  BY <1>2, <1>6
     DEF TypeOK, AnswersStand, SingleUseUnlessOverwritten, Spent
<1>14. RefusedFromExpiryOn' /\ ConsumedOnlyIfApproved'
  BY <1>6, <1>11
     DEF RefusedFromExpiryOn, ConsumedOnlyIfApproved, Spent, AnswersStand
<1> QED
  BY <1>4, <1>7, <1>8, <1>9, <1>10, <1>12, <1>13, <1>14

-----------------------------------------------------------------------------
(* Decisions a session takes from its own copy *)

\* Moving a session on preserves the invariant, provided that a grant is legal
\* and that a success answered without a write already holds of the row.
LEMMA GotoInv ==
  ASSUME IInv, NEW r \in Requests, Holds(r),
         NEW label \in {"checked", "granted", "ok", "rejected"},
         Goto(r, label),
         call[r].op # "issue",
         label = "granted" => <<seen[r], call[r].want>> \in Legal,
         label = "ok" =>
           /\ call[r].want # "CONSUMED"
           /\ call[r].want = "REVOKED" => seen[r] = "REVOKED",
         label \in {"granted", "ok"} /\ call[r].op \in {"verify", "consume"} =>
           InTime(r)
  PROVE  IInv'
<1> USE DEF IInv, Goto, rowVars, lossVars
<1>1. TypeOK'
  BY DEF TypeOK, Answered
<1>2. RowsSound' /\ IssueSound'
  BY DEF TypeOK, RowsSound, IssueSound, Existing, Holds
<1>3. SessionsSound'
  BY DEF TypeOK, SessionsSound, Holds
<1>4. GrantsSound'
  BY DEF TypeOK, GrantsSound, InTime
<1>5. AnswersStand'
  BY DEF TypeOK, AnswersStand, SessionsSound
<1>6. SingleUseUnlessOverwritten'
  BY DEF TypeOK, SingleUseUnlessOverwritten, Spent
<1>7. RefusedFromExpiryOn' /\ ConsumedOnlyIfApproved'
  BY DEF TypeOK, RefusedFromExpiryOn, ConsumedOnlyIfApproved, Spent, InTime
<1>8. StampedSound' /\ BeginsSound'
  BY DEF TypeOK, StampedSound, BeginsSound, Row, Existing, Holds
<1> QED
  BY <1>1, <1>2, <1>3, <1>4, <1>5, <1>6, <1>7, <1>8

\* What Usable lets pass began before the expiry.
LEMMA UsableInTime ==
  ASSUME IInv, NEW r \in Requests, Holds(r), Usable(r)
  PROVE  InTime(r)
<1>1. auth[r] \in Auths
  BY DEF IInv, TypeOK, SessionsSound
<1>2. /\ now \in Nat /\ began[r] \in Nat /\ began[r] <= now
      /\ terms[auth[r]].expires \in Nat
  BY <1>1, TimeAssumption DEF IInv, TypeOK, BeginsSound, Terms
<1> QED
  BY <1>2 DEF Usable, IsExpired, InTime

LEMMA PassExpiryInv ==
  ASSUME IInv, NEW r \in Requests, PassExpiry(r)
  PROVE  IInv'
BY GotoInv DEF PassExpiry, Holds

LEMMA VerifyCheckInv ==
  ASSUME IInv, NEW r \in Requests, VerifyCheck(r)
  PROVE  IInv'
<1>1. call[r].want = "ACTIVE"
  BY DEF IInv, SessionsSound, VerifyCheck, Holds, Writes
<1>2. <<"ISSUED", "ACTIVE">> \in Legal
  BY DEF Legal, AuthorizationTransitions
<1>3. Usable(r) => InTime(r)
  BY UsableInTime DEF VerifyCheck, Holds
<1> QED
  BY <1>1, <1>2, <1>3, GotoInv DEF VerifyCheck, Holds

LEMMA RevokeCheckInv ==
  ASSUME IInv, NEW r \in Requests, RevokeCheck(r)
  PROVE  IInv'
<1>1. /\ call[r].want = "REVOKED"
      /\ seen[r] \in AuthorizationStatus \ {"PENDING"}
  BY DEF IInv, TypeOK, SessionsSound, RevokeCheck, Holds, Writes
<1>2. ASSUME seen[r] \notin {"CONSUMED", "REVOKED"}
      PROVE  <<seen[r], call[r].want>> \in Legal
  BY <1>1, <1>2 DEF Legal, AuthorizationTransitions, AuthorizationStatus
<1> QED
  BY <1>1, <1>2, GotoInv DEF RevokeCheck, Holds

LEMMA InvalidateCheckInv ==
  ASSUME IInv, NEW r \in Requests, InvalidateCheck(r)
  PROVE  IInv'
<1>1. /\ call[r].want \in {"EXPIRED", "REVOKED"}
      /\ seen[r] \in AuthorizationStatus \ {"PENDING"}
  BY DEF IInv, TypeOK, SessionsSound, InvalidateCheck, Holds, Writes
<1>2. ASSUME seen[r] \notin TerminalStates
      PROVE  <<seen[r], call[r].want>> \in Legal
  BY <1>1, <1>2
     DEF Legal, AuthorizationTransitions, AuthorizationStatus, TerminalStates
<1> QED
  BY <1>1, <1>2, GotoInv DEF InvalidateCheck, Holds

LEMMA TransitionCheckInv ==
  ASSUME IInv, NEW r \in Requests, TransitionCheck(r)
  PROVE  IInv'
BY GotoInv DEF TransitionCheck, Holds, Legal

LEMMA ConsumeCheckInv ==
  ASSUME IInv, NEW r \in Requests, ConsumeCheck(r)
  PROVE  IInv'
<1>1. Holds(r) /\ call[r].want = "CONSUMED"
  BY DEF IInv, SessionsSound, ConsumeCheck, Holds, Writes
<1>2. Usable(r) => InTime(r) /\ <<seen[r], call[r].want>> \in Legal
  BY <1>1, UsableInTime
     DEF Usable, LiveStates, Legal, AuthorizationTransitions
<1> QED
  BY <1>1, <1>2, GotoInv DEF ConsumeCheck

-----------------------------------------------------------------------------
(* Commits *)

\* A session that holds a row may commit any status that is legal for the copy
\* it has; it answers "ok" only for the status its call asked for.
LEMMA CommitStatusInv ==
  ASSUME IInv, NEW r \in Requests, Holds(r), NEW new,
         NEW answer \in {"ok", "rejected"},
         CommitStatus(r, new, answer),
         call[r].op # "issue",
         <<seen[r], new>> \in Legal,
         answer = "ok" =>
           /\ new = call[r].want
           /\ call[r].op \in {"verify", "consume"} => InTime(r)
  PROVE  IInv'
<1> DEFINE a == auth[r]
<1> USE DEF IInv, CommitStatus
<1>1. /\ a \in Existing
      /\ a \in Auths
      /\ fresh[r] => status[a] = seen[r]
  BY DEF SessionsSound, RowsSound, Existing, Holds
<1>2. /\ new \in AuthorizationStatus \ {"PENDING"}
      /\ seen[r] \notin {"CONSUMED", "REVOKED"}
  BY LegalSteps
<1>3. /\ status' = [status EXCEPT ![a] = new]
      /\ \A q \in Requests : q # r /\ auth[q] = a => ~ fresh'[q]
      /\ \A q \in Requests : auth[q] # a => fresh'[q] = fresh[q]
      /\ a \notin overwritten' => fresh[r] /\ a \notin overwritten
      /\ overwritten \subseteq overwritten'
      /\ \A b \in Auths : b # a /\ b \in overwritten' => b \in overwritten
  BY DEF TypeOK
<1>4. TypeOK'
  BY <1>1, <1>2 DEF TypeOK, Answered
<1>5. RowsSound'
  BY <1>1, <1>2 DEF TypeOK, RowsSound, Existing, AuthorizationStatus
<1>6. SessionsSound'
  <2> SUFFICES ASSUME NEW q \in Requests, Holds(q)'
               PROVE  /\ auth[q] # None
                      /\ <<call[q].op, call[q].want>> \in Writes
                      /\ seen[q] # "PENDING"
                      /\ fresh'[q] => seen[q] = status'[auth[q]]
                      /\ seen[q] = "REVOKED" =>
                           \/ auth[q] \in overwritten'
                           \/ status'[auth[q]] = "REVOKED"
    BY DEF SessionsSound
  <2>1. q # r /\ Holds(q)
    BY DEF Holds, TypeOK
  <2>2. CASE auth[q] = a
    BY <1>1, <1>2, <1>3, <2>1, <2>2 DEF SessionsSound
  <2>3. CASE auth[q] # a
    BY <1>1, <1>3, <2>1, <2>3 DEF SessionsSound, TypeOK
  <2> QED
    BY <2>2, <2>3
<1>7. IssueSound' /\ GrantsSound' /\ BeginsSound'
  BY DEF TypeOK, IssueSound, GrantsSound, InTime, BeginsSound
<1>8. AnswersStand'
  <2> SUFFICES ASSUME NEW q \in Requests, pc'[q] = "ok"
               PROVE  /\ auth[q] # None
                      /\ call[q].want \in {"CONSUMED", "REVOKED"} =>
                           \/ auth[q] \in overwritten'
                           \/ status'[auth[q]] = call[q].want
    BY DEF AnswersStand
  <2>1. CASE q = r
    BY <1>1, <2>1, NoneAssumption DEF TypeOK
  <2>2. CASE q # r /\ auth[q] = a
    BY <1>1, <1>2, <1>3, <2>2 DEF AnswersStand, TypeOK
  <2>3. CASE q # r /\ auth[q] # a
    BY <1>3, <2>3 DEF AnswersStand, TypeOK
  <2> QED
    BY <2>1, <2>2, <2>3
<1>9. SingleUseUnlessOverwritten'
  <2> SUFFICES ASSUME NEW p \in Requests, NEW q \in Requests,
                      Spent(p)', Spent(q)', auth[p] = auth[q], p # q
               PROVE  auth[p] \in overwritten'
    BY DEF SingleUseUnlessOverwritten
  <2>1. CASE p # r /\ q # r
    BY <1>3, <2>1 DEF SingleUseUnlessOverwritten, Spent, TypeOK
  <2>2. CASE p = r \/ q = r
    <3>1. PICK o \in Requests : o # r /\ Spent(o) /\ auth[o] = a
      BY <2>2 DEF Spent, TypeOK
    <3>2. a \in overwritten \/ status[a] = "CONSUMED"
      BY <3>1 DEF AnswersStand, Spent
    <3> QED
      BY <1>1, <1>2, <1>3, <2>2, <3>2
  <2> QED
    BY <2>1, <2>2
<1>10. RefusedFromExpiryOn'
  BY DEF TypeOK, RefusedFromExpiryOn, InTime
<1>11. ConsumedOnlyIfApproved'
  BY <1>1 DEF TypeOK, ConsumedOnlyIfApproved, RowsSound, Spent, InTime
<1>12. StampedSound'
  <2>1. Existing' = Existing
    BY <1>1, <1>2, <1>3 DEF Existing, AuthorizationStatus, TypeOK
  <2>2. \A q \in Requests : pc'[q] = "stamped" => pc[q] = "stamped"
    BY DEF TypeOK
  <2> QED
    BY <2>1, <2>2 DEF StampedSound, Row
<1> QED
  BY <1>4, <1>5, <1>6, <1>7, <1>8, <1>9, <1>10, <1>11, <1>12

LEMMA ExpireOnReadInv ==
  ASSUME IInv, NEW r \in Requests, ExpireOnRead(r)
  PROVE  IInv'
<1>1. <<seen[r], "EXPIRED">> \in Legal
  BY DEF ExpireOnRead, LiveStates, Legal, AuthorizationTransitions
<1> QED
  BY <1>1, CommitStatusInv DEF ExpireOnRead, Holds

LEMMA CommitInv ==
  ASSUME IInv, NEW r \in Requests, Commit(r)
  PROVE  IInv'
<1>1. /\ <<seen[r], call[r].want>> \in Legal
      /\ call[r].op \in {"verify", "consume"} => InTime(r)
  BY DEF IInv, GrantsSound, Commit
<1> QED
  BY <1>1, CommitStatusInv DEF Commit, Holds

-----------------------------------------------------------------------------

LEMMA TickInv ==
  ASSUME IInv, Tick
  PROVE  IInv'
BY TimeAssumption
   DEF IInv, Tick, rowVars, sessionVars, lossVars, TypeOK, RowsSound,
       StampedSound, Row, SessionsSound, BeginsSound, InTime, IssueSound, GrantsSound, AnswersStand, SingleUseUnlessOverwritten,
       RefusedFromExpiryOn, ConsumedOnlyIfApproved, Spent, Existing, Holds

LEMMA StutterInv ==
  ASSUME IInv, UNCHANGED vars
  PROVE  IInv'
BY DEF IInv, vars, rowVars, sessionVars, lossVars, TypeOK, RowsSound,
       StampedSound, Row, SessionsSound, BeginsSound, InTime, IssueSound, GrantsSound, AnswersStand, SingleUseUnlessOverwritten,
       RefusedFromExpiryOn, ConsumedOnlyIfApproved, Spent, Existing, Holds

LEMMA NextInv == IInv /\ [Next]_vars => IInv'
<1> SUFFICES ASSUME IInv, [Next]_vars
             PROVE  IInv'
  OBVIOUS
<1>1. CASE UNCHANGED vars
  BY <1>1, StutterInv
<1>2. CASE Tick
  BY <1>2, TickInv
<1>3. ASSUME NEW r \in Requests, Serve(r)
      PROVE  IInv'
  BY <1>3, IssueReplayInv, IssueCheckInv, IssueStampInv, IssueCommitInv,
     CreateLegacyInv, ReadInv, ExpireOnReadInv, PassExpiryInv, VerifyCheckInv,
     ConsumeCheckInv, RevokeCheckInv, InvalidateCheckInv,
     TransitionCheckInv, CommitInv
     DEF Serve
<1> QED
  BY <1>1, <1>2, <1>3 DEF Next

LEMMA Invariance == Spec => []IInv
BY InitInv, NextInv, PTL DEF Spec
-----------------------------------------------------------------------------
(* The theorems *)

\* Every table and session variable keeps its type.
THEOREM TypeCorrect == Spec => []TypeOK
BY Invariance, PTL DEF IInv

\* A double spend goes through a lost update, however many sessions race.
THEOREM SingleUse == Spec => []SingleUseUnlessOverwritten
BY Invariance, PTL DEF IInv

\* A revocation and a spending are both answered with success only if an
\* update was lost.
THEOREM SpentOrRevoked == Spec => []SpentOrRevokedUnlessOverwritten
<1>1. IInv => SpentOrRevokedUnlessOverwritten
  BY DEF IInv, AnswersStand, SpentOrRevokedUnlessOverwritten, Spent, Revoked
<1> QED
  BY <1>1, Invariance, PTL

\* A verify or consume that begins at the expiry or later is refused, under any
\* interleaving and whatever status stale commits have given the row.
THEOREM ExpiryRefuses == Spec => []RefusedFromExpiryOn
BY Invariance, PTL DEF IInv

\* What is consumed was issued for an APPROVED decision, under any
\* interleaving and although create_authorization admits every decision.
THEOREM ConsumptionApproved == Spec => []ConsumedOnlyIfApproved
BY Invariance, PTL DEF IInv

\* Statuses follow the declared lifecycle, but for EXPIRED to REVOKED, on every
\* step that loses no update.
THEOREM Lifecycle == Spec => LifecycleUnlessOverwritten
<1> DEFINE Follows ==
      \A a \in Existing \ overwritten' :
        status'[a] # status[a]
          => <<status[a], status'[a]>>
               \in AuthorizationTransitions \cup {<<"EXPIRED", "REVOKED">>}
<1>1. ASSUME IInv, NEW r \in Requests, NEW new,
             CommitStatus(r, new, pc'[r]), Holds(r),
             <<seen[r], new>> \in Legal
      PROVE  Follows
  BY <1>1 DEF IInv, TypeOK, SessionsSound, CommitStatus, Existing, Legal
<1>2. ASSUME IInv, NEW r \in Requests, ExpireOnRead(r)
      PROVE  Follows
  <2>1. <<seen[r], "EXPIRED">> \in Legal
    BY <1>2 DEF ExpireOnRead, LiveStates, Legal, AuthorizationTransitions
  <2>2. CommitStatus(r, "EXPIRED", pc'[r]) /\ Holds(r)
    BY <1>2 DEF ExpireOnRead, Holds, CommitStatus, IInv, TypeOK
  <2> QED
    BY <1>1, <1>2, <2>1, <2>2
<1>3. ASSUME IInv, NEW r \in Requests, Commit(r)
      PROVE  Follows
  <2>1. <<seen[r], call[r].want>> \in Legal
    BY <1>3 DEF IInv, GrantsSound, Commit
  <2>2. CommitStatus(r, call[r].want, pc'[r]) /\ Holds(r)
    BY <1>3 DEF Commit, Holds, CommitStatus, IInv, TypeOK
  <2> QED
    BY <1>1, <1>3, <2>1, <2>2
<1>4. ASSUME IInv, NEW r \in Requests,
             \/ IssueCommit(r)
             \/ \E a \in Auths, d \in Decisions, e \in 1 .. MaxTime + 1 :
                  CreateLegacy(r, a, d, e)
      PROVE  Follows
  <2>1. ASSUME NEW a \in Auths \ Existing, NEW new,
               status' = [status EXCEPT ![a] = new]
        PROVE  Follows
    BY <1>4, <2>1 DEF IInv, TypeOK, Existing
  <2>2. CASE IssueCommit(r)
    BY <1>4, <2>1, <2>2 DEF IInv, StampedSound, IssueCommit
  <2>3. ASSUME NEW a \in Auths, NEW d \in Decisions, NEW e \in 1 .. MaxTime + 1,
               CreateLegacy(r, a, d, e)
        PROVE  Follows
    BY <2>1, <2>3 DEF CreateLegacy, Stamp, Existing
  <2> QED
    BY <1>4, <2>2, <2>3
<1>5. ASSUME IInv, UNCHANGED status
      PROVE  Follows
  BY <1>5
<1>6. ASSUME IInv, NEW r \in Requests, Serve(r)
      PROVE  Follows
  <2>1. CASE \/ \E a \in Auths, k \in Keys : IssueReplay(r, a, k)
             \/ \E k \in Keys \cup {None}, d \in Decisions : IssueCheck(r, k, d)
             \/ \E a \in Auths, e \in 1 .. MaxTime + 1 : IssueStamp(r, a, e)
             \/ \E a \in Auths, w \in Writes : Read(r, a, w)
    BY <1>5, <1>6, <2>1 DEF IssueReplay, IssueCheck, IssueStamp, Read, rowVars
  <2>2. CASE \/ IssueCommit(r)
             \/ \E a \in Auths, d \in Decisions, e \in 1 .. MaxTime + 1 :
                  CreateLegacy(r, a, d, e)
    BY <1>4, <1>6, <2>2
  <2>3. CASE \/ PassExpiry(r) \/ VerifyCheck(r) \/ ConsumeCheck(r)
             \/ RevokeCheck(r) \/ InvalidateCheck(r) \/ TransitionCheck(r)
    <3>1. UNCHANGED status
      BY <2>3 DEF PassExpiry, VerifyCheck, ConsumeCheck, RevokeCheck,
                  InvalidateCheck, TransitionCheck, Goto, rowVars
    <3> QED
      BY <1>5, <1>6, <3>1
  <2> QED
    BY <1>2, <1>3, <1>6, <2>1, <2>2, <2>3 DEF Serve
<1>7. IInv /\ [Next]_vars => [Follows]_vars
  BY <1>5, <1>6 DEF Next, Tick, rowVars
<1> QED
  BY <1>7, Invariance, PTL DEF Spec, LifecycleUnlessOverwritten

-----------------------------------------------------------------------------
(* Idempotency keys *)

\* A call was answered with a row that is the oldest of its key still, unless
\* the key has been overtaken.
ReplaysSound ==
  \A r \in Requests : pc[r] = "replayed" =>
    /\ call[r].key \in Keys
    /\ IsOldest(auth[r], call[r].key) \/ call[r].key \in overtaken

Issuing(r) ==
  pc[r] = "stamped" \/ (pc[r] = "granted" /\ call[r].op = "issue")

\* The operations on an existing row neither insert one nor issue.
LEMMA OthersKeep ==
  ASSUME IInv, NEW r \in Requests,
         \/ ExpireOnRead(r) \/ PassExpiry(r) \/ VerifyCheck(r)
         \/ ConsumeCheck(r) \/ RevokeCheck(r) \/ InvalidateCheck(r)
         \/ TransitionCheck(r) \/ Commit(r)
  PROVE  /\ UNCHANGED <<created, terms, call, auth, overtaken>>
         /\ Existing' = Existing
         /\ \A q \in Requests :
              /\ pc'[q] = "replayed" => pc[q] = "replayed"
              /\ Issuing(q)' => Issuing(q)
<1> USE DEF IInv
<1>1. ASSUME NEW label \in {"checked", "granted", "ok", "rejected"},
             Goto(r, label), call[r].op # "issue"
      PROVE  /\ UNCHANGED <<created, terms, call, auth, overtaken, status>>
             /\ \A q \in Requests :
                  /\ pc'[q] = "replayed" => pc[q] = "replayed"
                  /\ Issuing(q)' => Issuing(q)
  BY <1>1 DEF Goto, rowVars, lossVars, TypeOK, Issuing
<1>2. ASSUME NEW to, NEW answer \in {"ok", "rejected"}, Holds(r),
             CommitStatus(r, to, answer), <<seen[r], to>> \in Legal
      PROVE  /\ UNCHANGED <<created, terms, call, auth, overtaken>>
             /\ Existing' = Existing
             /\ \A q \in Requests :
                  /\ pc'[q] = "replayed" => pc[q] = "replayed"
                  /\ Issuing(q)' => Issuing(q)
  <2>1. auth[r] \in Existing /\ to # "none"
    BY <1>2, LegalSteps DEF SessionsSound, RowsSound, Holds, AuthorizationStatus
  <2> QED
    BY <1>2, <2>1 DEF CommitStatus, TypeOK, Existing, Issuing
<1>3. CASE ExpireOnRead(r)
  <2>1. <<seen[r], "EXPIRED">> \in Legal /\ Holds(r)
    BY <1>3 DEF ExpireOnRead, LiveStates, Legal, AuthorizationTransitions, Holds
  <2> QED
    BY <1>2, <1>3, <2>1 DEF ExpireOnRead
<1>4. CASE Commit(r)
  <2>1. <<seen[r], call[r].want>> \in Legal /\ Holds(r)
    BY <1>4 DEF Commit, GrantsSound, Holds
  <2> QED
    BY <1>2, <1>4, <2>1 DEF Commit
<1>5. CASE ~ ExpireOnRead(r) /\ ~ Commit(r)
  BY <1>1, <1>5 DEF PassExpiry, VerifyCheck, ConsumeCheck, RevokeCheck,
                    InvalidateCheck, TransitionCheck, Existing
<1> QED
  BY <1>3, <1>4, <1>5

\* Stamping a row shows it to no one.
LEMMA StampStays ==
  ASSUME IInv, NEW r \in Requests, NEW a \in Auths, NEW columns \in Terms,
         Stamp(r, a, columns),
         \A b \in Auths \ {a} : status'[b] = status[b],
         a \in Existing' => columns.key = None,
         NEW b, NEW k \in Keys, IsOldest(b, k)
  PROVE  IsOldest(b, k)'
<1>1. /\ Len(created) \in Nat /\ Len(created') = Len(created) + 1
      /\ created'[Len(created) + 1] = a
      /\ \A i \in 1 .. Len(created) :
           created'[i] = created[i] /\ created[i] \in Auths \ {a}
  BY DEF IInv, TypeOK, Stamp
<1>2. /\ terms'[a] = columns
      /\ \A c \in Auths \ {a} : terms'[c] = terms[c]
      /\ \A c \in Auths \ {a} : c \in Existing' <=> c \in Existing
  BY DEF IInv, TypeOK, Stamp, Existing
<1>3. k # None
  BY NoneAssumption
<1>4. \A j : j \in WithKey(k)' <=> j \in WithKey(k)
  BY <1>1, <1>2, <1>3 DEF WithKey
<1>5. PICK i \in WithKey(k) : created[i] = b /\ \A j \in WithKey(k) : i <= j
  BY DEF IsOldest
<1>6. created'[i] = b
  BY <1>1, <1>5 DEF WithKey
<1> QED
  BY <1>4, <1>5, <1>6 DEF IsOldest

\* A row that becomes visible leaves the oldest one of a key what it was, unless
\* it was stamped before a row that is there.
LEMMA OldestStays ==
  ASSUME IInv, NEW r \in Requests, IssueCommit(r),
         NEW b, NEW k \in Keys, IsOldest(b, k)
  PROVE  IsOldest(b, k)' \/ k \in overtaken'
<1> DEFINE a == auth[r]
<1>1. /\ a \in Auths \ Existing /\ terms[a].key = call[r].key
      /\ UNCHANGED <<terms, created>>
      /\ Existing' = Existing \cup {a}
      /\ IsOvertaken(a, call[r].key) => call[r].key \in overtaken'
      /\ k # None
  BY NoneAssumption DEF IInv, TypeOK, StampedSound, IssueCommit, Existing
<1>2. Len(created) \in Nat
  BY DEF IInv, TypeOK
<1> HIDE DEF a
<1>3. PICK i \in WithKey(k) : created[i] = b /\ \A j \in WithKey(k) : i <= j
  BY DEF IsOldest
<1>4. i \in WithKey(k)' /\ created'[i] = b
  BY <1>1, <1>3 DEF WithKey
<1>5. ASSUME k \notin overtaken', NEW j \in WithKey(k)'
      PROVE  i <= j
  <2>1. CASE j \in WithKey(k)
    BY <1>3, <2>1
  <2>2. CASE j \notin WithKey(k)
    <3>1. j \in 1 .. Len(created) /\ created[j] = a /\ call[r].key = k
      BY <1>1, <1>5, <2>2 DEF WithKey
    <3>2. ~ IsOvertaken(a, k)
      BY <1>1, <1>5, <3>1
    <3>3. ~ (j < i)
      BY <1>1, <1>3, <3>1, <3>2 DEF IsOvertaken
    <3> QED
      BY <1>2, <1>3, <3>1, <3>3 DEF WithKey
  <2> QED
    BY <2>1, <2>2
<1> QED
  BY <1>4, <1>5 DEF IsOldest

LEMMA ReplaysNext == IInv /\ ReplaysSound /\ [Next]_vars => ReplaysSound'
<1> SUFFICES ASSUME IInv, ReplaysSound, [Next]_vars
             PROVE  ReplaysSound'
  OBVIOUS
<1> USE DEF IInv
<1>1. ASSUME UNCHANGED <<created, terms, call, overtaken>>, UNCHANGED auth,
             Existing' = Existing,
             \A q \in Requests : pc'[q] = "replayed" => pc[q] = "replayed"
      PROVE  ReplaysSound'
  BY <1>1 DEF ReplaysSound, IsOldest, WithKey
<1>2. ASSUME NEW r \in Requests, NEW a \in Auths, NEW k \in Keys,
             IssueReplay(r, a, k)
      PROVE  ReplaysSound'
  BY <1>2 DEF ReplaysSound, IssueReplay, IsOldest, WithKey, CallOf, TypeOK,
              rowVars, lossVars, Call, Existing
<1>3. ASSUME NEW r \in Requests, NEW k \in Keys \cup {None},
             NEW d \in Decisions, IssueCheck(r, k, d)
      PROVE  ReplaysSound'
  BY <1>3 DEF ReplaysSound, IssueCheck, IsOldest, WithKey, CallOf, TypeOK,
              rowVars, lossVars, Call, Existing
<1>4. ASSUME NEW r \in Requests, NEW a \in Auths, NEW w \in Writes,
             Read(r, a, w)
      PROVE  ReplaysSound'
  BY <1>4 DEF ReplaysSound, Read, IsOldest, WithKey, CallOf, TypeOK,
              rowVars, lossVars, Call, Existing
<1>5. ASSUME NEW r \in Requests, NEW a \in Auths, NEW columns \in Terms,
             Stamp(r, a, columns), UNCHANGED overtaken,
             \A b \in Auths \ {a} : status'[b] = status[b],
             a \in Existing' => columns.key = None,
             \A q \in Requests : pc'[q] = "replayed" =>
               /\ q # r /\ pc[q] = "replayed"
               /\ call'[q] = call[q] /\ call[q].key \in Keys
      PROVE  ReplaysSound'
  <2>1. \A b : \A k \in Keys : IsOldest(b, k) => IsOldest(b, k)'
    BY <1>5, StampStays
  <2>2. \A q \in Requests \ {r} : auth'[q] = auth[q]
    BY <1>5 DEF Stamp, TypeOK
  <2> QED
    BY <1>5, <2>1, <2>2 DEF ReplaysSound
<1>6. ASSUME NEW r \in Requests, NEW a \in Auths, NEW e \in 1 .. MaxTime + 1,
             IssueStamp(r, a, e)
      PROVE  ReplaysSound'
  <2> DEFINE columns == [decision |-> call[r].decision, key |-> call[r].key,
                         signed |-> TRUE, expires |-> e]
  <2>1. columns \in Terms /\ Stamp(r, a, columns) /\ a \notin Existing'
    BY <1>6 DEF IssueStamp, Stamp, TypeOK, Call, Terms, Existing
  <2> QED
    BY <1>5, <1>6, <2>1 DEF IssueStamp, TypeOK, ReplaysSound
<1>7. ASSUME NEW r \in Requests, NEW a \in Auths, NEW d \in Decisions,
             NEW e \in 1 .. MaxTime + 1, CreateLegacy(r, a, d, e)
      PROVE  ReplaysSound'
  <2> DEFINE columns == [decision |-> d, key |-> None,
                         signed |-> FALSE, expires |-> e]
  <2>1. columns \in Terms /\ Stamp(r, a, columns) /\ columns.key = None
    BY <1>7 DEF CreateLegacy, Terms
  <2> QED
    BY <1>5, <1>7, <2>1 DEF CreateLegacy, TypeOK, ReplaysSound
<1>8. ASSUME NEW r \in Requests, IssueCommit(r)
      PROVE  ReplaysSound'
  <2>1. \A b : \A k \in Keys : IsOldest(b, k) => IsOldest(b, k)' \/ k \in overtaken'
    BY <1>8, OldestStays
  <2> QED
    BY <1>8, <2>1 DEF ReplaysSound, IssueCommit, TypeOK
<1>9. ASSUME NEW r \in Requests,
             \/ ExpireOnRead(r) \/ PassExpiry(r) \/ VerifyCheck(r)
             \/ ConsumeCheck(r) \/ RevokeCheck(r) \/ InvalidateCheck(r)
             \/ TransitionCheck(r) \/ Commit(r)
      PROVE  ReplaysSound'
  BY <1>1, <1>9, OthersKeep
<1>10. CASE Tick \/ UNCHANGED vars
  BY <1>1, <1>10 DEF Tick, vars, rowVars, sessionVars, lossVars, Existing
<1> QED
  BY <1>2, <1>3, <1>4, <1>6, <1>7, <1>8, <1>9, <1>10 DEF Next, Serve

\* All calls answered from one idempotency key agree on the authorization, as
\* long as no row of the key is committed after one stamped later.
THEOREM Idempotency == Spec => []ReplaysAgreeUnlessOvertaken
<1>1. Init => ReplaysSound
  BY DEF Init, ReplaysSound
<1>2. TypeOK /\ ReplaysSound => ReplaysAgreeUnlessOvertaken
  BY DEF TypeOK, ReplaysSound, ReplaysAgreeUnlessOvertaken, IsOldest, WithKey
<1>3. IInv => TypeOK
  BY DEF IInv
<1> QED
  BY <1>1, <1>2, <1>3, Invariance, ReplaysNext, PTL DEF Spec

\* Calls that issue with one key are served one at a time, from the lookup to
\* the commit.
OneIssuing ==
  \A r, q \in Requests :
    Issuing(r) /\ Issuing(q) /\ call[r].key = call[q].key
      => r = q \/ call[r].key = None

\* No committed row has the key that a call is about to issue with.
KeysFree ==
  \A r \in Requests : Issuing(r) /\ call[r].key # None =>
    \A a \in Existing : terms[a].key # call[r].key

LEMMA KeysFreeNext ==
  IInv /\ OneIssuing /\ OriginalReturned /\ KeysFree /\ [Next]_vars
    => OriginalReturned' /\ KeysFree'
<1> SUFFICES ASSUME IInv, OneIssuing, OriginalReturned, KeysFree, [Next]_vars
             PROVE  OriginalReturned' /\ KeysFree'
  OBVIOUS
<1> USE DEF IInv
<1>1. ASSUME UNCHANGED <<terms, call, auth>>, Existing' = Existing,
             \A q \in Requests : /\ pc'[q] = "replayed" => pc[q] = "replayed"
                                 /\ Issuing(q)' => Issuing(q)
      PROVE  OriginalReturned' /\ KeysFree'
  BY <1>1 DEF OriginalReturned, KeysFree
<1>2. ASSUME NEW r \in Requests, Existing' = Existing, terms' = terms,
             \A q \in Requests \ {r} :
               pc'[q] = pc[q] /\ call'[q] = call[q] /\ auth'[q] = auth[q],
             pc'[r] = "replayed" => /\ auth'[r] \in Existing
                                    /\ terms[auth'[r]].key = call'[r].key,
             Issuing(r)' /\ call'[r].key # None =>
               \A a \in Existing : terms[a].key # call'[r].key
      PROVE  OriginalReturned' /\ KeysFree'
  BY <1>2 DEF OriginalReturned, KeysFree, Issuing
<1>3. ASSUME NEW r \in Requests,
             \/ \E a \in Auths, k \in Keys : IssueReplay(r, a, k)
             \/ \E k \in Keys \cup {None}, d \in Decisions : IssueCheck(r, k, d)
             \/ \E a \in Auths, w \in Writes : Read(r, a, w)
      PROVE  OriginalReturned' /\ KeysFree'
  <2>1. /\ Existing' = Existing /\ terms' = terms
        /\ \A q \in Requests \ {r} :
             pc'[q] = pc[q] /\ call'[q] = call[q] /\ auth'[q] = auth[q]
    BY <1>3 DEF IssueReplay, IssueCheck, Read, rowVars, Existing, TypeOK
  <2>2. pc'[r] = "replayed" => /\ auth'[r] \in Existing
                               /\ terms[auth'[r]].key = call'[r].key
    BY <1>3 DEF IssueReplay, IssueCheck, Read, IsOldest, WithKey, CallOf, TypeOK,
                Existing
  <2>3. ASSUME Issuing(r)', call'[r].key # None, NEW a \in Existing
        PROVE  terms[a].key # call'[r].key
    <3>1. PICK k \in Keys \cup {None}, d \in Decisions : IssueCheck(r, k, d)
      BY <1>3, <2>3 DEF IssueReplay, IssueCheck, Read, Issuing, TypeOK
    <3>2. call'[r].key = k /\ WithKey(k) = {}
      BY <2>3, <3>1 DEF IssueCheck, CallOf, TypeOK
    <3>3. PICK i \in 1 .. Len(created) : created[i] = a
      BY <2>3 DEF StampedSound, Row
    <3> QED
      BY <2>3, <3>2, <3>3 DEF WithKey
  <2> QED
    BY <1>2, <2>1, <2>2, <2>3
<1>4. ASSUME NEW r \in Requests, NEW a \in Auths, NEW columns,
             Stamp(r, a, columns),
             \A b \in Auths \ {a} : status'[b] = status[b],
             a \in Existing' => columns.key = None,
             pc'[r] # "replayed",
             \A q \in Requests \ {r} : pc'[q] = pc[q] /\ call'[q] = call[q],
             Issuing(r)' => Issuing(r) /\ call'[r] = call[r]
      PROVE  OriginalReturned' /\ KeysFree'
  <2>1. /\ a \notin Existing /\ terms'[a] = columns
        /\ \A q \in Requests \ {r} : auth'[q] = auth[q]
        /\ \A b \in Auths : Row(b) => b # a /\ terms'[b] = terms[b]
    BY <1>4, StampFacts
  <2>2. \A b \in Existing : b # a /\ terms'[b] = terms[b] /\ b \in Existing'
    BY <1>4, <2>1 DEF StampedSound, Existing
  <2>3. \A b \in Existing' : b \in Existing \/ (b = a /\ columns.key = None)
    BY <1>4, <2>1 DEF Existing
  <2>4. OriginalReturned'
    BY <1>4, <2>1, <2>2, <2>3 DEF OriginalReturned
  <2>5. \A q \in Requests : Issuing(q)' => Issuing(q) /\ call'[q] = call[q]
    BY <1>4 DEF Issuing
  <2>6. KeysFree'
    BY <2>1, <2>2, <2>3, <2>5 DEF KeysFree
  <2> QED
    BY <2>4, <2>6
<1>5. ASSUME NEW r \in Requests, NEW a \in Auths, NEW e \in 1 .. MaxTime + 1,
             IssueStamp(r, a, e)
      PROVE  OriginalReturned' /\ KeysFree'
  <2>1. a \notin Existing'
    BY <1>5 DEF IssueStamp, Stamp, Existing
  <2>2. Issuing(r) /\ call' = call /\ pc'[r] = "stamped"
    BY <1>5 DEF IssueStamp, Issuing, TypeOK
  <2>3. \A q \in Requests \ {r} : pc'[q] = pc[q]
    BY <1>5 DEF IssueStamp, TypeOK
  <2> QED
    BY <1>4, <1>5, <2>1, <2>2, <2>3 DEF IssueStamp
<1>6. ASSUME NEW r \in Requests, NEW a \in Auths, NEW d \in Decisions,
             NEW e \in 1 .. MaxTime + 1, CreateLegacy(r, a, d, e)
      PROVE  OriginalReturned' /\ KeysFree'
  <2> DEFINE columns == [decision |-> d, key |-> None,
                         signed |-> FALSE, expires |-> e]
  <2>1. Stamp(r, a, columns) /\ columns.key = None
    BY <1>6 DEF CreateLegacy
  <2>2. /\ pc'[r] = "ok" /\ ~ Issuing(r)'
        /\ \A q \in Requests \ {r} : pc'[q] = pc[q] /\ call'[q] = call[q]
        /\ \A b \in Auths \ {a} : status'[b] = status[b]
    BY <1>6 DEF CreateLegacy, TypeOK, Issuing
  <2> QED
    BY <1>4, <2>1, <2>2
<1>7. ASSUME NEW r \in Requests, IssueCommit(r)
      PROVE  OriginalReturned' /\ KeysFree'
  <2>1. /\ auth[r] \in Auths \ Existing /\ terms[auth[r]].key = call[r].key
        /\ UNCHANGED <<terms, call, auth>>
        /\ Existing' = Existing \cup {auth[r]}
    BY <1>7 DEF IInv, TypeOK, StampedSound, IssueCommit, Existing
  <2>2. /\ Issuing(r) /\ ~ Issuing(r)' /\ pc'[r] = "ok"
        /\ \A q \in Requests \ {r} : pc'[q] = pc[q]
        /\ \A q \in Requests \ {r} : Issuing(q)' => Issuing(q)
    BY <1>7, <2>1 DEF TypeOK, IssueCommit, Issuing
  <2>3. OriginalReturned'
    BY <2>1, <2>2 DEF OriginalReturned, KeysFree
  <2>4. KeysFree'
    BY <2>1, <2>2 DEF OneIssuing, KeysFree
  <2> QED
    BY <2>3, <2>4
<1>8. ASSUME NEW r \in Requests,
             \/ ExpireOnRead(r) \/ PassExpiry(r) \/ VerifyCheck(r)
             \/ ConsumeCheck(r) \/ RevokeCheck(r) \/ InvalidateCheck(r)
             \/ TransitionCheck(r) \/ Commit(r)
      PROVE  OriginalReturned' /\ KeysFree'
  BY <1>1, <1>8, OthersKeep
<1>9. CASE Tick \/ UNCHANGED vars
  BY <1>1, <1>9 DEF Tick, vars, rowVars, sessionVars, Existing, Issuing
<1> QED
  BY <1>3, <1>5, <1>6, <1>7, <1>8, <1>9 DEF Next, Serve

\* The docstring's promise holds outright when calls that issue with one key
\* are served one at a time: a key has one row, and every call that repeats it
\* is answered with that.
THEOREM SerialIdempotency == Spec /\ []OneIssuing => []OriginalReturned
<1>1. Init => OriginalReturned /\ KeysFree
  BY DEF Init, OriginalReturned, KeysFree, Issuing, Existing
<1> QED
  BY <1>1, Invariance, KeysFreeNext, PTL DEF Spec

-----------------------------------------------------------------------------
(* Serialised sessions *)

\* No two sessions hold a copy of one row at the same time: what a row lock, or
\* a single worker thread, would guarantee.
Exclusive ==
  \A r, q \in Requests : Holds(r) /\ Holds(q) /\ auth[r] = auth[q] => r = q

NothingLost ==
  /\ overwritten = {}
  /\ \A r \in Requests : Holds(r) => fresh[r]
  /\ \A r \in Requests : pc[r] = "new" => auth[r] = None /\ fresh[r]

LEMMA NothingLostNext ==
  IInv /\ Exclusive /\ NothingLost /\ [Next]_vars => NothingLost'
<1> SUFFICES ASSUME IInv, Exclusive, NothingLost, [Next]_vars
             PROVE  NothingLost'
  OBVIOUS
<1> USE DEF IInv
<1>1. ASSUME NEW r \in Requests, NEW new, Holds(r),
             NEW answer \in {"ok", "rejected"}, CommitStatus(r, new, answer)
      PROVE  NothingLost'
  <2>1. auth[r] # None
    BY <1>1 DEF SessionsSound
  <2>2. \A q \in Requests : q # r /\ auth[q] = auth[r]
          => ~ Holds(q) /\ pc[q] # "new"
    BY <1>1, <2>1 DEF Exclusive, NothingLost
  <2>3. overwritten' = {}
    BY <1>1 DEF CommitStatus, NothingLost
  <2>4. \A q \in Requests : Holds(q)' => q # r /\ Holds(q)
    BY <1>1 DEF CommitStatus, Holds, TypeOK
  <2>5. \A q \in Requests : pc'[q] = "new" => q # r /\ pc[q] = "new"
    BY <1>1 DEF CommitStatus, TypeOK
  <2>6. \A q \in Requests : auth[q] # auth[r] => fresh'[q] = fresh[q]
    BY <1>1 DEF CommitStatus
  <2> QED
    BY <1>1, <2>2, <2>3, <2>4, <2>5, <2>6 DEF NothingLost, CommitStatus
<1>2. ASSUME UNCHANGED <<overwritten, fresh>>,
             \A q \in Requests : Holds(q)' => Holds(q) \/ pc[q] = "new",
             \A q \in Requests : pc'[q] = "new"
               => pc[q] = "new" /\ auth'[q] = auth[q]
      PROVE  NothingLost'
  BY <1>2 DEF NothingLost
<1>3. ASSUME NEW r \in Requests, ExpireOnRead(r) \/ Commit(r)
      PROVE  NothingLost'
  BY <1>1, <1>3 DEF ExpireOnRead, Commit, Holds
<1>4. ASSUME NEW r \in Requests,
             \/ \E a \in Auths, k \in Keys : IssueReplay(r, a, k)
             \/ \E k \in Keys \cup {None}, d \in Decisions : IssueCheck(r, k, d)
             \/ \E a \in Auths, e \in 1 .. MaxTime + 1 : IssueStamp(r, a, e)
             \/ IssueCommit(r)
             \/ \E a \in Auths, d \in Decisions, e \in 1 .. MaxTime + 1 :
                  CreateLegacy(r, a, d, e)
             \/ \E a \in Auths, w \in Writes : Read(r, a, w)
      PROVE  NothingLost'
  <2>1. UNCHANGED <<overwritten, fresh>>
    BY <1>4 DEF IssueReplay, IssueCheck, IssueStamp, IssueCommit, CreateLegacy,
                Read, Stamp, lossVars
  <2>2. \A q \in Requests : q # r => pc'[q] = pc[q] /\ auth'[q] = auth[q]
    BY <1>4 DEF IssueReplay, IssueCheck, IssueStamp, IssueCommit, CreateLegacy,
                Read, Stamp, lossVars, TypeOK
  <2>3. \A q \in Requests : q # r => (Holds(q)' => Holds(q))
    BY <1>4, <2>2 DEF IssueReplay, IssueCheck, IssueStamp, IssueCommit, CreateLegacy,
                Read, Stamp, lossVars, CallOf, Holds, TypeOK, Call
  <2>4. pc'[r] # "new"
    BY <1>4 DEF IssueReplay, IssueCheck, IssueStamp, IssueCommit, CreateLegacy,
                Read, Stamp, lossVars, TypeOK
  <2>5. Holds(r)' => pc[r] = "new"
    BY <1>4 DEF IssueReplay, IssueCheck, IssueStamp, IssueCommit, CreateLegacy,
                Read, Stamp, lossVars, CallOf, Holds, TypeOK, Call
  <2> QED
    BY <1>2, <2>1, <2>2, <2>3, <2>4, <2>5
<1>5. ASSUME NEW r \in Requests,
             \/ PassExpiry(r) \/ VerifyCheck(r) \/ ConsumeCheck(r)
             \/ RevokeCheck(r) \/ InvalidateCheck(r) \/ TransitionCheck(r)
      PROVE  NothingLost'
  BY <1>2, <1>5
     DEF PassExpiry, VerifyCheck, ConsumeCheck, RevokeCheck, InvalidateCheck,
         TransitionCheck, Goto, Holds, TypeOK, lossVars
<1>6. CASE Tick \/ UNCHANGED vars
  BY <1>2, <1>6 DEF Tick, vars, sessionVars, lossVars, Holds
<1> QED
  BY <1>3, <1>4, <1>5, <1>6 DEF Next, Serve

\* The docstring's promise holds outright when the sessions on a row are
\* serialised: the read-check-write race is all that stands against it.
THEOREM SerialSingleUse == Spec /\ []Exclusive => []ConsumedOnce
<1>1. Init => NothingLost
  BY DEF Init, NothingLost, Holds
<1>2. IInv /\ NothingLost => ConsumedOnce
  BY DEF IInv, NothingLost, SingleUseUnlessOverwritten, ConsumedOnce
<1> QED
  BY <1>1, <1>2, Invariance, NothingLostNext, PTL DEF Spec

-----------------------------------------------------------------------------
(* Refinement: an authorization is a permit *)

\* The callers who were told that they have spent an authorization.
SpentOn(a) == {r \in Requests : Spent(r) /\ auth[r] = a}

\* Only rows there are get lost updates, and finitely many callers have been
\* answered, so that Spends counts them.
Bookkept ==
  /\ overwritten \subseteq Existing
  /\ \A a \in Auths : IsFiniteSet(SpentOn(a))

\* The step of r leaves the sessions of all others alone.
OthersStay(r) ==
  \A q \in Requests \ {r} :
    pc'[q] = pc[q] /\ call'[q] = call[q] /\ auth'[q] = auth[q]

\* The step tells no one that an authorization is spent.
Quiet(r) == OthersStay(r) /\ ~ Spent(r) /\ ~ Spent(r)'

LEMMA QuietSpends ==
  ASSUME NEW r \in Requests, Quiet(r), NEW a
  PROVE  SpentOn(a)' = SpentOn(a)
BY DEF Quiet, OthersStay, SpentOn, Spent

\* Every step of a session moves on within it, inserts a row, or commits a
\* status that is legal for the copy it has.
Moves(r) == UNCHANGED <<status, overwritten>> /\ Quiet(r)

Inserts(r, a) ==
  /\ status[a] = "none" /\ UNCHANGED overwritten /\ Quiet(r)
  /\ \E new \in {"ISSUED", "AUTHORIZED"} : status' = [status EXCEPT ![a] = new]

Commits(r, new, answer) ==
  /\ CommitStatus(r, new, answer) /\ Holds(r) /\ call[r].op # "issue"
  /\ <<seen[r], new>> \in Legal
  /\ answer \in {"ok", "rejected"} /\ (answer = "ok" => new = call[r].want)
  /\ new = "CONSUMED" => answer = "ok"

LEMMA StepKinds ==
  ASSUME IInv, NEW r \in Requests, Serve(r)
  PROVE  \/ Moves(r)
         \/ \E a \in Auths : Inserts(r, a)
         \/ \E new, answer : Commits(r, new, answer)
<1> USE DEF IInv
<1>1. ASSUME \/ \E a \in Auths, k \in Keys : IssueReplay(r, a, k)
             \/ \E k \in Keys \cup {None}, d \in Decisions : IssueCheck(r, k, d)
             \/ \E a \in Auths, e \in 1 .. MaxTime + 1 : IssueStamp(r, a, e)
             \/ \E a \in Auths, w \in Writes : Read(r, a, w)
      PROVE  Moves(r)
  BY <1>1 DEF IssueReplay, IssueCheck, IssueStamp, Stamp, Read, rowVars, lossVars,
              Moves, Quiet, OthersStay, Spent, TypeOK
<1>2. ASSUME IssueCommit(r)
      PROVE  \E a \in Auths : Inserts(r, a)
  <2>1. auth[r] \in Auths /\ status[auth[r]] = "none" /\ call[r].want = "PENDING"
    BY <1>2 DEF StampedSound, IssueCommit, Existing
  <2>2. Inserts(r, auth[r])
    BY <1>2, <2>1 DEF IssueCommit, Inserts, Quiet, OthersStay, Spent, TypeOK
  <2> QED
    BY <2>1, <2>2, Zenon
<1>3. ASSUME NEW a \in Auths, NEW d \in Decisions, NEW e \in 1 .. MaxTime + 1,
             CreateLegacy(r, a, d, e)
      PROVE  Inserts(r, a)
  BY <1>3 DEF CreateLegacy, Stamp, Inserts, Quiet, OthersStay, Spent, TypeOK,
              CallOf
<1>4. ASSUME NEW label \in {"checked", "granted", "ok", "rejected"},
             Goto(r, label), Holds(r),
             label = "ok" => call[r].want # "CONSUMED"
      PROVE  Moves(r)
  BY <1>4 DEF Goto, rowVars, lossVars, Moves, Quiet, OthersStay, Spent, TypeOK,
              Holds
<1>5. ASSUME \/ PassExpiry(r) \/ InvalidateCheck(r) \/ TransitionCheck(r)
      PROVE  Moves(r)
  BY <1>4, <1>5 DEF PassExpiry, InvalidateCheck, TransitionCheck, Holds
<1>6. ASSUME VerifyCheck(r) \/ RevokeCheck(r)
      PROVE  Moves(r)
  <2>1. Holds(r) /\ call[r].want # "CONSUMED"
    BY <1>6 DEF VerifyCheck, RevokeCheck, Holds, SessionsSound, Writes
  <2> QED
    BY <1>4, <1>6, <2>1 DEF VerifyCheck, RevokeCheck
<1>7. ASSUME ConsumeCheck(r)
      PROVE  Moves(r)
  BY <1>7 DEF ConsumeCheck, Goto, rowVars, lossVars, Moves, Quiet, OthersStay,
              Spent, TypeOK
<1>8. ASSUME ExpireOnRead(r)
      PROVE  Commits(r, "EXPIRED", "rejected")
  BY <1>8 DEF ExpireOnRead, Commits, Holds, Legal, LiveStates,
              AuthorizationTransitions
<1>9. ASSUME Commit(r)
      PROVE  Commits(r, call[r].want, "ok")
  BY <1>9 DEF Commit, Commits, Holds, GrantsSound
<1> QED
  BY <1>1, <1>2, <1>3, <1>5, <1>6, <1>7, <1>8, <1>9 DEF Serve

\* What a commit does to its row a: the update is lost from then on or the copy
\* was fresh, and the caller joins those who have spent it when told so.
Written(r, a, to) ==
  /\ a \in Auths /\ status[a] \in AuthorizationStatus
  /\ to \in AuthorizationStatus \ {"PENDING", "ISSUED"}
  /\ \A b \in Auths : status'[b] = IF b = a THEN to ELSE status[b]
  /\ \A b \in Auths \ {a} : b \in overwritten' <=> b \in overwritten
  /\ a \in overwritten => a \in overwritten'
  /\ a \notin overwritten' => <<status[a], to>> \in Legal
  /\ \A b \in Auths \ {a} : SpentOn(b)' = SpentOn(b)
  /\ to = "CONSUMED" => r \notin SpentOn(a) /\ SpentOn(a)' = SpentOn(a) \cup {r}
  /\ to # "CONSUMED" => SpentOn(a)' = SpentOn(a)

LEMMA CommitWrites ==
  ASSUME IInv, NEW r \in Requests, NEW to, NEW answer,
         Commits(r, to, answer)
  PROVE  Written(r, auth[r], to)
<1>1. /\ auth[r] \in Auths /\ status[auth[r]] \in AuthorizationStatus
      /\ fresh[r] => seen[r] = status[auth[r]]
  BY DEF IInv, TypeOK, Commits, SessionsSound, RowsSound, Existing, Holds
<1>2. /\ to \in AuthorizationStatus \ {"PENDING", "ISSUED"}
      /\ \A b \in Auths : status'[b] = IF b = auth[r] THEN to ELSE status[b]
  BY LegalSteps DEF Commits, CommitStatus, IInv, TypeOK
<1>3. /\ \A b \in Auths \ {auth[r]} : b \in overwritten' <=> b \in overwritten
      /\ auth[r] \in overwritten => auth[r] \in overwritten'
      /\ auth[r] \notin overwritten' => fresh[r]
  BY DEF Commits, CommitStatus
<1>4. auth[r] \notin overwritten' => <<status[auth[r]], to>> \in Legal
  BY <1>1, <1>3 DEF Commits
<1>5. OthersStay(r) /\ UNCHANGED <<call, auth>> /\ pc'[r] = answer
  BY DEF Commits, CommitStatus, OthersStay, IInv, TypeOK
<1>6. /\ ~ Spent(r)
      /\ Spent(r)' <=> to = "CONSUMED"
  BY <1>5 DEF Commits, Holds, Spent
<1>7. \A q \in Requests \ {r} : Spent(q)' = Spent(q) /\ auth'[q] = auth[q]
  BY <1>5 DEF OthersStay, Spent
<1>8. \A b \in Auths \ {auth[r]} : SpentOn(b)' = SpentOn(b)
  BY <1>5, <1>7 DEF SpentOn
<1>9. /\ to = "CONSUMED" => /\ r \notin SpentOn(auth[r])
                            /\ SpentOn(auth[r])' = SpentOn(auth[r]) \cup {r}
      /\ to # "CONSUMED" => SpentOn(auth[r])' = SpentOn(auth[r])
  BY <1>5, <1>6, <1>7 DEF SpentOn
<1> QED
  BY <1>1, <1>2, <1>3, <1>4, <1>8, <1>9 DEF Written

LEMMA BookkeptNext ==
  ASSUME IInv, Bookkept, [Next]_vars
  PROVE  Bookkept'
<1>1. ASSUME UNCHANGED <<status, overwritten, pc, call, auth>>
      PROVE  Bookkept'
  BY <1>1 DEF Bookkept, Existing, SpentOn, Spent
<1>2. ASSUME NEW r \in Requests, Moves(r) \/ \E a \in Auths : Inserts(r, a)
      PROVE  Bookkept'
  <2>1. overwritten' = overwritten /\ Existing \subseteq Existing'
    BY <1>2 DEF Moves, Inserts, Existing, IInv, TypeOK
  <2>2. \A a \in Auths : SpentOn(a)' = SpentOn(a)
    BY <1>2, QuietSpends DEF Moves, Inserts
  <2> QED
    BY <2>1, <2>2 DEF Bookkept
<1>3. ASSUME NEW r \in Requests, NEW to, NEW answer, Commits(r, to, answer)
      PROVE  Bookkept'
  <2>1. Written(r, auth[r], to)
    BY <1>3, CommitWrites
  <2>2. PICK a \in Auths : Written(r, a, to)
    <3>1. auth[r] \in Auths
      BY <2>1 DEF Written
    <3> QED
      BY <2>1, <3>1, Zenon
  <2>3. /\ \A b \in Auths : status[b] # "none" => status'[b] # "none"
        /\ status'[a] # "none"
    BY <2>2 DEF Written, AuthorizationStatus
  <2>4. overwritten' \subseteq Auths
    BY <1>3, <2>1 DEF Commits, CommitStatus, IInv, TypeOK, Written
  <2>5. overwritten' \subseteq Existing'
    BY <2>2, <2>3, <2>4 DEF Bookkept, Existing, Written
  <2>6. ASSUME NEW b \in Auths
        PROVE  IsFiniteSet(SpentOn(b)')
    <3>1. SpentOn(b)' = SpentOn(b) \/ SpentOn(b)' = SpentOn(b) \cup {r}
      <4>1. CASE b # a
        BY <2>2, <4>1 DEF Written
      <4>2. CASE b = a /\ to = "CONSUMED"
        BY <2>2, <4>2 DEF Written
      <4>3. CASE b = a /\ to # "CONSUMED"
        BY <2>2, <4>3 DEF Written
      <4> QED
        BY <4>1, <4>2, <4>3
    <3> QED
      BY <3>1, FS_AddElement DEF Bookkept
  <2> QED
    BY <2>5, <2>6 DEF Bookkept
<1> QED
  BY <1>1, <1>2, <1>3, StepKinds
     DEF Next, Tick, vars, rowVars, sessionVars, lossVars

\* What each step means for a permit.
PhaseOf == [a \in Auths |-> Phase(a)]
SpendsOf == [a \in Auths |-> Spends(a)]

LEMMA SpendsFacts ==
  ASSUME Bookkept, Bookkept', NEW r \in Requests, NEW a \in Auths
  PROVE  /\ Spends(a) \in Nat
         /\ SpentOn(a)' = SpentOn(a) => Spends(a)' = Spends(a)
         /\ r \notin SpentOn(a) /\ SpentOn(a)' = SpentOn(a) \cup {r}
              => Spends(a)' = Spends(a) + 1
<1>1. Spends(a) = Cardinality(SpentOn(a)) /\ Spends(a)' = Cardinality(SpentOn(a)')
  BY DEF Spends, SpentOn
<1>2. IsFiniteSet(SpentOn(a))
  BY DEF Bookkept
<1> QED
  BY <1>1, <1>2, FS_AddElement, FS_CardinalityType

LEMMA InsertGrants ==
  ASSUME IInv, Bookkept, Bookkept', NEW r \in Requests, NEW a \in Auths,
         Inserts(r, a)
  PROVE  Abstract!Grant(a)
<1>1. a \notin overwritten
  BY DEF Bookkept, Existing, Inserts
<1>2. Phase(a) = "none" /\ Phase(a)' = "open"
  BY <1>1 DEF Inserts, Phase, IInv, TypeOK
<1>3. \A b \in Auths \ {a} : Phase(b)' = Phase(b)
  BY DEF Inserts, Phase, IInv, TypeOK
<1>4. \A b \in Auths : Spends(b)' = Spends(b)
  BY QuietSpends, SpendsFacts DEF Inserts
<1> QED
  BY <1>2, <1>3, <1>4 DEF Abstract!Grant, Abstract!Become

\* A commit that loses no update takes the permit a step of its life; one that
\* does leaves it contested.
LEMMA CommitSteps ==
  ASSUME Bookkept, Bookkept', NEW r \in Requests, NEW to,
         NEW a \in Auths, Written(r, a, to)
  PROVE  \/ Abstract!Spend(a) \/ Abstract!Withdraw(a)
         \/ Abstract!Lapse(a) \/ Abstract!Contest(a)
         \/ UNCHANGED <<PhaseOf, SpendsOf>>
<1>1. /\ status[a] \in AuthorizationStatus /\ status'[a] = to
      /\ to \in AuthorizationStatus \ {"PENDING", "ISSUED"}
      /\ a \in overwritten => a \in overwritten'
      /\ a \notin overwritten' => <<status[a], to>> \in Legal
  BY DEF Written
<1>2. \A b \in Auths \ {a} : Phase(b)' = Phase(b)
  <2> SUFFICES ASSUME NEW b \in Auths \ {a}
               PROVE  Phase(b)' = Phase(b)
    OBVIOUS
  <2>1. status'[b] = status[b] /\ (b \in overwritten' <=> b \in overwritten)
    BY DEF Written
  <2> QED
    BY <2>1 DEF Phase
<1>3. \A b \in Auths \ {a} : Spends(b)' = Spends(b)
  BY SpendsFacts DEF Written
<1>4. /\ Spends(a) \in Nat
      /\ Spends(a)' = IF to = "CONSUMED" THEN Spends(a) + 1 ELSE Spends(a)
  BY SpendsFacts DEF Written
<1>5. CASE a \in overwritten'
  <2>1. Phase(a)' = "contested" /\ Phase(a) \in Abstract!Phases \ {"none"}
    BY <1>1, <1>5 DEF Phase, Abstract!Phases, AuthorizationStatus
  <2>2. PICK more \in {0, 1} : Spends(a)' = Spends(a) + more
    BY <1>4
  <2>3. [b \in Auths |-> Spends(b)]'
          = [[b \in Auths |-> Spends(b)] EXCEPT ![a] = @ + more]
    BY <1>3, <2>2
  <2>4. [b \in Auths |-> Phase(b)]'
          = [[b \in Auths |-> Phase(b)] EXCEPT ![a] = "contested"]
    BY <1>2, <2>1
  <2> QED
    BY <2>1, <2>3, <2>4 DEF Abstract!Contest, Abstract!Become
<1>6. CASE a \notin overwritten'
  <2>1. a \notin overwritten /\ <<status[a], to>> \in Legal
    BY <1>1, <1>6
  <2>2. CASE to = "CONSUMED"
    <3>1. status[a] \in {"ISSUED", "ACTIVE", "AUTHORIZED"}
      BY <2>1, <2>2 DEF Legal, AuthorizationTransitions
    <3>2. Phase(a) = "open" /\ Phase(a)' = "spent"
      BY <1>1, <1>6, <2>1, <2>2, <3>1 DEF Phase
    <3>3. Spends(a)' = Spends(a) + 1
      BY <1>4, <2>2
    <3> QED
      BY <1>2, <1>3, <3>2, <3>3 DEF Abstract!Spend, Abstract!Become
  <2>3. CASE to = "REVOKED"
    <3>1. status[a] \notin {"CONSUMED", "REVOKED", "none"}
      BY <1>1, <2>1, <2>3 DEF Legal, AuthorizationTransitions, AuthorizationStatus
    <3>2. Phase(a) \in {"open", "lapsed"} /\ Phase(a)' = "withdrawn"
      BY <1>1, <1>6, <2>1, <2>3, <3>1 DEF Phase
    <3>3. Spends(a)' = Spends(a)
      BY <1>4, <2>3
    <3> QED
      BY <1>2, <1>3, <3>2, <3>3 DEF Abstract!Withdraw, Abstract!Become
  <2>4. CASE to = "EXPIRED"
    <3>1. status[a] \in {"ISSUED", "ACTIVE", "AUTHORIZED"}
      BY <2>1, <2>4 DEF Legal, AuthorizationTransitions
    <3>2. Phase(a) = "open" /\ Phase(a)' = "lapsed"
      BY <1>1, <1>6, <2>1, <2>4, <3>1 DEF Phase
    <3>3. Spends(a)' = Spends(a)
      BY <1>4, <2>4
    <3> QED
      BY <1>2, <1>3, <3>2, <3>3 DEF Abstract!Lapse, Abstract!Become
  <2>5. CASE to \in {"ACTIVE", "AUTHORIZED"}
    <3>1. status[a] \in {"ISSUED", "PENDING"}
      BY <2>1, <2>5 DEF Legal, AuthorizationTransitions
    <3>2. Phase(a)' = Phase(a)
      BY <1>1, <1>6, <2>1, <2>5, <3>1 DEF Phase
    <3>3. Spends(a)' = Spends(a)
      BY <1>4, <2>5
    <3> QED
      BY <1>2, <1>3, <3>2, <3>3 DEF PhaseOf, SpendsOf
  <2> QED
    BY <1>1, <2>2, <2>3, <2>4, <2>5 DEF AuthorizationStatus
<1> QED
  BY <1>5, <1>6

LEMMA StepImplements ==
  ASSUME IInv, Bookkept, Bookkept', [Next]_vars
  PROVE  [Abstract!PermitNext]_(Abstract!permitVars)
<1>1. ASSUME UNCHANGED <<PhaseOf, SpendsOf>>
      PROVE  UNCHANGED Abstract!permitVars
  BY <1>1 DEF PhaseOf, SpendsOf, Abstract!permitVars
<1>2. ASSUME NEW r \in Requests, Moves(r)
      PROVE  UNCHANGED Abstract!permitVars
  <2>1. \A a \in Auths : Phase(a)' = Phase(a) /\ Spends(a)' = Spends(a)
    BY <1>2, QuietSpends, SpendsFacts DEF Moves, Phase
  <2> QED
    BY <1>1, <2>1 DEF PhaseOf, SpendsOf
<1>3. ASSUME NEW r \in Requests, NEW a \in Auths, Inserts(r, a)
      PROVE  Abstract!PermitNext
  BY <1>3, InsertGrants DEF Abstract!PermitNext
<1>4. ASSUME NEW r \in Requests, NEW to, NEW answer, Commits(r, to, answer)
      PROVE  [Abstract!PermitNext]_(Abstract!permitVars)
  <2>1. Written(r, auth[r], to)
    BY <1>4, CommitWrites
  <2>2. PICK a \in Auths : Written(r, a, to)
    <3>1. auth[r] \in Auths
      BY <2>1 DEF Written
    <3> QED
      BY <2>1, <3>1, Zenon
  <2> QED
    BY <1>1, <2>2, CommitSteps DEF Abstract!PermitNext
<1>5. ASSUME UNCHANGED <<status, overwritten, pc, call, auth>>
      PROVE  UNCHANGED Abstract!permitVars
  BY <1>5 DEF Abstract!permitVars, Phase, Spends, Spent
<1> QED
  BY <1>2, <1>3, <1>4, <1>5, StepKinds
     DEF Next, Tick, vars, rowVars, sessionVars, lossVars

\* Refinement: the sessions implement the permit that the authorization is to
\* its holders, step by step.
THEOREM Refinement == Spec => ImplementsPermit
<1>1. Init => Bookkept /\ Abstract!PermitInit
  <2> SUFFICES ASSUME Init
               PROVE  Bookkept /\ Abstract!PermitInit
    OBVIOUS
  <2>1. \A a \in Auths : SpentOn(a) = {}
    BY DEF Init, SpentOn, Spent
  <2>2. \A a \in Auths : Phase(a) = "none" /\ Spends(a) = 0
    BY <2>1, FS_EmptySet DEF Init, Phase, Spends, SpentOn
  <2>3. Bookkept
    BY <2>1, FS_EmptySet DEF Init, Bookkept
  <2> QED
    BY <2>2, <2>3 DEF Abstract!PermitInit
<1> QED
  BY <1>1, Invariance, BookkeptNext, StepImplements, PTL
     DEF Spec, ImplementsPermit, Abstract!PermitSpec
=============================================================================
