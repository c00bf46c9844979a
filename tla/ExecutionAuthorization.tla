---------------------- MODULE ExecutionAuthorization ----------------------
(***************************************************************************)
(* The signed execution authorization: the gate between an APPROVED        *)
(* decision and an external execution system.  Models                      *)
(* authorization_service (issue, verify, consume, revoke),                 *)
(* monitoring/authorization_invalidation (invalidate) and the older        *)
(* create/transition pair of governance_service.                           *)
(*                                                                         *)
(* Every handler is a request of its own database session: it reads the    *)
(* row into its session, decides from that copy, and commits.  There is no *)
(* row lock, no version column and no unique constraint, so the rows may   *)
(* change between a request's read and its commit.  A request is served    *)
(* once: repeated calls are several requests.                              *)
(*                                                                         *)
(* Four variables are history, read by properties only: "fresh" (no one    *)
(* has written the row since this request read it), "overwritten" (the     *)
(* rows on which some commit lost another session's update), "began" (when *)
(* a verify or consume read its row) and "overtaken" (the keys of which a  *)
(* row was committed after one stamped later).                             *)
(***************************************************************************)
EXTENDS Integers, Sequences, FiniteSets

CONSTANTS
  Requests,      \* calls to the authorization endpoints, each in a session
  Auths,         \* row identifiers (uuid4)
  Decisions,     \* rows of the decisions table
  Approved,      \* the decisions whose outcome is APPROVED
  Keys,          \* idempotency keys clients supply
  None,          \* absent value
  MaxTime        \* bound on the clock

ASSUME ApprovedAssumption == Approved \subseteq Decisions
ASSUME NoneAssumption == None \notin Auths \cup Decisions \cup Keys
ASSUME TimeAssumption == MaxTime \in Nat

AuthorizationStatus ==
  {"ISSUED", "ACTIVE", "CONSUMED", "EXPIRED", "REVOKED", "PENDING", "AUTHORIZED"}

LiveStates == {"ISSUED", "ACTIVE"}

TerminalStates == {"CONSUMED", "REVOKED", "EXPIRED"}

\* AUTHORIZATION_TRANSITIONS, as <<from, to>> pairs.
AuthorizationTransitions ==
  ({"ISSUED"} \X {"ACTIVE", "CONSUMED", "REVOKED", "EXPIRED"})
    \cup ({"ACTIVE"} \X {"CONSUMED", "REVOKED", "EXPIRED"})
    \cup ({"PENDING"} \X {"AUTHORIZED", "REVOKED"})
    \cup ({"AUTHORIZED"} \X {"CONSUMED", "REVOKED", "EXPIRED"})

VARIABLES
  \* the execution_authorizations table
  status,        \* "none" for an identifier no row has yet
  terms,         \* the columns bound at insertion
  created,       \* the rows in the order of created_at, committed or not
  \* the requests' sessions
  pc,            \* how far the handler is, then what its caller was told
  call,          \* the operation and its arguments
  auth,          \* the row the session works on
  seen,          \* the status the session has read
  began, fresh,  \* history
  now,           \* utc_now()
  overwritten, overtaken  \* history

rowVars == <<status, terms, created>>
sessionVars == <<pc, call, auth, seen, began, fresh>>
lossVars == <<overwritten, overtaken>>
vars == <<rowVars, sessionVars, now, lossVars>>

\* An expiry of MaxTime + 1 lies beyond the modelled horizon.
Terms == [decision : Decisions \cup {None}, key : Keys \cup {None},
          signed : BOOLEAN, expires : 1 .. MaxTime + 1]

NoTerms == [decision |-> None, key |-> None, signed |-> FALSE, expires |-> 1]

Ops == {"none", "issue", "create", "verify", "consume", "revoke",
        "invalidate", "transition"}

\* want: the status the operation is to write.
Call == [op : Ops, want : AuthorizationStatus, key : Keys \cup {None},
         decision : Decisions \cup {None}]

CallOf(op, want, key, decision) ==
  [op |-> op, want |-> want, key |-> key, decision |-> decision]

\* Operations on an existing row, and what each wants to write.
Writes ==
  {<<"verify", "ACTIVE">>, <<"consume", "CONSUMED">>, <<"revoke", "REVOKED">>,
   <<"invalidate", "EXPIRED">>, <<"invalidate", "REVOKED">>}
    \cup ({"transition"} \X AuthorizationStatus)

Answered == {"ok", "replayed", "rejected"}

Existing == {a \in Auths : status[a] # "none"}

\* Mutant of IsExpired: an authorization lives through its last instant.
IsExpiredAfter(a) == now > terms[a].expires

IsExpired(a) == now >= terms[a].expires

Init ==
  /\ status = [a \in Auths |-> "none"]
  /\ terms = [a \in Auths |-> NoTerms]
  /\ created = << >>
  /\ pc = [r \in Requests |-> "new"]
  /\ call = [r \in Requests |-> CallOf("none", "PENDING", None, None)]
  /\ auth = [r \in Requests |-> None]
  /\ seen = [r \in Requests |-> "PENDING"]
  /\ began = [r \in Requests |-> 0]
  /\ fresh = [r \in Requests |-> TRUE]
  /\ now = 0
  /\ overwritten = {}
  /\ overtaken = {}

\* The handler moves on in its own session; nothing is written.
Goto(r, label) ==
  /\ pc' = [pc EXCEPT ![r] = label]
  /\ UNCHANGED <<rowVars, call, auth, seen, began, fresh, now, lossVars>>

\* A session commits a new status: the UPDATE goes by primary key, whatever
\* the row has become since the session read it.
CommitStatus(r, new, answer) ==
  /\ status' = [status EXCEPT ![auth[r]] = new]
  /\ pc' = [pc EXCEPT ![r] = answer]
  /\ fresh' = [q \in Requests |->
                 IF q # r /\ auth[q] = auth[r] THEN FALSE ELSE fresh[q]]
  /\ overwritten' = IF fresh[r] THEN overwritten
                                ELSE overwritten \cup {auth[r]}
  /\ UNCHANGED <<terms, created, call, auth, seen, began, now, overtaken>>

-----------------------------------------------------------------------------
(* Issue *)

\* The committed rows that carry an idempotency key; get_by_idempotency_key
\* returns the oldest.
WithKey(k) ==
  {i \in 1 .. Len(created) :
     created[i] \in Existing /\ terms[created[i]].key = k}

\* Mutant of IsOldest: the newest row answers.
IsNewest(a, k) ==
  \E i \in WithKey(k) : created[i] = a /\ \A j \in WithKey(k) : i >= j

IsOldest(a, k) ==
  \E i \in WithKey(k) : created[i] = a /\ \A j \in WithKey(k) : i <= j

\* A repeated key returns the original authorization, before the decision is
\* even looked up.
IssueReplay(r, a, k) ==
  /\ pc[r] = "new"
  /\ IsOldest(a, k)
  /\ pc' = [pc EXCEPT ![r] = "replayed"]
  /\ call' = [call EXCEPT ![r] = CallOf("issue", "PENDING", k, None)]
  /\ auth' = [auth EXCEPT ![r] = a]
  /\ UNCHANGED <<rowVars, seen, began, fresh, now, lossVars>>

\* Mutant of IssueCheck: the outcome of the decision is not looked at.
IssueCheckAnyOutcome(r, k, d) ==
  /\ pc[r] = "new"
  /\ k # None => WithKey(k) = {}
  /\ pc' = [pc EXCEPT ![r] = "granted"]
  /\ call' = [call EXCEPT ![r] = CallOf("issue", "PENDING", k, d)]
  /\ UNCHANGED <<rowVars, auth, seen, began, fresh, now, lossVars>>

\* Only an APPROVED decision passes, unless its target has no identifier to
\* bind to; whether the decision is still current is not looked at.
IssueCheck(r, k, d) ==
  /\ pc[r] = "new"
  /\ k # None => WithKey(k) = {}
  /\ \E answer \in {"granted", "rejected"} :
       /\ answer = "granted" => d \in Approved
       /\ pc' = [pc EXCEPT ![r] = answer]
  /\ call' = [call EXCEPT ![r] = CallOf("issue", "PENDING", k, d)]
  /\ UNCHANGED <<rowVars, auth, seen, began, fresh, now, lossVars>>

\* The flush of an INSERT: created_at is a default of the Python process, which
\* stamps it before the row can be seen.
Stamp(r, a, columns) ==
  /\ status[a] = "none"
  /\ \A i \in 1 .. Len(created) : created[i] # a
  /\ terms' = [terms EXCEPT ![a] = columns]
  /\ created' = Append(created, a)
  /\ auth' = [auth EXCEPT ![r] = a]
  /\ UNCHANGED <<seen, began, fresh, now, overwritten>>

\* Mutant of IssueStamp: the lifetime is added twice.
IssueStampTtlTwice(r, a, e) ==
  /\ pc[r] = "granted" /\ call[r].op = "issue"
  /\ Stamp(r, a, [decision |-> call[r].decision, key |-> call[r].key,
                  signed |-> TRUE, expires |-> e + e])
  /\ pc' = [pc EXCEPT ![r] = "stamped"]
  /\ UNCHANGED <<status, call, overtaken>>

IssueStamp(r, a, e) ==
  /\ pc[r] = "granted" /\ call[r].op = "issue"
  /\ Stamp(r, a, [decision |-> call[r].decision, key |-> call[r].key,
                  signed |-> TRUE, expires |-> e])
  /\ pc' = [pc EXCEPT ![r] = "stamped"]
  /\ UNCHANGED <<status, call, overtaken>>

\* A row with the same key that was stamped later is there already.
IsOvertaken(a, k) ==
  /\ k # None
  /\ \E i \in 1 .. Len(created) : created[i] = a /\ \E j \in WithKey(k) : i < j

\* The commit lets others see the row.
IssueCommit(r) ==
  /\ pc[r] = "stamped"
  /\ status' = [status EXCEPT ![auth[r]] = "ISSUED"]
  /\ pc' = [pc EXCEPT ![r] = "ok"]
  /\ overtaken' = IF IsOvertaken(auth[r], call[r].key)
                  THEN overtaken \cup {call[r].key} ELSE overtaken
  /\ UNCHANGED <<terms, created, call, auth, seen, began, fresh, now,
                 overwritten>>

\* governance_service.create_authorization: any existing decision will do.  The
\* row has no key, so when it is stamped is no matter.
CreateLegacy(r, a, d, e) ==
  /\ pc[r] = "new"
  /\ Stamp(r, a, [decision |-> d, key |-> None, signed |-> FALSE, expires |-> e])
  /\ status' = [status EXCEPT ![a] = "AUTHORIZED"]
  /\ pc' = [pc EXCEPT ![r] = "ok"]
  /\ call' = [call EXCEPT ![r] = CallOf("create", "PENDING", None, d)]
  /\ UNCHANGED overtaken

-----------------------------------------------------------------------------
(* Operations on an existing row *)

Read(r, a, w) ==
  /\ pc[r] = "new"
  /\ a \in Existing
  /\ pc' = [pc EXCEPT ![r] = "read"]
  /\ call' = [call EXCEPT ![r] = CallOf(w[1], w[2], None, None)]
  /\ auth' = [auth EXCEPT ![r] = a]
  /\ seen' = [seen EXCEPT ![r] = status[a]]
  /\ began' = [began EXCEPT ![r] = IF w[1] \in {"verify", "consume"}
                                   THEN now ELSE @]
  /\ UNCHANGED <<rowVars, fresh, now, lossVars>>

\* _expire_if_needed writes EXPIRED; every later check then rejects, because
\* the clock does not go back.
ExpireOnRead(r) ==
  /\ pc[r] = "read" /\ call[r].op \in {"verify", "consume"}
  /\ seen[r] \in LiveStates /\ IsExpired(auth[r])
  /\ CommitStatus(r, "EXPIRED", "rejected")

PassExpiry(r) ==
  /\ pc[r] = "read" /\ call[r].op \in {"verify", "consume"}
  /\ ~ (seen[r] \in LiveStates /\ IsExpired(auth[r]))
  /\ Goto(r, "checked")

\* Mutant of Usable: the status is not checked again.
UsableWhateverStatus(r) == ~ IsExpired(auth[r]) /\ terms[auth[r]].signed

\* Hash, signature, lifecycle status and expiry, all from the session's copy
\* (the hash and signature columns never change).
Usable(r) ==
  /\ seen[r] \in LiveStates
  /\ ~ IsExpired(auth[r])
  /\ terms[auth[r]].signed

\* A valid ISSUED authorization is activated, unless the caller passed
\* activate = False; a bound field may differ from the caller's request.
VerifyCheck(r) ==
  /\ pc[r] = "checked" /\ call[r].op = "verify"
  /\ \/ Usable(r) /\ seen[r] = "ISSUED" /\ Goto(r, "granted")
     \/ Usable(r) /\ Goto(r, "ok")
     \/ Goto(r, "rejected")

\* From here on the clock is not looked at again: it may pass the expiry before
\* consumed_at is stamped and the row is saved.
ConsumeCheck(r) ==
  /\ pc[r] = "checked" /\ call[r].op = "consume"
  /\ Goto(r, IF Usable(r) THEN "granted" ELSE "rejected")

\* Mutant of RevokeCheck: a consumed authorization can be revoked.
RevokeCheckConsumed(r) ==
  /\ pc[r] = "read" /\ call[r].op = "revoke"
  /\ Goto(r, IF seen[r] = "REVOKED" THEN "ok" ELSE "granted")

\* Revoking what is already REVOKED succeeds and writes nothing.
RevokeCheck(r) ==
  /\ pc[r] = "read" /\ call[r].op = "revoke"
  /\ \/ seen[r] = "CONSUMED" /\ Goto(r, "rejected")
     \/ seen[r] = "REVOKED" /\ Goto(r, "ok")
     \/ seen[r] \notin {"CONSUMED", "REVOKED"} /\ Goto(r, "granted")

\* Mutant of InvalidateCheck: a terminal authorization is invalidated too.
InvalidateCheckAny(r) ==
  /\ pc[r] = "read" /\ call[r].op = "invalidate"
  /\ Goto(r, "granted")

InvalidateCheck(r) ==
  /\ pc[r] = "read" /\ call[r].op = "invalidate"
  /\ Goto(r, IF seen[r] \in TerminalStates THEN "rejected" ELSE "granted")

TransitionCheck(r) ==
  /\ pc[r] = "read" /\ call[r].op = "transition"
  /\ Goto(r, IF <<seen[r], call[r].want>> \in AuthorizationTransitions
             THEN "granted" ELSE "rejected")

Commit(r) ==
  /\ pc[r] = "granted" /\ call[r].op # "issue"
  /\ CommitStatus(r, call[r].want, "ok")

Tick ==
  /\ now < MaxTime
  /\ now' = now + 1
  /\ UNCHANGED <<rowVars, sessionVars, lossVars>>

Serve(r) ==
  \/ \E a \in Auths, k \in Keys : IssueReplay(r, a, k)
  \/ \E k \in Keys \cup {None}, d \in Decisions : IssueCheck(r, k, d)
  \/ \E a \in Auths, e \in 1 .. MaxTime + 1 : IssueStamp(r, a, e)
  \/ IssueCommit(r)
  \/ \E a \in Auths, d \in Decisions, e \in 1 .. MaxTime + 1 :
       CreateLegacy(r, a, d, e)
  \/ \E a \in Auths, w \in Writes : Read(r, a, w)
  \/ ExpireOnRead(r)
  \/ PassExpiry(r)
  \/ VerifyCheck(r)
  \/ ConsumeCheck(r)
  \/ RevokeCheck(r)
  \/ InvalidateCheck(r)
  \/ TransitionCheck(r)
  \/ Commit(r)

Next == Tick \/ \E r \in Requests : Serve(r)

Spec == Init /\ [][Next]_vars

-----------------------------------------------------------------------------
(* Properties *)

TypeOK ==
  /\ status \in [Auths -> AuthorizationStatus \cup {"none"}]
  /\ terms \in [Auths -> Terms]
  /\ created \in Seq(Auths)
  /\ pc \in [Requests ->
               {"new", "read", "checked", "granted", "stamped"} \cup Answered]
  /\ call \in [Requests -> Call]
  /\ auth \in [Requests -> Auths \cup {None}]
  /\ seen \in [Requests -> AuthorizationStatus]
  /\ began \in [Requests -> 0 .. MaxTime]
  /\ fresh \in [Requests -> BOOLEAN]
  /\ now \in 0 .. MaxTime
  /\ overwritten \subseteq Auths
  /\ overtaken \subseteq Keys

\* The caller was told that the authorization is now spent, or revoked.
Spent(r) == pc[r] = "ok" /\ call[r].want = "CONSUMED"
Revoked(r) == pc[r] = "ok" /\ call[r].want = "REVOKED"

\* An authorization is spent at most once (consume or a transition to
\* CONSUMED), unless some session committed over a row that another had
\* written since it was read: every double spend goes through a lost update.
SingleUseUnlessOverwritten ==
  \A r, q \in Requests :
    Spent(r) /\ Spent(q) /\ auth[r] = auth[q]
      => r = q \/ auth[r] \in overwritten

\* No caller is told that an authorization was revoked while another is told
\* that it was spent, unless an update was lost: revoke refuses CONSUMED rows
\* and consume refuses REVOKED ones, in whichever order the calls arrive.
SpentOrRevokedUnlessOverwritten ==
  \A r, q \in Requests :
    Spent(r) /\ Revoked(q) /\ auth[r] = auth[q] => auth[r] \in overwritten

\* A verify or consume that reads its row at or past the expiry is refused, even
\* when a stale verify has made the EXPIRED row ACTIVE again.  A consume that
\* began in time may still commit, and stamp consumed_at, after the expiry: the
\* clock is read once more after the check.
RefusedFromExpiryOn ==
  \A r \in Requests :
    call[r].op \in {"verify", "consume"} /\ pc[r] = "ok"
      => began[r] < terms[auth[r]].expires

\* What consume accepts was issued and signed for an APPROVED decision,
\* although create_authorization also writes rows for any other decision and
\* racing sessions may rewrite every status.
ConsumedOnlyIfApproved ==
  \A r \in Requests :
    call[r].op = "consume" /\ Spent(r)
      => terms[auth[r]].signed /\ terms[auth[r]].decision \in Approved

\* Every call answered from an idempotency key returns one and the same
\* authorization, even after racing calls have inserted several rows with it,
\* unless a row with the key was committed after one stamped later: then the
\* calls before and after that commit are answered differently.
ReplaysAgreeUnlessOvertaken ==
  \A r, q \in Requests :
    /\ pc[r] = "replayed" /\ pc[q] = "replayed"
    /\ call[r].key = call[q].key
    => auth[r] = auth[q] \/ call[r].key \in overtaken

\* "issuing with a repeated idempotency_key returns the original authorization
\* instead of minting a new one" (authorization_service.py:14).
OriginalReturned ==
  /\ \A a, b \in Existing :
       terms[a].key = terms[b].key /\ terms[a].key # None => a = b
  /\ \A r \in Requests :
       pc[r] = "replayed" =>
         auth[r] \in Existing /\ terms[auth[r]].key = call[r].key

\* Unless the step loses an update, a status moves only along
\* AUTHORIZATION_TRANSITIONS, or from EXPIRED to REVOKED: authorization_service
\* does not consult that table, and revoke lets EXPIRED rows through.
LifecycleUnlessOverwritten ==
  [][\A a \in Existing \ overwritten' :
       status'[a] # status[a]
         => <<status[a], status'[a]>>
              \in AuthorizationTransitions \cup {<<"EXPIRED", "REVOKED">>}]_vars

\* "One-time-use authorizations carry a random nonce and can only be consumed
\* once" (authorization_service.py:12).
ConsumedOnce ==
  \A r, q \in Requests :
    Spent(r) /\ Spent(q) /\ auth[r] = auth[q] => r = q

\* The phase in which its holders see an authorization, and how many callers
\* were told that they have spent it.
Phase(a) ==
  IF a \in overwritten THEN "contested"
  ELSE IF status[a] = "CONSUMED" THEN "spent"
  ELSE IF status[a] = "REVOKED" THEN "withdrawn"
  ELSE IF status[a] = "EXPIRED" THEN "lapsed"
  ELSE IF status[a] = "none" THEN "none" ELSE "open"

Spends(a) == Cardinality({r \in Requests : Spent(r) /\ auth[r] = a})

Abstract == INSTANCE Permit WITH
  Permits <- Auths,
  phase <- [a \in Auths |-> Phase(a)],
  spends <- [a \in Auths |-> Spends(a)]

\* However many sessions read, check and commit, an authorization is a permit:
\* its holders see it granted, then spent once, withdrawn or lapsed, and each
\* answer "spent" comes with the step that spends it, until an update is lost.
ImplementsPermit == Abstract!PermitSpec
=============================================================================
