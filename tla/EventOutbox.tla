---------------------------- MODULE EventOutbox ----------------------------
(***************************************************************************)
(* The transactional outbox of integration events: publication, dispatch   *)
(* to the portal channels with retries and dead-lettering, and the         *)
(* deduplicating consumer.  Models integration/event_publisher,            *)
(* integration/dispatcher, EventDeliveryRepository.list_deliverable and    *)
(* integration/consumer.                                                   *)
(*                                                                         *)
(* A dispatching worker lists the deliverable rows, and dispatches one     *)
(* after the other: it calls the channel's adapter and commits the         *)
(* outcome.  The first row is used as the list query loaded it; every      *)
(* commit expires the session's rows, so each further one is loaded again  *)
(* and _is_due looks at its status and its gate, not at its attempts.      *)
(* Other workers may load and commit the same row meanwhile, and a worker  *)
(* may die before its commit.  The session writes the columns it changed:  *)
(* a status equal to the one it loaded, or a next_retry_at that was and    *)
(* stays null, is not written.                                             *)
(*                                                                         *)
(* The portal looks the event id up, runs its handler and marks the id, in *)
(* three steps without a lock.  It works for one delivery on the time of   *)
(* the worker that sent it.                                                *)
(*                                                                         *)
(* Two variables are history, read by properties only: "raced" (the rows   *)
(* on which a worker committed although another had committed since it     *)
(* loaded them) and "loose" (the events of which two deliveries were past  *)
(* the portal's lookup at once, or one ended between handler and mark).    *)
(***************************************************************************)
EXTENDS Integers, FiniteSets

CONSTANTS
  Calls,         \* calls of publish
  Events,        \* deterministic event ids
  Channels,      \* portal channels
  Workers,       \* dispatching threads
  MaxAttempts,   \* max_attempts of every delivery
  MaxRetries,    \* bound on manual retries
  MaxCrashes,    \* bound on workers dying before they are done
  None           \* absent value

ASSUME NoneAssumption == None \notin Events \cup (Calls \X Channels)
ASSUME BoundsAssumption ==
  MaxAttempts \in Nat \ {0} /\ MaxRetries \in Nat /\ MaxCrashes \in Nat

VARIABLES
  \* calls of publish
  publisher,     \* how far the call is
  event,         \* the event it publishes
  \* the event_deliveries table; a row is named by its call and channel
  status, attempts,
  gated,         \* the rows whose next_retry_at lies in the future
  \* the dispatching workers
  pc,
  listed,        \* the rows of its list it has not come to yet
  row,           \* the row the worker has loaded
  had,           \* the status it loaded
  tried,         \* the attempts it loaded, plus this one
  current,       \* history: no one has committed the row since the load
  retries, crashes,
  \* the portals
  seen,          \* the events a channel's consumer has marked as processed
  handled,       \* how often the handler ran for an event on a channel, up to
                 \* twice
  raced, loose   \* history

publishVars == <<publisher, event>>
rowVars == <<status, attempts, gated>>
loadVars == <<row, had, tried, current>>
workerVars == <<pc, listed, loadVars>>
portalVars == <<seen, handled, loose>>
vars == <<publishVars, rowVars, workerVars, retries, crashes, portalVars, raced>>

Rows == Calls \X Channels

DeliveryStatus == {"PENDING", "FAILED", "DELIVERED", "DEAD_LETTER"}

Settled == {"DELIVERED", "DEAD_LETTER"}

Init ==
  /\ publisher = [c \in Calls |-> "new"]
  /\ event = [c \in Calls |-> None]
  /\ status = [x \in Rows |-> "none"]
  /\ attempts = [x \in Rows |-> 0]
  /\ gated = {}
  /\ pc = [w \in Workers |-> "idle"]
  /\ listed = [w \in Workers |-> {}]
  /\ row = [w \in Workers |-> None]
  /\ had = [w \in Workers |-> "PENDING"]
  /\ tried = [w \in Workers |-> 0]
  /\ current = [w \in Workers |-> TRUE]
  /\ retries = 0
  /\ crashes = 0
  /\ seen = {}
  /\ handled = [e \in Events \X Channels |-> 0]
  /\ raced = {}
  /\ loose = {}

-----------------------------------------------------------------------------
(* Publication *)

Published(v) == \E c \in Calls : publisher[c] = "published" /\ event[c] = v

\* A repeated event id returns the event already published, and leaves nothing
\* behind.
PublishCheck(c, v) ==
  /\ publisher[c] = "new"
  /\ ~ Published(v)
  /\ publisher' = [publisher EXCEPT ![c] = "checked"]
  /\ event' = [event EXCEPT ![c] = v]
  /\ UNCHANGED <<rowVars, workerVars, retries, crashes, portalVars, raced>>

\* The event and one delivery per channel are inserted in one transaction.
PublishCommit(c) ==
  /\ publisher[c] = "checked"
  /\ publisher' = [publisher EXCEPT ![c] = "published"]
  /\ status' = [x \in Rows |-> IF x[1] = c THEN "PENDING" ELSE status[x]]
  /\ UNCHANGED <<event, attempts, gated, workerVars, retries, crashes,
                 portalVars, raced>>

\* emit_safe swallows any failure: nothing is left of the call, whose name is
\* free for another.
PublishFail(c) ==
  /\ publisher[c] = "checked"
  /\ publisher' = [publisher EXCEPT ![c] = "new"]
  /\ event' = [event EXCEPT ![c] = None]
  /\ UNCHANGED <<rowVars, workerVars, retries, crashes, portalVars, raced>>

-----------------------------------------------------------------------------
(* Dispatch *)

\* What the delivery of a row sends: an event, on a channel.
Sent(x) == <<event[x[1]], x[2]>>

Load(w, x) ==
  /\ pc' = [pc EXCEPT ![w] = "loaded"]
  /\ row' = [row EXCEPT ![w] = x]
  /\ had' = [had EXCEPT ![w] = status[x]]
  /\ tried' = [tried EXCEPT ![w] = attempts[x] + 1]
  /\ current' = [current EXCEPT ![w] = TRUE]

IsDue(x) == status[x] = "PENDING" \/ (status[x] = "FAILED" /\ x \notin gated)

\* Mutant of Deliverable: the query has no budget, and returns DELIVERED rows.
Redeliverable(x) == status[x] \in {"PENDING", "FAILED", "DELIVERED"}

\* What list_deliverable returns.
Deliverable(x) == attempts[x] < MaxAttempts /\ IsDue(x)

\* The list may be cut by a channel or a limit; its first row is taken as the
\* query loaded it.
List(w, x) ==
  /\ pc[w] = "idle"
  /\ Deliverable(x)
  /\ Load(w, x)
  /\ \E others \in SUBSET {y \in Rows \ {x} : Deliverable(y)} :
       listed' = [listed EXCEPT ![w] = others]
  /\ UNCHANGED <<publishVars, rowVars, retries, crashes, portalVars, raced>>

\* The next row, loaded again after the commit of the one before.
Take(w, x) ==
  /\ pc[w] = "sweeping" /\ x \in listed[w]
  /\ IsDue(x)
  /\ Load(w, x)
  /\ listed' = [listed EXCEPT ![w] = @ \ {x}]
  /\ UNCHANGED <<publishVars, rowVars, retries, crashes, portalVars, raced>>

\* It is settled by now, or its gate lies after the time of the list.
Skip(w, x) ==
  /\ pc[w] = "sweeping" /\ x \in listed[w]
  /\ status[x] # "PENDING"
  /\ listed' = [listed EXCEPT ![w] = @ \ {x}]
  /\ pc' = [pc EXCEPT ![w] = IF listed[w] = {x} THEN "idle" ELSE "sweeping"]
  /\ UNCHANGED <<publishVars, rowVars, loadVars, retries, crashes, portalVars,
                 raced>>

\* retry_delivery ignores the gate and the budget.
Retry(w, x) ==
  /\ pc[w] = "idle"
  /\ status[x] \in {"PENDING", "FAILED", "DEAD_LETTER"}
  /\ retries < MaxRetries
  /\ Load(w, x)
  /\ retries' = retries + 1
  /\ UNCHANGED <<publishVars, rowVars, listed, crashes, portalVars, raced>>

Goto(w, label) ==
  /\ pc' = [pc EXCEPT ![w] = label]
  /\ UNCHANGED <<publishVars, rowVars, listed, loadVars, retries, crashes, raced>>

\* The adapter returns or raises, whatever the portal has done.
Answer(w) == \E answer \in {"accepted", "refused"} : Goto(w, answer)

\* The portal's consumer is past its lookup for a delivery of the event.
Serves(w, e) == pc[w] \in {"unseen", "handled"} /\ Sent(row[w]) = e

\* Nothing reaches the portal.
Unreached(w) ==
  /\ pc[w] = "loaded"
  /\ Goto(w, "refused")
  /\ UNCHANGED portalVars

\* Mutant of Lookup: the event id is not looked up.
LookupNothing(w) ==
  /\ pc[w] = "loaded"
  /\ Goto(w, "unseen")
  /\ loose' = IF \E u \in Workers : Serves(u, Sent(row[w]))
              THEN loose \cup {Sent(row[w])} ELSE loose
  /\ UNCHANGED <<seen, handled>>

\* already_processed: what has been seen is answered without the handler.
Lookup(w) ==
  LET e == Sent(row[w]) IN
  /\ pc[w] = "loaded"
  /\ \/ e \in seen /\ Answer(w) /\ UNCHANGED loose
     \/ /\ e \notin seen
        /\ Goto(w, "unseen")
        /\ loose' = IF \E u \in Workers : Serves(u, e) THEN loose \cup {e}
                    ELSE loose
  /\ UNCHANGED <<seen, handled>>

Handle(w) ==
  /\ pc[w] = "unseen"
  /\ handled' = [handled EXCEPT ![Sent(row[w])] = IF @ = 2 THEN 2 ELSE @ + 1]
  /\ Goto(w, "handled")
  /\ UNCHANGED <<seen, loose>>

\* mark_processed; the answer may still be lost.
Mark(w) ==
  /\ pc[w] = "handled"
  /\ seen' = seen \cup {Sent(row[w])}
  /\ Answer(w)
  /\ UNCHANGED <<handled, loose>>

\* What a delivery leaves behind that ends where it is.
BreakOff(w) ==
  loose' = IF pc[w] = "handled" THEN loose \cup {Sent(row[w])} ELSE loose

\* The handler raises, or the portal stops before the mark.
PortalFails(w) ==
  /\ pc[w] \in {"unseen", "handled"}
  /\ Goto(w, "refused")
  /\ BreakOff(w)
  /\ UNCHANGED <<seen, handled>>

Portal(w) == Lookup(w) \/ Handle(w) \/ Mark(w)

\* The session writes what it has changed and is done with the row.
Save(w, new) ==
  LET x == row[w] IN
  /\ status' = IF new = had[w] THEN status ELSE [status EXCEPT ![x] = new]
  /\ attempts' = [attempts EXCEPT ![x] = tried[w]]
  /\ gated' = IF new = "FAILED" THEN gated \cup {x}
              ELSE IF had[w] = "FAILED" THEN gated \ {x} ELSE gated
  /\ raced' = IF current[w] THEN raced ELSE raced \cup {x}
  /\ current' = [u \in Workers |-> IF u # w /\ row[u] = x THEN FALSE
                                  ELSE IF u = w THEN TRUE ELSE current[u]]
  /\ pc' = [pc EXCEPT ![w] = IF listed[w] = {} THEN "idle" ELSE "sweeping"]
  /\ row' = [row EXCEPT ![w] = None]
  /\ had' = [had EXCEPT ![w] = "PENDING"]
  /\ tried' = [tried EXCEPT ![w] = 0]
  /\ UNCHANGED <<publishVars, listed, retries, crashes, portalVars>>

SaveAccepted(w) == pc[w] = "accepted" /\ Save(w, "DELIVERED")

\* Mutant of SaveRefused: the budget is never compared.
SaveRefusedForever(w) == pc[w] = "refused" /\ Save(w, "FAILED")

SaveRefused(w) ==
  /\ pc[w] = "refused"
  /\ Save(w, IF tried[w] >= MaxAttempts THEN "DEAD_LETTER" ELSE "FAILED")

\* The process dies before the commit: the row stays as it was, and the rest of
\* the list is dropped.
Crash(w) ==
  /\ pc[w] # "idle"
  /\ crashes < MaxCrashes
  /\ crashes' = crashes + 1
  /\ pc' = [pc EXCEPT ![w] = "idle"]
  /\ listed' = [listed EXCEPT ![w] = {}]
  /\ row' = [row EXCEPT ![w] = None]
  /\ had' = [had EXCEPT ![w] = "PENDING"]
  /\ tried' = [tried EXCEPT ![w] = 0]
  /\ current' = [current EXCEPT ![w] = TRUE]
  /\ BreakOff(w)
  /\ UNCHANGED <<publishVars, rowVars, retries, seen, handled, raced>>

\* The clock reaches next_retry_at.
Elapse(x) ==
  /\ x \in gated
  /\ gated' = gated \ {x}
  /\ UNCHANGED <<publishVars, status, attempts, workerVars, retries, crashes,
                 portalVars, raced>>

Publish(c) ==
  \/ \E v \in Events : PublishCheck(c, v)
  \/ PublishCommit(c)
  \/ PublishFail(c)

Finish(w) ==
  \/ Unreached(w) \/ Portal(w) \/ PortalFails(w)
  \/ SaveAccepted(w) \/ SaveRefused(w)
  \/ \E x \in Rows : Take(w, x) \/ Skip(w, x)

Next ==
  \/ \E c \in Calls : Publish(c)
  \/ \E w \in Workers, x \in Rows : List(w, x) \/ Retry(w, x)
  \/ \E w \in Workers : Finish(w) \/ Crash(w)
  \/ \E x \in Rows : Elapse(x)

Spec == Init /\ [][Next]_vars

\* The row comes up in a sweep.
Sweep(x) == \E w \in Workers : \/ List(w, x)
                               \/ \E y \in Rows \ {x} : List(w, y) /\ x \in listed'[w]

\* Requests that have begun run to their end, the clock goes on, and whoever
\* operates the dispatch endpoint keeps sweeping: a row that is due again and
\* again is listed in the end.  Nothing is assumed of publishers, of manual
\* retries, or of what the adapters answer.
Fairness ==
  /\ \A w \in Workers : WF_vars(Finish(w))
  /\ \A x \in Rows : WF_vars(Elapse(x))
  /\ \A x \in Rows : SF_vars(Sweep(x))

FairSpec == Spec /\ Fairness

-----------------------------------------------------------------------------
(* Properties *)

\* The attempts of a row exceed its budget by manual retries and by as many
\* attempts besides: a retry of a dead letter may leave a row that racing workers
\* have made FAILED, and a sweep that listed it before does not look at its
\* attempts again.
MostAttempts == MaxAttempts + 2 * MaxRetries

TypeOK ==
  /\ publisher \in [Calls -> {"new", "checked", "published"}]
  /\ event \in [Calls -> Events \cup {None}]
  /\ status \in [Rows -> DeliveryStatus \cup {"none"}]
  /\ attempts \in [Rows -> 0 .. MostAttempts]
  /\ gated \subseteq Rows
  /\ pc \in [Workers -> {"idle", "sweeping", "loaded", "unseen", "handled",
                         "accepted", "refused"}]
  /\ listed \in [Workers -> SUBSET Rows]
  /\ row \in [Workers -> Rows \cup {None}]
  /\ had \in [Workers -> DeliveryStatus \ {"DELIVERED"}]
  /\ tried \in [Workers -> 0 .. MostAttempts]
  /\ current \in [Workers -> BOOLEAN]
  /\ retries \in 0 .. MaxRetries
  /\ crashes \in 0 .. MaxCrashes
  /\ seen \subseteq Events \X Channels
  /\ handled \in [Events \X Channels -> 0 .. 2]
  /\ raced \subseteq Rows
  /\ loose \subseteq Events \X Channels

\* What is DELIVERED has been handled by its portal, although rows are delivered
\* again after crashes, lost answers and manual retries and racing publishers
\* insert the same event twice; and an event is handled once, unless two of its
\* deliveries overlapped at the portal or one ended between handler and mark.
HandledOnceUnlessLoose ==
  /\ \A x \in Rows : status[x] = "DELIVERED" => handled[Sent(x)] >= 1
  /\ \A e \in (Events \X Channels) \ loose : handled[e] <= 1

\* A delivery is FAILED while it has attempts left and DEAD_LETTER when it has
\* none, unless workers raced on the row.
BudgetUnlessRaced ==
  \A x \in Rows \ raced :
    /\ status[x] = "FAILED" => attempts[x] \in 1 .. MaxAttempts - 1
    /\ status[x] = "DEAD_LETTER" => attempts[x] >= MaxAttempts

\* FAILED with no attempts left: no sweep lists the row and nothing dead-letters
\* it, only a manual retry gets it out.
Stranded(x) == status[x] = "FAILED" /\ attempts[x] >= MaxAttempts

\* As long as sweeps go on there is always a later time when all deliveries are
\* delivered or dead-lettered, even when workers race and die; but a retry of a
\* dead letter that raced with another worker may strand the row.
EventuallySettled ==
  []<>(\A x \in Rows :
         \/ status[x] \in Settled \cup {"none"}
         \/ x \in raced /\ Stranded(x))
=============================================================================
