------------------------- MODULE EventOutbox_proofs -------------------------
(***************************************************************************)
(* Proofs about EventOutbox, for any number of publishers, events,         *)
(* channels and workers, and any budget of attempts, retries and crashes.  *)
(*                                                                         *)
(* The inductive invariant ties what a worker holds of its row to the      *)
(* table (a row that is held has been published with its event, a copy no  *)
(* one has overtaken agrees with the row), and what the portal remembers   *)
(* to what it has done: on an event that is not loose one delivery at most *)
(* is past the lookup, and what has been handled is marked or about to be. *)
(***************************************************************************)
EXTENDS EventOutbox, TLAPS

\* A row there is belongs to a published event, whose id no longer changes.
RowsPublished ==
  /\ \A c \in Calls :
       publisher[c] \in {"checked", "published"} => event[c] \in Events
  /\ \A x \in Rows : status[x] # "none" => publisher[x[1]] = "published"

\* Every manual retry allows two attempts beyond the budget, and an open row has
\* one of them left.
AttemptsBounded ==
  /\ \A x \in Rows :
       /\ attempts[x] <= MaxAttempts + 2 * retries
       /\ status[x] \notin Settled => attempts[x] < MaxAttempts + 2 * retries
  /\ \A w \in Workers :
       /\ tried[w] <= MaxAttempts + 2 * retries
       /\ had[w] = "DEAD_LETTER" => tried[w] < MaxAttempts + 2 * retries

Between == {"idle", "sweeping"}

\* A busy worker holds a row there is, and agrees with it while it is current.
HoldsRow(w) ==
  pc[w] \notin Between =>
    /\ row[w] \in Rows /\ status[row[w]] # "none"
    /\ tried[w] >= 1
    /\ current[w] => had[w] = status[row[w]]

WorkersSound == \A w \in Workers : HoldsRow(w)

Entries == Events \X Channels

\* Of an event that is not loose one delivery at most is past the lookup, and
\* none once it has been marked.
PortalSound ==
  \A e \in Entries \ loose :
    /\ \A u, w \in Workers : Serves(u, e) /\ Serves(w, e) => u = w
    /\ \A w \in Workers : Serves(w, e) => e \notin seen
    /\ handled[e] <= 1
    /\ handled[e] = 1 =>
         \/ e \in seen
         \/ \E w \in Workers : pc[w] = "handled" /\ Sent(row[w]) = e

\* The portal's handler has run for what a row sends.
Handled(x) == handled[Sent(x)] >= 1

HandledSound ==
  /\ \A e \in seen : handled[e] >= 1
  /\ \A w \in Workers : pc[w] \in {"handled", "accepted"} => Handled(row[w])
  /\ \A x \in Rows : status[x] = "DELIVERED" => Handled(x)

TableInv ==
  /\ RowsPublished
  /\ AttemptsBounded
  /\ WorkersSound
  /\ BudgetUnlessRaced

IInv ==
  /\ TypeOK
  /\ TableInv
  /\ PortalSound
  /\ HandledSound

LEMMA InitInv == Init => IInv
<1> SUFFICES ASSUME Init PROVE IInv
  OBVIOUS
<1>1. TypeOK
  BY NoneAssumption, BoundsAssumption
     DEF Init, TypeOK, DeliveryStatus, MostAttempts
<1>2. TableInv
  BY NoneAssumption, BoundsAssumption
     DEF Init, TableInv, RowsPublished, AttemptsBounded, WorkersSound,
         HoldsRow, Between, BudgetUnlessRaced, Settled
<1>3. PortalSound /\ HandledSound
  BY DEF Init, PortalSound, HandledSound, Serves, Entries
<1> QED
  BY <1>1, <1>2, <1>3 DEF IInv

\* The event of a row that is there, and the entry of the portal it goes to.
LEMMA RowFacts ==
  ASSUME IInv, NEW x \in Rows
  PROVE  /\ x[1] \in Calls /\ x[2] \in Channels
         /\ status[x] # "none" => /\ publisher[x[1]] = "published"
                                  /\ Sent(x) \in Entries
BY DEF IInv, TableInv, TypeOK, RowsPublished, Rows, Sent, Entries

LEMMA BusyFacts ==
  ASSUME IInv, NEW w \in Workers, pc[w] \notin Between
  PROVE  /\ row[w] \in Rows /\ status[row[w]] # "none"
         /\ Sent(row[w]) \in Entries
BY RowFacts DEF IInv, TableInv, WorkersSound, HoldsRow

\* A step in which no handler runs and nothing is marked leaves the portal
\* sound, if a delivery that ends between handler and mark makes its event
\* loose, and what is accepted, or DELIVERED, has been handled.
LEMMA PortalKept ==
  ASSUME IInv, UNCHANGED <<seen, handled>>, loose \subseteq loose',
         \A u \in Workers :
           \/ /\ pc'[u] \notin {"unseen", "handled", "accepted"}
              /\ pc[u] = "handled" => Sent(row[u]) \in loose'
           \/ /\ pc'[u] = "accepted" /\ pc[u] # "handled"
              /\ Sent(row[u])' = Sent(row[u]) /\ Handled(row[u])
           \/ /\ pc'[u] = pc[u]
              /\ pc[u] \in {"unseen", "handled", "accepted"}
              /\ Sent(row[u])' = Sent(row[u]),
         \A x \in Rows : status'[x] = "DELIVERED" =>
           Sent(x)' = Sent(x) /\ Handled(x)
  PROVE  PortalSound' /\ HandledSound'
<1>1. \A u \in Workers, e \in Entries : Serves(u, e)' => Serves(u, e)
  BY DEF Serves
<1>2. \A u \in Workers, e \in Entries \ loose' :
        pc[u] = "handled" /\ Sent(row[u]) = e
          => pc'[u] = "handled" /\ Sent(row[u])' = e
  OBVIOUS
<1>3. PortalSound'
  <2> SUFFICES ASSUME NEW e \in Entries \ loose'
               PROVE  /\ \A u, w \in Workers :
                           Serves(u, e)' /\ Serves(w, e)' => u = w
                      /\ \A w \in Workers : Serves(w, e)' => e \notin seen'
                      /\ handled'[e] <= 1
                      /\ handled'[e] = 1 =>
                           \/ e \in seen'
                           \/ \E w \in Workers : pc'[w] = "handled" /\ Sent(row[w])' = e
    BY DEF PortalSound, Entries, Serves, Sent
  <2>1. e \in Entries \ loose
    OBVIOUS
  <2> QED
    BY <1>1, <1>2, <2>1 DEF IInv, PortalSound
<1>4. HandledSound'
  <2>1. \A e \in seen' : handled'[e] >= 1
    BY DEF IInv, HandledSound
  <2>2. \A w \in Workers : pc'[w] \in {"handled", "accepted"} => Handled(row[w])'
    BY DEF IInv, HandledSound, Handled, Sent
  <2>3. \A x \in Rows : status'[x] = "DELIVERED" => Handled(x)'
    BY DEF Handled, Sent
  <2> QED
    BY <2>1, <2>2, <2>3 DEF HandledSound, Handled, Sent
<1> QED
  BY <1>3, <1>4

\* What a step must leave alone for the portal's part to hold trivially.
LEMMA PortalUntouched ==
  ASSUME IInv, UNCHANGED <<seen, handled, loose>>,
         \A u \in Workers :
           \/ pc'[u] = pc[u]
           \/ pc'[u] \notin {"unseen", "handled", "accepted"} /\ pc[u] # "handled",
         \A u \in Workers : pc[u] \in {"unseen", "handled", "accepted"}
           /\ pc'[u] = pc[u] => row'[u] = row[u],
         \A x \in Rows : /\ status[x] # "none" => Sent(x)' = Sent(x)
                         /\ status'[x] = "DELIVERED" => status[x] = "DELIVERED"
  PROVE  PortalSound' /\ HandledSound'
<1>1. \A u \in Workers : pc[u] \in {"unseen", "handled", "accepted"}
         /\ pc'[u] = pc[u] => Sent(row[u])' = Sent(row[u])
  BY BusyFacts DEF Between, Sent
<1>2. \A x \in Rows : status'[x] = "DELIVERED" => Sent(x)' = Sent(x) /\ Handled(x)
  BY DEF IInv, HandledSound
<1> QED
  BY <1>1, <1>2, PortalKept

-----------------------------------------------------------------------------
(* Publication *)

LEMMA PublishCheckInv ==
  ASSUME IInv, NEW c \in Calls, NEW v \in Events, PublishCheck(c, v)
  PROVE  IInv'
<1> USE DEF PublishCheck, rowVars, workerVars, loadVars, portalVars
<1>1. TypeOK'
  BY DEF IInv, TypeOK
<1>2. /\ event'[c] = v
      /\ \A d \in Calls \ {c} : event'[d] = event[d] /\ publisher'[d] = publisher[d]
      /\ publisher[c] = "new"
  BY DEF IInv, TypeOK
<1>3. \A x \in Rows : status[x] # "none" => /\ x[1] # c
                                            /\ Sent(x)' = Sent(x)
                                            /\ publisher'[x[1]] = "published"
  BY <1>2, RowFacts DEF Sent
<1>4. RowsPublished'
  BY <1>2, <1>3 DEF IInv, TableInv, TypeOK, RowsPublished
<1>5. AttemptsBounded' /\ WorkersSound' /\ BudgetUnlessRaced'
  BY DEF IInv, TableInv, AttemptsBounded, WorkersSound, HoldsRow, BudgetUnlessRaced
<1>6. PortalSound' /\ HandledSound'
  BY <1>3, PortalUntouched
<1> QED
  BY <1>1, <1>4, <1>5, <1>6 DEF IInv, TableInv

LEMMA PublishCommitInv ==
  ASSUME IInv, NEW c \in Calls, PublishCommit(c)
  PROVE  IInv'
<1> USE DEF PublishCommit, workerVars, loadVars, portalVars
<1>1. TypeOK'
  BY DEF IInv, TypeOK, DeliveryStatus
<1>2. /\ publisher[c] = "checked" /\ publisher'[c] = "published"
      /\ \A d \in Calls \ {c} : publisher'[d] = publisher[d]
  BY DEF IInv, TypeOK
<1>3. \A x \in Rows : /\ x[1] = c => status[x] = "none" /\ status'[x] = "PENDING"
                      /\ x[1] # c => status'[x] = status[x]
  BY <1>2, RowFacts
<1>4. RowsPublished'
  <2>1. \A d \in Calls :
          publisher'[d] \in {"checked", "published"} => event'[d] \in Events
    BY <1>2 DEF IInv, TableInv, RowsPublished
  <2>2. \A x \in Rows : status'[x] # "none" => publisher'[x[1]] = "published"
    BY <1>2, <1>3, RowFacts
  <2> QED
    BY <2>1, <2>2 DEF RowsPublished
<1>5. WorkersSound'
  BY <1>3 DEF IInv, TableInv, WorkersSound, HoldsRow
<1>6. \A x \in Rows : \/ status'[x] = status[x]
                      \/ status[x] = "none" /\ status'[x] = "PENDING"
  BY <1>3
<1>7. BudgetUnlessRaced'
  BY <1>6 DEF IInv, TableInv, BudgetUnlessRaced
<1>8. AttemptsBounded'
  BY <1>6 DEF IInv, TableInv, AttemptsBounded, Settled
<1>9. PortalSound' /\ HandledSound'
  BY <1>6, PortalUntouched DEF Sent
<1> QED
  BY <1>1, <1>4, <1>5, <1>7, <1>8, <1>9 DEF IInv, TableInv

LEMMA PublishFailInv ==
  ASSUME IInv, NEW c \in Calls, PublishFail(c)
  PROVE  IInv'
<1> USE DEF PublishFail, rowVars, workerVars, loadVars, portalVars
<1>1. TypeOK'
  BY DEF IInv, TypeOK
<1>2. /\ publisher[c] = "checked" /\ publisher'[c] = "new"
      /\ \A d \in Calls \ {c} : event'[d] = event[d] /\ publisher'[d] = publisher[d]
  BY DEF IInv, TypeOK
<1>3. \A x \in Rows : status[x] # "none" => /\ x[1] # c
                                            /\ Sent(x)' = Sent(x)
                                            /\ publisher'[x[1]] = "published"
  BY <1>2, RowFacts DEF Sent
<1>4. RowsPublished'
  BY <1>2, <1>3 DEF IInv, TableInv, TypeOK, RowsPublished
<1>5. AttemptsBounded' /\ WorkersSound' /\ BudgetUnlessRaced'
  BY DEF IInv, TableInv, AttemptsBounded, WorkersSound, HoldsRow, BudgetUnlessRaced
<1>6. PortalSound' /\ HandledSound'
  BY <1>3, PortalUntouched
<1> QED
  BY <1>1, <1>4, <1>5, <1>6 DEF IInv, TableInv

-----------------------------------------------------------------------------
(* Dispatch *)

\* Loading a row that may be dispatched, by a sweep or a manual retry, within
\* what is allowed after the step.
LEMMA LoadInv ==
  ASSUME IInv, NEW w \in Workers, pc[w] \in Between, NEW x \in Rows, Load(w, x),
         status[x] \in DeliveryStatus \ {"DELIVERED"},
         UNCHANGED <<publishVars, rowVars, crashes, portalVars, raced>>,
         listed' \in [Workers -> SUBSET Rows],
         retries' \in 0 .. MaxRetries, retries <= retries',
         attempts[x] < MaxAttempts + 2 * retries',
         status[x] = "DEAD_LETTER" => attempts[x] + 1 < MaxAttempts + 2 * retries'
  PROVE  IInv'
<1> USE DEF Load, publishVars, rowVars, portalVars
<1>1. /\ pc'[w] = "loaded" /\ row'[w] = x /\ had'[w] = status[x]
      /\ tried'[w] = attempts[x] + 1
      /\ \A u \in Workers \ {w} :
           /\ pc'[u] = pc[u] /\ row'[u] = row[u] /\ had'[u] = had[u]
           /\ tried'[u] = tried[u] /\ current'[u] = current[u]
  BY DEF IInv, TypeOK
<1>2. attempts[x] + 1 \in 0 .. MostAttempts
  BY BoundsAssumption DEF IInv, TypeOK, MostAttempts
<1>3. TypeOK'
  BY <1>2 DEF IInv, TypeOK, Between
<1>4. RowsPublished' /\ BudgetUnlessRaced'
  BY DEF IInv, TableInv, RowsPublished, BudgetUnlessRaced
<1>5. AttemptsBounded'
  <2>1. \A y \in Rows : /\ attempts'[y] = attempts[y] /\ attempts[y] \in Nat
                        /\ status'[y] = status[y]
    BY BoundsAssumption DEF IInv, TypeOK, MostAttempts
  <2>2. \A u \in Workers : tried[u] \in Nat
    BY BoundsAssumption DEF IInv, TypeOK, MostAttempts
  <2>3. retries \in Nat /\ retries' \in Nat /\ MaxAttempts \in Nat
    BY BoundsAssumption DEF IInv, TypeOK
  <2> QED
    BY <1>1, <2>1, <2>2, <2>3 DEF IInv, TableInv, AttemptsBounded
<1>6. WorkersSound'
  BY <1>1, BoundsAssumption
     DEF IInv, TableInv, TypeOK, WorkersSound, HoldsRow, DeliveryStatus, MostAttempts
<1>7. PortalSound' /\ HandledSound'
  BY <1>1, PortalUntouched DEF Between, Sent
<1> QED
  BY <1>3, <1>4, <1>5, <1>6, <1>7 DEF IInv, TableInv

\* The budget that is left of a row that is due.
LEMMA DueFacts ==
  ASSUME IInv, NEW x \in Rows
  PROVE  /\ attempts[x] \in Nat /\ retries \in Nat /\ MaxAttempts \in Nat
         /\ retries \in 0 .. MaxRetries
         /\ attempts[x] <= MaxAttempts + 2 * retries
         /\ IsDue(x) => /\ status[x] \in DeliveryStatus \ {"DELIVERED", "DEAD_LETTER"}
                        /\ attempts[x] < MaxAttempts + 2 * retries
BY BoundsAssumption
   DEF IInv, TableInv, TypeOK, AttemptsBounded, IsDue, Settled, DeliveryStatus,
       MostAttempts

LEMMA ListInv ==
  ASSUME IInv, NEW w \in Workers, NEW x \in Rows, List(w, x)
  PROVE  IInv'
<1>1. listed' \in [Workers -> SUBSET Rows]
  BY DEF List, IInv, TypeOK
<1>2. IsDue(x) /\ pc[w] \in Between /\ Load(w, x) /\ retries' = retries
        /\ UNCHANGED <<publishVars, rowVars, crashes, portalVars, raced>>
  BY DEF List, Deliverable, Between
<1> QED
  BY <1>1, <1>2, DueFacts, LoadInv

LEMMA TakeInv ==
  ASSUME IInv, NEW w \in Workers, NEW x \in Rows, Take(w, x)
  PROVE  IInv'
<1>1. listed' \in [Workers -> SUBSET Rows]
  BY DEF Take, IInv, TypeOK
<1>2. IsDue(x) /\ pc[w] \in Between /\ Load(w, x) /\ retries' = retries
        /\ UNCHANGED <<publishVars, rowVars, crashes, portalVars, raced>>
  BY DEF Take, Between
<1> QED
  BY <1>1, <1>2, DueFacts, LoadInv

LEMMA RetryInv ==
  ASSUME IInv, NEW w \in Workers, NEW x \in Rows, Retry(w, x)
  PROVE  IInv'
<1>1. /\ listed' \in [Workers -> SUBSET Rows] /\ pc[w] \in Between
      /\ Load(w, x)
      /\ UNCHANGED <<publishVars, rowVars, crashes, portalVars, raced>>
      /\ status[x] \in DeliveryStatus \ {"DELIVERED"}
  BY DEF Retry, IInv, TypeOK, Between, DeliveryStatus
<1>2. retries' \in 0 .. MaxRetries /\ retries' = retries + 1
  BY BoundsAssumption DEF Retry, IInv, TypeOK
<1>3. attempts[x] + 1 < MaxAttempts + 2 * retries'
  BY <1>2, DueFacts
<1> QED
  BY <1>1, <1>2, <1>3, DueFacts, LoadInv

LEMMA SkipInv ==
  ASSUME IInv, NEW w \in Workers, NEW x \in Rows, Skip(w, x)
  PROVE  IInv'
<1> USE DEF Skip, publishVars, rowVars, loadVars, portalVars
<1>1. /\ pc'[w] \in Between /\ pc[w] \in Between
      /\ \A u \in Workers \ {w} : pc'[u] = pc[u]
  BY DEF IInv, TypeOK, Between
<1>2. TypeOK'
  BY DEF IInv, TypeOK
<1>3. TableInv'
  BY <1>1 DEF IInv, TableInv, RowsPublished, AttemptsBounded, WorkersSound,
              HoldsRow, BudgetUnlessRaced
<1>4. PortalSound' /\ HandledSound'
  BY <1>1, PortalUntouched DEF Between, Sent
<1> QED
  BY <1>2, <1>3, <1>4 DEF IInv

-----------------------------------------------------------------------------
(* The portal *)

\* A worker that moves on with its row leaves the tables as they are.
LEMMA GotoInv ==
  ASSUME IInv, NEW w \in Workers, pc[w] \notin Between,
         NEW label \in {"unseen", "handled", "accepted", "refused"},
         Goto(w, label),
         seen' \subseteq Entries, loose' \subseteq Entries,
         handled' \in [Entries -> 0 .. 2]
  PROVE  /\ TypeOK' /\ TableInv'
         /\ pc'[w] = label /\ \A u \in Workers \ {w} : pc'[u] = pc[u]
         /\ \A x : Sent(x)' = Sent(x)
         /\ \A u \in Workers : Sent(row[u])' = Sent(row[u])
         /\ status' = status /\ row' = row
<1> USE DEF Goto, publishVars, rowVars, loadVars
<1>1. TypeOK'
  BY DEF IInv, TypeOK, Entries
<1>2. pc'[w] = label /\ \A u \in Workers \ {w} : pc'[u] = pc[u]
  BY DEF IInv, TypeOK
<1>3. TableInv'
  BY <1>2 DEF IInv, TableInv, RowsPublished, AttemptsBounded, WorkersSound,
              HoldsRow, BudgetUnlessRaced
<1> QED
  BY <1>1, <1>2, <1>3 DEF Sent

LEMMA UnreachedInv ==
  ASSUME IInv, NEW w \in Workers, Unreached(w)
  PROVE  IInv'
<1>1. /\ pc[w] = "loaded" /\ Goto(w, "refused") /\ UNCHANGED portalVars
      /\ UNCHANGED <<seen, handled, loose>>
  BY DEF Unreached, portalVars
<1>2. seen \subseteq Entries /\ loose \subseteq Entries
        /\ handled \in [Entries -> 0 .. 2]
  BY DEF IInv, TypeOK, Entries
<1>3. /\ TypeOK' /\ TableInv' /\ pc'[w] = "refused"
      /\ \A u \in Workers \ {w} : pc'[u] = pc[u]
      /\ \A x : Sent(x)' = Sent(x)
      /\ status' = status /\ row' = row
  BY <1>1, <1>2, GotoInv DEF Between
<1>4. PortalSound' /\ HandledSound'
  BY <1>1, <1>3, PortalUntouched
<1> QED
  BY <1>3, <1>4 DEF IInv

LEMMA LookupInv ==
  ASSUME IInv, NEW w \in Workers, Lookup(w)
  PROVE  IInv'
<1> DEFINE e == Sent(row[w])
<1>1. e \in Entries /\ pc[w] = "loaded" /\ UNCHANGED <<seen, handled>>
  BY BusyFacts DEF Lookup, Between
<1>2. seen \subseteq Entries /\ loose \subseteq Entries
        /\ handled \in [Entries -> 0 .. 2]
  BY DEF IInv, TypeOK, Entries
<1>3. CASE e \in seen
  <2>1. PICK answer \in {"accepted", "refused"} : Goto(w, answer)
    BY <1>3 DEF Lookup, Answer
  <2>2. loose' = loose
    BY <1>3 DEF Lookup
  <2>3. /\ TypeOK' /\ TableInv' /\ pc'[w] = answer
        /\ \A u \in Workers \ {w} : pc'[u] = pc[u]
        /\ \A x : Sent(x)' = Sent(x)
        /\ \A u \in Workers : Sent(row[u])' = Sent(row[u])
        /\ status' = status /\ row' = row
    BY <1>1, <1>2, <2>1, <2>2, GotoInv DEF Between
  <2>4. Handled(row[w])
    BY <1>3 DEF IInv, HandledSound, Handled
  <2>5. \A x \in Rows : status'[x] = "DELIVERED" => Handled(x)
    BY <2>3 DEF IInv, HandledSound
  <2>6. \A u \in Workers :
           \/ /\ pc'[u] \notin {"unseen", "handled", "accepted"}
              /\ pc[u] = "handled" => Sent(row[u]) \in loose'
           \/ /\ pc'[u] = "accepted" /\ pc[u] # "handled"
              /\ Sent(row[u])' = Sent(row[u]) /\ Handled(row[u])
           \/ /\ pc'[u] = pc[u]
              /\ pc[u] \in {"unseen", "handled", "accepted"}
              /\ Sent(row[u])' = Sent(row[u])
    BY <1>1, <2>1, <2>3, <2>4
  <2>7. PortalSound' /\ HandledSound'
    BY <1>1, <2>2, <2>3, <2>5, <2>6, PortalKept
  <2> QED
    BY <2>3, <2>7 DEF IInv
<1>4. CASE e \notin seen
  <2>1. /\ Goto(w, "unseen")
        /\ loose' = IF \E u \in Workers : Serves(u, e) THEN loose \cup {e}
                    ELSE loose
    BY <1>4 DEF Lookup
  <2> HIDE DEF e
  <2>2. loose' \subseteq Entries /\ loose \subseteq loose'
    BY <1>1, <1>2, <2>1
  <2>3. /\ TypeOK' /\ TableInv' /\ pc'[w] = "unseen"
        /\ \A u \in Workers \ {w} : pc'[u] = pc[u]
        /\ \A x : Sent(x)' = Sent(x)
        /\ \A u \in Workers : Sent(row[u])' = Sent(row[u])
        /\ status' = status /\ row' = row
    BY <1>1, <1>2, <2>1, <2>2, GotoInv DEF Between
  <2>4. \A u \in Workers, f \in Entries :
          Serves(u, f)' <=> Serves(u, f) \/ (u = w /\ f = e)
    BY <1>1, <2>3 DEF Serves, e
  <2>5. ASSUME NEW f \in Entries \ loose'
        PROVE  /\ \A u, v \in Workers : Serves(u, f)' /\ Serves(v, f)' => u = v
               /\ \A v \in Workers : Serves(v, f)' => f \notin seen'
               /\ handled'[f] <= 1
               /\ handled'[f] = 1 =>
                    \/ f \in seen'
                    \/ \E v \in Workers : pc'[v] = "handled" /\ Sent(row[v])' = f
    <3>1. f \notin loose /\ (f = e => \A u \in Workers : ~ Serves(u, f))
      BY <2>1, <2>2, <2>5
    <3>2. \A v \in Workers : pc[v] = "handled" /\ Sent(row[v]) = f
                               => pc'[v] = "handled" /\ Sent(row[v])' = f
      BY <1>1, <2>3
    <3> QED
      BY <1>1, <1>4, <2>4, <3>1, <3>2 DEF IInv, PortalSound
  <2>6. PortalSound'
    BY <2>5 DEF PortalSound, Entries, Serves, Sent
  <2>7. HandledSound'
    BY <1>1, <2>3 DEF IInv, HandledSound, Handled, Sent
  <2> QED
    BY <2>3, <2>6, <2>7 DEF IInv
<1> QED
  BY <1>3, <1>4

LEMMA HandleInv ==
  ASSUME IInv, NEW w \in Workers, Handle(w)
  PROVE  IInv'
<1> DEFINE e == Sent(row[w])
<1>1. /\ e \in Entries /\ pc[w] = "unseen" /\ Goto(w, "handled")
      /\ UNCHANGED <<seen, loose>>
      /\ handled' = [handled EXCEPT ![e] = IF @ = 2 THEN 2 ELSE @ + 1]
  BY BusyFacts DEF Handle, Between
<1>2. seen \subseteq Entries /\ loose \subseteq Entries
        /\ handled \in [Entries -> 0 .. 2]
  BY DEF IInv, TypeOK, Entries
<1> HIDE DEF e
<1>3. /\ handled' \in [Entries -> 0 .. 2] /\ handled'[e] >= 1
      /\ handled[e] = 0 => handled'[e] = 1
      /\ \A f \in Entries \ {e} : handled'[f] = handled[f]
  BY <1>1, <1>2
<1>4. /\ TypeOK' /\ TableInv' /\ pc'[w] = "handled"
      /\ \A u \in Workers \ {w} : pc'[u] = pc[u]
      /\ \A x : Sent(x)' = Sent(x)
      /\ \A u \in Workers : Sent(row[u])' = Sent(row[u])
      /\ status' = status /\ row' = row
  BY <1>1, <1>2, <1>3, GotoInv DEF Between
<1>5. \A u \in Workers, f \in Entries : Serves(u, f)' <=> Serves(u, f)
  BY <1>1, <1>4 DEF Serves
<1>6. Serves(w, e)
  BY <1>1 DEF Serves, e
<1>7. ASSUME NEW f \in Entries \ loose'
      PROVE  /\ \A u, v \in Workers : Serves(u, f)' /\ Serves(v, f)' => u = v
             /\ \A v \in Workers : Serves(v, f)' => f \notin seen'
             /\ handled'[f] <= 1
             /\ handled'[f] = 1 =>
                  \/ f \in seen'
                  \/ \E v \in Workers : pc'[v] = "handled" /\ Sent(row[v])' = f
  <2>1. /\ \A u, v \in Workers : Serves(u, f) /\ Serves(v, f) => u = v
        /\ \A v \in Workers : Serves(v, f) => f \notin seen
        /\ handled[f] <= 1
        /\ handled[f] = 1 =>
             \/ f \in seen
             \/ \E v \in Workers : pc[v] = "handled" /\ Sent(row[v]) = f
    BY <1>1 DEF IInv, PortalSound
  <2>2. CASE f = e
    <3>1. \A v \in Workers : pc[v] = "handled" /\ Sent(row[v]) = f => v = w
      BY <1>6, <2>1, <2>2 DEF Serves
    <3>2. handled[f] = 0
      BY <1>1, <1>2, <1>6, <2>1, <2>2, <3>1
    <3>3. handled'[f] = 1 /\ pc'[w] = "handled" /\ Sent(row[w])' = f
      BY <1>3, <1>4, <2>2, <3>2 DEF e
    <3> QED
      BY <1>1, <1>5, <2>1, <3>3
  <2>3. CASE f # e
    <3>1. handled'[f] = handled[f]
      BY <1>3, <2>3
    <3>2. \A v \in Workers : pc[v] = "handled" /\ Sent(row[v]) = f
                               => pc'[v] = "handled" /\ Sent(row[v])' = f
      BY <1>1, <1>4
    <3> QED
      BY <1>1, <1>5, <2>1, <3>1, <3>2
  <2> QED
    BY <2>2, <2>3
<1>8. PortalSound'
  BY <1>7 DEF PortalSound, Entries, Serves, Sent
<1>9. \A f \in Entries : handled[f] >= 1 => handled'[f] >= 1
  BY <1>3
<1>10. HandledSound'
  <2>1. \A f \in seen' : handled'[f] >= 1
    BY <1>1, <1>2, <1>9 DEF IInv, HandledSound
  <2>2. ASSUME NEW u \in Workers, pc'[u] \in {"handled", "accepted"}
        PROVE  handled'[Sent(row[u])'] >= 1
    <3>1. CASE u = w
      BY <1>3, <1>4, <3>1 DEF e
    <3>2. CASE u # w
      <4>1. Sent(row[u]) \in Entries /\ Handled(row[u])
        BY <1>4, <2>2, <3>2, BusyFacts DEF IInv, HandledSound, Between
      <4> QED
        BY <1>4, <1>9, <4>1 DEF Handled
    <3> QED
      BY <3>1, <3>2
  <2>3. ASSUME NEW x \in Rows, status'[x] = "DELIVERED"
        PROVE  handled'[Sent(x)'] >= 1
    <3>1. Sent(x) \in Entries /\ Handled(x)
      BY <1>4, <2>3, RowFacts DEF IInv, HandledSound
    <3> QED
      BY <1>4, <1>9, <3>1 DEF Handled
  <2> QED
    BY <2>1, <2>2, <2>3 DEF HandledSound, Handled, Sent
<1> QED
  BY <1>4, <1>8, <1>10 DEF IInv

LEMMA MarkInv ==
  ASSUME IInv, NEW w \in Workers, Mark(w)
  PROVE  IInv'
<1> DEFINE e == Sent(row[w])
<1>1. /\ e \in Entries /\ pc[w] = "handled"
      /\ UNCHANGED <<handled, loose>> /\ seen' = seen \cup {e}
  BY BusyFacts DEF Mark, Between
<1>2. PICK answer \in {"accepted", "refused"} : Goto(w, answer)
  BY DEF Mark, Answer
<1>3. seen' \subseteq Entries /\ loose \subseteq Entries
        /\ handled \in [Entries -> 0 .. 2]
  BY <1>1 DEF IInv, TypeOK, Entries
<1> HIDE DEF e
<1>4. /\ TypeOK' /\ TableInv' /\ pc'[w] = answer
      /\ \A u \in Workers \ {w} : pc'[u] = pc[u]
      /\ \A x : Sent(x)' = Sent(x)
      /\ \A u \in Workers : Sent(row[u])' = Sent(row[u])
      /\ status' = status /\ row' = row
  BY <1>1, <1>2, <1>3, GotoInv DEF Between
<1>5. handled[e] >= 1
  BY <1>1 DEF IInv, HandledSound, Handled, e
<1>6. ASSUME NEW f \in Entries \ loose'
      PROVE  /\ \A u, v \in Workers : Serves(u, f)' /\ Serves(v, f)' => u = v
             /\ \A v \in Workers : Serves(v, f)' => f \notin seen'
             /\ handled'[f] <= 1
             /\ handled'[f] = 1 =>
                  \/ f \in seen'
                  \/ \E v \in Workers : pc'[v] = "handled" /\ Sent(row[v])' = f
  <2>1. /\ \A u, v \in Workers : Serves(u, f) /\ Serves(v, f) => u = v
        /\ \A v \in Workers : Serves(v, f) => f \notin seen
        /\ handled[f] <= 1
        /\ handled[f] = 1 =>
             \/ f \in seen
             \/ \E v \in Workers : pc[v] = "handled" /\ Sent(row[v]) = f
    BY <1>1 DEF IInv, PortalSound
  <2>2. \A u \in Workers : Serves(u, f)' => Serves(u, f) /\ u # w
    BY <1>4 DEF Serves
  <2>3. Serves(w, e)
    BY <1>1 DEF Serves, e
  <2>4. \A v \in Workers : pc[v] = "handled" /\ Sent(row[v]) = f /\ f # e
                             => pc'[v] = "handled" /\ Sent(row[v])' = f
    BY <1>4 DEF e
  <2> QED
    BY <1>1, <2>1, <2>2, <2>3, <2>4
<1>7. PortalSound'
  BY <1>6 DEF PortalSound, Entries, Serves, Sent
<1>8. HandledSound'
  BY <1>1, <1>4, <1>5 DEF IInv, HandledSound, Handled, Sent
<1> QED
  BY <1>4, <1>7, <1>8 DEF IInv

LEMMA PortalFailsInv ==
  ASSUME IInv, NEW w \in Workers, PortalFails(w)
  PROVE  IInv'
<1>1. /\ pc[w] \in {"unseen", "handled"} /\ Goto(w, "refused")
      /\ UNCHANGED <<seen, handled>>
      /\ loose' = IF pc[w] = "handled" THEN loose \cup {Sent(row[w])} ELSE loose
  BY DEF PortalFails, BreakOff
<1>2. seen \subseteq Entries /\ loose \subseteq Entries
        /\ handled \in [Entries -> 0 .. 2]
  BY DEF IInv, TypeOK, Entries
<1>3. loose' \subseteq Entries /\ loose \subseteq loose'
        /\ (pc[w] = "handled" => Sent(row[w]) \in loose')
  BY <1>1, <1>2, BusyFacts DEF Between
<1>4. /\ TypeOK' /\ TableInv' /\ pc'[w] = "refused"
      /\ \A u \in Workers \ {w} : pc'[u] = pc[u]
      /\ \A x : Sent(x)' = Sent(x)
      /\ \A u \in Workers : Sent(row[u])' = Sent(row[u])
      /\ status' = status /\ row' = row
  BY <1>1, <1>2, <1>3, GotoInv DEF Between
<1>5. \A x \in Rows : status'[x] = "DELIVERED" => Handled(x)
  BY <1>4 DEF IInv, HandledSound
<1>6. PortalSound' /\ HandledSound'
  BY <1>1, <1>3, <1>4, <1>5, PortalKept
<1> QED
  BY <1>4, <1>6 DEF IInv

-----------------------------------------------------------------------------
(* Commits *)

\* What the commit of a worker may write: DELIVERED for a delivery its portal
\* has processed, and otherwise what the attempts it counted call for.
LEMMA SaveInv ==
  ASSUME IInv, NEW w \in Workers, pc[w] \in {"accepted", "refused"},
         NEW to \in {"DELIVERED", "FAILED", "DEAD_LETTER"}, Save(w, to),
         to = "DELIVERED" => Handled(row[w]),
         to = "FAILED" => tried[w] < MaxAttempts,
         to = "DEAD_LETTER" => tried[w] >= MaxAttempts
  PROVE  IInv'
<1> DEFINE x == row[w]
<1>1. /\ x \in Rows /\ x # None /\ status[x] # "none" /\ tried[w] >= 1
      /\ current[w] => had[w] = status[x]
  BY NoneAssumption DEF IInv, TableInv, WorkersSound, HoldsRow, Rows, Between
<1>2. /\ status' = IF to = had[w] THEN status ELSE [status EXCEPT ![x] = to]
      /\ attempts' = [attempts EXCEPT ![x] = tried[w]]
      /\ gated' \subseteq gated \cup {x}
      /\ raced' = IF current[w] THEN raced ELSE raced \cup {x}
      /\ current' = [u \in Workers |-> IF u # w /\ row[u] = x THEN FALSE
                                      ELSE IF u = w THEN TRUE ELSE current[u]]
      /\ UNCHANGED <<publisher, event, listed, retries, crashes, seen, handled,
                     loose>>
  BY DEF Save, publishVars, portalVars
<1>3. /\ pc'[w] \in Between /\ row'[w] = None /\ had'[w] = "PENDING"
      /\ tried'[w] = 0
      /\ \A u \in Workers \ {w} :
           /\ pc'[u] = pc[u] /\ row'[u] = row[u] /\ had'[u] = had[u]
           /\ tried'[u] = tried[u]
  BY DEF Save, IInv, TypeOK, Between
<1>4. /\ pc' \in [Workers -> {"idle", "sweeping", "loaded", "unseen", "handled",
                              "accepted", "refused"}]
      /\ row' \in [Workers -> Rows \cup {None}]
      /\ had' \in [Workers -> DeliveryStatus \ {"DELIVERED"}]
      /\ tried' \in [Workers -> 0 .. MostAttempts]
  BY BoundsAssumption DEF Save, IInv, TypeOK, DeliveryStatus, MostAttempts
<1> HIDE DEF x
<1>5. /\ \A y \in Rows \ {x} : status'[y] = status[y] /\ attempts'[y] = attempts[y]
      /\ attempts'[x] = tried[w]
      /\ status'[x] \in {status[x], to}
      /\ current[w] \/ to # had[w] => status'[x] = to
  BY <1>1, <1>2 DEF IInv, TypeOK
<1>6. TypeOK'
  <2>1. /\ status' \in [Rows -> DeliveryStatus \cup {"none"}]
        /\ attempts' \in [Rows -> 0 .. MostAttempts]
    BY <1>1, <1>2 DEF IInv, TypeOK, DeliveryStatus
  <2>2. gated' \subseteq Rows /\ raced' \subseteq Rows
    BY <1>1, <1>2 DEF IInv, TypeOK
  <2>3. current' \in [Workers -> BOOLEAN]
    BY <1>2 DEF IInv, TypeOK
  <2> QED
    BY <1>2, <1>4, <2>1, <2>2, <2>3 DEF IInv, TypeOK
<1>7. \A y \in Rows : status[y] # "none" <=> status'[y] # "none"
  BY <1>1, <1>5
<1>8. RowsPublished'
  BY <1>2, <1>7 DEF IInv, TableInv, RowsPublished
<1>9. AttemptsBounded'
  <2>1. /\ retries \in Nat /\ MaxAttempts \in Nat \ {0} /\ tried[w] \in Nat
        /\ retries' = retries
    BY <1>2, BoundsAssumption DEF IInv, TypeOK, MostAttempts
  <2>2. tried[w] <= MaxAttempts + 2 * retries
    BY DEF IInv, TableInv, AttemptsBounded
  <2>3. status'[x] \notin Settled => tried[w] < MaxAttempts + 2 * retries
    <3>1. CASE to = "FAILED"
      BY <2>1, <3>1
    <3>2. CASE to = had[w] /\ to # "FAILED"
      BY <3>2 DEF IInv, TypeOK, TableInv, AttemptsBounded
    <3>3. CASE to # had[w] /\ to # "FAILED"
      BY <1>5, <3>3 DEF Settled
    <3> QED
      BY <3>1, <3>2, <3>3
  <2>4. ASSUME NEW y \in Rows
        PROVE  /\ attempts'[y] <= MaxAttempts + 2 * retries'
               /\ status'[y] \notin Settled => attempts'[y] < MaxAttempts + 2 * retries'
    BY <1>5, <2>1, <2>2, <2>3 DEF IInv, TableInv, AttemptsBounded
  <2>5. ASSUME NEW u \in Workers
        PROVE  /\ tried'[u] <= MaxAttempts + 2 * retries'
               /\ had'[u] = "DEAD_LETTER" => tried'[u] < MaxAttempts + 2 * retries'
    BY <1>3, <2>1 DEF IInv, TableInv, AttemptsBounded
  <2> QED
    BY <2>4, <2>5 DEF AttemptsBounded
<1>10. WorkersSound'
  <2> SUFFICES ASSUME NEW u \in Workers, pc'[u] \notin Between
               PROVE  HoldsRow(u)'
    BY DEF WorkersSound, HoldsRow
  <2>1. u # w /\ HoldsRow(u) /\ pc[u] \notin Between
    BY <1>3 DEF IInv, TableInv, WorkersSound
  <2>2. /\ row'[u] = row[u] /\ had'[u] = had[u] /\ tried'[u] = tried[u]
        /\ row[u] \in Rows /\ status'[row[u]] # "none"
    BY <1>3, <1>7, <2>1 DEF HoldsRow
  <2>3. current'[u] => row[u] # x /\ current[u]
    BY <1>2, <2>1
  <2> QED
    BY <1>5, <2>1, <2>2, <2>3 DEF HoldsRow
<1>11. BudgetUnlessRaced'
  <2> SUFFICES ASSUME NEW y \in Rows, y \notin raced'
               PROVE  /\ status'[y] = "FAILED" =>
                           attempts'[y] \in 1 .. MaxAttempts - 1
                      /\ status'[y] = "DEAD_LETTER" =>
                           attempts'[y] >= MaxAttempts
    BY DEF BudgetUnlessRaced
  <2>1. y \notin raced /\ (y = x => current[w])
    BY <1>2
  <2>2. CASE y = x
    BY <1>1, <1>5, <2>1, <2>2, BoundsAssumption DEF IInv, TypeOK, MostAttempts
  <2>3. CASE y # x
    BY <1>5, <2>1, <2>3 DEF IInv, TableInv, BudgetUnlessRaced
  <2> QED
    BY <2>2, <2>3
<1>12. PortalSound' /\ HandledSound'
  <2>1. \A y : Sent(y)' = Sent(y)
    BY <1>2 DEF Sent
  <2>2. \A y \in Rows : status'[y] = "DELIVERED" => Handled(y)
    BY <1>5 DEF IInv, HandledSound, x
  <2>3. \A u \in Workers \ {w} : Sent(row[u])' = Sent(row[u]) /\ pc'[u] = pc[u]
    BY <1>2, <1>3 DEF Sent
  <2>4. pc'[w] \notin {"unseen", "handled", "accepted"} /\ pc[w] # "handled"
    BY <1>3 DEF Between
  <2>5. loose' = loose /\ UNCHANGED <<seen, handled>>
    BY <1>2
  <2> QED
    BY <2>1, <2>2, <2>3, <2>4, <2>5, PortalKept
<1> QED
  BY <1>6, <1>8, <1>9, <1>10, <1>11, <1>12 DEF IInv, TableInv

LEMMA FinishInv ==
  ASSUME IInv, NEW w \in Workers, Finish(w)
  PROVE  IInv'
<1>1. CASE SaveAccepted(w)
  <2>1. Handled(row[w]) /\ pc[w] = "accepted" /\ Save(w, "DELIVERED")
    BY <1>1 DEF SaveAccepted, IInv, HandledSound
  <2> QED
    BY <2>1, SaveInv
<1>2. CASE SaveRefused(w)
  <2>1. tried[w] \in Nat /\ MaxAttempts \in Nat
    BY BoundsAssumption DEF IInv, TypeOK, MostAttempts
  <2>2. CASE tried[w] >= MaxAttempts
    BY <1>2, <2>1, <2>2, SaveInv DEF SaveRefused
  <2>3. CASE tried[w] < MaxAttempts
    BY <1>2, <2>1, <2>3, SaveInv DEF SaveRefused
  <2> QED
    BY <2>1, <2>2, <2>3
<1> QED
  BY <1>1, <1>2, UnreachedInv, LookupInv, HandleInv, MarkInv, PortalFailsInv,
     TakeInv, SkipInv DEF Finish, Portal

LEMMA CrashInv ==
  ASSUME IInv, NEW w \in Workers, Crash(w)
  PROVE  IInv'
<1> USE DEF Crash, publishVars, rowVars
<1>1. /\ pc'[w] = "idle"
      /\ \A u \in Workers \ {w} :
           /\ pc'[u] = pc[u] /\ row'[u] = row[u] /\ had'[u] = had[u]
           /\ tried'[u] = tried[u] /\ current'[u] = current[u]
      /\ tried'[w] = 0 /\ had'[w] = "PENDING"
  BY DEF IInv, TypeOK
<1>2. /\ loose \subseteq loose' /\ loose' \subseteq Entries
      /\ pc[w] = "handled" => Sent(row[w]) \in loose'
  BY BusyFacts DEF BreakOff, IInv, TypeOK, Entries, Between
<1>3. TypeOK'
  BY <1>2, BoundsAssumption DEF IInv, TypeOK, DeliveryStatus, MostAttempts, Entries
<1>4. RowsPublished' /\ BudgetUnlessRaced'
  BY DEF IInv, TableInv, RowsPublished, BudgetUnlessRaced
<1>5. AttemptsBounded'
  BY <1>1, BoundsAssumption DEF IInv, TableInv, TypeOK, AttemptsBounded
<1>6. WorkersSound'
  BY <1>1 DEF IInv, TableInv, WorkersSound, HoldsRow, Between
<1>7. PortalSound' /\ HandledSound'
  <2>1. \A x : Sent(x)' = Sent(x)
    BY DEF Sent
  <2>2. \A x \in Rows : status'[x] = "DELIVERED" => Handled(x)
    BY DEF IInv, HandledSound
  <2>3. \A u \in Workers \ {w} : Sent(row[u])' = Sent(row[u])
    BY <1>1 DEF Sent
  <2>4. UNCHANGED <<seen, handled>>
    OBVIOUS
  <2> QED
    BY <1>1, <1>2, <2>1, <2>2, <2>3, <2>4, PortalKept
<1> QED
  BY <1>3, <1>4, <1>5, <1>6, <1>7 DEF IInv, TableInv

LEMMA ElapseInv ==
  ASSUME IInv, NEW x \in Rows, Elapse(x)
  PROVE  IInv'
BY DEF Elapse, publishVars, workerVars, loadVars, portalVars, IInv, TableInv,
       TypeOK, RowsPublished, AttemptsBounded, WorkersSound, HoldsRow,
       PortalSound, Serves, HandledSound, Handled, Sent, BudgetUnlessRaced

-----------------------------------------------------------------------------
(* Theorems *)

LEMMA NextInv ==
  ASSUME IInv, [Next]_vars
  PROVE  IInv'
<1>1. ASSUME NEW c \in Calls, Publish(c)
      PROVE  IInv'
  BY <1>1, PublishCheckInv, PublishCommitInv, PublishFailInv DEF Publish
<1>2. ASSUME NEW w \in Workers, NEW x \in Rows, List(w, x) \/ Retry(w, x)
      PROVE  IInv'
  BY <1>2, ListInv, RetryInv
<1>3. CASE UNCHANGED vars
  BY <1>3 DEF vars, publishVars, rowVars, workerVars, loadVars, portalVars, IInv,
              TableInv, TypeOK, RowsPublished, AttemptsBounded, WorkersSound,
              HoldsRow, PortalSound, Serves, HandledSound, Handled, Sent,
              BudgetUnlessRaced
<1> QED
  BY <1>1, <1>2, <1>3, FinishInv, CrashInv, ElapseInv DEF Next

\* The inductive invariant holds in every reachable state of the outbox.
THEOREM Invariance == Spec => []IInv
BY InitInv, NextInv, PTL DEF Spec

\* Every column and every copy has its type, and no row is ever attempted more
\* often than its budget and two attempts for each manual retry.
THEOREM TypeCorrect == Spec => []TypeOK
<1>1. IInv => TypeOK
  BY DEF IInv
<1> QED
  BY Invariance, <1>1, PTL

\* Handling: what is DELIVERED has been handled, and an event is handled twice
\* only if two of its deliveries overlapped at the portal or one ended between
\* handler and mark, whatever crashes, lost answers, retries and repeated
\* publications there are.
THEOREM HandledOnce == Spec => []HandledOnceUnlessLoose
<1>1. IInv => HandledOnceUnlessLoose
  BY DEF IInv, PortalSound, HandledSound, HandledOnceUnlessLoose, Handled, Entries
<1> QED
  BY Invariance, <1>1, PTL

\* Budget: on a row no worker has overtaken another on, FAILED says that
\* attempts are left and DEAD_LETTER that there are none.
THEOREM Budget == Spec => []BudgetUnlessRaced
<1>1. IInv => BudgetUnlessRaced
  BY DEF IInv, TableInv
<1> QED
  BY Invariance, <1>1, PTL

-----------------------------------------------------------------------------
(* Rows claimed by the worker that loads them *)

\* What locking the rows of a sweep would guarantee: no two workers at a row.
Claimed ==
  \A u, w \in Workers : row[u] = row[w] /\ row[w] \in Rows => u = w

Undisturbed == raced = {} /\ \A w \in Workers : current[w]

LEMMA UndisturbedNext ==
  IInv /\ Claimed /\ Undisturbed /\ [Next]_vars => Undisturbed'
<1> SUFFICES ASSUME IInv, Claimed, Undisturbed, [Next]_vars
             PROVE  Undisturbed'
  OBVIOUS
<1>1. ASSUME NEW w \in Workers, NEW new, pc[w] \notin Between, Save(w, new)
      PROVE  Undisturbed'
  <2>1. row[w] \in Rows /\ \A u \in Workers \ {w} : row[u] # row[w]
    BY <1>1, BusyFacts DEF Claimed
  <2>2. \A u \in Workers : current'[u]
    BY <1>1, <2>1 DEF Save, Undisturbed
  <2> QED
    BY <1>1, <2>2 DEF Save, Undisturbed
<1>2. ASSUME NEW w \in Workers, NEW x \in Rows,
             List(w, x) \/ Take(w, x) \/ Retry(w, x)
      PROVE  Undisturbed'
  <2>1. Load(w, x) /\ raced' = raced
    BY <1>2 DEF List, Take, Retry
  <2> QED
    BY <2>1 DEF Load, Undisturbed, IInv, TypeOK
<1>3. ASSUME NEW w \in Workers, Crash(w)
      PROVE  Undisturbed'
  BY <1>3 DEF Crash, Undisturbed, IInv, TypeOK
<1>4. ASSUME UNCHANGED <<current, raced>>
      PROVE  Undisturbed'
  BY <1>4 DEF Undisturbed
<1>5. ASSUME \/ \E c \in Calls : Publish(c)
             \/ \E x \in Rows : Elapse(x)
             \/ UNCHANGED vars
      PROVE  Undisturbed'
  BY <1>4, <1>5 DEF Publish, PublishCheck, PublishCommit, PublishFail, Elapse, vars,
              workerVars, loadVars
<1>6. ASSUME NEW w \in Workers, Unreached(w) \/ Portal(w) \/ PortalFails(w)
      PROVE  Undisturbed'
  BY <1>4, <1>6 DEF Unreached, Portal, Lookup, Handle, Mark, PortalFails, Answer, Goto,
              loadVars
<1>7. ASSUME NEW w \in Workers, NEW x \in Rows, Skip(w, x)
      PROVE  Undisturbed'
  BY <1>4, <1>7 DEF Skip, loadVars
<1>8. ASSUME NEW w \in Workers, Finish(w)
      PROVE  Undisturbed'
  BY <1>1, <1>2, <1>6, <1>7, <1>8 DEF Finish, SaveAccepted, SaveRefused, Between
<1> QED
  BY <1>2, <1>3, <1>5, <1>8 DEF Next

LEMMA ClaimedUndisturbed == Spec /\ []Claimed => []Undisturbed
<1>1. Init => Undisturbed
  BY DEF Init, Undisturbed
<1> QED
  BY <1>1, Invariance, UndisturbedNext, PTL DEF Spec

BudgetKept ==
  \A x \in Rows :
    /\ status[x] = "FAILED" => attempts[x] \in 1 .. MaxAttempts - 1
    /\ status[x] = "DEAD_LETTER" => attempts[x] >= MaxAttempts

\* Where the worker that loads a row has it to itself, FAILED and DEAD_LETTER
\* always tell whether attempts are left.
THEOREM ClaimedBudget == Spec /\ []Claimed => []BudgetKept
<1>1. BudgetUnlessRaced /\ Undisturbed => BudgetKept
  BY DEF BudgetUnlessRaced, Undisturbed, BudgetKept
<1> QED
  BY <1>1, Budget, ClaimedUndisturbed, PTL

DeliveredStays ==
  [][\A x \in Rows : status[x] = "DELIVERED" => status'[x] = "DELIVERED"]_vars

\* Where the worker that loads a row has it to itself, DELIVERED is final: no
\* late answer of another attempt takes it back.
THEOREM ClaimedDelivered == Spec /\ []Claimed => DeliveredStays
<1>1. IInv /\ Undisturbed /\ [Next]_vars =>
        [\A x \in Rows : status[x] = "DELIVERED" => status'[x] = "DELIVERED"]_vars
  <2> SUFFICES ASSUME IInv, Undisturbed, [Next]_vars,
                      NEW x \in Rows, status[x] = "DELIVERED"
               PROVE  status'[x] = "DELIVERED"
    OBVIOUS
  <2>1. ASSUME NEW w \in Workers, NEW new, pc[w] \notin Between, Save(w, new)
        PROVE  status'[x] = "DELIVERED"
    <3>1. had[w] # "DELIVERED" /\ had[w] = status[row[w]]
      BY <2>1 DEF IInv, TableInv, TypeOK, WorkersSound, HoldsRow, Undisturbed
    <3> QED
      BY <2>1, <3>1 DEF Save
  <2>2. ASSUME NEW c \in Calls, PublishCommit(c)
        PROVE  status'[x] = "DELIVERED"
    <3>1. x[1] # c
      BY <2>2, RowFacts DEF PublishCommit
    <3> QED
      BY <2>2, <3>1 DEF PublishCommit
  <2>3. ASSUME status' = status
        PROVE  status'[x] = "DELIVERED"
    BY <2>3
  <2>4. ASSUME NEW w \in Workers, Finish(w) \/ Crash(w)
        PROVE  status'[x] = "DELIVERED"
    <3>1. ASSUME Unreached(w) \/ Portal(w) \/ PortalFails(w) \/ Crash(w)
          PROVE  status' = status
      BY <3>1 DEF Unreached, Portal, Lookup, Handle, Mark, PortalFails, Answer,
                  Goto, Crash, rowVars
    <3>2. ASSUME NEW y \in Rows, Take(w, y) \/ Skip(w, y)
          PROVE  status' = status
      BY <3>2 DEF Take, Skip, rowVars
    <3> QED
      BY <2>1, <2>3, <2>4, <3>1, <3>2 DEF Finish, SaveAccepted, SaveRefused, Between
  <2>5. ASSUME NEW c \in Calls, Publish(c)
        PROVE  status'[x] = "DELIVERED"
    BY <2>2, <2>3, <2>5 DEF Publish, PublishCheck, PublishFail, rowVars
  <2> QED
    BY <2>3, <2>4, <2>5 DEF Next, List, Retry, Elapse, vars, rowVars
<1> QED
  BY <1>1, Invariance, ClaimedUndisturbed, PTL DEF Spec, DeliveredStays

-----------------------------------------------------------------------------
(* Consumers that are atomic *)

\* What a lock around lookup, handler and mark would guarantee: one delivery of
\* an event at a time, and none ends between handler and mark.
OneServed ==
  \A u, w \in Workers, e \in Entries : Serves(u, e) /\ Serves(w, e) => u = w

MarksHandled ==
  [][\A w \in Workers :
       pc[w] = "handled" /\ pc'[w] # "handled" => Sent(row[w]) \in seen']_vars

AtMostOnce == \A e \in Entries : handled[e] <= 1

\* "guarantee each event is processed at most once" (consumer.py:13) is true of a
\* portal that makes its consumer atomic, whatever the dispatcher does.
THEOREM AtomicConsumer == Spec /\ []OneServed /\ MarksHandled => []AtMostOnce
<1> DEFINE Marks == [\A w \in Workers :
                       pc[w] = "handled" /\ pc'[w] # "handled"
                         => Sent(row[w]) \in seen']_vars
           Tight == loose = {}
<1>1. Init => Tight
  BY DEF Init
<1>2. IInv /\ Tight /\ OneServed' /\ Marks /\ [Next]_vars => Tight'
  <2> SUFFICES ASSUME IInv, loose = {}, OneServed', Marks, [Next]_vars
               PROVE  loose' = {}
    OBVIOUS
  <2>1. ASSUME NEW w \in Workers, Lookup(w)
        PROVE  loose' = {}
    <3> DEFINE e == Sent(row[w])
    <3>1. CASE e \in seen
      BY <2>1, <3>1 DEF Lookup
    <3>2. CASE e \notin seen
      <4>1. /\ pc[w] = "loaded" /\ Goto(w, "unseen") /\ e \in Entries
            /\ loose' = IF \E u \in Workers : Serves(u, e) THEN loose \cup {e}
                        ELSE loose
        BY <2>1, <3>2, BusyFacts DEF Lookup, Between
      <4>2. ASSUME NEW u \in Workers, Serves(u, e)
            PROVE  FALSE
        <5>1. /\ u # w /\ pc'[u] = pc[u] /\ pc'[w] = "unseen"
              /\ \A v \in Workers : Sent(row[v])' = Sent(row[v])
          BY <4>1, <4>2 DEF Serves, Goto, loadVars, publishVars, Sent, IInv, TypeOK
        <5>2. pc'[u] \in {"unseen", "handled"} /\ Sent(row[u])' = e
          BY <4>2, <5>1 DEF Serves
        <5> QED
          BY <4>1, <5>1, <5>2 DEF OneServed, Serves
      <4> QED
        BY <4>1, <4>2
    <3> QED
      BY <3>1, <3>2
  <2>2. ASSUME NEW w \in Workers, PortalFails(w) \/ Crash(w)
        PROVE  loose' = {}
    <3>1. seen' = seen /\ BreakOff(w) /\ pc'[w] # "handled" /\ pc' # pc
      BY <2>2 DEF PortalFails, Crash, Goto, IInv, TypeOK
    <3>2. CASE pc[w] = "handled"
      <4>1. Sent(row[w]) \in Entries /\ Serves(w, Sent(row[w]))
        BY <3>2, BusyFacts DEF Serves, Between
      <4>2. Sent(row[w]) \in seen
        BY <3>1, <3>2 DEF vars, workerVars
      <4> QED
        BY <4>1, <4>2 DEF IInv, PortalSound
    <3> QED
      BY <3>1, <3>2 DEF BreakOff
  <2>3. ASSUME loose' = loose
        PROVE  loose' = {}
    BY <2>3
  <2>4. ASSUME NEW w \in Workers, Finish(w)
        PROVE  loose' = {}
    BY <2>1, <2>2, <2>3, <2>4
       DEF Finish, Unreached, Portal, Handle, Mark, Take, Skip, SaveAccepted,
           SaveRefused, Save, portalVars
  <2> QED
    BY <2>2, <2>3, <2>4
       DEF Next, Publish, PublishCheck, PublishCommit, PublishFail, List, Retry,
           Elapse, vars, portalVars
<1>3. IInv /\ Tight => AtMostOnce
  BY DEF IInv, PortalSound, AtMostOnce
<1> QED
  BY <1>1, <1>2, <1>3, Invariance, PTL DEF Spec, MarksHandled
=============================================================================
