----------------------------- MODULE MemoryQueue -----------------------------
(***************************************************************************)
(* The in-memory sending queue of exporterhelper (queue/memory_queue.go)   *)
(* with the consumers asyncQueue runs on it (queue/async_queue.go) and the *)
(* batcher disabled: a consumer calls done.OnDone itself when the export   *)
(* returns (queuebatch/disabled_batcher.go).                               *)
(*                                                                         *)
(* mu, waiting, ch and at are the queue's mutex and its hasMoreSpace cond  *)
(* (module Cond).  hasMoreElements is a sync.Cond: its wait set is the set *)
(* of consumers in state "parked".  Code between Lock and Unlock that does *)
(* not block is one step, and so is what a goroutine does on its own       *)
(* before or after it.  Init chooses the two settings and whether requests *)
(* have one size, as they do with the requests sizer, or sizes of Sizes.   *)
(***************************************************************************)
EXTENDS Integers, Sequences, FiniteSets, FiniteSetsExt

CONSTANTS Producers, Consumers, Stopper,  \* goroutines
          Cancellable,      \* producers whose ctx may become done in Offer
          Free, None,       \* mu is free; no element, no result
          Cap,              \* Settings.Capacity
          Sizes,            \* what Sizeof may return
          MaxOffers         \* bound: offers each producer makes

ASSUME QueueAssumption ==
  /\ Cap \in Nat \ {0} /\ Sizes \subseteq Nat /\ MaxOffers \in Nat
  /\ Cancellable \subseteq Producers
  /\ Producers \cap Consumers = {}
  /\ Stopper \notin Producers \cup Consumers
  /\ Free \notin Producers \cup Consumers \cup {Stopper}
  /\ IsFiniteSet(Producers) /\ IsFiniteSet(Consumers)
  /\ Consumers # {}  \* Config.Validate: num_consumers must be positive

VARIABLES
  mu, waiting, ch, at,  \* see Cond
  items,      \* linkedQueue: what is queued, with its blockingDone
  size,       \* mq.size
  stopped,    \* mq.stopped
  waitForResult, blockOnOverflow,  \* the configuration
  unit,       \* the size every request has; None: they differ
  pool,       \* blockingDonePool
  allocated,  \* blockingDone objects New has made: 1..allocated
  result,     \* the channel of each blockingDone: None or the outcome
  refs,       \* refCounter, per element
  ppc, offer, offers, \* producers: position, current item, offers made
  cpc, cur,   \* consumers: position and the item they hold
  sd,         \* Shutdown of asyncQueue
  late        \* history: elements added after Shutdown stopped the queue

condVars == <<mu, waiting, ch, at>>
confVars == <<waitForResult, blockOnOverflow, unit>>
doneVars == <<pool, allocated, result>>
queueVars == <<items, size, stopped, doneVars, refs, late>>
prodVars == <<ppc, offer, offers>>
consVars == <<cpc, cur>>
vars == <<condVars, confVars, queueVars, prodVars, consVars, sd>>

Goroutines == Producers \cup Consumers \cup {Stopper}

C == INSTANCE Cond

\* The sizes that reach add: Offer returns at once with the others.
Fitting == {s \in Sizes : 0 < s /\ s <= Cap}

\* Sizeof may return s.
MayMeasure(s) == unit \in {None, s}

Elements == [p : Producers, n : 1..MaxOffers, size : Fitting]

Dones == 1..(Cardinality(Producers) * MaxOffers)

\* A queue node: the element and the blockingDone that goes with it.
Nodes == [el : Elements, bd : Dones]

\* What a producer is offering: the blockingDone is there once it was queued.
Offered == [el : Elements, bd : Dones \cup {None}]

\* nil is no element, no blockingDone and no queue node.
ASSUME NoneAssumption == None \notin Elements /\ None \notin Dones /\ None \notin Offered

Init ==
  /\ C!Init
  /\ items = <<>> /\ size = 0 /\ stopped = FALSE
  /\ pool = {} /\ allocated = 0
  /\ waitForResult \in BOOLEAN /\ blockOnOverflow \in BOOLEAN
  /\ unit \in Fitting \cup {None}
  /\ result = [b \in Dones |-> None]
  /\ refs = [e \in Elements |-> 0]
  /\ ppc = [p \in Producers |-> "idle"]
  /\ offer = [p \in Producers |-> None]
  /\ offers = [p \in Producers |-> 0]
  /\ cpc = [c \in Consumers |-> "read"]
  /\ cur = [c \in Consumers |-> None]
  /\ sd = "running" /\ late = {}

-----------------------------------------------------------------------------
(* Offer *)

\* Empty elements and elements larger than the queue never reach add.
OfferRefused(p) ==
  /\ ppc[p] = "idle" /\ offers[p] < MaxOffers
  /\ \E s \in Sizes \ Fitting : MayMeasure(s)
  /\ offers' = [offers EXCEPT ![p] = @ + 1]
  /\ UNCHANGED <<confVars, condVars, queueVars, ppc, offer, consVars, sd>>

OfferBegin(p) ==
  /\ ppc[p] = "idle" /\ offers[p] < MaxOffers
  /\ \E e \in Elements :
       /\ e.p = p /\ e.n = offers[p] + 1 /\ MayMeasure(e.size)
       /\ refs' = [refs EXCEPT ![e] = @ + 1]
       /\ offer' = [offer EXCEPT ![p] = [el |-> e, bd |-> None]]
  /\ offers' = [offers EXCEPT ![p] = @ + 1]
  /\ ppc' = [ppc EXCEPT ![p] = "add"]
  /\ UNCHANGED <<confVars, condVars, items, size, stopped, doneVars, late, consVars, sd>>

AddLock(p) ==
  /\ ppc[p] = "add"
  /\ C!Lock(p)
  /\ UNCHANGED <<confVars, queueVars, prodVars, consVars, sd>>

Fits(p) == size + offer[p].el.size <= Cap

\* add returns an error: Offer gives its reference back.
ReturnError(p) ==
  /\ C!Unlock(p)
  /\ refs' = [refs EXCEPT ![offer[p].el] = @ - 1]
  /\ ppc' = [ppc EXCEPT ![p] = "idle"]
  /\ offer' = [offer EXCEPT ![p] = None]
  /\ UNCHANGED <<confVars, items, size, stopped, doneVars, late, offers, consVars, sd>>

AddFull(p) ==
  /\ ppc[p] = "add" /\ ~Fits(p) /\ ~blockOnOverflow
  /\ ReturnError(p)

AddWait(p) ==
  /\ ppc[p] = "add" /\ ~Fits(p) /\ blockOnOverflow
  /\ C!Wait(p)
  /\ UNCHANGED <<confVars, queueVars, prodVars, consVars, sd>>

\* hasMoreSpace.Wait ends with a token; add tests the size again.
AddWoken(p) ==
  /\ ppc[p] = "add"
  /\ C!Receive(p) \/ C!Relock(p)
  /\ UNCHANGED <<confVars, queueVars, prodVars, consVars, sd>>

\* hasMoreSpace.Wait ends with the ctx; add returns its error.
AddCtxDone(p) ==
  /\ ppc[p] = "add"
  /\ C!CtxDone(p)
  /\ ppc' = [ppc EXCEPT ![p] = "cancelled"]
  /\ UNCHANGED <<confVars, queueVars, offer, offers, consVars, sd>>

AddCtxRelock(p) ==
  /\ ppc[p] = "cancelled"
  /\ C!CtxRelock(p) \/ C!Drain(p)
  /\ UNCHANGED <<confVars, queueVars, prodVars, consVars, sd>>

AddCancelled(p) ==
  /\ ppc[p] = "cancelled"
  /\ ReturnError(p)

\* sync.Cond.Signal: wake one parked consumer, if there is any.
SignalElements ==
  IF \E c \in Consumers : cpc[c] = "parked"
    THEN \E c \in Consumers : /\ cpc[c] = "parked"
                              /\ cpc' = [cpc EXCEPT ![c] = "read"]
    ELSE UNCHANGED cpc

AddPush(p) ==
  /\ ppc[p] = "add" /\ Fits(p)
  /\ C!Unlock(p)
  /\ size' = size + offer[p].el.size
  /\ \E b \in pool \cup {allocated + 1} :
       /\ pool' = pool \ {b}
       /\ allocated' = IF b \in pool THEN allocated ELSE b
       /\ offer' = [offer EXCEPT ![p] =
                      IF waitForResult THEN [el |-> offer[p].el, bd |-> b] ELSE None]
       /\ items' = Append(items, [el |-> offer[p].el, bd |-> b])
  /\ SignalElements
  /\ ppc' = [ppc EXCEPT ![p] = IF waitForResult THEN "await" ELSE "idle"]
  /\ late' = IF stopped THEN late \cup {offer[p].el} ELSE late
  /\ UNCHANGED <<confVars, stopped, result, refs, offers, cur, sd>>

\* case doneErr := <-done.ch: the blockingDone goes back to the pool.
AwaitResult(p) ==
  /\ ppc[p] = "await"
  /\ result[offer[p].bd] # None
  /\ result' = [result EXCEPT ![offer[p].bd] = None]
  /\ pool' = pool \cup {offer[p].bd}
  /\ ppc' = [ppc EXCEPT ![p] = "idle"]
  /\ offer' = [offer EXCEPT ![p] = None]
  /\ UNCHANGED <<confVars, condVars, items, size, stopped, allocated, refs, late,
                 offers, consVars, sd>>

\* Mutant of AwaitCtxDone: the blockingDone goes back to the pool.
AwaitCtxDonePooled(p) ==
  /\ ppc[p] = "await"
  /\ p \in Cancellable
  /\ pool' = pool \cup {offer[p].bd}
  /\ ppc' = [ppc EXCEPT ![p] = "idle"]
  /\ offer' = [offer EXCEPT ![p] = None]
  /\ UNCHANGED <<confVars, condVars, items, size, stopped, allocated, result, refs,
                 late, offers, consVars, sd>>

\* case <-ctx.Done(): the consumer may still use the blockingDone.
AwaitCtxDone(p) ==
  /\ ppc[p] = "await"
  /\ p \in Cancellable
  /\ ppc' = [ppc EXCEPT ![p] = "idle"]
  /\ offer' = [offer EXCEPT ![p] = None]
  /\ UNCHANGED <<confVars, condVars, queueVars, offers, consVars, sd>>

-----------------------------------------------------------------------------
(* The consumer loop of asyncQueue: Read, consumeFunc, OnDone, Unref *)

ReadLock(c) ==
  /\ cpc[c] = "read"
  /\ C!Lock(c)
  /\ UNCHANGED <<confVars, queueVars, prodVars, consVars, sd>>

ReadPop(c) ==
  /\ cpc[c] = "read"
  /\ items # <<>>
  /\ C!Unlock(c)
  /\ cur' = [cur EXCEPT ![c] = Head(items)]
  /\ items' = Tail(items)
  /\ cpc' = [cpc EXCEPT ![c] = "consume"]
  /\ UNCHANGED <<confVars, size, stopped, doneVars, refs, late, prodVars, sd>>

\* Mutant of ReadStopped: the queue is left before it is drained.
ReadStoppedEarly(c) ==
  /\ cpc[c] = "read"
  /\ stopped
  /\ C!Unlock(c)
  /\ cpc' = [cpc EXCEPT ![c] = "exit"]
  /\ UNCHANGED <<confVars, queueVars, prodVars, cur, sd>>

ReadStopped(c) ==
  /\ cpc[c] = "read"
  /\ items = <<>> /\ stopped
  /\ C!Unlock(c)
  /\ cpc' = [cpc EXCEPT ![c] = "exit"]
  /\ UNCHANGED <<confVars, queueVars, prodVars, cur, sd>>

ReadPark(c) ==
  /\ cpc[c] = "read"
  /\ items = <<>> /\ ~stopped
  /\ C!Unlock(c)
  /\ cpc' = [cpc EXCEPT ![c] = "parked"]
  /\ UNCHANGED <<confVars, queueVars, prodVars, cur, sd>>

\* The export returns, with or without an error, and OnDone takes the lock.
OnDoneLock(c) ==
  /\ cpc[c] = "consume"
  /\ C!Lock(c)
  /\ UNCHANGED <<confVars, queueVars, prodVars, consVars, sd>>

\* Mutants of OnDoneRelease: one unit is given back whatever the element took;
\* no producer is told; one is told only when the queue has become empty.
OnDoneReleaseOne(c) ==
  /\ cpc[c] = "consume"
  /\ C!Signal(c)
  /\ size' = size - 1
  /\ cpc' = [cpc EXCEPT ![c] = "signal"]
  /\ UNCHANGED <<confVars, items, stopped, doneVars, refs, late, prodVars, cur, sd>>

OnDoneReleaseSilent(c) ==
  /\ cpc[c] = "consume" /\ at[c] = "crit"
  /\ size' = size - cur[c].el.size
  /\ cpc' = [cpc EXCEPT ![c] = "signal"]
  /\ UNCHANGED <<confVars, condVars, items, stopped, doneVars, refs, late, prodVars, cur, sd>>

OnDoneReleaseLast(c) ==
  /\ cpc[c] = "consume"
  /\ IF size = cur[c].el.size THEN C!Signal(c) ELSE at[c] = "crit" /\ UNCHANGED condVars
  /\ size' = size - cur[c].el.size
  /\ cpc' = [cpc EXCEPT ![c] = "signal"]
  /\ UNCHANGED <<confVars, items, stopped, doneVars, refs, late, prodVars, cur, sd>>

OnDoneRelease(c) ==
  /\ cpc[c] = "consume"
  /\ C!Signal(c)
  /\ size' = size - cur[c].el.size
  /\ cpc' = [cpc EXCEPT ![c] = "signal"]
  /\ UNCHANGED <<confVars, items, stopped, doneVars, refs, late, prodVars, cur, sd>>

OnDoneSend(c) ==
  /\ cpc[c] = "signal"
  /\ C!Send(c)
  /\ UNCHANGED <<confVars, queueVars, prodVars, consVars, sd>>

\* bd.ch <- err, which waits while the channel is full, or back to the pool.
\* Then consumeFunc returns and asyncQueue gives the reference back.
OnDoneFinish(c) ==
  /\ cpc[c] = "signal"
  /\ C!Unlock(c)
  /\ IF waitForResult
       THEN /\ result[cur[c].bd] = None
            /\ result' = [result EXCEPT ![cur[c].bd] = cur[c].el]
            /\ UNCHANGED pool
       ELSE /\ pool' = pool \cup {cur[c].bd}
            /\ UNCHANGED result
  /\ refs' = [refs EXCEPT ![cur[c].el] = @ - 1]
  /\ cur' = [cur EXCEPT ![c] = None]
  /\ cpc' = [cpc EXCEPT ![c] = "read"]
  /\ UNCHANGED <<confVars, items, size, stopped, allocated, late, prodVars, sd>>

-----------------------------------------------------------------------------
(* Shutdown of asyncQueue: stop the queue, then wait for the consumers *)

ShutdownLock ==
  /\ sd = "running"
  /\ C!Lock(Stopper)
  /\ sd' = "stopping"
  /\ UNCHANGED <<confVars, queueVars, prodVars, consVars>>

\* Mutant of ShutdownStop: parked consumers are not woken.
ShutdownStopSilent ==
  /\ sd = "stopping"
  /\ C!Unlock(Stopper)
  /\ stopped' = TRUE
  /\ sd' = "draining"
  /\ UNCHANGED <<confVars, items, size, doneVars, refs, late, prodVars, consVars>>

ShutdownStop ==
  /\ sd = "stopping"
  /\ C!Unlock(Stopper)
  /\ stopped' = TRUE
  /\ cpc' = [c \in Consumers |-> IF cpc[c] = "parked" THEN "read" ELSE cpc[c]]
  /\ sd' = "draining"
  /\ UNCHANGED <<confVars, items, size, doneVars, refs, late, prodVars, cur>>

ShutdownReturns ==
  /\ sd = "draining"
  /\ \A c \in Consumers : cpc[c] = "exit"
  /\ sd' = "done"
  /\ UNCHANGED <<confVars, condVars, queueVars, prodVars, consVars>>

Producer(p) ==
  \/ OfferRefused(p) \/ OfferBegin(p)
  \/ AddLock(p) \/ AddFull(p) \/ AddWait(p) \/ AddWoken(p) \/ AddCtxDone(p)
  \/ AddCtxRelock(p) \/ AddCancelled(p) \/ AddPush(p)
  \/ AwaitResult(p) \/ AwaitCtxDone(p)

Consumer(c) ==
  \/ ReadLock(c) \/ ReadPop(c) \/ ReadStopped(c) \/ ReadPark(c)
  \/ OnDoneLock(c) \/ OnDoneRelease(c) \/ OnDoneSend(c)
  \/ OnDoneFinish(c)

Shutdown == ShutdownLock \/ ShutdownStop \/ ShutdownReturns

Next ==
  \/ \E p \in Producers : Producer(p)
  \/ \E c \in Consumers : Consumer(c)
  \/ Shutdown

Spec == Init /\ [][Next]_vars

\* What the Go scheduler and sync.Mutex give: a goroutine that can go on
\* does.  Nobody has to call Offer or Shutdown, or to cancel a ctx.
Fairness ==
  /\ \A p \in Producers :
       WF_vars(\/ AddLock(p) \/ AddFull(p) \/ AddWait(p) \/ AddWoken(p)
               \/ AddCtxRelock(p) \/ AddCancelled(p) \/ AddPush(p) \/ AwaitResult(p))
  /\ \A c \in Consumers : WF_vars(Consumer(c))
  /\ WF_vars(ShutdownStop) /\ WF_vars(ShutdownReturns)

FairSpec == Spec /\ Fairness
-----------------------------------------------------------------------------
TypeOK ==
  /\ C!TypeOK
  /\ items \in Seq(Nodes)
  /\ size \in Int
  /\ stopped \in BOOLEAN
  /\ waitForResult \in BOOLEAN /\ blockOnOverflow \in BOOLEAN
  /\ unit \in Fitting \cup {None}
  /\ allocated \in 0..Cardinality(Dones) /\ pool \subseteq 1..allocated
  /\ result \in [Dones -> Elements \cup {None}]
  /\ refs \in [Elements -> Int]
  /\ ppc \in [Producers -> {"idle", "add", "cancelled", "await"}]
  /\ offer \in [Producers -> Offered \cup {None}]
  /\ offers \in [Producers -> 0..MaxOffers]
  /\ cpc \in [Consumers -> {"read", "parked", "consume", "signal", "exit"}]
  /\ cur \in [Consumers -> Nodes \cup {None}]
  /\ late \subseteq Elements
  /\ sd \in {"running", "stopping", "draining", "done"}

\* Consumers that hold an element whose size is still reserved.
Exporting == {c \in Consumers : cpc[c] = "consume"}

\* What the elements of the nodes s[x], for x in I, add up to.
SizesAt(s, I) == MapThenSumSet(LAMBDA x : s[x].el.size, I)

\* Somebody may still touch the element.
Live(e) ==
  \/ \E p \in Producers : ppc[p] \in {"add", "cancelled"} /\ offer[p].el = e
  \/ \E i \in DOMAIN items : items[i].el = e
  \/ \E c \in Consumers : cur[c] # None /\ cur[c].el = e

\* The reference Offer takes is given back exactly once: by Offer on an error,
\* else by the consumer after the export.  Nobody touches an element whose
\* reference is gone, and no finished element keeps one.
RefsBalanced == \A e \in Elements : refs[e] = IF Live(e) THEN 1 ELSE 0

\* mq.size is what the accepted and unfinished elements add up to, and it
\* stays within the capacity: onDone gives back exactly what add took,
\* whatever errors, cancellations and waits lie in between.  The references are
\* as exact.  (With the types.)
SizeAccounting ==
  /\ TypeOK /\ RefsBalanced
  /\ size = SizesAt(items, DOMAIN items) + SizesAt(cur, Exporting)
  /\ size <= Cap

\* A producer that waits for its result never receives that of another
\* element, though blockingDone objects are recycled through the pool and a
\* cancelled producer leaves one behind that its consumer still writes to;
\* and that write, made with mq.mu held, never finds the channel full.
ResultIsOwn ==
  /\ \A p \in Producers : ppc[p] = "await" =>
       result[offer[p].bd] \in {None, offer[p].el}
  /\ \A c \in Consumers : cpc[c] = "signal" => result[cur[c].bd] = None

\* While consumers are parked, there are no more queued elements than
\* consumers on their way to read one.
NoItemWaitsForParked ==
  \/ \A c \in Consumers : cpc[c] # "parked"
  \/ Len(items) <= Cardinality({c \in Consumers : cpc[c] = "read"})

\* While a producer is counted as waiting on hasMoreSpace, an onDone is still
\* to come that will signal, or a signal is on its way, or a producer is about
\* to try, whose element will have an onDone.
SpaceWakeupPending ==
  waiting > 0 =>
    \/ items # <<>> \/ Exporting # {}
    \/ ch = 1 \/ \E g \in Goroutines : at[g] = "send"
    \/ \E p \in Producers : ppc[p] = "add" /\ at[p] \in {"woken", "crit"}

\* The chain of wakeups never breaks: no consumer stays parked on
\* hasMoreElements while elements wait, and no producer sleeps on hasMoreSpace
\* with no wakeup to come.  It may sleep beside free space until the next
\* onDone, which tells one producer only; see FreePlaceIsOffered.
NoLostWakeup == NoItemWaitsForParked /\ SpaceWakeupPending

\* Producers that will test the size again: woken, or in add with the lock.
Trying == {p \in Producers : ppc[p] = "add" /\ at[p] \in {"woken", "crit"}}

\* With requests of one size nobody sleeps beside a free place: while producers
\* wait, every place for one more request is taken up by a token, by a Signal
\* about to send one or by a producer about to try.  A Signal meant for one
\* waiter, a cancelled waiter and an Offer that gets in first keep the count.
\* With different sizes this fails: an onDone may free several places and wakes
\* one producer, and that one may ask for more than there is.
FreePlaceIsOffered ==
  unit # None /\ waiting > 0 =>
    size + (C!Owed + Cardinality(Trying) + 1) * unit > Cap

\* When Shutdown returns, every element that Offer accepted before the queue
\* was stopped has been given to the exporter and its producer released; only
\* an Offer that came after mq.stopped was set, which add does not test, can
\* leave an element behind.
ShutdownDrains ==
  sd = "done" =>
    /\ \A i \in DOMAIN items : items[i].el \in late
    /\ \A p \in Producers :
         ppc[p] = "await" => offer[p].el \in late \/ result[offer[p].bd] # None

\* An Offer that Shutdown left behind.  add does not test stopped, so an element
\* can come into a queue whose consumers have gone: its Offer waits for a result
\* nobody will send, and the room it takes is given back to nobody.
LeftBehind(p) ==
  /\ sd = "done"
  /\ \/ ppc[p] = "await" /\ offer[p].el \in late
     \/ /\ ppc[p] = "add" /\ at[p] = "select"
        /\ \E i \in DOMAIN items : items[i].el \in late

\* Calls end: again and again Shutdown, once begun, has returned and no Offer is
\* under way, the producers that blocked on a full queue or waited for their
\* result having got out.  There are two ways to hang: a Signal or Broadcast for
\* waiters that were all cancelled (cond.go:31, 38), and an Offer left behind by
\* Shutdown whose ctx nobody cancels.
CallsEnd ==
  []<>(\/ ~C!SignalCanFinish
       \/ /\ stopped => sd = "done"
          /\ \A p \in Producers : ppc[p] = "idle" \/ LeftBehind(p))
=============================================================================
