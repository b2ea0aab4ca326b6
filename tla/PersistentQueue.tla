--------------------------- MODULE PersistentQueue ---------------------------
(***************************************************************************)
(* The persistent sending queue of exporterhelper                          *)
(* (queue/persistent_queue.go) with the consumers asyncQueue runs on it    *)
(* (queue/async_queue.go, batcher disabled), the order in which BaseExporter *)
(* shuts retry and queue down, crashes, restarts and storage failures.     *)
(*                                                                         *)
(* smeta and store are what the storage client holds: the value under      *)
(* metadataKey and the items under their index.  Everything else is memory *)
(* and is gone after a crash.  A Batch is atomic; one that returns an error *)
(* may still have been applied ("unacked").  mu, waiting, ch and at are as *)
(* in Cond; code between Lock and Unlock that does not block is one step.  *)
(***************************************************************************)
EXTENDS Integers, Sequences, FiniteSets, FiniteSetsExt, SequencesExt

CONSTANTS Producers, Consumers,
          Cancellable,         \* producers whose ctx may become done in Offer
          Free, None,
          Cap,                 \* Settings.Capacity
          Sizes,               \* items in a request
          MaxOffers,           \* bound: offers each producer makes
          MaxStops,            \* bound: crashes and shutdowns
          MaxFaults,           \* bound: storage or encoding failures
          CrashWhileReputting  \* crashes may also hit the end of Start

ASSUME QueueAssumption ==
  /\ Cap \in Nat \ {0} /\ Sizes \subseteq Nat \ {0}
  /\ CrashWhileReputting \in BOOLEAN
  /\ MaxOffers \in Nat /\ MaxStops \in Nat /\ MaxFaults \in Nat
  /\ Cancellable \subseteq Producers /\ Producers \cap Consumers = {}
  /\ Free \notin Producers \cup Consumers
  /\ IsFiniteSet(Producers) /\ IsFiniteSet(Consumers)

VARIABLES
  sizerType, blockOnOverflow,  \* the configuration, chosen by Init
  mu, waiting, ch, at,         \* pq.mu and hasMoreSpace, see Cond
  meta, stopped, refClient,    \* the fields of persistentQueue
  smeta, store,                \* the storage
  life, pend,                  \* Start and Shutdown: position, items to re-put
  retryStopped,                \* the retry sender was shut down
  ppc, offer, offers,          \* producers: position, request, offers made
  cpc, cur,                    \* consumers: position, [idx, el] they hold
  accepted, completed, dropped, \* history: requests by what became of them
  stops, faults                \* counters for the bounds

confVars == <<sizerType, blockOnOverflow>>
condVars == <<mu, waiting, ch, at>>
memVars == <<meta, stopped, refClient>>
diskVars == <<smeta, store>>
lifeVars == <<life, pend, retryStopped, stops>>
prodVars == <<ppc, offer, offers>>
consVars == <<cpc, cur>>
histVars == <<accepted, completed, dropped>>
vars == <<confVars, condVars, memVars, diskVars, lifeVars, prodVars, consVars,
          histVars, faults>>

Goroutines == Producers \cup Consumers

C == INSTANCE Cond

Requests == [p : Producers, n : 1..MaxOffers, size : Sizes]

\* What Unmarshal makes of a key that is not there: a request without items.
Empty == [p |-> None, n |-> 0, size |-> 0]

Items == Requests \cup {Empty}

Metadata == [ri : Nat, wi : Nat, cdi : Seq(Nat), isz : Nat]

\* What a consumer holds.
Handed == [idx : Nat, el : Items]

\* nil is no request, no metadata and no list of requests.
ASSUME NoneAssumption ==
  /\ None \notin Items /\ None \notin Metadata /\ None \notin Handed
  /\ None \notin Seq(Items \cup {None})

NewMetadata == [ri |-> 0, wi |-> 0, cdi |-> <<>>, isz |-> 0]

requestSize(m) == m.wi - m.ri + Len(m.cdi)

internalSize == IF sizerType = "requests" THEN requestSize(meta) ELSE meta.isz

Sizeof(r) == IF sizerType = "requests" THEN 1 ELSE r.size

\* "Ensure the used size are in sync when queue is drained."
SyncSize(m) == IF requestSize(m) = 0 THEN [m EXCEPT !.isz = 0] ELSE m

WithItem(s, i, r) == [k \in DOMAIN s \cup {i} |-> IF k = i THEN r ELSE s[k]]
Without(s, I) == [k \in DOMAIN s \ I |-> s[k]]

ItemAt(i, absent) == IF i \in DOMAIN store THEN store[i] ELSE absent

-----------------------------------------------------------------------------
(* The storage client (external: extension/xextension/storage) *)

\* Spend a failure of the budget.  A closed client always fails.
Fault == IF refClient = 0 THEN UNCHANGED faults
         ELSE faults < MaxFaults /\ faults' = faults + 1

\* A Batch that returns no error.
BatchOK(m, s) ==
  /\ refClient > 0
  /\ smeta' = m /\ store' = s
  /\ UNCHANGED faults

\* A Batch that returns an error: nothing or everything was applied.
BatchFails(m, s) ==
  /\ Fault
  /\ \/ UNCHANGED diskVars
     \/ refClient > 0 /\ smeta' = m /\ store' = s

-----------------------------------------------------------------------------
(* itemDispatchingFinish *)

\* Mutant of RemoveDispatched: the list is cut without moving its last index.
RemoveDispatchedLast(m, i) ==
  IF i \in Range(m.cdi) THEN [m EXCEPT !.cdi = SubSeq(@, 1, Len(@) - 1)] ELSE m

\* The index is overwritten by the last one and the list cut.
RemoveDispatched(m, i) ==
  LET n == Len(m.cdi)
      k == CHOOSE j \in 1..n : m.cdi[j] = i
  IN IF i \in Range(m.cdi)
       THEN [m EXCEPT !.cdi = SubSeq([@ EXCEPT ![k] = m.cdi[n]], 1, n - 1)]
       ELSE m

Finished(m, i) == SyncSize(RemoveDispatched(m, i))

\* Set and delete in one Batch; if that fails first delete, then set.  The
\* outcomes: both done, nothing done, or deleted with the old metadata.
FinishOnDisk(m, i) ==
  \/ BatchOK(m, Without(store, {i}))
  \/ /\ Fault
     /\ \/ UNCHANGED diskVars
        \/ refClient > 0 /\ smeta' = m /\ store' = Without(store, {i})
        \/ refClient > 0 /\ UNCHANGED smeta /\ store' = Without(store, {i})

-----------------------------------------------------------------------------
Memory(m) ==
  /\ meta' = m /\ stopped' = FALSE /\ refClient' = 1

Init ==
  /\ C!Init
  /\ sizerType \in {"requests", "items"} /\ blockOnOverflow \in BOOLEAN
  /\ meta = NewMetadata /\ stopped = FALSE /\ refClient = 1
  /\ smeta = None /\ store = [i \in {} |-> None]
  /\ life = "down" /\ pend = <<>> /\ retryStopped = FALSE
  /\ ppc = [p \in Producers |-> "idle"]
  /\ offer = [p \in Producers |-> None]
  /\ offers = [p \in Producers |-> 0]
  /\ cpc = [c \in Consumers |-> "exit"]
  /\ cur = [c \in Consumers |-> None]
  /\ accepted = {} /\ completed = {} /\ dropped = {}
  /\ stops = 0 /\ faults = 0

(* Start: initClient, then the consumers *)

StartConsumers ==
  /\ life' = "run"
  /\ cpc' = [c \in Consumers |-> "read"]

\* No metadata, no legacy keys either: a new queue.
StartNew ==
  /\ life = "down" /\ smeta = None
  /\ Memory(NewMetadata)
  /\ \/ smeta' = NewMetadata /\ UNCHANGED faults
     \/ Fault /\ UNCHANGED smeta
  /\ StartConsumers
  /\ UNCHANGED <<confVars, condVars, store, pend, retryStopped, stops, prodVars,
                 cur, histVars>>

\* Failed getting metadata, starting with new ones.
StartUnreadable ==
  /\ life = "down" /\ smeta # None
  /\ Fault
  /\ Memory(NewMetadata)
  /\ StartConsumers
  /\ dropped' = dropped \cup Range(store)
  /\ UNCHANGED <<confVars, condVars, diskVars, pend, retryStopped, stops, prodVars, cur,
                 accepted, completed>>

StartLoad ==
  /\ life = "down" /\ smeta # None
  /\ Memory(smeta)
  /\ IF smeta.cdi = <<>>
       THEN StartConsumers /\ UNCHANGED <<pend, dropped, faults>>
       ELSE /\ life' = "cleanup"
            /\ \/ /\ pend' = [k \in DOMAIN smeta.cdi |-> ItemAt(smeta.cdi[k], None)]
                  /\ UNCHANGED <<dropped, faults>>
               \/ /\ Fault  \* retrieveErr
                  /\ pend' = None
                  /\ dropped' = dropped \cup {ItemAt(i, Empty) : i \in Range(smeta.cdi)}
            /\ UNCHANGED cpc
  /\ UNCHANGED <<confVars, condVars, diskVars, retryStopped, stops, prodVars, cur, accepted,
                 completed>>

\* The items left by consumers are deleted before they are put back.
StartCleanup ==
  /\ life = "cleanup"
  /\ \/ store' = Without(store, Range(meta.cdi)) /\ UNCHANGED faults
     \/ Fault /\ store' \in {store, Without(store, Range(meta.cdi))}
  /\ life' = "put"
  /\ pend' = IF pend = None THEN <<>> ELSE pend
  /\ UNCHANGED <<confVars, condVars, memVars, smeta, retryStopped, stops,
                 prodVars, consVars, histVars>>

StartPut ==
  /\ life = "put" /\ pend # <<>>
  /\ IF Head(pend) = None
       THEN UNCHANGED <<meta, diskVars, dropped, faults>>
       ELSE LET m == [meta EXCEPT !.wi = @ + 1]
                s == WithItem(store, meta.wi, Head(pend))
            IN \/ meta' = m /\ BatchOK(m, s) /\ UNCHANGED dropped
               \/ /\ \/ meta' = m /\ BatchFails(m, s)
                     \/ Fault /\ UNCHANGED <<meta, diskVars>>  \* Unmarshal fails
                  /\ dropped' = dropped \cup {Head(pend)}
  /\ pend' = Tail(pend)
  /\ UNCHANGED <<confVars, condVars, stopped, refClient, life, retryStopped, stops, prodVars,
                 consVars, accepted, completed>>

StartDone ==
  /\ life = "put" /\ pend = <<>>
  /\ meta' = [meta EXCEPT !.cdi = <<>>]
  /\ StartConsumers
  /\ UNCHANGED <<confVars, condVars, stopped, refClient, diskVars, pend, retryStopped, stops,
                 prodVars, cur, histVars, faults>>

-----------------------------------------------------------------------------
(* Offer *)

Started == life \in {"run", "stopping", "draining"}

OfferLock(p) ==
  /\ ppc[p] = "idle" /\ offers[p] < MaxOffers
  /\ Started
  /\ C!Lock(p)
  /\ \E r \in Requests : /\ r.p = p /\ r.n = offers[p] + 1
                         /\ offer' = [offer EXCEPT ![p] = r]
  /\ offers' = [offers EXCEPT ![p] = @ + 1]
  /\ ppc' = [ppc EXCEPT ![p] = "offer"]
  /\ UNCHANGED <<confVars, memVars, diskVars, lifeVars, consVars, histVars,
                 faults>>

Fits(p) == internalSize + Sizeof(offer[p]) <= Cap

Return(p) ==
  /\ C!Unlock(p)
  /\ ppc' = [ppc EXCEPT ![p] = "idle"]
  /\ offer' = [offer EXCEPT ![p] = None]
  /\ UNCHANGED <<offers, lifeVars>>

OfferFull(p) ==
  /\ ppc[p] = "offer" /\ ~Fits(p) /\ ~blockOnOverflow
  /\ Return(p)
  /\ UNCHANGED <<confVars, memVars, diskVars, consVars, histVars, faults>>

OfferWait(p) ==
  /\ ppc[p] = "offer" /\ ~Fits(p) /\ blockOnOverflow
  /\ C!Wait(p)
  /\ UNCHANGED <<confVars, memVars, diskVars, lifeVars, prodVars, consVars,
                 histVars, faults>>

OfferWoken(p) ==
  /\ ppc[p] = "offer"
  /\ C!Receive(p) \/ C!Relock(p)
  /\ UNCHANGED <<confVars, memVars, diskVars, lifeVars, prodVars, consVars,
                 histVars, faults>>

OfferCtxDone(p) ==
  /\ ppc[p] = "offer"
  /\ C!CtxDone(p)
  /\ ppc' = [ppc EXCEPT ![p] = "cancelled"]
  /\ UNCHANGED <<confVars, memVars, diskVars, lifeVars, offer, offers, consVars,
                 histVars, faults>>

OfferCtxRelock(p) ==
  /\ ppc[p] = "cancelled"
  /\ C!CtxRelock(p) \/ C!Drain(p)
  /\ UNCHANGED <<confVars, memVars, diskVars, lifeVars, prodVars, consVars,
                 histVars, faults>>

OfferCancelled(p) ==
  /\ ppc[p] = "cancelled"
  /\ Return(p)
  /\ UNCHANGED <<confVars, memVars, diskVars, consVars, histVars, faults>>

\* sync.Cond.Signal on hasMoreElements
SignalElements ==
  IF \E c \in Consumers : cpc[c] = "parked"
    THEN \E c \in Consumers : /\ cpc[c] = "parked"
                              /\ cpc' = [cpc EXCEPT ![c] = "read"]
    ELSE UNCHANGED cpc

\* Mutant of OfferPut: the error of the Batch is not returned.
OfferPutUnchecked(p) ==
  LET m == [meta EXCEPT !.wi = @ + 1, !.isz = @ + offer[p].size]
      s == WithItem(store, meta.wi, offer[p])
  IN /\ ppc[p] = "offer" /\ Fits(p)
     /\ Return(p)
     /\ meta' = m
     /\ BatchOK(m, s) \/ BatchFails(m, s)
     /\ SignalElements
     /\ accepted' = accepted \cup {offer[p]}
     /\ UNCHANGED <<confVars, stopped, refClient, cur, completed, dropped>>

\* putInternal: the metadata advances whether or not the Batch succeeds.
OfferPut(p) ==
  LET m == [meta EXCEPT !.wi = @ + 1, !.isz = @ + offer[p].size]
      s == WithItem(store, meta.wi, offer[p])
  IN /\ ppc[p] = "offer" /\ Fits(p)
     /\ Return(p)
     /\ meta' = m
     /\ \/ BatchOK(m, s) /\ SignalElements /\ accepted' = accepted \cup {offer[p]}
        \/ BatchFails(m, s) /\ UNCHANGED <<cpc, accepted>>
     /\ UNCHANGED <<confVars, stopped, refClient, cur, completed, dropped>>

-----------------------------------------------------------------------------
(* The consumer loop: Read, the export, OnDone *)

ReadLock(c) ==
  /\ cpc[c] = "read"
  /\ C!Lock(c)
  /\ UNCHANGED <<confVars, memVars, diskVars, lifeVars, prodVars, consVars,
                 histVars, faults>>

ReadStopped(c) ==
  /\ cpc[c] = "read" /\ stopped
  /\ C!Unlock(c)
  /\ cpc' = [cpc EXCEPT ![c] = "exit"]
  /\ UNCHANGED <<confVars, memVars, diskVars, lifeVars, prodVars, cur, histVars,
                 faults>>

ReadPark(c) ==
  /\ cpc[c] = "read" /\ ~stopped /\ meta.ri = meta.wi
  /\ C!Unlock(c)
  /\ cpc' = [cpc EXCEPT ![c] = "parked"]
  /\ UNCHANGED <<confVars, memVars, diskVars, lifeVars, prodVars, cur, histVars,
                 faults>>

\* Mutant of Dispatched: the index is not listed.
DispatchedUnlisted == [meta EXCEPT !.ri = @ + 1]

Dispatched == [meta EXCEPT !.ri = @ + 1, !.cdi = Append(@, meta.ri)]

NextRequest == ItemAt(meta.ri, Empty)

\* Mutant of ReadNext: no reference on the client.
ReadNextUnreferenced(c) ==
  /\ cpc[c] = "read" /\ ~stopped /\ meta.ri # meta.wi
  /\ C!Unlock(c)
  /\ meta' = Dispatched
  /\ BatchOK(Dispatched, store)
  /\ cur' = [cur EXCEPT ![c] = [idx |-> meta.ri, el |-> NextRequest]]
  /\ cpc' = [cpc EXCEPT ![c] = "consume"]
  /\ UNCHANGED <<confVars, stopped, refClient, lifeVars, prodVars, histVars>>

\* getNextItem hands out the request and keeps the client open for it.
ReadNext(c) ==
  /\ cpc[c] = "read" /\ ~stopped /\ meta.ri # meta.wi
  /\ C!Unlock(c)
  /\ meta' = Dispatched
  /\ BatchOK(Dispatched, store)
  /\ refClient' = refClient + 1
  /\ cur' = [cur EXCEPT ![c] = [idx |-> meta.ri, el |-> NextRequest]]
  /\ cpc' = [cpc EXCEPT ![c] = "consume"]
  /\ UNCHANGED <<confVars, stopped, lifeVars, prodVars, histVars>>

\* getNextItem fails, because of the Batch or because of Unmarshal: the item is
\* deleted, a producer is told about the space, and Read goes on.
ReadDrop(c) ==
  LET m == Finished(Dispatched, meta.ri)
  IN /\ cpc[c] = "read" /\ ~stopped /\ meta.ri # meta.wi
     /\ C!Signal(c)
     /\ meta' = m
     /\ Fault
     /\ \/ smeta' \in {m, Dispatched} /\ store' = Without(store, {meta.ri})
        \/ smeta' \in {smeta, Dispatched} /\ UNCHANGED store
        \/ UNCHANGED smeta /\ store' = Without(store, {meta.ri})
     /\ dropped' = dropped \cup {NextRequest}
     /\ UNCHANGED <<confVars, stopped, refClient, lifeVars, prodVars, consVars,
                    accepted, completed>>

ReadDropSend(c) ==
  /\ cpc[c] = "read"
  /\ C!Send(c)
  /\ UNCHANGED <<confVars, memVars, diskVars, lifeVars, prodVars, consVars,
                 histVars, faults>>

\* The export ends, for good or because the retry sender was shut down, and
\* onDone takes the lock.
OnDoneLock(c) ==
  /\ cpc[c] = "consume"
  /\ C!Lock(c)
  /\ \/ cpc' = [cpc EXCEPT ![c] = "onDone"]
     \/ retryStopped /\ cpc' = [cpc EXCEPT ![c] = "interrupted"]
  /\ UNCHANGED <<confVars, memVars, diskVars, lifeVars, prodVars, cur, histVars,
                 faults>>

Released(r) == [meta EXCEPT !.isz = IF @ < r.size THEN 0 ELSE @ - r.size]

\* Mutants of OnDoneFinish: the size is not given back; no producer is told.
OnDoneFinishKeepsSize(c) ==
  LET m == Finished(meta, cur[c].idx)
  IN /\ cpc[c] = "onDone"
     /\ C!Signal(c)
     /\ meta' = m
     /\ FinishOnDisk(m, cur[c].idx)
     /\ completed' = completed \cup {cur[c].el}
     /\ cpc' = [cpc EXCEPT ![c] = "unref"]
     /\ UNCHANGED <<confVars, stopped, refClient, lifeVars, prodVars, cur,
                    accepted, dropped>>

OnDoneFinishSilent(c) ==
  LET m == Finished(Released(cur[c].el), cur[c].idx)
  IN /\ cpc[c] = "onDone" /\ at[c] = "crit"
     /\ meta' = m
     /\ FinishOnDisk(m, cur[c].idx)
     /\ completed' = completed \cup {cur[c].el}
     /\ cpc' = [cpc EXCEPT ![c] = "unref"]
     /\ UNCHANGED <<confVars, condVars, stopped, refClient, lifeVars, prodVars,
                    cur, accepted, dropped>>

OnDoneFinish(c) ==
  LET m == Finished(Released(cur[c].el), cur[c].idx)
  IN /\ cpc[c] = "onDone"
     /\ C!Signal(c)
     /\ meta' = m
     /\ FinishOnDisk(m, cur[c].idx)
     /\ completed' = completed \cup {cur[c].el}
     /\ cpc' = [cpc EXCEPT ![c] = "unref"]
     /\ UNCHANGED <<confVars, stopped, refClient, lifeVars, prodVars, cur,
                    accepted, dropped>>

OnDoneSend(c) ==
  /\ cpc[c] = "unref"
  /\ C!Send(c)
  /\ UNCHANGED <<confVars, memVars, diskVars, lifeVars, prodVars, consVars,
                 histVars, faults>>

\* The deferred unrefClient and Unlock.  A request interrupted by the shutdown
\* stays dispatched, to be picked up again after restart.
OnDoneUnref(c) ==
  /\ cpc[c] \in {"unref", "interrupted"}
  /\ C!Unlock(c)
  /\ refClient' = refClient - 1
  /\ cur' = [cur EXCEPT ![c] = None]
  /\ cpc' = [cpc EXCEPT ![c] = "read"]
  /\ UNCHANGED <<confVars, meta, stopped, diskVars, lifeVars, prodVars,
                 histVars, faults>>

-----------------------------------------------------------------------------
(* Shutdown of BaseExporter: retry sender, then queue and consumers; crash *)

ShutdownRetry ==
  /\ life = "run" /\ stops < MaxStops
  /\ retryStopped' = TRUE
  /\ life' = "stopping"
  /\ stops' = stops + 1
  /\ UNCHANGED <<confVars, condVars, memVars, diskVars, pend, prodVars,
                 consVars, histVars, faults>>

ShutdownQueue ==
  /\ life = "stopping" /\ mu = Free
  /\ stopped' = TRUE
  /\ cpc' = [c \in Consumers |-> IF cpc[c] = "parked" THEN "read" ELSE cpc[c]]
  /\ refClient' = refClient - 1
  /\ life' = "draining"
  /\ UNCHANGED <<confVars, condVars, meta, diskVars, pend, retryStopped, stops, prodVars, cur,
                 histVars, faults>>

\* The process is gone; only the storage is left.
Die ==
  /\ mu' = Free /\ waiting' = 0 /\ ch' = 0
  /\ at' = [g \in Goroutines |-> "out"]
  /\ Memory(NewMetadata)
  /\ life' = "down" /\ pend' = <<>> /\ retryStopped' = FALSE
  /\ ppc' = [p \in Producers |-> "idle"]
  /\ offer' = [p \in Producers |-> None]
  /\ cpc' = [c \in Consumers |-> "exit"]
  /\ cur' = [c \in Consumers |-> None]
  /\ UNCHANGED <<confVars, diskVars, offers, histVars, faults>>

\* stopWG.Wait() returns, and the process ends.
ShutdownReturns ==
  /\ life = "draining"
  /\ \A c \in Consumers : cpc[c] = "exit"
  /\ Die
  /\ UNCHANGED stops

Crash ==
  /\ life # "down" /\ stops < MaxStops
  /\ life = "put" => CrashWhileReputting
  /\ Die
  /\ stops' = stops + 1

Start == StartNew \/ StartUnreadable \/ StartLoad \/ StartCleanup \/ StartPut \/ StartDone

Producer(p) ==
  \/ OfferLock(p) \/ OfferFull(p) \/ OfferWait(p) \/ OfferWoken(p)
  \/ OfferCtxDone(p) \/ OfferCtxRelock(p) \/ OfferCancelled(p) \/ OfferPut(p)

Consumer(c) ==
  \/ ReadLock(c) \/ ReadStopped(c) \/ ReadPark(c) \/ ReadNext(c)
  \/ ReadDrop(c) \/ ReadDropSend(c) \/ OnDoneLock(c)
  \/ OnDoneFinish(c) \/ OnDoneSend(c) \/ OnDoneUnref(c)

Next ==
  \/ Start
  \/ \E p \in Producers : Producer(p)
  \/ \E c \in Consumers : Consumer(c)
  \/ ShutdownRetry \/ ShutdownQueue \/ ShutdownReturns
  \/ Crash

Spec == Init /\ [][Next]_vars

\* Goroutines that can go on do, a stopped collector is started again.  Nothing
\* has to fail, to crash, to be cancelled, to be offered or to be shut down.
Fairness ==
  /\ WF_vars(Start)
  /\ \A p \in Producers :
       WF_vars(\/ OfferFull(p) \/ OfferWait(p) \/ OfferWoken(p)
               \/ OfferCtxRelock(p) \/ OfferCancelled(p) \/ OfferPut(p))
  /\ \A c \in Consumers : WF_vars(Consumer(c))
  /\ WF_vars(ShutdownQueue) /\ WF_vars(ShutdownReturns)

FairSpec == Spec /\ Fairness
-----------------------------------------------------------------------------
TypeOK ==
  /\ C!TypeOK
  /\ sizerType \in {"requests", "items"} /\ blockOnOverflow \in BOOLEAN
  /\ meta \in Metadata
  /\ stopped \in BOOLEAN /\ refClient \in Nat
  /\ smeta \in Metadata \cup {None}
  /\ DOMAIN store \subseteq Nat /\ \A i \in DOMAIN store : store[i] \in Items
  /\ life \in {"down", "cleanup", "put", "run", "stopping", "draining"}
  /\ ppc \in [Producers -> {"idle", "offer", "cancelled"}]
  /\ offer \in [Producers -> Requests \cup {None}]
  /\ offers \in [Producers -> 0..MaxOffers]
  /\ cpc \in [Consumers -> {"read", "parked", "consume", "onDone", "interrupted", "unref",
                            "exit"}]
  /\ cur \in [Consumers -> Handed \cup {None}]
  /\ {accepted, completed, dropped} \subseteq SUBSET Items
  /\ stops \in 0..MaxStops /\ faults \in 0..MaxFaults

\* The indices metadata m accounts for: queued or with a consumer.
Indices(m) == m.ri..(m.wi - 1) \cup Range(m.cdi)

\* What the requests stored at the indices I add up to.
SizesAt(I) == MapThenSumSet(LAMBDA i : store[i].size, I)

\* Nothing Offer accepted is ever lost: until its export has ended, a request
\* can be recovered from the storage alone, or, inside Start, is about to be
\* put back.  Requests given up with a logged error, because the storage
\* failed or they could not be decoded, are excepted.
NoLoss ==
  \A r \in accepted \ (completed \cup dropped) :
    \/ smeta # None /\ \E i \in Indices(smeta) \cap DOMAIN store : store[i] = r
    \/ life = "put" /\ \E k \in DOMAIN pend : pend[k] = r

\* Without failures the size is exactly what the unfinished requests add up to,
\* over crashes and restarts, and it respects the capacity.  (An Offer that
\* comes after the client was closed fails and leaves its size behind.)  With
\* the types.
SizeAccounting ==
  /\ TypeOK
  /\ Started /\ faults = 0 /\ refClient > 0 =>
       /\ meta.isz = SizesAt(Indices(meta))
       /\ internalSize <= Cap

\* An index is with one consumer at most, is listed once as dispatched for as
\* long as it is, and is never handed out again.
SingleDispatch ==
  /\ \A c, d \in Consumers :
       c # d /\ cur[c] # None /\ cur[d] # None => cur[c].idx # cur[d].idx
  /\ \A c \in Consumers : cpc[c] \in {"consume", "onDone", "interrupted"} =>
       cur[c].idx \in Range(meta.cdi) /\ cur[c].idx < meta.ri
  /\ Started => IsInjective(meta.cdi)

\* The client stays open as long as somebody may still call it, and is closed
\* when Shutdown returns.
ClientOpenWhileUsed ==
  Started => refClient = (IF stopped THEN 0 ELSE 1)
                         + Cardinality({c \in Consumers : cur[c] # None})

\* After a failed put the write index has advanced and no consumer was woken.
Wedged == meta.ri < meta.wi /\ \A c \in Consumers : cpc[c] = "parked"

\* Start could not read the dispatched requests: it forgot their indices, but
\* not what they counted.
Drifted == requestSize(meta) = 0 /\ meta.isz > 0

\* A producer that blocks on a full queue gets out, if need be with the end of
\* the process.  Three ways to hang are left: a request larger than the whole
\* capacity, and after a storage error parked consumers with work to do, and
\* an empty queue that counts as full, though putInternal would "rely on the
\* sizes being fixed on complete draining".
OfferReturns ==
  []<>(\/ \A p \in Producers : ppc[p] = "idle" \/ Sizeof(offer[p]) > Cap
       \/ faults > 0 /\ (Wedged \/ Drifted))

\* At least once: what Offer accepted is exported in the end, or given up with
\* a logged error, whatever crashes and shutdowns come in between.
AcceptedIsExported == []<>(accepted \subseteq completed \cup dropped)
=============================================================================
