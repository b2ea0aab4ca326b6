------------------------------- MODULE Batcher -------------------------------
(***************************************************************************)
(* The batcher between the sending queue and the exporter                  *)
(* (queuebatch/partition_batcher.go, multi_batcher.go): partitions that    *)
(* merge and split requests into batches, the worker pool that exports     *)
(* them, the timer of each partition, the LRU of partitions and the        *)
(* shutdown of QueueBatch.                                                 *)
(*                                                                         *)
(* A request is the sequence of its items <<request, i>>; item 0 is one    *)
(* that is larger than max_size on its own.  What a goroutine does with    *)
(* currentBatchMu held cannot block and is one step.  mb.lock is held over *)
(* waits and is modelled.  Time is left out: an armed timer may fire, and  *)
(* a partition without data may have been idle for long.                   *)
(***************************************************************************)
EXTENDS Integers, Sequences, FiniteSets, SequencesExt

CONSTANTS Consumers,        \* the queue's consumers
          Keys,             \* what Partitioner.GetKey returns
          Stopper,          \* the goroutine that calls QueueBatch.Shutdown
          Free, None,
          Workers,          \* num_consumers, the size of the worker pool
          LruSize,          \* partitions the LRU holds (10000 in the code)
          MinSize, MaxSize, \* BatchConfig, MaxSize = 0 for no limit
          Streams,          \* what the queue delivers: for each request how many
                            \* items it has, and whether a big one follows them
          MaxRequests       \* bound: requests in a stream

ASSUME BatcherAssumption ==
  /\ Workers \in Nat \ {0} /\ LruSize \in Nat \ {0}
  /\ MinSize \in Nat /\ MaxSize \in Nat /\ (MaxSize > 0 => MinSize <= MaxSize)
  /\ MaxRequests \in Nat \ {0}
  /\ \A s \in Streams : s \in Seq([n : Nat, big : BOOLEAN]) /\ Len(s) <= MaxRequests
  /\ Consumers # {} /\ Stopper \notin Consumers

VARIABLES
  partitioned,  \* a Partitioner is set: multiBatcher, else one partition
  stream,       \* the requests to come and those read
  mbLock,       \* mb.lock
  lru,          \* mb.partitions, most recently used first
  victim,       \* the partition whose eviction waits for a worker
  made,         \* partitions 1..made exist
  key,          \* key of each partition
  active, onEmpty, armed,  \* qb.active, qb.onEmpty # nil, the timer will fire
  cur,          \* qb.currentBatch
  wg,           \* qb.stopWG
  workers,      \* tokens in wp.workers
  running,      \* batches being exported
  pc, jobs,     \* each goroutine: position, batches it still has to flush
  part, req, alone, \* consumers: partition, request, ~isActive
  taken,        \* history: the items of the requests read so far
  refs, failed, \* refCountDone of each request
  answer,       \* what Done was called with
  refused,      \* history: requests whose MergeSplit returned no piece
  sent,         \* history: items exported without an error
  panicked,     \* a nil onEmpty was called
  sd            \* QueueBatch.Shutdown

confVars == <<partitioned, stream>>
mbVars == <<mbLock, lru, victim, made, key>>
timeVars == <<active, onEmpty, armed>>
poolVars == <<workers, running, sent>>
doneVars == <<refs, failed, answer, refused>>
consVars == <<part, req, alone, taken>>
vars == <<confVars, mbVars, timeVars, cur, wg, poolVars, pc, jobs, consVars,
          doneVars, panicked, sd>>

Requests == 1..MaxRequests
Parts == 1..MaxRequests  \* a request makes at most one partition

\* The goroutines beside the consumers: the timer of a partition, its
\* shutdownInternal on a worker after an eviction, and the one of Shutdown.
Timer(p) == [kind |-> "timer", p |-> p]
Evictor(p) == [kind |-> "evict", p |-> p]
Closer(p) == [kind |-> "close", p |-> p]
Helpers == [kind : {"timer", "evict", "close"}, p : Parts]
Goroutines == Consumers \cup Helpers

ASSUME NamesAssumption ==
  /\ Consumers \cap Helpers = {}
  /\ Free # Stopper /\ {Free, Stopper, None} \cap Goroutines = {}

\* An item is the request it belongs to and its place there; a batch has items
\* and the requests whose Done it calls.
Batches ==
  [p : Parts, items : Seq(Requests \X Nat), dones : SUBSET Requests]

Fetched == [id : Requests, key : Keys \cup {None}]

ASSUME NoneAssumption ==
  /\ None \notin Parts /\ None \notin Batches /\ None \notin Fetched
  /\ None \notin Seq(Requests \X Nat) /\ None \notin {"ok", "err"}

PartOf(g) == IF g \in Consumers THEN part[g] ELSE g.p

Init ==
  /\ partitioned \in BOOLEAN /\ stream \in Streams
  /\ mbLock = Free /\ lru = <<>> /\ victim = None
  /\ made = IF partitioned THEN 0 ELSE 1
  /\ key \in [Parts -> {None}]
  /\ active = [p \in Parts |-> TRUE]
  /\ onEmpty = [p \in Parts |-> partitioned]
  /\ armed = [p \in Parts |-> TRUE]
  /\ cur = [p \in Parts |-> None]
  /\ wg = [p \in Parts |-> IF p <= made THEN 1 ELSE 0]
  /\ workers = Workers /\ running = {} /\ sent = {}
  /\ pc = [g \in Goroutines |-> IF g \in Consumers THEN "idle"
                                ELSE IF g = Timer(1) /\ made = 1 THEN "select"
                                ELSE "none"]
  /\ jobs = [g \in Goroutines |-> <<>>]
  /\ part = [c \in Consumers |-> 1]
  /\ req = [c \in Consumers |-> None]
  /\ alone = [c \in Consumers |-> FALSE]
  /\ taken = [r \in Requests |-> None]
  /\ refs = [r \in Requests |-> 0]
  /\ failed = [r \in Requests |-> FALSE]
  /\ answer = [r \in Requests |-> None]
  /\ refused = {}
  /\ panicked = FALSE /\ sd = "running"

-----------------------------------------------------------------------------
(* MergeSplit *)

Items(r, shape) ==
  [i \in 1..shape.n |-> <<r, i>>] \o (IF shape.big THEN <<<<r, 0>>>> ELSE <<>>)

IsBig(item) == item[2] = 0

\* s cut into pieces of MaxSize items, the last one with what is left.
Chunks(s) ==
  [i \in 1..((Len(s) + MaxSize - 1) \div MaxSize) |->
     SubSeq(s, (i - 1) * MaxSize + 1,
            IF i * MaxSize < Len(s) THEN i * MaxSize ELSE Len(s))]

\* The items before the first one that cannot be extracted, all of s if none.
Extractable(s) ==
  LET big == {i \in DOMAIN s : IsBig(s[i])}
  IN  IF big = {} THEN s
      ELSE SubSeq(s, 1, (CHOOSE i \in big : \A j \in big : i <= j) - 1)

\* split: the pieces, and whether it gave up and dropped the rest.
MergeSplit(s) ==
  IF MaxSize = 0 \/ (Extractable(s) = s /\ Len(s) <= MaxSize)
    THEN [pieces |-> <<s>>, err |-> FALSE]
    ELSE [pieces |-> Chunks(Extractable(s)), err |-> Extractable(s) # s]

-----------------------------------------------------------------------------
(* Consume *)

\* A consumer reads a request.  Without a partitioner the queue runs one
\* consumer, so no other is at work.
Take(c) ==
  /\ pc[c] = "idle" /\ sd = "running"
  /\ partitioned \/ \A d \in Consumers : pc[d] = "idle"
  /\ \E r \in DOMAIN stream, k \in (IF partitioned THEN Keys ELSE {None}) :
       /\ taken[r] = None /\ \A q \in 1..(r - 1) : taken[q] # None
       /\ taken' = [taken EXCEPT ![r] = Items(r, stream[r])]
       /\ req' = [req EXCEPT ![c] = [id |-> r, key |-> k]]
  /\ pc' = [pc EXCEPT ![c] = IF partitioned THEN "get" ELSE "consume"]
  /\ UNCHANGED <<confVars, mbVars, timeVars, cur, wg, poolVars, jobs, part, alone,
                 doneVars, panicked, sd>>

InLru(k) == \E i \in DOMAIN lru : key[lru[i]] = k

\* getPartition, fast path: Get makes the partition the most recent one.
GetExisting(c) ==
  /\ pc[c] = "get" /\ mbLock = Free
  /\ \E i \in DOMAIN lru :
       /\ key[lru[i]] = req[c].key
       /\ part' = [part EXCEPT ![c] = lru[i]]
       /\ lru' = <<lru[i]>> \o RemoveAt(lru, i)
  /\ pc' = [pc EXCEPT ![c] = "consume"]
  /\ UNCHANGED <<confVars, mbLock, victim, made, key, timeVars, cur, wg, poolVars,
                 jobs, req, alone, taken, doneVars, panicked, sd>>

\* Start: the timer goroutine of partition p.
StartTimer(p, pcs) ==
  /\ pc' = [pcs EXCEPT ![Timer(p)] = "select"]
  /\ wg' = [wg EXCEPT ![p] = @ + 1]

\* getPartition makes a partition.  When that overflows the LRU, the eviction
\* callback waits for a worker with mb.lock held (Evict).
GetNew(c) ==
  /\ pc[c] = "get" /\ mbLock = Free
  /\ ~InLru(req[c].key)
  /\ made' = made + 1
  /\ key' = [key EXCEPT ![made + 1] = req[c].key]
  /\ part' = [part EXCEPT ![c] = made + 1]
  /\ IF Len(lru) < LruSize
       THEN /\ lru' = <<made + 1>> \o lru
            /\ StartTimer(made + 1, [pc EXCEPT ![c] = "consume"])
            /\ UNCHANGED <<mbLock, victim>>
       ELSE /\ lru' = <<made + 1>> \o Front(lru)
            /\ victim' = Last(lru)
            /\ mbLock' = c
            /\ pc' = [pc EXCEPT ![c] = "evict"]
            /\ UNCHANGED wg
  /\ UNCHANGED <<confVars, timeVars, cur, poolVars, jobs, req, alone, taken, doneVars,
                 panicked, sd>>

\* mb.wp.execute(pb.shutdownInternal), called by a getPartition that goes on to
\* start its own partition, or by the onEmpty of a timer.
Evict(g) ==
  /\ pc[g] = "evict" /\ workers > 0
  /\ workers' = workers - 1
  /\ mbLock' = Free /\ victim' = None
  /\ IF g \in Consumers
       THEN StartTimer(part[g],
                       [pc EXCEPT ![Evictor(victim)] = "begin", ![g] = "consume"])
       ELSE /\ pc' = [pc EXCEPT ![Evictor(victim)] = "begin", ![g] = "select"]
            /\ UNCHANGED wg
  /\ UNCHANGED <<confVars, lru, made, key, timeVars, cur, running, sent, jobs,
                 consVars, doneVars, panicked, sd>>

\* Where a goroutine goes when it has nothing left to flush.
Return(g) ==
  IF g \in Consumers THEN (IF alone[g] THEN "self" ELSE "idle")
  ELSE IF g.kind = "timer" THEN "select" ELSE "wait"

\* Mutant of SeesInactive: Consume leaves the batch to the timer.
SeesInactiveNever(c) == FALSE

\* ~isActive: the consumer has to flush what it left in the partition.
SeesInactive(c) == ~active[part[c]]

\* What consumeInternal merges: the current batch, if any, and the request.
Merged(c) ==
  LET p == part[c]
  IN  (IF cur[p] = None THEN <<>> ELSE cur[p].items) \o taken[req[c].id]

\* MergeSplit returned nothing: Done is called for the new request only.  The
\* items it merged into the current batch stay there.
ConsumeRefused(c) ==
  LET p == part[c]
      r == req[c].id
  IN  /\ pc[c] = "consume"
      /\ MergeSplit(Merged(c)).pieces = <<>>
      /\ answer' = [answer EXCEPT ![r] = "err"]
      /\ refused' = refused \cup {r}
      /\ cur' = IF cur[p] = None THEN cur
                ELSE [cur EXCEPT ![p].items = Merged(c)]
      /\ pc' = [pc EXCEPT ![c] = IF SeesInactive(c) THEN "self" ELSE "idle"]
      /\ alone' = [alone EXCEPT ![c] = FALSE]
      /\ req' = [req EXCEPT ![c] = None]
      /\ UNCHANGED <<confVars, mbVars, timeVars, wg, poolVars, jobs, part, taken,
                     refs, failed, panicked, sd>>

\* Mutant of NumRefs: the dropped data is not counted.
NumRefsPieces(ms) == Len(ms.pieces)

\* The dropped data counts as one more batch.
NumRefs(ms) == Len(ms.pieces) + (IF ms.err THEN 1 ELSE 0)

KeepLast(ms) == Len(Last(ms.pieces)) < MinSize

\* The batch made of piece i: the first one carries the current batch on.
BatchOf(c, ms, i) ==
  LET p == part[c]
      r == req[c].id
  IN  [p |-> p, items |-> ms.pieces[i],
       dones |-> IF i = 1 /\ cur[p] # None THEN cur[p].dones \cup {r} ELSE {r}]

\* All pieces but the last are to be flushed, and the last one too unless it
\* is smaller than MinSize.  The dropped data is done at once.
ConsumeSplit(c) ==
  LET p == part[c]
      r == req[c].id
      ms == MergeSplit(Merged(c))
      n == Len(ms.pieces)
      keep == KeepLast(ms)
      flush == [i \in 1..(IF keep THEN n - 1 ELSE n) |-> BatchOf(c, ms, i)]
      next == IF SeesInactive(c) THEN "self" ELSE "idle"
  IN  /\ pc[c] = "consume"
      /\ ms.pieces # <<>>
      /\ refs' = [refs EXCEPT ![r] = NumRefs(ms) - (IF ms.err THEN 1 ELSE 0)]
      /\ failed' = [failed EXCEPT ![r] = ms.err]
      /\ cur' = [cur EXCEPT ![p] = IF keep THEN BatchOf(c, ms, n) ELSE None]
      /\ armed' = [armed EXCEPT ![p] = @ \/ (keep /\ (cur[p] = None \/ n > 1))]
      /\ jobs' = [jobs EXCEPT ![c] = flush]
      /\ alone' = [alone EXCEPT ![c] = flush # <<>> /\ SeesInactive(c)]
      /\ req' = [req EXCEPT ![c] = None]
      /\ pc' = [pc EXCEPT ![c] = IF flush = <<>> THEN next ELSE "flush"]
      /\ UNCHANGED <<confVars, mbVars, active, onEmpty, wg, poolVars, part, taken,
                     answer, refused, panicked, sd>>

-----------------------------------------------------------------------------
(* flush and the worker pool *)

\* stopWG.Add, before the flush waits for a worker.
FlushAdd(g) ==
  /\ pc[g] = "flush"
  /\ wg' = [wg EXCEPT ![PartOf(g)] = @ + 1]
  /\ pc' = [pc EXCEPT ![g] = "execute"]
  /\ UNCHANGED <<confVars, mbVars, timeVars, cur, poolVars, jobs, consVars, doneVars,
                 panicked, sd>>

\* wp.execute: wait for a worker and hand the batch to it.
FlushExecute(g) ==
  /\ pc[g] = "execute" /\ workers > 0
  /\ workers' = workers - 1
  /\ running' = running \cup {Head(jobs[g])}
  /\ jobs' = [jobs EXCEPT ![g] = Tail(@)]
  /\ pc' = [pc EXCEPT ![g] = IF Len(jobs[g]) > 1 THEN "flush" ELSE Return(g)]
  /\ alone' = IF g \in Consumers /\ Len(jobs[g]) = 1
                THEN [alone EXCEPT ![g] = FALSE] ELSE alone
  /\ UNCHANGED <<confVars, mbVars, timeVars, cur, wg, sent, part, req, taken, doneVars,
                 panicked, sd>>

\* Mutant of OnDone: the error of the last piece only.
OnDoneLastError(dones, ok) ==
  /\ refs' = [r \in Requests |-> IF r \in dones THEN refs[r] - 1 ELSE refs[r]]
  /\ answer' = [r \in Requests |->
                  IF r \in dones /\ refs[r] = 1
                    THEN (IF ok THEN "ok" ELSE "err")
                    ELSE answer[r]]
  /\ UNCHANGED failed

\* multiDone.OnDone(err) over refCountDone.
OnDone(dones, ok) ==
  /\ refs' = [r \in Requests |-> IF r \in dones THEN refs[r] - 1 ELSE refs[r]]
  /\ failed' = [r \in Requests |-> failed[r] \/ (r \in dones /\ ~ok)]
  /\ answer' = [r \in Requests |->
                  IF r \in dones /\ refs[r] = 1
                    THEN (IF failed'[r] THEN "err" ELSE "ok")
                    ELSE answer[r]]

\* Mutant of Exported: the worker is not given back.
ExportedKeepsWorker(b, ok) ==
  /\ b \in running
  /\ running' = running \ {b}
  /\ wg' = [wg EXCEPT ![b.p] = @ - 1]
  /\ sent' = IF ok THEN sent \cup ToSet(b.items) ELSE sent
  /\ OnDone(b.dones, ok)
  /\ UNCHANGED <<confVars, mbVars, timeVars, cur, workers, pc, jobs, consVars, refused,
                 panicked, sd>>

\* The export returns: OnDone, stopWG.Done, and the worker is free again.
Exported(b, ok) ==
  /\ b \in running
  /\ running' = running \ {b}
  /\ workers' = workers + 1
  /\ wg' = [wg EXCEPT ![b.p] = @ - 1]
  /\ sent' = IF ok THEN sent \cup ToSet(b.items) ELSE sent
  /\ OnDone(b.dones, ok)
  /\ UNCHANGED <<confVars, mbVars, timeVars, cur, pc, jobs, consVars, refused,
                 panicked, sd>>

-----------------------------------------------------------------------------
(* flushCurrentBatchOrRemovePartition, called by the timer, by a consumer    *)
(* that found its partition inactive, and by shutdownInternal                *)

AtFlush(g) ==
  \/ pc[g] \in {"self", "last"}
  \/ pc[g] = "select" /\ armed[g.p]

FlushCurrent(g) ==
  LET p == PartOf(g)
  IN  /\ AtFlush(g) /\ cur[p] # None
      /\ cur' = [cur EXCEPT ![p] = None]
      /\ armed' = [armed EXCEPT ![p] = TRUE]
      /\ jobs' = [jobs EXCEPT ![g] = <<cur[p]>>]
      /\ pc' = [pc EXCEPT ![g] = "flush"]
      /\ UNCHANGED <<confVars, mbVars, active, onEmpty, wg, poolVars, consVars,
                     doneVars, panicked, sd>>

NothingToFlush(g) ==
  LET p == PartOf(g)
  IN  /\ AtFlush(g) /\ cur[p] = None
      /\ armed' = [armed EXCEPT ![p] = TRUE]
      /\ pc' = [pc EXCEPT ![g] = Return(g)]
      /\ UNCHANGED <<confVars, mbVars, active, onEmpty, cur, wg, poolVars, jobs,
                     consVars, doneVars, panicked, sd>>

\* Idle for ten timeouts: the timer is not reset, currentBatchMu is released.
Idle(p) ==
  /\ AtFlush(Timer(p)) /\ cur[p] = None /\ onEmpty[p]
  /\ armed' = [armed EXCEPT ![p] = FALSE]
  /\ pc' = [pc EXCEPT ![Timer(p)] = "onEmpty"]
  /\ UNCHANGED <<confVars, mbVars, active, onEmpty, cur, wg, poolVars, jobs,
                 consVars, doneVars, panicked, sd>>

\* qb.onEmpty() reads the field again, without the lock.
CallOnEmpty(p) ==
  /\ pc[Timer(p)] = "onEmpty"
  /\ pc' = [pc EXCEPT ![Timer(p)] = "lock"]
  /\ panicked' = ~onEmpty[p]
  /\ UNCHANGED <<confVars, mbVars, timeVars, cur, wg, poolVars, jobs, consVars,
                 doneVars, sd>>

\* onEmpty removes whatever partition is in the LRU under its key.
RemovePartition(p) ==
  /\ pc[Timer(p)] = "lock" /\ mbLock = Free
  /\ IF InLru(key[p])
       THEN \E i \in DOMAIN lru :
              /\ key[lru[i]] = key[p]
              /\ lru' = RemoveAt(lru, i)
              /\ victim' = lru[i]
              /\ mbLock' = Timer(p)
              /\ pc' = [pc EXCEPT ![Timer(p)] = "evict"]
       ELSE /\ pc' = [pc EXCEPT ![Timer(p)] = "select"]
            /\ UNCHANGED <<lru, victim, mbLock>>
  /\ UNCHANGED <<confVars, made, key, timeVars, cur, wg, poolVars, jobs, consVars,
                 doneVars, panicked, sd>>

\* case <-qb.shutdownCh
TimerExit(p) ==
  /\ pc[Timer(p)] = "select" /\ ~active[p]
  /\ pc' = [pc EXCEPT ![Timer(p)] = "exit"]
  /\ wg' = [wg EXCEPT ![p] = @ - 1]
  /\ UNCHANGED <<confVars, mbVars, timeVars, cur, poolVars, jobs, consVars, doneVars,
                 panicked, sd>>

-----------------------------------------------------------------------------
(* shutdownInternal, on a worker (Evictor) or in Shutdown (Closer) *)

\* shutdownInternal returns; an evictor's worker is free again.
Finish(g) ==
  /\ pc' = [pc EXCEPT ![g] = "exit"]
  /\ workers' = IF g.kind = "evict" THEN workers + 1 ELSE workers
  /\ UNCHANGED <<confVars, mbVars, armed, cur, wg, running, sent, jobs, consVars,
                 doneVars, panicked, sd>>

Deactivate(g) ==
  /\ pc[g] = "begin" /\ active[g.p]
  /\ active' = [active EXCEPT ![g.p] = FALSE]
  /\ onEmpty' = [onEmpty EXCEPT ![g.p] = FALSE]
  /\ pc' = [pc EXCEPT ![g] = "last"]
  /\ UNCHANGED <<confVars, mbVars, armed, cur, wg, poolVars, jobs, consVars,
                 doneVars, panicked, sd>>

AlreadyInactive(g) ==
  /\ pc[g] = "begin" /\ ~active[g.p]
  /\ Finish(g) /\ UNCHANGED <<active, onEmpty>>

\* Mutant of Stopped: it does not wait.
StoppedAtOnce(g) ==
  /\ pc[g] = "wait"
  /\ Finish(g) /\ UNCHANGED <<active, onEmpty>>

\* qb.stopWG.Wait()
Stopped(g) ==
  /\ pc[g] = "wait" /\ wg[g.p] = 0
  /\ Finish(g) /\ UNCHANGED <<active, onEmpty>>

-----------------------------------------------------------------------------
(* QueueBatch.Shutdown: the queue, whose consumers it waits for, then the    *)
(* batcher.  multiBatcher.Shutdown holds mb.lock to its end.                 *)

StopQueue ==
  /\ sd = "running" /\ \A c \in Consumers : pc[c] = "idle"
  /\ sd' = "stopped"
  /\ UNCHANGED <<confVars, mbVars, timeVars, cur, wg, poolVars, pc, jobs, consVars,
                 doneVars, panicked>>

ShutdownPartitions ==
  /\ sd = "stopped" /\ mbLock = Free
  /\ mbLock' = IF partitioned THEN Stopper ELSE Free
  /\ LET closing == IF partitioned THEN ToSet(lru) ELSE {1}
     IN  pc' = [g \in Goroutines |-> IF \E p \in closing : g = Closer(p)
                                       THEN "begin" ELSE pc[g]]
  /\ sd' = "waiting"
  /\ UNCHANGED <<confVars, lru, victim, made, key, timeVars, cur, wg, poolVars, jobs,
                 consVars, doneVars, panicked>>

PartitionsShut ==
  /\ sd = "waiting"
  /\ \A p \in Parts : pc[Closer(p)] \in {"none", "exit"}
  /\ sd' = IF partitioned THEN "purge" ELSE "done"
  /\ UNCHANGED <<confVars, mbVars, timeVars, cur, wg, poolVars, pc, jobs, consVars,
                 doneVars, panicked>>

\* Purge calls the eviction callback for every partition, in any order.
Purge ==
  /\ sd = "purge" /\ workers > 0
  /\ \E i \in DOMAIN lru :
       /\ pc' = [pc EXCEPT ![Evictor(lru[i])] = "begin"]
       /\ lru' = RemoveAt(lru, i)
  /\ workers' = workers - 1
  /\ UNCHANGED <<confVars, mbLock, victim, made, key, timeVars, cur, wg, running, sent,
                 jobs, consVars, doneVars, panicked, sd>>

Purged ==
  /\ sd = "purge" /\ lru = <<>>
  /\ mbLock' = Free /\ sd' = "done"
  /\ UNCHANGED <<confVars, lru, victim, made, key, timeVars, cur, wg, poolVars, pc,
                 jobs, consVars, doneVars, panicked>>

-----------------------------------------------------------------------------
Consume(c) ==
  GetExisting(c) \/ GetNew(c) \/ ConsumeRefused(c) \/ ConsumeSplit(c)

Flush(g) ==
  Evict(g) \/ FlushCurrent(g) \/ NothingToFlush(g) \/ FlushAdd(g) \/ FlushExecute(g)

TimerStep(p) == CallOnEmpty(p) \/ RemovePartition(p) \/ TimerExit(p)

ShutdownInternal(g) == Deactivate(g) \/ AlreadyInactive(g) \/ Stopped(g)

Shutdown == ShutdownPartitions \/ PartitionsShut \/ Purge \/ Purged

Export == \E b \in running, ok \in BOOLEAN : Exported(b, ok)

Next ==
  /\ ~panicked
  /\ \/ \E c \in Consumers : Take(c) \/ Consume(c)
     \/ \E g \in Goroutines : Flush(g)
     \/ \E p \in Parts : Idle(p) \/ TimerStep(p)
     \/ \E g \in Helpers : ShutdownInternal(g)
     \/ Export
     \/ StopQueue \/ Shutdown

Spec == Init /\ [][Next]_vars

\* The Go scheduler, mutexes and channels: a goroutine that can go on does, an
\* armed timer fires, an export returns.  Nobody has to send a request or to
\* call Shutdown, and no partition has to be idle.
Fairness ==
  /\ \A c \in Consumers : WF_vars(~panicked /\ Consume(c))
  /\ \A g \in Goroutines : WF_vars(~panicked /\ Flush(g))
  /\ \A p \in Parts : WF_vars(~panicked /\ TimerStep(p))
  /\ \A g \in Helpers : WF_vars(~panicked /\ ShutdownInternal(g))
  /\ WF_vars(~panicked /\ Export) /\ WF_vars(~panicked /\ Shutdown)

FairSpec == Spec /\ Fairness
-----------------------------------------------------------------------------
TypeOK ==
  /\ partitioned \in BOOLEAN /\ stream \in Streams /\ panicked \in BOOLEAN
  /\ mbLock \in {Free, Stopper} \cup Goroutines
  /\ made \in 0..MaxRequests /\ key \in [Parts -> Keys \cup {None}]
  /\ lru \in Seq(1..made) /\ Len(lru) <= LruSize
  /\ victim \in (1..made) \cup {None}
  /\ active \in [Parts -> BOOLEAN] /\ onEmpty \in [Parts -> BOOLEAN]
  /\ armed \in [Parts -> BOOLEAN]
  /\ \A p \in Parts : cur[p] = None \/ (cur[p] \in Batches /\ cur[p].p = p)
  /\ wg \in [Parts -> Nat]
  /\ workers \in 0..Workers /\ running \subseteq Batches
  /\ pc \in [Goroutines -> {"idle", "get", "evict", "consume", "flush", "execute", "self",
                            "none", "select", "onEmpty", "lock", "exit", "begin", "last",
                            "wait"}]
  /\ jobs \in [Goroutines -> Seq(Batches)]
  /\ refs \in [Requests -> Int] /\ failed \in [Requests -> BOOLEAN]
  /\ answer \in [Requests -> {None, "ok", "err"}]
  /\ sd \in {"running", "stopped", "waiting", "purge", "done"}

\* The batches that are neither exported nor given up.
Current == {cur[p] : p \in {q \in Parts : cur[q] # None}}
Queued == UNION {ToSet(jobs[g]) : g \in Goroutines}
Pending == Current \cup Queued \cup running

\* A request the batcher has taken over from the queue's consumer.
Consumed(r) == taken[r] # None /\ \A c \in Consumers : req[c] = None \/ req[c].id # r

\* refCountDone never miscounts: until a request is answered there is one
\* reference per batch that will call its Done, and afterwards no batch is left
\* to call it, so Done is called exactly once, after the last of its pieces,
\* however they were split, merged with others and exported in parallel.  (With
\* the types.)
DoneExactlyOnce ==
  /\ TypeOK
  /\ \A r \in Requests : Consumed(r) =>
       LET n == Cardinality({b \in Pending : r \in b.dones})
       IN  /\ refs[r] = n
           /\ answer[r] = None <=> n > 0

\* An item is in one pending batch at most, and in none once it was sent.
ItemsOnce ==
  \A b \in Pending :
    /\ ToSet(b.items) \cap sent = {}
    /\ \A d \in Pending : b # d => ToSet(b.items) \cap ToSet(d.items) = {}

\* The answer is the joined one: a request is reported as exported when every
\* item of it was, and as failed when one was not.  A request that MergeSplit
\* refused is the exception (its items may have stayed in the current batch),
\* and so is one without items, which shares the fate of its batch.  And no
\* item is exported twice.
AnswerIsTrue ==
  /\ ItemsOnce
  /\ \A r \in Requests :
       /\ answer[r] = "ok" => ToSet(taken[r]) \subseteq sent
       /\ (answer[r] = "err" /\ r \notin refused /\ taken[r] # <<>>)
            => ~(ToSet(taken[r]) \subseteq sent)

\* Somebody will flush a batch that waits in a partition: the timer or the
\* shutdownInternal to come while the partition is active, and afterwards the
\* shutdownInternal or the consumer that saw it inactive.
Guarded(p) ==
  IF active[p]
    THEN \/ pc[Timer(p)] = "select" /\ armed[p]
         \/ pc[Timer(p)] \in {"onEmpty", "lock", "evict", "flush", "execute"}
         \/ victim = p
         \/ \E g \in {Evictor(p), Closer(p)} : pc[g] = "begin"
    ELSE \/ \E g \in {Evictor(p), Closer(p)} : pc[g] = "last"
         \/ \E c \in Consumers : part[c] = p /\ (pc[c] = "self" \/ alone[c])

NoBatchStranded == \A p \in Parts : cur[p] # None => Guarded(p)

\* Workers that run the shutdownInternal of an evicted partition.
BusyEvictors == Cardinality({p \in Parts : pc[Evictor(p)] \notin {"none", "exit"}})

\* When Shutdown has returned, only a partition that was evicted before it,
\* which it neither closes nor waits for, may still have something to export.
ShutdownDrains ==
  sd = "done" => \A b \in Pending : pc[Closer(b.p)] = "none"

\* onEmpty, tested under the lock and called without it, is nil in the call only
\* while the shutdownInternal of the same partition is under way, which waits
\* for the goroutine that makes the call.
NilOnEmptyInOwnShutdown ==
  panicked => \E p \in Parts :
    /\ pc[Timer(p)] = "lock" /\ ~active[p] /\ wg[p] > 0
    /\ \E g \in Helpers : g.p = p /\ pc[g] \in {"last", "flush", "execute", "wait"}

\* The three ways in which everything can stop for good: a timer waits for
\* mb.lock, held by a Shutdown that waits for that timer or for a worker;
\* evictions hold every worker and need one more, or wait for one who does;
\* onEmpty was nil when it was called.
TimerBehindShutdown == mbLock = Stopper /\ \E p \in Parts : pc[Timer(p)] = "lock"

PoolOfEvictions ==
  /\ BusyEvictors = Workers
  /\ sd = "purge" \/ \E g \in Goroutines : pc[g] \in {"execute", "evict"}

Quiet ==
  /\ sd = "done" /\ Pending = {}
  /\ \A c \in Consumers : pc[c] = "idle"
  /\ \A g \in Helpers : pc[g] \in {"none", "exit"}

\* There is no other deadlock between consumers, timers, evictions, exports and
\* Shutdown: where nobody can go on, the work is done or one of the three.
NoOtherDeadlock ==
  \/ ENABLED <<Next>>_vars \/ Quiet \/ TimerBehindShutdown \/ PoolOfEvictions
  \/ panicked /\ NilOnEmptyInOwnShutdown

\* Shutdown of the batcher returns.
ShutdownEnds == sd = "waiting" ~> sd = "done" \/ panicked
=============================================================================
