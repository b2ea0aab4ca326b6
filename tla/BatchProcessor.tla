---------------------------- MODULE BatchProcessor ----------------------------
(***************************************************************************)
(* The batch processor (processor/batchprocessor/batch_processor.go): one  *)
(* shard, or one per combination of metadata values, each a goroutine that *)
(* reads items from a channel, cuts its batch into pieces and hands them   *)
(* to the next consumer.  An item is the data of one caller of consume; a  *)
(* span is one of its records.                                             *)
(*                                                                         *)
(* The next consumer is not here: call[k] is the piece shard k has passed  *)
(* to it and ans[k] its answer (module Exporter).  The code of sync.Map,   *)
(* of the channels and of time.Timer is external.                          *)
(***************************************************************************)
EXTENDS Integers, Sequences, FiniteSets

CONSTANTS Callers,   \* goroutines that call consume once each
          Keys,      \* combinations of metadata values
          OneShard,  \* the key of the shard of singleShardBatcher
          Items,     \* what each caller may bring: a key and a number of spans
          Configs,   \* configurations, before Validate
          ChanCap,   \* runtime.NumCPU()
          None

ASSUME ProcessorAssumption ==
  /\ OneShard \in Keys
  /\ Items \in [Callers -> SUBSET [key : Keys, n : Nat \ {0}]]
  /\ ChanCap \in Nat \ {0} /\ None \notin {"ok", "err"}
  /\ \A c \in Configs :
       /\ c.multi \in BOOLEAN /\ c.timed \in BOOLEAN
       /\ c.limit \in Nat /\ c.size \in Nat /\ c.max \in Nat

VARIABLES
  cfg,      \* the configuration; timed says timeout # 0
  item,     \* what each caller brings: its key and its number of spans
  cpc,      \* callers: position in consume
  seen,     \* history: there was a shard for the call when it began
  created,  \* mb.batchers: the combinations that have a shard
  mbSize,   \* mb.size
  chan,     \* shard.newItem: the callers whose items it holds
  batch,    \* shard.batch: its spans, in order
  spc,      \* shards: position in startLoop
  sent,     \* the local variable of processItem
  timer,    \* shard.timer: "none", "armed", "fired" (C holds a value), "taken"
  call, ans,\* the piece with the next consumer, and its answer
  closed,   \* shutdownC
  early     \* history: the callers answered when Shutdown began

callVars == <<call, ans>>
consumeVars == <<item, cpc, seen, created, mbSize>>
shardVars == <<batch, spc, sent, timer>>
processorVars == <<cfg, consumeVars, chan, shardVars, callVars, closed, early>>

Spans == UNION {UNION {{<<c, j>> : j \in 1..i.n} : i \in Items[c]} : c \in Callers}

\* The spans of a caller's item, in order.
SpansOf(c) == [j \in 1..item[c].n |-> <<c, j>>]

Validate(c) == c.max > 0 => c.max >= c.size

HasTimer == cfg.timed /\ cfg.size # 0

Init ==
  /\ cfg \in {c \in Configs : Validate(c)}
  /\ item = [c \in Callers |-> None]
  /\ cpc = [c \in Callers |-> "idle"]
  /\ seen = [c \in Callers |-> FALSE]
  /\ created = IF cfg.multi THEN {} ELSE {OneShard}
  /\ mbSize = 0
  /\ chan = [k \in Keys |-> <<>>] /\ batch = [k \in Keys |-> <<>>]
  /\ spc = [k \in Keys |-> IF k \in created THEN "select" ELSE "none"]
  /\ sent = [k \in Keys |-> FALSE]
  /\ timer = [k \in Keys |-> IF k \in created /\ HasTimer THEN "armed" ELSE "none"]
  /\ call = [k \in Keys |-> <<>>] /\ ans = [k \in Keys |-> None]
  /\ closed = FALSE /\ early = {}

-----------------------------------------------------------------------------
(* consume *)

ConsumeBegin(c) ==
  /\ cpc[c] = "idle"
  /\ \E i \in Items[c] :
       /\ item' = [item EXCEPT ![c] = i]
       /\ seen' = [seen EXCEPT ![c] = i.key \in created]
  /\ cpc' = [cpc EXCEPT ![c] = IF cfg.multi THEN "load" ELSE "send"]
  /\ UNCHANGED <<cfg, created, mbSize, chan, shardVars, callVars, closed, early>>

LimitReached == cfg.limit # 0 /\ mbSize >= cfg.limit

\* Mutant of ConsumeLoad: the limit comes before the lookup.
ConsumeLoadLimitFirst(c) ==
  /\ cpc[c] = "load"
  /\ cpc' = [cpc EXCEPT ![c] =
              IF item[c].key \in created /\ ~LimitReached THEN "send" ELSE "lock"]
  /\ UNCHANGED <<cfg, item, seen, created, mbSize, chan, shardVars, callVars, closed, early>>

\* batchers.Load, without the lock.
ConsumeLoad(c) ==
  /\ cpc[c] = "load"
  /\ cpc' = [cpc EXCEPT ![c] = IF item[c].key \in created THEN "send" ELSE "lock"]
  /\ UNCHANGED <<cfg, item, seen, created, mbSize, chan, shardVars, callVars, closed, early>>

\* errTooManyBatchers.
ConsumeRefused(c) ==
  /\ cpc[c] = "lock" /\ LimitReached
  /\ cpc' = [cpc EXCEPT ![c] = "refused"]
  /\ UNCHANGED <<cfg, item, seen, created, mbSize, chan, shardVars, callVars, closed, early>>

\* LoadOrStore under the lock: a new shard is started and counted.
ConsumeCreate(c) ==
  LET k == item[c].key IN
  /\ cpc[c] = "lock" /\ ~LimitReached
  /\ created' = created \cup {k}
  /\ IF k \in created
     THEN UNCHANGED <<mbSize, spc, timer>>
     ELSE /\ mbSize' = mbSize + 1
          /\ spc' = [spc EXCEPT ![k] = "select"]
          /\ timer' = [timer EXCEPT ![k] = IF HasTimer THEN "armed" ELSE "none"]
  /\ cpc' = [cpc EXCEPT ![c] = "send"]
  /\ UNCHANGED <<cfg, item, seen, chan, batch, sent, callVars, closed, early>>

ShardOf(c) == IF cfg.multi THEN item[c].key ELSE OneShard

\* newItem <- data: it blocks while the channel is full.
ConsumeSend(c) ==
  /\ cpc[c] = "send"
  /\ Len(chan[ShardOf(c)]) < ChanCap
  /\ chan' = [chan EXCEPT ![ShardOf(c)] = Append(@, c)]
  /\ cpc' = [cpc EXCEPT ![c] = "accepted"]
  /\ UNCHANGED <<cfg, item, seen, created, mbSize, shardVars, callVars, closed, early>>

Consume(c) ==
  ConsumeLoad(c) \/ ConsumeRefused(c) \/ ConsumeCreate(c) \/ ConsumeSend(c)

-----------------------------------------------------------------------------
(* shards *)

\* case item := <-newItem, of either select, with batch.add.
ShardReceive(k) ==
  /\ spc[k] \in {"select", "drain"} /\ chan[k] # <<>>
  /\ batch' = [batch EXCEPT ![k] = @ \o SpansOf(Head(chan[k]))]
  /\ chan' = [chan EXCEPT ![k] = Tail(@)]
  /\ spc' = [spc EXCEPT ![k] = IF @ = "select" THEN "process" ELSE "drainProcess"]
  /\ sent' = [sent EXCEPT ![k] = FALSE]
  /\ UNCHANGED <<cfg, consumeVars, timer, callVars, closed, early>>

\* How many spans split takes off the batch.
PieceLen(k) ==
  IF cfg.max > 0 /\ Len(batch[k]) > cfg.max THEN cfg.max ELSE Len(batch[k])

\* sendItems up to the call of the next consumer.
sendItems(k) ==
  /\ call' = [call EXCEPT ![k] = SubSeq(batch[k], 1, PieceLen(k))]
  /\ batch' = [batch EXCEPT ![k] = SubSeq(@, PieceLen(k) + 1, Len(@))]

processing(k) == spc[k] \in {"process", "drainProcess"}

mustSend(k) == batch[k] # <<>> /\ (~HasTimer \/ Len(batch[k]) >= cfg.size)

ProcessSend(k) ==
  /\ processing(k) /\ call[k] = <<>> /\ mustSend(k)
  /\ sendItems(k)
  /\ sent' = [sent EXCEPT ![k] = TRUE]
  /\ UNCHANGED <<cfg, consumeVars, chan, spc, timer, ans, closed, early>>

\* The end of processItem: stopTimer, which waits on C if the timer had
\* fired, and resetTimer.
ProcessEnd(k) ==
  /\ processing(k) /\ call[k] = <<>> /\ ~mustSend(k)
  /\ IF sent[k] /\ HasTimer
     THEN timer[k] # "taken" /\ timer' = [timer EXCEPT ![k] = "armed"]
     ELSE UNCHANGED timer
  /\ spc' = [spc EXCEPT ![k] = IF @ = "process" THEN "select" ELSE "drain"]
  /\ UNCHANGED <<cfg, consumeVars, chan, batch, sent, callVars, closed, early>>

TimerFires(k) ==
  /\ timer[k] = "armed" /\ spc[k] # "exit"
  /\ timer' = [timer EXCEPT ![k] = "fired"]
  /\ UNCHANGED <<cfg, consumeVars, chan, batch, spc, sent, callVars, closed, early>>

\* case <-timerCh.
ShardTimeout(k) ==
  /\ spc[k] = "select" /\ timer[k] = "fired"
  /\ timer' = [timer EXCEPT ![k] = "taken"]
  /\ spc' = [spc EXCEPT ![k] = "timeout"]
  /\ IF batch[k] # <<>>
     THEN sendItems(k)
     ELSE UNCHANGED <<call, batch>>
  /\ UNCHANGED <<cfg, consumeVars, chan, sent, ans, closed, early>>

\* Mutant of TimeoutEnd: the timer is not reset.
TimeoutEndNoReset(k) ==
  /\ spc[k] = "timeout" /\ call[k] = <<>>
  /\ spc' = [spc EXCEPT ![k] = "select"]
  /\ UNCHANGED <<cfg, consumeVars, chan, batch, sent, timer, callVars, closed, early>>

TimeoutEnd(k) ==
  /\ spc[k] = "timeout" /\ call[k] = <<>>
  /\ timer' = [timer EXCEPT ![k] = "armed"]
  /\ spc' = [spc EXCEPT ![k] = "select"]
  /\ UNCHANGED <<cfg, consumeVars, chan, batch, sent, callVars, closed, early>>

\* case <-shutdownC.
ShardShutdown(k) ==
  /\ spc[k] = "select" /\ closed
  /\ spc' = [spc EXCEPT ![k] = "drain"]
  /\ UNCHANGED <<cfg, consumeVars, chan, batch, sent, timer, callVars, closed, early>>

\* break DONE: what is left is sent, at most one piece of it.
DrainEnd(k) ==
  /\ spc[k] = "drain" /\ chan[k] = <<>>
  /\ IF batch[k] # <<>>
     THEN sendItems(k) /\ spc' = [spc EXCEPT ![k] = "final"]
     ELSE UNCHANGED <<call, batch>> /\ spc' = [spc EXCEPT ![k] = "exit"]
  /\ UNCHANGED <<cfg, consumeVars, chan, sent, timer, ans, closed, early>>

\* The next consumer has returned: sendItems records or logs, and returns.
SendReturns(k) ==
  /\ call[k] # <<>> /\ ans[k] # None
  /\ call' = [call EXCEPT ![k] = <<>>]
  /\ ans' = [ans EXCEPT ![k] = None]
  /\ spc' = [spc EXCEPT ![k] = IF @ = "final" THEN "exit" ELSE @]
  /\ UNCHANGED <<cfg, consumeVars, chan, batch, sent, timer, closed, early>>

Shard(k) ==
  \/ ShardReceive(k) \/ ProcessSend(k) \/ ProcessEnd(k)
  \/ ShardTimeout(k) \/ TimeoutEnd(k)
  \/ ShardShutdown(k) \/ DrainEnd(k) \/ SendReturns(k)

-----------------------------------------------------------------------------
(* Shutdown *)

ShutdownClose ==
  /\ ~closed /\ closed' = TRUE
  /\ early' = {c \in Callers : cpc[c] = "accepted"}
  /\ UNCHANGED <<cfg, consumeVars, chan, shardVars, callVars>>

\* goroutines.Wait() returns.
ShutdownDone == closed /\ \A k \in created : spc[k] = "exit"
=============================================================================
