---------------------------- MODULE PipelineProofs ----------------------------
(***************************************************************************)
(* What a pipeline guarantees for any number of callers, combinations and  *)
(* spans and every configuration Validate lets pass: the table of shards   *)
(* is exact and shards end empty; the pipeline implements Delivery; and    *)
(* the exporter counts each span once and resends what it must only.       *)
(***************************************************************************)
EXTENDS Pipeline, FiniteSetTheorems, TLAPS

\* An item that a caller of consume may bring, and a span of it.
AnyItem == [key : Keys, n : Nat \ {0}]
AnySpan == Callers \X Nat

\* The types of what the proofs are about.
TInv ==
  /\ cfg \in Configs /\ Validate(cfg)
  /\ cpc \in [Callers -> {"idle", "load", "lock", "send", "accepted", "refused"}]
  /\ seen \in [Callers -> BOOLEAN]
  /\ item \in [Callers -> AnyItem \cup {None}]
  /\ created \subseteq Keys /\ IsFiniteSet(created)
  /\ chan \in [Keys -> Seq(Callers)]
  /\ batch \in [Keys -> Seq(AnySpan)]
  /\ spc \in [Keys -> {"none", "select", "process", "timeout", "drain",
                       "drainProcess", "final", "exit"}]

\* Who is in consume has an item, and a channel holds accepted ones.
ItemsKnown ==
  /\ \A c \in Callers : cpc[c] # "idle" => item[c] \in AnyItem
  /\ \A k \in Keys : \A i \in 1..Len(chan[k]) : cpc[chan[k][i]] = "accepted"

\* The table of shards: LimitExact, with what a caller knows of it on its way
\* to being refused.
Table ==
  cfg.multi =>
    /\ mbSize = Cardinality(created)
    /\ cfg.limit # 0 => mbSize <= cfg.limit
    /\ \A c \in Callers :
         /\ cpc[c] = "load" /\ seen[c] => item[c].key \in created
         /\ cpc[c] \in {"lock", "refused"} => ~seen[c]
         /\ cpc[c] = "refused" => cfg.limit # 0 /\ mbSize = cfg.limit

\* What a shard has in its batch when it waits is less than the size that
\* makes it send, and so less than one piece.
Waiting(k) == IF HasTimer THEN Len(batch[k]) < cfg.size ELSE batch[k] = <<>>

Flushed ==
  \A k \in Keys :
    /\ k \notin created => spc[k] = "none"
    /\ spc[k] \in {"none", "final", "exit"} => batch[k] = <<>>
    /\ spc[k] \in {"select", "timeout", "drain"} => Waiting(k)

IInv == TInv /\ ItemsKnown /\ Table /\ Flushed

-----------------------------------------------------------------------------
\* The fields of a configuration.
LEMMA ConfigType ==
  ASSUME TInv
  PROVE  /\ cfg.multi \in BOOLEAN /\ cfg.timed \in BOOLEAN
         /\ cfg.limit \in Nat /\ cfg.size \in Nat /\ cfg.max \in Nat
  BY ProcessorAssumption DEF TInv

\* What a caller may bring is an item.
LEMMA ItemType == \A c \in Callers : \A i \in Items[c] : i \in AnyItem
  BY ProcessorAssumption DEF AnyItem

\* A new processor has no shard, or the one of singleShardBatcher.
LEMMA InitInv == PipelineInit => IInv
  <1> SUFFICES ASSUME PipelineInit PROVE IInv
    OBVIOUS
  <1> USE DEF PipelineInit, Init
  <1>1. IsFiniteSet(created) /\ created \subseteq Keys
    BY FS_EmptySet, FS_Singleton, ProcessorAssumption
  <1>2. TInv
    BY <1>1 DEF TInv
  <1>3. ItemsKnown
    BY DEF ItemsKnown
  <1>4. Table
    BY <1>2, FS_EmptySet, ConfigType DEF Table
  <1>5. Flushed
    BY <1>2, ConfigType DEF Flushed, Waiting, HasTimer
  <1> QED BY <1>2, <1>3, <1>4, <1>5 DEF IInv

\* Steps of the exporter and of ShutdownAll.
LEMMA OtherStep ==
  ASSUME IInv, UNCHANGED <<cfg, consumeVars, chan, batch, spc>>
  PROVE  IInv'
  BY DEF IInv, TInv, ItemsKnown, Table, Flushed, Waiting, HasTimer, consumeVars, Validate

-----------------------------------------------------------------------------
(* consume *)

\* A call begins: it has an item, and knows whether there is a shard for it.
LEMMA ConsumeBeginInv ==
  ASSUME IInv, NEW c \in Callers, ConsumeBegin(c)
  PROVE  IInv'
  <1>1. PICK i \in Items[c] : /\ item' = [item EXCEPT ![c] = i]
                              /\ seen' = [seen EXCEPT ![c] = i.key \in created]
    BY DEF ConsumeBegin
  <1>2. /\ cpc[c] = "idle"
        /\ cpc' = [cpc EXCEPT ![c] = IF cfg.multi THEN "load" ELSE "send"]
        /\ UNCHANGED <<cfg, created, mbSize, chan, batch, spc>>
    BY DEF ConsumeBegin, shardVars
  <1>3. i \in AnyItem
    BY ItemType
  <1>4. TInv'
    BY <1>1, <1>2, <1>3 DEF IInv, TInv, Validate
  <1>5. ItemsKnown'
    BY <1>1, <1>2, <1>3 DEF IInv, TInv, ItemsKnown
  <1>6. Table'
    BY <1>1, <1>2, <1>3 DEF IInv, TInv, Table
  <1>7. Flushed'
    BY <1>2 DEF IInv, Flushed, Waiting, HasTimer
  <1> QED BY <1>4, <1>5, <1>6, <1>7 DEF IInv

\* A call finds its shard, goes for the lock, or is refused at the limit.
LEMMA ConsumeMovesInv ==
  ASSUME IInv, NEW c \in Callers, ConsumeLoad(c) \/ ConsumeRefused(c)
  PROVE  IInv'
  <1>1. /\ UNCHANGED <<cfg, item, seen, created, mbSize, chan, batch, spc>>
        /\ cpc[c] \in {"load", "lock"}
        /\ \E p \in {"send", "lock", "refused"} :
             /\ cpc' = [cpc EXCEPT ![c] = p]
             /\ p = "lock" => cpc[c] = "load" /\ item[c].key \notin created
             /\ p = "refused" => cpc[c] = "lock" /\ LimitReached
    BY DEF ConsumeLoad, ConsumeRefused, shardVars
  <1>2. TInv' /\ ItemsKnown'
    BY <1>1 DEF IInv, TInv, ItemsKnown, Validate
  <1>3. Table'
    BY <1>1, ConfigType, FS_CardinalityType DEF IInv, TInv, Table, LimitReached
  <1>4. Flushed'
    BY <1>1 DEF IInv, Flushed, Waiting, HasTimer
  <1> QED BY <1>2, <1>3, <1>4 DEF IInv

\* LoadOrStore: a shard is counted once, below the limit.
LEMMA ConsumeCreateInv ==
  ASSUME IInv, NEW c \in Callers, ConsumeCreate(c)
  PROVE  IInv'
  <1> DEFINE k == item[c].key
  <1>1. /\ cpc[c] = "lock" /\ ~LimitReached
        /\ created' = created \cup {k} /\ cpc' = [cpc EXCEPT ![c] = "send"]
        /\ k \in created => UNCHANGED <<mbSize, spc>>
        /\ k \notin created => /\ mbSize' = mbSize + 1
                               /\ spc' = [spc EXCEPT ![k] = "select"]
        /\ UNCHANGED <<cfg, item, seen, chan, batch>>
    BY DEF ConsumeCreate
  <1>2. k \in Keys
    BY <1>1 DEF IInv, ItemsKnown, AnyItem
  <1>3. /\ IsFiniteSet(created') /\ created' \subseteq Keys
        /\ Cardinality(created) \in Nat
        /\ Cardinality(created') = Cardinality(created) + IF k \in created THEN 0 ELSE 1
    <2>1. IsFiniteSet(created) /\ created \subseteq Keys
      BY DEF IInv, TInv
    <2>2. /\ IsFiniteSet(created \cup {k}) /\ Cardinality(created) \in Nat
          /\ Cardinality(created \cup {k}) = IF k \in created
                                            THEN Cardinality(created)
                                            ELSE Cardinality(created) + 1
      BY <2>1, FS_AddElement, FS_CardinalityType
    <2> QED BY <1>1, <1>2, <2>1, <2>2
  <1>4. TInv'
    BY <1>1, <1>2, <1>3 DEF IInv, TInv, Validate
  <1>5. ItemsKnown'
    BY <1>1 DEF IInv, TInv, ItemsKnown
  <1>6. Table'
    BY <1>1, <1>3, ConfigType DEF IInv, TInv, Table, LimitReached
  <1>7. Flushed'
    BY <1>1, <1>2, ConfigType DEF IInv, TInv, Flushed, Waiting, HasTimer
  <1> QED BY <1>4, <1>5, <1>6, <1>7 DEF IInv

\* A call puts its item in the channel of its shard.
LEMMA ConsumeSendInv ==
  ASSUME IInv, NEW c \in Callers, ConsumeSend(c)
  PROVE  IInv'
  <1> DEFINE k == ShardOf(c)
  <1>1. /\ cpc[c] = "send" /\ cpc' = [cpc EXCEPT ![c] = "accepted"]
        /\ chan' = [chan EXCEPT ![k] = Append(@, c)]
        /\ UNCHANGED <<cfg, item, seen, created, mbSize, batch, spc>>
    BY DEF ConsumeSend, shardVars
  <1>2. TInv'
    <2>1. k \in Keys
      BY <1>1, ProcessorAssumption DEF IInv, ItemsKnown, AnyItem, ShardOf
    <2>2. Append(chan[k], c) \in Seq(Callers)
      BY <2>1 DEF IInv, TInv
    <2>3. chan' \in [Keys -> Seq(Callers)]
      BY <1>1, <2>1, <2>2 DEF IInv, TInv
    <2> QED BY <1>1, <2>3 DEF IInv, TInv, Validate
  <1>3. ItemsKnown'
    <2>1. \A d \in Callers : cpc'[d] # "idle" => item'[d] \in AnyItem
      BY <1>1 DEF IInv, TInv, ItemsKnown
    <2>2. ASSUME NEW q \in Keys, NEW i \in 1..Len(chan'[q])
          PROVE  cpc'[chan'[q][i]] = "accepted"
      <3>1. CASE i \in 1..Len(chan[q])
        BY <1>1, <3>1 DEF IInv, TInv, ItemsKnown
      <3>2. CASE i \notin 1..Len(chan[q])
        BY <1>1, <3>2 DEF IInv, TInv
      <3> QED BY <3>1, <3>2
    <2> QED BY <2>1, <2>2 DEF ItemsKnown
  <1>4. Table'
    BY <1>1 DEF IInv, TInv, Table
  <1>5. Flushed'
    BY <1>1 DEF IInv, Flushed, Waiting, HasTimer
  <1> QED BY <1>2, <1>3, <1>4, <1>5 DEF IInv

-----------------------------------------------------------------------------
(* shards *)

\* Shard steps leave the callers and the table alone: what is left to show
\* is what they do to the batch and to the channel.
LEMMA ShardStep ==
  ASSUME IInv, UNCHANGED <<cfg, consumeVars>>, NEW k \in Keys,
         chan' \in [Keys -> Seq(Callers)], chan'[k] \in {chan[k], Tail(chan[k])},
         chan[k] = <<>> => chan'[k] = chan[k],
         batch' \in [Keys -> Seq(AnySpan)],
         NEW p \in {"select", "process", "timeout", "drain", "drainProcess",
                    "final", "exit"},
         spc' = [spc EXCEPT ![k] = p], spc[k] # "none",
         \A q \in Keys \ {k} : chan'[q] = chan[q] /\ batch'[q] = batch[q],
         p \in {"final", "exit"} => batch'[k] = <<>>,
         p \in {"select", "timeout", "drain"} => Waiting(k)'
  PROVE  IInv'
  <1>1. TInv'
    BY DEF IInv, TInv, Validate, consumeVars
  <1>2. ItemsKnown'
    <2>1. ASSUME NEW q \in Keys, NEW i \in 1..Len(chan'[q])
          PROVE  cpc'[chan'[q][i]] = "accepted"
      <3>1. CASE chan'[q] = chan[q]
        BY <3>1 DEF IInv, ItemsKnown, consumeVars
      <3>2. CASE q = k /\ chan[k] # <<>> /\ chan'[k] = Tail(chan[k])
        <4>1. chan[k] \in Seq(Callers)
          BY DEF IInv, TInv
        <4>2. i + 1 \in 1..Len(chan[k]) /\ chan'[k][i] = chan[k][i + 1]
          BY <3>2, <4>1
        <4> QED BY <3>2, <4>2 DEF IInv, ItemsKnown, consumeVars
      <3> QED BY <3>1, <3>2
    <2> QED BY <2>1 DEF IInv, ItemsKnown, consumeVars
  <1>3. Table'
    BY DEF IInv, Table, consumeVars
  <1>4. Flushed'
    BY DEF IInv, TInv, Flushed, Waiting, HasTimer, consumeVars
  <1> QED BY <1>1, <1>2, <1>3, <1>4 DEF IInv

\* What sendItems leaves: nothing, if the batch is no longer than a piece.
LEMMA SendItems ==
  ASSUME IInv, NEW k \in Keys, sendItems(k)
  PROVE  /\ batch' \in [Keys -> Seq(AnySpan)]
         /\ \A q \in Keys \ {k} : batch'[q] = batch[q]
         /\ Waiting(k) => batch'[k] = <<>>
  <1>1. /\ batch[k] \in Seq(AnySpan) /\ Len(batch[k]) \in Nat
        /\ batch' = [batch EXCEPT ![k] = SubSeq(@, PieceLen(k) + 1, Len(@))]
        /\ batch \in [Keys -> Seq(AnySpan)]
    BY DEF IInv, TInv, sendItems
  <1>2. PieceLen(k) \in 0..Len(batch[k])
    BY <1>1, ConfigType DEF IInv, PieceLen
  <1>3. SubSeq(batch[k], PieceLen(k) + 1, Len(batch[k])) \in Seq(AnySpan)
    BY <1>1, <1>2
  <1>4. Waiting(k) => PieceLen(k) = Len(batch[k])
    BY <1>1, ConfigType DEF IInv, TInv, Waiting, PieceLen, Validate, HasTimer
  <1>5. SubSeq(batch[k], Len(batch[k]) + 1, Len(batch[k])) = <<>>
    BY <1>1
  <1> QED BY <1>1, <1>3, <1>4, <1>5

\* A shard takes an item out of its channel.
LEMMA ShardReceiveInv ==
  ASSUME IInv, NEW k \in Keys, ShardReceive(k)
  PROVE  IInv'
  <1> DEFINE c == Head(chan[k])
             p == IF spc[k] = "select" THEN "process" ELSE "drainProcess"
  <1>1. /\ spc[k] \in {"select", "drain"} /\ chan[k] # <<>>
        /\ batch' = [batch EXCEPT ![k] = @ \o SpansOf(c)]
        /\ chan' = [chan EXCEPT ![k] = Tail(@)]
        /\ spc' = [spc EXCEPT ![k] = p]
        /\ UNCHANGED <<cfg, consumeVars>>
    BY DEF ShardReceive
  <1>2. chan[k] \in Seq(Callers) /\ c \in Callers /\ Tail(chan[k]) \in Seq(Callers)
    BY <1>1 DEF IInv, TInv
  <1>3. 1 \in 1..Len(chan[k]) /\ c = chan[k][1]
    BY <1>1, <1>2
  <1>4. item[c] \in AnyItem
    BY <1>2, <1>3 DEF IInv, ItemsKnown
  <1>5. SpansOf(c) \in Seq(AnySpan)
    BY <1>2, <1>4 DEF SpansOf, AnyItem, AnySpan
  <1>6. batch' \in [Keys -> Seq(AnySpan)] /\ chan' \in [Keys -> Seq(Callers)]
    BY <1>1, <1>2, <1>5 DEF IInv, TInv
  <1>7. /\ chan'[k] = Tail(chan[k])
        /\ \A q \in Keys \ {k} : chan'[q] = chan[q] /\ batch'[q] = batch[q]
    BY <1>1 DEF IInv, TInv
  <1> QED BY <1>1, <1>6, <1>7, ShardStep

\* processItem sends a piece.
LEMMA ProcessSendInv ==
  ASSUME IInv, NEW k \in Keys, ProcessSend(k)
  PROVE  IInv'
  <1>1. /\ sendItems(k) /\ UNCHANGED <<cfg, consumeVars, chan, spc>>
        /\ spc[k] \in {"process", "drainProcess"}
    BY DEF ProcessSend, processing
  <1>2. spc' = [spc EXCEPT ![k] = spc[k]] /\ chan' \in [Keys -> Seq(Callers)]
    BY <1>1 DEF IInv, TInv
  <1> QED BY <1>1, <1>2, SendItems, ShardStep

\* processItem ends with less than a piece in the batch.
LEMMA ProcessEndInv ==
  ASSUME IInv, NEW k \in Keys, ProcessEnd(k)
  PROVE  IInv'
  <1> DEFINE p == IF spc[k] = "process" THEN "select" ELSE "drain"
  <1>1. /\ spc[k] \in {"process", "drainProcess"} /\ ~mustSend(k)
        /\ spc' = [spc EXCEPT ![k] = p]
        /\ UNCHANGED <<cfg, consumeVars, chan, batch>>
    BY DEF ProcessEnd, processing
  <1>2. batch[k] \in Seq(AnySpan) /\ chan' \in [Keys -> Seq(Callers)]
        /\ batch' \in [Keys -> Seq(AnySpan)]
    BY <1>1 DEF IInv, TInv
  <1>3. Waiting(k)'
    BY <1>1, <1>2, ConfigType DEF IInv, Waiting, mustSend, HasTimer
  <1> QED BY <1>1, <1>2, <1>3, ShardStep

\* The timer fires: the batch, less than a piece, is sent.
LEMMA ShardTimeoutInv ==
  ASSUME IInv, NEW k \in Keys, ShardTimeout(k)
  PROVE  IInv'
  <1>1. /\ spc[k] = "select" /\ spc' = [spc EXCEPT ![k] = "timeout"]
        /\ UNCHANGED <<cfg, consumeVars, chan>>
        /\ sendItems(k) \/ UNCHANGED batch
    BY DEF ShardTimeout
  <1>2. Waiting(k) /\ chan' \in [Keys -> Seq(Callers)]
    BY <1>1 DEF IInv, TInv, Flushed
  <1>3. /\ batch' \in [Keys -> Seq(AnySpan)]
        /\ \A q \in Keys \ {k} : batch'[q] = batch[q]
        /\ batch'[k] = <<>> \/ UNCHANGED batch
    BY <1>1, <1>2, SendItems DEF IInv, TInv
  <1>4. Waiting(k)'
    BY <1>1, <1>2, <1>3, ConfigType DEF IInv, Waiting, HasTimer
  <1> QED BY <1>1, <1>2, <1>3, <1>4, ShardStep

\* A shard moves between its two selects.
LEMMA SelectMovesInv ==
  ASSUME IInv, NEW k \in Keys, TimeoutEnd(k) \/ ShardShutdown(k)
  PROVE  IInv'
  <1>1. /\ spc[k] \in {"select", "timeout"}
        /\ \E p \in {"select", "drain"} : spc' = [spc EXCEPT ![k] = p]
        /\ UNCHANGED <<cfg, consumeVars, chan, batch>>
    BY DEF TimeoutEnd, ShardShutdown
  <1>2. /\ Waiting(k)' /\ chan' \in [Keys -> Seq(Callers)]
        /\ batch' \in [Keys -> Seq(AnySpan)]
    BY <1>1 DEF IInv, TInv, Flushed, Waiting, HasTimer
  <1> QED BY <1>1, <1>2, ShardStep

\* The last piece takes all that is left.
LEMMA DrainEndInv ==
  ASSUME IInv, NEW k \in Keys, DrainEnd(k)
  PROVE  IInv'
  <1>1. /\ spc[k] = "drain" /\ UNCHANGED <<cfg, consumeVars, chan>>
        /\ \E p \in {"final", "exit"} : spc' = [spc EXCEPT ![k] = p]
        /\ sendItems(k) \/ (batch[k] = <<>> /\ UNCHANGED batch)
    BY DEF DrainEnd
  <1>2. Waiting(k) /\ chan' \in [Keys -> Seq(Callers)]
    BY <1>1 DEF IInv, TInv, Flushed
  <1>3. /\ batch' \in [Keys -> Seq(AnySpan)] /\ batch'[k] = <<>>
        /\ \A q \in Keys \ {k} : batch'[q] = batch[q]
    BY <1>1, <1>2, SendItems DEF IInv, TInv
  <1> QED BY <1>1, <1>2, <1>3, ShardStep

\* The next consumer has returned.
LEMMA SendReturnsInv ==
  ASSUME IInv, NEW k \in Keys, SendReturns(k)
  PROVE  IInv'
  <1>1. /\ spc' = [spc EXCEPT ![k] = IF @ = "final" THEN "exit" ELSE @]
        /\ UNCHANGED <<cfg, consumeVars, chan, batch>>
    BY DEF SendReturns
  <1>2. CASE spc[k] = "final"
    <2>1. /\ batch'[k] = <<>> /\ chan' \in [Keys -> Seq(Callers)]
          /\ batch' \in [Keys -> Seq(AnySpan)]
      BY <1>1, <1>2 DEF IInv, TInv, Flushed
    <2> QED BY <1>1, <1>2, <2>1, ShardStep
  <1>3. CASE spc[k] # "final"
    <2>1. UNCHANGED spc
      BY <1>1, <1>3 DEF IInv, TInv
    <2> QED BY <1>1, <2>1, OtherStep
  <1> QED BY <1>2, <1>3

-----------------------------------------------------------------------------
\* Every step of the pipeline preserves the invariant.
LEMMA NextInv == IInv /\ [Next]_vars => IInv'
  <1> SUFFICES ASSUME IInv, [Next]_vars PROVE IInv'
    OBVIOUS
  <1>1. ASSUME NEW c \in Callers, Request(c) \/ Handler(c)
        PROVE  IInv'
    BY <1>1, ConsumeBeginInv, ConsumeMovesInv, ConsumeCreateInv, ConsumeSendInv
    DEF Request, Handler, Consume
  <1>2. ASSUME NEW k \in Keys, ProcessorStep(k)
        PROVE  IInv'
    BY <1>2, ShardReceiveInv, ProcessSendInv, ProcessEndInv, ShardTimeoutInv,
       SelectMovesInv, DrainEndInv, SendReturnsInv
    DEF ProcessorStep, Shard
  <1>3. ASSUME NEW k \in Keys, Clock(k) \/ ExporterStep(k)
        PROVE  IInv'
    BY <1>3, OtherStep DEF Clock, TimerFires, ExporterStep, shardVars
  <1>4. CASE ReceiverShutdown \/ ProcessorShutdown \/ ExporterShutdown \/ Down \/ UNCHANGED vars
    BY <1>4, OtherStep
    DEF ReceiverShutdown, ProcessorShutdown, ExporterShutdown, Down, ShutdownClose,
        vars, processorVars, shardVars
  <1> QED BY <1>1, <1>2, <1>3, <1>4 DEF Next

\* The inductive invariant holds in every behaviour of a pipeline.
THEOREM PipelineInvariant == Spec => []IInv
  BY InitInv, NextInv, PTL DEF Spec

\* The limit on combinations is never passed and never refuses too soon,
\* however many callers race for the last places in the table.
THEOREM PipelineLimitExact == Spec => []LimitExact
  <1>1. IInv => LimitExact
    BY DEF IInv, Table, LimitExact
  <1> QED BY <1>1, PipelineInvariant, PTL

\* No shard ends with spans in its batch: the single piece it sends when it
\* stops is all that is left, because Validate keeps the maximum size of a
\* piece at or above the size that makes a shard send.
THEOREM PipelineFinalFlushComplete == Spec => []FinalFlushComplete
  <1>1. IInv => FinalFlushComplete
    BY DEF IInv, Flushed, FinalFlushComplete
  <1> QED BY <1>1, PipelineInvariant, PTL

-----------------------------------------------------------------------------
(* Delivery: every span that was accepted in time is in one place until the *)
(* call that carries it ends, and no shard ends before.                     *)


Elems(s) == {s[i] : i \in 1..Len(s)}
Distinct(s) == \A i, j \in 1..Len(s) : s[i] = s[j] => i = j

\* The spans of the item caller c has brought.
Own(c) == {<<c, j>> : j \in 1..item[c].n}

\* Types, beyond the ones of PipelineProofs.
DTypes ==
  /\ \A c \in Callers : cpc[c] # "idle" => item[c] \in Items[c]
  /\ call \in [Keys -> Seq(AnySpan)] /\ ans \in [Keys -> {None, "ok", "err"}]
  /\ epc \in [Keys -> {"idle", "push", "failed"}]
  /\ outcome \in [Spans -> {"none", "ok", "err"}]
  /\ early \subseteq Callers /\ closed \in BOOLEAN /\ graceful \in BOOLEAN

\* A span is in the channel, the batch or the call of its own shard, once.
Home ==
  \A k \in Keys :
    /\ \A c \in Elems(chan[k]) : cpc[c] = "accepted" /\ ShardOf(c) = k
    /\ \A s \in Elems(batch[k]) \cup Elems(call[k]) :
         /\ s[1] \in Callers /\ s \in Own(s[1])
         /\ cpc[s[1]] = "accepted" /\ ShardOf(s[1]) = k
         /\ s[1] \notin Elems(chan[k])
    /\ Elems(batch[k]) \cap Elems(call[k]) = {}
    /\ Distinct(chan[k]) /\ Distinct(batch[k])

\* What is there has no outcome yet, and has one when the call is answered.
Fresh ==
  /\ \A s \in Spans : outcome[s] # "none" =>
       cpc[s[1]] = "accepted" /\ s[1] \notin Elems(chan[ShardOf(s[1])])
  /\ \A k \in Keys :
       /\ \A s \in Elems(batch[k]) : outcome[s] = "none"
       /\ \A s \in Elems(call[k]) : outcome[s] = "none" <=> ans[k] = None

\* An accepted span without an outcome is somewhere.
Complete ==
  \A c \in Callers : cpc[c] = "accepted" =>
    \A s \in Own(c) : outcome[s] = "none" =>
      \/ c \in Elems(chan[ShardOf(c)])
      \/ s \in Elems(batch[ShardOf(c)]) \cup Elems(call[ShardOf(c)])

\* When a shard has a call, and when the exporter is working on it.
Calls ==
  \A k \in Keys :
    /\ epc[k] # "idle" => ans[k] = None /\ call[k] # <<>>
    /\ call[k] = <<>> => ans[k] = None
    /\ spc[k] \in {"none", "select", "drain", "exit"} => call[k] = <<>>

\* Who is accepted after the shards have begun to end is late.
Ends ==
  /\ ~cfg.multi => OneShard \in created
  /\ \A c \in Callers :
       /\ cpc[c] \in {"load", "lock"} => cfg.multi
       /\ cpc[c] \in {"send", "accepted"} => ShardOf(c) \in created
  /\ \A k \in Keys :
       /\ spc[k] \in {"drain", "drainProcess", "final", "exit"} => closed
       /\ spc[k] \in {"final", "exit"} => Elems(chan[k]) \cap early = {}
  /\ \A c \in early : cpc[c] = "accepted"
  /\ closed /\ graceful => \A c \in Callers :
       ~Busy(c) /\ (cpc[c] = "accepted" => c \in early)
  /\ closed <=> sd \in {"processor", "down"}

Places == Home /\ Fresh /\ Complete

DInv == IInv /\ DTypes /\ Places /\ Calls /\ Ends

-----------------------------------------------------------------------------
(* Sequences *)

\* The empty sequence.
LEMMA ElemsEmpty == Elems(<<>>) = {} /\ Distinct(<<>>)
  BY DEF Elems, Distinct

\* Appending an element that is not there.
LEMMA ElemsAppend ==
  ASSUME NEW S, NEW s \in Seq(S), NEW x \in S
  PROVE  /\ Elems(Append(s, x)) = Elems(s) \cup {x}
         /\ Distinct(s) /\ x \notin Elems(s) => Distinct(Append(s, x))
  <1> DEFINE t == Append(s, x)
  <1>1. /\ Len(t) = Len(s) + 1 /\ Len(s) \in Nat /\ t[Len(s) + 1] = x
        /\ \A i \in 1..Len(s) : t[i] = s[i]
    OBVIOUS
  <1> HIDE DEF t
  <1>2. Elems(t) = Elems(s) \cup {x}
    <2>1. ASSUME NEW y \in Elems(t) PROVE y \in Elems(s) \cup {x}
      BY <1>1 DEF Elems
    <2>2. ASSUME NEW y \in Elems(s) \cup {x} PROVE y \in Elems(t)
      BY <1>1 DEF Elems
    <2> QED BY <2>1, <2>2
  <1>3. ASSUME Distinct(s), x \notin Elems(s) PROVE Distinct(t)
    BY <1>1, <1>3 DEF Distinct, Elems
  <1> QED BY <1>2, <1>3 DEF t

\* Taking the head off.
LEMMA ElemsTail ==
  ASSUME NEW S, NEW s \in Seq(S), s # <<>>, Distinct(s)
  PROVE  /\ Tail(s) \in Seq(S) /\ Head(s) \in Elems(s) /\ Distinct(Tail(s))
         /\ Elems(Tail(s)) = Elems(s) \ {Head(s)}
  <1> DEFINE t == Tail(s)
  <1>1. /\ t \in Seq(S) /\ Len(t) = Len(s) - 1 /\ Len(s) \in Nat \ {0}
        /\ Head(s) = s[1] /\ \A i \in 1..Len(t) : t[i] = s[i + 1]
    OBVIOUS
  <1> HIDE DEF t
  <1>2. Elems(t) = Elems(s) \ {s[1]}
    <2>1. ASSUME NEW y \in Elems(t) PROVE y \in Elems(s) \ {s[1]}
      BY <1>1 DEF Elems, Distinct
    <2>2. ASSUME NEW y \in Elems(s) \ {s[1]} PROVE y \in Elems(t)
      <3>1. PICK i \in 1..Len(s) : s[i] = y
        BY DEF Elems
      <3>2. i - 1 \in 1..Len(t) /\ t[i - 1] = y
        BY <1>1, <3>1
      <3> QED BY <3>2 DEF Elems
    <2> QED BY <2>1, <2>2
  <1>3. Distinct(t) /\ s[1] \in Elems(s)
    BY <1>1 DEF Distinct, Elems
  <1> QED BY <1>1, <1>2, <1>3 DEF t

\* Joining two sequences with nothing in common.
LEMMA ElemsConcat ==
  ASSUME NEW S, NEW s \in Seq(S), NEW t \in Seq(S)
  PROVE  /\ Elems(s \o t) = Elems(s) \cup Elems(t)
         /\ Distinct(s) /\ Distinct(t) /\ Elems(s) \cap Elems(t) = {} => Distinct(s \o t)
  <1> DEFINE u == s \o t
  <1>1. /\ Len(s) \in Nat /\ Len(t) \in Nat /\ Len(u) = Len(s) + Len(t)
        /\ \A i \in 1..Len(u) : u[i] = IF i <= Len(s) THEN s[i] ELSE t[i - Len(s)]
    OBVIOUS
  <1> HIDE DEF u
  <1>2. Elems(u) = Elems(s) \cup Elems(t)
    <2>1. ASSUME NEW y \in Elems(u) PROVE y \in Elems(s) \cup Elems(t)
      <3>1. PICK i \in 1..Len(u) : u[i] = y
        BY DEF Elems
      <3>2. CASE i <= Len(s)
        BY <1>1, <3>1, <3>2 DEF Elems
      <3>3. CASE i > Len(s)
        <4>1. i - Len(s) \in 1..Len(t) /\ t[i - Len(s)] = y
          BY <1>1, <3>1, <3>3
        <4> QED BY <4>1 DEF Elems
      <3> QED BY <1>1, <3>2, <3>3
    <2>2. ASSUME NEW y \in Elems(s) PROVE y \in Elems(u)
      BY <1>1 DEF Elems
    <2>3. ASSUME NEW y \in Elems(t) PROVE y \in Elems(u)
      <3>1. PICK i \in 1..Len(t) : t[i] = y
        BY DEF Elems
      <3>2. i + Len(s) \in 1..Len(u) /\ u[i + Len(s)] = y
        BY <1>1, <3>1
      <3> QED BY <3>2 DEF Elems
    <2> QED BY <2>1, <2>2, <2>3
  <1>3. ASSUME Distinct(s), Distinct(t), Elems(s) \cap Elems(t) = {} PROVE Distinct(u)
    <2> SUFFICES ASSUME NEW i \in 1..Len(u), NEW j \in 1..Len(u), u[i] = u[j] PROVE i = j
      BY DEF Distinct
    <2>1. \A m \in 1..Len(s) : s[m] \in Elems(s)
      BY DEF Elems
    <2>2. \A m \in 1..Len(t) : t[m] \in Elems(t)
      BY DEF Elems
    <2>3. CASE i <= Len(s) /\ j <= Len(s)
      BY <1>1, <1>3, <2>3 DEF Distinct
    <2>4. CASE i > Len(s) /\ j > Len(s)
      <3>1. i - Len(s) \in 1..Len(t) /\ j - Len(s) \in 1..Len(t)
        BY <1>1, <2>4
      <3>2. t[i - Len(s)] = t[j - Len(s)]
        BY <1>1, <2>4
      <3>3. i - Len(s) = j - Len(s)
        BY <1>3, <3>1, <3>2 DEF Distinct
      <3> QED BY <1>1, <3>3
    <2>5. CASE i <= Len(s) /\ j > Len(s)
      <3>1. u[i] \in Elems(s)
        BY <1>1, <2>1, <2>5
      <3>2. u[j] \in Elems(t)
        BY <1>1, <2>2, <2>5
      <3> QED BY <1>3, <3>1, <3>2
    <2>6. CASE i > Len(s) /\ j <= Len(s)
      <3>1. u[j] \in Elems(s)
        BY <1>1, <2>1, <2>6
      <3>2. u[i] \in Elems(t)
        BY <1>1, <2>2, <2>6
      <3> QED BY <1>3, <3>1, <3>2
    <2> QED BY <1>1, <2>3, <2>4, <2>5, <2>6
  <1> QED BY <1>2, <1>3 DEF u

\* Cutting a sequence in two.
LEMMA ElemsSplit ==
  ASSUME NEW S, NEW s \in Seq(S), NEW m \in 0..Len(s), Distinct(s)
  PROVE  LET a == SubSeq(s, 1, m)
             b == SubSeq(s, m + 1, Len(s))
         IN /\ a \in Seq(S) /\ b \in Seq(S) /\ Distinct(b)
            /\ Elems(a) \cup Elems(b) = Elems(s) /\ Elems(a) \cap Elems(b) = {}
  <1> DEFINE a == SubSeq(s, 1, m)
             b == SubSeq(s, m + 1, Len(s))
  <1>1. /\ a \in Seq(S) /\ Len(s) \in Nat /\ m \in Nat /\ Len(a) = m
        /\ \A i \in 1..m : a[i] = s[i]
    OBVIOUS
  <1>2. /\ b \in Seq(S) /\ Len(b) = Len(s) - m
        /\ \A i \in 1..Len(b) : b[i] = s[m + i]
    OBVIOUS
  <1> HIDE DEF a, b
  <1>3. ASSUME NEW y \in Elems(s) PROVE y \in Elems(a) \cup Elems(b)
    <2>1. PICK i \in 1..Len(s) : s[i] = y
      BY DEF Elems
    <2>2. CASE i <= m
      BY <1>1, <2>1, <2>2 DEF Elems
    <2>3. CASE i > m
      <3>1. i - m \in 1..Len(b) /\ b[i - m] = y
        BY <1>1, <1>2, <2>1, <2>3
      <3> QED BY <3>1 DEF Elems
    <2> QED BY <1>1, <2>2, <2>3
  <1>4. ASSUME NEW y \in Elems(a) PROVE y \in Elems(s) /\ y \notin Elems(b)
    <2>1. PICK i \in 1..m : s[i] = y
      BY <1>1 DEF Elems
    <2>2. y \in Elems(s)
      BY <1>1, <2>1 DEF Elems
    <2>3. ASSUME y \in Elems(b) PROVE FALSE
      <3>1. PICK j \in 1..Len(b) : b[j] = y
        BY <2>3 DEF Elems
      <3>2. m + j \in 1..Len(s) /\ s[m + j] = y /\ i \in 1..Len(s) /\ m + j # i
        BY <1>1, <1>2, <2>1, <3>1
      <3> QED BY <2>1, <3>2 DEF Distinct
    <2> QED BY <2>2, <2>3
  <1>5. ASSUME NEW y \in Elems(b) PROVE y \in Elems(s)
    <2>1. PICK j \in 1..Len(b) : b[j] = y
      BY DEF Elems
    <2>2. m + j \in 1..Len(s) /\ s[m + j] = y
      BY <1>1, <1>2, <2>1
    <2> QED BY <2>2 DEF Elems
  <1>6. Distinct(b)
    <2> SUFFICES ASSUME NEW i \in 1..Len(b), NEW j \in 1..Len(b), b[i] = b[j] PROVE i = j
      BY DEF Distinct
    <2>1. m + i \in 1..Len(s) /\ m + j \in 1..Len(s) /\ s[m + i] = s[m + j]
      BY <1>1, <1>2
    <2>2. m + i = m + j
      BY <2>1 DEF Distinct
    <2> QED BY <1>1, <1>2, <2>2
  <1> QED BY <1>1, <1>2, <1>3, <1>4, <1>5, <1>6 DEF a, b

\* The exporter's name for the elements of a call.
LEMMA CallElems ==
  ASSUME NEW s \in Seq(AnySpan)
  PROVE  E!SpansIn(s) = Elems(s)
  BY DEF E!SpansIn, Elems

\* A span is a caller and a number.
LEMMA SpanType == \A s \in Spans : s[1] \in Callers /\ s[2] \in Nat \ {0} /\ s = <<s[1], s[2]>>
  <1> SUFFICES ASSUME NEW s \in Spans
               PROVE  s[1] \in Callers /\ s[2] \in Nat \ {0} /\ s = <<s[1], s[2]>>
    OBVIOUS
  <1>1. PICK c \in Callers : \E i \in Items[c] : s \in {<<c, j>> : j \in 1..i.n}
    BY DEF Spans
  <1>2. PICK i \in Items[c] : s \in {<<c, j>> : j \in 1..i.n}
    BY <1>1
  <1>3. i.n \in Nat
    BY ItemType DEF AnyItem
  <1> QED BY <1>2, <1>3

\* The spans of the item a caller has brought.
LEMMA OwnSpans ==
  ASSUME NEW c \in Callers, item[c] \in Items[c]
  PROVE  /\ Own(c) \subseteq Spans /\ item[c].n \in Nat
         /\ SpansOf(c) \in Seq(AnySpan) /\ Elems(SpansOf(c)) = Own(c) /\ Distinct(SpansOf(c))
  <1>1. item[c].n \in Nat /\ item[c] \in AnyItem
    BY ItemType DEF AnyItem
  <1>2. ASSUME NEW s \in Own(c) PROVE s \in Spans
    BY DEF Own, Spans
  <1>3. /\ SpansOf(c) \in Seq(AnySpan) /\ Len(SpansOf(c)) = item[c].n
        /\ \A i \in 1..item[c].n : SpansOf(c)[i] = <<c, i>>
    BY <1>1 DEF SpansOf, AnySpan
  <1>4. Elems(SpansOf(c)) = Own(c)
    BY <1>3 DEF Elems, Own
  <1>5. Distinct(SpansOf(c))
    BY <1>1, <1>3 DEF Distinct
  <1> QED BY <1>1, <1>2, <1>3, <1>4, <1>5

-----------------------------------------------------------------------------
(* Where the spans are *)

\* Steps that move no accepted item.
LEMMA PlacesStay ==
  ASSUME DInv, UNCHANGED <<cfg, chan, batch, call, ans, outcome>>,
         \A c \in Callers : cpc'[c] = "accepted" <=> cpc[c] = "accepted",
         \A c \in Callers : cpc[c] = "accepted" => item'[c] = item[c]
  PROVE  Places'
  <1>1. \A c \in Callers : cpc[c] = "accepted" => Own(c)' = Own(c) /\ ShardOf(c)' = ShardOf(c)
    BY DEF Own, ShardOf
  <1>2. \A k \in Keys : Elems(chan[k]) \subseteq Callers
    BY DEF DInv, IInv, TInv, Elems
  <1>3. Home'
    BY <1>1, <1>2 DEF DInv, Places, Home
  <1>4. Fresh'
    BY <1>1, SpanType DEF DInv, Places, Fresh
  <1>5. Complete'
    BY <1>1 DEF DInv, Places, Complete
  <1> QED BY <1>3, <1>4, <1>5 DEF Places

\* An item in the channel: its spans are somewhere for the first time.
LEMMA PlacesSend ==
  ASSUME DInv, NEW c \in Callers, ConsumeSend(c), UNCHANGED outcome
  PROVE  Places'
  <1> DEFINE k == ShardOf(c)
  <1>1. /\ cpc[c] = "send" /\ cpc' = [cpc EXCEPT ![c] = "accepted"]
        /\ chan' = [chan EXCEPT ![k] = Append(@, c)]
        /\ UNCHANGED <<cfg, item, batch, call, ans, outcome>>
    BY DEF ConsumeSend, shardVars, callVars
  <1>2. /\ k \in Keys /\ chan \in [Keys -> Seq(Callers)]
        /\ cpc \in [Callers -> {"idle", "load", "lock", "send", "accepted", "refused"}]
    BY <1>1 DEF DInv, IInv, TInv, Ends
  <1>3. c \notin Elems(chan[k]) /\ Distinct(chan[k])
    BY <1>1, <1>2 DEF DInv, Places, Home
  <1>4. /\ Elems(chan'[k]) = Elems(chan[k]) \cup {c} /\ Distinct(chan'[k])
        /\ \A q \in Keys \ {k} : chan'[q] = chan[q]
    BY <1>1, <1>2, <1>3, ElemsAppend
  <1>5. \A d \in Callers : Own(d)' = Own(d) /\ ShardOf(d)' = ShardOf(d)
    BY <1>1 DEF Own, ShardOf
  <1>6. \A q \in Keys : Elems(chan[q]) \subseteq Callers
    BY <1>2 DEF Elems
  <1>7. Home'
    <2> SUFFICES ASSUME NEW q \in Keys
                 PROVE  /\ \A d \in Elems(chan'[q]) : cpc'[d] = "accepted" /\ ShardOf(d)' = q
                        /\ \A s \in Elems(batch[q]) \cup Elems(call[q]) :
                             /\ s[1] \in Callers /\ s \in Own(s[1])'
                             /\ cpc'[s[1]] = "accepted" /\ ShardOf(s[1])' = q
                             /\ s[1] \notin Elems(chan'[q])
                        /\ Elems(batch[q]) \cap Elems(call[q]) = {}
                        /\ Distinct(chan'[q]) /\ Distinct(batch[q])
      BY <1>1 DEF Home
    <2>1. \A d \in Elems(chan'[q]) : cpc'[d] = "accepted" /\ ShardOf(d)' = q
      BY <1>1, <1>2, <1>4, <1>5, <1>6 DEF DInv, Places, Home
    <2>2. \A s \in Elems(batch[q]) \cup Elems(call[q]) :
             /\ s[1] \in Callers /\ s \in Own(s[1])'
             /\ cpc'[s[1]] = "accepted" /\ ShardOf(s[1])' = q
             /\ s[1] \notin Elems(chan'[q])
      BY <1>1, <1>2, <1>4, <1>5 DEF DInv, Places, Home
    <2> QED BY <1>4, <2>1, <2>2 DEF DInv, Places, Home
  <1>8. Fresh'
    <2>1. ASSUME NEW s \in Spans, outcome[s] # "none"
          PROVE  cpc'[s[1]] = "accepted" /\ s[1] \notin Elems(chan'[ShardOf(s[1])'])
      <3>1. /\ s[1] \in Callers /\ cpc[s[1]] = "accepted"
            /\ s[1] \notin Elems(chan[ShardOf(s[1])])
        BY <2>1, SpanType DEF DInv, Places, Fresh
      <3>2. s[1] # c /\ cpc'[s[1]] = "accepted" /\ ShardOf(s[1])' = ShardOf(s[1])
        BY <1>1, <1>2, <1>5, <3>1
      <3>3. ShardOf(s[1]) \in Keys
        BY <3>1 DEF DInv, Ends, IInv, TInv
      <3> QED BY <1>4, <3>1, <3>2, <3>3
    <2> QED BY <1>1, <2>1 DEF DInv, Places, Fresh
  <1>9. Complete'
    <2> SUFFICES ASSUME NEW d \in Callers, cpc'[d] = "accepted", NEW s \in Own(d),
                        outcome[s] = "none"
                 PROVE  \/ d \in Elems(chan'[ShardOf(d)])
                        \/ s \in Elems(batch[ShardOf(d)]) \cup Elems(call[ShardOf(d)])
      BY <1>1, <1>5 DEF Complete
    <2>1. CASE d = c
      BY <1>4, <2>1
    <2>2. CASE d # c
      <3>1. cpc[d] = "accepted" /\ ShardOf(d) \in Keys
        BY <1>1, <1>2, <2>2 DEF DInv, Ends, IInv, TInv
      <3> QED BY <1>4, <3>1 DEF DInv, Places, Complete
    <2> QED BY <2>1, <2>2
  <1> QED BY <1>7, <1>8, <1>9 DEF Places

\* The spans of an item move from the channel to the batch.
LEMMA PlacesReceive ==
  ASSUME DInv, NEW k \in Keys, ShardReceive(k), UNCHANGED outcome
  PROVE  Places'
  <1> DEFINE c == Head(chan[k])
  <1>1. /\ chan[k] # <<>> /\ batch' = [batch EXCEPT ![k] = @ \o SpansOf(c)]
        /\ chan' = [chan EXCEPT ![k] = Tail(@)]
        /\ UNCHANGED <<cfg, item, cpc, call, ans, outcome>>
    BY DEF ShardReceive, consumeVars, callVars
  <1>2. /\ chan \in [Keys -> Seq(Callers)] /\ batch \in [Keys -> Seq(AnySpan)]
        /\ Distinct(chan[k]) /\ Distinct(batch[k])
    BY DEF DInv, IInv, TInv, Places, Home
  <1>3. /\ c \in Elems(chan[k]) /\ c \in Callers
        /\ Elems(chan'[k]) = Elems(chan[k]) \ {c} /\ Distinct(chan'[k])
    BY <1>1, <1>2, ElemsTail
  <1>4. cpc[c] = "accepted" /\ ShardOf(c) = k /\ item[c] \in Items[c]
    BY <1>3 DEF DInv, Places, Home, DTypes
  <1>5. /\ Own(c) \subseteq Spans /\ SpansOf(c) \in Seq(AnySpan)
        /\ Elems(SpansOf(c)) = Own(c) /\ Distinct(SpansOf(c))
    BY <1>3, <1>4, OwnSpans
  <1>6. \A s \in Own(c) : s[1] = c
    BY DEF Own
  <1>7. (Elems(batch[k]) \cup Elems(call[k])) \cap Own(c) = {}
    BY <1>3, <1>6 DEF DInv, Places, Home
  <1>8. Elems(batch'[k]) = Elems(batch[k]) \cup Own(c) /\ Distinct(batch'[k])
    BY <1>1, <1>2, <1>5, <1>7, ElemsConcat
  <1>9. \A q \in Keys \ {k} : chan'[q] = chan[q] /\ batch'[q] = batch[q]
    BY <1>1, <1>2
  <1>10. \A d \in Callers : Own(d)' = Own(d) /\ ShardOf(d)' = ShardOf(d)
    BY <1>1 DEF Own, ShardOf
  <1>11. \A s \in Own(c) : outcome[s] = "none"
    BY <1>3, <1>4, <1>5, <1>6 DEF DInv, Places, Fresh
  <1>12. Home'
    <2> SUFFICES ASSUME NEW q \in Keys
                 PROVE  /\ \A d \in Elems(chan'[q]) : cpc[d] = "accepted" /\ ShardOf(d)' = q
                        /\ \A s \in Elems(batch'[q]) \cup Elems(call[q]) :
                             /\ s[1] \in Callers /\ s \in Own(s[1])'
                             /\ cpc[s[1]] = "accepted" /\ ShardOf(s[1])' = q
                             /\ s[1] \notin Elems(chan'[q])
                        /\ Elems(batch'[q]) \cap Elems(call[q]) = {}
                        /\ Distinct(chan'[q]) /\ Distinct(batch'[q])
      BY <1>1 DEF Home
    <2>0. \A d \in Elems(chan[q]) : d \in Callers
      BY <1>2 DEF Elems
    <2>1. CASE q # k
      BY <1>9, <1>10, <2>0, <2>1 DEF DInv, Places, Home
    <2>2. CASE q = k
      <3>1. \A d \in Elems(chan'[k]) : cpc[d] = "accepted" /\ ShardOf(d)' = k
        BY <1>3, <1>10, <2>0, <2>2 DEF DInv, Places, Home
      <3>2. \A s \in Elems(batch[k]) \cup Elems(call[k]) :
                 /\ s[1] \in Callers /\ s \in Own(s[1])'
                 /\ cpc[s[1]] = "accepted" /\ ShardOf(s[1])' = k
                 /\ s[1] \notin Elems(chan'[k])
        BY <1>3, <1>10 DEF DInv, Places, Home
      <3>3. \A s \in Own(c) :
                 /\ s[1] \in Callers /\ s \in Own(s[1])'
                 /\ cpc[s[1]] = "accepted" /\ ShardOf(s[1])' = k
                 /\ s[1] \notin Elems(chan'[k])
        BY <1>3, <1>4, <1>6, <1>10
      <3>4. Elems(batch'[k]) \cap Elems(call[k]) = {}
        BY <1>7, <1>8 DEF DInv, Places, Home
      <3> QED BY <1>3, <1>8, <2>2, <3>1, <3>2, <3>3, <3>4
    <2> QED BY <2>1, <2>2
  <1>13. Fresh'
    <2>1. ASSUME NEW s \in Spans, outcome[s] # "none"
          PROVE  cpc[s[1]] = "accepted" /\ s[1] \notin Elems(chan'[ShardOf(s[1])'])
      <3>1. /\ s[1] \in Callers /\ cpc[s[1]] = "accepted"
            /\ s[1] \notin Elems(chan[ShardOf(s[1])])
        BY <2>1, SpanType DEF DInv, Places, Fresh
      <3>2. ShardOf(s[1]) \in Keys
        BY <3>1 DEF DInv, Ends, IInv, TInv
      <3> QED BY <1>3, <1>9, <1>10, <3>1, <3>2
    <2>2. \A q \in Keys : \A s \in Elems(batch'[q]) : outcome[s] = "none"
      BY <1>8, <1>9, <1>11 DEF DInv, Places, Fresh
    <2> QED BY <1>1, <2>1, <2>2 DEF DInv, Places, Fresh
  <1>14. Complete'
    <2> SUFFICES ASSUME NEW d \in Callers, cpc[d] = "accepted", NEW s \in Own(d),
                        outcome[s] = "none"
                 PROVE  \/ d \in Elems(chan'[ShardOf(d)])
                        \/ s \in Elems(batch'[ShardOf(d)]) \cup Elems(call[ShardOf(d)])
      BY <1>1, <1>10 DEF Complete
    <2>1. /\ ShardOf(d) \in Keys
          /\ \/ d \in Elems(chan[ShardOf(d)])
             \/ s \in Elems(batch[ShardOf(d)]) \cup Elems(call[ShardOf(d)])
      BY DEF DInv, Places, Complete, Ends, IInv, TInv
    <2> QED BY <1>3, <1>8, <1>9, <2>1
  <1> QED BY <1>12, <1>13, <1>14 DEF Places

\* sendItems: the piece goes from the batch to the call.
LEMMA PlacesPiece ==
  ASSUME DInv, NEW k \in Keys, sendItems(k), call[k] = <<>>,
         UNCHANGED <<cfg, item, cpc, chan, ans, outcome>>
  PROVE  Places' /\ call' \in [Keys -> Seq(AnySpan)]
  <1>1. /\ batch \in [Keys -> Seq(AnySpan)] /\ call \in [Keys -> Seq(AnySpan)]
        /\ Distinct(batch[k]) /\ ans[k] = None
    BY DEF DInv, IInv, TInv, DTypes, Places, Home, Calls
  <1>2. PieceLen(k) \in 0..Len(batch[k])
    <2>1. Len(batch[k]) \in Nat
      BY <1>1
    <2> QED BY <2>1, ConfigType DEF DInv, IInv, PieceLen
  <1>3. /\ call' \in [Keys -> Seq(AnySpan)]
        /\ Elems(call'[k]) \cup Elems(batch'[k]) = Elems(batch[k])
        /\ Elems(call'[k]) \cap Elems(batch'[k]) = {} /\ Distinct(batch'[k])
        /\ \A q \in Keys \ {k} : call'[q] = call[q] /\ batch'[q] = batch[q]
    BY <1>1, <1>2, ElemsSplit DEF sendItems
  <1>4. \A d \in Callers : Own(d)' = Own(d) /\ ShardOf(d)' = ShardOf(d)
    BY DEF Own, ShardOf
  <1>5. \A q \in Keys : \A d \in Elems(chan[q]) : d \in Callers
    BY DEF DInv, IInv, TInv, Elems
  <1>6. Home'
    <2> SUFFICES ASSUME NEW q \in Keys
                 PROVE  /\ \A d \in Elems(chan[q]) : cpc[d] = "accepted" /\ ShardOf(d)' = q
                        /\ \A s \in Elems(batch'[q]) \cup Elems(call'[q]) :
                             /\ s[1] \in Callers /\ s \in Own(s[1])'
                             /\ cpc[s[1]] = "accepted" /\ ShardOf(s[1])' = q
                             /\ s[1] \notin Elems(chan[q])
                        /\ Elems(batch'[q]) \cap Elems(call'[q]) = {}
                        /\ Distinct(chan[q]) /\ Distinct(batch'[q])
      BY DEF Home
    <2>1. Elems(batch'[q]) \cup Elems(call'[q]) \subseteq Elems(batch[q]) \cup Elems(call[q])
      BY <1>3
    <2>2. Elems(batch'[q]) \cap Elems(call'[q]) = {} /\ Distinct(batch'[q])
      BY <1>3 DEF DInv, Places, Home
    <2> QED BY <1>4, <1>5, <2>1, <2>2 DEF DInv, Places, Home
  <1>7. Fresh'
    <2>1. \A s \in Spans : outcome[s] # "none" =>
             cpc[s[1]] = "accepted" /\ s[1] \notin Elems(chan[ShardOf(s[1])'])
      BY <1>4, SpanType DEF DInv, Places, Fresh
    <2>2. \A q \in Keys : /\ \A s \in Elems(batch'[q]) : outcome[s] = "none"
                          /\ \A s \in Elems(call'[q]) : outcome[s] = "none" <=> ans[q] = None
      BY <1>1, <1>3 DEF DInv, Places, Fresh
    <2> QED BY <2>1, <2>2 DEF Fresh
  <1>8. Complete'
    <2> SUFFICES ASSUME NEW d \in Callers, cpc[d] = "accepted", NEW s \in Own(d),
                        outcome[s] = "none"
                 PROVE  \/ d \in Elems(chan[ShardOf(d)])
                        \/ s \in Elems(batch'[ShardOf(d)]) \cup Elems(call'[ShardOf(d)])
      BY <1>4 DEF Complete
    <2>1. /\ ShardOf(d) \in Keys
          /\ \/ d \in Elems(chan[ShardOf(d)])
             \/ s \in Elems(batch[ShardOf(d)]) \cup Elems(call[ShardOf(d)])
      BY DEF DInv, Places, Complete, Ends, IInv, TInv
    <2> QED BY <1>3, <2>1, ElemsEmpty
  <1> QED BY <1>3, <1>6, <1>7, <1>8 DEF Places

\* The call of shard k ends with a result.
LEMMA PlacesSettle ==
  ASSUME DInv, NEW k \in Keys, NEW r \in {"ok", "err"}, epc[k] # "idle",
         ans' = [ans EXCEPT ![k] = r],
         outcome' = [s \in Spans |-> IF s \in Elems(call[k]) THEN r ELSE outcome[s]],
         UNCHANGED <<cfg, item, cpc, chan, batch, call>>
  PROVE  Places'
  <1>1. ans \in [Keys -> {None, "ok", "err"}] /\ r # None
    BY ProcessorAssumption DEF DInv, DTypes
  <1>2. \A d \in Callers : Own(d)' = Own(d) /\ ShardOf(d)' = ShardOf(d)
    BY DEF Own, ShardOf
  <1>3. \A q \in Keys : \A d \in Elems(chan[q]) : d \in Callers
    BY DEF DInv, IInv, TInv, Elems
  <1>4. Home'
    BY <1>2, <1>3 DEF DInv, Places, Home
  <1>5. ASSUME NEW q \in Keys, NEW s \in Elems(batch[q]) \cup Elems(call[q])
        PROVE  s \in Spans /\ s[1] \in Callers /\ cpc[s[1]] = "accepted"
               /\ ShardOf(s[1]) = q /\ s[1] \notin Elems(chan[q])
    <2>1. /\ s[1] \in Callers /\ s \in Own(s[1]) /\ cpc[s[1]] = "accepted"
          /\ ShardOf(s[1]) = q /\ s[1] \notin Elems(chan[q])
      BY DEF DInv, Places, Home
    <2>2. item[s[1]] \in Items[s[1]]
      BY <2>1 DEF DInv, DTypes
    <2> QED BY <2>1, <2>2, OwnSpans
  <1>6. Fresh'
    <2>1. ASSUME NEW s \in Spans, outcome'[s] # "none"
          PROVE  cpc[s[1]] = "accepted" /\ s[1] \notin Elems(chan[ShardOf(s[1])'])
      <3>1. CASE s \in Elems(call[k])
        BY <1>2, <1>5, <3>1
      <3>2. CASE s \notin Elems(call[k])
        BY <1>2, <2>1, <3>2, SpanType DEF DInv, Places, Fresh
      <3> QED BY <3>1, <3>2
    <2>2. ASSUME NEW q \in Keys, NEW s \in Elems(batch[q])
          PROVE  outcome'[s] = "none"
      <3>1. s \in Spans /\ s \notin Elems(call[k])
        BY <1>5 DEF DInv, Places, Home
      <3> QED BY <3>1 DEF DInv, Places, Fresh
    <2>3. ASSUME NEW q \in Keys, NEW s \in Elems(call[q])
          PROVE  outcome'[s] = "none" <=> ans'[q] = None
      <3>1. CASE q = k
        BY <1>1, <1>5, <3>1
      <3>2. CASE q # k
        <4>1. s \in Spans /\ s \notin Elems(call[k])
          BY <1>5, <3>2
        <4> QED BY <1>1, <3>2, <4>1 DEF DInv, Places, Fresh
      <3> QED BY <3>1, <3>2
    <2> QED BY <2>1, <2>2, <2>3 DEF Fresh
  <1>7. Complete'
    <2> SUFFICES ASSUME NEW d \in Callers, cpc[d] = "accepted", NEW s \in Own(d),
                        outcome'[s] = "none"
                 PROVE  \/ d \in Elems(chan[ShardOf(d)])
                        \/ s \in Elems(batch[ShardOf(d)]) \cup Elems(call[ShardOf(d)])
      BY <1>2 DEF Complete
    <2>1. item[d] \in Items[d]
      BY DEF DInv, DTypes
    <2>2. s \in Spans
      BY <2>1, OwnSpans
    <2>3. outcome[s] = "none"
      BY <2>2
    <2> QED BY <2>3 DEF DInv, Places, Complete
  <1> QED BY <1>4, <1>6, <1>7 DEF Places

\* sendItems returns: the spans of the call have their outcome.
LEMMA PlacesReturn ==
  ASSUME DInv, NEW k \in Keys, SendReturns(k), UNCHANGED outcome
  PROVE  Places'
  <1>1. /\ ans[k] # None /\ ans' = [ans EXCEPT ![k] = None]
        /\ call' = [call EXCEPT ![k] = <<>>]
        /\ UNCHANGED <<cfg, item, cpc, chan, batch, outcome>>
    BY DEF SendReturns, consumeVars
  <1>2. call \in [Keys -> Seq(AnySpan)] /\ ans \in [Keys -> {None, "ok", "err"}]
    BY DEF DInv, DTypes
  <1>3. /\ Elems(call'[k]) = {}
        /\ \A q \in Keys \ {k} : call'[q] = call[q] /\ ans'[q] = ans[q]
    BY <1>1, <1>2, ElemsEmpty
  <1>4. \A d \in Callers : Own(d)' = Own(d) /\ ShardOf(d)' = ShardOf(d)
    BY <1>1 DEF Own, ShardOf
  <1>5. \A q \in Keys : \A d \in Elems(chan[q]) : d \in Callers
    BY DEF DInv, IInv, TInv, Elems
  <1>6. \A q \in Keys : Elems(call'[q]) \subseteq Elems(call[q])
    BY <1>3
  <1>7. Home'
    BY <1>1, <1>4, <1>5, <1>6 DEF DInv, Places, Home
  <1>8. Fresh'
    <2>1. \A s \in Spans : outcome[s] # "none" =>
             cpc[s[1]] = "accepted" /\ s[1] \notin Elems(chan[ShardOf(s[1])'])
      BY <1>4, SpanType DEF DInv, Places, Fresh
    <2>2. \A q \in Keys : \A s \in Elems(call'[q]) : outcome[s] = "none" <=> ans'[q] = None
      BY <1>3 DEF DInv, Places, Fresh
    <2> QED BY <1>1, <2>1, <2>2 DEF DInv, Places, Fresh
  <1>9. Complete'
    <2> SUFFICES ASSUME NEW d \in Callers, cpc[d] = "accepted", NEW s \in Own(d),
                        outcome[s] = "none"
                 PROVE  \/ d \in Elems(chan[ShardOf(d)])
                        \/ s \in Elems(batch[ShardOf(d)]) \cup Elems(call'[ShardOf(d)])
      BY <1>1, <1>4 DEF Complete
    <2>1. /\ ShardOf(d) \in Keys
          /\ \/ d \in Elems(chan[ShardOf(d)])
             \/ s \in Elems(batch[ShardOf(d)]) \cup Elems(call[ShardOf(d)])
      BY DEF DInv, Places, Complete, Ends, IInv, TInv
    <2>2. s \notin Elems(call[k])
      BY <1>1 DEF DInv, Places, Fresh
    <2> QED BY <1>3, <2>1, <2>2
  <1> QED BY <1>7, <1>8, <1>9 DEF Places

-----------------------------------------------------------------------------
(* The invariant *)

\* Before the first request there are no spans.
LEMMA InitDInv == PipelineInit => DInv
  <1> SUFFICES ASSUME PipelineInit PROVE DInv
    OBVIOUS
  <1>0. IInv
    BY InitInv
  <1> USE DEF PipelineInit, Init, E!Init
  <1>1. DTypes
    <2>1. /\ \A c \in Callers : cpc[c] = "idle"
          /\ call \in [Keys -> Seq(AnySpan)] /\ ans \in [Keys -> {None, "ok", "err"}]
      OBVIOUS
    <2>2. /\ epc \in [Keys -> {"idle", "push", "failed"}]
          /\ outcome \in [Spans -> {"none", "ok", "err"}]
      OBVIOUS
    <2>3. early \subseteq Callers /\ closed \in BOOLEAN /\ graceful \in BOOLEAN
      OBVIOUS
    <2> QED BY <2>1, <2>2, <2>3 DEF DTypes
  <1>2. Places
    BY ElemsEmpty DEF Places, Home, Fresh, Complete
  <1>3. Calls
    BY DEF Calls
  <1>4. Ends
    BY ElemsEmpty DEF Ends, Busy
  <1> QED BY <1>0, <1>1, <1>2, <1>3, <1>4 DEF DInv

\* Steps of a caller up to the channel.
LEMMA RequestDInv ==
  ASSUME DInv, NEW c \in Callers, Request(c)
  PROVE  DTypes' /\ Places' /\ Calls' /\ Ends'
  <1>1. PICK i \in Items[c] : item' = [item EXCEPT ![c] = i]
    BY DEF Request, ConsumeBegin
  <1>2. /\ cpc[c] = "idle" /\ sd = "running"
        /\ cpc' = [cpc EXCEPT ![c] = IF cfg.multi THEN "load" ELSE "send"]
        /\ UNCHANGED <<cfg, created, chan, batch, spc, call, ans, closed, early, graceful,
                       sd, epc, outcome>>
    BY DEF Request, ConsumeBegin, shardVars, callVars, exporterVars
  <1>3. /\ cpc \in [Callers -> {"idle", "load", "lock", "send", "accepted", "refused"}]
        /\ item \in [Callers -> AnyItem \cup {None}]
    BY DEF DInv, IInv, TInv
  <1>4. DTypes'
    BY <1>1, <1>2, <1>3 DEF DInv, DTypes
  <1>5. Places'
    BY <1>1, <1>2, <1>3, PlacesStay
  <1>6. Calls'
    BY <1>2 DEF DInv, Calls
  <1>7. Ends'
    BY <1>1, <1>2, <1>3 DEF DInv, DTypes, Ends, ShardOf, Busy
  <1> QED BY <1>4, <1>5, <1>6, <1>7

\* Looking a shard up or making one moves no span.
LEMMA ConsumeMovesDInv ==
  ASSUME DInv, NEW c \in Callers,
         ConsumeLoad(c) \/ ConsumeRefused(c) \/ ConsumeCreate(c),
         UNCHANGED <<exporterVars, graceful, sd>>
  PROVE  DTypes' /\ Places' /\ Calls' /\ Ends'
  <1>1. /\ cpc[c] \in {"load", "lock"} /\ created \subseteq created'
        /\ \E p \in {"send", "lock", "refused"} :
             /\ cpc' = [cpc EXCEPT ![c] = p]
             /\ p = "send" => item[c].key \in created'
        /\ UNCHANGED <<cfg, item, chan, batch, call, ans, closed, early, graceful, sd,
                       epc, outcome>>
    BY DEF ConsumeLoad, ConsumeRefused, ConsumeCreate, shardVars, callVars, exporterVars
  <1>2. /\ cpc \in [Callers -> {"idle", "load", "lock", "send", "accepted", "refused"}]
        /\ spc \in [Keys -> {"none", "select", "process", "timeout", "drain",
                             "drainProcess", "final", "exit"}]
    BY DEF DInv, IInv, TInv
  <1>3. \A k \in Keys : spc'[k] = spc[k] \/ (spc[k] = "none" /\ spc'[k] = "select")
    BY <1>2 DEF ConsumeLoad, ConsumeRefused, ConsumeCreate, shardVars, DInv, IInv, Flushed
  <1>4. DTypes'
    BY <1>1, <1>2 DEF DInv, DTypes
  <1>5. Places'
    BY <1>1, <1>2, PlacesStay
  <1>6. Calls'
    BY <1>1, <1>3 DEF DInv, Calls
  <1>7. Ends'
    BY <1>1, <1>2, <1>3 DEF DInv, Ends, ShardOf, Busy
  <1> QED BY <1>4, <1>5, <1>6, <1>7

\* A caller is accepted, by a shard that has not come to its end unless the caller
\* is late.
LEMMA ConsumeSendDInv ==
  ASSUME DInv, NEW c \in Callers, ConsumeSend(c), UNCHANGED <<exporterVars, graceful, sd>>
  PROVE  DTypes' /\ Places' /\ Calls' /\ Ends'
  <1> DEFINE k == ShardOf(c)
  <1>1. /\ cpc[c] = "send" /\ cpc' = [cpc EXCEPT ![c] = "accepted"]
        /\ chan' = [chan EXCEPT ![k] = Append(@, c)]
        /\ UNCHANGED <<cfg, item, created, batch, spc, call, ans, closed, early, graceful,
                       sd, epc, outcome>>
    BY DEF ConsumeSend, shardVars, callVars, exporterVars
  <1>2. /\ k \in Keys /\ chan \in [Keys -> Seq(Callers)]
        /\ cpc \in [Callers -> {"idle", "load", "lock", "send", "accepted", "refused"}]
    BY <1>1 DEF DInv, IInv, TInv, Ends
  <1>3. /\ Elems(chan'[k]) = Elems(chan[k]) \cup {c}
        /\ \A q \in Keys \ {k} : chan'[q] = chan[q]
    BY <1>1, <1>2, ElemsAppend
  <1>4. DTypes'
    BY <1>1, <1>2 DEF DInv, DTypes
  <1>5. Places'
    BY <1>1, PlacesSend
  <1>6. Calls'
    BY <1>1 DEF DInv, Calls
  <1>7. Ends'
    <2>1. c \notin early /\ ~(closed /\ graceful)
      BY <1>1 DEF DInv, Ends, Busy
    <2>2. \A q \in Keys : Elems(chan'[q]) \cap early = Elems(chan[q]) \cap early
      BY <1>3, <2>1
    <2> QED BY <1>1, <1>2, <2>1, <2>2 DEF DInv, DTypes, Ends, ShardOf, Busy
  <1> QED BY <1>4, <1>5, <1>6, <1>7

\* What a step of shard k to position p leaves true of the end.
LEMMA ShardEnds ==
  ASSUME DInv, NEW k \in Keys, NEW p,
         spc' = [spc EXCEPT ![k] = p],
         UNCHANGED <<cfg, consumeVars, closed, early, graceful, sd>>,
         p \in {"drain", "drainProcess", "final", "exit"} => closed,
         \A q \in Keys : Elems(chan'[q]) \subseteq Elems(chan[q]),
         p \in {"final", "exit"} => spc[k] \in {"final", "exit"} \/ chan'[k] = <<>>
  PROVE  Ends'
  <1>1. \A q \in Keys : q # k => spc'[q] = spc[q]
    BY DEF DInv, IInv, TInv
  <1>2. spc'[k] = p
    BY DEF DInv, IInv, TInv
  <1>3. \A q \in Keys : spc'[q] \in {"final", "exit"} => Elems(chan'[q]) \cap early = {}
    BY <1>1, <1>2, ElemsEmpty DEF DInv, Ends
  <1> QED BY <1>1, <1>2, <1>3 DEF DInv, Ends, consumeVars, ShardOf, Busy

\* A shard receives an item.
LEMMA ShardReceiveDInv ==
  ASSUME DInv, NEW k \in Keys, ShardReceive(k), UNCHANGED <<exporterVars, graceful, sd>>
  PROVE  DTypes' /\ Places' /\ Calls' /\ Ends'
  <1> DEFINE p == IF spc[k] = "select" THEN "process" ELSE "drainProcess"
  <1>1. /\ spc[k] \in {"select", "drain"} /\ chan[k] # <<>>
        /\ chan' = [chan EXCEPT ![k] = Tail(@)]
        /\ spc' = [spc EXCEPT ![k] = p]
        /\ UNCHANGED <<cfg, consumeVars, call, ans, closed, early, graceful, sd, epc, outcome>>
    BY DEF ShardReceive, callVars, exporterVars
  <1>2. Places'
    BY <1>1, PlacesReceive
  <1>3. DTypes'
    BY <1>1 DEF DInv, DTypes, consumeVars
  <1>4. Calls'
    BY <1>1 DEF DInv, IInv, TInv, Calls
  <1>5. \A q \in Keys : Elems(chan'[q]) \subseteq Elems(chan[q])
    <2>1. chan \in [Keys -> Seq(Callers)] /\ Distinct(chan[k])
      BY DEF DInv, IInv, TInv, Places, Home
    <2> QED BY <1>1, <2>1, ElemsTail
  <1>6. p = "drainProcess" => closed
    BY <1>1 DEF DInv, Ends
  <1>7. Ends'
    BY <1>1, <1>5, <1>6, ShardEnds
  <1> QED BY <1>2, <1>3, <1>4, <1>7

\* Steps of a shard that pass a piece to the exporter.
LEMMA ShardSendDInv ==
  ASSUME DInv, NEW k \in Keys, ProcessSend(k) \/ ShardTimeout(k) \/ DrainEnd(k),
         UNCHANGED <<exporterVars, graceful, sd>>
  PROVE  DTypes' /\ Places' /\ Calls' /\ Ends'
  <1>1. /\ UNCHANGED <<cfg, consumeVars, chan, ans, closed, early, graceful, sd, epc, outcome>>
        /\ sendItems(k) \/ UNCHANGED <<call, batch>>
        /\ spc[k] \in {"process", "drainProcess"} => call[k] = <<>> /\ UNCHANGED spc
        /\ spc[k] \in {"process", "drainProcess", "select", "drain"}
        /\ spc[k] = "select" => spc' = [spc EXCEPT ![k] = "timeout"]
        /\ spc[k] = "drain" =>
             /\ chan[k] = <<>>
             /\ \/ spc' = [spc EXCEPT ![k] = "final"]
                \/ spc' = [spc EXCEPT ![k] = "exit"] /\ UNCHANGED <<call, batch>>
    BY DEF ProcessSend, ShardTimeout, DrainEnd, processing, exporterVars
  <1>2. call[k] = <<>> /\ ans[k] = None /\ epc[k] = "idle"
    BY <1>1 DEF DInv, Calls
  <1>3. Places' /\ call' \in [Keys -> Seq(AnySpan)]
    <2>1. UNCHANGED <<item, cpc>> /\ call \in [Keys -> Seq(AnySpan)]
      BY <1>1 DEF consumeVars, DInv, DTypes
    <2>2. CASE sendItems(k)
      BY <1>1, <1>2, <2>1, <2>2, PlacesPiece
    <2>3. CASE UNCHANGED <<call, batch>>
      BY <1>1, <2>1, <2>3, PlacesStay
    <2> QED BY <1>1, <2>2, <2>3
  <1>4. DTypes'
    BY <1>1, <1>3 DEF DInv, DTypes, consumeVars
  <1>5. \A q \in Keys \ {k} : call'[q] = call[q] /\ spc'[q] = spc[q]
    BY <1>1 DEF sendItems, DInv, DTypes, IInv, TInv
  <1>6. /\ spc'[k] \notin {"none", "select", "drain"}
        /\ spc'[k] = "exit" => call'[k] = <<>>
    BY <1>1, <1>2 DEF DInv, IInv, TInv
  <1>7. Calls'
    BY <1>1, <1>2, <1>5, <1>6 DEF DInv, Calls
  <1>8. Ends'
    <2>1. spc' = [spc EXCEPT ![k] = spc'[k]]
      BY <1>1 DEF DInv, IInv, TInv
    <2>2. /\ spc'[k] \in {"drain", "drainProcess", "final", "exit"} => closed
          /\ spc'[k] \in {"final", "exit"} => chan'[k] = <<>>
      BY <1>1 DEF DInv, IInv, TInv, Ends
    <2> QED BY <1>1, <2>1, <2>2, ShardEnds
  <1> QED BY <1>3, <1>4, <1>7, <1>8

\* Steps of a shard between two positions.
LEMMA ShardMovesDInv ==
  ASSUME DInv, NEW k \in Keys, ProcessEnd(k) \/ TimeoutEnd(k) \/ ShardShutdown(k),
         UNCHANGED <<exporterVars, graceful, sd>>
  PROVE  DTypes' /\ Places' /\ Calls' /\ Ends'
  <1>1. /\ UNCHANGED <<cfg, consumeVars, chan, batch, call, ans, closed, early, graceful, sd,
                       epc, outcome>>
        /\ \E p \in {"select", "drain"} :
             /\ spc' = [spc EXCEPT ![k] = p]
             /\ p = "drain" => spc[k] = "drainProcess" \/ closed
        /\ call[k] = <<>> \/ spc[k] = "select"
    BY DEF ProcessEnd, TimeoutEnd, ShardShutdown, processing, callVars, exporterVars
  <1>2. Places' /\ DTypes'
    BY <1>1, PlacesStay DEF DInv, DTypes, consumeVars
  <1>3. Calls'
    BY <1>1 DEF DInv, IInv, TInv, Calls
  <1>4. Ends'
    BY <1>1, ShardEnds DEF DInv, Ends
  <1> QED BY <1>2, <1>3, <1>4

\* A shard takes back a call that was answered.
LEMMA SendReturnsDInv ==
  ASSUME DInv, NEW k \in Keys, SendReturns(k), UNCHANGED <<exporterVars, graceful, sd>>
  PROVE  DTypes' /\ Places' /\ Calls' /\ Ends'
  <1> DEFINE p == IF spc[k] = "final" THEN "exit" ELSE spc[k]
  <1>1. /\ call[k] # <<>> /\ ans[k] # None /\ ans' = [ans EXCEPT ![k] = None]
        /\ call' = [call EXCEPT ![k] = <<>>] /\ spc' = [spc EXCEPT ![k] = p]
        /\ UNCHANGED <<cfg, consumeVars, chan, batch, closed, early, graceful, sd, epc, outcome>>
    BY DEF SendReturns, exporterVars
  <1>2. Places'
    BY <1>1, PlacesReturn
  <1>3. DTypes'
    BY <1>1 DEF DInv, DTypes, consumeVars
  <1>4. Calls'
    BY <1>1 DEF DInv, DTypes, IInv, TInv, Calls
  <1>5. /\ p \in {"drain", "drainProcess", "final", "exit"} => closed
        /\ p \in {"final", "exit"} => spc[k] \in {"final", "exit"}
    BY DEF DInv, Ends
  <1>6. Ends'
    BY <1>1, <1>5, ShardEnds
  <1> QED BY <1>2, <1>3, <1>4, <1>6

-----------------------------------------------------------------------------
(* The exporter and ShutdownAll *)

\* The ends of a call of the exporter.
CallEnds(k) == E!PushOk(k) \/ E!PushPermanent(k) \/ E!GiveUp(k) \/ E!CutShort(k)

\* A call ends with one result for all spans it carried.
LEMMA CallEndsWith ==
  ASSUME DInv, NEW k \in Keys, CallEnds(k)
  PROVE  /\ epc[k] # "idle" /\ epc' = [epc EXCEPT ![k] = "idle"] /\ UNCHANGED call
         /\ \E r \in {"ok", "err"} :
              /\ ans' = [ans EXCEPT ![k] = r]
              /\ outcome' = [s \in Spans |-> IF s \in Elems(call[k]) THEN r ELSE outcome[s]]
  <1>1. E!SpansIn(call[k]) = Elems(call[k])
    BY CallElems DEF DInv, DTypes
  <1>2. /\ epc[k] # "idle" /\ UNCHANGED call
        /\ E!Return(k, "ok") \/ E!Return(k, "err")
    BY DEF CallEnds, E!PushOk, E!PushPermanent, E!GiveUp, E!CutShort
  <1> QED BY <1>1, <1>2 DEF E!Return

\* The exporter settles the spans of a call when it ends.
LEMMA ExporterDInv ==
  ASSUME DInv, NEW k \in Keys, ExporterStep(k)
  PROVE  DTypes' /\ Places' /\ Calls' /\ Ends'
  <1>1. UNCHANGED <<cfg, consumeVars, chan, batch, spc, closed, early, graceful, sd>>
    BY DEF ExporterStep, shardVars
  <1>2. Ends'
    BY <1>1 DEF DInv, Ends, consumeVars, ShardOf, Busy
  <1>3. CASE CallEnds(k)
    <2>1. PICK r \in {"ok", "err"} :
             /\ ans' = [ans EXCEPT ![k] = r]
             /\ outcome' = [s \in Spans |-> IF s \in Elems(call[k]) THEN r ELSE outcome[s]]
      BY <1>3, CallEndsWith
    <2>2. epc[k] # "idle" /\ epc' = [epc EXCEPT ![k] = "idle"] /\ UNCHANGED call
      BY <1>3, CallEndsWith
    <2>3. Places'
      BY <1>1, <2>1, <2>2, PlacesSettle DEF consumeVars
    <2>4. DTypes'
      BY <1>1, <2>1, <2>2 DEF DInv, DTypes, consumeVars
    <2>5. \A q \in Keys : call[q] = <<>> => q # k
      BY <2>2 DEF DInv, Calls
    <2>6. \A q \in Keys : (q # k => ans'[q] = ans[q])
      BY <2>1 DEF DInv, DTypes
    <2>7. \A q \in Keys : epc'[q] # "idle" => q # k /\ epc[q] # "idle"
      BY <2>2 DEF DInv, DTypes
    <2>8. Calls'
      BY <1>1, <2>2, <2>5, <2>6, <2>7 DEF DInv, Calls
    <2> QED BY <1>2, <2>3, <2>4, <2>8
  <1>4. CASE E!SendBegin(k) \/ E!PushFails(k) \/ E!Retry(k)
    <2>1. /\ UNCHANGED <<call, ans, outcome>>
          /\ \A q \in Keys : epc'[q] = epc[q] \/ (q = k /\ call[k] # <<>> /\ ans[k] = None)
      BY <1>4 DEF E!SendBegin, E!PushFails, E!Retry, E!history, DInv, DTypes, Calls
    <2>2. epc' \in [Keys -> {"idle", "push", "failed"}]
      BY <1>4 DEF E!SendBegin, E!PushFails, E!Retry, DInv, DTypes
    <2>3. Places' /\ DTypes'
      BY <1>1, <2>1, <2>2, PlacesStay DEF DInv, DTypes, consumeVars
    <2>4. Calls'
      BY <1>1, <2>1 DEF DInv, Calls
    <2> QED BY <1>2, <2>3, <2>4
  <1> QED BY <1>3, <1>4 DEF ExporterStep, E!Call, CallEnds

\* ShutdownAll and the timers move no span.
LEMMA ShutdownDInv ==
  ASSUME DInv,
         \/ ReceiverShutdown \/ ProcessorShutdown \/ ExporterShutdown
         \/ UNCHANGED vars \/ \E k \in Keys : Clock(k)
  PROVE  DTypes' /\ Places' /\ Calls' /\ Ends'
  <1>1. UNCHANGED <<cfg, consumeVars, chan, batch, spc, call, ans, graceful, epc, outcome>>
    BY DEF ReceiverShutdown, ProcessorShutdown, ExporterShutdown, Clock, TimerFires,
           ShutdownClose, vars, processorVars, exporterVars, shardVars, callVars,
           E!Shutdown, E!history
  <1>2. \/ /\ ~closed /\ closed' /\ early' = {c \in Callers : cpc[c] = "accepted"}
           /\ sd' = "processor" /\ (graceful => \A c \in Callers : ~Busy(c))
        \/ /\ UNCHANGED <<closed, early>>
           /\ sd' \in {"processor", "down"} <=> sd \in {"processor", "down"}
    BY DEF ReceiverShutdown, ProcessorShutdown, ExporterShutdown, Clock, TimerFires,
           ShutdownClose, vars, processorVars, exporterVars
  <1>3. Places'
    BY <1>1, PlacesStay DEF consumeVars
  <1>4. DTypes' /\ Calls'
    BY <1>1, <1>2 DEF DInv, DTypes, Calls, consumeVars
  <1>5. Ends'
    BY <1>1, <1>2 DEF DInv, DTypes, Ends, consumeVars, ShardOf, Busy
  <1> QED BY <1>3, <1>4, <1>5

\* Every step of the pipeline keeps the spans in their places.
LEMMA NextDInv == DInv /\ [Next]_vars => DInv'
  <1> SUFFICES ASSUME DInv, [Next]_vars PROVE DInv'
    OBVIOUS
  <1>0. IInv'
    BY NextInv DEF DInv
  <1> SUFFICES DTypes' /\ Places' /\ Calls' /\ Ends'
    BY <1>0 DEF DInv
  <1>1. ASSUME NEW c \in Callers, Request(c) \/ Handler(c)
        PROVE  DTypes' /\ Places' /\ Calls' /\ Ends'
    BY <1>1, RequestDInv, ConsumeMovesDInv, ConsumeSendDInv DEF Handler, Consume
  <1>2. ASSUME NEW k \in Keys, ProcessorStep(k)
        PROVE  DTypes' /\ Places' /\ Calls' /\ Ends'
    BY <1>2, ShardReceiveDInv, ShardSendDInv, ShardMovesDInv, SendReturnsDInv
    DEF ProcessorStep, Shard
  <1>3. ASSUME NEW k \in Keys, ExporterStep(k)
        PROVE  DTypes' /\ Places' /\ Calls' /\ Ends'
    BY <1>3, ExporterDInv
  <1>4. CASE \/ ReceiverShutdown \/ ProcessorShutdown \/ ExporterShutdown \/ Down
             \/ UNCHANGED vars \/ \E k \in Keys : Clock(k)
    BY <1>4, ShutdownDInv DEF Down
  <1> QED BY <1>1, <1>2, <1>3, <1>4 DEF Next

-----------------------------------------------------------------------------
(* Refinement *)

fates == [s \in Spans |-> fateOf(s)]
isOpen == sd # "down"

\* A pipeline step does to the fates what a step of Delivery may do.
DeliveryStep ==
  \/ D!Next
  \/ UNCHANGED <<fates, isOpen>>

\* At first every span is absent.
LEMMA InitFate == PipelineInit => D!Init
  <1> SUFFICES ASSUME PipelineInit PROVE D!Init
    OBVIOUS
  <1>1. \A s \in Spans : fateOf(s) = "absent"
    BY SpanType DEF fateOf, PipelineInit, Init
  <1> QED BY <1>1 DEF D!Init, PipelineInit

\* Steps that change nothing a fate depends on.
LEMMA FateStays ==
  ASSUME DInv, UNCHANGED <<outcome, graceful, closed, early, isOpen>>,
         \A c \in Callers : cpc'[c] = "accepted" <=> cpc[c] = "accepted",
         \A c \in Callers : cpc[c] = "accepted" => item'[c] = item[c]
  PROVE  DeliveryStep
  <1>1. \A s \in Spans : fateOf(s)' = fateOf(s)
    BY SpanType DEF fateOf, Late
  <1> QED BY <1>1 DEF DeliveryStep, fates

\* Up to the channel the spans of a caller are absent.
LEMMA CallerFate ==
  ASSUME DInv, NEW c \in Callers, Request(c) \/ (Handler(c) /\ ~ConsumeSend(c))
  PROVE  DeliveryStep
  <1>1. /\ UNCHANGED <<outcome, graceful, closed, early, sd>>
        /\ cpc[c] # "accepted" /\ (cpc[c] # "idle" => UNCHANGED item)
        /\ \E p \in {"load", "lock", "send", "refused"} : cpc' = [cpc EXCEPT ![c] = p]
        /\ \A d \in Callers \ {c} : item'[d] = item[d]
    BY DEF Request, ConsumeBegin, Handler, Consume, ConsumeLoad, ConsumeRefused, ConsumeCreate,
           exporterVars, DInv, IInv, TInv
  <1>2. \A d \in Callers : cpc'[d] = "accepted" <=> cpc[d] = "accepted"
    BY <1>1 DEF DInv, IInv, TInv
  <1>3. \A d \in Callers : cpc[d] = "accepted" => item'[d] = item[d]
    BY <1>1
  <1> QED BY <1>1, <1>2, <1>3, FateStays DEF isOpen

\* A caller is accepted: its spans are pending, unless it is late.
LEMMA SendFate ==
  ASSUME DInv, NEW c \in Callers, ConsumeSend(c), UNCHANGED <<exporterVars, graceful, sd>>
  PROVE  DeliveryStep
  <1>1. /\ cpc[c] = "send" /\ cpc' = [cpc EXCEPT ![c] = "accepted"]
        /\ UNCHANGED <<item, outcome, graceful, closed, early, sd>>
    BY DEF ConsumeSend, exporterVars
  <1>2. \A d \in Callers : cpc'[d] = IF d = c THEN "accepted" ELSE cpc[d]
    BY <1>1 DEF DInv, IInv, TInv
  <1>3. \A s \in Spans : s[1] # c => fateOf(s)' = fateOf(s)
    BY <1>1, <1>2, SpanType DEF fateOf, Late
  <1>4. \A s \in Spans : s[1] = c => fateOf(s) = "absent" /\ outcome[s] = "none"
    BY <1>1 DEF fateOf, DInv, Places, Fresh
  <1>5. CASE closed
    <2>1. ~graceful /\ c \notin early
      BY <1>1, <1>5 DEF DInv, DTypes, Ends, Busy
    <2>2. \A s \in Spans : s[1] = c => fateOf(s)' = "absent"
      BY <1>1, <1>2, <1>5, <2>1 DEF fateOf, Late
    <2>3. \A s \in Spans : fateOf(s)' = fateOf(s)
      BY <1>3, <1>4, <2>2
    <2> QED BY <1>1, <2>3 DEF DeliveryStep, fates, isOpen
  <1>6. CASE ~closed
    <2> DEFINE S == {s \in Spans : s[1] = c /\ ~(s[2] > item[c].n)}
    <2>1. sd # "down"
      BY <1>6 DEF DInv, Ends
    <2>2. \A s \in Spans : s[1] = c =>
             fateOf(s)' = IF s[2] > item[c].n THEN "absent" ELSE "pending"
      BY <1>1, <1>2, <1>4, <1>6 DEF fateOf, Late
    <2>3. \A s \in Spans : fateOf(s)' = IF s \in S THEN "pending" ELSE fateOf(s)
      BY <1>3, <1>4, <2>2
    <2>4. D!Accept(S)
      BY <1>1, <1>4, <2>1, <2>3 DEF D!Accept
    <2> QED BY <2>4 DEF DeliveryStep, D!Next
  <1> QED BY <1>5, <1>6 DEF DInv, DTypes

\* A call of the exporter ends: the spans it carried are settled.
LEMMA SettleFate ==
  ASSUME DInv, NEW k \in Keys, CallEnds(k),
         UNCHANGED <<consumeVars, closed, early, graceful, sd>>
  PROVE  DeliveryStep
  <1>1. PICK r \in {"ok", "err"} :
           outcome' = [s \in Spans |-> IF s \in Elems(call[k]) THEN r ELSE outcome[s]]
    BY CallEndsWith
  <1>2. epc[k] # "idle" /\ ans[k] = None
    BY CallEndsWith DEF DInv, Calls
  <1>3. \A s \in Elems(call[k]) : outcome[s] = "none"
    BY <1>2 DEF DInv, Places, Fresh
  <1> DEFINE S == {s \in Spans : s \in Elems(call[k]) /\ fateOf(s) = "pending"}
             how == IF r = "ok" THEN "exported" ELSE "dropped"
  <1>4. ASSUME NEW s \in Spans
        PROVE  fateOf(s)' = IF s \in S THEN how ELSE fateOf(s)
    <2>1. CASE s \notin Elems(call[k])
      BY <1>1, <2>1 DEF fateOf, Late, consumeVars
    <2>2. CASE s \in Elems(call[k])
      BY <1>1, <1>3, <2>2 DEF fateOf, Late, consumeVars
    <2> QED BY <2>1, <2>2
  <1>5. D!Settle(S, how)
    BY <1>4 DEF D!Settle
  <1> QED BY <1>5 DEF DeliveryStep, D!Next

\* ShutdownAll.
LEMMA CloseFate ==
  ASSUME DInv, ReceiverShutdown \/ ProcessorShutdown
  PROVE  DeliveryStep
  <1>1. /\ UNCHANGED <<item, cpc, outcome, graceful>> /\ sd # "down" /\ sd' # "down"
        /\ \/ UNCHANGED <<closed, early>>
           \/ ~closed /\ early' = {c \in Callers : cpc[c] = "accepted"}
    BY DEF ReceiverShutdown, ProcessorShutdown, ShutdownClose, exporterVars, processorVars,
           consumeVars
  <1>2. \A c \in Callers : Late(c)' = Late(c)
    BY <1>1 DEF Late
  <1>3. \A s \in Spans : fateOf(s)' = fateOf(s)
    BY <1>1, <1>2, SpanType DEF fateOf
  <1> QED BY <1>1, <1>3 DEF DeliveryStep, fates, isOpen

\* ShutdownAll comes to the exporter when no span is pending.
LEMMA DownFate ==
  ASSUME DInv, ExporterShutdown
  PROVE  DeliveryStep
  <1>1. /\ sd = "processor" /\ sd' = "down" /\ closed
        /\ \A k \in created : spc[k] = "exit"
        /\ UNCHANGED <<item, cpc, outcome, graceful, closed, early>>
    BY DEF ExporterShutdown, ShutdownDone, consumeVars, E!Shutdown, E!history
  <1>2. \A s \in Spans : fateOf(s)' = fateOf(s)
    BY <1>1 DEF fateOf, Late
  <1>3. ASSUME NEW s \in Spans, fateOf(s) = "pending"
        PROVE  FALSE
    <2> DEFINE c == s[1]
    <2>1. /\ c \in Callers /\ cpc[c] = "accepted" /\ ~Late(c) /\ outcome[s] = "none"
          /\ ~(s[2] > item[c].n) /\ s[2] \in Nat \ {0} /\ s = <<c, s[2]>>
      BY <1>3, SpanType DEF fateOf, DInv, DTypes
    <2>2. s \in Own(c) /\ ShardOf(c) \in created /\ ShardOf(c) \in Keys
      <3>1. item[c].n \in Nat
        BY <2>1, OwnSpans DEF DInv, DTypes
      <3> QED BY <2>1, <3>1 DEF Own, DInv, Ends, IInv, TInv
    <2>3. spc[ShardOf(c)] = "exit"
      BY <1>1, <2>2
    <2>4. batch[ShardOf(c)] = <<>> /\ call[ShardOf(c)] = <<>>
      BY <2>2, <2>3 DEF DInv, IInv, Flushed, Calls
    <2>5. c \in Elems(chan[ShardOf(c)])
      BY <2>1, <2>2, <2>4, ElemsEmpty DEF DInv, Places, Complete
    <2>6. c \notin early
      BY <2>2, <2>3, <2>5 DEF DInv, Ends
    <2> QED BY <1>1, <2>1, <2>6 DEF Late, DInv, DTypes, Ends
  <1>4. D!Close
    BY <1>1, <1>2, <1>3 DEF D!Close
  <1> QED BY <1>4 DEF DeliveryStep, D!Next

\* Every step of the pipeline is a step of Delivery, or changes no fate.
LEMMA NextFate == DInv /\ [Next]_vars => DeliveryStep
  <1> SUFFICES ASSUME DInv, [Next]_vars PROVE DeliveryStep
    OBVIOUS
  <1>1. ASSUME NEW c \in Callers, Request(c) \/ Handler(c)
        PROVE  DeliveryStep
    BY <1>1, CallerFate, SendFate DEF Handler
  <1>2. ASSUME NEW k \in Keys, ProcessorStep(k) \/ Clock(k)
        PROVE  DeliveryStep
    <2>1. UNCHANGED <<item, cpc, outcome, graceful, closed, early, sd>>
      BY <1>2 DEF ProcessorStep, Clock, TimerFires, Shard, ShardReceive, ProcessSend, ProcessEnd,
                  ShardTimeout, TimeoutEnd, ShardShutdown, DrainEnd, SendReturns,
                  exporterVars, consumeVars
    <2> QED BY <2>1, FateStays DEF isOpen
  <1>3. ASSUME NEW k \in Keys, ExporterStep(k)
        PROVE  DeliveryStep
    <2>1. UNCHANGED <<consumeVars, closed, early, graceful, sd>>
      BY <1>3 DEF ExporterStep
    <2>2. CASE CallEnds(k)
      BY <2>1, <2>2, SettleFate
    <2>3. CASE E!SendBegin(k) \/ E!PushFails(k) \/ E!Retry(k)
      <3>1. UNCHANGED outcome
        BY <2>3 DEF E!SendBegin, E!PushFails, E!Retry, E!history
      <3> QED BY <2>1, <3>1, FateStays DEF consumeVars, isOpen
    <2> QED BY <1>3, <2>2, <2>3 DEF ExporterStep, E!Call, CallEnds
  <1>4. CASE ReceiverShutdown \/ ProcessorShutdown \/ ExporterShutdown
    BY <1>4, CloseFate, DownFate
  <1>5. CASE Down \/ UNCHANGED vars
    <2>1. UNCHANGED <<item, cpc, outcome, graceful, closed, early, sd>>
      BY <1>5 DEF Down, vars, processorVars, exporterVars, consumeVars
    <2> QED BY <2>1, FateStays DEF isOpen
  <1> QED BY <1>1, <1>2, <1>3, <1>4, <1>5 DEF Next

\* The invariant of the spans' places holds in every behaviour.
THEOREM PipelineSpansInPlace == Spec => []DInv
  BY InitDInv, NextDInv, PTL DEF Spec

\* The pipeline implements Delivery: every span accepted before the
\* processor's Shutdown is settled at most once and never changes its fate,
\* and ShutdownAll comes to the exporter only when all of them are settled.
THEOREM PipelineImplementsDelivery == Spec => DeliverySpec
  <1>1. PipelineInit => D!Init
    BY InitFate
  <1>2. DInv /\ [Next]_vars => [D!Next]_<<fates, isOpen>>
    BY NextFate DEF DeliveryStep
  <1> QED BY <1>1, <1>2, PipelineSpansInPlace, PTL DEF Spec, DeliverySpec, D!Spec, fates, isOpen

-----------------------------------------------------------------------------
(* The instruments of the exporter, and what it sends again *)

\* Types, beyond the ones above.
ETypes ==
  /\ \A c \in Callers : cpc[c] = "idle" => item[c] = None
  /\ mbSize \in Nat
  /\ \A k \in Keys : Len(chan[k]) <= ChanCap
  /\ sent \in [Keys -> BOOLEAN]
  /\ timer \in [Keys -> {"none", "armed", "fired", "taken"}]
  /\ stopCh \in BOOLEAN
  /\ sd \in {"running", "receiver", "processor", "down"}

\* A push is made only while MaxElapsedTime leaves room for one.
Tries ==
  /\ bounded \in BOOLEAN /\ tries \in [Keys -> 0..MaxTries]
  /\ \A k \in Keys : epc[k] = "push" => tries[k] < MaxTries

InFlight == {k \in Keys : epc[k] # "idle"}
With(r) == {s \in Spans : outcome[s] = r}

\* The instruments are the sizes of sets that stay finite.
Counted ==
  /\ IsFiniteSet(InFlight) /\ inFlight = Cardinality(InFlight)
  /\ IsFiniteSet(With("ok")) /\ itemsSent = Cardinality(With("ok"))
  /\ IsFiniteSet(With("err")) /\ itemsFailed = Cardinality(With("err"))

\* What is still to be delivered is part of the call, and the destination has
\* nothing of it unless a push that delivered it was reported as failed.
Arrived ==
  /\ req \in [Keys -> SUBSET Spans] /\ received \subseteq Spans
  /\ \A k \in Keys : req[k] \subseteq IF epc[k] = "idle" THEN {} ELSE Elems(call[k])
  /\ \A s \in received : \E k \in Keys : epc[k] # "idle" /\ s \in Elems(call[k])
  /\ unsure \subseteq received
  /\ \A k \in Keys : received \cap req[k] \subseteq unsure
  /\ resent = {}

EInv == ETypes /\ Tries /\ Counted /\ Arrived

\* A sequence has finitely many elements.
LEMMA ElemsFinite ==
  ASSUME NEW S, NEW s \in Seq(S)
  PROVE  IsFiniteSet(Elems(s))
  <1>1. s \in Surjection(1..Len(s), Elems(s))
    BY DEF Surjection, Elems
  <1>2. IsFiniteSet(1..Len(s))
    BY FS_Interval
  <1> QED BY <1>1, <1>2, FS_Surjection

\* The calls of two shards carry different spans.
LEMMA CallSpans ==
  ASSUME DInv, NEW k \in Keys
  PROVE  /\ Elems(call[k]) \subseteq Spans /\ IsFiniteSet(Elems(call[k]))
         /\ E!SpansIn(call[k]) = Elems(call[k])
         /\ \A q \in Keys \ {k} : Elems(call[q]) \cap Elems(call[k]) = {}
  <1>1. call[k] \in Seq(AnySpan)
    BY DEF DInv, DTypes
  <1>2. ASSUME NEW s \in Elems(call[k])
        PROVE  s \in Spans
    <2>1. s[1] \in Callers /\ s \in Own(s[1]) /\ cpc[s[1]] = "accepted"
      BY DEF DInv, Places, Home
    <2>2. item[s[1]] \in Items[s[1]]
      BY <2>1 DEF DInv, DTypes
    <2> QED BY <2>1, <2>2, OwnSpans
  <1>3. IsFiniteSet(Elems(call[k])) /\ E!SpansIn(call[k]) = Elems(call[k])
    BY <1>1, ElemsFinite, CallElems
  <1>4. ASSUME NEW q \in Keys \ {k}, NEW s \in Elems(call[q]), s \in Elems(call[k])
        PROVE  FALSE
    BY <1>4 DEF DInv, Places, Home
  <1> QED BY <1>2, <1>3, <1>4

\* Before the first request nothing is counted.
LEMMA InitEInv == PipelineInit => EInv
  <1> SUFFICES ASSUME PipelineInit PROVE EInv
    OBVIOUS
  <1> USE DEF PipelineInit, Init, E!Init
  <1>1. ETypes
    <2>1. /\ mbSize \in Nat /\ \A k \in Keys : Len(chan[k]) <= ChanCap
      BY ProcessorAssumption
    <2>2. sent \in [Keys -> BOOLEAN] /\ stopCh \in BOOLEAN
      OBVIOUS
    <2>3. timer \in [Keys -> {"none", "armed", "fired", "taken"}]
      OBVIOUS
    <2> QED BY <2>1, <2>2, <2>3 DEF ETypes
  <1>2. Tries
    BY TriesAssumption DEF Tries, TriesAssumption
  <1>3. InFlight = {} /\ With("ok") = {} /\ With("err") = {}
    BY DEF InFlight, With
  <1>4. Counted
    BY <1>3, FS_EmptySet DEF Counted
  <1>5. Arrived
    BY DEF Arrived
  <1> QED BY <1>1, <1>2, <1>4, <1>5 DEF EInv

\* Steps of callers, shards and ShutdownAll, which leave running calls alone.
LEMMA QuietEInv ==
  ASSUME DInv, EInv, ETypes',
         UNCHANGED <<bounded, epc, req, tries, inFlight, itemsSent, itemsFailed, outcome,
                     received, unsure, resent>>,
         \A k \in Keys : epc[k] # "idle" => call'[k] = call[k]
  PROVE  EInv'
  <1>1. InFlight' = InFlight /\ With("ok")' = With("ok") /\ With("err")' = With("err")
    BY DEF InFlight, With
  <1>2. Counted'
    BY <1>1 DEF EInv, Counted
  <1>3. Tries'
    BY DEF EInv, Tries
  <1>4. Arrived'
    BY DEF EInv, Arrived
  <1> QED BY <1>2, <1>3, <1>4 DEF EInv

\* Steps of callers.
LEMMA CallerEInv ==
  ASSUME DInv, EInv, NEW c \in Callers, Request(c) \/ Handler(c)
  PROVE  EInv'
  <1>1. /\ UNCHANGED <<exporterVars, callVars, sent, sd>>
        /\ cpc' = [cpc EXCEPT ![c] = cpc'[c]] /\ cpc'[c] # "idle"
        /\ \A d \in Callers : d # c => item'[d] = item[d]
    BY DEF Request, ConsumeBegin, Handler, Consume, ConsumeLoad, ConsumeRefused, ConsumeCreate,
           ConsumeSend, shardVars, DInv, IInv, TInv
  <1>2. mbSize' \in Nat
    BY DEF Request, ConsumeBegin, Handler, Consume, ConsumeLoad, ConsumeRefused, ConsumeCreate,
           ConsumeSend, EInv, ETypes
  <1>3. timer' \in [Keys -> {"none", "armed", "fired", "taken"}]
    BY DEF Request, ConsumeBegin, Handler, Consume, ConsumeLoad, ConsumeRefused, ConsumeCreate,
           ConsumeSend, shardVars, EInv, ETypes
  <1>4. ASSUME NEW k \in Keys
        PROVE  Len(chan'[k]) <= ChanCap
    <2>1. CASE UNCHANGED chan
      BY <2>1 DEF EInv, ETypes
    <2>2. CASE ConsumeSend(c)
      <3>1. chan \in [Keys -> Seq(Callers)] /\ chan[k] \in Seq(Callers) /\ ChanCap \in Nat
        BY ProcessorAssumption DEF DInv, IInv, TInv
      <3>2. CASE k = ShardOf(c)
        BY <2>2, <3>1, <3>2 DEF ConsumeSend
      <3>3. CASE k # ShardOf(c)
        BY <2>2, <3>1, <3>3 DEF ConsumeSend, EInv, ETypes
      <3> QED BY <3>2, <3>3
    <2> QED BY <2>1, <2>2 DEF Request, ConsumeBegin, Handler, Consume, ConsumeLoad, ConsumeRefused,
                              ConsumeCreate
  <1>5. \A d \in Callers : cpc'[d] = "idle" => item'[d] = None
    BY <1>1 DEF EInv, ETypes, DInv, IInv, TInv
  <1>6. ETypes'
    BY <1>1, <1>2, <1>3, <1>4, <1>5 DEF EInv, ETypes, exporterVars
  <1> QED BY <1>1, <1>6, QuietEInv DEF exporterVars, callVars

\* Steps of shards and their timers: a call is passed on when there is none and
\* taken back when it is answered.
LEMMA ShardEInv ==
  ASSUME DInv, EInv, NEW k \in Keys, ProcessorStep(k) \/ Clock(k)
  PROVE  EInv'
  <1>1. UNCHANGED <<exporterVars, consumeVars, sd>>
    BY DEF ProcessorStep, Clock, TimerFires, Shard, ShardReceive, ProcessSend, ProcessEnd,
           ShardTimeout, TimeoutEnd, ShardShutdown, DrainEnd, SendReturns
  <1>2. sent' \in [Keys -> BOOLEAN]
    BY DEF ProcessorStep, Clock, TimerFires, Shard, ShardReceive, ProcessSend, ProcessEnd,
           ShardTimeout, TimeoutEnd, ShardShutdown, DrainEnd, SendReturns, EInv, ETypes
  <1>3. timer' \in [Keys -> {"none", "armed", "fired", "taken"}]
    BY DEF ProcessorStep, Clock, TimerFires, Shard, ShardReceive, ProcessSend, ProcessEnd,
           ShardTimeout, TimeoutEnd, ShardShutdown, DrainEnd, SendReturns, EInv, ETypes
  <1>4. ASSUME NEW q \in Keys
        PROVE  Len(chan'[q]) <= ChanCap
    <2>1. CASE UNCHANGED chan
      BY <2>1 DEF EInv, ETypes
    <2>2. CASE ShardReceive(k)
      <3>1. chan \in [Keys -> Seq(Callers)] /\ chan[q] \in Seq(Callers) /\ ChanCap \in Nat
        BY ProcessorAssumption DEF DInv, IInv, TInv
      <3>2. chan'[q] = chan[q] \/ (chan[q] # <<>> /\ chan'[q] = Tail(chan[q]))
        BY <2>2, <3>1 DEF ShardReceive
      <3>3. Len(chan[q]) <= ChanCap
        BY DEF EInv, ETypes
      <3> QED BY <3>1, <3>2, <3>3
    <2> QED BY <2>1, <2>2 DEF ProcessorStep, Clock, TimerFires, Shard, ProcessSend, ProcessEnd,
                              ShardTimeout, TimeoutEnd, ShardShutdown, DrainEnd, SendReturns
  <1>5. ETypes'
    BY <1>1, <1>2, <1>3, <1>4 DEF EInv, ETypes, exporterVars, consumeVars
  <1>6. ASSUME NEW q \in Keys, epc[q] # "idle"
        PROVE  call'[q] = call[q]
    <2>1. call \in [Keys -> Seq(AnySpan)] /\ call[q] # <<>> /\ ans[q] = None
      BY <1>6 DEF DInv, DTypes, Calls
    <2>2. \/ UNCHANGED call
          \/ ProcessSend(k) \/ ShardTimeout(k) \/ DrainEnd(k) \/ SendReturns(k)
      BY DEF ProcessorStep, Clock, TimerFires, Shard, ShardReceive, ProcessEnd, TimeoutEnd,
             ShardShutdown, callVars
    <2>3. CASE q = k
      <3>1. spc[k] \notin {"select", "drain"}
        BY <2>1, <2>3 DEF DInv, Calls
      <3> QED BY <2>1, <2>2, <2>3, <3>1 DEF ProcessSend, ShardTimeout, DrainEnd, SendReturns
    <2>4. CASE q # k
      BY <2>1, <2>2, <2>4 DEF ProcessSend, ShardTimeout, DrainEnd, SendReturns, sendItems
    <2> QED BY <2>3, <2>4
  <1> QED BY <1>1, <1>5, <1>6, QuietEInv DEF exporterVars

\* Steps of ShutdownAll.
LEMMA DownEInv ==
  ASSUME DInv, EInv,
         ReceiverShutdown \/ ProcessorShutdown \/ ExporterShutdown \/ UNCHANGED vars
  PROVE  EInv'
  <1>1. /\ UNCHANGED <<bounded, epc, req, tries, inFlight, itemsSent, itemsFailed, outcome,
                       received, unsure, resent, call, cpc, item, mbSize, chan, sent, timer>>
        /\ stopCh' \in BOOLEAN /\ sd' \in {"running", "receiver", "processor", "down"}
    BY DEF ReceiverShutdown, ProcessorShutdown, ExporterShutdown, ShutdownClose, vars,
           processorVars, exporterVars, consumeVars, shardVars, callVars, E!Shutdown, E!history,
           E!metrics, EInv, ETypes
  <1>2. ETypes'
    BY <1>1 DEF EInv, ETypes
  <1> QED BY <1>1, <1>2, QuietEInv

-----------------------------------------------------------------------------
(* Steps of the exporter *)

\* The exporter changes nothing of the types above.
LEMMA ExporterTypes ==
  ASSUME EInv, NEW k \in Keys, ExporterStep(k)
  PROVE  ETypes'
  <1>1. UNCHANGED <<consumeVars, chan, shardVars, sd, stopCh>>
    BY DEF ExporterStep, E!Call, E!SendBegin, E!PushOk, E!PushPermanent, E!PushFails, E!GiveUp,
           E!Retry, E!CutShort
  <1> QED BY <1>1 DEF EInv, ETypes, consumeVars, shardVars

\* startOp: one more call is in flight, of which nothing has arrived.
LEMMA SendBeginEInv ==
  ASSUME DInv, EInv, ETypes', NEW k \in Keys, E!SendBegin(k)
  PROVE  EInv'
  <1>1. /\ epc[k] = "idle" /\ epc' = [epc EXCEPT ![k] = "push"]
        /\ inFlight' = inFlight + 1 /\ req' = [req EXCEPT ![k] = Elems(call[k])]
        /\ tries' = [tries EXCEPT ![k] = 0]
        /\ UNCHANGED <<call, bounded, itemsSent, itemsFailed, outcome, received, unsure, resent>>
    BY CallSpans DEF E!SendBegin, E!history
  <1>2. epc \in [Keys -> {"idle", "push", "failed"}]
    BY DEF DInv, DTypes
  <1>3. Tries'
    BY <1>1, <1>2, TriesAssumption DEF EInv, Tries, TriesAssumption
  <1>4. Counted'
    <2>1. InFlight' = InFlight \cup {k} /\ k \notin InFlight
      BY <1>1, <1>2 DEF InFlight
    <2>2. With("ok")' = With("ok") /\ With("err")' = With("err")
      BY <1>1 DEF With
    <2>3. /\ IsFiniteSet(InFlight \cup {k})
          /\ Cardinality(InFlight \cup {k}) = Cardinality(InFlight) + 1
      BY <2>1, FS_AddElement DEF EInv, Counted
    <2> QED BY <1>1, <2>1, <2>2, <2>3 DEF EInv, Counted
  <1>5. received \cap Elems(call[k]) = {}
    BY <1>1, CallSpans DEF EInv, Arrived
  <1>6. Arrived'
    <2>1. req' \in [Keys -> SUBSET Spans] /\ received' \subseteq Spans
      BY <1>1, CallSpans DEF EInv, Arrived
    <2>2. \A q \in Keys : /\ epc'[q] = IF q = k THEN "push" ELSE epc[q]
                          /\ req'[q] = IF q = k THEN Elems(call[k]) ELSE req[q]
      BY <1>1, <1>2 DEF EInv, Arrived
    <2>3. \A q \in Keys : req'[q] \subseteq IF epc'[q] = "idle" THEN {} ELSE Elems(call'[q])
      BY <1>1, <2>2 DEF EInv, Arrived
    <2>4. \A q \in Keys : received' \cap req'[q] \subseteq unsure'
      BY <1>1, <1>5, <2>2 DEF EInv, Arrived
    <2>5. \A s \in received' : \E q \in Keys : epc'[q] # "idle" /\ s \in Elems(call'[q])
      BY <1>1, <2>2 DEF EInv, Arrived
    <2> QED BY <1>1, <2>1, <2>3, <2>4, <2>5 DEF EInv, Arrived
  <1> QED BY <1>3, <1>4, <1>6 DEF EInv

\* The back-off ends and the request is pushed again.
LEMMA RetryEInv ==
  ASSUME DInv, EInv, ETypes', NEW k \in Keys, E!Retry(k)
  PROVE  EInv'
  <1>1. /\ epc[k] = "failed" /\ tries[k] < MaxTries /\ epc' = [epc EXCEPT ![k] = "push"]
        /\ UNCHANGED <<call, bounded, req, tries, inFlight, itemsSent, itemsFailed, outcome,
                       received, unsure, resent>>
    BY DEF E!Retry, E!metrics, E!history
  <1>2. \A q \in Keys : epc'[q] = IF q = k THEN "push" ELSE epc[q]
    BY <1>1 DEF DInv, DTypes
  <1>3. InFlight' = InFlight /\ With("ok")' = With("ok") /\ With("err")' = With("err")
    BY <1>1, <1>2 DEF InFlight, With
  <1>4. Counted' /\ Tries'
    BY <1>1, <1>2, <1>3 DEF EInv, Counted, Tries
  <1>5. Arrived'
    BY <1>1, <1>2 DEF EInv, Arrived
  <1> QED BY <1>4, <1>5 DEF EInv

\* A retryable error: what the destination has and is still sent again is unsure.
LEMMA PushFailsEInv ==
  ASSUME DInv, EInv, ETypes', NEW k \in Keys, E!PushFails(k)
  PROVE  EInv'
  <1>1. /\ epc[k] = "push" /\ epc' = [epc EXCEPT ![k] = "failed"]
        /\ tries' = [tries EXCEPT ![k] = IF bounded THEN @ + 1 ELSE @]
        /\ UNCHANGED <<call, bounded, inFlight, itemsSent, itemsFailed, outcome>>
    BY DEF E!PushFails, E!metrics
  <1>2. PICK got \in SUBSET req[k], named \in BOOLEAN :
           /\ resent' = resent \cup ((received \cap got) \ unsure)
           /\ received' = received \cup got
           /\ unsure' = unsure \cup IF named THEN {} ELSE got
           /\ req' = [req EXCEPT ![k] = req[k] \ IF named THEN got ELSE {}]
    BY DEF E!PushFails, E!Arrive, E!OnError
  <1>3. \A q \in Keys : epc'[q] = IF q = k THEN "failed" ELSE epc[q]
    BY <1>1 DEF DInv, DTypes
  <1>4. InFlight' = InFlight /\ With("ok")' = With("ok") /\ With("err")' = With("err")
    BY <1>1, <1>3 DEF InFlight, With
  <1>5. Counted'
    BY <1>1, <1>4 DEF EInv, Counted
  <1>6. Tries'
    BY <1>1, <1>3, TriesAssumption DEF EInv, Tries, TriesAssumption
  <1>7. /\ req \in [Keys -> SUBSET Spans] /\ req[k] \subseteq Elems(call[k])
        /\ received \cap req[k] \subseteq unsure /\ unsure \subseteq received /\ resent = {}
    BY <1>1 DEF EInv, Arrived
  <1>8. Arrived'
    <2>1. \A q \in Keys : req'[q] = IF q = k THEN req[k] \ (IF named THEN got ELSE {}) ELSE req[q]
      BY <1>2, <1>7
    <2>2. req' \in [Keys -> SUBSET Spans] /\ received' \subseteq Spans
      BY <1>2, <1>7 DEF EInv, Arrived
    <2>3. \A q \in Keys : req'[q] \subseteq IF epc'[q] = "idle" THEN {} ELSE Elems(call'[q])
      BY <1>1, <1>3, <1>7, <2>1 DEF EInv, Arrived
    <2>4. \A s \in received' : \E q \in Keys : epc'[q] # "idle" /\ s \in Elems(call'[q])
      <3> TAKE s \in received'
      <3>1. CASE s \in received
        BY <1>1, <1>3, <3>1 DEF EInv, Arrived
      <3>2. CASE s \in got
        BY <1>1, <1>3, <1>7, <3>2
      <3> QED BY <1>2, <3>1, <3>2
    <2>5. ASSUME NEW q \in Keys, NEW s \in received', s \in req'[q]
          PROVE  s \in unsure'
      <3>1. CASE s \in received
        BY <1>2, <2>1, <2>5, <3>1 DEF EInv, Arrived
      <3>2. CASE s \notin received /\ q = k
        BY <1>2, <2>1, <2>5, <3>2
      <3>3. CASE s \notin received /\ q # k
        <4>1. s \in Elems(call[k]) /\ s \in req[q]
          BY <1>2, <1>7, <2>1, <2>5, <3>3
        <4>2. s \in Elems(call[q])
          BY <4>1 DEF EInv, Arrived
        <4> QED BY <3>3, <4>1, <4>2, CallSpans
      <3> QED BY <3>1, <3>2, <3>3
    <2>6. unsure' \subseteq received' /\ resent' = {}
      BY <1>2, <1>7
    <2> QED BY <2>2, <2>3, <2>4, <2>5, <2>6 DEF Arrived
  <1> QED BY <1>5, <1>6, <1>8 DEF EInv

\* endOp adds all spans of the call to the ones with its result.
LEMMA Settles ==
  ASSUME DInv, EInv, NEW k \in Keys, epc[k] # "idle", NEW r \in {"ok", "err"},
         outcome' = [s \in Spans |-> IF s \in Elems(call[k]) THEN r ELSE outcome[s]]
  PROVE  /\ IsFiniteSet(With(r)')
         /\ Cardinality(With(r)') = Cardinality(With(r)) + Cardinality(Elems(call[k]))
         /\ Cardinality(With(r)) \in Nat /\ Cardinality(Elems(call[k])) \in Nat
         /\ \A o \in {"ok", "err"} \ {r} : With(o)' = With(o)
  <1> DEFINE S == Elems(call[k])
  <1>1. S \subseteq Spans /\ IsFiniteSet(S)
    BY CallSpans
  <1>2. \A s \in S : outcome[s] = "none"
    <2>1. ans[k] = None
      BY DEF DInv, Calls
    <2> QED BY <2>1 DEF DInv, Places, Fresh
  <1>3. IsFiniteSet(With(r))
    BY DEF EInv, Counted
  <1>4. With(r)' = With(r) \cup S /\ With(r) \cap S = {}
    BY <1>1, <1>2 DEF With
  <1>5. \A o \in {"ok", "err"} \ {r} : With(o)' = With(o)
    BY <1>1, <1>2 DEF With
  <1> HIDE DEF S
  <1>6. Cardinality({}) = 0
    BY FS_EmptySet
  <1>7. /\ IsFiniteSet(With(r) \cup S)
        /\ Cardinality(With(r) \cup S) = Cardinality(With(r)) + Cardinality(S) - Cardinality(With(r) \cap S)
        /\ Cardinality(With(r)) \in Nat /\ Cardinality(S) \in Nat
    BY <1>1, <1>3, FS_Union, FS_CardinalityType
  <1> QED BY <1>4, <1>5, <1>6, <1>7 DEF S

\* A call ends: it is no longer in flight and its spans are counted once.
LEMMA CallEndsEInv ==
  ASSUME DInv, EInv, ETypes', NEW k \in Keys, CallEnds(k)
  PROVE  EInv'
  <1> DEFINE S == Elems(call[k])
  <1>0. E!SpansIn(call[k]) = S
    BY CallSpans
  <1>1. PICK r \in {"ok", "err"} : E!Return(k, r) /\ (r = "ok" => epc[k] = "push")
    BY DEF CallEnds, E!PushOk, E!PushPermanent, E!GiveUp, E!CutShort
  <1>2. /\ epc[k] # "idle" /\ UNCHANGED <<call, bounded>>
        /\ \/ UNCHANGED resent
           \/ resent' = resent \cup ((received \cap req[k]) \ unsure)
    BY DEF CallEnds, E!PushOk, E!PushPermanent, E!GiveUp, E!CutShort, E!Arrive
  <1>3. /\ outcome' = [s \in Spans |-> IF s \in S THEN r ELSE outcome[s]]
        /\ epc' = [epc EXCEPT ![k] = "idle"] /\ req' = [req EXCEPT ![k] = {}]
        /\ tries' = [tries EXCEPT ![k] = 0]
        /\ received' = received \ S /\ unsure' = unsure \ S
        /\ inFlight' = inFlight - 1
        /\ itemsSent' = itemsSent + IF r = "ok" THEN Cardinality(S) ELSE 0
        /\ itemsFailed' = itemsFailed + IF r = "ok" THEN 0 ELSE Cardinality(S)
    <2> HIDE DEF S
    <2>1. E!endOp(k, r)
      BY <1>1 DEF E!Return
    <2>2. /\ inFlight' = inFlight - 1
          /\ itemsSent' = itemsSent + IF r = "ok" THEN Cardinality(S) ELSE 0
          /\ itemsFailed' = itemsFailed + IF r = "ok" THEN 0 ELSE Cardinality(S)
      <3>1. E!Cardinality(S) = Cardinality(S)
        BY DEF E!Cardinality, Cardinality
      <3> QED BY <1>0, <2>1, <3>1, Zenon DEF E!endOp
    <2> QED BY <1>0, <1>1, <2>2, Zenon DEF E!Return
  <1>4. \A q \in Keys : epc'[q] = IF q = k THEN "idle" ELSE epc[q]
    BY <1>3 DEF DInv, DTypes
  <1>5. Counted'
    <2>1. InFlight' = InFlight \ {k} /\ k \in InFlight
      BY <1>2, <1>4 DEF InFlight
    <2>2. /\ IsFiniteSet(InFlight \ {k})
          /\ Cardinality(InFlight \ {k}) = Cardinality(InFlight) - 1
      BY <2>1, FS_RemoveElement DEF EInv, Counted
    <2>3. /\ IsFiniteSet(With(r)')
          /\ Cardinality(With(r)') = Cardinality(With(r)) + Cardinality(S)
          /\ \A o \in {"ok", "err"} \ {r} : With(o)' = With(o)
      BY <1>2, <1>3, Settles
    <2>4. IsFiniteSet(With("ok")) /\ IsFiniteSet(With("err"))
      BY DEF EInv, Counted
    <2>5. /\ Cardinality(With("ok")) \in Nat /\ Cardinality(With("err")) \in Nat
          /\ itemsSent = Cardinality(With("ok")) /\ itemsFailed = Cardinality(With("err"))
      BY <2>4, FS_CardinalityType DEF EInv, Counted
    <2> HIDE DEF S
    <2>6. CASE r = "ok"
      <3>1. With("err")' = With("err")
        BY <2>3, <2>6
      <3> QED BY <1>3, <2>1, <2>2, <2>3, <2>4, <2>5, <2>6, <3>1 DEF EInv, Counted
    <2>7. CASE r = "err"
      <3>1. With("ok")' = With("ok")
        BY <2>3, <2>7
      <3> QED BY <1>3, <2>1, <2>2, <2>3, <2>4, <2>5, <2>7, <3>1 DEF EInv, Counted
    <2> QED BY <2>6, <2>7
  <1>6. Tries'
    BY <1>2, <1>3, <1>4, TriesAssumption DEF EInv, Tries, TriesAssumption
  <1>7. Arrived'
    <2>1. \A q \in Keys : req'[q] = IF q = k THEN {} ELSE req[q]
      BY <1>3 DEF EInv, Arrived
    <2>2. req' \in [Keys -> SUBSET Spans] /\ received' \subseteq Spans
      BY <1>3 DEF EInv, Arrived
    <2>3. \A q \in Keys : req'[q] \subseteq IF epc'[q] = "idle" THEN {} ELSE Elems(call'[q])
      BY <1>2, <1>4, <2>1 DEF EInv, Arrived
    <2>4. \A s \in received' : \E q \in Keys : epc'[q] # "idle" /\ s \in Elems(call'[q])
      BY <1>2, <1>3, <1>4 DEF EInv, Arrived
    <2>5. \A q \in Keys : received' \cap req'[q] \subseteq unsure'
      <3> SUFFICES ASSUME NEW q \in Keys, NEW s \in received', s \in req'[q]
                   PROVE  s \in unsure'
        OBVIOUS
      <3> QED BY <1>3, <2>1 DEF EInv, Arrived
    <2>6. unsure' \subseteq received' /\ resent' = {}
      BY <1>2, <1>3 DEF EInv, Arrived
    <2> QED BY <2>2, <2>3, <2>4, <2>5, <2>6 DEF Arrived
  <1> QED BY <1>5, <1>6, <1>7 DEF EInv

\* Every step of the pipeline preserves the accounts of the exporter.
LEMMA NextEInv == DInv /\ EInv /\ [Next]_vars => EInv'
  <1> SUFFICES ASSUME DInv, EInv, [Next]_vars PROVE EInv'
    OBVIOUS
  <1>1. ASSUME NEW k \in Keys, ExporterStep(k)
        PROVE  EInv'
    <2>1. ETypes'
      BY <1>1, ExporterTypes
    <2> QED BY <1>1, <2>1, SendBeginEInv, RetryEInv, PushFailsEInv, CallEndsEInv
            DEF ExporterStep, E!Call, CallEnds
  <1> QED BY <1>1, CallerEInv, ShardEInv, DownEInv DEF Next, Down

\* The accounts hold in every behaviour of a pipeline.
THEOREM PipelineAccounts == Spec => []EInv
  BY InitEInv, NextEInv, PipelineSpansInPlace, PTL DEF Spec

\* The instruments add up for any number of callers, shards, spans and retries:
\* a span is counted once, as the call that carried it ended, and the calls in
\* flight are those under way.  With the types of all three components.
THEOREM PipelineCountersAddUp == Spec => []CountersAddUp
  <1>1. DInv /\ EInv => CountersAddUp
    <2> SUFFICES ASSUME DInv, EInv PROVE CountersAddUp
      OBVIOUS
    <2>1. /\ itemsSent = Cardinality(With("ok")) /\ itemsSent \in Nat
          /\ itemsFailed = Cardinality(With("err")) /\ itemsFailed \in Nat
          /\ inFlight = Cardinality(InFlight) /\ inFlight \in Nat
      BY FS_CardinalityType DEF EInv, Counted
    <2>2. ASSUME NEW k \in Keys
          PROVE  /\ chan[k] \in Seq(Callers) /\ Len(chan[k]) <= ChanCap
                 /\ batch[k] \in Seq(Spans) /\ call[k] \in Seq(Spans)
      <3>1. /\ chan[k] \in Seq(Callers) /\ Len(chan[k]) <= ChanCap
            /\ batch[k] \in Seq(AnySpan) /\ call[k] \in Seq(AnySpan)
        BY DEF DInv, IInv, TInv, DTypes, EInv, ETypes
      <3>2. \A s \in Elems(batch[k]) \cup Elems(call[k]) : s \in Spans
        <4> TAKE s \in Elems(batch[k]) \cup Elems(call[k])
        <4>1. s[1] \in Callers /\ s \in Own(s[1]) /\ cpc[s[1]] = "accepted"
          BY DEF DInv, Places, Home
        <4>2. item[s[1]] \in Items[s[1]]
          BY <4>1 DEF DInv, DTypes
        <4> QED BY <4>1, <4>2, OwnSpans
      <3> QED BY <3>1, <3>2 DEF Elems
    <2>3. \A c \in Callers : item[c] \in {None} \cup Items[c]
      BY DEF DInv, DTypes, EInv, ETypes
    <2>4. TypeOK
      <3>1. /\ cfg \in Configs /\ Validate(cfg)
            /\ cpc \in [Callers -> {"idle", "load", "lock", "send", "accepted", "refused"}]
            /\ seen \in [Callers -> BOOLEAN] /\ created \subseteq Keys
            /\ spc \in [Keys -> {"none", "select", "process", "timeout", "drain",
                                 "drainProcess", "final", "exit"}]
        BY DEF DInv, IInv, TInv
      <3>2. /\ ans \in [Keys -> {None, "ok", "err"}] /\ epc \in [Keys -> {"idle", "push", "failed"}]
            /\ outcome \in [Spans -> {"none", "ok", "err"}]
            /\ early \subseteq Callers /\ closed \in BOOLEAN /\ graceful \in BOOLEAN
        BY DEF DInv, DTypes
      <3>3. /\ mbSize \in Nat /\ sent \in [Keys -> BOOLEAN]
            /\ timer \in [Keys -> {"none", "armed", "fired", "taken"}]
            /\ stopCh \in BOOLEAN /\ sd \in {"running", "receiver", "processor", "down"}
        BY DEF EInv, ETypes
      <3>4. /\ bounded \in BOOLEAN /\ tries \in [Keys -> 0..MaxTries]
            /\ req \in [Keys -> SUBSET Spans]
            /\ received \subseteq Spans /\ unsure \subseteq received /\ resent \subseteq Spans
        BY DEF EInv, Tries, Arrived
      <3> QED BY <2>1, <2>2, <2>3, <3>1, <3>2, <3>3, <3>4 DEF TypeOK
    <2> QED BY <2>1, <2>4 DEF CountersAddUp, With, InFlight
  <1> QED BY <1>1, PipelineSpansInPlace, PipelineAccounts, PTL

\* Retries leave out what an earlier push is known to have delivered, whatever
\* the destination takes of each push and however it reports it.
THEOREM PipelineResentOnlyUnsure == Spec => []ResentOnlyUnsure
  <1>1. EInv => ResentOnlyUnsure
    BY DEF EInv, Arrived, ResentOnlyUnsure
  <1> QED BY <1>1, PipelineAccounts, PTL
=============================================================================
