------------------------------- MODULE Pipeline -------------------------------
(***************************************************************************)
(* A traces pipeline: the handlers of a receiver (the callers), the batch  *)
(* processor and an exporter without a queue, shut down in the order of    *)
(* Graph.ShutdownAll: receiver, processor, exporter, each when the one     *)
(* before it has returned.  A graceful receiver (otlpreceiver) returns     *)
(* from Shutdown when its handlers have; of any other receiver the code    *)
(* only asks that it takes no more data (component/component.go).          *)
(***************************************************************************)
EXTENDS BatchProcessor

CONSTANT MaxTries  \* see Exporter

ASSUME TriesAssumption == MaxTries \in Nat \ {0}

VARIABLES bounded, epc, req, tries, stopCh, inFlight, itemsSent, itemsFailed,
          outcome, received, unsure, resent, \* see Exporter
          graceful,  \* what kind of receiver it is
          sd         \* the component whose Shutdown ShutdownAll is in

E == INSTANCE Exporter

exporterVars == <<bounded, epc, req, tries, stopCh, inFlight, itemsSent, itemsFailed,
                  outcome, received, unsure, resent>>

vars == <<processorVars, exporterVars, graceful, sd>>

PipelineInit ==
  /\ Init /\ E!Init
  /\ graceful \in BOOLEAN /\ sd = "running"

-----------------------------------------------------------------------------
\* A handler takes a request while the receiver serves.
Request(c) ==
  /\ sd = "running"
  /\ ConsumeBegin(c)
  /\ UNCHANGED <<exporterVars, graceful, sd>>

Handler(c) ==
  /\ Consume(c)
  /\ UNCHANGED <<exporterVars, graceful, sd>>

ProcessorStep(k) ==
  /\ Shard(k)
  /\ UNCHANGED <<exporterVars, graceful, sd>>

Clock(k) ==
  /\ TimerFires(k)
  /\ UNCHANGED <<exporterVars, graceful, sd>>

ExporterStep(k) ==
  /\ E!Call(k)
  /\ UNCHANGED <<cfg, consumeVars, chan, shardVars, closed, early, graceful, sd>>

Busy(c) == cpc[c] \in {"load", "lock", "send"}

ReceiverShutdown ==
  /\ sd = "running" /\ sd' = "receiver"
  /\ UNCHANGED <<processorVars, exporterVars, graceful>>

ProcessorShutdown ==
  /\ sd = "receiver" /\ sd' = "processor"
  /\ graceful => \A c \in Callers : ~Busy(c)
  /\ ShutdownClose
  /\ UNCHANGED <<exporterVars, graceful>>

\* Mutant of ExporterShutdown: the processor's Shutdown is not waited for.
ExporterShutdownEarly ==
  /\ sd = "processor" /\ sd' = "down"
  /\ E!Shutdown
  /\ UNCHANGED <<cfg, consumeVars, chan, shardVars, closed, early, graceful>>

ExporterShutdown ==
  /\ sd = "processor" /\ sd' = "down"
  /\ ShutdownDone
  /\ E!Shutdown
  /\ UNCHANGED <<cfg, consumeVars, chan, shardVars, closed, early, graceful>>

\* The pipeline is down; only it may stop.
Down ==
  /\ sd = "down"
  /\ UNCHANGED vars

Next ==
  \/ \E c \in Callers : Request(c) \/ Handler(c)
  \/ \E k \in Keys : ProcessorStep(k) \/ Clock(k) \/ ExporterStep(k)
  \/ ReceiverShutdown \/ ProcessorShutdown \/ ExporterShutdown \/ Down

Spec == PipelineInit /\ [][Next]_vars

\* Go's select picks any ready case: the timer cannot win for ever.
SelectOther(k) ==
  /\ ShardReceive(k) \/ ShardShutdown(k)
  /\ UNCHANGED <<exporterVars, graceful, sd>>

\* Go schedules every goroutine, timers fire, a push ends with its timeout,
\* and ShutdownAll goes on.  No one need send a request or start a shutdown.
Fairness ==
  /\ \A c \in Callers : WF_vars(Handler(c))
  /\ \A k \in Keys : /\ WF_vars(ProcessorStep(k)) /\ SF_vars(SelectOther(k))
                     /\ WF_vars(Clock(k)) /\ WF_vars(ExporterStep(k))
  /\ WF_vars(ProcessorShutdown) /\ WF_vars(ExporterShutdown)

FairSpec == Spec /\ Fairness

-----------------------------------------------------------------------------
(* Properties *)

\* Accepted after the processor's Shutdown began, which a graceful receiver
\* must not allow.
Late(c) == ~graceful /\ cpc[c] = "accepted" /\ closed /\ c \notin early

Settled(c) ==
  cpc[c] = "accepted" /\ \A j \in 1..item[c].n : outcome[<<c, j>>] # "none"

\* Types of the variables of all three components.
TypeOK ==
  /\ cfg \in Configs /\ Validate(cfg)
  /\ \A c \in Callers : item[c] \in {None} \cup Items[c]
  /\ cpc \in [Callers -> {"idle", "load", "lock", "send", "accepted", "refused"}]
  /\ seen \in [Callers -> BOOLEAN] /\ created \subseteq Keys /\ mbSize \in Nat
  /\ \A k \in Keys :
       /\ chan[k] \in Seq(Callers) /\ Len(chan[k]) <= ChanCap
       /\ batch[k] \in Seq(Spans) /\ call[k] \in Seq(Spans)
  /\ spc \in [Keys -> {"none", "select", "process", "timeout", "drain",
                       "drainProcess", "final", "exit"}]
  /\ sent \in [Keys -> BOOLEAN]
  /\ timer \in [Keys -> {"none", "armed", "fired", "taken"}]
  /\ ans \in [Keys -> {None, "ok", "err"}]
  /\ closed \in BOOLEAN /\ early \subseteq Callers
  /\ epc \in [Keys -> {"idle", "push", "failed"}]
  /\ req \in [Keys -> SUBSET Spans] /\ tries \in [Keys -> 0..MaxTries]
  /\ stopCh \in BOOLEAN /\ bounded \in BOOLEAN /\ graceful \in BOOLEAN
  /\ inFlight \in Nat /\ itemsSent \in Nat /\ itemsFailed \in Nat
  /\ outcome \in [Spans -> {"none", "ok", "err"}]
  /\ received \subseteq Spans /\ unsure \subseteq received
  /\ resent \subseteq Spans
  /\ sd \in {"running", "receiver", "processor", "down"}

\* A multiShardBatcher has one shard per combination, counts them exactly
\* and never has more than the limit; who is refused met a full table and
\* brought a combination that had no shard when the call began.
LimitExact ==
  cfg.multi =>
    /\ mbSize = Cardinality(created)
    /\ cfg.limit # 0 => mbSize <= cfg.limit
    /\ \A c \in Callers : cpc[c] = "refused" =>
         mbSize = cfg.limit /\ ~seen[c]

\* The single piece a shard sends when it stops is all that is left: no
\* shard ends with spans in its batch, whatever the configured sizes.
FinalFlushComplete ==
  \A k \in Keys : spc[k] \in {"final", "exit"} => batch[k] = <<>>

\* The instruments add up: each span is counted once, as its call ended,
\* and calls in flight are neither leaked nor lost.  (With the types.)
CountersAddUp ==
  /\ TypeOK
  /\ itemsSent = Cardinality({s \in Spans : outcome[s] = "ok"})
  /\ itemsFailed = Cardinality({s \in Spans : outcome[s] = "err"})
  /\ inFlight = Cardinality({k \in Keys : epc[k] # "idle"})

\* A call delivers a span again only when a push delivered it and reported
\* a failure that did not say so: retries leave out what an earlier push is
\* known to have delivered.
ResentOnlyUnsure == resent = {}

\* The fate of a span accepted before the processor's Shutdown.
fateOf(s) ==
  IF cpc[s[1]] # "accepted" \/ Late(s[1]) \/ s[2] > item[s[1]].n THEN "absent"
  ELSE [none |-> "pending", ok |-> "exported", err |-> "dropped"][outcome[s]]

D == INSTANCE Delivery WITH fate <- [s \in Spans |-> fateOf(s)], open <- sd # "down"

\* The pipeline implements Delivery: a span is settled once, and the
\* processor's Shutdown returns only when none is pending.
DeliverySpec == D!Spec

\* With a maximum elapsed time every accepted span is settled, by the timer,
\* the batch size or the shutdown, unless it came too late, and a shutdown
\* comes to its end.  (Without one a shard can retry for ever, and only the
\* exporter's Shutdown, which comes after the processor's, would stop it.)
CallsEnd ==
  /\ \A c \in Callers : bounded /\ cpc[c] = "accepted" ~> Settled(c) \/ Late(c)
  /\ bounded /\ sd = "receiver" ~> sd = "down"
=============================================================================
