------------------------------- MODULE Exporter -------------------------------
(***************************************************************************)
(* The sender chain of an exporter without a sending queue                 *)
(* (exporterhelper/internal/base_exporter.go): obsReportSender, then       *)
(* retrySender, then timeoutSender around the exporter's own push.  It     *)
(* serves the calls of module BatchProcessor: call[k] is the request,      *)
(* ans[k] the result.  The shards call with a context that has no deadline *)
(* and is never cancelled, so those two ends of retrySender.Send do not    *)
(* occur.  The destination, and what the push reports of it, is external.  *)
(***************************************************************************)
EXTENDS Integers, FiniteSets

CONSTANTS Keys, Spans, None,
          MaxTries   \* bound: pushes MaxElapsedTime leaves room for

VARIABLES
  call, ans,    \* see BatchProcessor
  bounded,      \* MaxElapsedTime > 0
  epc,          \* calls: "idle", "push" or "failed" (and backing off)
  req,          \* the request Send still tries to deliver
  tries,        \* pushes made of it, counted when bounded
  stopCh,       \* closed by Shutdown
  inFlight, itemsSent, itemsFailed, \* the instruments of obsReportSender
  outcome,      \* history: how the call that carried a span ended
  received,     \* history: spans of running calls the destination has
  unsure,       \* history: the ones whose push was reported as failed
  resent        \* history: spans it got again though reported as delivered

metrics == <<inFlight, itemsSent, itemsFailed>>
history == <<outcome, received, unsure, resent>>

SpansIn(s) == {s[i] : i \in DOMAIN s}

Init ==
  /\ bounded \in BOOLEAN
  /\ epc = [k \in Keys |-> "idle"] /\ req = [k \in Keys |-> {}]
  /\ tries = [k \in Keys |-> 0]
  /\ stopCh = FALSE
  /\ inFlight = 0 /\ itemsSent = 0 /\ itemsFailed = 0
  /\ outcome = [s \in Spans |-> "none"]
  /\ received = {} /\ unsure = {} /\ resent = {}

\* obsReportSender.Send: startOp, and on to retrySender.Send.
SendBegin(k) ==
  /\ epc[k] = "idle" /\ call[k] # <<>> /\ ans[k] = None
  /\ inFlight' = inFlight + 1
  /\ req' = [req EXCEPT ![k] = SpansIn(call[k])]
  /\ tries' = [tries EXCEPT ![k] = 0]
  /\ epc' = [epc EXCEPT ![k] = "push"]
  /\ UNCHANGED <<call, ans, bounded, stopCh, itemsSent, itemsFailed, history>>

\* Mutant of endOp: the request is counted as it is after the retries.
endOpNarrowed(k, result) ==
  /\ inFlight' = inFlight - 1
  /\ itemsSent' = itemsSent + IF result = "ok" THEN Cardinality(req[k]) ELSE 0
  /\ itemsFailed' = itemsFailed + IF result = "ok" THEN 0 ELSE Cardinality(req[k])

\* endOp: all the items of the request are counted as sent, or as failed.
endOp(k, result) ==
  LET items == Cardinality(SpansIn(call[k])) IN
  /\ inFlight' = inFlight - 1
  /\ itemsSent' = itemsSent + IF result = "ok" THEN items ELSE 0
  /\ itemsFailed' = itemsFailed + IF result = "ok" THEN 0 ELSE items

\* Send returns through obsReportSender and BaseExporter.
Return(k, result) ==
  /\ endOp(k, result)
  /\ ans' = [ans EXCEPT ![k] = result]
  /\ outcome' = [s \in Spans |-> IF s \in SpansIn(call[k]) THEN result ELSE outcome[s]]
  /\ epc' = [epc EXCEPT ![k] = "idle"]
  /\ req' = [req EXCEPT ![k] = {}]
  /\ tries' = [tries EXCEPT ![k] = 0]
  /\ received' = received \ SpansIn(call[k])
  /\ unsure' = unsure \ SpansIn(call[k])

\* The spans got reach the destination in a push.
Arrive(got) == resent' = resent \cup ((received \cap got) \ unsure)

PushOk(k) ==
  /\ epc[k] = "push"
  /\ Arrive(req[k])
  /\ Return(k, "ok")
  /\ UNCHANGED <<call, bounded, stopCh>>

\* A permanent error ends the call.
PushPermanent(k) ==
  /\ epc[k] = "push"
  /\ Return(k, "err")
  /\ UNCHANGED <<call, bounded, stopCh, resent>>

\* Mutant of OnError: the whole request is sent again.
OnErrorWhole(k, failed) == req' = [req EXCEPT ![k] = req[k]]

\* request.OnError: what the error names as failed is what is sent again.
OnError(k, failed) == req' = [req EXCEPT ![k] = failed]

\* A retryable error.  It may be plain, whether or not the request arrived
\* (timeoutSender gave up, or the answer was lost), or name what failed.
PushFails(k) ==
  /\ epc[k] = "push"
  /\ \E got \in SUBSET req[k], named \in BOOLEAN :
       /\ named => got # {} /\ got # req[k]
       /\ ~named => got \in {{}, req[k]}
       /\ Arrive(got) /\ received' = received \cup got
       /\ unsure' = unsure \cup IF named THEN {} ELSE got
       /\ OnError(k, req[k] \ IF named THEN got ELSE {})
  /\ tries' = [tries EXCEPT ![k] = IF bounded THEN @ + 1 ELSE @]
  /\ epc' = [epc EXCEPT ![k] = "failed"]
  /\ UNCHANGED <<call, ans, bounded, stopCh, metrics, outcome>>

\* No more retries left: the next one would be past MaxElapsedTime.
GiveUp(k) ==
  /\ epc[k] = "failed" /\ bounded
  /\ Return(k, "err")
  /\ UNCHANGED <<call, bounded, stopCh, resent>>

\* The back-off ends with case <-time.After(backoffDelay).
Retry(k) ==
  /\ epc[k] = "failed" /\ tries[k] < MaxTries
  /\ epc' = [epc EXCEPT ![k] = "push"]
  /\ UNCHANGED <<call, ans, bounded, req, tries, stopCh, metrics, history>>

\* The back-off ends with case <-stopCh: a ShutdownErr.
CutShort(k) ==
  /\ epc[k] = "failed" /\ tries[k] < MaxTries /\ stopCh
  /\ Return(k, "err")
  /\ UNCHANGED <<call, bounded, stopCh, resent>>

\* BaseExporter.Shutdown, with no queue: the retry sender's stopCh is closed.
Shutdown ==
  /\ ~stopCh /\ stopCh' = TRUE
  /\ UNCHANGED <<call, ans, bounded, epc, req, tries, metrics, history>>

Call(k) ==
  \/ SendBegin(k) \/ PushOk(k) \/ PushPermanent(k) \/ PushFails(k)
  \/ GiveUp(k) \/ Retry(k) \/ CutShort(k)

=============================================================================
