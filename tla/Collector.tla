------------------------------- MODULE Collector -------------------------------
(***************************************************************************)
(* The life of a collector: Collector.Run with its control loop, reloads   *)
(* and shutdown (otelcol/collector.go), Service.Start and Shutdown         *)
(* (service/service.go), the order in which the graph and the extensions   *)
(* start and stop components (graph.go, extensions.go), the status         *)
(* reporter (status.go, host.go) and receivers shared by the pipelines     *)
(* (internal/sharedcomponent).                                             *)
(*                                                                         *)
(* A node is a component instance in a pipeline, or an extension.  The     *)
(* nodes of one shared receiver have the same component.  What components  *)
(* do in Start and Shutdown, and what they report, is external: Start and  *)
(* Shutdown may fail, and a running component may report any status.       *)
(***************************************************************************)
EXTENDS Integers, Sequences, FiniteSets, SequencesExt

CONSTANTS Nodes, Extensions,
          Needs,       \* the nodes that start before a node and stop after it
          CompOf,      \* the component of a node
          Callers,     \* goroutines that call Collector.Shutdown
          FatalIn,     \* positions of Run at which a fatal error may happen
          Free, None,
          MaxReports, MaxReloads  \* bounds: reports of components, reloads

ASSUME CollectorAssumption ==
  /\ Extensions \subseteq Nodes /\ Needs \in [Nodes -> SUBSET Nodes]
  /\ \A n \in Nodes \ Extensions : Extensions \subseteq Needs[n]
  /\ IsFiniteSet(Nodes) /\ None \notin Nodes
  /\ MaxReports \in Nat /\ MaxReloads \in Nat

VARIABLES
  state,    \* col.state
  run,      \* Run: its position
  then,     \* Run: what follows the service's Shutdown: "exit", "reload", "fail"
  todo,     \* nodes StartAll or ShutdownAll has not come to
  cur,      \* the node it is at, or None
  errs,     \* the service's Shutdown has met an error
  comp,     \* components: "new", "up", "failed" (Start did), "down"
  downs,    \* history: calls of a component's Shutdown
  ready,    \* extensions were told the pipelines are ready
  status,   \* reporter: the current status of each node
  mu,       \* reporter.mu: Free or the component that holds it in a fatal report
  rep,      \* components: the event being reported and the nodes left to tell
  sources, events, \* hostWrapper of a shared component: nodes and past events
  troubled, \* history: nodes that got an error while Stopping
  fatal,    \* history: Run has received a fatal error
  shutdownChan, \* closed by Shutdown
  caller,   \* callers of Shutdown: position
  reports, reloads \* what the bounds count

serviceVars == <<todo, cur, errs, comp, downs, ready>>
statusVars == <<status, mu, rep, sources, events, troubled, fatal, reports>>
callerVars == <<shutdownChan, caller>>
vars == <<state, run, then, reloads, serviceVars, statusVars, callerVars>>

Components == {CompOf[n] : n \in Nodes}
NodesOf(c) == {n \in Nodes : CompOf[n] = c}
Shared(c) == Cardinality(NodesOf(c)) > 1

\* Only receivers are shared, which no node sends to.
ASSUME SharedAssumption == \A n \in Nodes : \A m \in Needs[n] : ~Shared(CompOf[m])

Reporters == Components \ {CompOf[n] : n \in Extensions}

Runtime == {"OK", "RecoverableError", "PermanentError", "FatalError"}
Statuses == Runtime \cup {"None", "Starting", "Stopping", "Stopped"}

Init ==
  /\ state = "Starting" /\ run = "new" /\ then = "exit"
  /\ todo = {} /\ cur = None /\ errs = FALSE
  /\ comp = [c \in Components |-> "new"] /\ downs = [c \in Components |-> 0]
  /\ ready = FALSE
  /\ status = [n \in Nodes |-> "None"] /\ mu = Free
  /\ rep = [c \in Components |-> None]
  /\ sources = [c \in Components |-> {}] /\ events = [c \in Components |-> <<>>]
  /\ troubled = {} /\ fatal = FALSE
  /\ shutdownChan = FALSE /\ caller = [s \in Callers |-> "idle"]
  /\ reports = 0 /\ reloads = 0

-----------------------------------------------------------------------------
(* status reporter *)

\* Mutant of transitions: a permanent error is final.
transitionsPermanentFinal ==
  [ None |-> {"Starting"},
    Starting |-> Runtime \cup {"Stopping"},
    OK |-> Runtime \cup {"Stopping"},
    RecoverableError |-> Runtime \cup {"Stopping"},
    PermanentError |-> {},
    FatalError |-> {},
    Stopping |-> (Runtime \ {"OK"}) \cup {"Stopped"},
    Stopped |-> {} ]

\* newFSM: the transitions from a status.
transitions ==
  [ None |-> {"Starting"},
    Starting |-> Runtime \cup {"Stopping"},
    OK |-> Runtime \cup {"Stopping"},
    RecoverableError |-> Runtime \cup {"Stopping"},
    PermanentError |-> {"Stopping"},
    FatalError |-> {},
    Stopping |-> (Runtime \ {"OK"}) \cup {"Stopped"},
    Stopped |-> {} ]

\* fsm.transition: an invalid one changes nothing.
transition(st, ev) == IF ev \in transitions[st] THEN ev ELSE st

\* What the nodes of N have when each has been told ev.
Told(st, N, ev) == [n \in Nodes |-> IF n \in N THEN transition(st[n], ev) ELSE st[n]]

\* A component's goroutine reports a change of its status, for a shared
\* component to all its sources (hostWrapper.Report).
Report(c) ==
  /\ c \in Reporters /\ comp[c] = "up" /\ rep[c] = None /\ reports < MaxReports
  /\ \E ev \in Runtime :
       /\ ev = "FatalError" => run \in FatalIn
       /\ rep' = [rep EXCEPT ![c] = [ev |-> ev, left |-> sources[c]]]
       /\ events' = [events EXCEPT ![c] = IF Shared(c) THEN Append(@, ev) ELSE @]
  /\ reports' = reports + 1
  /\ UNCHANGED <<state, run, then, reloads, serviceVars, status, mu, sources,
                 troubled, fatal, callerVars>>

\* reporter.ReportStatus for one node.  A fatal error that is a transition
\* is sent on the channel, which nobody may be reading, with mu held.
ReportNode(c) ==
  /\ rep[c] # None /\ mu = Free
  /\ \E n \in rep[c].left :
       LET ev == rep[c].ev IN
       /\ status' = Told(status, {n}, ev)
       /\ mu' = IF ev = "FatalError" /\ ev \in transitions[status[n]] THEN c ELSE Free
       /\ troubled' = troubled \cup IF status[n] = "Stopping" /\ ev # "OK" THEN {n} ELSE {}
       /\ rep' = [rep EXCEPT ![c].left = @ \ {n}]
  /\ UNCHANGED <<state, run, then, reloads, serviceVars, sources, events, fatal,
                 reports, callerVars>>

\* Mutant of ReportEnd: hostWrapper.lock stays locked after a report.
ReportEndLocked(c) ==
  /\ rep[c] # None /\ rep[c].left = {} /\ mu # c
  /\ rep' = [rep EXCEPT ![c] = IF Shared(c) THEN @ ELSE None]
  /\ UNCHANGED <<state, run, then, reloads, serviceVars, status, mu, sources,
                 events, troubled, fatal, reports, callerVars>>

ReportEnd(c) ==
  /\ rep[c] # None /\ rep[c].left = {} /\ mu # c
  /\ rep' = [rep EXCEPT ![c] = None]
  /\ UNCHANGED <<state, run, then, reloads, serviceVars, status, mu, sources,
                 events, troubled, fatal, reports, callerVars>>

\* Run can report for node n, and through its hostWrapper if it has one.
CanReport(n) == mu = Free /\ (Shared(CompOf[n]) => rep[CompOf[n]] = None)

-----------------------------------------------------------------------------
(* Service.Start *)

\* ReportStatus(Starting) and the call of Start.  The first node of a shared
\* component starts it; the others are told what it has reported so far.
StartBegin(n) ==
  LET c == CompOf[n] IN
  /\ run = "start" /\ cur = None /\ n \in todo
  /\ Needs[n] \cap todo = {} /\ CanReport(n)
  /\ cur' = n
  /\ comp' = [comp EXCEPT ![c] = "up"]
  /\ status' = [status EXCEPT ![n] =
                  FoldLeft(transition, transition(@, "Starting"), events[c])]
  /\ sources' = [sources EXCEPT ![c] = @ \cup {n}]
  /\ UNCHANGED <<state, run, then, reloads, todo, errs, downs, ready, mu, rep, events,
                 troubled, fatal, reports, callerVars>>

\* Start has returned without an error: ReportOKIfStarting.
StartOk(n) ==
  /\ run = "start" /\ cur = n /\ mu = Free
  /\ status' = [status EXCEPT ![n] = IF @ = "Starting" THEN "OK" ELSE @]
  /\ todo' = todo \ {n} /\ cur' = None
  /\ UNCHANGED <<state, run, then, reloads, errs, comp, downs, ready, mu, rep, sources,
                 events, troubled, fatal, reports, callerVars>>

\* Service.Shutdown begins: NotifyPipelineNotReady, then ShutdownAll.
BeginShutdown(next) ==
  /\ run' = "stop" /\ then' = next
  /\ todo' = Nodes /\ cur' = None /\ errs' = FALSE /\ ready' = FALSE

\* Mutant of StartFails: the components started so far are left alone.
StartFailsReturns(n) ==
  LET c == CompOf[n] IN
  /\ run = "start" /\ cur = n /\ CanReport(n) /\ Cardinality(sources[c]) = 1
  /\ status' = Told(status, {n}, "PermanentError")
  /\ comp' = [comp EXCEPT ![c] = "failed"]
  /\ run' = "done" /\ state' = "Closed"
  /\ UNCHANGED <<then, reloads, todo, cur, errs, ready, downs, mu, rep, sources, events,
                 troubled, fatal, reports, callerVars>>

\* Start has failed, which a shared component reports to all its sources,
\* and setupConfigurationComponents shuts the service down.
StartFails(n) ==
  LET c == CompOf[n] IN
  /\ run = "start" /\ cur = n /\ CanReport(n) /\ Cardinality(sources[c]) = 1
  /\ status' = Told(status, {n}, "PermanentError")
  /\ comp' = [comp EXCEPT ![c] = "failed"]
  /\ BeginShutdown("fail")
  /\ UNCHANGED <<state, reloads, downs, mu, rep, sources, events, troubled, fatal, reports, callerVars>>

\* An extension fails to take the config snapshot, or the news that the
\* pipelines are ready.
NotifyFails ==
  /\ run = "start" /\ cur = None /\ todo \in {Nodes \ Extensions, {}}
  /\ BeginShutdown("fail")
  /\ UNCHANGED <<state, reloads, comp, downs, statusVars, callerVars>>

Started ==
  /\ run = "start" /\ cur = None /\ todo = {}
  /\ ready' = TRUE /\ state' = "Running" /\ run' = "loop"
  /\ UNCHANGED <<then, reloads, todo, cur, errs, comp, downs, statusVars, callerVars>>

-----------------------------------------------------------------------------
(* Service.Shutdown *)

\* Mutant of MayStop: the nodes stop in the order they started.
MayStopAsStarted(n) == Needs[n] \cap todo = {}

\* Topological order: what feeds n has been stopped.
MayStop(n) == \A m \in todo : n \notin Needs[m]

\* Mutant of FirstStop: every node of a shared component stops it.
FirstStopEach(n) == TRUE

\* stopOnce of a shared component; others stop when they are told to.
FirstStop(n) == ~Shared(CompOf[n]) \/ comp[CompOf[n]] # "down"

\* ReportStatus(Stopping) and the call of Shutdown.
StopBegin(n) ==
  LET c == CompOf[n] IN
  /\ run = "stop" /\ cur = None /\ n \in todo /\ MayStop(n) /\ CanReport(n)
  /\ cur' = n
  /\ status' = Told(status, IF FirstStop(n) THEN {n} \cup sources[c] ELSE {n}, "Stopping")
  /\ downs' = [downs EXCEPT ![c] = IF FirstStop(n) THEN @ + 1 ELSE @]
  /\ UNCHANGED <<state, run, then, reloads, todo, errs, comp, ready, mu, rep, sources,
                 events, troubled, fatal, reports, callerVars>>

\* Shutdown has returned: the component's goroutines have ended, and Stopped
\* or the error is reported.
StopEnd(n) ==
  LET c == CompOf[n]
      told == IF FirstStop(n) THEN {n} \cup sources[c] ELSE {n} IN
  /\ run = "stop" /\ cur = n /\ mu = Free /\ rep[c] = None
  /\ \E failed \in (IF FirstStop(n) THEN BOOLEAN ELSE {FALSE}) :
       /\ status' = Told(status, told, IF failed THEN "PermanentError" ELSE "Stopped")
       /\ troubled' = troubled \cup IF failed THEN told ELSE {}
       /\ errs' = (errs \/ failed)
  /\ comp' = [comp EXCEPT ![c] = "down"]
  /\ todo' = todo \ {n} /\ cur' = None
  /\ UNCHANGED <<state, run, then, reloads, downs, ready, mu, rep, sources, events,
                 fatal, reports, callerVars>>

\* The service is down.  After a failed start Run returns, with the state
\* Closed if it was the first; after a retired configuration it sets up
\* the new one, unless there was an error.
Stopped ==
  /\ run = "stop" /\ cur = None /\ todo = {}
  /\ run' = IF then = "reload" /\ ~errs THEN "setup" ELSE "done"
  /\ state' = IF then = "exit" \/ (then = "fail" /\ reloads = 0) THEN "Closed"
              ELSE IF run' = "setup" THEN "Starting" ELSE state
  /\ UNCHANGED <<then, reloads, serviceVars, statusVars, callerVars>>

-----------------------------------------------------------------------------
(* Collector.Run *)

\* wg.Add(1)
RunBegin ==
  /\ run = "new" /\ run' = "enter"
  /\ UNCHANGED <<state, then, reloads, serviceVars, statusVars, callerVars>>

\* Mutant of RunCheck: shutdownChan is not looked at.
RunCheckNot ==
  /\ run = "enter" /\ run' = "setup" /\ state' = "Starting"
  /\ UNCHANGED <<then, reloads, serviceVars, statusVars, callerVars>>

RunCheck ==
  /\ run = "enter"
  /\ IF shutdownChan THEN run' = "done" /\ state' = "Closed"
                     ELSE run' = "setup" /\ state' = "Starting"
  /\ UNCHANGED <<then, reloads, serviceVars, statusVars, callerVars>>

\* The configuration is not valid or the service cannot be built.
SetupFails ==
  /\ run = "setup" /\ run' = "done"
  /\ state' = IF reloads = 0 THEN "Closed" ELSE state
  /\ UNCHANGED <<then, reloads, serviceVars, statusVars, callerVars>>

\* service.New: new components, reporter and graph; Service.Start begins.
SetupNew ==
  /\ run = "setup" /\ run' = "start"
  /\ todo' = Nodes /\ cur' = None /\ errs' = FALSE /\ ready' = FALSE
  /\ comp' = [c \in Components |-> "new"] /\ downs' = [c \in Components |-> 0]
  /\ status' = [n \in Nodes |-> "None"] /\ mu' = Free
  /\ rep' = [c \in Components |-> None]
  /\ sources' = [c \in Components |-> {}] /\ events' = [c \in Components |-> <<>>]
  /\ troubled' = {}
  /\ UNCHANGED <<state, then, reloads, fatal, reports, callerVars>>

\* The loop ends: a signal, a failed watch, a done ctx, or shutdownChan.
\* The config provider is shut down, then the service.
LoopBreak ==
  /\ run = "loop" /\ state' = "Closing"
  /\ BeginShutdown("exit")
  /\ UNCHANGED <<reloads, comp, downs, statusVars, callerVars>>

\* case err := <-asyncErrorChannel, which lets the reporter go on.
LoopAsyncError ==
  /\ run = "loop" /\ mu # Free /\ mu' = Free
  /\ state' = "Closing" /\ fatal' = TRUE
  /\ BeginShutdown("exit")
  /\ UNCHANGED <<reloads, comp, downs, status, rep, sources, events, troubled, reports,
                 callerVars>>

\* SIGHUP or a changed configuration: reloadConfiguration.
Reload ==
  /\ run = "loop" /\ reloads < MaxReloads
  /\ reloads' = reloads + 1 /\ state' = "Closing"
  /\ BeginShutdown("reload")
  /\ UNCHANGED <<comp, downs, statusVars, callerVars>>

-----------------------------------------------------------------------------
(* Collector.Shutdown *)

ShutdownCall(s) ==
  /\ caller[s] = "idle"
  /\ shutdownChan' = TRUE
  /\ caller' = [caller EXCEPT ![s] = "wait"]
  /\ UNCHANGED <<state, run, then, reloads, serviceVars, statusVars>>

\* wg.Wait() returns: Run has not been called yet, or has returned.
ShutdownReturns(s) ==
  /\ caller[s] = "wait" /\ run \in {"new", "done"}
  /\ caller' = [caller EXCEPT ![s] = "returned"]
  /\ UNCHANGED <<state, run, then, reloads, serviceVars, statusVars, shutdownChan>>

-----------------------------------------------------------------------------
\* What Run does by itself.
RunStep ==
  \/ RunCheck \/ SetupFails \/ SetupNew
  \/ \E n \in Nodes : StartBegin(n) \/ StartOk(n) \/ StartFails(n)
  \/ NotifyFails \/ Started
  \/ \E n \in Nodes : StopBegin(n) \/ StopEnd(n)
  \/ Stopped \/ LoopAsyncError
  \/ (shutdownChan /\ LoopBreak)

ReporterStep(c) == ReportNode(c) \/ ReportEnd(c)

\* Run has returned; what is left may stop.
Done == run = "done" /\ UNCHANGED vars

Next ==
  \/ RunBegin \/ RunStep \/ LoopBreak \/ Reload
  \/ \E c \in Components : Report(c) \/ ReporterStep(c)
  \/ \E s \in Callers : ShutdownCall(s) \/ ShutdownReturns(s)
  \/ Done

Spec == Init /\ [][Next]_vars

\* Go schedules every goroutine, and Start and Shutdown of components return.
FairSpec ==
  /\ Spec /\ WF_vars(RunStep)
  /\ \A c \in Components : WF_vars(ReporterStep(c))
  /\ \A s \in Callers : WF_vars(ShutdownReturns(s))

-----------------------------------------------------------------------------
(* Properties *)

\* Types of the variables.
TypeOK ==
  /\ state \in {"Starting", "Running", "Closing", "Closed"}
  /\ run \in {"new", "enter", "setup", "start", "loop", "stop", "done"}
  /\ then \in {"exit", "reload", "fail"}
  /\ todo \subseteq Nodes /\ cur \in todo \cup {None}
  /\ errs \in BOOLEAN /\ ready \in BOOLEAN /\ fatal \in BOOLEAN
  /\ comp \in [Components -> {"new", "up", "failed", "down"}]
  /\ downs \in [Components -> Nat]
  /\ status \in [Nodes -> Statuses] /\ mu \in Components \cup {Free}
  /\ \A c \in Components :
       /\ rep[c] = None \/ rep[c] \in [ev : Runtime, left : SUBSET Nodes]
       /\ sources[c] \subseteq NodesOf(c) /\ events[c] \in Seq(Runtime)
  /\ troubled \subseteq Nodes
  /\ shutdownChan \in BOOLEAN /\ caller \in [Callers -> {"idle", "wait", "returned"}]
  /\ reports \in 0..MaxReports /\ reloads \in 0..MaxReloads

Up(c) == comp[c] = "up"

\* Whatever way Run returns (a failed start, a failed reload, a shutdown
\* with errors), every component that was started has been shut down.
NothingLeftRunning ==
  run = "done" => \A c \in Components : comp[c] \notin {"up", "failed"}

\* No component of a service is shut down twice, neither by the pipelines
\* that share it nor by the several ways out of Run: exporters and
\* processors close a channel in Shutdown and would panic.
ShutdownOnce == \A c \in Components : downs[c] <= 1

\* What a node sends its data to is up as long as its component is.  Only
\* the nodes that have been started count: the first node of a shared
\* receiver starts it before its other pipelines are up.
DownstreamReady ==
  \A n \in Nodes : Up(CompOf[n]) /\ n \in sources[CompOf[n]] =>
    \A m \in Needs[n] : Up(CompOf[m])

\* Extensions believe the pipelines ready, and col.state is Running, only
\* while every component is up.
ReadyMeansUp ==
  ready \/ state = "Running" => \A c \in Components : Up(c)

\* When Run has returned the state is Closed, unless it was a reload that
\* failed.
EndsClosed == run = "done" => state = "Closed" \/ (reloads > 0 /\ then # "exit")

\* Once Collector.Shutdown has returned no component runs, even if Run is
\* called later or was being called.
NothingAfterShutdown ==
  \A s \in Callers : caller[s] = "returned" => \A c \in Components : ~Up(c)

\* When Run has returned, a node that was started is reported as Stopped,
\* unless it had a fatal error or was told of an error while stopping.  (With
\* the types.)
StatusEndsStopped ==
  /\ TypeOK
  /\ run = "done" => \A n \in Nodes :
       status[n] \in {"None", "Stopped", "FatalError"} \/ n \in troubled

\* A fatal report nobody receives: Run is out of its loop.
Stuck == mu # Free /\ run # "loop"

\* After a call of Shutdown Run returns, unless a component is stuck in a
\* fatal report for ever.
RunReturns ==
  (shutdownChan /\ run # "new") ~> (run = "done" \/ []Stuck)

\* A fatal error makes the collector shut down (docs/component-status.md),
\* the more so one that Run has received.
FatalStopsCollector == fatal ~> run = "done"
=============================================================================
