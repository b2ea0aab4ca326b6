--------------------------- MODULE CollectorProofs ---------------------------
(***************************************************************************)
(* What Collector guarantees for every graph of components, any number of  *)
(* callers of Shutdown, reports and reloads: the order in which components *)
(* start and stop, that all are shut down once, and what status remains.   *)
(***************************************************************************)
EXTENDS Collector, Totals

\* The types of what the proof is about.
TInv ==
  /\ run \in {"new", "enter", "setup", "start", "loop", "stop", "done"}
  /\ todo \subseteq Nodes /\ cur \in todo \cup {None}
  /\ comp \in [Components -> {"new", "up", "failed", "down"}]
  /\ downs \in [Components -> Nat]
  /\ sources \in [Components -> SUBSET Nodes]
  /\ caller \in [Callers -> {"idle", "wait", "returned"}]
  /\ reloads \in Nat

\* What the components are at each position of Run.
Phases ==
  /\ cur # None => run \in {"start", "stop"}
  /\ run \in {"new", "enter"} => \A c \in Components : comp[c] = "new"
  /\ run \in {"setup", "done"} => \A c \in Components : comp[c] \in {"new", "down"}
  /\ run \in {"start", "loop"} => \A c \in Components : comp[c] \in {"new", "up"}
  /\ run = "start" => \A n \in Nodes \ todo : Up(CompOf[n])
  /\ run = "start" /\ cur # None => Up(CompOf[cur])
  /\ run = "loop" => \A c \in Components : Up(c)
  /\ run = "stop" => \A n \in Nodes \ todo : comp[CompOf[n]] = "down"

\* A component has been told to stop once, and only when its first node was.
StoppedOnce ==
  /\ run \in {"new", "enter", "start", "loop"} => \A c \in Components : downs[c] = 0
  /\ run = "stop" => \A c \in Components :
       /\ downs[c] = 1 => comp[c] = "down" \/ (cur # None /\ CompOf[cur] = c)
       /\ comp[c] = "down" => \E m \in Nodes \ todo : CompOf[m] = c
  /\ ShutdownOnce

\* Nodes start after, and stop before, the nodes they need.
InTurn ==
  /\ run = "start" => \A n \in Nodes :
       n \in sources[CompOf[n]] => Needs[n] \cap todo = {}
  /\ run = "stop" /\ cur # None => MayStop(cur)
  /\ run = "stop" => DownstreamReady

\* What the state, the readiness and the reason for a shutdown are when.
States ==
  /\ ready \/ state = "Running" => run = "loop"
  /\ run \in {"new", "enter"} => reloads = 0
  /\ run \in {"setup", "start"} /\ reloads > 0 => then = "reload"
  /\ run = "stop" => then \in {"exit", "fail"} \/ (then = "reload" /\ reloads > 0)
  /\ EndsClosed

\* Once Shutdown has returned, Run has not begun, is about to see
\* shutdownChan, or has returned.
CallersSeen ==
  \A s \in Callers :
    /\ caller[s] # "idle" => shutdownChan
    /\ caller[s] = "returned" => run \in {"new", "enter", "done"}

IInv == TInv /\ Phases /\ StoppedOnce /\ InTurn /\ States /\ CallersSeen

-----------------------------------------------------------------------------
\* The component of a node is one of the graph's.
LEMMA CompInComponents == \A n \in Nodes : CompOf[n] \in Components
  BY DEF Components

\* A component with two nodes is a shared one.
LEMMA TwoNodesShare ==
  ASSUME NEW m \in Nodes, NEW n \in Nodes, m # n, CompOf[m] = CompOf[n]
  PROVE  Shared(CompOf[n])
  <1> DEFINE S == NodesOf(CompOf[n])
  <1>1. IsFiniteSet(S) /\ {m, n} \subseteq S
    <2>1. S \in SUBSET Nodes
      BY DEF NodesOf
    <2> QED BY <2>1, CollectorAssumption, FS_Subset DEF NodesOf
  <1>2. Cardinality(S) \in Nat /\ Cardinality(S) # 0 /\ Cardinality(S) # 1
    BY <1>1, FS_CardinalityType, FS_EmptySet, FS_Singleton
  <1> QED BY <1>2 DEF Shared

\* The invariant holds before Run is called.
LEMMA InitInv == Init => IInv
  BY CollectorAssumption
  DEF Init, IInv, TInv, Phases, StoppedOnce, InTurn, States, CallersSeen,
      ShutdownOnce, EndsClosed, Up

\* Steps that leave the service alone.
LEMMA OtherStep ==
  ASSUME IInv, UNCHANGED <<state, run, then, reloads, serviceVars, sources, callerVars>>
  PROVE  IInv'
  BY DEF IInv, TInv, Phases, StoppedOnce, InTurn, States, CallersSeen, serviceVars,
         callerVars, ShutdownOnce, EndsClosed, DownstreamReady, MayStop, Up

-----------------------------------------------------------------------------
\* Service.Start, by one node.
LEMMA StartBeginInv ==
  ASSUME IInv, NEW n \in Nodes, StartBegin(n)
  PROVE  IInv'
  <1> DEFINE c == CompOf[n]
  <1>1. /\ run = "start" /\ cur = None /\ n \in todo /\ Needs[n] \cap todo = {}
        /\ cur' = n /\ comp' = [comp EXCEPT ![c] = "up"]
        /\ sources' = [sources EXCEPT ![c] = @ \cup {n}]
        /\ UNCHANGED <<state, run, then, reloads, todo, downs, ready, callerVars>>
    BY DEF StartBegin
  <1>2. c \in Components
    BY CompInComponents
  <1>3. TInv'
    BY <1>1, <1>2 DEF IInv, TInv, callerVars
  <1>4. Phases'
    BY <1>1, <1>2, CompInComponents DEF IInv, TInv, Phases, Up
  <1>5. StoppedOnce'
    BY <1>1 DEF IInv, StoppedOnce, ShutdownOnce
  <1>6. InTurn'
    BY <1>1, <1>2, CompInComponents DEF IInv, TInv, InTurn
  <1>7. States' /\ CallersSeen'
    BY <1>1 DEF IInv, States, CallersSeen, EndsClosed, callerVars
  <1> QED BY <1>3, <1>4, <1>5, <1>6, <1>7 DEF IInv

\* Start of a node returned: its component is up and what it needs came before.
LEMMA StartOkInv ==
  ASSUME IInv, NEW n \in Nodes, StartOk(n)
  PROVE  IInv'
  <1>1. /\ run = "start" /\ cur = n /\ todo' = todo \ {n} /\ cur' = None
        /\ UNCHANGED <<state, run, then, reloads, comp, downs, ready, sources, callerVars>>
    BY DEF StartOk
  <1>2. TInv' /\ Phases'
    BY <1>1, CollectorAssumption, CompInComponents DEF IInv, TInv, Phases, callerVars, Up
  <1>3. StoppedOnce' /\ InTurn'
    BY <1>1 DEF IInv, StoppedOnce, InTurn, ShutdownOnce
  <1>4. States' /\ CallersSeen'
    BY <1>1 DEF IInv, States, CallersSeen, EndsClosed, callerVars
  <1> QED BY <1>2, <1>3, <1>4 DEF IInv

\* Service.Shutdown begins, from Start or from the loop, with the components
\* as they are but for one that failed to start.
LEMMA BeginShutdownInv ==
  ASSUME IInv, run \in {"start", "loop"}, NEW next, BeginShutdown(next),
         next \in {"exit", "fail"} \/ (next = "reload" /\ reloads' > 0),
         reloads' \in Nat,
         state' # "Running",
         UNCHANGED <<downs, sources, callerVars>>,
         \/ UNCHANGED comp
         \/ /\ run = "start" /\ cur # None
            /\ comp' = [comp EXCEPT ![CompOf[cur]] = "failed"]
  PROVE  IInv'
  <1>1. /\ run' = "stop" /\ then' = next /\ todo' = Nodes /\ cur' = None
        /\ ready' = FALSE
    BY DEF BeginShutdown
  <1>2. TInv'
    BY <1>1 DEF IInv, TInv, callerVars
  <1>3. \A d \in Components : comp'[d] # "down"
    BY DEF IInv, TInv, Phases
  <1>4. Phases' /\ StoppedOnce'
    BY <1>1, <1>3 DEF IInv, TInv, Phases, StoppedOnce, ShutdownOnce
  <1>5. DownstreamReady'
    <2> SUFFICES ASSUME NEW n \in Nodes, Up(CompOf[n])', (n \in sources[CompOf[n]])',
                        NEW m \in Needs[n]
                 PROVE  Up(CompOf[m])'
      BY DEF DownstreamReady
    <2>0. m \in Nodes /\ CompOf[m] \in Components /\ n \in sources[CompOf[n]]
      BY CollectorAssumption, CompInComponents
    <2>1. CASE run = "loop"
      BY <2>0, <2>1 DEF IInv, Phases, Up
    <2>2. CASE run = "start"
      <3>1. m \notin todo
        BY <2>0, <2>2 DEF IInv, InTurn
      <3>2. Up(CompOf[m])
        BY <2>0, <2>2, <3>1 DEF IInv, Phases
      <3>3. cur # None => CompOf[cur] # CompOf[m]
        BY <2>0, <3>1, TwoNodesShare, SharedAssumption DEF IInv, TInv
      <3> QED BY <2>0, <3>2, <3>3 DEF IInv, TInv, Up
    <2> QED BY <2>1, <2>2
  <1>6. InTurn'
    BY <1>1, <1>5 DEF InTurn
  <1>7. States' /\ CallersSeen'
    BY <1>1 DEF IInv, States, CallersSeen, EndsClosed, callerVars
  <1> QED BY <1>2, <1>4, <1>6, <1>7 DEF IInv

\* A failed Start leaves its component failed and begins the shutdown of all.
LEMMA StartFailsInv ==
  ASSUME IInv, NEW n \in Nodes, StartFails(n)
  PROVE  IInv'
  <1>1. /\ run = "start" /\ cur = n /\ BeginShutdown("fail")
        /\ comp' = [comp EXCEPT ![CompOf[cur]] = "failed"]
        /\ UNCHANGED <<state, reloads, downs, sources, callerVars>>
    BY DEF StartFails
  <1>2. cur # None /\ state' # "Running" /\ reloads' \in Nat
    BY <1>1, CollectorAssumption DEF IInv, TInv, States
  <1> QED BY <1>1, <1>2, BeginShutdownInv

-----------------------------------------------------------------------------
\* Service.Shutdown, by one node.
LEMMA StopBeginInv ==
  ASSUME IInv, NEW n \in Nodes, StopBegin(n)
  PROVE  IInv'
  <1> DEFINE c == CompOf[n]
  <1>1. /\ run = "stop" /\ cur = None /\ n \in todo /\ MayStop(n) /\ cur' = n
        /\ downs' = [downs EXCEPT ![c] = IF FirstStop(n) THEN @ + 1 ELSE @]
        /\ UNCHANGED <<state, run, then, reloads, todo, comp, ready, sources, callerVars>>
    BY DEF StopBegin
  <1>2. c \in Components
    BY CompInComponents
  <1>3. TInv' /\ Phases'
    BY <1>1, <1>2 DEF IInv, TInv, Phases, callerVars, Up
  <1>4. FirstStop(n) => downs[c] = 0
    <2> SUFFICES ASSUME FirstStop(n), downs[c] # 0 PROVE FALSE
      OBVIOUS
    <2>1. downs[c] = 1
      BY <1>2 DEF IInv, TInv, StoppedOnce, ShutdownOnce
    <2>2. comp[c] = "down"
      BY <1>1, <1>2, <2>1 DEF IInv, StoppedOnce
    <2>3. PICK m \in Nodes \ todo : CompOf[m] = c
      BY <1>1, <1>2, <2>2 DEF IInv, StoppedOnce
    <2>4. Shared(c)
      BY <1>1, <2>3, TwoNodesShare
    <2> QED BY <2>2, <2>4 DEF FirstStop
  <1>5. StoppedOnce'
    BY <1>1, <1>2, <1>4, CollectorAssumption DEF IInv, TInv, StoppedOnce, ShutdownOnce
  <1>6. InTurn'
    BY <1>1 DEF IInv, InTurn, MayStop, DownstreamReady, Up
  <1>7. States' /\ CallersSeen'
    BY <1>1 DEF IInv, States, CallersSeen, EndsClosed, callerVars
  <1> QED BY <1>3, <1>5, <1>6, <1>7 DEF IInv

\* Shutdown of a node returned: only the first node of a component takes it down.
LEMMA StopEndInv ==
  ASSUME IInv, NEW n \in Nodes, StopEnd(n)
  PROVE  IInv'
  <1> DEFINE c == CompOf[n]
  <1>1. /\ run = "stop" /\ cur = n /\ comp' = [comp EXCEPT ![c] = "down"]
        /\ todo' = todo \ {n} /\ cur' = None
        /\ UNCHANGED <<state, run, then, reloads, downs, ready, sources, callerVars>>
    BY DEF StopEnd
  <1>2. c \in Components /\ n # None
    BY CompInComponents, CollectorAssumption
  <1>3. TInv'
    BY <1>1, <1>2 DEF IInv, TInv, callerVars
  <1>4. Phases'
    BY <1>1, <1>2, CompInComponents DEF IInv, TInv, Phases, Up
  <1>5. StoppedOnce'
    BY <1>1, <1>2, <1>3 DEF IInv, TInv, StoppedOnce, ShutdownOnce
  <1>6. DownstreamReady'
    <2> SUFFICES ASSUME NEW x \in Nodes, Up(CompOf[x])', (x \in sources[CompOf[x]])',
                        NEW m \in Needs[x]
                 PROVE  Up(CompOf[m])'
      BY DEF DownstreamReady
    <2>0. /\ m \in Nodes /\ CompOf[m] \in Components /\ CompOf[x] \in Components
          /\ x \in sources[CompOf[x]] /\ Up(CompOf[x])
      BY <1>1, <1>2, CollectorAssumption, CompInComponents DEF IInv, TInv, Up
    <2>1. Up(CompOf[m])
      BY <1>1, <2>0 DEF IInv, InTurn, DownstreamReady
    <2>2. x \in todo
      BY <1>1, <2>0 DEF IInv, Phases, Up
    <2>3. m # n
      BY <1>1, <1>2, <2>2 DEF IInv, InTurn, MayStop
    <2>4. CompOf[m] # c
      BY <2>0, <2>3, TwoNodesShare, SharedAssumption
    <2> QED BY <1>1, <1>2, <2>0, <2>1, <2>4 DEF IInv, TInv, Up
  <1>7. InTurn'
    BY <1>1, <1>6 DEF InTurn
  <1>8. States' /\ CallersSeen'
    BY <1>1 DEF IInv, States, CallersSeen, EndsClosed, callerVars
  <1> QED BY <1>3, <1>4, <1>5, <1>7, <1>8 DEF IInv

-----------------------------------------------------------------------------
\* The steps of Run and of its callers that move no component.
LEMMA RunMovesInv ==
  ASSUME IInv, RunBegin \/ RunCheck \/ SetupFails \/ Stopped
  PROVE  IInv'
  <1>1. /\ run \in {"new", "enter", "setup", "stop"}
        /\ run' \in {"enter", "setup", "done"}
        /\ run = "new" <=> run' = "enter"
        /\ run = "setup" => run' = "done"
        /\ run = "enter" /\ shutdownChan => run' = "done"
        /\ run = "stop" => todo = {} /\ cur = None
        /\ UNCHANGED <<then, reloads, serviceVars, sources, callerVars>>
    BY DEF RunBegin, RunCheck, SetupFails, Stopped, statusVars
  <1>2. run = "stop" => \A c \in Components : comp[c] = "down"
    BY <1>1 DEF IInv, Phases, Components
  <1>3. TInv' /\ Phases'
    BY <1>1, <1>2 DEF IInv, TInv, Phases, serviceVars, callerVars, Up
  <1>4. StoppedOnce' /\ InTurn'
    BY <1>1 DEF IInv, StoppedOnce, InTurn, ShutdownOnce, serviceVars
  <1>5. States'
    BY DEF IInv, TInv, States, EndsClosed, serviceVars, RunBegin, RunCheck, SetupFails, Stopped
  <1>6. CallersSeen'
    BY <1>1 DEF IInv, CallersSeen, callerVars
  <1> QED BY <1>3, <1>4, <1>5, <1>6 DEF IInv

\* service.New starts over with new components.
LEMMA SetupNewInv ==
  ASSUME IInv, SetupNew
  PROVE  IInv'
  <1>1. TInv'
    BY DEF IInv, TInv, SetupNew, callerVars
  <1>2. Phases'
    BY DEF Phases, SetupNew, Up
  <1>3. StoppedOnce'
    BY DEF StoppedOnce, SetupNew, ShutdownOnce
  <1>4. InTurn'
    BY CompInComponents DEF InTurn, SetupNew
  <1>5. States' /\ CallersSeen'
    BY DEF IInv, States, CallersSeen, EndsClosed, SetupNew, callerVars
  <1> QED BY <1>1, <1>2, <1>3, <1>4, <1>5 DEF IInv

\* All nodes have started, so all components are up.
LEMMA StartedInv ==
  ASSUME IInv, Started
  PROVE  IInv'
  <1>1. \A c \in Components : Up(c)
    BY DEF IInv, Phases, Started, Components
  <1>2. TInv' /\ Phases' /\ StoppedOnce' /\ InTurn'
    BY <1>1 DEF IInv, TInv, Phases, StoppedOnce, InTurn, Started, callerVars, statusVars,
                ShutdownOnce, Up
  <1>3. States' /\ CallersSeen'
    BY DEF IInv, States, CallersSeen, EndsClosed, Started, callerVars
  <1> QED BY <1>2, <1>3 DEF IInv

\* The ways out of the start and out of the loop into Service.Shutdown.
LEMMA LeaveInv ==
  ASSUME IInv, NotifyFails \/ LoopBreak \/ LoopAsyncError \/ Reload
  PROVE  IInv'
  <1>1. /\ run \in {"start", "loop"} /\ reloads' \in Nat
        /\ UNCHANGED <<comp, downs, sources, callerVars>> /\ state' # "Running"
    BY DEF IInv, TInv, States, NotifyFails, LoopBreak, LoopAsyncError, Reload, statusVars
  <1>2. \E next : 
          /\ BeginShutdown(next)
          /\ next \in {"exit", "fail"} \/ (next = "reload" /\ reloads' > 0)
    BY DEF IInv, TInv, NotifyFails, LoopBreak, LoopAsyncError, Reload
  <1> QED BY <1>1, <1>2, BeginShutdownInv

\* Collector.Shutdown changes no component; it returns before Run or after it.
LEMMA CallerInv ==
  ASSUME IInv, NEW s \in Callers, ShutdownCall(s) \/ ShutdownReturns(s)
  PROVE  IInv'
  <1>1. UNCHANGED <<state, run, then, reloads, serviceVars, sources>>
    BY DEF ShutdownCall, ShutdownReturns, statusVars
  <1>2. TInv' /\ CallersSeen'
    BY <1>1 DEF IInv, TInv, CallersSeen, ShutdownCall, ShutdownReturns, serviceVars
  <1>3. Phases' /\ StoppedOnce' /\ InTurn' /\ States'
    BY <1>1 DEF IInv, Phases, StoppedOnce, InTurn, States, ShutdownOnce, EndsClosed,
                DownstreamReady, MayStop, Up, serviceVars
  <1> QED BY <1>2, <1>3 DEF IInv

\* Every step of the collector preserves the invariant.
LEMMA NextInv == IInv /\ [Next]_vars => IInv'
  <1> SUFFICES ASSUME IInv, [Next]_vars PROVE IInv'
    OBVIOUS
  <1>1. CASE RunBegin \/ RunCheck \/ SetupFails \/ Stopped
    BY <1>1, RunMovesInv
  <1>2. CASE SetupNew
    BY <1>2, SetupNewInv
  <1>3. ASSUME NEW n \in Nodes, StartBegin(n) \/ StartOk(n) \/ StartFails(n)
        PROVE  IInv'
    BY <1>3, StartBeginInv, StartOkInv, StartFailsInv
  <1>4. CASE Started
    BY <1>4, StartedInv
  <1>5. CASE NotifyFails \/ LoopBreak \/ LoopAsyncError \/ Reload
    BY <1>5, LeaveInv
  <1>6. ASSUME NEW n \in Nodes, StopBegin(n) \/ StopEnd(n)
        PROVE  IInv'
    BY <1>6, StopBeginInv, StopEndInv
  <1>7. ASSUME NEW c \in Components, Report(c) \/ ReporterStep(c)
        PROVE  IInv'
    BY <1>7, OtherStep DEF Report, ReporterStep, ReportNode, ReportEnd
  <1>8. ASSUME NEW s \in Callers, ShutdownCall(s) \/ ShutdownReturns(s)
        PROVE  IInv'
    BY <1>8, CallerInv
  <1>9. CASE Done \/ UNCHANGED vars
    BY <1>9, OtherStep DEF Done, vars, statusVars
  <1> QED BY <1>1, <1>2, <1>3, <1>4, <1>5, <1>6, <1>7, <1>8, <1>9 DEF Next, RunStep

-----------------------------------------------------------------------------
\* The inductive invariant holds in every behaviour of the collector.
THEOREM CollectorInvariant == Spec => []IInv
  BY InitInv, NextInv, PTL DEF Spec

\* Whatever way Run returns, no component is left running: for every graph,
\* also when a start, a stop or a reload failed half way.
THEOREM CollectorNothingLeftRunning == Spec => []NothingLeftRunning
  <1>1. IInv => NothingLeftRunning
    BY DEF IInv, Phases, NothingLeftRunning
  <1> QED BY <1>1, CollectorInvariant, PTL

\* No component of a service is shut down twice, shared ones included.
THEOREM CollectorShutdownOnce == Spec => []ShutdownOnce
  <1>1. IInv => ShutdownOnce
    BY DEF IInv, StoppedOnce
  <1> QED BY <1>1, CollectorInvariant, PTL

\* What a started node sends its data to is up as long as its component is.
THEOREM CollectorDownstreamReady == Spec => []DownstreamReady
  <1>1. IInv => DownstreamReady
    <2> SUFFICES ASSUME IInv, NEW n \in Nodes, Up(CompOf[n]), n \in sources[CompOf[n]],
                        NEW m \in Needs[n]
                 PROVE  Up(CompOf[m])
      BY DEF DownstreamReady
    <2>1. m \in Nodes /\ CompOf[m] \in Components /\ CompOf[n] \in Components
      BY CollectorAssumption, CompInComponents
    <2>2. run \in {"start", "loop", "stop"}
      BY <2>1 DEF IInv, TInv, Phases, Up
    <2> QED BY <2>1, <2>2 DEF IInv, Phases, InTurn, DownstreamReady
  <1> QED BY <1>1, CollectorInvariant, PTL

\* Extensions believe the pipelines ready only while every component is up.
THEOREM CollectorReadyMeansUp == Spec => []ReadyMeansUp
  <1>1. IInv => ReadyMeansUp
    BY DEF IInv, States, Phases, ReadyMeansUp
  <1> QED BY <1>1, CollectorInvariant, PTL

\* The state is Closed when Run has returned, but for a failed reload.
THEOREM CollectorEndsClosed == Spec => []EndsClosed
  <1>1. IInv => EndsClosed
    BY DEF IInv, States
  <1> QED BY <1>1, CollectorInvariant, PTL

\* Nothing runs once a call of Collector.Shutdown has returned, however it
\* races with the beginning of Run.
THEOREM CollectorNothingAfterShutdown == Spec => []NothingAfterShutdown
  <1>1. IInv => NothingAfterShutdown
    BY DEF IInv, Phases, CallersSeen, NothingAfterShutdown, Up
  <1> QED BY <1>1, CollectorInvariant, PTL

-----------------------------------------------------------------------------
(* What the status reporter shows *)

\* The component is being shut down.
Stopping(c) == run = "stop" /\ cur # None /\ CompOf[cur] = c

\* The statuses a node may have that was told of no error while it stopped.
Expected(n) ==
  LET c == CompOf[n] IN
  IF n \notin sources[c] THEN {"None"}
  ELSE IF comp[c] = "down" THEN {"Stopped", "FatalError"}
  ELSE IF Stopping(c) THEN {"Stopping", "FatalError"}
  ELSE Runtime \cup {"Starting"}

\* A report goes to nodes of its component that were started, and is over
\* before the component is down.
Reports ==
  \A c \in Components :
    /\ sources[c] \subseteq NodesOf(c)
    /\ rep[c] # None => rep[c].left \subseteq sources[c]
    /\ comp[c] \in {"new", "down"} => rep[c] = None
    /\ comp[c] = "new" => sources[c] = {}

Shown == \A n \in Nodes : n \in troubled \/ status[n] \in Expected(n)

\* The types of the reporter's variables and of the rest.
STypes ==
  /\ state \in {"Starting", "Running", "Closing", "Closed"}
  /\ then \in {"exit", "reload", "fail"}
  /\ errs \in BOOLEAN /\ ready \in BOOLEAN /\ fatal \in BOOLEAN /\ shutdownChan \in BOOLEAN
  /\ status \in [Nodes -> Statuses] /\ mu \in Components \cup {Free}
  /\ rep \in [Components -> [ev : Runtime, left : SUBSET Nodes] \cup {None}]
  /\ events \in [Components -> Seq(Runtime)]
  /\ troubled \subseteq Nodes
  /\ reports \in 0..MaxReports /\ reloads \in 0..MaxReloads

SInv == STypes /\ Reports /\ Shown

-----------------------------------------------------------------------------
\* A transition ends in a status.
LEMMA TransitionTypes ==
  \A st \in Statuses, ev \in Statuses : transition(st, ev) \in Statuses
  BY DEF transition

\* The status of a node that runs stays one of those whatever is reported.
LEMMA RuntimeStays ==
  \A st \in Runtime \cup {"Starting"}, ev \in Runtime : transition(st, ev) \in Runtime \cup {"Starting"}
  BY DEF transition

\* What the reporter of a shared component replays to a node that starts later
\* leads to a status in every set that reports do not lead out of.
LEMMA Replayed ==
  ASSUME NEW V, NEW base \in V, NEW q \in Seq(Runtime),
         \A v \in V, ev \in Runtime : transition(v, ev) \in V
  PROVE  FoldLeft(transition, base, q) \in V
  <1> DEFINE D == DOMAIN q
             p == [s \in SUBSET D |-> Max(s)]
             h == [i \in D |-> [v \in V |-> transition(v, q[i])]]
             It(H) == H = [s \in SUBSET D |-> IF s = {} THEN base
                                              ELSE transition(H[s \ {Max(s)}], q[Max(s)])]
  <1>1. D = 1..Len(q) /\ Len(q) \in Nat /\ D \subseteq Nat
    OBVIOUS
  <1>2. IsFiniteSet(D)
    BY <1>1, FS_Interval
  <1>3. \A s \in SUBSET D : s # {} => Max(s) \in s
    <2> SUFFICES ASSUME NEW s \in SUBSET D, s # {} PROVE Max(s) \in s
      OBVIOUS
    <2>1. s \in SUBSET Nat /\ IsFiniteSet(s)
      BY <1>1, <1>2, FS_Subset
    <2> QED BY <2>1, MaxInSet
  <1>4. \A i \in D : q[i] \in Runtime
    BY <1>1
  <1>5. (\A s \in SUBSET D : s # {} => p[s] \in s) /\ (\A i \in D, v \in V : h[i][v] \in V)
    BY <1>3, <1>4
  <1>6. \E H : It(H)
    <2>1. PICK G \in [SUBSET D -> V] : Folds(D, p, base, h, G)
      <3> HIDE DEF D, p, h
      <3> QED BY <1>2, <1>5, FoldsExist
    <2>2. ASSUME NEW s \in SUBSET D, s # {}
          PROVE  h[p[s]][G[s \ {p[s]}]] = transition(G[s \ {Max(s)}], q[Max(s)])
      <3>1. p[s] = Max(s) /\ Max(s) \in D /\ G[s \ {Max(s)}] \in V
        BY <2>1, <2>2, <1>3
      <3> QED BY <3>1
    <2>3. It(G)
      <3>1. G = [s \in SUBSET D |-> IF s = {} THEN base ELSE h[p[s]][G[s \ {p[s]}]]]
        BY <2>1 DEF Folds
      <3> HIDE DEF h, p, D
      <3> QED BY <2>2, <3>1
    <2> QED BY <2>3
  <1>7. PICK H : H = (CHOOSE K : It(K)) /\ It(H)
    BY <1>6
  <1>8. \A s \in SUBSET D : H[s] = IF s = {} THEN base ELSE transition(H[s \ {Max(s)}], q[Max(s)])
    BY <1>7
  <1>9. D \in {s \in SUBSET D : H[s] \in V}
    <2> DEFINE F == {s \in SUBSET D : H[s] \in V}
    <2>1. {} \in F
      BY <1>8
    <2>2. ASSUME NEW s \in SUBSET D, s # {}, \A x \in s : \A u \in SUBSET (s \ {x}) : u \in F
          PROVE  s \in F
      <3>1. Max(s) \in s /\ q[Max(s)] \in Runtime /\ H[s \ {Max(s)}] \in V
        BY <1>3, <1>4, <2>2
      <3> QED BY <1>8, <2>2, <3>1
    <2>3. SUBSET D \subseteq F
      <3> HIDE DEF F, D, It
      <3> QED BY <1>2, <2>1, <2>2, SubsetInduction
    <2> QED BY <2>3
  <1>10. FoldLeft(transition, base, q) = (CHOOSE K : It(K))[D]
    BY DEF FoldLeft, MapThenFoldSet
  <1> QED BY <1>7, <1>9, <1>10

\* The transitions to Stopping and Stopped, and those from Stopping.
LEMMA StoppingTransitions ==
  /\ \A st \in Runtime \cup {"Starting"} : transition(st, "Stopping") \in {"Stopping", "FatalError"}
  /\ \A st \in {"Stopping", "FatalError"} : transition(st, "Stopped") \in {"Stopped", "FatalError"}
  /\ \A st \in {"Stopped", "FatalError", "None"} :
       transition(st, "Stopping") = st /\ transition(st, "Stopped") = st
  /\ \A ev \in Runtime : transition("FatalError", ev) = "FatalError" /\ transition("None", ev) = "None"
  /\ transition("Stopping", "OK") = "Stopping"
  /\ transition("None", "Starting") = "Starting"
  /\ \A st \in Runtime : transition(st, "Starting") = st
  /\ transition("Starting", "Starting") = "Starting"
  BY DEF transition, transitions, Runtime

\* What a step makes of the status of one node.
LEMMA ToldOne ==
  ASSUME STypes, NEW N, NEW ev
  PROVE  \A n \in Nodes : Told(status, N, ev)[n] = IF n \in N THEN transition(status[n], ev)
                                                              ELSE status[n]
  BY DEF Told

\* Told nodes have a status again.
LEMMA ToldTypes ==
  ASSUME STypes, NEW N, NEW ev \in Statuses
  PROVE  Told(status, N, ev) \in [Nodes -> Statuses]
  BY TransitionTypes DEF Told, STypes

\* The steps that leave components and statuses alone.
LEMMA QuietShown ==
  ASSUME IInv, SInv, UNCHANGED <<comp, status, sources, rep, troubled>>,
         cur = None \/ run # "stop", cur' = None \/ run' # "stop"
  PROVE  Reports' /\ Shown'
  <1>1. \A c \in Components : ~Stopping(c) /\ ~Stopping(c)'
    BY DEF Stopping
  <1>2. \A n \in Nodes : Expected(n)' = Expected(n)
    BY <1>1, CompInComponents DEF Expected
  <1> QED BY <1>2 DEF SInv, Reports, Shown

\* A node that starts is shown as Starting, or as what the shared component it
\* joins has reported so far.
LEMMA StartBeginShown ==
  ASSUME IInv, SInv, NEW n \in Nodes, StartBegin(n)
  PROVE  SInv'
  <1>0. PICK c, b, st : /\ c = CompOf[n] /\ b = transition(status[n], "Starting")
                        /\ st = FoldLeft(transition, b, events[c])
    OBVIOUS
  <1>1. /\ run = "start" /\ cur' = n /\ comp' = [comp EXCEPT ![c] = "up"]
        /\ status' = [status EXCEPT ![n] = st]
        /\ sources' = [sources EXCEPT ![c] = @ \cup {n}]
        /\ UNCHANGED <<state, run, then, reloads, errs, ready, mu, rep, events, troubled,
                       fatal, reports, callerVars>>
    BY <1>0 DEF StartBegin
  <1>2. c \in Components /\ status[n] \in Statuses /\ events[c] \in Seq(Runtime) /\ n \in NodesOf(c)
    BY <1>0, CompInComponents DEF SInv, STypes, NodesOf
  <1>3. st \in Statuses
    <2>1. b \in Statuses
      BY <1>0, <1>2, TransitionTypes DEF Statuses
    <2>2. Runtime \subseteq Statuses
      BY DEF Statuses
    <2> QED BY <1>0, <1>2, <2>1, <2>2, Replayed, TransitionTypes
  <1>4. n \in troubled \/ st \in Runtime \cup {"Starting"}
    <2> SUFFICES ASSUME n \notin troubled PROVE st \in Runtime \cup {"Starting"}
      OBVIOUS
    <2>1. status[n] \in Runtime \cup {"Starting", "None"}
      <3>1. comp[c] # "down"
        BY <1>1, <1>2 DEF IInv, Phases
      <3> QED BY <1>0, <1>1, <3>1 DEF SInv, Shown, Expected, Stopping
    <2>2. b \in Runtime \cup {"Starting"}
      BY <1>0, <2>1, StoppingTransitions
    <2> QED BY <1>0, <1>2, <2>2, Replayed, RuntimeStays
  <1>5. STypes'
    BY <1>1, <1>3 DEF SInv, STypes, callerVars
  <1>6. Reports'
    BY <1>1, <1>2 DEF IInv, TInv, SInv, Reports
  <1>7. Shown'
    <2> SUFFICES ASSUME NEW m \in Nodes, m \notin troubled' PROVE status'[m] \in Expected(m)'
      BY DEF Shown
    <2>1. CompOf[m] \in Components /\ ~Stopping(CompOf[m]) /\ ~Stopping(CompOf[m])'
      BY <1>1, CompInComponents DEF Stopping
    <2>2. CASE m = n
      <3>1. status'[m] = st /\ m \in sources'[CompOf[m]] /\ comp'[CompOf[m]] # "down"
        BY <1>0, <1>1, <1>2, <2>2 DEF IInv, TInv, SInv, STypes
      <3> QED BY <1>1, <1>4, <2>1, <2>2, <3>1 DEF Expected
    <2>3. CASE m # n
      <3>1. /\ status'[m] = status[m] /\ status[m] \in Expected(m)
            /\ m \in sources'[CompOf[m]] <=> m \in sources[CompOf[m]]
        BY <1>1, <1>2, <2>1, <2>3 DEF IInv, TInv, SInv, STypes, Shown
      <3>2. comp'[CompOf[m]] # "down" /\ comp[CompOf[m]] # "down"
        BY <1>1, <1>2, <2>1 DEF IInv, TInv, Phases
      <3> QED BY <2>1, <3>1, <3>2 DEF Expected
    <2> QED BY <2>2, <2>3
  <1> QED BY <1>5, <1>6, <1>7 DEF SInv

\* ReportOKIfStarting keeps a status that a node may have while it runs.
LEMMA StartOkShown ==
  ASSUME IInv, SInv, NEW n \in Nodes, StartOk(n)
  PROVE  SInv'
  <1>1. /\ run = "start" /\ status' = [status EXCEPT ![n] = IF @ = "Starting" THEN "OK" ELSE @]
        /\ UNCHANGED <<state, run, then, reloads, errs, comp, ready, mu, rep, sources, events,
                       troubled, fatal, reports, callerVars>>
    BY DEF StartOk
  <1>2. STypes' /\ Reports'
    BY <1>1 DEF SInv, STypes, Reports, callerVars, Statuses, Runtime
  <1>3. Shown'
    <2> SUFFICES ASSUME NEW m \in Nodes, m \notin troubled' PROVE status'[m] \in Expected(m)'
      BY DEF Shown
    <2>1. CompOf[m] \in Components /\ ~Stopping(CompOf[m]) /\ ~Stopping(CompOf[m])'
      BY <1>1, CompInComponents DEF Stopping
    <2>2. Expected(m)' = Expected(m) /\ comp[CompOf[m]] # "down" /\ status[m] \in Expected(m)
      BY <1>1, <2>1 DEF Expected, IInv, Phases, SInv, Shown
    <2>3. status'[m] = IF m = n /\ status[m] = "Starting" THEN "OK" ELSE status[m]
      BY <1>1 DEF SInv, STypes
    <2> QED BY <2>1, <2>2, <2>3 DEF Expected, Runtime
  <1> QED BY <1>2, <1>3 DEF SInv

\* The permanent error of a failed Start is a status of a running node.
LEMMA StartFailsShown ==
  ASSUME IInv, SInv, NEW n \in Nodes, StartFails(n)
  PROVE  SInv'
  <1>0. PICK c : c = CompOf[n]
    OBVIOUS
  <1>1. /\ run = "start" /\ cur = n /\ run' = "stop" /\ cur' = None
        /\ status' = Told(status, {n}, "PermanentError")
        /\ comp' = [comp EXCEPT ![c] = "failed"]
        /\ then' = "fail" /\ errs' = FALSE /\ ready' = FALSE
        /\ UNCHANGED <<state, reloads, mu, rep, sources, events, troubled, fatal, reports,
                       callerVars>>
    BY <1>0 DEF StartFails, BeginShutdown
  <1>2. c \in Components /\ Up(c)
    BY <1>0, <1>1, CompInComponents, CollectorAssumption DEF IInv, Phases
  <1>3. "PermanentError" \in Runtime /\ "PermanentError" \in Statuses
    BY DEF Runtime, Statuses
  <1>4. STypes'
    BY <1>1, <1>3, ToldTypes DEF SInv, STypes, callerVars
  <1>5. Reports'
    BY <1>1, <1>2 DEF IInv, TInv, SInv, Reports
  <1>6. Shown'
    <2> SUFFICES ASSUME NEW m \in Nodes, m \notin troubled' PROVE status'[m] \in Expected(m)'
      BY DEF Shown
    <2>1. CompOf[m] \in Components /\ ~Stopping(CompOf[m]) /\ ~Stopping(CompOf[m])'
      BY <1>1, CompInComponents DEF Stopping
    <2>2. comp[CompOf[m]] # "down" /\ comp'[CompOf[m]] # "down"
      BY <1>1, <1>2, <2>1 DEF IInv, TInv, Phases
    <2>3. /\ status[m] \in Expected(m) /\ Expected(m)' = Expected(m)
          /\ Expected(m) = {"None"} \/ Expected(m) = Runtime \cup {"Starting"}
      BY <1>1, <2>1, <2>2 DEF Expected, SInv, Shown
    <2>4. status'[m] = IF m = n THEN transition(status[m], "PermanentError") ELSE status[m]
      BY <1>1, ToldOne DEF SInv
    <2> QED BY <1>3, <2>3, <2>4, RuntimeStays, StoppingTransitions
  <1> QED BY <1>4, <1>5, <1>6 DEF SInv

-----------------------------------------------------------------------------
\* A report that begins or ends changes no status.
LEMMA ReportShown ==
  ASSUME IInv, SInv, NEW c \in Components, Report(c) \/ ReportEnd(c)
  PROVE  SInv'
  <1>1. UNCHANGED <<state, run, then, reloads, serviceVars, status, mu, sources, troubled, fatal,
                    callerVars>>
    BY DEF Report, ReportEnd
  <1>2. STypes' /\ \A d \in Components : d # c => rep'[d] = rep[d]
    <2>1. CASE ReportEnd(c)
      BY <1>1, <2>1 DEF ReportEnd, SInv, STypes, serviceVars, callerVars
    <2>2. CASE Report(c)
      <3>1. PICK ev \in Runtime :
              /\ rep' = [rep EXCEPT ![c] = [ev |-> ev, left |-> sources[c]]]
              /\ events' = [events EXCEPT ![c] = IF Shared(c) THEN Append(@, ev) ELSE @]
        BY <2>2 DEF Report
      <3>2. events' \in [Components -> Seq(Runtime)]
        <4>1. events[c] \in Seq(Runtime)
          BY DEF SInv, STypes
        <4>2. Append(events[c], ev) \in Seq(Runtime)
          BY <4>1
        <4> QED BY <3>1, <4>1, <4>2 DEF SInv, STypes
      <3>3. sources[c] \in SUBSET Nodes
        BY DEF IInv, TInv
      <3>4. rep' \in [Components -> [ev : Runtime, left : SUBSET Nodes] \cup {None}]
        BY <3>1, <3>3 DEF SInv, STypes
      <3>5. reports' \in 0..MaxReports
        BY <2>2, CollectorAssumption DEF Report, SInv, STypes
      <3> QED BY <1>1, <3>1, <3>2, <3>4, <3>5 DEF SInv, STypes, serviceVars, callerVars
    <2> QED BY <2>1, <2>2
  <1>3. Reports'
    <2>1. \/ rep'[c] = None
          \/ comp[c] = "up" /\ rep'[c].left = sources[c]
      <3>1. CASE ReportEnd(c)
        BY <3>1 DEF ReportEnd, SInv, STypes
      <3>2. CASE Report(c)
        <4>1. PICK ev \in Runtime : rep' = [rep EXCEPT ![c] = [ev |-> ev, left |-> sources[c]]]
          BY <3>2 DEF Report
        <4>2. rep'[c].left = sources[c]
          BY <4>1 DEF SInv, STypes
        <4> QED BY <3>2, <4>2 DEF Report
      <3> QED BY <3>1, <3>2
    <2> QED BY <1>1, <1>2, <2>1 DEF SInv, Reports, serviceVars
  <1>4. \A n \in Nodes : Expected(n)' = Expected(n)
    BY <1>1 DEF Expected, Stopping, serviceVars
  <1> QED BY <1>1, <1>2, <1>3, <1>4 DEF SInv, Shown

\* A report reaches a node that runs, or one that is stopping, which is then troubled.
LEMMA ReportNodeShown ==
  ASSUME IInv, SInv, NEW c \in Components, ReportNode(c)
  PROVE  SInv'
  <1>0. PICK ev, left : ev = rep[c].ev /\ left = rep[c].left
    OBVIOUS
  <1>1. PICK n \in left :
          /\ status' = Told(status, {n}, ev)
          /\ mu' \in {c, Free}
          /\ troubled' = troubled \cup IF status[n] = "Stopping" /\ ev # "OK" THEN {n} ELSE {}
          /\ rep' = [rep EXCEPT ![c].left = @ \ {n}]
    BY <1>0 DEF ReportNode
  <1>2. /\ rep[c] # None
        /\ UNCHANGED <<state, run, then, reloads, serviceVars, sources, events, fatal, reports,
                       callerVars>>
    BY DEF ReportNode
  <1>3. rep[c] \in [ev : Runtime, left : SUBSET Nodes] /\ ev \in Runtime /\ left \in SUBSET Nodes
    BY <1>0, <1>2 DEF SInv, STypes
  <1>4. /\ left \subseteq sources[c] /\ comp[c] \notin {"new", "down"} /\ n \in sources[c]
        /\ n \in Nodes /\ CompOf[n] = c
    BY <1>0, <1>1, <1>2, <1>3 DEF SInv, Reports, NodesOf
  <1>5. /\ rep'[c] \in [ev : Runtime, left : SUBSET Nodes] /\ rep'[c].left = left \ {n}
        /\ \A d \in Components \ {c} : rep'[d] = rep[d]
        /\ rep' \in [Components -> [ev : Runtime, left : SUBSET Nodes] \cup {None}]
    <2>1. rep' = [rep EXCEPT ![c] = [rep[c] EXCEPT !.left = left \ {n}]]
      BY <1>0, <1>1
    <2>2. PICK r : r = [rep[c] EXCEPT !.left = left \ {n}]
      OBVIOUS
    <2>3. r \in [ev : Runtime, left : SUBSET Nodes] /\ r.left = left \ {n}
      BY <1>3, <2>2
    <2> QED BY <2>1, <2>2, <2>3 DEF SInv, STypes
  <1>6. STypes'
    <2>1. ev \in Statuses
      BY <1>3 DEF Statuses
    <2>2. status' \in [Nodes -> Statuses]
      BY <1>1, <2>1, ToldTypes DEF SInv
    <2> QED BY <1>1, <1>2, <1>4, <1>5, <2>2 DEF SInv, STypes, serviceVars, callerVars
  <1>7. Reports'
    BY <1>2, <1>4, <1>5 DEF SInv, Reports, serviceVars
  <1>8. Shown'
    <2> SUFFICES ASSUME NEW m \in Nodes, m \notin troubled' PROVE status'[m] \in Expected(m)'
      BY DEF Shown
    <2>1. Expected(m)' = Expected(m) /\ status[m] \in Expected(m)
      BY <1>1, <1>2 DEF Expected, Stopping, serviceVars, SInv, Shown
    <2>2. status'[m] = IF m = n THEN transition(status[m], ev) ELSE status[m]
      BY <1>1, ToldOne DEF SInv
    <2>3. CASE m # n
      BY <2>1, <2>2, <2>3
    <2>4. CASE m = n /\ Stopping(c)
      <3>1. Expected(m) = {"Stopping", "FatalError"}
        BY <1>4, <2>4 DEF Expected
      <3>2. status[m] = "FatalError" \/ (status[m] = "Stopping" /\ ev = "OK")
        BY <1>1, <2>1, <2>4, <3>1
      <3> QED BY <1>3, <2>1, <2>2, <2>4, <3>1, <3>2, StoppingTransitions
    <2>5. CASE m = n /\ ~Stopping(c)
      <3>1. Expected(m) = Runtime \cup {"Starting"}
        BY <1>4, <2>5 DEF Expected
      <3> QED BY <1>3, <2>1, <2>2, <2>5, <3>1, RuntimeStays
    <2> QED BY <2>3, <2>4, <2>5
  <1> QED BY <1>6, <1>7, <1>8 DEF SInv

-----------------------------------------------------------------------------
\* A node that is told to stop and was not told before has a component that is
\* not down.
LEMMA FirstStopNotDown ==
  ASSUME IInv, NEW n \in todo, run = "stop", FirstStop(n)
  PROVE  comp[CompOf[n]] # "down"
  <1> SUFFICES ASSUME comp[CompOf[n]] = "down" PROVE FALSE
    OBVIOUS
  <1>1. n \in Nodes /\ CompOf[n] \in Components
    BY CompInComponents DEF IInv, TInv
  <1>2. PICK m \in Nodes \ todo : CompOf[m] = CompOf[n]
    BY <1>1 DEF IInv, StoppedOnce
  <1>3. Shared(CompOf[n])
    BY <1>1, <1>2, TwoNodesShare
  <1> QED BY <1>3 DEF FirstStop

\* Stopping reaches the node, and all nodes of a shared component the first time.
LEMMA StopBeginShown ==
  ASSUME IInv, SInv, NEW n \in Nodes, StopBegin(n)
  PROVE  SInv'
  <1>0. PICK c, told : /\ c = CompOf[n]
                       /\ told = IF FirstStop(n) THEN {n} \cup sources[c] ELSE {n}
    OBVIOUS
  <1>1. /\ run = "stop" /\ cur = None /\ n \in todo /\ cur' = n
        /\ status' = Told(status, told, "Stopping")
        /\ UNCHANGED <<state, run, then, reloads, errs, comp, ready, mu, rep, sources, events,
                       troubled, fatal, reports, callerVars>>
    BY <1>0 DEF StopBegin
  <1>2. c \in Components /\ n # None /\ "Stopping" \in Statuses
    BY <1>0, CompInComponents, CollectorAssumption DEF Statuses
  <1>3. STypes' /\ Reports'
    BY <1>1, <1>2, ToldTypes DEF SInv, STypes, Reports, callerVars
  <1>4. (FirstStop(n) => comp[c] # "down") /\ (~FirstStop(n) => comp[c] = "down")
    BY <1>0, <1>1, FirstStopNotDown DEF FirstStop
  <1>5. Shown'
    <2> SUFFICES ASSUME NEW m \in Nodes, m \notin troubled' PROVE status'[m] \in Expected(m)'
      BY DEF Shown
    <2>1. /\ CompOf[m] \in Components /\ ~Stopping(CompOf[m])
          /\ Stopping(CompOf[m])' <=> CompOf[m] = c
      BY <1>0, <1>1, <1>2, CompInComponents DEF Stopping
    <2>2. status[m] \in Expected(m)
      BY <1>1 DEF SInv, Shown
    <2>3. status'[m] = IF m \in told THEN transition(status[m], "Stopping") ELSE status[m]
      BY <1>1, ToldOne DEF SInv
    <2>4. CASE m \notin sources[CompOf[m]]
      <3>1. status[m] = "None" /\ Expected(m)' = {"None"}
        BY <1>1, <2>2, <2>4 DEF Expected
      <3> QED BY <2>3, <3>1, StoppingTransitions
    <2>5. CASE m \in sources[CompOf[m]] /\ comp[CompOf[m]] = "down"
      <3>1. status[m] \in {"Stopped", "FatalError"} /\ Expected(m)' = {"Stopped", "FatalError"}
        BY <1>1, <2>2, <2>5 DEF Expected
      <3> QED BY <2>3, <3>1, StoppingTransitions
    <2>6. CASE m \in sources[CompOf[m]] /\ comp[CompOf[m]] # "down"
      <3>1. status[m] \in Runtime \cup {"Starting"}
        BY <2>1, <2>2, <2>6 DEF Expected
      <3>2. CASE CompOf[m] = c
        <4>1. m \in told
          BY <1>0, <1>4, <2>6, <3>2
        <4>2. Expected(m)' = {"Stopping", "FatalError"}
          BY <1>1, <2>1, <2>6, <3>2 DEF Expected
        <4> QED BY <2>3, <3>1, <4>1, <4>2, StoppingTransitions
      <3>3. CASE CompOf[m] # c
        <4>1. m \notin told
          BY <1>0, <1>2, <3>3 DEF SInv, Reports, NodesOf
        <4>2. Expected(m)' = Runtime \cup {"Starting"}
          BY <1>1, <2>1, <2>6, <3>3 DEF Expected
        <4> QED BY <2>3, <3>1, <4>1, <4>2
      <3> QED BY <3>2, <3>3
    <2> QED BY <2>4, <2>5, <2>6
  <1> QED BY <1>3, <1>5 DEF SInv

\* Stopped, or the error of Shutdown, reaches the same nodes as Stopping did.
LEMMA StopEndShown ==
  ASSUME IInv, SInv, NEW n \in Nodes, StopEnd(n)
  PROVE  SInv'
  <1>0. PICK c, told : /\ c = CompOf[n]
                       /\ told = IF FirstStop(n) THEN {n} \cup sources[c] ELSE {n}
    OBVIOUS
  <1>1. PICK failed \in BOOLEAN :
          /\ failed => FirstStop(n)
          /\ status' = Told(status, told, IF failed THEN "PermanentError" ELSE "Stopped")
          /\ troubled' = troubled \cup IF failed THEN told ELSE {}
          /\ errs' = (errs \/ failed)
    BY <1>0 DEF StopEnd
  <1>2. /\ run = "stop" /\ cur = n /\ cur' = None /\ comp' = [comp EXCEPT ![c] = "down"]
        /\ rep[c] = None
        /\ UNCHANGED <<state, run, then, reloads, ready, mu, rep, sources, events,
                       fatal, reports, callerVars>>
    BY <1>0 DEF StopEnd
  <1>3. c \in Components /\ n # None /\ n \in todo
    BY <1>0, <1>2, CompInComponents, CollectorAssumption DEF IInv, TInv
  <1>4. (FirstStop(n) => comp[c] # "down") /\ (~FirstStop(n) => comp[c] = "down")
    BY <1>0, <1>2, <1>3, FirstStopNotDown DEF FirstStop
  <1>5. told \subseteq Nodes
    BY <1>0, <1>3 DEF IInv, TInv
  <1>6. STypes'
    <2>1. status' \in [Nodes -> Statuses]
      <3>1. (IF failed THEN "PermanentError" ELSE "Stopped") \in Statuses
        BY DEF Statuses, Runtime
      <3> QED BY <1>1, <3>1, ToldTypes DEF SInv
    <2>2. errs' \in BOOLEAN
      BY <1>1 DEF SInv, STypes
    <2>3. troubled' \subseteq Nodes
      BY <1>1, <1>5 DEF SInv, STypes
    <2> QED BY <1>2, <2>1, <2>2, <2>3 DEF SInv, STypes, callerVars
  <1>7. Reports'
    BY <1>2, <1>3 DEF IInv, TInv, SInv, Reports
  <1>8. Shown'
    <2> SUFFICES ASSUME NEW m \in Nodes, m \notin troubled' PROVE status'[m] \in Expected(m)'
      BY DEF Shown
    <2>1. /\ CompOf[m] \in Components /\ ~Stopping(CompOf[m])'
          /\ Stopping(CompOf[m]) <=> CompOf[m] = c
      BY <1>0, <1>2, <1>3, CompInComponents DEF Stopping
    <2>2. status[m] \in Expected(m) /\ ~(failed /\ m \in told)
      BY <1>1 DEF SInv, Shown
    <2>3. status'[m] = IF m \in told THEN transition(status[m], "Stopped") ELSE status[m]
      BY <1>1, <2>2, ToldOne DEF SInv
    <2>4. /\ CompOf[m] = c => comp'[CompOf[m]] = "down"
          /\ CompOf[m] # c => comp'[CompOf[m]] = comp[CompOf[m]]
      BY <1>2, <1>3, <2>1 DEF IInv, TInv
    <2>5. CASE m \notin sources[CompOf[m]]
      <3>1. status[m] = "None" /\ Expected(m)' = {"None"}
        BY <1>2, <2>2, <2>5 DEF Expected
      <3> QED BY <2>3, <3>1, StoppingTransitions
    <2>6. CASE m \in sources[CompOf[m]] /\ comp[CompOf[m]] = "down"
      <3>1. status[m] \in {"Stopped", "FatalError"}
        BY <2>2, <2>6 DEF Expected
      <3>2. Expected(m)' = {"Stopped", "FatalError"}
        BY <1>2, <2>4, <2>6 DEF Expected
      <3> QED BY <2>3, <3>1, <3>2, StoppingTransitions
    <2>7. CASE m \in sources[CompOf[m]] /\ comp[CompOf[m]] # "down" /\ CompOf[m] = c
      <3>1. m \in told
        BY <1>0, <1>4, <2>7
      <3>2. status[m] \in {"Stopping", "FatalError"}
        BY <2>1, <2>2, <2>7 DEF Expected
      <3>3. Expected(m)' = {"Stopped", "FatalError"}
        BY <1>2, <2>4, <2>7 DEF Expected
      <3> QED BY <2>3, <3>1, <3>2, <3>3, StoppingTransitions
    <2>8. CASE m \in sources[CompOf[m]] /\ comp[CompOf[m]] # "down" /\ CompOf[m] # c
      <3>1. m \notin told
        BY <1>0, <1>3, <2>8 DEF SInv, Reports, NodesOf
      <3>2. Expected(m)' = Expected(m)
        BY <1>2, <2>1, <2>4, <2>8 DEF Expected
      <3> QED BY <2>2, <2>3, <3>1, <3>2
    <2> QED BY <2>5, <2>6, <2>7, <2>8
  <1> QED BY <1>6, <1>7, <1>8 DEF SInv

-----------------------------------------------------------------------------
\* The steps of Run and of its callers that neither start nor stop a node.
LEMMA RunMovesShown ==
  ASSUME IInv, SInv,
         \/ RunBegin \/ RunCheck \/ SetupFails \/ Stopped \/ Started
         \/ NotifyFails \/ LoopBreak \/ LoopAsyncError \/ Reload
         \/ \E s \in Callers : ShutdownCall(s) \/ ShutdownReturns(s)
  PROVE  SInv'
  <1>1. STypes'
    <2> USE DEF SInv, STypes, serviceVars, statusVars, callerVars
    <2>1. CASE RunBegin \/ RunCheck \/ SetupFails
      BY <2>1 DEF RunBegin, RunCheck, SetupFails
    <2>2. CASE Stopped \/ Started
      BY <2>2 DEF Stopped, Started
    <2>3. CASE NotifyFails \/ LoopBreak
      BY <2>3 DEF NotifyFails, LoopBreak, BeginShutdown
    <2>4. CASE LoopAsyncError
      BY <2>4 DEF LoopAsyncError, BeginShutdown
    <2>5. CASE Reload
      <3>1. reloads \in 0..MaxReloads /\ MaxReloads \in Nat
        BY CollectorAssumption DEF CollectorAssumption
      <3>2. reloads' \in 0..MaxReloads
        BY <2>5, <3>1 DEF Reload
      <3> HIDE DEF SInv
      <3>3. /\ state' = "Closing" /\ then' = "reload" /\ errs' = FALSE /\ ready' = FALSE
            /\ UNCHANGED <<statusVars, callerVars>>
        BY <2>5 DEF Reload, BeginShutdown
      <3>4. STypes
        BY DEF SInv
      <3> QED BY <3>2, <3>3, <3>4
    <2>6. CASE \E s \in Callers : ShutdownCall(s) \/ ShutdownReturns(s)
      BY <2>6 DEF ShutdownCall, ShutdownReturns
    <2> QED BY <2>1, <2>2, <2>3, <2>4, <2>5, <2>6
  <1>2. UNCHANGED <<comp, status, sources, rep, troubled>>
    BY DEF RunBegin, RunCheck, SetupFails, Stopped, Started, NotifyFails, LoopBreak,
      LoopAsyncError, Reload, ShutdownCall, ShutdownReturns, serviceVars, statusVars
  <1>3. \/ (cur = None \/ run # "stop") /\ (cur' = None \/ run' # "stop")
        \/ UNCHANGED <<cur, run>>
    BY DEF RunBegin, RunCheck, SetupFails, Stopped, Started, NotifyFails, LoopBreak,
      LoopAsyncError, Reload, ShutdownCall, ShutdownReturns, BeginShutdown, serviceVars
  <1>4. CASE UNCHANGED <<cur, run>>
    <2>1. \A n \in Nodes : Expected(n)' = Expected(n)
      BY <1>2, <1>4 DEF Expected, Stopping
    <2> QED BY <1>1, <1>2, <2>1 DEF SInv, Reports, Shown
  <1>5. CASE (cur = None \/ run # "stop") /\ (cur' = None \/ run' # "stop")
    BY <1>1, <1>2, <1>5, QuietShown DEF SInv
  <1> QED BY <1>3, <1>4, <1>5

\* A new reporter has no status for any node.
LEMMA SetupNewShown ==
  ASSUME IInv, SInv, SetupNew
  PROVE  SInv'
  <1>1. STypes'
    <2>1. /\ rep' \in [Components -> [ev : Runtime, left : SUBSET Nodes] \cup {None}]
          /\ events' \in [Components -> Seq(Runtime)] /\ status' \in [Nodes -> Statuses]
      BY DEF SetupNew, Statuses
    <2> QED BY <2>1 DEF SetupNew, SInv, STypes, callerVars
  <1>2. Reports' /\ Shown'
    BY CompInComponents DEF SetupNew, Reports, Shown, Expected
  <1> QED BY <1>1, <1>2 DEF SInv

\* Every step of the collector preserves what the reporter shows.
LEMMA ShownStep == IInv /\ SInv /\ [Next]_vars => SInv'
  <1> SUFFICES ASSUME IInv, SInv, [Next]_vars PROVE SInv'
    OBVIOUS
  <1>1. CASE \/ RunBegin \/ RunCheck \/ SetupFails \/ Stopped \/ Started
             \/ NotifyFails \/ LoopBreak \/ LoopAsyncError \/ Reload
             \/ \E s \in Callers : ShutdownCall(s) \/ ShutdownReturns(s)
    BY <1>1, RunMovesShown
  <1>2. CASE SetupNew
    BY <1>2, SetupNewShown
  <1>3. ASSUME NEW n \in Nodes, StartBegin(n) \/ StartOk(n) \/ StartFails(n)
        PROVE  SInv'
    BY <1>3, StartBeginShown, StartOkShown, StartFailsShown
  <1>4. ASSUME NEW n \in Nodes, StopBegin(n) \/ StopEnd(n)
        PROVE  SInv'
    BY <1>4, StopBeginShown, StopEndShown
  <1>5. ASSUME NEW c \in Components, Report(c) \/ ReporterStep(c)
        PROVE  SInv'
    BY <1>5, ReportShown, ReportNodeShown DEF ReporterStep
  <1>6. CASE Done \/ UNCHANGED vars
    BY <1>6 DEF Done, vars, serviceVars, statusVars, callerVars, SInv, STypes, Reports, Shown,
      Expected, Stopping
  <1> QED BY <1>1, <1>2, <1>3, <1>4, <1>5, <1>6 DEF Next, RunStep

\* When Run has returned the reporter shows every node that was started as
\* Stopped, or as fatal, or an error it had while stopping: for every graph,
\* any sharing of receivers and any reports in between.  With all types.
THEOREM CollectorStatusEndsStopped == Spec => []StatusEndsStopped
  <1>1. Init => SInv
    <2> SUFFICES ASSUME Init PROVE SInv
      OBVIOUS
    <2>1. STypes
      <3>1. /\ rep \in [Components -> [ev : Runtime, left : SUBSET Nodes] \cup {None}]
            /\ events \in [Components -> Seq(Runtime)] /\ status \in [Nodes -> Statuses]
        BY DEF Init, Statuses
      <3>2. reports \in 0..MaxReports /\ reloads \in 0..MaxReloads
        BY CollectorAssumption DEF Init
      <3> QED BY <3>1, <3>2 DEF Init, STypes
    <2>2. Reports /\ Shown
      BY CompInComponents DEF Init, Reports, Shown, Expected
    <2> QED BY <2>1, <2>2 DEF SInv
  <1>2. IInv /\ SInv => StatusEndsStopped
    <2> SUFFICES ASSUME IInv, SInv PROVE StatusEndsStopped
      OBVIOUS
    <2>1. TypeOK
      BY DEF IInv, TInv, SInv, STypes, Reports, TypeOK
    <2>2. ASSUME run = "done", NEW n \in Nodes
          PROVE  status[n] \in {"None", "Stopped", "FatalError"} \/ n \in troubled
      <3>1. CompOf[n] \in Components
        BY CompInComponents
      <3>2. comp[CompOf[n]] = "down" \/ sources[CompOf[n]] = {}
        BY <2>2, <3>1 DEF IInv, Phases, SInv, Reports
      <3> QED BY <3>2 DEF SInv, Shown, Expected
    <2> QED BY <2>1, <2>2 DEF StatusEndsStopped
  <1> QED BY <1>1, <1>2, ShownStep, CollectorInvariant, PTL DEF Spec
=============================================================================
