-------------------------- MODULE MemoryQueueProofs --------------------------
(***************************************************************************)
(* Whatever the queue does with its mutex and its hasMoreSpace cond is a   *)
(* step of Cond, by the way the actions are written; StepRefinesCond makes *)
(* that available to the lemmas on the cond.                               *)
(*                                                                         *)
(* The safety properties follow from one inductive invariant, IInv:        *)
(* what queue, producers and consumers hold (Data, about the elements, the *)
(* pooled blockingDone objects and the reserved sizes), the state of the   *)
(* cond (CondOK), who is owed a wakeup (NoLostWakeup), what a free place   *)
(* is taken up by when requests have one size (Uniform,                    *)
(* FreePlaceIsOffered) and how far the shutdown has come (Stopping).  Each *)
(* action has a lemma of its own for Data; the other parts have one lemma  *)
(* each.                                                                   *)
(***************************************************************************)
EXTENDS MemoryQueue, Totals

\* The assumption of Cond, for the goroutines of the queue.
LEMMA QueueGoroutines ==
  /\ IsFiniteSet(Goroutines)
  /\ Cancellable \subseteq Goroutines
  /\ Free \notin Goroutines
  <1>1. IsFiniteSet({Stopper})
    BY FS_Singleton, Zenon
  <1>2. IsFiniteSet(Goroutines)
    BY <1>1, QueueAssumption, FS_Union DEF Goroutines
  <1> QED BY <1>2, QueueAssumption DEF Goroutines

\* Each step of the queue is a step of the cond, or does not touch it.
LEMMA StepRefinesCond == [Next]_vars => [C!Next]_(C!vars)
  <1> SUFFICES ASSUME [Next]_vars PROVE [C!Next]_(C!vars)
    OBVIOUS
  <1> DEFINE Touches == \E g \in Goroutines : C!Step(g)
  <1>1. ASSUME NEW p \in Producers, Producer(p) PROVE Touches \/ UNCHANGED condVars
    <2>1. p \in Goroutines
      BY DEF Goroutines
    <2>2. C!Step(p) \/ UNCHANGED condVars
      BY <1>1 DEF Producer, OfferRefused, OfferBegin, AddLock, AddFull, AddWait, AddWoken,
        AddCtxDone, AddCtxRelock, AddCancelled, AddPush, AwaitResult, AwaitCtxDone,
        ReturnError, C!Step
    <2> QED BY <2>1, <2>2
  <1>2. ASSUME NEW c \in Consumers, Consumer(c) PROVE Touches \/ UNCHANGED condVars
    <2>1. c \in Goroutines
      BY DEF Goroutines
    <2>2. C!Step(c) \/ UNCHANGED condVars
      BY <1>2 DEF Consumer, ReadLock, ReadPop, ReadStopped, ReadPark, OnDoneLock,
        OnDoneRelease, OnDoneSend, OnDoneFinish, C!Step
    <2> QED BY <2>1, <2>2
  <1>3. ASSUME Shutdown PROVE Touches \/ UNCHANGED condVars
    <2>1. Stopper \in Goroutines
      BY DEF Goroutines
    <2>2. C!Step(Stopper) \/ UNCHANGED condVars
      BY <1>3 DEF Shutdown, ShutdownLock, ShutdownStop, ShutdownReturns, C!Step
    <2> QED BY <2>1, <2>2
  <1>4. CASE UNCHANGED vars
    BY <1>4 DEF vars, condVars, C!vars
  <1>5. CASE Next
    BY <1>1, <1>2, <1>3, <1>5 DEF Next, condVars, C!Next, C!vars
  <1> QED BY <1>4, <1>5

-----------------------------------------------------------------------------
(* The inductive invariant *)

\* The positions in which a consumer holds a node, and a producer an element
\* that is not queued yet.
Busy(c) == cpc[c] \in {"consume", "signal"}
Asking(p) == ppc[p] \in {"add", "cancelled"}

\* The types of what the queue, the producers and the consumers hold.
Types ==
  /\ items \in Seq(Nodes)
  /\ size \in Int
  /\ stopped \in BOOLEAN
  /\ waitForResult \in BOOLEAN /\ blockOnOverflow \in BOOLEAN
  /\ allocated \in Nat /\ pool \subseteq 1..allocated
  /\ result \in [Dones -> Elements \cup {None}]
  /\ refs \in [Elements -> Int]
  /\ ppc \in [Producers -> {"idle", "add", "cancelled", "await"}]
  /\ offer \in [Producers -> Offered \cup {None}]
  /\ offers \in [Producers -> 0..MaxOffers]
  /\ cpc \in [Consumers -> {"read", "parked", "consume", "signal", "exit"}]
  /\ cur \in [Consumers -> Nodes \cup {None}]
  /\ late \subseteq Elements
  /\ sd \in {"running", "stopping", "draining", "done"}

\* A goroutine holds what its position says.  The current element of a
\* producer is that of its latest offer.
Roles ==
  /\ \A p \in Producers : ppc[p] # "idle" =>
       /\ offer[p] # None
       /\ offer[p].el.p = p /\ offer[p].el.n = offers[p]
  /\ \A c \in Consumers : cur[c] # None <=> Busy(c)

\* Every queued or held element comes from an offer that was made.
Fresh ==
  /\ \A i \in DOMAIN items : items[i].el.n <= offers[items[i].el.p]
  /\ \A c \in Consumers : Busy(c) => cur[c].el.n <= offers[cur[c].el.p]

Apart(m, n) == m.el # n.el /\ m.bd # n.bd

\* No element and no blockingDone is in two places.
Unique ==
  /\ \A i, j \in DOMAIN items : i # j => Apart(items[i], items[j])
  /\ \A i \in DOMAIN items, c \in Consumers : Busy(c) => Apart(items[i], cur[c])
  /\ \A c, d \in Consumers : c # d /\ Busy(c) /\ Busy(d) => Apart(cur[c], cur[d])
  /\ \A p \in Producers, i \in DOMAIN items : Asking(p) => items[i].el # offer[p].el
  /\ \A p \in Producers, c \in Consumers : Asking(p) /\ Busy(c) => cur[c].el # offer[p].el

\* blockingDone objects that are in use.
Taken == (1..allocated) \ pool

\* A blockingDone belongs to the queue and the consumers until its result is
\* there, then to the producer that waits for it or to nobody.
Owned ==
  /\ \A i \in DOMAIN items : items[i].bd \in Taken
  /\ \A c \in Consumers : Busy(c) => cur[c].bd \in Taken
  /\ \A b \in Dones : result[b] # None =>
       /\ b \in Taken
       /\ \A i \in DOMAIN items : items[i].bd # b
       /\ \A c \in Consumers : Busy(c) => cur[c].bd # b
  /\ \A p, q \in Producers : p # q /\ ppc[p] = "await" /\ ppc[q] = "await" =>
       offer[p].bd # offer[q].bd
  /\ \A p \in Producers : ppc[p] = "await" =>
       /\ waitForResult
       /\ offer[p].bd \in Taken
       /\ \/ result[offer[p].bd] = offer[p].el
          \/ \E i \in DOMAIN items : items[i] = offer[p]
          \/ \E c \in Consumers : Busy(c) /\ cur[c] = offer[p]

\* The offers that went into the queue or were given up.
Settled ==
  {o \in Producers \X (1..MaxOffers) :
     o[2] <= offers[o[1]] /\ (Asking(o[1]) => o[2] # offers[o[1]])}

\* New is called at most once for each of them.
Allocation == allocated <= Cardinality(Settled)

\* The elements whose size is reserved.
Reserved == {items[i].el : i \in DOMAIN items} \cup {cur[c].el : c \in Exporting}

\* A goroutine is only at the receive of the ctx branch when waiting is 0, and
\* only in Broadcast while somebody waits.
Committed ==
  \A g \in Goroutines :
    /\ at[g] = "drain" => waiting = 0
    /\ at[g] = "bcast" => waiting > 0

\* The consumers leave a queue that is stopped and empty; what is added then
\* is late.
Stopping ==
  /\ stopped <=> sd \in {"draining", "done"}
  /\ \A c \in Consumers : cpc[c] = "exit" =>
       stopped /\ \A i \in DOMAIN items : items[i].el \in late
  /\ sd = "done" => \A c \in Consumers : cpc[c] = "exit"

\* When requests have one size, what is offered, queued or exported has it.
Uniform ==
  /\ unit \in Fitting \cup {None}
  /\ unit # None =>
       /\ \A p \in Producers : Asking(p) => offer[p].el.size = unit
       /\ \A i \in DOMAIN items : items[i].el.size = unit
       /\ \A c \in Consumers : Busy(c) => cur[c].el.size = unit

CondOK == C!TypeOK /\ C!MutualExclusion /\ Committed

-----------------------------------------------------------------------------
(* The mutex and hasMoreSpace *)

\* A step keeps the cond's types, its mutual exclusion and what its goroutines
\* have committed to.
LEMMA CondStep ==
  ASSUME CondOK, NEW g \in Goroutines, C!Step(g)
  PROVE  CondOK'
  <1> USE DEF CondOK
  <1>a. g # Free /\ Free \notin Goroutines
    BY QueueGoroutines
  <1>1. C!TypeOK' /\ C!MutualExclusion'
    <2>1. CASE C!Lock(g)
      BY <2>1, <1>a DEF C!Lock, C!TypeOK, C!MutualExclusion, C!Holding, C!Positions
    <2>2. CASE C!Unlock(g)
      BY <2>2, <1>a DEF C!Unlock, C!TypeOK, C!MutualExclusion, C!Holding, C!Positions
    <2>3. CASE C!Signal(g)
      BY <2>3, <1>a DEF C!Signal, C!TypeOK, C!MutualExclusion, C!Holding, C!Positions
    <2>4. CASE C!Send(g)
      BY <2>4, <1>a DEF C!Send, C!TypeOK, C!MutualExclusion, C!Holding, C!Positions
    <2>5. CASE C!Broadcast(g) \/ C!BroadcastSend(g)
      BY <2>5, <1>a DEF C!Broadcast, C!BroadcastSend, C!TypeOK, C!MutualExclusion,
        C!Holding, C!Positions, Committed
    <2>6. CASE C!Wait(g)
      BY <2>6, <1>a DEF C!Wait, C!TypeOK, C!MutualExclusion, C!Holding, C!Positions
    <2>7. CASE C!CtxDone(g)
      BY <2>7, <1>a DEF C!CtxDone, C!TypeOK, C!MutualExclusion, C!Holding, C!Positions
    <2>8. CASE C!CtxRelock(g)
      BY <2>8, <1>a DEF C!CtxRelock, C!TypeOK, C!MutualExclusion, C!Holding, C!Positions
    <2>9. CASE C!Drain(g) \/ C!Receive(g)
      BY <2>9, <1>a DEF C!Drain, C!Receive, C!TypeOK, C!MutualExclusion, C!Holding, C!Positions
    <2>10. CASE C!Relock(g)
      BY <2>10, <1>a DEF C!Relock, C!TypeOK, C!MutualExclusion, C!Holding, C!Positions
    <2> QED BY <2>1, <2>2, <2>3, <2>4, <2>5, <2>6, <2>7, <2>8, <2>9, <2>10 DEF C!Step
  <1>2. Committed'
    <2> SUFFICES ASSUME NEW h \in Goroutines
                 PROVE  /\ at'[h] = "drain" => waiting' = 0
                        /\ at'[h] = "bcast" => waiting' > 0
      BY DEF Committed
    <2>1. CASE C!Lock(g) \/ C!Unlock(g) \/ C!Send(g) \/ C!CtxDone(g) \/ C!Receive(g)
               \/ C!Relock(g) \/ C!Drain(g)
      BY <2>1 DEF C!Lock, C!Unlock, C!Send, C!CtxDone, C!Receive, C!Relock, C!Drain,
        Committed, C!TypeOK
    <2>2. CASE C!Signal(g) \/ C!Broadcast(g) \/ C!BroadcastSend(g) \/ C!Wait(g)
      <3>1. h # g => at[h] \notin C!Holding
        BY <2>2 DEF C!Signal, C!Broadcast, C!BroadcastSend, C!Wait, C!Holding, C!MutualExclusion
      <3> QED BY <2>2, <3>1 DEF C!Signal, C!Broadcast, C!BroadcastSend, C!Wait, Committed,
        C!TypeOK, C!Holding
    <2>3. CASE C!CtxRelock(g)
      <3>1. at[h] \notin C!Holding
        BY <2>3, QueueGoroutines DEF C!CtxRelock, C!MutualExclusion
      <3> QED BY <2>3, <3>1 DEF C!CtxRelock, Committed, C!TypeOK, C!Holding
    <2> QED BY <2>1, <2>2, <2>3 DEF C!Step
  <1> QED BY <1>1, <1>2

\* CondOK is inductive.
LEMMA CondInvariant == CondOK /\ [Next]_vars => CondOK'
  <1> SUFFICES ASSUME CondOK, [Next]_vars PROVE CondOK'
    OBVIOUS
  <1>1. CASE C!Next
    BY <1>1, CondStep DEF C!Next
  <1>2. CASE UNCHANGED C!vars
    BY <1>2 DEF C!vars, CondOK, C!TypeOK, C!MutualExclusion, Committed
  <1> QED BY <1>1, <1>2, StepRefinesCond

-----------------------------------------------------------------------------
(* blockingDone objects *)

\* There are never more of them than Dones can number.
LEMMA DonesSuffice ==
  ASSUME NEW S \in SUBSET (Producers \X (1..MaxOffers)), NEW n \in Nat, n <= Cardinality(S)
  PROVE  1..n \subseteq Dones
  <1> DEFINE all == Producers \X (1..MaxOffers)
  <1>1. IsFiniteSet(1..MaxOffers) /\ Cardinality(1..MaxOffers) = MaxOffers
    BY FS_Interval, QueueAssumption
  <1>2. IsFiniteSet(all) /\ Cardinality(all) = Cardinality(Producers) * MaxOffers
    BY <1>1, FS_Product, QueueAssumption
  <1>3. S \in SUBSET all
    OBVIOUS
  <1> HIDE DEF all
  <1>4. IsFiniteSet(S) /\ Cardinality(S) <= Cardinality(all)
    BY <1>2, <1>3, FS_Subset
  <1>5. Cardinality(S) \in Nat /\ Cardinality(all) \in Nat
    BY <1>2, <1>4, FS_CardinalityType
  <1> DEFINE k == Cardinality(Producers) * MaxOffers
  <1>6. n <= k /\ k \in Nat
    BY <1>2, <1>4, <1>5
  <1>7. Dones = 1..k
    BY DEF Dones
  <1> HIDE DEF k
  <1> QED BY <1>6, <1>7

\* An offer that is settled stays so, and its number only grows.
LEMMA SettledGrows ==
  ASSUME Allocation, Settled \subseteq Settled', UNCHANGED allocated, allocated \in Nat
  PROVE  Allocation'
  <1>1. IsFiniteSet(Producers \X (1..MaxOffers))
    <2>1. IsFiniteSet(1..MaxOffers)
      BY FS_Interval, QueueAssumption
    <2> QED BY <2>1, FS_Product, QueueAssumption
  <1>2. IsFiniteSet(Settled') /\ IsFiniteSet(Settled)
    BY <1>1, FS_Subset DEF Settled
  <1>3. Cardinality(Settled) <= Cardinality(Settled')
    BY <1>2, FS_Subset
  <1>4. Cardinality(Settled) \in Nat /\ Cardinality(Settled') \in Nat
    BY <1>2, FS_CardinalityType
  <1> QED BY <1>3, <1>4 DEF Allocation

-----------------------------------------------------------------------------
(* Elements, nodes and sizes *)

\* What Sizeof returns for an element.
SizeOf == [e \in Elements |-> e.size]

\* mq.size is the total of the reserved sizes.
SizeIs ==
  /\ IsFiniteSet(Reserved)
  /\ size = Total(SizeOf, Reserved)
  /\ size <= Cap

Data == /\ Types /\ Roles /\ Fresh /\ Unique /\ Owned /\ Allocation /\ RefsBalanced /\ SizeIs

\* What an element is made of.
LEMMA ElementFields ==
  ASSUME NEW e \in Elements
  PROVE  /\ e.p \in Producers /\ e.n \in 1..MaxOffers
         /\ e.size \in Nat /\ 0 < e.size /\ e.size <= Cap
         /\ SizeOf[e] = e.size
  BY QueueAssumption DEF Elements, Fitting, SizeOf

\* A queue node is an offer that has its blockingDone, and is not nil.
LEMMA NodesAreOffered ==
  ASSUME NEW m \in Nodes
  PROVE  m \in Offered /\ m # None /\ m.el \in Elements /\ m.bd \in Dones
         /\ m = [el |-> m.el, bd |-> m.bd]
  BY NoneAssumption DEF Nodes, Offered

\* Only elements reserve a size.
LEMMA ReservedElements ==
  ASSUME Types, Roles
  PROVE  Reserved \subseteq Elements
  <1>1. \A i \in DOMAIN items : items[i] \in Nodes
    BY DEF Types
  <1>2. \A c \in Exporting : cur[c] \in Nodes
    BY DEF Types, Roles, Exporting, Busy
  <1> QED BY <1>1, <1>2, NodesAreOffered DEF Reserved

-----------------------------------------------------------------------------
(* The steps of Offer *)

\* Offer returns at once: the element is empty or larger than the queue.
LEMMA RefusedData ==
  ASSUME Data, NEW p \in Producers, OfferRefused(p)
  PROVE  Data'
  <1>1. /\ ppc[p] = "idle" /\ offers[p] < MaxOffers
        /\ offers' = [offers EXCEPT ![p] = @ + 1]
        /\ UNCHANGED <<waitForResult, blockOnOverflow, items, size, stopped, pool, allocated,
                       result, refs, late, ppc, offer, cpc, cur, sd>>
    BY DEF OfferRefused, confVars, queueVars, doneVars, consVars
  <1> USE DEF Data
  <1>2. Types'
    BY <1>1, QueueAssumption DEF Types
  <1>3. Roles'
    BY <1>1 DEF Types, Roles, Busy
  <1>4. \A q \in Producers : offers[q] <= offers'[q] /\ offers[q] \in Nat /\ offers'[q] \in Nat
    BY <1>1, QueueAssumption DEF Types
  <1>5. Fresh'
    <2>1. ASSUME NEW m \in Nodes, m.el.n <= offers[m.el.p] PROVE m.el.n <= offers'[m.el.p]
      BY <2>1, <1>4, NodesAreOffered, ElementFields
    <2>2. \A c \in Consumers : Busy(c) => cur[c] \in Nodes
      BY DEF Types, Roles
    <2>3. \A i \in DOMAIN items : items[i] \in Nodes
      BY DEF Types
    <2> QED BY <1>1, <2>1, <2>2, <2>3 DEF Fresh, Busy
  <1>6. Unique' /\ Owned'
    BY <1>1 DEF Unique, Owned, Busy, Asking, Taken
  <1>7. Allocation'
    <2>1. Settled \subseteq Settled'
      <3> SUFFICES ASSUME NEW o \in Settled PROVE o \in Settled'
        OBVIOUS
      <3>1. o[1] \in Producers /\ o[2] \in 1..MaxOffers
        BY DEF Settled
      <3> QED BY <1>1, <1>4, <3>1 DEF Settled, Asking, Types
    <2> QED BY <1>1, <2>1, SettledGrows DEF Types
  <1>8. RefsBalanced' /\ SizeIs'
    BY <1>1 DEF RefsBalanced, Live, SizeIs, Reserved, Exporting
  <1> QED BY <1>2, <1>3, <1>5, <1>6, <1>7, <1>8

\* Offer takes the reference of the next element and goes to add.
LEMMA BeginData ==
  ASSUME Data, NEW p \in Producers, OfferBegin(p)
  PROVE  Data'
  <1>1. PICK e \in Elements :
          /\ e.p = p /\ e.n = offers[p] + 1
          /\ refs' = [refs EXCEPT ![e] = @ + 1]
          /\ offer' = [offer EXCEPT ![p] = [el |-> e, bd |-> None]]
    BY DEF OfferBegin
  <1>2. /\ ppc[p] = "idle" /\ offers[p] < MaxOffers
        /\ offers' = [offers EXCEPT ![p] = @ + 1]
        /\ ppc' = [ppc EXCEPT ![p] = "add"]
        /\ UNCHANGED <<waitForResult, blockOnOverflow, items, size, stopped, pool, allocated,
                       result, late, cpc, cur, sd>>
    BY DEF OfferBegin, confVars, doneVars, consVars
  <1> USE DEF Data
  <1>3. [el |-> e, bd |-> None] \in Offered
    BY DEF Offered
  <1>4. Types'
    BY <1>1, <1>2, <1>3, QueueAssumption DEF Types
  <1>5. Roles'
    BY <1>1, <1>2, <1>3, NoneAssumption DEF Types, Roles, Busy
  <1>6. \A q \in Producers : offers[q] <= offers'[q] /\ offers[q] \in Nat /\ offers'[q] \in Nat
    BY <1>2, QueueAssumption DEF Types
  <1>7. \A i \in DOMAIN items : items[i] \in Nodes /\ items[i].el.n <= offers[items[i].el.p]
    BY DEF Types, Fresh
  <1>8. \A c \in Consumers : Busy(c) => cur[c] \in Nodes /\ cur[c].el.n <= offers[cur[c].el.p]
    BY DEF Types, Roles, Fresh
  <1>9. ASSUME NEW m \in Nodes, m.el.n <= offers[m.el.p]
        PROVE  m.el.n <= offers'[m.el.p] /\ m.el # e
    BY <1>1, <1>2, <1>9, <1>6, NodesAreOffered, ElementFields
  <1>10. Fresh'
    BY <1>2, <1>7, <1>8, <1>9 DEF Fresh, Busy
  <1>11. Unique'
    <2>1. \A q \in Producers : Asking(q)' => q = p \/ (Asking(q) /\ offer'[q] = offer[q])
      BY <1>1, <1>2 DEF Asking, Types
    <2>2. offer'[p].el = e
      BY <1>1 DEF Types
    <2>3. \A q \in Producers, i \in DOMAIN items : Asking(q)' => items[i].el # offer'[q].el
      BY <2>1, <2>2, <1>7, <1>9 DEF Unique
    <2>4. \A q \in Producers, c \in Consumers : Asking(q)' /\ Busy(c) => cur[c].el # offer'[q].el
      BY <2>1, <2>2, <1>8, <1>9 DEF Unique
    <2> QED BY <1>2, <2>3, <2>4 DEF Unique, Busy
  <1>12. Owned'
    <2>1. \A q \in Producers : ppc'[q] = "await" => ppc[q] = "await" /\ offer'[q] = offer[q]
      BY <1>1, <1>2 DEF Types
    <2> QED BY <1>2, <2>1 DEF Owned, Busy, Taken
  <1>13. Allocation'
    <2>1. Settled \subseteq Settled'
      <3> SUFFICES ASSUME NEW o \in Settled PROVE o \in Settled'
        OBVIOUS
      <3>1. o[1] \in Producers /\ o[2] \in 1..MaxOffers
        BY DEF Settled
      <3> QED BY <1>2, <1>6, <3>1 DEF Settled, Asking, Types
    <2> QED BY <1>2, <2>1, SettledGrows DEF Types
  <1>14. RefsBalanced'
    <2>1. ~Live(e)
      BY <1>1, <1>2, <1>7, <1>8, <1>9 DEF Live, Roles
    <2>2. ASSUME NEW x \in Elements PROVE Live(x)' <=> Live(x) \/ x = e
      <3>1. \A q \in Producers : Asking(q)' <=> q = p \/ Asking(q)
        BY <1>2 DEF Asking, Types
      <3>2. offer'[p].el = e /\ \A q \in Producers \ {p} : offer'[q] = offer[q]
        BY <1>1 DEF Types
      <3> QED BY <1>2, <3>1, <3>2 DEF Live, Asking
    <2> QED BY <1>1, <2>1, <2>2 DEF RefsBalanced, Types
  <1>15. SizeIs'
    BY <1>2 DEF SizeIs, Reserved, Exporting
  <1> QED BY <1>4, <1>5, <1>10, <1>11, <1>12, <1>13, <1>14, <1>15

\* add returns an error.
LEMMA ReturnData ==
  ASSUME Data, NEW p \in Producers, Asking(p), ReturnError(p)
  PROVE  Data'
  <1>1. PICK e \in Elements : e = offer[p].el /\ e.p = p /\ e.n = offers[p]
    BY DEF Data, Asking, Roles, Types, Offered
  <1>2. /\ refs' = [refs EXCEPT ![e] = @ - 1]
        /\ ppc' = [ppc EXCEPT ![p] = "idle"]
        /\ offer' = [offer EXCEPT ![p] = None]
        /\ UNCHANGED <<waitForResult, blockOnOverflow, items, size, stopped, pool, allocated,
                       result, late, offers, cpc, cur, sd>>
    BY <1>1 DEF ReturnError, confVars, doneVars, consVars
  <1> USE DEF Data
  <1>3. Types'
    BY <1>2 DEF Types
  <1>4. Roles' /\ Fresh'
    BY <1>2 DEF Roles, Fresh, Busy, Types
  <1>5. \A q \in Producers : ppc'[q] # "idle" => q # p /\ ppc'[q] = ppc[q] /\ offer'[q] = offer[q]
    BY <1>2 DEF Types
  <1>6. Unique' /\ Owned'
    BY <1>2, <1>5 DEF Unique, Owned, Busy, Asking, Taken
  <1>7. Allocation'
    <2>1. Settled \subseteq Settled'
      <3> SUFFICES ASSUME NEW o \in Settled PROVE o \in Settled'
        OBVIOUS
      <3>1. o[1] \in Producers /\ o[2] \in 1..MaxOffers
        BY DEF Settled
      <3> QED BY <1>2, <3>1 DEF Settled, Asking, Types
    <2> QED BY <1>2, <2>1, SettledGrows DEF Types
  <1>8. RefsBalanced'
    <2>1. Live(e)
      BY <1>1 DEF Live, Asking
    <2>2. ~Live(e)'
      <3>1. \A q \in Producers : Asking(q)' => offer'[q].el # e
        BY <1>1, <1>5 DEF Asking, Roles
      <3>2. (\A i \in DOMAIN items : items[i].el # e) /\ \A c \in Consumers : Busy(c) => cur[c].el # e
        BY <1>1 DEF Unique
      <3> QED BY <1>2, <3>1, <3>2 DEF Live, Asking, Roles
    <2>3. ASSUME NEW x \in Elements, x # e PROVE Live(x)' <=> Live(x)
      <3>1. \A q \in Producers : Asking(q)' <=> q # p /\ Asking(q)
        BY <1>2 DEF Asking, Types
      <3> QED BY <1>2, <1>1, <1>5, <2>3, <3>1 DEF Live, Asking
    <2> QED BY <1>2, <1>1, <2>1, <2>2, <2>3 DEF RefsBalanced, Types
  <1>9. SizeIs'
    BY <1>2 DEF SizeIs, Reserved, Exporting
  <1> QED BY <1>3, <1>4, <1>6, <1>7, <1>8, <1>9

\* The context of a waiting Offer is done.
LEMMA CtxDoneData ==
  ASSUME Data, NEW p \in Producers, AddCtxDone(p)
  PROVE  Data'
  <1>1. /\ ppc[p] = "add" /\ ppc' = [ppc EXCEPT ![p] = "cancelled"]
        /\ UNCHANGED <<waitForResult, blockOnOverflow, items, size, stopped, pool, allocated,
                       result, refs, late, offer, offers, cpc, cur, sd>>
    BY DEF AddCtxDone, confVars, queueVars, doneVars, consVars
  <1> USE DEF Data
  <1>2. Types'
    BY <1>1 DEF Types
  <1>3. \A q \in Producers : /\ Asking(q)' <=> Asking(q)
                             /\ ppc'[q] = "await" <=> ppc[q] = "await"
                             /\ ppc'[q] = "idle" <=> ppc[q] = "idle"
    BY <1>1 DEF Asking, Types
  <1>4. Roles' /\ Fresh'
    BY <1>1, <1>3 DEF Roles, Fresh, Busy
  <1>5. Unique' /\ Owned'
    BY <1>1, <1>3 DEF Unique, Owned, Busy, Taken
  <1>6. Allocation'
    <2>1. Settled' = Settled
      BY <1>1, <1>3 DEF Settled
    <2> QED BY <1>1, <2>1 DEF Allocation
  <1>7. RefsBalanced'
    <2>1. \A x \in Elements : Live(x)' <=> Live(x)
      BY <1>1, <1>3 DEF Live, Asking
    <2> QED BY <1>1, <2>1 DEF RefsBalanced
  <1>8. SizeIs'
    BY <1>1 DEF SizeIs, Reserved, Exporting
  <1> QED BY <1>2, <1>4, <1>5, <1>6, <1>7, <1>8

\* add queues the element, with a blockingDone nobody else uses.
LEMMA PushData ==
  ASSUME Data, NEW p \in Producers, AddPush(p)
  PROVE  Data'
  <1> USE DEF Data
  <1>1. PICK e \in Elements : e = offer[p].el /\ e.p = p /\ e.n = offers[p]
    BY DEF AddPush, Roles, Types, Offered
  <1>2. PICK b \in pool \cup {allocated + 1} :
          /\ pool' = pool \ {b}
          /\ allocated' = IF b \in pool THEN allocated ELSE b
          /\ offer' = [offer EXCEPT ![p] = IF waitForResult THEN [el |-> e, bd |-> b] ELSE None]
          /\ items' = Append(items, [el |-> e, bd |-> b])
    BY <1>1 DEF AddPush
  <1>3. /\ ppc[p] = "add" /\ size + e.size <= Cap
        /\ size' = size + e.size
        /\ ppc' = [ppc EXCEPT ![p] = IF waitForResult THEN "await" ELSE "idle"]
        /\ late' = IF stopped THEN late \cup {e} ELSE late
        /\ UNCHANGED <<waitForResult, blockOnOverflow, stopped, result, refs, offers, cur, sd>>
    BY <1>1 DEF AddPush, Fits, confVars
  <1>4. /\ cpc' \in [Consumers -> {"read", "parked", "consume", "signal", "exit"}]
        /\ \A c \in Consumers : Busy(c)' <=> Busy(c)
        /\ Exporting' = Exporting
    <2>1. SignalElements
      BY DEF AddPush
    <2>2. CASE UNCHANGED cpc
      BY <2>2 DEF Types, Busy, Exporting
    <2>3. CASE ~UNCHANGED cpc
      <3>1. PICK d \in Consumers : cpc[d] = "parked" /\ cpc' = [cpc EXCEPT ![d] = "read"]
        BY <2>1, <2>3 DEF SignalElements
      <3> QED BY <3>1 DEF Types, Busy, Exporting
    <2> QED BY <2>2, <2>3
  <1>5. allocated \in Nat /\ allocated' \in Nat /\ b \in 1..allocated' /\ allocated <= allocated'
        /\ pool' \subseteq 1..allocated' /\ allocated' <= allocated + 1
    <2>1. allocated \in Nat /\ pool \subseteq 1..allocated
      BY DEF Types
    <2>2. CASE b \in pool
      BY <1>2, <2>1, <2>2
    <2>3. CASE b \notin pool
      <3>1. b = allocated + 1 /\ allocated' = allocated + 1 /\ pool' \subseteq pool
        BY <1>2, <2>3
      <3> QED BY <2>1, <3>1
    <2> QED BY <2>2, <2>3
  <1>6. Taken' = Taken \cup {b} /\ b \notin Taken
    BY <1>2, <1>5 DEF Taken, Types
  <1>7. Allocation'
    <2>1. IsFiniteSet(Producers \X (1..MaxOffers))
      <3>1. IsFiniteSet(1..MaxOffers)
        BY FS_Interval, QueueAssumption
      <3> QED BY <3>1, FS_Product, QueueAssumption
    <2>2. IsFiniteSet(Settled)
      BY <2>1, FS_Subset DEF Settled
    <2>3. Settled' = Settled \cup {<<p, offers[p]>>}
      <3>1. ASSUME NEW q \in Producers, NEW k \in 1..MaxOffers
            PROVE  <<q, k>> \in Settled' <=> <<q, k>> \in Settled \/ <<q, k>> = <<p, offers[p]>>
        <4>1. Asking(q)' <=> q # p /\ Asking(q)
          BY <1>3 DEF Asking, Types
        <4>2. Asking(p)
          BY <1>3 DEF Asking
        <4>3. offers[q] \in 0..MaxOffers /\ offers' = offers
          BY <1>3 DEF Types
        <4> QED BY <4>1, <4>2, <4>3 DEF Settled
      <3>2. offers[p] \in 1..MaxOffers
        BY <1>1, ElementFields
      <3>3. Settled \subseteq Producers \X (1..MaxOffers) /\ Settled' \subseteq Producers \X (1..MaxOffers)
        BY DEF Settled
      <3> QED BY <3>1, <3>2, <3>3
    <2>4. <<p, offers[p]>> \notin Settled
      BY <1>3 DEF Settled, Asking
    <2>5. Cardinality(Settled') = Cardinality(Settled) + 1 /\ Cardinality(Settled) \in Nat
      BY <2>2, <2>3, <2>4, FS_AddElement, FS_CardinalityType
    <2> QED BY <1>5, <2>5 DEF Allocation
  <1>8. b \in Dones
    <2>1. Settled' \in SUBSET (Producers \X (1..MaxOffers))
      BY DEF Settled
    <2>2. 1..allocated' \subseteq Dones
      BY <1>5, <1>7, <2>1, DonesSuffice DEF Allocation
    <2> QED BY <1>5, <2>2
  <1>9. PICK m \in Nodes : m.el = e /\ m.bd = b /\ m = [el |-> e, bd |-> b]
    BY <1>8 DEF Nodes
  <1>10. PICK n \in Nat :
           /\ DOMAIN items = 1..n /\ DOMAIN items' = 1..(n + 1)
           /\ items'[n + 1] = m /\ \A i \in 1..n : items'[i] = items[i]
           /\ items' \in Seq(Nodes)
    <2>1. items \in Seq(Nodes) /\ items' = Append(items, m)
      BY <1>2, <1>9 DEF Types
    <2>2. Len(items) \in Nat /\ DOMAIN items = 1..Len(items) /\ DOMAIN items' = 1..(Len(items) + 1)
          /\ items'[Len(items) + 1] = m /\ (\A i \in 1..Len(items) : items'[i] = items[i])
          /\ items' \in Seq(Nodes)
      BY <2>1
    <2> QED BY <2>2
  <1>11. /\ offer' \in [Producers -> Offered \cup {None}]
         /\ ppc'[p] # "idle" => ppc'[p] = "await" /\ waitForResult /\ offer'[p] = m /\ m \in Offered
         /\ \A q \in Producers \ {p} : offer'[q] = offer[q] /\ ppc'[q] = ppc[q]
    BY <1>2, <1>3, <1>9, NodesAreOffered DEF Types
  <1>12. Types'
    <2>1. size' \in Int
      BY <1>3, ElementFields DEF Types
    <2>2. ppc' \in [Producers -> {"idle", "add", "cancelled", "await"}] /\ late' \subseteq Elements
      BY <1>3 DEF Types
    <2> QED BY <1>3, <1>4, <1>5, <1>10, <1>11, <2>1, <2>2 DEF Types
  <1>13. Roles'
    BY <1>1, <1>3, <1>4, <1>9, <1>11, NodesAreOffered DEF Roles
  <1>14. \A i \in 1..n : items[i] \in Nodes
    BY <1>10 DEF Types
  <1>15. Fresh'
    <2>1. m.el.n <= offers[m.el.p]
      BY <1>1, <1>9, ElementFields
    <2> QED BY <1>3, <1>4, <1>10, <2>1 DEF Fresh
  <1>16. Unique'
    <2>1. \A i \in 1..n : Apart(items[i], m) /\ Apart(m, items[i])
      BY <1>1, <1>3, <1>6, <1>9, <1>10 DEF Unique, Owned, Apart, Asking
    <2>2. \A c \in Consumers : Busy(c) => Apart(m, cur[c])
      BY <1>1, <1>3, <1>6, <1>9 DEF Unique, Owned, Apart, Asking
    <2>3. \A i, j \in DOMAIN items' : i # j => Apart(items'[i], items'[j])
      BY <1>10, <2>1 DEF Unique
    <2>4. \A i \in DOMAIN items', c \in Consumers : Busy(c) => Apart(items'[i], cur[c])
      BY <1>10, <2>2 DEF Unique
    <2>5. \A q \in Producers : Asking(q)' => q # p /\ Asking(q) /\ offer'[q] = offer[q]
      BY <1>11 DEF Asking
    <2>6. \A q \in Producers : Asking(q) /\ q # p => offer[q].el # e
      BY <1>1 DEF Asking, Roles
    <2>7. \A q \in Producers, i \in DOMAIN items' : Asking(q)' => items'[i].el # offer'[q].el
      BY <1>9, <1>10, <2>5, <2>6 DEF Unique
    <2>8. \A q \in Producers, c \in Consumers : Asking(q)' /\ Busy(c) => cur[c].el # offer'[q].el
      BY <2>5 DEF Unique
    <2>9. \A c, d \in Consumers : c # d /\ Busy(c) /\ Busy(d) => Apart(cur[c], cur[d])
      BY DEF Unique
    <2> QED BY <1>3, <1>4, <2>3, <2>4, <2>7, <2>8, <2>9 DEF Unique, Apart
  <1>17. Owned'
    <2>1. \A i \in DOMAIN items' : items'[i].bd \in Taken'
      BY <1>6, <1>9, <1>10 DEF Owned
    <2>2. \A c \in Consumers : Busy(c) => cur[c].bd \in Taken'
      BY <1>6 DEF Owned
    <2>3. \A k \in Dones : result[k] # None =>
            /\ k \in Taken'
            /\ \A i \in DOMAIN items' : items'[i].bd # k
            /\ \A c \in Consumers : Busy(c) => cur[c].bd # k
      BY <1>6, <1>9, <1>10 DEF Owned
    <2>4. \A q \in Producers : ppc'[q] = "await" =>
            /\ waitForResult
            /\ offer'[q].bd \in Taken'
            /\ \/ result[offer'[q].bd] = offer'[q].el
               \/ \E i \in DOMAIN items' : items'[i] = offer'[q]
               \/ \E c \in Consumers : Busy(c) /\ cur[c] = offer'[q]
      <3> SUFFICES ASSUME NEW q \in Producers, ppc'[q] = "await"
                   PROVE  /\ waitForResult
                          /\ offer'[q].bd \in Taken'
                          /\ \/ result[offer'[q].bd] = offer'[q].el
                             \/ \E i \in DOMAIN items' : items'[i] = offer'[q]
                             \/ \E c \in Consumers : Busy(c) /\ cur[c] = offer'[q]
        OBVIOUS
      <3>1. CASE q = p
        BY <3>1, <1>6, <1>9, <1>10, <1>11
      <3>2. CASE q # p
        <4>1. ppc[q] = "await" /\ offer'[q] = offer[q]
          BY <3>2, <1>11
        <4> QED BY <4>1, <1>6, <1>10 DEF Owned
      <3> QED BY <3>1, <3>2
    <2>5. \A q, r \in Producers : q # r /\ ppc'[q] = "await" /\ ppc'[r] = "await" =>
            offer'[q].bd # offer'[r].bd
      <3>1. \A q \in Producers : q # p /\ ppc'[q] = "await" =>
              offer'[q] = offer[q] /\ offer[q].bd \in Taken /\ ppc[q] = "await"
        BY <1>11 DEF Owned
      <3>2. ppc'[p] = "await" => offer'[p].bd = b
        BY <1>9, <1>11
      <3> QED BY <1>6, <3>1, <3>2 DEF Owned
    <2> QED BY <1>3, <1>4, <2>1, <2>2, <2>3, <2>4, <2>5 DEF Owned
  <1>18. RefsBalanced'
    <2>1. ASSUME NEW x \in Elements PROVE Live(x)' <=> Live(x)
      <3>1. \A q \in Producers : Asking(q)' <=> q # p /\ Asking(q)
        BY <1>3 DEF Asking, Types
      <3>2. Asking(p) /\ offer[p].el = e
        BY <1>1, <1>3 DEF Asking
      <3>3. (\E i \in DOMAIN items' : items'[i].el = x) <=>
              (\E i \in DOMAIN items : items[i].el = x) \/ x = e
        BY <1>9, <1>10
      <3>4. (\E q \in Producers : Asking(q) /\ offer[q].el = x) <=>
              (\E q \in Producers : Asking(q)' /\ offer'[q].el = x) \/ x = e
        BY <1>11, <3>1, <3>2
      <3> QED BY <1>3, <3>3, <3>4 DEF Live, Asking
    <2> QED BY <1>3, <2>1 DEF RefsBalanced
  <1>19. SizeIs'
    <2>1. Reserved' = Reserved \cup {e}
      BY <1>3, <1>4, <1>9, <1>10 DEF Reserved
    <2>2. e \notin Reserved
      BY <1>1, <1>3 DEF Reserved, Unique, Asking, Exporting, Busy
    <2>3. \A x \in Reserved \cup {e} : SizeOf[x] \in Int
      BY ReservedElements, ElementFields
    <2>4. Total(SizeOf, Reserved \cup {e}) = Total(SizeOf, Reserved) + SizeOf[e]
      BY <2>2, <2>3, TotalAdd DEF SizeIs
    <2>5. IsFiniteSet(Reserved \cup {e})
      BY FS_AddElement DEF SizeIs
    <2> QED BY <1>3, <2>1, <2>4, <2>5, ElementFields DEF SizeIs
  <1> QED BY <1>7, <1>12, <1>13, <1>15, <1>16, <1>17, <1>18, <1>19

\* The producer receives its result and returns the blockingDone to the pool.
LEMMA ResultData ==
  ASSUME Data, NEW p \in Producers, AwaitResult(p)
  PROVE  Data'
  <1> USE DEF Data
  <1> DEFINE b == offer[p].bd
  <1>1. /\ ppc[p] = "await" /\ result[b] # None
        /\ result' = [result EXCEPT ![b] = None]
        /\ pool' = pool \cup {b}
        /\ ppc' = [ppc EXCEPT ![p] = "idle"]
        /\ offer' = [offer EXCEPT ![p] = None]
        /\ UNCHANGED <<waitForResult, blockOnOverflow, items, size, stopped, allocated, refs,
                       late, offers, cpc, cur, sd>>
    BY DEF AwaitResult, confVars, consVars
  <1>2. b \in Taken
    BY <1>1 DEF Owned
  <1> HIDE DEF b
  <1>3. b \in Dones
    <2>1. Settled \in SUBSET (Producers \X (1..MaxOffers))
      BY DEF Settled
    <2> QED BY <1>2, <2>1, DonesSuffice DEF Allocation, Taken, Types
  <1>4. Taken' = Taken \ {b}
    BY <1>1 DEF Taken
  <1>5. \A q \in Producers : ppc'[q] # "idle" => q # p /\ ppc'[q] = ppc[q] /\ offer'[q] = offer[q]
    BY <1>1 DEF Types
  <1>6. Types'
    BY <1>1, <1>2 DEF Types, Taken
  <1>7. Roles' /\ Fresh'
    BY <1>1, <1>5 DEF Roles, Fresh, Busy
  <1>8. Unique'
    BY <1>1, <1>5 DEF Unique, Busy, Asking
  <1>9. Owned'
    <2>1. /\ \A i \in DOMAIN items : items[i].bd # b
          /\ \A c \in Consumers : Busy(c) => cur[c].bd # b
      BY <1>1, <1>3 DEF Owned
    <2>2. \A q \in Producers : ppc'[q] = "await" => offer[q].bd # b
      BY <1>1, <1>5 DEF Owned, b
    <2>3. \A k \in Dones : k # b => result'[k] = result[k]
      BY <1>1 DEF Types
    <2>4. result'[b] = None
      BY <1>1, <1>3 DEF Types
    <2>5. \A q \in Producers : ppc'[q] = "await" => offer[q].bd \in Dones
      <3>1. Settled \in SUBSET (Producers \X (1..MaxOffers))
        BY DEF Settled
      <3>2. Taken \subseteq Dones
        BY <3>1, DonesSuffice DEF Allocation, Taken, Types
      <3> QED BY <1>5, <3>2 DEF Owned
    <2>6. \A q \in Producers : ppc'[q] = "await" =>
            /\ waitForResult
            /\ offer'[q].bd \in Taken'
            /\ \/ result'[offer'[q].bd] = offer'[q].el
               \/ \E i \in DOMAIN items : items[i] = offer'[q]
               \/ \E c \in Consumers : Busy(c) /\ cur[c] = offer'[q]
      BY <1>4, <1>5, <2>2, <2>3, <2>5 DEF Owned
    <2>7. \A k \in Dones : result'[k] # None =>
            /\ k \in Taken'
            /\ \A i \in DOMAIN items : items[i].bd # k
            /\ \A c \in Consumers : Busy(c) => cur[c].bd # k
      BY <1>4, <2>3, <2>4 DEF Owned
    <2>8. /\ \A i \in DOMAIN items : items[i].bd \in Taken'
          /\ \A c \in Consumers : Busy(c) => cur[c].bd \in Taken'
      BY <1>4, <2>1 DEF Owned
    <2>9. \A q, r \in Producers : q # r /\ ppc'[q] = "await" /\ ppc'[r] = "await" =>
            offer'[q].bd # offer'[r].bd
      BY <1>5 DEF Owned
    <2> QED BY <1>1, <2>6, <2>7, <2>8, <2>9 DEF Owned, Busy
  <1>10. Allocation'
    <2>1. Settled' = Settled
      BY <1>1 DEF Settled, Asking, Types
    <2> QED BY <1>1, <2>1 DEF Allocation
  <1>11. RefsBalanced'
    <2>1. \A q \in Producers : Asking(q)' <=> Asking(q)
      BY <1>1 DEF Asking, Types
    <2>2. \A x \in Elements : Live(x)' <=> Live(x)
      BY <1>1, <1>5, <2>1 DEF Live, Asking
    <2> QED BY <1>1, <2>2 DEF RefsBalanced
  <1>12. SizeIs'
    BY <1>1 DEF SizeIs, Reserved, Exporting
  <1> QED BY <1>6, <1>7, <1>8, <1>9, <1>10, <1>11, <1>12

\* The producer gives up: whoever has the node keeps its blockingDone.
LEMMA AwaitCtxDoneData ==
  ASSUME Data, NEW p \in Producers, AwaitCtxDone(p)
  PROVE  Data'
  <1> USE DEF Data
  <1>1. /\ ppc[p] = "await"
        /\ ppc' = [ppc EXCEPT ![p] = "idle"]
        /\ offer' = [offer EXCEPT ![p] = None]
        /\ UNCHANGED <<waitForResult, blockOnOverflow, items, size, stopped, pool, allocated,
                       result, refs, late, offers, cpc, cur, sd>>
    BY DEF AwaitCtxDone, confVars, queueVars, doneVars, consVars
  <1>2. \A q \in Producers : ppc'[q] # "idle" => q # p /\ ppc'[q] = ppc[q] /\ offer'[q] = offer[q]
    BY <1>1 DEF Types
  <1>3. Types'
    BY <1>1 DEF Types
  <1>4. Roles' /\ Fresh'
    BY <1>1, <1>2 DEF Roles, Fresh, Busy
  <1>5. Unique' /\ Owned'
    BY <1>1, <1>2 DEF Unique, Owned, Busy, Asking, Taken
  <1>6. Allocation'
    <2>1. Settled' = Settled
      BY <1>1 DEF Settled, Asking, Types
    <2> QED BY <1>1, <2>1 DEF Allocation
  <1>7. RefsBalanced'
    <2>1. \A q \in Producers : Asking(q)' <=> Asking(q)
      BY <1>1 DEF Asking, Types
    <2>2. \A x \in Elements : Live(x)' <=> Live(x)
      BY <1>1, <1>2, <2>1 DEF Live, Asking
    <2> QED BY <1>1, <2>2 DEF RefsBalanced
  <1>8. SizeIs'
    BY <1>1 DEF SizeIs, Reserved, Exporting
  <1> QED BY <1>3, <1>4, <1>5, <1>6, <1>7, <1>8

-----------------------------------------------------------------------------
(* The steps of the consumers *)

\* A step that moves consumers without giving or taking a node.
LEMMA MoveData ==
  ASSUME Data,
         cpc' \in [Consumers -> {"read", "parked", "consume", "signal", "exit"}],
         \A c \in Consumers : Busy(c)' <=> Busy(c),
         Exporting' = Exporting,
         stopped' \in BOOLEAN, sd' \in {"running", "stopping", "draining", "done"},
         UNCHANGED <<waitForResult, blockOnOverflow, items, size, pool, allocated, result, refs,
                     late, ppc, offer, offers, cur>>
  PROVE  Data'
  <1> USE DEF Data
  <1>1. Types'
    BY DEF Types
  <1>2. Roles' /\ Fresh'
    BY DEF Roles, Fresh
  <1>3. Unique'
    BY DEF Unique, Asking
  <1>4. Owned'
    BY DEF Owned, Taken
  <1>5. Allocation'
    BY DEF Allocation, Settled, Asking
  <1>6. RefsBalanced' /\ SizeIs'
    BY DEF RefsBalanced, Live, SizeIs, Reserved
  <1> QED BY <1>1, <1>2, <1>3, <1>4, <1>5, <1>6

\* Read takes the first node of the queue.
LEMMA PopData ==
  ASSUME Data, NEW c \in Consumers, ReadPop(c)
  PROVE  Data'
  <1> USE DEF Data
  <1>1. /\ cpc[c] = "read" /\ items # <<>>
        /\ cur' = [cur EXCEPT ![c] = Head(items)]
        /\ items' = Tail(items)
        /\ cpc' = [cpc EXCEPT ![c] = "consume"]
        /\ UNCHANGED <<waitForResult, blockOnOverflow, size, stopped, pool, allocated, result,
                       refs, late, ppc, offer, offers, sd>>
    BY DEF ReadPop, confVars, doneVars, prodVars
  <1>2. PICK n \in Nat :
          /\ DOMAIN items = 1..(n + 1) /\ DOMAIN items' = 1..n
          /\ \A i \in 1..n : i + 1 \in 1..(n + 1) /\ items'[i] = items[i + 1]
          /\ Head(items) = items[1]
          /\ items' \in Seq(Nodes)
    <2>1. items \in Seq(Nodes) /\ items # <<>> /\ items' = Tail(items)
      BY <1>1 DEF Types
    <2>2. Len(items) \in Nat /\ Len(items) # 0 /\ DOMAIN items = 1..Len(items)
      BY <2>1
    <2>3. /\ DOMAIN items' = 1..(Len(items) - 1)
          /\ \A i \in 1..(Len(items) - 1) : items'[i] = items[i + 1]
          /\ Head(items) = items[1] /\ items' \in Seq(Nodes)
      BY <2>1, <2>2
    <2>4. Len(items) - 1 \in Nat /\ Len(items) = (Len(items) - 1) + 1
      BY <2>2
    <2> DEFINE k == Len(items) - 1
    <2>5. k \in Nat /\ DOMAIN items = 1..(k + 1) /\ DOMAIN items' = 1..k
          /\ \A i \in 1..k : items'[i] = items[i + 1]
      BY <2>2, <2>3, <2>4
    <2> HIDE DEF k
    <2>6. \A i \in 1..k : i + 1 \in 1..(k + 1)
      BY <2>5
    <2> QED BY <2>3, <2>5, <2>6
  <1>3. PICK m \in Nodes : m = items[1] /\ 1 \in DOMAIN items
    BY <1>2 DEF Types
  <1>4. /\ \A d \in Consumers : Busy(d)' <=> d = c \/ Busy(d)
        /\ ~Busy(c) /\ cur'[c] = m
        /\ \A d \in Consumers \ {c} : cur'[d] = cur[d]
        /\ Exporting' = Exporting \cup {c} /\ c \notin Exporting
    BY <1>1, <1>2, <1>3 DEF Busy, Exporting, Types
  <1>5. \A i \in DOMAIN items' : i + 1 \in DOMAIN items /\ i + 1 # 1 /\ items'[i] = items[i + 1]
    BY <1>2
  <1>6. \A i \in DOMAIN items : i = 1 \/ \E j \in DOMAIN items' : i = j + 1
    <2> SUFFICES ASSUME NEW i \in 1..(n + 1), i # 1 PROVE \E j \in 1..n : i = j + 1
      BY <1>2
    <2>1. i - 1 \in 1..n /\ i = (i - 1) + 1
      OBVIOUS
    <2> QED BY <2>1
  <1>7. Types'
    BY <1>1, <1>2, <1>3 DEF Types
  <1>8. Roles'
    BY <1>1, <1>3, <1>4, NodesAreOffered DEF Roles
  <1>9. Fresh'
    BY <1>1, <1>3, <1>4, <1>5 DEF Fresh
  <1>10. Unique'
    <2>1. \A i, j \in DOMAIN items' : i # j => Apart(items'[i], items'[j])
      <3> SUFFICES ASSUME NEW i \in DOMAIN items', NEW j \in DOMAIN items', i # j
                   PROVE  Apart(items'[i], items'[j])
        OBVIOUS
      <3>1. i \in 1..n /\ j \in 1..n
        BY <1>2
      <3>2. i + 1 # j + 1
        BY <3>1
      <3> QED BY <1>5, <3>2 DEF Unique
    <2>2. \A i \in DOMAIN items' : Apart(items'[i], m)
      BY <1>3, <1>5 DEF Unique
    <2>3. \A d \in Consumers : Busy(d) => Apart(m, cur[d]) /\ Apart(cur[d], m)
      BY <1>3 DEF Unique, Apart
    <2>4. \A i \in DOMAIN items', d \in Consumers : Busy(d)' => Apart(items'[i], cur'[d])
      BY <1>4, <1>5, <2>2 DEF Unique
    <2>5. \A d, f \in Consumers : d # f /\ Busy(d)' /\ Busy(f)' => Apart(cur'[d], cur'[f])
      BY <1>4, <2>3 DEF Unique
    <2>6. \A q \in Producers : Asking(q)' <=> Asking(q)
      BY <1>1 DEF Asking
    <2>7. \A q \in Producers, i \in DOMAIN items' : Asking(q) => items'[i].el # offer[q].el
      BY <1>5 DEF Unique
    <2>8. \A q \in Producers, d \in Consumers : Asking(q) /\ Busy(d)' => cur'[d].el # offer[q].el
      BY <1>3, <1>4 DEF Unique
    <2> QED BY <1>1, <2>1, <2>4, <2>5, <2>6, <2>7, <2>8 DEF Unique, Apart
  <1>11. Owned'
    <2>1. Taken' = Taken
      BY <1>1 DEF Taken
    <2>2. \A i \in DOMAIN items' : items'[i].bd \in Taken
      BY <1>5 DEF Owned
    <2>3. \A d \in Consumers : Busy(d)' => cur'[d].bd \in Taken
      BY <1>3, <1>4 DEF Owned
    <2>4. \A k \in Dones : result[k] # None =>
            /\ k \in Taken
            /\ \A i \in DOMAIN items' : items'[i].bd # k
            /\ \A d \in Consumers : Busy(d)' => cur'[d].bd # k
      BY <1>3, <1>4, <1>5 DEF Owned
    <2>5. ASSUME NEW q \in Producers, ppc[q] = "await"
          PROVE  \/ result[offer[q].bd] = offer[q].el
                 \/ \E i \in DOMAIN items' : items'[i] = offer[q]
                 \/ \E d \in Consumers : Busy(d)' /\ cur'[d] = offer[q]
      <3>1. CASE \E i \in DOMAIN items : items[i] = offer[q]
        BY <3>1, <1>3, <1>4, <1>5, <1>6
      <3>2. CASE \E d \in Consumers : Busy(d) /\ cur[d] = offer[q]
        BY <3>2, <1>4
      <3> QED BY <2>5, <3>1, <3>2 DEF Owned
    <2> QED BY <1>1, <2>1, <2>2, <2>3, <2>4, <2>5 DEF Owned
  <1>12. Allocation'
    BY <1>1 DEF Allocation, Settled, Asking
  <1>13. RefsBalanced'
    <2>1. ASSUME NEW x \in Elements PROVE Live(x)' <=> Live(x)
      <3>1. (\E i \in DOMAIN items : items[i].el = x) <=>
              (\E i \in DOMAIN items' : items'[i].el = x) \/ m.el = x
        BY <1>3, <1>5, <1>6
      <3>2. (\E d \in Consumers : cur'[d] # None /\ cur'[d].el = x) <=>
              (\E d \in Consumers : cur[d] # None /\ cur[d].el = x) \/ m.el = x
        BY <1>4, NodesAreOffered DEF Roles
      <3> QED BY <1>1, <3>1, <3>2 DEF Live
    <2> QED BY <1>1, <2>1 DEF RefsBalanced
  <1>14. SizeIs'
    <2>1. {items[i].el : i \in DOMAIN items} = {items'[i].el : i \in DOMAIN items'} \cup {m.el}
      BY <1>3, <1>5, <1>6
    <2>2. {cur'[d].el : d \in Exporting'} = {cur[d].el : d \in Exporting} \cup {m.el}
      BY <1>4 DEF Exporting
    <2>3. Reserved' = Reserved
      BY <2>1, <2>2 DEF Reserved
    <2> QED BY <1>1, <2>3 DEF SizeIs
  <1> QED BY <1>7, <1>8, <1>9, <1>10, <1>11, <1>12, <1>13, <1>14

\* onDone gives back what the element took.
LEMMA ReleaseData ==
  ASSUME Data, NEW c \in Consumers, OnDoneRelease(c)
  PROVE  Data'
  <1> USE DEF Data
  <1>1. PICK m \in Nodes : m = cur[c] /\ cpc[c] = "consume"
    BY DEF OnDoneRelease, Roles, Types, Busy
  <1>2. /\ size' = size - m.el.size
        /\ cpc' = [cpc EXCEPT ![c] = "signal"]
        /\ UNCHANGED <<waitForResult, blockOnOverflow, items, stopped, pool, allocated, result,
                       refs, late, ppc, offer, offers, cur, sd>>
    BY <1>1 DEF OnDoneRelease, confVars, doneVars, prodVars
  <1>3. /\ cpc' \in [Consumers -> {"read", "parked", "consume", "signal", "exit"}]
        /\ \A d \in Consumers : Busy(d)' <=> Busy(d)
        /\ c \in Exporting /\ Exporting' = Exporting \ {c}
    BY <1>1, <1>2 DEF Types, Busy, Exporting
  <1>4. Types'
    BY <1>2, <1>3, ElementFields, NodesAreOffered DEF Types
  <1>5. Roles' /\ Fresh'
    BY <1>2, <1>3 DEF Roles, Fresh
  <1>6. Unique'
    BY <1>2, <1>3 DEF Unique, Asking
  <1>7. Owned'
    BY <1>2, <1>3 DEF Owned, Taken
  <1>8. Allocation' /\ RefsBalanced'
    BY <1>2 DEF Allocation, Settled, Asking, RefsBalanced, Live
  <1>9. SizeIs'
    <2>1. Reserved' = Reserved \ {m.el} /\ m.el \in Reserved
      <3>1. \A i \in DOMAIN items : items[i].el # m.el
        BY <1>1 DEF Unique, Apart, Busy
      <3>2. \A d \in Exporting : d # c => cur[d].el # m.el
        BY <1>1 DEF Unique, Apart, Busy, Exporting
      <3> QED BY <1>1, <1>2, <1>3, <3>1, <3>2 DEF Reserved
    <2>2. \A x \in Reserved : SizeOf[x] \in Nat
      BY ReservedElements, ElementFields
    <2>3. Total(SizeOf, Reserved \ {m.el}) = Total(SizeOf, Reserved) - SizeOf[m.el]
      <3>1. \A x \in Reserved : SizeOf[x] \in Int
        BY <2>2
      <3> QED BY <2>1, <3>1, TotalRemove DEF SizeIs
    <2>4. IsFiniteSet(Reserved \ {m.el})
      BY FS_RemoveElement DEF SizeIs
    <2>5. m.el.size \in Nat /\ SizeOf[m.el] = m.el.size
      BY ElementFields, NodesAreOffered
    <2> QED BY <1>2, <2>1, <2>3, <2>4, <2>5, QueueAssumption DEF SizeIs, Types
  <1> QED BY <1>4, <1>5, <1>6, <1>7, <1>8, <1>9

\* onDone hands the result over, or the blockingDone back to the pool, and the
\* consumer gives its reference back.
LEMMA FinishData ==
  ASSUME Data, NEW c \in Consumers, OnDoneFinish(c)
  PROVE  Data'
  <1> USE DEF Data
  <1>1. PICK m \in Nodes : m = cur[c] /\ cpc[c] = "signal" /\ Busy(c)
    BY DEF OnDoneFinish, Roles, Types, Busy
  <1>2. /\ IF waitForResult
             THEN result' = [result EXCEPT ![m.bd] = m.el] /\ UNCHANGED pool
             ELSE pool' = pool \cup {m.bd} /\ UNCHANGED result
        /\ refs' = [refs EXCEPT ![m.el] = @ - 1]
        /\ cur' = [cur EXCEPT ![c] = None]
        /\ cpc' = [cpc EXCEPT ![c] = "read"]
        /\ UNCHANGED <<waitForResult, blockOnOverflow, items, size, stopped, allocated, late,
                       ppc, offer, offers, sd>>
    BY <1>1 DEF OnDoneFinish, confVars, prodVars
  <1>3. m.el \in Elements /\ m.bd \in Dones /\ m.bd \in Taken
    BY <1>1, NodesAreOffered DEF Owned
  <1>4. /\ \A d \in Consumers : Busy(d)' <=> d # c /\ Busy(d)
        /\ cur'[c] = None /\ \A d \in Consumers \ {c} : cur'[d] = cur[d]
        /\ Exporting' = Exporting /\ c \notin Exporting
    BY <1>1, <1>2 DEF Types, Busy, Exporting
  <1>5. \A i \in DOMAIN items : items[i].el # m.el /\ items[i].bd # m.bd
    BY <1>1 DEF Unique, Apart
  <1>6. \A d \in Consumers : Busy(d)' => cur[d].el # m.el /\ cur[d].bd # m.bd
    BY <1>1, <1>4 DEF Unique, Apart
  <1>7. Types'
    <2>1. result' \in [Dones -> Elements \cup {None}] /\ pool' \subseteq 1..allocated
      BY <1>2, <1>3 DEF Types, Taken
    <2> QED BY <1>2, <1>3, <2>1 DEF Types
  <1>8. Roles'
    BY <1>2, <1>4 DEF Roles
  <1>9. Fresh'
    BY <1>2, <1>4 DEF Fresh
  <1>10. Unique'
    <2>1. \A i \in DOMAIN items, d \in Consumers : Busy(d)' => Apart(items[i], cur'[d])
      BY <1>4 DEF Unique
    <2>2. \A d, f \in Consumers : d # f /\ Busy(d)' /\ Busy(f)' => Apart(cur'[d], cur'[f])
      BY <1>4 DEF Unique
    <2>3. \A q \in Producers, d \in Consumers : Asking(q) /\ Busy(d)' => cur'[d].el # offer[q].el
      BY <1>4 DEF Unique
    <2> QED BY <1>2, <2>1, <2>2, <2>3 DEF Unique, Asking, Apart
  <1>11. Owned'
    <2>1. CASE waitForResult
      <3>1. result'[m.bd] = m.el /\ (\A k \in Dones : k # m.bd => result'[k] = result[k]) /\ Taken' = Taken
        BY <1>2, <1>3, <2>1 DEF Types, Taken
      <3>2. /\ \A i \in DOMAIN items : items[i].bd \in Taken
            /\ \A d \in Consumers : Busy(d)' => cur'[d].bd \in Taken
        BY <1>4 DEF Owned
      <3>3. \A k \in Dones : result'[k] # None =>
              /\ k \in Taken
              /\ \A i \in DOMAIN items : items[i].bd # k
              /\ \A d \in Consumers : Busy(d)' => cur'[d].bd # k
        <4> SUFFICES ASSUME NEW k \in Dones, result'[k] # None
                     PROVE  /\ k \in Taken
                            /\ \A i \in DOMAIN items : items[i].bd # k
                            /\ \A d \in Consumers : Busy(d)' => cur'[d].bd # k
          OBVIOUS
        <4>1. CASE k = m.bd
          BY <4>1, <1>3, <1>4, <1>5, <1>6
        <4>2. CASE k # m.bd
          BY <4>2, <1>4, <3>1 DEF Owned
        <4> QED BY <4>1, <4>2
      <3>4. ASSUME NEW q \in Producers, ppc[q] = "await"
            PROVE  \/ result'[offer[q].bd] = offer[q].el
                   \/ \E i \in DOMAIN items : items[i] = offer[q]
                   \/ \E d \in Consumers : Busy(d)' /\ cur'[d] = offer[q]
        <4>1. CASE result[offer[q].bd] = offer[q].el
          <5>1. offer[q].el \in Elements /\ offer[q].bd \in Taken
            BY <3>4 DEF Roles, Types, Offered, Owned
          <5>2. Taken \subseteq Dones
            <6>1. Settled \in SUBSET (Producers \X (1..MaxOffers))
              BY DEF Settled
            <6> QED BY <6>1, DonesSuffice DEF Allocation, Taken, Types
          <5>3. offer[q].bd \in Dones /\ result[offer[q].bd] # None
            BY <4>1, <5>1, <5>2, NoneAssumption
          <5>4. offer[q].bd # m.bd
            BY <5>3, <1>1 DEF Owned
          <5> QED BY <4>1, <5>3, <5>4, <3>1
        <4>2. CASE \E d \in Consumers : Busy(d) /\ cur[d] = offer[q]
          <5>1. PICK d \in Consumers : Busy(d) /\ cur[d] = offer[q]
            BY <4>2
          <5>2. CASE d = c
            BY <5>1, <5>2, <1>1, <3>1
          <5>3. CASE d # c
            BY <5>1, <5>3, <1>4
          <5> QED BY <5>2, <5>3
        <4> QED BY <3>4, <4>1, <4>2 DEF Owned
      <3> QED BY <1>2, <3>1, <3>2, <3>3, <3>4 DEF Owned
    <2>2. CASE ~waitForResult
      <3>1. Taken' = Taken \ {m.bd} /\ result' = result
        BY <1>2, <2>2 DEF Taken
      <3>2. \A q \in Producers : ppc[q] # "await"
        BY <2>2 DEF Owned
      <3>3. /\ \A i \in DOMAIN items : items[i].bd \in Taken'
            /\ \A d \in Consumers : Busy(d)' => cur'[d].bd \in Taken'
        BY <1>4, <1>5, <1>6, <3>1 DEF Owned
      <3>4. \A k \in Dones : result[k] # None =>
              /\ k \in Taken'
              /\ \A i \in DOMAIN items : items[i].bd # k
              /\ \A d \in Consumers : Busy(d)' => cur'[d].bd # k
        BY <1>1, <1>4, <3>1 DEF Owned
      <3> QED BY <1>2, <3>1, <3>2, <3>3, <3>4 DEF Owned
    <2> QED BY <2>1, <2>2
  <1>12. Allocation'
    BY <1>2 DEF Allocation, Settled, Asking
  <1>13. RefsBalanced'
    <2>1. Live(m.el)
      BY <1>1 DEF Live, Roles
    <2>2. ~Live(m.el)'
      <3>1. \A q \in Producers : Asking(q) => offer[q].el # m.el
        BY <1>1 DEF Unique
      <3> QED BY <1>2, <1>4, <1>5, <1>6, <3>1 DEF Live, Asking, Roles
    <2>3. ASSUME NEW x \in Elements, x # m.el PROVE Live(x)' <=> Live(x)
      <3>1. \A d \in Consumers : cur'[d] # None /\ cur'[d].el = x <=> cur[d] # None /\ cur[d].el = x
        BY <1>1, <1>4, <2>3
      <3> QED BY <1>2, <3>1 DEF Live
    <2> QED BY <1>2, <1>3, <2>1, <2>2, <2>3 DEF RefsBalanced, Types
  <1>14. SizeIs'
    <2>1. Reserved' = Reserved
      BY <1>2, <1>4 DEF Reserved
    <2> QED BY <1>2, <2>1 DEF SizeIs
  <1> QED BY <1>7, <1>8, <1>9, <1>10, <1>11, <1>12, <1>13, <1>14

-----------------------------------------------------------------------------
(* All steps together *)

\* A step that only locks, unlocks, waits or is woken.
LEMMA QuietData ==
  ASSUME Data, sd' \in {"running", "stopping", "draining", "done"},
         UNCHANGED <<confVars, queueVars, prodVars, consVars>>
  PROVE  Data'
  <1>1. UNCHANGED <<waitForResult, blockOnOverflow, items, size, stopped, pool, allocated, result,
                    refs, late, ppc, offer, offers, cpc, cur>>
    BY DEF confVars, queueVars, doneVars, prodVars, consVars
  <1>2. (\A c \in Consumers : Busy(c)' <=> Busy(c)) /\ Exporting' = Exporting
    BY <1>1 DEF Busy, Exporting
  <1> QED BY <1>1, <1>2, MoveData DEF Data, Types

\* The steps of a producer.
LEMMA ProducerData ==
  ASSUME Data, NEW p \in Producers, Producer(p)
  PROVE  Data'
  <1>1. CASE OfferRefused(p)
    BY <1>1, RefusedData
  <1>2. CASE OfferBegin(p)
    BY <1>2, BeginData
  <1>3. CASE AddLock(p) \/ AddWait(p) \/ AddWoken(p) \/ AddCtxRelock(p)
    BY <1>3, QuietData DEF AddLock, AddWait, AddWoken, AddCtxRelock, Data, Types
  <1>4. CASE AddFull(p) \/ AddCancelled(p)
    BY <1>4, ReturnData DEF AddFull, AddCancelled, Asking
  <1>5. CASE AddCtxDone(p)
    BY <1>5, CtxDoneData
  <1>6. CASE AddPush(p)
    BY <1>6, PushData
  <1>7. CASE AwaitResult(p)
    BY <1>7, ResultData
  <1>8. CASE AwaitCtxDone(p)
    BY <1>8, AwaitCtxDoneData
  <1> QED BY <1>1, <1>2, <1>3, <1>4, <1>5, <1>6, <1>7, <1>8 DEF Producer

\* The steps of a consumer.
LEMMA ConsumerData ==
  ASSUME Data, NEW c \in Consumers, Consumer(c)
  PROVE  Data'
  <1>1. CASE ReadLock(c) \/ OnDoneLock(c) \/ OnDoneSend(c)
    BY <1>1, QuietData DEF ReadLock, OnDoneLock, OnDoneSend, Data, Types
  <1>2. CASE ReadPop(c)
    BY <1>2, PopData
  <1>3. CASE ReadStopped(c) \/ ReadPark(c)
    <2>1. /\ cpc[c] = "read"
          /\ cpc' = [cpc EXCEPT ![c] = "exit"] \/ cpc' = [cpc EXCEPT ![c] = "parked"]
          /\ UNCHANGED <<waitForResult, blockOnOverflow, items, size, stopped, pool, allocated,
                         result, refs, late, ppc, offer, offers, cur, sd>>
      BY <1>3 DEF ReadStopped, ReadPark, confVars, queueVars, doneVars, prodVars
    <2>2. cpc' \in [Consumers -> {"read", "parked", "consume", "signal", "exit"}]
      BY <2>1 DEF Data, Types
    <2>3. (\A d \in Consumers : Busy(d)' <=> Busy(d)) /\ Exporting' = Exporting
      BY <2>1 DEF Busy, Exporting, Data, Types
    <2> QED BY <2>1, <2>2, <2>3, MoveData DEF Data, Types
  <1>4. CASE OnDoneRelease(c)
    BY <1>4, ReleaseData
  <1>5. CASE OnDoneFinish(c)
    BY <1>5, FinishData
  <1> QED BY <1>1, <1>2, <1>3, <1>4, <1>5 DEF Consumer

\* The steps of Shutdown.
LEMMA ShutdownData ==
  ASSUME Data, Shutdown
  PROVE  Data'
  <1>1. CASE ShutdownLock \/ ShutdownReturns
    BY <1>1, QuietData DEF ShutdownLock, ShutdownReturns
  <1>2. CASE ShutdownStop
    <2>1. /\ stopped' = TRUE /\ sd' = "draining"
          /\ cpc' = [c \in Consumers |-> IF cpc[c] = "parked" THEN "read" ELSE cpc[c]]
          /\ UNCHANGED <<waitForResult, blockOnOverflow, items, size, pool, allocated,
                         result, refs, late, ppc, offer, offers, cur>>
      BY <1>2 DEF ShutdownStop, confVars, doneVars, prodVars
    <2>2. cpc' \in [Consumers -> {"read", "parked", "consume", "signal", "exit"}]
      BY <2>1 DEF Data, Types
    <2>3. (\A d \in Consumers : Busy(d)' <=> Busy(d)) /\ Exporting' = Exporting
      BY <2>1 DEF Busy, Exporting, Data, Types
    <2> QED BY <2>1, <2>2, <2>3, MoveData
  <1> QED BY <1>1, <1>2 DEF Shutdown

\* The empty queue.
LEMMA DataInit == Init => Data
  <1> SUFFICES ASSUME Init PROVE Data
    OBVIOUS
  <1>1. Types
    <2>1. items \in Seq(Nodes)
      BY DEF Init
    <2>2. /\ offers \in [Producers -> 0..MaxOffers]
          /\ allocated \in Nat /\ pool \subseteq 1..allocated /\ late \subseteq Elements
          /\ refs \in [Elements -> Int] /\ size \in Int
      BY QueueAssumption DEF Init
    <2>3. /\ result \in [Dones -> Elements \cup {None}]
          /\ ppc \in [Producers -> {"idle", "add", "cancelled", "await"}]
          /\ offer \in [Producers -> Offered \cup {None}]
          /\ cpc \in [Consumers -> {"read", "parked", "consume", "signal", "exit"}]
          /\ cur \in [Consumers -> Nodes \cup {None}]
      BY DEF Init
    <2> QED BY <2>1, <2>2, <2>3 DEF Init, Types
  <1>2. Roles /\ Fresh /\ Unique /\ Owned
    BY DEF Init, Roles, Fresh, Unique, Owned, Busy, Asking
  <1>3. Allocation
    <2>1. IsFiniteSet(1..MaxOffers)
      BY FS_Interval, QueueAssumption
    <2>2. IsFiniteSet(Producers \X (1..MaxOffers))
      BY <2>1, FS_Product, QueueAssumption
    <2>3. IsFiniteSet(Settled)
      BY <2>2, FS_Subset DEF Settled
    <2> QED BY <2>3, FS_CardinalityType DEF Allocation, Init
  <1>4. RefsBalanced
    BY DEF Init, RefsBalanced, Live
  <1>5. SizeIs
    <2>1. Reserved = {}
      BY DEF Init, Reserved, Exporting
    <2> QED BY <2>1, FS_EmptySet, TotalEmpty, QueueAssumption DEF Init, SizeIs
  <1> QED BY <1>1, <1>2, <1>3, <1>4, <1>5 DEF Data

\* Data is inductive.
LEMMA DataInvariant == Data /\ [Next]_vars => Data'
  <1> SUFFICES ASSUME Data, [Next]_vars PROVE Data'
    OBVIOUS
  <1>1. CASE UNCHANGED vars
    BY <1>1, QuietData DEF vars, Data, Types
  <1>2. CASE Next
    BY <1>2, ProducerData, ConsumerData, ShutdownData DEF Next
  <1> QED BY <1>1, <1>2

-----------------------------------------------------------------------------
(* Wakeups *)

\* The consumers that are about to look at the queue.
Reading == {c \in Consumers : cpc[c] = "read"}

\* The consumers that are about to read can be counted.
LEMMA ReadingFinite ==
  /\ IsFiniteSet(Reading) /\ Cardinality(Reading) \in Nat
  /\ IsFiniteSet(Reading') /\ Cardinality(Reading') \in Nat
  <1>1. IsFiniteSet(Reading) /\ IsFiniteSet(Reading')
    BY FS_Subset, QueueAssumption DEF Reading
  <1> QED BY <1>1, FS_CardinalityType

\* Neither the queue nor the set of parked consumers grows, and no consumer
\* stops reading.
LEMMA ParkedQuiet ==
  ASSUME NoItemWaitsForParked, items \in Seq(Nodes), items' = items,
         \A c \in Consumers : cpc'[c] = "parked" => cpc[c] = "parked",
         \A c \in Consumers : cpc[c] = "read" => cpc'[c] = "read"
  PROVE  NoItemWaitsForParked'
  <1>1. Reading \in SUBSET Reading'
    BY DEF Reading
  <1>2. Cardinality(Reading) <= Cardinality(Reading')
    BY <1>1, ReadingFinite, FS_Subset
  <1>3. Len(items) \in Nat
    OBVIOUS
  <1> QED BY <1>2, <1>3, ReadingFinite DEF NoItemWaitsForParked, Reading

\* No consumer stays parked while an element waits for it.
LEMMA ParkedInvariant ==
  ASSUME Data, NoItemWaitsForParked, [Next]_vars
  PROVE  NoItemWaitsForParked'
  <1>1. items \in Seq(Nodes) /\ Len(items) \in Nat
    BY DEF Data, Types
  <1>2. ASSUME NEW p \in Producers, Producer(p) PROVE NoItemWaitsForParked'
    <2>1. CASE AddPush(p)
      <3>1. PICK m : items' = Append(items, m)
        BY <2>1 DEF AddPush
      <3>2. Len(items') = Len(items) + 1
        BY <1>1, <3>1
      <3>3. CASE \E c \in Consumers : cpc[c] = "parked"
        <4>1. PICK d \in Consumers : cpc[d] = "parked" /\ cpc' = [cpc EXCEPT ![d] = "read"]
          BY <2>1, <3>3 DEF AddPush, SignalElements
        <4>2. Reading' = Reading \cup {d} /\ d \notin Reading
          BY <4>1 DEF Reading, Data, Types
        <4>3. Cardinality(Reading') = Cardinality(Reading) + 1
          BY <4>2, ReadingFinite, FS_AddElement
        <4>4. Len(items) <= Cardinality(Reading)
          BY <4>1 DEF NoItemWaitsForParked, Reading
        <4>5. Len(items') <= Cardinality(Reading')
          BY <1>1, <3>2, <4>3, <4>4, ReadingFinite
        <4> QED BY <4>5 DEF NoItemWaitsForParked, Reading
      <3>4. CASE ~\E c \in Consumers : cpc[c] = "parked"
        BY <2>1, <3>4 DEF AddPush, SignalElements, NoItemWaitsForParked
      <3> QED BY <3>3, <3>4
    <2>2. CASE ~AddPush(p)
      <3>1. items' = items /\ cpc' = cpc
        BY <1>2, <2>2 DEF Producer, OfferRefused, OfferBegin, AddLock, AddFull, AddWait, AddWoken,
          AddCtxDone, AddCtxRelock, AddCancelled, AwaitResult, AwaitCtxDone, ReturnError,
          queueVars, consVars
      <3> QED BY <1>1, <3>1, ParkedQuiet
    <2> QED BY <2>1, <2>2
  <1>3. ASSUME NEW c \in Consumers, Consumer(c) PROVE NoItemWaitsForParked'
    <2>1. CASE ReadPop(c)
      <3>1. items # <<>> /\ items' = Tail(items) /\ cpc[c] = "read" /\ cpc' = [cpc EXCEPT ![c] = "consume"]
        BY <2>1 DEF ReadPop
      <3>2. Len(items') = Len(items) - 1
        BY <1>1, <3>1
      <3>3. Reading' = Reading \ {c} /\ c \in Reading
        BY <3>1 DEF Reading, Data, Types
      <3>4. Cardinality(Reading') = Cardinality(Reading) - 1
        BY <3>3, ReadingFinite, FS_RemoveElement
      <3>5. (\A d \in Consumers : cpc[d] # "parked") => \A d \in Consumers : cpc'[d] # "parked"
        BY <3>1 DEF Data, Types
      <3>6. Len(items) <= Cardinality(Reading) => Len(items') <= Cardinality(Reading')
        BY <1>1, <3>2, <3>4, ReadingFinite
      <3> QED BY <3>5, <3>6 DEF NoItemWaitsForParked, Reading
    <2>2. CASE ReadStopped(c) \/ ReadPark(c)
      <3>1. items' = <<>>
        BY <2>2 DEF ReadStopped, ReadPark, queueVars
      <3>2. Len(items') <= Cardinality(Reading')
        BY <3>1, ReadingFinite
      <3> QED BY <3>2 DEF NoItemWaitsForParked, Reading
    <2>3. CASE OnDoneRelease(c) \/ OnDoneFinish(c)
      <3>1. /\ items' = items /\ cpc[c] \in {"consume", "signal"}
            /\ cpc' = [cpc EXCEPT ![c] = "signal"] \/ cpc' = [cpc EXCEPT ![c] = "read"]
        BY <2>3 DEF OnDoneRelease, OnDoneFinish
      <3>2. /\ \A d \in Consumers : cpc'[d] = "parked" => cpc[d] = "parked"
            /\ \A d \in Consumers : cpc[d] = "read" => cpc'[d] = "read"
        BY <3>1 DEF Data, Types
      <3> QED BY <1>1, <3>1, <3>2, ParkedQuiet
    <2>4. CASE ReadLock(c) \/ OnDoneLock(c) \/ OnDoneSend(c)
      <3>1. items' = items /\ cpc' = cpc
        BY <2>4 DEF ReadLock, OnDoneLock, OnDoneSend, queueVars, consVars
      <3> QED BY <1>1, <3>1, ParkedQuiet
    <2> QED BY <1>3, <2>1, <2>2, <2>3, <2>4 DEF Consumer
  <1>4. ASSUME Shutdown PROVE NoItemWaitsForParked'
    <2>1. CASE ShutdownStop
      BY <2>1 DEF ShutdownStop, NoItemWaitsForParked
    <2>2. CASE ShutdownLock \/ ShutdownReturns
      <3>1. items' = items /\ cpc' = cpc
        BY <2>2 DEF ShutdownLock, ShutdownReturns, queueVars, consVars
      <3> QED BY <1>1, <3>1, ParkedQuiet
    <2> QED BY <1>4, <2>1, <2>2 DEF Shutdown
  <1>5. CASE UNCHANGED vars
    <2>1. items' = items /\ cpc' = cpc
      BY <1>5 DEF vars, queueVars, consVars
    <2> QED BY <1>1, <2>1, ParkedQuiet
  <1> QED BY <1>2, <1>3, <1>4, <1>5 DEF Next

\* A queue that has no room for an element is not idle.
LEMMA FullMeansWork ==
  ASSUME Data, NEW p \in Producers, ppc[p] # "idle", ~Fits(p)
  PROVE  items # <<>> \/ Exporting # {}
  <1> SUFFICES ASSUME items = <<>>, Exporting = {} PROVE FALSE
    OBVIOUS
  <1>1. Reserved = {}
    BY DEF Reserved
  <1>2. size = 0
    BY <1>1, TotalEmpty DEF Data, SizeIs
  <1>3. offer[p].el \in Elements
    BY DEF Data, Roles, Types, Offered
  <1> QED BY <1>2, <1>3, ElementFields, QueueAssumption DEF Fits

\* No producer waits for space without a wakeup to come.
LEMMA SpaceInvariant ==
  ASSUME Data, CondOK, SpaceWakeupPending, [Next]_vars
  PROVE  SpaceWakeupPending'
  <1> SUFFICES ASSUME waiting' > 0
               PROVE  \/ items' # <<>> \/ Exporting' # {}
                      \/ ch' = 1 \/ \E g \in Goroutines : at'[g] = "send"
                      \/ \E q \in Producers : ppc'[q] = "add" /\ at'[q] \in {"woken", "crit"}
    BY DEF SpaceWakeupPending
  <1> DEFINE Work == items # <<>> \/ Exporting # {}
             Told == ch = 1 \/ \E g \in Goroutines : at[g] = "send"
             Woken == \E q \in Producers : ppc[q] = "add" /\ at[q] \in {"woken", "crit"}
  <1>1. waiting > 0 => Work \/ Told \/ Woken
    BY DEF SpaceWakeupPending
  <1>2. /\ waiting \in Nat /\ ch \in {0, 1} /\ at \in [Goroutines -> C!Positions]
        /\ Producers \subseteq Goroutines /\ Consumers \subseteq Goroutines /\ Stopper \in Goroutines
    BY DEF CondOK, C!TypeOK, Goroutines
  <1>3. ASSUME NEW p \in Producers, Producer(p)
        PROVE  Work' \/ Told' \/ Woken'
    <2>0. p \in Goroutines
      BY <1>2
    <2>1. CASE AddFull(p) \/ AddWait(p)
      <3>1. Work
        BY <2>1, FullMeansWork DEF AddFull, AddWait
      <3> QED BY <2>1, <3>1 DEF AddFull, AddWait, ReturnError, queueVars, consVars, Exporting
    <2>2. CASE AddPush(p)
      <3>1. PICK m : items' = Append(items, m)
        BY <2>2 DEF AddPush
      <3>2. items \in Seq(Nodes)
        BY DEF Data, Types
      <3>3. items' # <<>>
        BY <3>1, <3>2
      <3> QED BY <3>3
    <2>3. CASE AddWoken(p)
      <3>1. ppc' = ppc /\ ppc[p] = "add"
        BY <2>3 DEF AddWoken, prodVars
      <3>2. at'[p] \in {"woken", "crit"}
        BY <2>3, <1>2, <2>0 DEF AddWoken, C!Receive, C!Relock
      <3> QED BY <3>1, <3>2
    <2>4. CASE AddLock(p)
      <3>1. ppc' = ppc /\ ppc[p] = "add"
        BY <2>4 DEF AddLock, prodVars
      <3>2. at'[p] = "crit"
        BY <2>4, <1>2, <2>0 DEF AddLock, C!Lock
      <3> QED BY <3>1, <3>2
    <2>5. CASE OfferRefused(p) \/ OfferBegin(p) \/ AwaitResult(p) \/ AwaitCtxDone(p)
      <3>1. /\ UNCHANGED <<mu, waiting, ch, at, items, cpc>>
            /\ \A q \in Producers : ppc[q] = "add" => ppc'[q] = "add"
        BY <2>5 DEF OfferRefused, OfferBegin, AwaitResult, AwaitCtxDone, condVars, queueVars,
          consVars, Data, Types
      <3> QED BY <1>1, <3>1 DEF Exporting
    <2>6. CASE AddCtxDone(p)
      <3>1. /\ at[p] = "select" /\ at' = [at EXCEPT ![p] = "ctx"]
            /\ ppc' = [ppc EXCEPT ![p] = "cancelled"]
            /\ UNCHANGED <<waiting, ch, items, cpc>>
        BY <2>6 DEF AddCtxDone, C!CtxDone, queueVars, consVars
      <3>2. Told => Told'
        BY <3>1, <1>2
      <3>3. Woken => Woken'
        BY <3>1, <1>2 DEF Data, Types
      <3> QED BY <1>1, <3>1, <3>2, <3>3 DEF Exporting
    <2>7. CASE AddCtxRelock(p)
      <3>1. UNCHANGED <<items, cpc, ppc>>
        BY <2>7 DEF AddCtxRelock, queueVars, prodVars, consVars
      <3>2. CASE C!CtxRelock(p)
        <4>1. /\ at[p] = "ctx"
              /\ at' = [at EXCEPT ![p] = "drain"] \/ at' = [at EXCEPT ![p] = "crit"]
              /\ ch' = ch /\ waiting > 0
          BY <3>2, <1>2 DEF C!CtxRelock
        <4>2. (Told => Told') /\ (Woken => Woken')
          BY <3>1, <4>1, <1>2
        <4> QED BY <1>1, <3>1, <4>1, <4>2 DEF Exporting
      <3>3. CASE C!Drain(p)
        BY <3>3, <2>0, <1>2 DEF C!Drain, CondOK, Committed
      <3> QED BY <2>7, <3>2, <3>3 DEF AddCtxRelock
    <2>8. CASE AddCancelled(p)
      <3>1. /\ ppc[p] = "cancelled" /\ at[p] = "crit" /\ at' = [at EXCEPT ![p] = "out"]
            /\ ppc' = [ppc EXCEPT ![p] = "idle"]
            /\ UNCHANGED <<waiting, ch, items, cpc>>
        BY <2>8 DEF AddCancelled, ReturnError, C!Unlock, consVars
      <3>2. (Told => Told') /\ (Woken => Woken')
        BY <3>1, <1>2 DEF Data, Types
      <3> QED BY <1>1, <3>1, <3>2 DEF Exporting
    <2> QED BY <1>3, <2>1, <2>2, <2>3, <2>4, <2>5, <2>6, <2>7, <2>8 DEF Producer
  <1>4. ASSUME NEW c \in Consumers, Consumer(c)
        PROVE  Work' \/ Told' \/ Woken'
    <2>0. c \in Goroutines /\ c \notin Producers
      BY <1>2, QueueAssumption
    <2>1. CASE ReadPop(c)
      <3>1. c \in Exporting'
        BY <2>1 DEF ReadPop, Exporting, Data, Types
      <3> QED BY <3>1
    <2>2. CASE OnDoneRelease(c)
      <3>1. /\ at[c] = "crit" /\ waiting' > 0 /\ ch' = ch
            /\ IF waiting = 0 THEN UNCHANGED <<waiting, at>>
                              ELSE at' = [at EXCEPT ![c] = "send"]
        BY <2>2 DEF OnDoneRelease, C!Signal
      <3>2. at'[c] = "send"
        BY <3>1, <2>0, <1>2
      <3> QED BY <3>2, <2>0
    <2>3. CASE OnDoneSend(c)
      BY <2>3 DEF OnDoneSend, C!Send
    <2>4. CASE ReadLock(c) \/ OnDoneLock(c)
      <3>1. /\ at[c] = "out" /\ at' = [at EXCEPT ![c] = "crit"]
            /\ UNCHANGED <<waiting, ch, items, cpc, ppc>>
        BY <2>4 DEF ReadLock, OnDoneLock, C!Lock, queueVars, prodVars, consVars
      <3>2. (Told => Told') /\ (Woken => Woken')
        BY <3>1, <1>2, <2>0
      <3> QED BY <1>1, <3>1, <3>2 DEF Exporting
    <2>5. CASE ReadStopped(c) \/ ReadPark(c) \/ OnDoneFinish(c)
      <3>1. /\ at[c] = "crit" /\ at' = [at EXCEPT ![c] = "out"]
            /\ UNCHANGED <<waiting, ch, items, ppc>>
            /\ cpc[c] # "consume" /\ \E x \in {"exit", "parked", "read"} : cpc' = [cpc EXCEPT ![c] = x]
        BY <2>5 DEF ReadStopped, ReadPark, OnDoneFinish, C!Unlock, queueVars, prodVars
      <3>2. (Told => Told') /\ (Woken => Woken')
        BY <3>1, <1>2, <2>0
      <3>3. Exporting' = Exporting
        BY <3>1 DEF Exporting, Data, Types
      <3> QED BY <1>1, <3>1, <3>2, <3>3
    <2> QED BY <1>4, <2>1, <2>2, <2>3, <2>4, <2>5 DEF Consumer
  <1>5. ASSUME Shutdown PROVE Work' \/ Told' \/ Woken'
    <2>0. Stopper \in Goroutines /\ Stopper \notin Producers
      BY <1>2, QueueAssumption
    <2>1. CASE ShutdownLock
      <3>1. /\ at[Stopper] = "out" /\ at' = [at EXCEPT ![Stopper] = "crit"]
            /\ UNCHANGED <<waiting, ch, items, cpc, ppc>>
        BY <2>1 DEF ShutdownLock, C!Lock, queueVars, prodVars, consVars
      <3>2. (Told => Told') /\ (Woken => Woken')
        BY <3>1, <1>2, <2>0
      <3> QED BY <1>1, <3>1, <3>2 DEF Exporting
    <2>2. CASE ShutdownStop
      <3>1. /\ at[Stopper] = "crit" /\ at' = [at EXCEPT ![Stopper] = "out"]
            /\ UNCHANGED <<waiting, ch, items, ppc>>
            /\ cpc' = [c \in Consumers |-> IF cpc[c] = "parked" THEN "read" ELSE cpc[c]]
        BY <2>2 DEF ShutdownStop, C!Unlock, prodVars
      <3>2. (Told => Told') /\ (Woken => Woken')
        BY <3>1, <1>2, <2>0
      <3>3. Exporting' = Exporting
        BY <3>1 DEF Exporting, Data, Types
      <3> QED BY <1>1, <3>1, <3>2, <3>3
    <2>3. CASE ShutdownReturns
      <3>1. UNCHANGED <<waiting, ch, at, items, cpc, ppc>>
        BY <2>3 DEF ShutdownReturns, condVars, queueVars, prodVars, consVars
      <3> QED BY <1>1, <3>1 DEF Exporting
    <2> QED BY <1>5, <2>1, <2>2, <2>3 DEF Shutdown
  <1>6. CASE UNCHANGED vars
    <2>1. UNCHANGED <<waiting, ch, at, items, cpc, ppc>>
      BY <1>6 DEF vars, condVars, queueVars, prodVars, consVars
    <2> QED BY <1>1, <2>1 DEF Exporting
  <1> QED BY <1>3, <1>4, <1>5, <1>6 DEF Next

\* Uniform is inductive.
LEMMA UniformInvariant ==
  ASSUME Data, Uniform, [Next]_vars
  PROVE  Uniform'
  <1> USE DEF Data
  <1>1. unit' = unit
    BY DEF Next, Producer, Consumer, Shutdown, OfferRefused, OfferBegin, AddLock, AddFull, AddWait,
      AddWoken, AddCtxDone, AddCtxRelock, AddCancelled, AddPush, AwaitResult, AwaitCtxDone,
      ReturnError, ReadLock, ReadPop, ReadStopped, ReadPark, OnDoneLock, OnDoneRelease, OnDoneSend,
      OnDoneFinish, ShutdownLock, ShutdownStop, ShutdownReturns, confVars, vars
  <1> SUFFICES ASSUME unit # None
               PROVE  /\ \A p \in Producers : Asking(p)' => offer'[p].el.size = unit
                      /\ \A i \in DOMAIN items' : items'[i].el.size = unit
                      /\ \A c \in Consumers : Busy(c)' => cur'[c].el.size = unit
    BY <1>1 DEF Uniform
  <1>2. ASSUME NEW p \in Producers, Producer(p)
        PROVE  /\ \A q \in Producers : Asking(q)' => offer'[q].el.size = unit
               /\ \A i \in DOMAIN items' : items'[i].el.size = unit
               /\ \A c \in Consumers : Busy(c)' => cur'[c].el.size = unit
    <2>1. CASE OfferBegin(p)
      <3>1. PICK e \in Elements :
              /\ MayMeasure(e.size) /\ offer' = [offer EXCEPT ![p] = [el |-> e, bd |-> None]]
              /\ ppc' = [ppc EXCEPT ![p] = "add"] /\ UNCHANGED <<items, cpc, cur>>
        BY <2>1 DEF OfferBegin, consVars
      <3>2. e.size = unit
        BY <3>1 DEF MayMeasure
      <3> QED BY <3>1, <3>2 DEF Uniform, Asking, Busy, Types
    <2>2. CASE AddPush(p)
      <3>1. PICK b : /\ items' = Append(items, [el |-> offer[p].el, bd |-> b])
                     /\ offer' = [offer EXCEPT ![p] = IF waitForResult
                                    THEN [el |-> offer[p].el, bd |-> b] ELSE None]
                     /\ ppc[p] = "add" /\ cur' = cur /\ SignalElements
                     /\ ppc' = [ppc EXCEPT ![p] = IF waitForResult THEN "await" ELSE "idle"]
        BY <2>2 DEF AddPush
      <3>2. \A q \in Producers : Asking(q)' => q # p /\ Asking(q) /\ offer'[q] = offer[q]
        BY <3>1 DEF Asking, Types
      <3>3. \A c \in Consumers : Busy(c)' => Busy(c)
        BY <3>1 DEF SignalElements, Busy, Types
      <3>4. \A i \in DOMAIN items' : items'[i].el.size = unit
        <4>1. offer[p].el.size = unit
          BY <3>1 DEF Uniform, Asking
        <4>2. /\ items \in Seq(Nodes) /\ Len(items) \in Nat /\ DOMAIN items = 1..Len(items)
              /\ DOMAIN items' = 1..(Len(items) + 1)
              /\ items'[Len(items) + 1] = [el |-> offer[p].el, bd |-> b]
              /\ \A i \in 1..Len(items) : items'[i] = items[i]
          BY <3>1 DEF Types
        <4> QED BY <4>1, <4>2 DEF Uniform
      <3> QED BY <3>1, <3>2, <3>3, <3>4 DEF Uniform
    <2>3. CASE ~OfferBegin(p) /\ ~AddPush(p)
      <3>1. /\ UNCHANGED <<items, cpc, cur>>
            /\ \A q \in Producers : ppc'[q] \in {"add", "cancelled"} =>
                 ppc[q] \in {"add", "cancelled"} /\ offer'[q] = offer[q]
        BY <1>2, <2>3 DEF Producer, OfferRefused, AddLock, AddFull, AddWait, AddWoken, AddCtxDone,
          AddCtxRelock, AddCancelled, AwaitResult, AwaitCtxDone, ReturnError, queueVars, prodVars,
          consVars, Types
      <3> QED BY <3>1 DEF Uniform, Asking, Busy
    <2> QED BY <2>1, <2>2, <2>3
  <1>3. ASSUME NEW c \in Consumers, Consumer(c)
        PROVE  /\ \A q \in Producers : Asking(q)' => offer'[q].el.size = unit
               /\ \A i \in DOMAIN items' : items'[i].el.size = unit
               /\ \A d \in Consumers : Busy(d)' => cur'[d].el.size = unit
    <2>1. CASE ReadPop(c)
      <3>1. /\ items # <<>> /\ items' = Tail(items) /\ cur' = [cur EXCEPT ![c] = Head(items)]
            /\ cpc' = [cpc EXCEPT ![c] = "consume"] /\ UNCHANGED <<ppc, offer>>
        BY <2>1 DEF ReadPop, prodVars
      <3>2. items \in Seq(Nodes)
        BY DEF Types
      <3>3. /\ Len(items) \in Nat /\ Len(items) > 0 /\ DOMAIN items = 1..Len(items)
            /\ DOMAIN items' = 1..(Len(items) - 1) /\ Head(items) = items[1]
            /\ \A i \in 1..(Len(items) - 1) : items'[i] = items[i + 1]
        BY <3>1, <3>2
      <3>4. \A i \in 1..(Len(items) - 1) : i + 1 \in 1..Len(items)
        BY <3>3
      <3>5. 1 \in DOMAIN items
        BY <3>3
      <3>6. \A i \in DOMAIN items' : items'[i].el.size = unit
        BY <3>3, <3>4 DEF Uniform
      <3>7. \A d \in Consumers : Busy(d)' => cur'[d].el.size = unit
        BY <3>1, <3>3, <3>5 DEF Uniform, Busy, Types
      <3> QED BY <3>1, <3>6, <3>7 DEF Uniform, Asking
    <2>2. CASE ~ReadPop(c)
      <3>1. /\ UNCHANGED <<items, ppc, offer>>
            /\ \A d \in Consumers : cpc'[d] \in {"consume", "signal"} =>
                 cpc[d] \in {"consume", "signal"} /\ cur'[d] = cur[d]
        BY <1>3, <2>2 DEF Consumer, ReadLock, ReadStopped, ReadPark, OnDoneLock, OnDoneRelease,
          OnDoneSend, OnDoneFinish, queueVars, prodVars, consVars, Types
      <3> QED BY <3>1 DEF Uniform, Asking, Busy
    <2> QED BY <2>1, <2>2
  <1>4. ASSUME Shutdown \/ UNCHANGED vars
        PROVE  /\ \A q \in Producers : Asking(q)' => offer'[q].el.size = unit
               /\ \A i \in DOMAIN items' : items'[i].el.size = unit
               /\ \A c \in Consumers : Busy(c)' => cur'[c].el.size = unit
    <2>1. /\ UNCHANGED <<items, ppc, offer, cur>>
          /\ \A c \in Consumers : cpc'[c] \in {"consume", "signal"} => cpc'[c] = cpc[c]
      BY <1>4 DEF Shutdown, ShutdownLock, ShutdownStop, ShutdownReturns, vars, queueVars, prodVars,
        consVars, Types
    <2> QED BY <2>1 DEF Uniform, Asking, Busy
  <1> QED BY <1>2, <1>3, <1>4 DEF Next

-----------------------------------------------------------------------------
(* Free places *)

\* What a free place may be taken up by.
Wakeups == C!Owed + Cardinality(Trying)

\* Zero adds nothing.
LEMMA PlusNothing == \A c \in Int : \A s : s = 0 => c + s = c
  OBVIOUS

\* What Owed is, before and after a step.
LEMMA OwedCases ==
  ASSUME ch \in {0, 1}, ch' \in {0, 1}
  PROVE  /\ \/ C!Owed = ch /\ \A g \in Goroutines : at[g] # "send"
            \/ C!Owed = ch + 1 /\ \E g \in Goroutines : at[g] = "send"
         /\ \/ C!Owed' = ch' /\ \A g \in Goroutines : at'[g] # "send"
            \/ C!Owed' = ch' + 1 /\ \E g \in Goroutines : at'[g] = "send"
  <1>0. ch' \in Int
    OBVIOUS
  <1>1. \/ C!Owed = ch /\ \A g \in Goroutines : at[g] # "send"
        \/ C!Owed = ch + 1 /\ \E g \in Goroutines : at[g] = "send"
    <2>1. CASE \E g \in Goroutines : at[g] = "send"
      BY <2>1 DEF C!Owed
    <2>2. CASE \A g \in Goroutines : at[g] # "send"
      BY <2>2 DEF C!Owed
    <2> QED BY <2>1, <2>2
  <1>2. \/ C!Owed' = ch' /\ \A g \in Goroutines : at'[g] # "send"
        \/ C!Owed' = ch' + 1 /\ \E g \in Goroutines : at'[g] = "send"
    <2>1. CASE \E g \in Goroutines : at'[g] = "send"
      BY <2>1 DEF C!Owed
    <2>2. CASE \A g \in Goroutines : at'[g] # "send"
      <3> DEFINE sent == IF \E g \in Goroutines : at'[g] = "send" THEN 1 ELSE 0
      <3>1. C!Owed' = ch' + sent
        BY DEF C!Owed
      <3>2. sent = 0
        BY <2>2
      <3> HIDE DEF sent
      <3>3. ch' + sent = ch'
        BY <1>0, <3>2, PlusNothing, Zenon
      <3>4. C!Owed' = ch'
        BY <3>1, <3>3, Zenon
      <3> QED BY <2>2, <3>4
    <2> QED BY <2>1, <2>2
  <1> QED BY <1>1, <1>2

\* Wakeups can be counted.
LEMMA WakeupsNatural ==
  ASSUME ch \in {0, 1}, ch' \in {0, 1}
  PROVE  /\ C!Owed \in Nat /\ C!Owed' \in Nat
         /\ IsFiniteSet(Trying) /\ Cardinality(Trying) \in Nat
         /\ IsFiniteSet(Trying') /\ Cardinality(Trying') \in Nat
         /\ Wakeups \in Nat /\ Wakeups' \in Nat
  <1>1. IsFiniteSet(Trying) /\ IsFiniteSet(Trying')
    BY FS_Subset, QueueAssumption DEF Trying
  <1>2. Cardinality(Trying) \in Nat /\ Cardinality(Trying') \in Nat
    BY <1>1, FS_CardinalityType
  <1>3. C!Owed \in Nat /\ C!Owed' \in Nat
    BY OwedCases
  <1> QED BY <1>1, <1>2, <1>3 DEF Wakeups

\* The count is kept by a step that gives back one place and announces a wakeup,
\* one that uses a place and a wakeup, and one that does neither.
LEMMA CountKept ==
  ASSUME NEW u \in Nat, NEW s \in Int, NEW t \in Int, NEW v \in Nat, NEW w \in Nat,
         s + (v + 1) * u > Cap,
         \/ t = s /\ w >= v
         \/ t = s - u /\ w >= v + 1
         \/ t = s + u /\ w + 1 >= v
  PROVE  t + (w + 1) * u > Cap
  <1> USE QueueAssumption
  <1>1. ASSUME NEW a \in Nat, NEW b \in Nat, a <= b PROVE a * u <= b * u
    BY <1>1
  <1>2. \A a \in Nat : (a + 1) * u = a * u + u
    OBVIOUS
  <1>3. \A a \in Nat : a * u \in Nat
    OBVIOUS
  <1>4. (v + 1) * u = v * u + u /\ (w + 1) * u = w * u + u /\ v * u \in Nat /\ w * u \in Nat
    BY <1>2, <1>3
  <1>5. CASE t = s /\ w >= v
    BY <1>1, <1>4, <1>5
  <1>6. CASE t = s - u /\ w >= v + 1
    <2>1. (v + 1) * u <= w * u
      BY <1>1, <1>6
    <2> QED BY <2>1, <1>4, <1>6
  <1>7. CASE t = s + u /\ w + 1 >= v
    <2>1. v * u <= (w + 1) * u
      BY <1>1, <1>7
    <2> QED BY <2>1, <1>4, <1>7
  <1> QED BY <1>5, <1>6, <1>7

\* One place more is at least one place.
LEMMA Multiples ==
  ASSUME NEW u \in Nat, NEW w \in Nat
  PROVE  (w + 1) * u >= u /\ (w + 1) * u \in Int
  <1>1. (w + 1) * u = w * u + u /\ w * u \in Nat
    OBVIOUS
  <1> QED BY <1>1

\* What a step does to the count of the free places.
Kept ==
  \/ size' = size /\ Wakeups' >= Wakeups
  \/ size' = size - unit /\ Wakeups' >= Wakeups + 1
  \/ size' = size + unit /\ Wakeups' + 1 >= Wakeups

\* No step leaves a free place to producers that sleep.
LEMMA FreePlaceInvariant ==
  ASSUME Data, CondOK, Uniform, FreePlaceIsOffered, [Next]_vars
  PROVE  FreePlaceIsOffered'
  <1>1. unit' = unit
    BY DEF Next, Producer, Consumer, Shutdown, OfferRefused, OfferBegin, AddLock, AddFull, AddWait,
      AddWoken, AddCtxDone, AddCtxRelock, AddCancelled, AddPush, AwaitResult, AwaitCtxDone,
      ReturnError, ReadLock, ReadPop, ReadStopped, ReadPark, OnDoneLock, OnDoneRelease, OnDoneSend,
      OnDoneFinish, ShutdownLock, ShutdownStop, ShutdownReturns, confVars, vars
  <1> SUFFICES ASSUME unit # None, waiting' > 0
               PROVE  size' + (Wakeups' + 1) * unit > Cap
    BY <1>1 DEF FreePlaceIsOffered, Wakeups
  <1>2. CondOK'
    BY CondInvariant
  <1>3. /\ waiting \in Nat /\ ch \in {0, 1} /\ ch' \in {0, 1} /\ at \in [Goroutines -> C!Positions]
        /\ Producers \subseteq Goroutines /\ Consumers \subseteq Goroutines /\ Stopper \in Goroutines
    BY <1>2 DEF CondOK, C!TypeOK, Goroutines
  <1>4. size \in Int /\ size' \in Int /\ unit \in Nat /\ Cap \in Nat
    <2>1. size' \in Int
      BY DataInvariant DEF Data, Types
    <2> QED BY <2>1, QueueAssumption DEF Data, Types, Uniform, Fitting
  <1>5. Wakeups \in Nat /\ Wakeups' \in Nat
    BY <1>3, WakeupsNatural
  <1>6. ASSUME waiting > 0, Kept PROVE size' + (Wakeups' + 1) * unit > Cap
    <2>1. size + (Wakeups + 1) * unit > Cap
      BY <1>6 DEF FreePlaceIsOffered, Wakeups
    <2> HIDE DEF Wakeups
    <2> QED BY <2>1, <1>4, <1>5, <1>6, CountKept DEF Kept
  <1>7. ASSUME Trying \subseteq Trying' PROVE Cardinality(Trying) <= Cardinality(Trying')
    BY <1>3, <1>7, WakeupsNatural, FS_Subset
  <1>8. ASSUME size' = size, Trying \subseteq Trying', C!Owed' >= C!Owed PROVE Kept
    BY <1>3, <1>7, <1>8, WakeupsNatural DEF Kept, Wakeups
  <1>9. ASSUME NEW p \in Producers, Producer(p)
        PROVE  size' + (Wakeups' + 1) * unit > Cap
    <2>0. p \in Goroutines
      BY <1>3
    <2>1. CASE AddFull(p) \/ AddWait(p)
      <3>1. size' = size /\ ~Fits(p) /\ ppc[p] = "add"
        BY <2>1 DEF AddFull, AddWait, ReturnError, queueVars
      <3>2. size + unit > Cap
        BY <3>1, <1>4 DEF Fits, Uniform, Asking
      <3>3. (Wakeups' + 1) * unit >= unit
        BY <1>4, <1>5, Multiples
      <3>4. (Wakeups' + 1) * unit \in Int
        BY <1>4, <1>5, Multiples
      <3> HIDE DEF Wakeups
      <3> QED BY <3>1, <3>2, <3>3, <3>4, <1>4
    <2>2. CASE AddPush(p)
      <3>1. /\ ppc[p] = "add" /\ at[p] = "crit" /\ at' = [at EXCEPT ![p] = "out"]
            /\ ppc' = [ppc EXCEPT ![p] = IF waitForResult THEN "await" ELSE "idle"]
            /\ UNCHANGED <<waiting, ch>> /\ size' = size + offer[p].el.size
        BY <2>2 DEF AddPush, C!Unlock
      <3>2. size' = size + unit
        BY <3>1 DEF Uniform, Asking
      <3>3. Trying = Trying' \cup {p} /\ p \notin Trying'
        BY <3>1, <1>3, <2>0 DEF Trying, Data, Types
      <3>4. Cardinality(Trying) = Cardinality(Trying') + 1
        BY <3>3, <1>3, WakeupsNatural, FS_AddElement
      <3>5. C!Owed' = C!Owed
        BY <3>1, <1>3, <2>0 DEF C!Owed
      <3>6. Kept
        BY <3>2, <3>4, <3>5, <1>3, WakeupsNatural DEF Kept, Wakeups
      <3> QED BY <3>1, <3>6, <1>6
    <2>3. CASE AddWoken(p)
      <3>1. ppc' = ppc /\ ppc[p] = "add" /\ size' = size /\ waiting' = waiting
        BY <2>3 DEF AddWoken, C!Receive, C!Relock, prodVars, queueVars
      <3>2. CASE C!Receive(p)
        <4>1. at[p] = "select" /\ ch = 1 /\ ch' = 0 /\ at' = [at EXCEPT ![p] = "woken"]
          BY <3>2 DEF C!Receive
        <4>2. Trying' = Trying \cup {p} /\ p \notin Trying
          BY <4>1, <3>1, <1>3, <2>0 DEF Trying
        <4>3. Cardinality(Trying') = Cardinality(Trying) + 1
          BY <4>2, <1>3, WakeupsNatural, FS_AddElement
        <4>4. (\E g \in Goroutines : at[g] = "send") <=> (\E g \in Goroutines : at'[g] = "send")
          BY <4>1, <1>3, <2>0
        <4>5. C!Owed' + 1 = C!Owed
          BY <4>1, <4>4 DEF C!Owed
        <4>6. Kept
          BY <3>1, <4>3, <4>5, <1>3, WakeupsNatural DEF Kept, Wakeups
        <4> QED BY <3>1, <4>6, <1>6
      <3>3. CASE C!Relock(p)
        <4>1. at[p] = "woken" /\ ch' = ch /\ at' = [at EXCEPT ![p] = "crit"]
          BY <3>3 DEF C!Relock
        <4>2. Trying' = Trying /\ C!Owed' = C!Owed
          BY <4>1, <3>1, <1>3, <2>0 DEF Trying, C!Owed
        <4> QED BY <3>1, <4>2, <1>3, <1>6, <1>8, WakeupsNatural
      <3> QED BY <2>3, <3>2, <3>3 DEF AddWoken
    <2>4. CASE AddLock(p) \/ AddCtxDone(p) \/ AddCancelled(p)
      <3>1. /\ UNCHANGED <<size, waiting, ch>>
            /\ at[p] \in {"out", "select", "crit"}
            /\ \E x \in {"crit", "ctx", "out"} : at' = [at EXCEPT ![p] = x]
            /\ \/ ppc[p] = "add" /\ at[p] \in {"out", "select"} /\ \E x \in {"add", "cancelled"} :
                    ppc' = [ppc EXCEPT ![p] = x]
               \/ ppc[p] = "cancelled" /\ ppc' = [ppc EXCEPT ![p] = "idle"]
        <4>1. CASE AddLock(p)
          BY <4>1 DEF AddLock, C!Lock, queueVars, prodVars, Data, Types
        <4>2. CASE AddCtxDone(p)
          BY <4>2 DEF AddCtxDone, C!CtxDone, queueVars
        <4>3. CASE AddCancelled(p)
          BY <4>3 DEF AddCancelled, ReturnError, C!Unlock
        <4> QED BY <2>4, <4>1, <4>2, <4>3
      <3>2. Trying \subseteq Trying'
        BY <3>1, <1>3, <2>0 DEF Trying, Data, Types
      <3>3. C!Owed' = C!Owed
        BY <3>1, <1>3, <2>0 DEF C!Owed
      <3> QED BY <3>1, <3>2, <3>3, <1>3, <1>6, <1>8, WakeupsNatural
    <2>5. CASE OfferRefused(p) \/ OfferBegin(p) \/ AwaitResult(p) \/ AwaitCtxDone(p)
      <3>1. /\ UNCHANGED <<waiting, ch, at, size>>
            /\ \A q \in Producers : ppc[q] = "add" => ppc'[q] = "add"
        BY <2>5 DEF OfferRefused, OfferBegin, AwaitResult, AwaitCtxDone, condVars, queueVars,
          Data, Types
      <3>2. Trying \subseteq Trying' /\ C!Owed' = C!Owed
        BY <3>1 DEF Trying, C!Owed
      <3> QED BY <3>1, <3>2, <1>3, <1>6, <1>8, WakeupsNatural
    <2>6. CASE AddCtxRelock(p)
      <3>1. size' = size /\ ppc' = ppc /\ ppc[p] = "cancelled"
        BY <2>6 DEF AddCtxRelock, queueVars, prodVars
      <3>2. CASE C!CtxRelock(p)
        <4>1. /\ at[p] = "ctx" /\ ch' = ch /\ waiting > 0
              /\ at' = [at EXCEPT ![p] = "drain"] \/ at' = [at EXCEPT ![p] = "crit"]
          BY <3>2, <1>3 DEF C!CtxRelock
        <4>2. Trying' = Trying
          BY <3>1, <4>1, <1>3, <2>0 DEF Trying
        <4>3. C!Owed' = C!Owed
          BY <4>1, <1>3, <2>0 DEF C!Owed
        <4> QED BY <3>1, <4>1, <4>2, <4>3, <1>3, <1>6, <1>8, WakeupsNatural
      <3>3. CASE C!Drain(p)
        BY <3>3, <2>0, <1>3 DEF C!Drain, CondOK, Committed
      <3> QED BY <2>6, <3>2, <3>3 DEF AddCtxRelock
    <2> QED BY <1>9, <2>1, <2>2, <2>3, <2>4, <2>5, <2>6 DEF Producer
  <1>10. ASSUME NEW g \in Goroutines, g \notin Producers, ppc' = ppc, size' = size, waiting' = waiting,
                \/ ch' = ch /\ at[g] # "send" /\ \E x \in {"crit", "out"} : at' = [at EXCEPT ![g] = x]
                \/ at[g] = "send" /\ ch = 0 /\ ch' = 1 /\ at' = [at EXCEPT ![g] = "crit"]
                \/ ch' = ch /\ at' = at
         PROVE  size' + (Wakeups' + 1) * unit > Cap
    <2>1. Trying' = Trying
      BY <1>3, <1>10 DEF Trying
    <2>2. C!Owed' >= C!Owed
      <3>1. CASE at[g] = "send" /\ ch = 0 /\ ch' = 1
        BY <3>1, <1>3, OwedCases
      <3>2. CASE ch' = ch /\ \A h \in Goroutines : at[h] = "send" => at'[h] = "send"
        BY <3>2, <1>3, OwedCases
      <3>3. CASE ch' = ch /\ at[g] # "send" /\ \E x \in {"crit", "out"} : at' = [at EXCEPT ![g] = x]
        <4>1. \A h \in Goroutines : at[h] = "send" => at'[h] = "send"
          BY <3>3, <1>3
        <4> QED BY <3>2, <3>3, <4>1
      <3> QED BY <3>1, <3>2, <3>3, <1>10
    <2> QED BY <2>1, <2>2, <1>6, <1>8, <1>10
  <1>11. ASSUME NEW c \in Consumers, Consumer(c)
         PROVE  size' + (Wakeups' + 1) * unit > Cap
    <2>0. c \in Goroutines /\ c \notin Producers
      BY <1>3, QueueAssumption
    <2>1. CASE OnDoneRelease(c)
      <3>1. /\ cpc[c] = "consume" /\ at[c] = "crit" /\ ch' = ch /\ ppc' = ppc
            /\ waiting # 0 /\ at' = [at EXCEPT ![c] = "send"]
            /\ size' = size - cur[c].el.size
        BY <2>1 DEF OnDoneRelease, C!Signal, prodVars
      <3>2. size' = size - unit
        BY <3>1 DEF Uniform, Busy
      <3>3. Trying' = Trying
        BY <3>1, <1>3, <2>0 DEF Trying
      <3>4. C!Owed' = C!Owed + 1
        <4>1. \A g \in Goroutines : at[g] # "send"
          BY <3>1, <2>0 DEF CondOK, C!MutualExclusion, C!Holding
        <4>2. at'[c] = "send"
          BY <3>1, <1>3, <2>0
        <4> QED BY <4>1, <4>2, <3>1, <1>3, <2>0 DEF C!Owed
      <3>5. Kept
        BY <3>2, <3>3, <3>4, <1>3, WakeupsNatural DEF Kept, Wakeups
      <3> QED BY <3>1, <3>5, <1>3, <1>6
    <2>2. CASE ~OnDoneRelease(c)
      <3>1. /\ ppc' = ppc /\ size' = size /\ waiting' = waiting
            /\ \/ ch' = ch /\ at[c] # "send" /\ \E x \in {"crit", "out"} : at' = [at EXCEPT ![c] = x]
               \/ at[c] = "send" /\ ch = 0 /\ ch' = 1 /\ at' = [at EXCEPT ![c] = "crit"]
        BY <1>11, <2>2 DEF Consumer, ReadLock, ReadPop, ReadStopped, ReadPark, OnDoneLock,
          OnDoneSend, OnDoneFinish, C!Lock, C!Unlock, C!Send, queueVars, prodVars
      <3> QED BY <3>1, <2>0, <1>10
    <2> QED BY <2>1, <2>2
  <1>12. ASSUME Shutdown PROVE size' + (Wakeups' + 1) * unit > Cap
    <2>0. Stopper \in Goroutines /\ Stopper \notin Producers
      BY <1>3, QueueAssumption
    <2>1. /\ ppc' = ppc /\ size' = size /\ waiting' = waiting
          /\ \/ ch' = ch /\ at[Stopper] # "send" /\ \E x \in {"crit", "out"} : at' = [at EXCEPT ![Stopper] = x]
             \/ ch' = ch /\ at' = at
      BY <1>12 DEF Shutdown, ShutdownLock, ShutdownStop, ShutdownReturns, C!Lock, C!Unlock,
        condVars, queueVars, prodVars
    <2> QED BY <2>0, <2>1, <1>10
  <1>13. CASE UNCHANGED vars
    <2>1. UNCHANGED <<waiting, ch, at, size, ppc>>
      BY <1>13 DEF vars, condVars, queueVars, prodVars
    <2>2. Stopper \in Goroutines /\ Stopper \notin Producers
      BY <1>3, QueueAssumption
    <2> QED BY <2>1, <2>2, <1>10
  <1> QED BY <1>9, <1>11, <1>12, <1>13 DEF Next

-----------------------------------------------------------------------------
(* Shutdown *)

\* Stopping is inductive.
LEMMA StoppingInvariant ==
  ASSUME Data, Stopping, [Next]_vars
  PROVE  Stopping'
  <1>1. ASSUME NEW p \in Producers, Producer(p) PROVE Stopping'
    <2>1. CASE AddPush(p)
      <3>1. PICK m : items' = Append(items, m) /\ m.el = offer[p].el
        BY <2>1 DEF AddPush
      <3>2. /\ late' = IF stopped THEN late \cup {offer[p].el} ELSE late
            /\ UNCHANGED <<stopped, sd>>
        BY <2>1 DEF AddPush
      <3>3. \A c \in Consumers : cpc'[c] = "exit" <=> cpc[c] = "exit"
        <4>1. SignalElements
          BY <2>1 DEF AddPush
        <4> QED BY <4>1 DEF SignalElements, Data, Types
      <3>4. \A i \in DOMAIN items' : items'[i] = m \/ \E j \in DOMAIN items : items'[i] = items[j]
        <4>1. items \in Seq(Nodes) /\ items' = Append(items, m)
          BY <3>1 DEF Data, Types
        <4>2. /\ Len(items) \in Nat /\ DOMAIN items = 1..Len(items)
              /\ DOMAIN items' = 1..(Len(items) + 1) /\ items'[Len(items) + 1] = m
              /\ \A i \in 1..Len(items) : items'[i] = items[i]
          BY <4>1
        <4> QED BY <4>2
      <3> QED BY <3>1, <3>2, <3>3, <3>4 DEF Stopping
    <2>2. CASE ~AddPush(p)
      <3>1. UNCHANGED <<items, cpc, late, stopped, sd>>
        BY <1>1, <2>2 DEF Producer, OfferRefused, OfferBegin, AddLock, AddFull, AddWait, AddWoken,
          AddCtxDone, AddCtxRelock, AddCancelled, AwaitResult, AwaitCtxDone, ReturnError,
          queueVars, consVars
      <3> QED BY <3>1 DEF Stopping
    <2> QED BY <2>1, <2>2
  <1>2. ASSUME NEW c \in Consumers, Consumer(c) PROVE Stopping'
    <2>1. CASE ReadPop(c)
      <3>1. /\ items # <<>> /\ items' = Tail(items) /\ cpc[c] = "read"
            /\ cpc' = [cpc EXCEPT ![c] = "consume"] /\ UNCHANGED <<late, stopped, sd>>
        BY <2>1 DEF ReadPop
      <3>2. \A i \in DOMAIN items' : \E j \in DOMAIN items : items'[i] = items[j]
        <4>1. items \in Seq(Nodes) /\ items # <<>>
          BY <3>1 DEF Data, Types
        <4>2. /\ Len(items) \in Nat /\ DOMAIN items = 1..Len(items)
              /\ DOMAIN items' = 1..(Len(items) - 1)
              /\ \A i \in 1..(Len(items) - 1) : items'[i] = items[i + 1]
          BY <4>1, <3>1
        <4>3. \A i \in 1..(Len(items) - 1) : i + 1 \in 1..Len(items)
          BY <4>2
        <4> QED BY <4>2, <4>3
      <3> QED BY <3>1, <3>2 DEF Stopping, Data, Types
    <2>2. CASE ReadStopped(c)
      <3>1. /\ items = <<>> /\ items' = items /\ stopped /\ cpc' = [cpc EXCEPT ![c] = "exit"]
            /\ UNCHANGED <<late, stopped, sd>>
        BY <2>2 DEF ReadStopped, queueVars
      <3> QED BY <3>1 DEF Stopping, Data, Types
    <2>3. CASE ReadPark(c) \/ OnDoneRelease(c) \/ OnDoneFinish(c)
      <3>1. /\ cpc[c] # "exit" /\ \E x \in {"parked", "signal", "read"} : cpc' = [cpc EXCEPT ![c] = x]
            /\ UNCHANGED <<items, late, stopped, sd>>
        BY <2>3 DEF ReadPark, OnDoneRelease, OnDoneFinish, queueVars
      <3> QED BY <3>1 DEF Stopping, Data, Types
    <2>4. CASE ReadLock(c) \/ OnDoneLock(c) \/ OnDoneSend(c)
      <3>1. UNCHANGED <<items, cpc, late, stopped, sd>>
        BY <2>4 DEF ReadLock, OnDoneLock, OnDoneSend, queueVars, consVars
      <3> QED BY <3>1 DEF Stopping
    <2> QED BY <1>2, <2>1, <2>2, <2>3, <2>4 DEF Consumer
  <1>3. ASSUME Shutdown PROVE Stopping'
    <2>1. CASE ShutdownLock
      BY <2>1 DEF ShutdownLock, Stopping, queueVars, consVars
    <2>2. CASE ShutdownStop
      BY <2>2 DEF ShutdownStop, Stopping, Data, Types
    <2>3. CASE ShutdownReturns
      BY <2>3 DEF ShutdownReturns, Stopping, queueVars, consVars
    <2> QED BY <1>3, <2>1, <2>2, <2>3 DEF Shutdown
  <1>4. CASE UNCHANGED vars
    BY <1>4 DEF vars, queueVars, consVars, Stopping
  <1> QED BY <1>1, <1>2, <1>3, <1>4 DEF Next

-----------------------------------------------------------------------------
\* The inductive invariant of the memory queue.
IInv == Data /\ CondOK /\ NoLostWakeup /\ Uniform /\ FreePlaceIsOffered /\ Stopping

\* The invariant holds at the start.
LEMMA IInvInit == Init => IInv
  <1> SUFFICES ASSUME Init PROVE IInv
    OBVIOUS
  <1>1. CondOK
    BY QueueGoroutines DEF Init, C!Init, CondOK, C!TypeOK, C!MutualExclusion, Committed,
      C!Positions, C!Holding
  <1>2. NoLostWakeup
    BY DEF Init, C!Init, NoLostWakeup, NoItemWaitsForParked, SpaceWakeupPending
  <1>3. Stopping
    BY DEF Init, Stopping
  <1>4. Uniform
    BY DEF Init, Uniform, Busy, Asking
  <1>5. FreePlaceIsOffered
    BY DEF Init, C!Init, FreePlaceIsOffered
  <1> QED BY <1>1, <1>2, <1>3, <1>4, <1>5, DataInit DEF IInv

\* Every step of the queue preserves the invariant.
LEMMA IInvStep == IInv /\ [Next]_vars => IInv'
  <1> SUFFICES ASSUME IInv, [Next]_vars PROVE IInv'
    OBVIOUS
  <1>1. Data' /\ CondOK'
    BY DataInvariant, CondInvariant DEF IInv
  <1>2. NoLostWakeup' /\ Stopping'
    BY ParkedInvariant, SpaceInvariant, StoppingInvariant DEF IInv, NoLostWakeup
  <1>3. Uniform' /\ FreePlaceIsOffered'
    BY UniformInvariant, FreePlaceInvariant DEF IInv
  <1> QED BY <1>1, <1>2, <1>3 DEF IInv

\* In every reachable state of the queue, for any producers, consumers, capacity
\* and sizes, the invariant holds.
THEOREM QueueInvariant == Spec => []IInv
  BY IInvInit, IInvStep, PTL DEF Spec

-----------------------------------------------------------------------------
(* What follows from it *)

\* The sum over positions is the total of the sizes there.
LEMMA SizesAtTotal ==
  ASSUME NEW s, NEW I, IsFiniteSet(I), \A x \in I : s[x].el.size \in Int
  PROVE  SizesAt(s, I) = Total([x \in I |-> s[x].el.size], I)
  <1> DEFINE f == [x \in I |-> s[x].el.size]
             It(H) == H = [t \in SUBSET I |->
                             IF t = {} THEN 0 ELSE s[Pick(t)].el.size + H[t \ {Pick(t)}]]
  <1>1. \A H : It(H) <=> Sums(f, I, H)
    BY Picked DEF Sums
  <1>2. SizesAt(s, I) = (CHOOSE H : It(H))[I]
    BY DEF SizesAt, MapThenSumSet, MapThenFoldSet, Pick
  <1> HIDE DEF It, f
  <1>3. (CHOOSE H : It(H)) = CHOOSE H : Sums(f, I, H)
    BY <1>1, Zenon
  <1> QED BY <1>2, <1>3 DEF Total, f

\* The same over elements, of which no two positions hold the same.
LEMMA SizesAtElements ==
  ASSUME NEW s, NEW I, IsFiniteSet(I), \A x \in I : s[x].el \in Elements,
         \A x, y \in I : s[x].el = s[y].el => x = y
  PROVE  SizesAt(s, I) = Total(SizeOf, {s[x].el : x \in I})
  <1> DEFINE g == [x \in I |-> s[x].el.size]
             h == [x \in I |-> s[x].el]
  <1>1. \A x \in I : s[x].el.size \in Int /\ SizeOf[h[x]] \in Int /\ g[x] = SizeOf[h[x]]
    BY ElementFields
  <1>2. \A x, y \in I : h[x] = h[y] => x = y
    OBVIOUS
  <1>3. {h[x] : x \in I} = {s[x].el : x \in I}
    OBVIOUS
  <1>4. SizesAt(s, I) = Total(g, I)
    BY <1>1, SizesAtTotal
  <1> HIDE DEF g, h
  <1>5. Total(g, I) = Total(SizeOf, {h[x] : x \in I})
    BY <1>1, <1>2, TotalImage
  <1> QED BY <1>3, <1>4, <1>5

\* What the queue counts is what its nodes and the exporting consumers' add up to.
LEMMA SizeIsExact ==
  ASSUME Data
  PROVE  size = SizesAt(items, DOMAIN items) + SizesAt(cur, Exporting)
  <1> USE DEF Data
  <1> DEFINE A == {items[i].el : i \in DOMAIN items}
             B == {cur[c].el : c \in Exporting}
  <1>1. IsFiniteSet(DOMAIN items) /\ \A i \in DOMAIN items : items[i] \in Nodes
    <2>1. items \in Seq(Nodes) /\ Len(items) \in Nat /\ DOMAIN items = 1..Len(items)
      BY DEF Types
    <2> QED BY <2>1, FS_Interval
  <1>2. IsFiniteSet(Exporting) /\ \A c \in Exporting : cur[c] \in Nodes
    BY FS_Subset, QueueAssumption DEF Exporting, Types, Roles, Busy
  <1>3. SizesAt(items, DOMAIN items) = Total(SizeOf, A)
    BY <1>1, NodesAreOffered, SizesAtElements DEF Unique, Apart
  <1>4. SizesAt(cur, Exporting) = Total(SizeOf, B)
    <2>1. \A c, d \in Exporting : cur[c].el = cur[d].el => c = d
      BY DEF Unique, Apart, Exporting, Busy
    <2>2. \A c \in Exporting : cur[c].el \in Elements
      BY <1>2, NodesAreOffered
    <2> QED BY <1>2, <2>1, <2>2, SizesAtElements
  <1>5. A \cap B = {}
    BY DEF Unique, Apart, Exporting, Busy
  <1>6. A \subseteq Reserved /\ B \subseteq Reserved /\ A \cup B = Reserved
    BY DEF Reserved
  <1> HIDE DEF A, B
  <1>7. IsFiniteSet(A) /\ IsFiniteSet(B)
    BY <1>6, FS_Subset DEF SizeIs
  <1>8. \A x \in A \cup B : SizeOf[x] \in Int
    BY <1>6, ReservedElements, ElementFields
  <1>9. Total(SizeOf, A \cup B) = Total(SizeOf, A) + Total(SizeOf, B)
    BY <1>5, <1>7, <1>8, TotalUnion
  <1> QED BY <1>3, <1>4, <1>6, <1>9 DEF SizeIs

\* mq.size is exactly what the accepted and unfinished elements add up to and
\* stays within the capacity, and every reference is given back exactly once,
\* for any number of producers and consumers, any capacity and any sizes.
THEOREM QueueSizeAccounting == Spec => []SizeAccounting
  <1>1. IInv => SizeAccounting
    <2> SUFFICES ASSUME IInv PROVE SizeAccounting
      OBVIOUS
    <2> USE DEF IInv, Data
    <2>1. allocated \in 0..Cardinality(Dones)
      <3>1. Settled \in SUBSET (Producers \X (1..MaxOffers))
        BY DEF Settled
      <3>2. 1..allocated \in SUBSET Dones /\ allocated \in Nat
        BY <3>1, DonesSuffice DEF Allocation, Types
      <3>3. Cardinality(Producers) * MaxOffers \in Int
        BY FS_CardinalityType, QueueAssumption
      <3>4. IsFiniteSet(Dones)
        BY <3>3, FS_Interval DEF Dones
      <3>5. Cardinality(1..allocated) <= Cardinality(Dones) /\ Cardinality(Dones) \in Nat
        BY <3>2, <3>4, FS_Subset, FS_CardinalityType
      <3>6. Cardinality(1..allocated) = allocated
        BY <3>2, FS_Interval
      <3> QED BY <3>2, <3>5, <3>6
    <2>2. TypeOK
      BY <2>1 DEF TypeOK, Types, CondOK, Uniform
    <2> QED BY <2>2, SizeIsExact DEF SizeAccounting, SizeIs
  <1> QED BY <1>1, QueueInvariant, PTL

\* A producer that waits for its result is never given that of another element,
\* and the consumer that hands a result over never finds the channel full.
THEOREM QueueResultIsOwn == Spec => []ResultIsOwn
  <1>1. IInv => ResultIsOwn
    <2> SUFFICES ASSUME IInv PROVE ResultIsOwn
      OBVIOUS
    <2> USE DEF IInv, Data
    <2>1. Taken \subseteq Dones
      <3>1. Settled \in SUBSET (Producers \X (1..MaxOffers))
        BY DEF Settled
      <3> QED BY <3>1, DonesSuffice DEF Allocation, Taken, Types
    <2>2. ASSUME NEW p \in Producers, ppc[p] = "await"
          PROVE  result[offer[p].bd] \in {None, offer[p].el}
      BY <2>1, <2>2 DEF Owned
    <2>3. ASSUME NEW c \in Consumers, cpc[c] = "signal" PROVE result[cur[c].bd] = None
      BY <2>1, <2>3 DEF Owned, Busy
    <2> QED BY <2>2, <2>3 DEF ResultIsOwn
  <1> QED BY <1>1, QueueInvariant, PTL

\* The chain of wakeups never breaks: no consumer stays parked while elements
\* wait, and while a producer sleeps on hasMoreSpace a wakeup is still to come,
\* though it may sleep beside free space until then.
THEOREM QueueNoLostWakeup == Spec => []NoLostWakeup
  <1>1. IInv => NoLostWakeup
    BY DEF IInv
  <1> QED BY <1>1, QueueInvariant, PTL

\* With requests of one size a free place is never left to sleeping producers
\* alone: as many wakeups are on their way, or producers about to try, as there
\* are places.
THEOREM QueueFreePlaceIsOffered == Spec => []FreePlaceIsOffered
  <1>1. IInv => FreePlaceIsOffered
    BY DEF IInv
  <1> QED BY <1>1, QueueInvariant, PTL

\* When Shutdown returns, whatever was accepted before the queue was stopped has
\* been exported and its producer has been answered.
THEOREM QueueShutdownDrains == Spec => []ShutdownDrains
  <1>1. IInv => ShutdownDrains
    <2> SUFFICES ASSUME IInv, sd = "done"
                 PROVE  /\ \A i \in DOMAIN items : items[i].el \in late
                        /\ \A p \in Producers :
                             ppc[p] = "await" => offer[p].el \in late \/ result[offer[p].bd] # None
      BY DEF ShutdownDrains
    <2> USE DEF IInv, Data
    <2>1. \A c \in Consumers : cpc[c] = "exit"
      BY DEF Stopping
    <2>2. \A i \in DOMAIN items : items[i].el \in late
      BY <2>1, QueueAssumption DEF Stopping
    <2>3. ASSUME NEW p \in Producers, ppc[p] = "await"
          PROVE  offer[p].el \in late \/ result[offer[p].bd] # None
      <3>1. offer[p].el \in Elements
        BY <2>3 DEF Roles, Types, Offered
      <3>2. \A c \in Consumers : ~Busy(c)
        BY <2>1 DEF Busy
      <3>3. \/ result[offer[p].bd] = offer[p].el
            \/ \E i \in DOMAIN items : items[i] = offer[p]
        BY <2>3, <3>2 DEF Owned
      <3> QED BY <2>2, <3>1, <3>3, NoneAssumption
    <2> QED BY <2>2, <2>3
  <1> QED BY <1>1, QueueInvariant, PTL
=============================================================================
