---------------------------- MODULE BatcherProofs ----------------------------
(***************************************************************************)
(* The batcher, for any number of consumers, keys, workers and requests of *)
(* any size: where each goroutine can be and what it then has (CInv), that *)
(* a waiting batch has somebody to flush it (Waiting), that each batch is  *)
(* in one place and of requests that were merged (DInv), what the wait     *)
(* groups and the worker pool count and what Shutdown has waited for       *)
(* (SInv), that Done is called once (Counted), and that what it is called  *)
(* with is true (AInv).                                                    *)
(***************************************************************************)
EXTENDS Batcher, FiniteSetTheorems, SequenceTheorems, Totals

-----------------------------------------------------------------------------
(* The goroutines' names *)

\* Timers, evictors and closers of partitions are helpers, all different.
LEMMA Names ==
  /\ \A p \in Parts : /\ Timer(p) \in Helpers /\ Evictor(p) \in Helpers /\ Closer(p) \in Helpers
                      /\ Timer(p).p = p /\ Evictor(p).p = p /\ Closer(p).p = p
                      /\ Timer(p).kind = "timer" /\ Evictor(p).kind = "evict"
                      /\ Closer(p).kind = "close"
  /\ \A g \in Helpers : /\ g.p \in Parts
                        /\ g = Timer(g.p) \/ g = Evictor(g.p) \/ g = Closer(g.p)
  BY DEF Timer, Evictor, Closer, Helpers

\* So no name stands for two goroutines.
LEMMA Different ==
  /\ \A p, q \in Parts :
       /\ Timer(p) # Evictor(q) /\ Timer(p) # Closer(q) /\ Evictor(p) # Closer(q)
       /\ p # q => Timer(p) # Timer(q) /\ Evictor(p) # Evictor(q) /\ Closer(p) # Closer(q)
  /\ \A c \in Consumers, p \in Parts : c # Timer(p) /\ c # Evictor(p) /\ c # Closer(p)
  /\ \A c \in Consumers : c \in Goroutines /\ c \notin Helpers
  /\ \A g \in Helpers : g \in Goroutines /\ g \notin Consumers
  <1>1. \A c \in Consumers : c \notin Helpers
    BY NamesAssumption
  <1>2. \A p, q \in Parts :
          /\ Timer(p) # Evictor(q) /\ Timer(p) # Closer(q) /\ Evictor(p) # Closer(q)
    BY Names
  <1>3. \A p, q \in Parts : p # q => Timer(p) # Timer(q) /\ Evictor(p) # Evictor(q) /\ Closer(p) # Closer(q)
    BY Names
  <1>4. \A c \in Consumers, p \in Parts : c # Timer(p) /\ c # Evictor(p) /\ c # Closer(p)
    BY Names, <1>1
  <1>5. /\ \A c \in Consumers : c \in Goroutines
        /\ \A g \in Helpers : g \in Goroutines
    BY DEF Goroutines
  <1> QED BY <1>1, <1>2, <1>3, <1>4, <1>5

\* Who is in Goroutines.
LEMMA Kinds ==
  ASSUME NEW g \in Goroutines
  PROVE  \/ g \in Consumers
         \/ \E p \in Parts : g = Timer(p) \/ g = Evictor(p) \/ g = Closer(p)
  BY Names DEF Goroutines

\* mb.lock is free, with Shutdown or with a goroutine.
LEMMA Holders ==
  /\ Free # Stopper
  /\ \A g \in Goroutines : g # Free /\ g # Stopper
  BY NamesAssumption

-----------------------------------------------------------------------------
(* Sequences *)

\* A sequence with one element in front.
LEMMA ConsFacts ==
  ASSUME NEW S, NEW s \in Seq(S), NEW x \in S
  PROVE  /\ <<x>> \o s \in Seq(S) /\ Len(<<x>> \o s) = Len(s) + 1
         /\ ToSet(<<x>> \o s) = {x} \cup ToSet(s)
         /\ IsInjective(s) /\ x \notin ToSet(s) => IsInjective(<<x>> \o s)
  <1> DEFINE t == <<x>> \o s
  <1>1. t \in Seq(S) /\ Len(t) = Len(s) + 1
    OBVIOUS
  <1>2. t[1] = x /\ \A i \in 1..Len(s) : t[i + 1] = s[i]
    OBVIOUS
  <1>3. \A j \in 1..Len(t) : j = 1 \/ (j - 1 \in 1..Len(s) /\ t[j] = s[j - 1])
    BY <1>1, <1>2
  <1>4. \A i \in 1..Len(s) : i + 1 \in 1..Len(t)
    BY <1>1
  <1>5. 1 \in 1..Len(t)
    BY <1>1
  <1> HIDE DEF t
  <1>6. ToSet(t) = {x} \cup ToSet(s)
    <2>1. DOMAIN t = 1..Len(t) /\ DOMAIN s = 1..Len(s)
      BY <1>1
    <2>2. \A y : y \in ToSet(t) => y = x \/ y \in ToSet(s)
      BY <1>2, <1>3, <2>1 DEF ToSet
    <2>3. x \in ToSet(t)
      BY <1>2, <1>5, <2>1 DEF ToSet
    <2>4. ASSUME NEW y \in ToSet(s) PROVE y \in ToSet(t)
      <3>1. PICK i \in 1..Len(s) : y = s[i]
        BY <2>1 DEF ToSet
      <3> QED BY <1>2, <1>4, <2>1, <3>1 DEF ToSet
    <2> QED BY <2>2, <2>3, <2>4
  <1>7. ASSUME IsInjective(s), x \notin ToSet(s) PROVE IsInjective(t)
    <2> SUFFICES ASSUME NEW a \in 1..Len(t), NEW b \in 1..Len(t), t[a] = t[b] PROVE a = b
      BY <1>1 DEF IsInjective
    <2>1. a = 1 \/ (a - 1 \in 1..Len(s) /\ t[a] = s[a - 1])
      BY <1>3
    <2>2. b = 1 \/ (b - 1 \in 1..Len(s) /\ t[b] = s[b - 1])
      BY <1>3
    <2>3. \A i \in 1..Len(s) : s[i] # x
      BY <1>7 DEF ToSet
    <2>4. CASE a = 1
      BY <2>2, <2>3, <2>4, <1>2
    <2>5. CASE b = 1
      BY <2>1, <2>3, <2>5, <1>2
    <2>6. CASE a # 1 /\ b # 1
      <3>1. a - 1 \in DOMAIN s /\ b - 1 \in DOMAIN s /\ s[a - 1] = s[b - 1]
        BY <2>1, <2>2, <2>6
      <3>2. a - 1 = b - 1
        BY <3>1, <1>7 DEF IsInjective
      <3> QED BY <3>2
    <2> QED BY <2>4, <2>5, <2>6
  <1> QED BY <1>1, <1>6, <1>7 DEF t

\* A sequence with one element left out.
LEMMA RemoveAtFacts ==
  ASSUME NEW S, NEW s \in Seq(S), NEW i \in DOMAIN s
  PROVE  /\ RemoveAt(s, i) \in Seq(S) /\ Len(RemoveAt(s, i)) = Len(s) - 1
         /\ IsInjective(s) => /\ IsInjective(RemoveAt(s, i))
                              /\ ToSet(RemoveAt(s, i)) = ToSet(s) \ {s[i]}
  <1> DEFINE a == SubSeq(s, 1, i - 1)
             b == SubSeq(s, i + 1, Len(s))
             t == a \o b
  <1>1. i \in 1..Len(s) /\ Len(s) \in Nat
    OBVIOUS
  <1>2. a \in Seq(S) /\ Len(a) = i - 1 /\ \A j \in 1..(i - 1) : a[j] = s[j]
    BY <1>1
  <1>3. b \in Seq(S) /\ Len(b) = Len(s) - i /\ \A j \in 1..(Len(s) - i) : b[j] = s[j + i]
    BY <1>1
  <1> HIDE DEF a, b
  <1>4. t \in Seq(S) /\ Len(t) = Len(s) - 1
    BY <1>1, <1>2, <1>3
  <1>5. \A j \in 1..(Len(s) - 1) : t[j] = IF j < i THEN s[j] ELSE s[j + 1]
    <2> SUFFICES ASSUME NEW j \in 1..(Len(s) - 1) PROVE t[j] = IF j < i THEN s[j] ELSE s[j + 1]
      OBVIOUS
    <2>1. CASE j < i
      BY <1>1, <1>2, <1>3, <2>1
    <2>2. CASE ~(j < i)
      <3>1. j - (i - 1) \in 1..(Len(s) - i)
        BY <1>1, <2>2
      <3>2. t[j] = b[j - (i - 1)]
        <4>1. Len(a) = i - 1 /\ j \in 1..(Len(a) + Len(b)) /\ ~(j <= Len(a))
          BY <1>1, <1>2, <1>3, <2>2
        <4>2. t[j] = b[j - Len(a)]
          BY <1>2, <1>3, <4>1, ConcatProperties
        <4> QED BY <4>1, <4>2
      <3> QED BY <1>1, <1>3, <2>2, <3>1, <3>2
    <2> QED BY <2>1, <2>2
  <1>6. RemoveAt(s, i) = t
    BY DEF RemoveAt, a, b
  <1> HIDE DEF t
  <1>7. ASSUME IsInjective(s) PROVE IsInjective(t) /\ ToSet(t) = ToSet(s) \ {s[i]}
    <2>1. \A j, k \in 1..Len(s) : s[j] = s[k] => j = k
      BY <1>7 DEF IsInjective
    <2>2. IsInjective(t)
      BY <1>1, <1>4, <1>5, <2>1 DEF IsInjective
    <2>3. ASSUME NEW x \in ToSet(t) PROVE x \in ToSet(s) /\ x # s[i]
      <3>1. PICK j \in 1..(Len(s) - 1) : x = t[j]
        BY <1>4 DEF ToSet
      <3>2. \E k \in 1..Len(s) : k # i /\ x = s[k]
        BY <1>1, <1>5, <3>1
      <3> QED BY <1>1, <2>1, <3>2 DEF ToSet
    <2>4. ASSUME NEW x \in ToSet(s), x # s[i] PROVE x \in ToSet(t)
      <3>1. PICK j \in 1..Len(s) : x = s[j]
        BY DEF ToSet
      <3>2. \E k \in 1..(Len(s) - 1) : t[k] = x
        <4>1. CASE j < i
          BY <1>1, <1>5, <3>1, <4>1
        <4>2. CASE ~(j < i)
          <5>1. j - 1 \in 1..(Len(s) - 1) /\ ~(j - 1 < i) /\ (j - 1) + 1 = j
            BY <1>1, <2>4, <3>1, <4>2
          <5> QED BY <1>5, <3>1, <5>1
        <4> QED BY <4>1, <4>2
      <3> QED BY <1>4, <3>2 DEF ToSet
    <2> QED BY <2>2, <2>3, <2>4
  <1> QED BY <1>4, <1>6, <1>7

\* Front leaves out the last element.
LEMMA FrontFacts ==
  ASSUME NEW S, NEW s \in Seq(S), s # <<>>, IsInjective(s)
  PROVE  /\ Front(s) \in Seq(S) /\ Len(Front(s)) = Len(s) - 1
         /\ IsInjective(Front(s)) /\ Last(s) \in ToSet(s)
         /\ ToSet(Front(s)) = ToSet(s) \ {Last(s)}
  <1>1. Len(s) \in Nat /\ Len(s) >= 1
    OBVIOUS
  <1>2. /\ Front(s) \in Seq(S) /\ Len(Front(s)) = Len(s) - 1
        /\ \A j \in 1..(Len(s) - 1) : Front(s)[j] = s[j]
    <2> DEFINE t == SubSeq(s, 1, Len(s) - 1)
    <2>0. 1 \in Int /\ Len(s) - 1 \in Int /\ \A i \in 1..(Len(s) - 1) : s[i] \in S
      BY <1>1
    <2>1. t \in Seq(S) /\ Len(t) = Len(s) - 1
      <3>1. Len(t) = IF 1 <= Len(s) - 1 THEN (Len(s) - 1) - 1 + 1 ELSE 0
        BY <2>0, SubSeqProperties
      <3>2. t \in Seq(S)
        BY <2>0, SubSeqProperties
      <3>3. \A n \in Nat : n >= 1 => (IF 1 <= n - 1 THEN (n - 1) - 1 + 1 ELSE 0) = n - 1
        OBVIOUS
      <3>4. Len(t) = Len(s) - 1
        BY <1>1, <3>1, <3>3, Zenon
      <3> QED BY <3>2, <3>4
    <2>2. \A j \in 1..(Len(s) - 1) : t[j] = s[1 + j - 1]
      BY <1>1, <2>0, SubSeqProperties
    <2> QED BY <2>1, <2>2 DEF Front
  <1>3. \A j, k \in 1..Len(s) : s[j] = s[k] => j = k
    BY DEF IsInjective
  <1>4. IsInjective(Front(s))
    BY <1>1, <1>2, <1>3 DEF IsInjective
  <1>5. Last(s) \in ToSet(s)
    BY <1>1 DEF Last, ToSet
  <1>6. DOMAIN Front(s) = 1..(Len(s) - 1) /\ DOMAIN s = 1..Len(s)
    BY <1>1, <1>2
  <1>7. ToSet(Front(s)) = ToSet(s) \ {Last(s)}
    <2>1. ASSUME NEW x \in ToSet(Front(s)) PROVE x \in ToSet(s) /\ x # Last(s)
      <3>1. PICK j \in 1..(Len(s) - 1) : x = Front(s)[j]
        BY <1>6 DEF ToSet
      <3> QED BY <1>1, <1>2, <1>3, <1>6, <3>1 DEF ToSet, Last
    <2>2. ASSUME NEW x \in ToSet(s), x # Last(s) PROVE x \in ToSet(Front(s))
      <3>1. PICK j \in 1..Len(s) : x = s[j]
        BY <1>6 DEF ToSet
      <3>2. j \in 1..(Len(s) - 1)
        BY <1>1, <2>2, <3>1 DEF Last
      <3> QED BY <1>2, <1>6, <3>1, <3>2 DEF ToSet
    <2> QED BY <2>1, <2>2
  <1> QED BY <1>2, <1>4, <1>5, <1>7

-----------------------------------------------------------------------------
(* The invariant of the goroutines *)

\* Where a consumer, a timer and a shutdownInternal can be.
ConsumerAt == {"idle", "get", "evict", "consume", "flush", "execute", "self"}
TimerAt == {"none", "select", "onEmpty", "lock", "evict", "flush", "execute", "exit"}
StopperAt == {"none", "begin", "last", "flush", "execute", "wait", "exit"}

\* The items of a request or of a batch.
RequestItems == Seq(Requests \X Nat)

\* The types of all that the goroutines' control depends on.
Types ==
  /\ partitioned \in BOOLEAN /\ stream \in Streams /\ panicked \in BOOLEAN
  /\ mbLock \in {Free, Stopper} \cup Goroutines
  /\ made \in 0..MaxRequests /\ key \in [Parts -> Keys \cup {None}]
  /\ lru \in Seq(1..made) /\ Len(lru) <= LruSize /\ IsInjective(lru)
  /\ victim \in (1..made) \cup {None}
  /\ active \in [Parts -> BOOLEAN] /\ onEmpty \in [Parts -> BOOLEAN]
  /\ armed \in [Parts -> BOOLEAN] /\ alone \in [Consumers -> BOOLEAN]
  /\ part \in [Consumers -> Parts] /\ req \in [Consumers -> Fetched \cup {None}]
  /\ sd \in {"running", "stopped", "waiting", "purge", "done"}
  /\ taken \in [Requests -> RequestItems \cup {None}]
  /\ cur \in [Parts -> Batches \cup {None}] /\ running \subseteq Batches
  /\ jobs \in [Goroutines -> Seq(Batches)]

\* Where each kind of goroutine can be.
Positions ==
  /\ pc \in [Goroutines -> ConsumerAt \cup TimerAt \cup StopperAt]
  /\ \A c \in Consumers : pc[c] \in ConsumerAt
  /\ \A p \in Parts : pc[Timer(p)] \in TimerAt
                      /\ pc[Evictor(p)] \in StopperAt /\ pc[Closer(p)] \in StopperAt

\* The timer goroutine of p was started.
Started(p) == pc[Timer(p)] # "none"

\* Consumers: who has a request, and who knows a partition whose timer runs.
Consuming ==
  \A c \in Consumers :
    /\ pc[c] # "idle" => sd = "running"
    /\ pc[c] \in {"get", "evict", "consume"} <=> req[c] # None
    /\ pc[c] \in {"get", "evict"} => partitioned
    /\ alone[c] => pc[c] \in {"flush", "execute"}
    /\ pc[c] = "evict" => part[c] <= made /\ ~Started(part[c])
    /\ pc[c] \in {"consume", "flush", "execute", "self"} => Started(part[c])

\* mb.lock and the partition being evicted under it.
Locked ==
  /\ \A g \in Goroutines : pc[g] = "evict" <=> mbLock = g
  /\ mbLock \in Goroutines <=> victim # None
  /\ mbLock = Stopper <=> partitioned /\ sd \in {"waiting", "purge"}
  /\ victim \notin ToSet(lru)
  /\ ~partitioned => lru = <<>> /\ made = 1 /\ \A c \in Consumers : part[c] = 1
  /\ \A p \in Parts : onEmpty[p] => partitioned

\* shutdownInternal is past its first step.
Stopping == {"last", "flush", "execute", "wait", "exit"}

\* The goroutines of a partition: its timer runs from Start on, and it is shut
\* down once, by an evictor when it has left the LRU.
Partitions ==
  \A p \in Parts :
    /\ p > made => ~Started(p) /\ pc[Evictor(p)] = "none" /\ pc[Closer(p)] = "none"
    /\ p <= made /\ ~Started(p) => mbLock \in Consumers /\ part[mbLock] = p
    /\ pc[Timer(p)] = "exit" => ~active[p]
    /\ pc[Timer(p)] \in {"onEmpty", "lock", "evict"} => partitioned
    /\ pc[Evictor(p)] # "none" => partitioned /\ p # victim /\ p \notin ToSet(lru)
    /\ ~active[p] <=> pc[Evictor(p)] \in Stopping \/ pc[Closer(p)] \in Stopping
    /\ pc[Closer(p)] # "none" =>
         /\ sd \in {"waiting", "purge", "done"}
         /\ pc[Evictor(p)] # "none" =>
              pc[Closer(p)] = "exit" /\ pc[Evictor(p)] \in {"begin", "exit"}
         /\ sd \in {"purge", "done"} => pc[Closer(p)] = "exit"

\* A goroutine has batches to flush when it is in flush.
Busy == \A g \in Goroutines : jobs[g] # <<>> <=> pc[g] \in {"flush", "execute"}

\* A partition is made for a request that was taken, and only one.
Fetching == {r \in Requests : \E c \in Consumers : pc[c] = "get" /\ req[c].id = r}
Taken == {r \in Requests : taken[r] # None}

\* A request is with one consumer at most, and has made one partition at most.
Requested ==
  /\ \A c, d \in Consumers : req[c] # None /\ req[d] # None /\ req[c].id = req[d].id => c = d
  /\ \A c \in Consumers : req[c] # None => req[c].id \in Taken
  /\ partitioned => made <= Cardinality(Taken \ Fetching)

\* The invariant of the control of all goroutines.
CInv == Types /\ Positions /\ Consuming /\ Locked /\ Partitions /\ Busy /\ Requested

-----------------------------------------------------------------------------
(* Steps of one goroutine that leave mb.lock and the LRU alone *)

\* The records that stand for requests and batches.
LEMMA Fields ==
  /\ \A x \in Fetched : x.id \in Requests /\ x.key \in Keys \cup {None}
  /\ \A b \in Batches : b.p \in Parts /\ b.items \in RequestItems /\ b.dones \in SUBSET Requests
  BY DEF Fetched, Batches, RequestItems

\* Everything about mb.lock, the LRU and the progress of Shutdown.
ctlVars == <<partitioned, sd, mbLock, lru, victim, made, part, taken>>

\* The part of the invariant that is about positions.
Control == Positions /\ Consuming /\ Locked /\ Partitions /\ Requested

\* A consumer that has its partition goes on, or is done.
LEMMA ConsumerMoves ==
  ASSUME CInv, NEW c \in Consumers, NEW n \in {"idle", "flush", "execute", "self"},
         pc[c] \in {"consume", "flush", "execute", "self"},
         pc' = [pc EXCEPT ![c] = n], UNCHANGED <<ctlVars, active, onEmpty>>,
         req' = [req EXCEPT ![c] = None], alone'[c] => n \in {"flush", "execute"},
         \A d \in Consumers \ {c} : alone'[d] = alone[d]
  PROVE  Control'
  <1> USE DEF CInv
  <1>1. c \in Goroutines /\ pc[c] \in ConsumerAt /\ n \in ConsumerAt
    BY Different DEF ConsumerAt
  <1>2. \A g \in Goroutines : pc'[g] = IF g = c THEN n ELSE pc[g]
    BY <1>1 DEF Positions
  <1>3. \A p \in Parts : /\ pc'[Timer(p)] = pc[Timer(p)] /\ pc'[Evictor(p)] = pc[Evictor(p)]
                         /\ pc'[Closer(p)] = pc[Closer(p)]
    BY <1>2, Names, Different
  <1>4. \A d \in Consumers : /\ pc'[d] = IF d = c THEN n ELSE pc[d]
                             /\ req'[d] = IF d = c THEN None ELSE req[d]
    BY <1>2, Different DEF Types
  <1>5. Positions'
    BY <1>1, <1>3, <1>4 DEF Positions
  <1>6. Consuming'
    <2>1. \A p \in Parts : Started(p)' = Started(p)
      BY <1>3 DEF Started
    <2>2. \A d \in Consumers : part[d] \in Parts
      BY DEF Types
    <2> SUFFICES ASSUME NEW d \in Consumers
                 PROVE  /\ pc'[d] # "idle" => sd = "running"
                        /\ pc'[d] \in {"get", "evict", "consume"} <=> req'[d] # None
                        /\ pc'[d] \in {"get", "evict"} => partitioned
                        /\ alone'[d] => pc'[d] \in {"flush", "execute"}
                        /\ pc'[d] = "evict" => part[d] <= made /\ ~Started(part[d])
                        /\ pc'[d] \in {"consume", "flush", "execute", "self"} => Started(part[d])
      BY <2>1, <2>2 DEF Consuming, ctlVars
    <2>3. CASE d = c
      BY <1>4, <2>3 DEF Consuming
    <2>4. CASE d # c
      BY <1>4, <2>4 DEF Consuming
    <2> QED BY <2>3, <2>4
  <1>7. Locked'
    <2>1. \A g \in Goroutines : pc'[g] = "evict" <=> pc[g] = "evict"
      BY <1>2
    <2> QED BY <2>1 DEF Locked, ctlVars
  <1>8. Partitions'
    BY <1>3 DEF Partitions, Started, ctlVars
  <1>9. Requested'
    <2>1. Taken' = Taken /\ Fetching' = Fetching
      BY <1>4 DEF Taken, Fetching, ctlVars
    <2> QED BY <1>4, <2>1 DEF Requested, ctlVars
  <1> QED BY <1>5, <1>6, <1>7, <1>8, <1>9 DEF Control

\* A timer goes on: it exits when its partition is inactive, and removes only
\* partitions of a multiBatcher.
LEMMA TimerMoves ==
  ASSUME CInv, NEW p \in Parts, NEW n \in TimerAt \ {"none", "evict"},
         pc[Timer(p)] \notin {"none", "evict"},
         pc' = [pc EXCEPT ![Timer(p)] = n], UNCHANGED <<ctlVars, active, onEmpty, req, alone>>,
         n = "exit" => ~active[p], n \in {"onEmpty", "lock"} => partitioned
  PROVE  Control'
  <1> USE DEF CInv
  <1>1. Timer(p) \in Goroutines
    BY Names, Different
  <1>2. \A g \in Goroutines : pc'[g] = IF g = Timer(p) THEN n ELSE pc[g]
    BY <1>1 DEF Positions
  <1>3. \A q \in Parts : /\ pc'[Timer(q)] = IF q = p THEN n ELSE pc[Timer(q)]
                         /\ pc'[Evictor(q)] = pc[Evictor(q)] /\ pc'[Closer(q)] = pc[Closer(q)]
    BY <1>2, Names, Different
  <1>4. \A d \in Consumers : pc'[d] = pc[d]
    BY <1>2, Different
  <1>5. \A q \in Parts : Started(q)' = Started(q)
    BY <1>3 DEF Started, TimerAt
  <1>6. Positions'
    BY <1>1, <1>3, <1>4 DEF Positions
  <1>7. Consuming'
    <2>1. \A d \in Consumers : part[d] \in Parts
      BY DEF Types
    <2> QED BY <1>4, <1>5, <2>1 DEF Consuming, ctlVars
  <1>8. Locked'
    <2>1. \A g \in Goroutines : pc'[g] = "evict" <=> pc[g] = "evict"
      BY <1>2
    <2> QED BY <2>1 DEF Locked, ctlVars
  <1>9. Partitions'
    <2> SUFFICES ASSUME NEW q \in Parts
                 PROVE  /\ pc'[Timer(q)] = "exit" => ~active[q]
                        /\ pc'[Timer(q)] \in {"onEmpty", "lock", "evict"} => partitioned
      BY <1>3, <1>5 DEF Partitions, ctlVars
    <2> QED BY <1>3 DEF Partitions
  <1>10. Requested'
    <2>1. Taken' = Taken /\ Fetching' = Fetching
      BY <1>4 DEF Taken, Fetching, ctlVars
    <2> QED BY <2>1 DEF Requested, ctlVars
  <1> QED BY <1>6, <1>7, <1>8, <1>9, <1>10 DEF Control

\* shutdownInternal goes on: the first of its partition makes it inactive, a
\* later one returns at once.
LEMMA StopperMoves ==
  ASSUME CInv, NEW p \in Parts, NEW g \in {Evictor(p), Closer(p)}, NEW n \in Stopping,
         pc[g] \notin {"none", "exit"},
         pc[g] = "begin" => n = IF active[p] THEN "last" ELSE "exit",
         pc' = [pc EXCEPT ![g] = n], UNCHANGED <<ctlVars, req, alone>>,
         active' = [active EXCEPT ![p] = FALSE],
         \A q \in Parts : onEmpty'[q] => onEmpty[q]
  PROVE  Control'
  <1> USE DEF CInv
  <1>1. g \in Goroutines /\ n \in StopperAt
    BY Names, Different DEF Stopping, StopperAt
  <1>2. \A h \in Goroutines : pc'[h] = IF h = g THEN n ELSE pc[h]
    BY <1>1 DEF Positions
  <1>3. \A q \in Parts : /\ pc'[Timer(q)] = pc[Timer(q)]
                         /\ pc'[Evictor(q)] = IF g = Evictor(p) /\ q = p THEN n ELSE pc[Evictor(q)]
                         /\ pc'[Closer(q)] = IF g = Closer(p) /\ q = p THEN n ELSE pc[Closer(q)]
    BY <1>2, Names, Different
  <1>4. \A d \in Consumers : pc'[d] = pc[d]
    BY <1>2, Different
  <1>5. \A q \in Parts : Started(q)' = Started(q)
    BY <1>3 DEF Started
  <1>6. \A q \in Parts : active'[q] = (active[q] /\ q # p)
    BY DEF Types
  <1>7. Positions'
    BY <1>1, <1>3, <1>4 DEF Positions
  <1>8. Consuming'
    <2>1. \A d \in Consumers : part[d] \in Parts
      BY DEF Types
    <2> QED BY <1>4, <1>5, <2>1 DEF Consuming, ctlVars
  <1>9. Locked'
    <2>1. \A h \in Goroutines : pc'[h] = "evict" <=> pc[h] = "evict"
      BY <1>1, <1>2 DEF Positions, StopperAt, Stopping
    <2> QED BY <2>1 DEF Locked, ctlVars
  <1>10. Partitions'
    <2> SUFFICES ASSUME NEW q \in Parts
                 PROVE  /\ q > made => pc'[Evictor(q)] = "none" /\ pc'[Closer(q)] = "none"
                        /\ pc'[Timer(q)] = "exit" => ~active'[q]
                        /\ pc'[Evictor(q)] # "none" =>
                             partitioned /\ q # victim /\ q \notin ToSet(lru)
                        /\ ~active'[q] <=> pc'[Evictor(q)] \in Stopping \/ pc'[Closer(q)] \in Stopping
                        /\ pc'[Closer(q)] # "none" =>
                             /\ sd \in {"waiting", "purge", "done"}
                             /\ pc'[Evictor(q)] # "none" =>
                                  pc'[Closer(q)] = "exit" /\ pc'[Evictor(q)] \in {"begin", "exit"}
                             /\ sd \in {"purge", "done"} => pc'[Closer(q)] = "exit"
      BY <1>3, <1>5 DEF Partitions, ctlVars
    <2>1. CASE q # p
      BY <1>3, <1>6, <2>1 DEF Partitions
    <2>2. CASE q = p /\ g = Evictor(p)
      <3>1. pc'[Evictor(p)] = n /\ pc'[Closer(p)] = pc[Closer(p)] /\ pc'[Timer(p)] = pc[Timer(p)]
        BY <1>3, <2>2, Different
      <3>2. ~active'[p]
        BY <1>6
      <3>3. pc[Closer(p)] # "none" => pc[Closer(p)] = "exit" /\ n = "exit"
        BY <2>2 DEF Partitions, Stopping
      <3> QED BY <2>2, <3>1, <3>2, <3>3 DEF Partitions, Stopping
    <2>3. CASE q = p /\ g = Closer(p)
      <3>1. pc'[Closer(p)] = n /\ pc'[Evictor(p)] = pc[Evictor(p)] /\ pc'[Timer(p)] = pc[Timer(p)]
        BY <1>3, <2>3, Different
      <3>2. ~active'[p]
        BY <1>6
      <3>3. pc[Evictor(p)] = "none" /\ sd = "waiting"
        BY <2>3 DEF Partitions, Stopping
      <3> QED BY <2>3, <3>1, <3>2, <3>3 DEF Partitions, Stopping
    <2> QED BY <2>1, <2>2, <2>3
  <1>11. Requested'
    <2>1. Taken' = Taken /\ Fetching' = Fetching
      BY <1>4 DEF Taken, Fetching, ctlVars
    <2> QED BY <2>1 DEF Requested, ctlVars
  <1> QED BY <1>7, <1>8, <1>9, <1>10, <1>11 DEF Control

-----------------------------------------------------------------------------
(* Steps of Consume up to its partition, and evictions *)

\* While nobody holds mb.lock no eviction is under way and every partition runs.
LEMMA Unlocked ==
  ASSUME CInv
  PROVE  /\ mbLock \in Goroutines => partitioned
         /\ mbLock \notin Consumers =>
              \A p \in Parts : p <= made => Started(p)
         /\ mbLock \notin Goroutines => victim = None /\ \A g \in Goroutines : pc[g] # "evict"
  <1> USE DEF CInv
  <1>1. ASSUME mbLock \in Goroutines PROVE partitioned
    <2>1. pc[mbLock] = "evict"
      BY <1>1 DEF Locked
    <2>2. CASE mbLock \in Consumers
      BY <2>1, <2>2 DEF Consuming
    <2>3. CASE \E p \in Parts : mbLock = Timer(p)
      BY <2>1, <2>3 DEF Partitions
    <2>4. CASE \E p \in Parts : mbLock = Evictor(p) \/ mbLock = Closer(p)
      BY <2>1, <2>4 DEF Positions, StopperAt
    <2> QED BY <1>1, <2>2, <2>3, <2>4, Kinds
  <1>2. mbLock \notin Consumers => \A p \in Parts : p <= made => Started(p)
    BY DEF Partitions
  <1>3. mbLock \notin Goroutines => victim = None /\ \A g \in Goroutines : pc[g] # "evict"
    BY DEF Locked
  <1> QED BY <1>1, <1>2, <1>3

\* What is in the LRU was made.
LEMMA LruParts ==
  ASSUME CInv
  PROVE  /\ ToSet(lru) \subseteq 1..made /\ 1..made \subseteq Parts
         /\ \A i \in DOMAIN lru : lru[i] \in ToSet(lru) /\ lru[i] \in Parts /\ lru[i] <= made
  <1>1. lru \in Seq(1..made) /\ made \in 0..MaxRequests /\ MaxRequests \in Nat
    BY BatcherAssumption DEF CInv, Types
  <1>2. \A i \in DOMAIN lru : lru[i] \in 1..made
    BY <1>1
  <1> QED BY <1>1, <1>2 DEF ToSet, Parts

\* The items of a request.
LEMMA ItemsTypes ==
  ASSUME NEW r \in Requests, NEW shape \in [n : Nat, big : BOOLEAN]
  PROVE  Items(r, shape) \in RequestItems
  <1> DEFINE a == [i \in 1..shape.n |-> <<r, i>>]
             b == IF shape.big THEN <<<<r, 0>>>> ELSE <<>>
  <1>1. a \in Seq(Requests \X Nat)
    <2>1. shape.n \in Nat
      OBVIOUS
    <2>2. a \in [1..shape.n -> Requests \X Nat]
      OBVIOUS
    <2> HIDE DEF a
    <2> QED BY <2>1, <2>2
  <1>2. b \in Seq(Requests \X Nat)
    <2>1. <<r, 0>> \in Requests \X Nat
      OBVIOUS
    <2>2. <<<<r, 0>>>> \in Seq(Requests \X Nat)
      BY <2>1
    <2>3. <<>> \in Seq(Requests \X Nat)
      OBVIOUS
    <2> QED BY <2>2, <2>3, Zenon
  <1>3. Items(r, shape) = a \o b
    BY DEF Items
  <1> HIDE DEF a, b
  <1> QED BY <1>1, <1>2, <1>3 DEF RequestItems

\* A consumer reads a request.
LEMMA TakeControl ==
  ASSUME CInv, NEW c \in Consumers, Take(c)
  PROVE  CInv'
  <1> USE DEF CInv
  <1>1. PICK r \in DOMAIN stream, k \in (IF partitioned THEN Keys ELSE {None}) :
          /\ taken[r] = None
          /\ taken' = [taken EXCEPT ![r] = Items(r, stream[r])]
          /\ req' = [req EXCEPT ![c] = [id |-> r, key |-> k]]
    BY DEF Take
  <1>2. /\ pc[c] = "idle" /\ sd = "running"
        /\ pc' = [pc EXCEPT ![c] = IF partitioned THEN "get" ELSE "consume"]
        /\ UNCHANGED <<confVars, mbVars, timeVars, cur, wg, poolVars, jobs, part, alone,
                       doneVars, panicked, sd>>
    BY DEF Take
  <1> USE DEF confVars, mbVars, timeVars, poolVars
  <1>3. r \in Requests /\ stream[r] \in [n : Nat, big : BOOLEAN]
    <2>1. stream \in Seq([n : Nat, big : BOOLEAN]) /\ Len(stream) <= MaxRequests
      BY BatcherAssumption DEF Types
    <2>2. DOMAIN stream = 1..Len(stream) /\ Len(stream) \in Nat /\ r \in DOMAIN stream
      BY <1>1, <2>1
    <2>3. r \in 1..MaxRequests
      BY <2>1, <2>2, BatcherAssumption
    <2>4. stream[r] \in [n : Nat, big : BOOLEAN]
      BY <2>1, <2>2, ElementOfSeq
    <2> QED BY <2>3, <2>4 DEF Requests
  <1>4. Items(r, stream[r]) \in RequestItems /\ Items(r, stream[r]) # None
    BY <1>3, ItemsTypes, NoneAssumption DEF RequestItems
  <1>5. [id |-> r, key |-> k] \in Fetched /\ [id |-> r, key |-> k] # None
    BY <1>3, NoneAssumption DEF Fetched
  <1>6. Types'
    BY <1>1, <1>2, <1>3, <1>4, <1>5 DEF Types
  <1>7. c \in Goroutines
    BY Different
  <1>8. \A g \in Goroutines : pc'[g] = IF g = c THEN (IF partitioned THEN "get" ELSE "consume") ELSE pc[g]
    BY <1>2, <1>7 DEF Positions
  <1>9. \A p \in Parts : /\ pc'[Timer(p)] = pc[Timer(p)] /\ pc'[Evictor(p)] = pc[Evictor(p)]
                         /\ pc'[Closer(p)] = pc[Closer(p)]
    BY <1>8, Names, Different
  <1>10. \A d \in Consumers : /\ pc'[d] = IF d = c THEN (IF partitioned THEN "get" ELSE "consume") ELSE pc[d]
                              /\ req'[d] = IF d = c THEN [id |-> r, key |-> k] ELSE req[d]
    BY <1>1, <1>8, Different DEF Types
  <1>11. \A p \in Parts : Started(p)' = Started(p)
    BY <1>9 DEF Started
  <1>12. Positions'
    BY <1>2, <1>7, <1>9, <1>10 DEF Positions, ConsumerAt
  <1>13. Consuming'
    <2>1. ~partitioned => part[c] = 1 /\ Started(1)
      <3>1. 1 \in Parts
        BY BatcherAssumption DEF Parts
      <3>2. ~partitioned => made = 1 /\ mbLock \notin Consumers
        BY Unlocked, Different DEF Locked
      <3> QED BY <3>1, <3>2, Unlocked DEF Locked
    <2>2. \A d \in Consumers : part[d] \in Parts
      BY DEF Types
    <2> SUFFICES ASSUME NEW d \in Consumers
                 PROVE  /\ pc'[d] # "idle" => sd = "running"
                        /\ pc'[d] \in {"get", "evict", "consume"} <=> req'[d] # None
                        /\ pc'[d] \in {"get", "evict"} => partitioned
                        /\ alone[d] => pc'[d] \in {"flush", "execute"}
                        /\ pc'[d] = "evict" => part[d] <= made /\ ~Started(part[d])
                        /\ pc'[d] \in {"consume", "flush", "execute", "self"} => Started(part[d])
      BY <1>2, <1>11, <2>2 DEF Consuming
    <2>3. CASE d = c
      BY <1>2, <1>5, <1>10, <2>1, <2>3 DEF Consuming
    <2>4. CASE d # c
      BY <1>10, <2>4 DEF Consuming
    <2> QED BY <2>3, <2>4
  <1>14. Locked'
    <2>1. \A g \in Goroutines : pc'[g] = "evict" <=> pc[g] = "evict"
      BY <1>2, <1>8
    <2> QED BY <1>2, <2>1 DEF Locked
  <1>15. Partitions'
    BY <1>2, <1>9 DEF Partitions, Started
  <1>16. Busy'
    BY <1>2, <1>8 DEF Busy
  <1>17. Requested'
    <2>1. Taken' = Taken \cup {r} /\ r \notin Taken
      BY <1>1, <1>3, <1>4 DEF Taken, Types
    <2>2. partitioned => Fetching' = Fetching \cup {r}
      BY <1>2, <1>3, <1>10 DEF Fetching
    <2>3. partitioned => Taken' \ Fetching' = Taken \ Fetching
      BY <2>1, <2>2
    <2>4. \A d \in Consumers : req[d] # None => req[d].id # r
      BY <2>1 DEF Requested
    <2>5. [id |-> r, key |-> k].id = r
      OBVIOUS
    <2>6. \A d, e \in Consumers : req'[d] # None /\ req'[e] # None /\ req'[d].id = req'[e].id => d = e
      BY <1>10, <2>4, <2>5 DEF Requested
    <2>7. \A d \in Consumers : req'[d] # None => req'[d].id \in Taken'
      BY <1>10, <2>1, <2>5 DEF Requested
    <2> QED BY <1>2, <2>3, <2>6, <2>7 DEF Requested
  <1> QED BY <1>6, <1>12, <1>13, <1>14, <1>15, <1>16, <1>17

\* Finite sets of requests.
LEMMA RequestSets ==
  /\ IsFiniteSet(Requests) /\ Cardinality(Requests) = MaxRequests
  /\ \A S \in SUBSET Requests : IsFiniteSet(S) /\ Cardinality(S) \in Nat
  <1>1. IsFiniteSet(Requests) /\ Cardinality(Requests) = MaxRequests
    BY FS_Interval, BatcherAssumption DEF Requests
  <1> QED BY <1>1, FS_Subset, FS_CardinalityType

\* The request of a consumer in "get" is taken and counts for no partition yet:
\* there is room for one more.
LEMMA RoomForOne ==
  ASSUME CInv, NEW c \in Consumers, pc[c] = "get"
  PROVE  /\ req[c].id \in Taken \cap Fetching
         /\ Cardinality((Taken \ Fetching) \cup {req[c].id}) = Cardinality(Taken \ Fetching) + 1
         /\ made + 1 \in Parts /\ made + 1 <= Cardinality((Taken \ Fetching) \cup {req[c].id})
  <1> USE DEF CInv
  <1> DEFINE r == req[c].id
             S == Taken \ Fetching
  <1>1. req[c] # None /\ req[c] \in Fetched /\ partitioned
    BY DEF Consuming, Types
  <1>2. r \in Requests /\ r \in Taken
    BY <1>1, Fields DEF Requested
  <1>3. r \in Fetching
    BY <1>2 DEF Fetching
  <1>4. S \subseteq Requests /\ S \cup {r} \subseteq Requests /\ r \notin S
    BY <1>2, <1>3 DEF Taken
  <1> HIDE DEF r, S
  <1>5. IsFiniteSet(S) /\ Cardinality(S) \in Nat /\ Cardinality(S \cup {r}) \in Nat
    BY <1>4, RequestSets
  <1>6. Cardinality(S \cup {r}) = Cardinality(S) + 1
    BY <1>4, <1>5, FS_AddElement
  <1>7. Cardinality(S \cup {r}) <= MaxRequests
    BY <1>4, RequestSets, FS_Subset
  <1>8. made <= Cardinality(S) /\ made \in Nat /\ MaxRequests \in Nat
    BY <1>1, BatcherAssumption DEF Requested, Types, S
  <1>9. made + 1 \in 1..MaxRequests /\ made + 1 <= Cardinality(S \cup {r})
    BY <1>5, <1>6, <1>7, <1>8
  <1> QED BY <1>2, <1>3, <1>6, <1>9 DEF Parts, r, S

\* When it has its partition, its request counts.
LEMMA Fetches ==
  ASSUME CInv, NEW c \in Consumers, pc[c] = "get",
         taken' = taken, req' = req, pc'[c] # "get",
         \A d \in Consumers \ {c} : pc'[d] = "get" <=> pc[d] = "get"
  PROVE  /\ Taken' \ Fetching' = (Taken \ Fetching) \cup {req[c].id}
         /\ Taken' = Taken
  <1> USE DEF CInv
  <1> DEFINE r == req[c].id
  <1>1. req[c] # None /\ r \in Taken /\ r \in Fetching
    BY RoomForOne DEF Consuming
  <1>2. \A d \in Consumers \ {c} : pc[d] = "get" => req[d] # None /\ req[d].id # r
    BY <1>1 DEF Requested, Consuming
  <1> HIDE DEF r
  <1>3. Fetching' = Fetching \ {r}
    <2>1. ASSUME NEW q \in Requests PROVE q \in Fetching' <=> q \in Fetching /\ q # r
      <3>1. q \in Fetching' <=> \E d \in Consumers : pc'[d] = "get" /\ req[d].id = q
        BY DEF Fetching
      <3>2. q \in Fetching <=> \E d \in Consumers : pc[d] = "get" /\ req[d].id = q
        BY DEF Fetching
      <3>3. req[c].id = r
        BY DEF r
      <3> QED BY <1>2, <3>1, <3>2, <3>3
    <2>2. Fetching' \subseteq Requests /\ Fetching \subseteq Requests
      BY DEF Fetching
    <2> QED BY <2>1, <2>2
  <1>4. Taken' = Taken
    BY DEF Taken
  <1> QED BY <1>1, <1>3, <1>4 DEF r

\* getPartition finds the partition.
LEMMA GetExistingControl ==
  ASSUME CInv, NEW c \in Consumers, GetExisting(c)
  PROVE  CInv'
  <1> USE DEF CInv
  <1>1. PICK i \in DOMAIN lru : /\ part' = [part EXCEPT ![c] = lru[i]]
                                /\ lru' = <<lru[i]>> \o RemoveAt(lru, i)
    BY DEF GetExisting
  <1>2. /\ pc[c] = "get" /\ mbLock = Free /\ pc' = [pc EXCEPT ![c] = "consume"]
        /\ UNCHANGED <<confVars, mbLock, victim, made, key, timeVars, cur, wg, poolVars,
                       jobs, req, alone, taken, doneVars, panicked, sd>>
    BY DEF GetExisting
  <1> USE DEF confVars, timeVars, poolVars
  <1>3. /\ lru[i] \in 1..made /\ lru[i] \in Parts /\ lru[i] \in ToSet(lru)
        /\ lru \in Seq(1..made) /\ IsInjective(lru) /\ Len(lru) \in Nat
    BY <1>1, LruParts DEF Types
  <1>4. /\ RemoveAt(lru, i) \in Seq(1..made) /\ Len(RemoveAt(lru, i)) = Len(lru) - 1
        /\ IsInjective(RemoveAt(lru, i)) /\ ToSet(RemoveAt(lru, i)) = ToSet(lru) \ {lru[i]}
    BY <1>1, <1>3, RemoveAtFacts
  <1>5. /\ lru' \in Seq(1..made) /\ Len(lru') = Len(lru) /\ IsInjective(lru')
        /\ ToSet(lru') = ToSet(lru)
    <2> DEFINE t == RemoveAt(lru, i)
    <2>1. lru[i] \notin ToSet(t) /\ {lru[i]} \cup ToSet(t) = ToSet(lru)
      BY <1>3, <1>4
    <2>2. /\ lru' \in Seq(1..made) /\ Len(lru') = Len(t) + 1
          /\ ToSet(lru') = {lru[i]} \cup ToSet(t) /\ IsInjective(lru')
      <3> HIDE DEF t
      <3> QED BY <1>1, <1>3, <1>4, <2>1, ConsFacts DEF t
    <2> QED BY <1>3, <1>4, <2>1, <2>2
  <1>6. Types'
    BY <1>1, <1>2, <1>3, <1>5 DEF Types
  <1>7. c \in Goroutines /\ mbLock \notin Goroutines /\ mbLock \notin Consumers
    BY <1>2, Different, Holders
  <1>8. \A g \in Goroutines : pc'[g] = IF g = c THEN "consume" ELSE pc[g]
    BY <1>2, <1>7 DEF Positions
  <1>9. \A p \in Parts : /\ pc'[Timer(p)] = pc[Timer(p)] /\ pc'[Evictor(p)] = pc[Evictor(p)]
                         /\ pc'[Closer(p)] = pc[Closer(p)]
    BY <1>8, Names, Different
  <1>10. \A d \in Consumers : /\ pc'[d] = IF d = c THEN "consume" ELSE pc[d]
                              /\ part'[d] = IF d = c THEN lru[i] ELSE part[d]
    BY <1>1, <1>8, Different DEF Types
  <1>11. \A p \in Parts : Started(p)' = Started(p)
    BY <1>9 DEF Started
  <1>12. Positions'
    BY <1>2, <1>7, <1>9, <1>10 DEF Positions, ConsumerAt
  <1>13. Consuming'
    <2>1. Started(lru[i])
      BY <1>3, <1>7, LruParts, Unlocked
    <2>2. \A d \in Consumers : part[d] \in Parts
      BY DEF Types
    <2> SUFFICES ASSUME NEW d \in Consumers
                 PROVE  /\ pc'[d] # "idle" => sd = "running"
                        /\ pc'[d] \in {"get", "evict", "consume"} <=> req[d] # None
                        /\ pc'[d] \in {"get", "evict"} => partitioned
                        /\ alone[d] => pc'[d] \in {"flush", "execute"}
                        /\ pc'[d] = "evict" => part'[d] <= made /\ ~Started(part'[d])
                        /\ pc'[d] \in {"consume", "flush", "execute", "self"} =>
                             Started(part'[d])
      <3>1. \A e \in Consumers : part'[e] \in Parts
        BY <1>3, <1>10, <2>2
      <3> QED BY <1>2, <1>11, <3>1 DEF Consuming
    <2>3. CASE d = c
      BY <1>2, <1>10, <2>1, <2>3 DEF Consuming
    <2>4. CASE d # c
      BY <1>10, <2>4 DEF Consuming
    <2> QED BY <2>3, <2>4
  <1>14. Locked'
    <2>1. \A g \in Goroutines : pc'[g] = "evict" <=> pc[g] = "evict"
      BY <1>2, <1>8
    <2>2. partitioned
      BY <1>2 DEF Consuming
    <2> QED BY <1>2, <1>5, <2>1, <2>2 DEF Locked
  <1>15. Partitions'
    <2>1. \A p \in Parts : p <= made => Started(p)
      BY <1>7, Unlocked
    <2> QED BY <1>2, <1>5, <1>9, <1>11, <2>1 DEF Partitions
  <1>16. Busy'
    BY <1>2, <1>8 DEF Busy
  <1>17. Requested'
    <2>1. Taken' \ Fetching' = (Taken \ Fetching) \cup {req[c].id} /\ Taken' = Taken
      BY <1>2, <1>10, Fetches
    <2>2. made <= Cardinality(Taken' \ Fetching')
      <3>1. made + 1 <= Cardinality(Taken' \ Fetching')
        BY <1>2, <2>1, RoomForOne
      <3>2. Cardinality(Taken' \ Fetching') \in Nat /\ made \in Nat
        <4>1. Taken' \ Fetching' \subseteq Requests
          BY <2>1 DEF Taken
        <4> QED BY <4>1, RequestSets DEF Types
      <3> QED BY <3>1, <3>2
    <2> QED BY <1>2, <2>1, <2>2 DEF Requested
  <1> QED BY <1>6, <1>12, <1>13, <1>14, <1>15, <1>16, <1>17

\* getPartition makes a partition, with room in the LRU or by evicting.
LEMMA GetNewControl ==
  ASSUME CInv, NEW c \in Consumers, GetNew(c)
  PROVE  CInv'
  <1> USE DEF CInv
  <1> DEFINE p0 == made + 1
  <1>1. /\ pc[c] = "get" /\ mbLock = Free /\ made' = p0
        /\ key' = [key EXCEPT ![p0] = req[c].key] /\ part' = [part EXCEPT ![c] = p0]
        /\ UNCHANGED <<confVars, timeVars, cur, poolVars, jobs, req, alone, taken, doneVars,
                       panicked, sd>>
    BY DEF GetNew
  <1>2. \/ /\ Len(lru) < LruSize /\ lru' = <<p0>> \o lru
           /\ pc' = [[pc EXCEPT ![c] = "consume"] EXCEPT ![Timer(p0)] = "select"]
           /\ UNCHANGED <<mbLock, victim>>
        \/ /\ ~(Len(lru) < LruSize) /\ lru' = <<p0>> \o Front(lru)
           /\ victim' = Last(lru) /\ mbLock' = c
           /\ pc' = [pc EXCEPT ![c] = "evict"]
    BY DEF GetNew, StartTimer
  <1> DEFINE room == Len(lru) < LruSize
  <1> USE DEF confVars, timeVars, poolVars
  <1>3. c \in Goroutines /\ mbLock \notin Goroutines /\ mbLock \notin Consumers /\ c # Stopper
    BY <1>1, Different, Holders
  <1>4. /\ \A g \in Goroutines : pc[g] # "evict"
        /\ victim = None /\ partitioned
        /\ \A p \in Parts : p <= made => Started(p)
    BY <1>1, <1>3, Unlocked DEF Consuming
  <1>5. p0 \in Parts /\ p0 > made /\ made \in Nat /\ p0 \in 1..p0
    <2>1. made \in Nat
      BY DEF Types
    <2>2. p0 \in Parts
      BY <1>1, RoomForOne
    <2> QED BY <2>1, <2>2
  <1> HIDE DEF p0
  <1>6. Timer(p0) \in Goroutines /\ c # Timer(p0)
    BY <1>5, Names, Different
  <1>7. \A g \in Goroutines : pc'[g] = IF g = c THEN (IF room THEN "consume" ELSE "evict")
                                        ELSE IF g = Timer(p0) /\ room THEN "select" ELSE pc[g]
    BY <1>2, <1>3, <1>6 DEF Positions
  <1>8. \A p \in Parts : /\ pc'[Timer(p)] = IF p = p0 /\ room THEN "select" ELSE pc[Timer(p)]
                         /\ pc'[Evictor(p)] = pc[Evictor(p)] /\ pc'[Closer(p)] = pc[Closer(p)]
    BY <1>5, <1>7, Names, Different
  <1>9. \A d \in Consumers : /\ pc'[d] = IF d = c THEN (IF room THEN "consume" ELSE "evict") ELSE pc[d]
                             /\ part'[d] = IF d = c THEN p0 ELSE part[d]
    BY <1>1, <1>5, <1>7, Different DEF Types
  <1>10. pc[Timer(p0)] = "none" /\ pc[Evictor(p0)] = "none" /\ pc[Closer(p0)] = "none"
    BY <1>5 DEF Partitions, Started
  <1>11. \A p \in Parts : Started(p)' = (Started(p) \/ (p = p0 /\ room))
    BY <1>8 DEF Started
  <1>12. Positions'
    <2>1. pc' \in [Goroutines -> ConsumerAt \cup TimerAt \cup StopperAt]
      BY <1>2 DEF Positions, ConsumerAt, TimerAt
    <2> QED BY <1>8, <1>9, <2>1 DEF Positions, ConsumerAt, TimerAt
  <1>13. /\ lru' \in Seq(1..p0) /\ Len(lru') <= LruSize /\ IsInjective(lru')
         /\ victim' \in (1..p0) \cup {None}
         /\ room => ToSet(lru') = ToSet(lru) \cup {p0} /\ victim' = victim
         /\ ~room => /\ victim' \in ToSet(lru) /\ victim' # None /\ victim' # p0
                     /\ ToSet(lru') = (ToSet(lru) \ {victim'}) \cup {p0}
    <2>1. /\ lru \in Seq(1..made) /\ IsInjective(lru) /\ Len(lru) \in Nat
          /\ LruSize \in Nat \ {0} /\ Len(lru) <= LruSize
      BY BatcherAssumption DEF Types
    <2>2. p0 \notin ToSet(lru) /\ ToSet(lru) \subseteq 1..made /\ 1..made \subseteq 1..p0
      BY <1>5, LruParts
    <2>3. CASE room
      <3>1. lru \in Seq(1..p0)
        BY <2>1, <2>2, SeqMonotonic
      <3>2. /\ lru' \in Seq(1..p0) /\ Len(lru') = Len(lru) + 1 /\ IsInjective(lru')
            /\ ToSet(lru') = {p0} \cup ToSet(lru)
        <4>1. lru' = <<p0>> \o lru
          BY <1>2, <2>3
        <4> QED BY <1>5, <2>1, <2>2, <3>1, <4>1, ConsFacts
      <3> QED BY <1>2, <1>4, <2>1, <2>3, <3>2
    <2>4. CASE ~room
      <3>1. lru # <<>>
        BY <2>1, <2>4
      <3>2. /\ Front(lru) \in Seq(1..made) /\ Len(Front(lru)) = Len(lru) - 1
            /\ IsInjective(Front(lru)) /\ Last(lru) \in ToSet(lru)
            /\ ToSet(Front(lru)) = ToSet(lru) \ {Last(lru)}
        BY <2>1, <3>1, FrontFacts
      <3>3. Front(lru) \in Seq(1..p0)
        BY <2>2, <3>2, SeqMonotonic
      <3>4. /\ lru' \in Seq(1..p0) /\ Len(lru') = Len(Front(lru)) + 1 /\ IsInjective(lru')
            /\ ToSet(lru') = {p0} \cup ToSet(Front(lru))
        <4>1. lru' = <<p0>> \o Front(lru)
          BY <1>2, <2>4
        <4>2. p0 \notin ToSet(Front(lru))
          BY <2>2, <3>2
        <4> QED BY <1>5, <3>2, <3>3, <4>1, <4>2, ConsFacts
      <3>5. Last(lru) \in 1..made /\ Last(lru) # None
        BY <2>2, <3>2, LruParts, NoneAssumption
      <3> QED BY <1>2, <1>5, <2>1, <2>2, <2>4, <3>2, <3>4, <3>5
    <2> QED BY <2>3, <2>4
  <1>14. Types'
    <2>1. made' \in 0..MaxRequests
      BY <1>1, <1>5 DEF Parts
    <2>2. key' \in [Parts -> Keys \cup {None}]
      <3>1. req[c].key \in Keys \cup {None}
        BY <1>1, Fields DEF Consuming, Types
      <3> QED BY <1>1, <3>1 DEF Types
    <2>3. mbLock' \in {Free, Stopper} \cup Goroutines
      BY <1>2, <1>3 DEF Types
    <2>4. part' \in [Consumers -> Parts]
      BY <1>1, <1>5 DEF Types
    <2> QED BY <1>1, <1>13, <2>1, <2>2, <2>3, <2>4 DEF Types
  <1>15. Consuming'
    <2>1. \A d \in Consumers : part[d] \in Parts /\ part'[d] \in Parts
      BY <1>5, <1>9 DEF Types
    <2> SUFFICES ASSUME NEW d \in Consumers
                 PROVE  /\ pc'[d] # "idle" => sd = "running"
                        /\ pc'[d] \in {"get", "evict", "consume"} <=> req[d] # None
                        /\ pc'[d] \in {"get", "evict"} => partitioned
                        /\ alone[d] => pc'[d] \in {"flush", "execute"}
                        /\ pc'[d] = "evict" => /\ part'[d] <= p0
                                                /\ ~Started(part'[d]) /\ ~(part'[d] = p0 /\ room)
                        /\ pc'[d] \in {"consume", "flush", "execute", "self"} =>
                             Started(part'[d]) \/ (part'[d] = p0 /\ room)
      BY <1>1, <1>11, <2>1 DEF Consuming
    <2>2. CASE d = c
      <3>1. ~Started(p0) /\ p0 <= p0
        BY <1>5, <1>10 DEF Started
      <3> QED BY <1>1, <1>4, <1>9, <2>2, <3>1 DEF Consuming
    <2>3. CASE d # c
      BY <1>4, <1>9, <2>3, Different DEF Consuming
    <2> QED BY <2>2, <2>3
  <1>16. Locked'
    <2>1. \A g \in Goroutines : pc'[g] = "evict" <=> g = c /\ ~room
      BY <1>4, <1>7
    <2>2. sd = "running"
      BY <1>1 DEF Consuming
    <2>3. CASE room
      <3>1. None \notin ToSet(lru')
        BY <1>13, <2>3, LruParts, NoneAssumption, <1>5
      <3>2. mbLock' = Free /\ victim' = None
        BY <1>1, <1>2, <1>4, <2>3
      <3> QED BY <1>1, <1>4, <2>1, <2>2, <2>3, <3>1, <3>2, Holders DEF Locked
    <2>4. CASE ~room
      <3>1. mbLock' = c /\ victim' # None /\ victim' \notin ToSet(lru')
        BY <1>2, <1>13, <2>4
      <3> QED BY <1>1, <1>3, <1>4, <2>1, <2>2, <2>4, <3>1 DEF Locked
    <2> QED BY <2>3, <2>4
  <1>17. Partitions'
    <2> SUFFICES ASSUME NEW p \in Parts
                 PROVE  /\ p > p0 => ~Started(p)' /\ pc'[Evictor(p)] = "none" /\ pc'[Closer(p)] = "none"
                        /\ p <= p0 /\ ~Started(p)' => mbLock' \in Consumers /\ part'[mbLock'] = p
                        /\ pc'[Timer(p)] = "exit" => ~active[p]
                        /\ pc'[Timer(p)] \in {"onEmpty", "lock", "evict"} => partitioned
                        /\ pc'[Evictor(p)] # "none" => partitioned /\ p # victim' /\ p \notin ToSet(lru')
      BY <1>1, <1>8 DEF Partitions
    <2>1. p \in Nat
      BY DEF Parts
    <2>2. CASE p = p0
      <3>1. ~room => mbLock' = c /\ part'[c] = p0
        BY <1>2, <1>9
      <3>2. p0 \notin ToSet(lru') \/ pc'[Evictor(p)] = "none"
        BY <1>8, <1>10, <2>2
      <3>3. ~(p > p0) /\ (p <= p0)
        BY <2>1, <2>2
      <3> QED BY <1>8, <1>10, <1>11, <2>2, <3>1, <3>2, <3>3
    <2>3. CASE p # p0
      <3>1. p > p0 <=> p > made
        BY <1>5, <2>1, <2>3 DEF p0
      <3>2. p <= p0 <=> p <= made
        BY <1>5, <2>1, <2>3 DEF p0
      <3>3. pc[Evictor(p)] # "none" => p # victim' /\ p \notin ToSet(lru')
        BY <1>13, <2>3, <1>4 DEF Partitions
      <3> QED BY <1>4, <1>8, <1>11, <2>3, <3>1, <3>2, <3>3 DEF Partitions
    <2> QED BY <2>2, <2>3
  <1>18. Busy'
    <2>1. \A g \in Goroutines : pc'[g] \in {"flush", "execute"} <=> pc[g] \in {"flush", "execute"}
      BY <1>1, <1>7, <1>10
    <2> QED BY <1>1, <2>1 DEF Busy
  <1>19. Requested'
    <2>1. Taken' \ Fetching' = (Taken \ Fetching) \cup {req[c].id} /\ Taken' = Taken
      BY <1>1, <1>9, Fetches
    <2>2. p0 <= Cardinality(Taken' \ Fetching')
      BY <1>1, <2>1, RoomForOne DEF p0
    <2> QED BY <1>1, <2>1, <2>2 DEF Requested
  <1> QED BY <1>12, <1>14, <1>15, <1>16, <1>17, <1>18, <1>19

\* An eviction starts: the holder of mb.lock gets a worker for it.
LEMMA EvictControl ==
  ASSUME CInv, NEW g \in Goroutines, Evict(g)
  PROVE  CInv'
  <1> USE DEF CInv
  <1>1. /\ pc[g] = "evict" /\ mbLock' = Free /\ victim' = None
        /\ UNCHANGED <<confVars, lru, made, key, timeVars, cur, running, sent, jobs,
                       consVars, doneVars, panicked, sd>>
    BY DEF Evict
  <1>2. \/ /\ g \in Consumers
           /\ pc' = [[pc EXCEPT ![Evictor(victim)] = "begin", ![g] = "consume"]
                       EXCEPT ![Timer(part[g])] = "select"]
        \/ /\ g \notin Consumers
           /\ pc' = [pc EXCEPT ![Evictor(victim)] = "begin", ![g] = "select"]
    BY DEF Evict, StartTimer
  <1> USE DEF confVars, timeVars, consVars
  <1>3. mbLock = g /\ victim # None /\ victim \in 1..made /\ partitioned
    BY <1>1, Unlocked DEF Locked, Types
  <1>4. victim \in Parts /\ pc[Evictor(victim)] = "none" /\ victim \notin ToSet(lru)
    BY <1>3, LruParts DEF Partitions, Locked
  <1>5. ~(sd \in {"waiting", "purge"})
    BY <1>3, Holders DEF Locked
  <1>6. /\ Evictor(victim) \in Goroutines /\ g # Evictor(victim)
    BY <1>1, <1>4, Names, Different
  <1>7. \/ g \in Consumers /\ part[g] \in Parts /\ Timer(part[g]) \in Goroutines
        \/ \E t \in Parts : g = Timer(t)
    <2>1. \A p \in Parts : g # Evictor(p) /\ g # Closer(p)
      BY <1>1 DEF Positions, StopperAt
    <2> QED BY <2>1, Kinds, Names, Different DEF Types
  <1> DEFINE by == g \in Consumers
  <1>8. \A h \in Goroutines : pc'[h] = IF by /\ h = Timer(part[g]) THEN "select"
                                        ELSE IF h = g THEN (IF by THEN "consume" ELSE "select")
                                        ELSE IF h = Evictor(victim) THEN "begin" ELSE pc[h]
    BY <1>2, <1>6, <1>7 DEF Positions
  <1>9. \A p \in Parts :
          /\ pc'[Timer(p)] = IF (by /\ p = part[g]) \/ g = Timer(p) THEN "select" ELSE pc[Timer(p)]
          /\ pc'[Evictor(p)] = IF p = victim THEN "begin" ELSE pc[Evictor(p)]
          /\ pc'[Closer(p)] = pc[Closer(p)]
    <2> SUFFICES ASSUME NEW p \in Parts
                 PROVE  /\ pc'[Timer(p)] = IF (by /\ p = part[g]) \/ g = Timer(p) THEN "select" ELSE pc[Timer(p)]
                        /\ pc'[Evictor(p)] = IF p = victim THEN "begin" ELSE pc[Evictor(p)]
                        /\ pc'[Closer(p)] = pc[Closer(p)]
      OBVIOUS
    <2>1. Timer(p) \in Goroutines /\ Evictor(p) \in Goroutines /\ Closer(p) \in Goroutines
      BY Names, Different
    <2>2. CASE by
      <3>1. part[g] \in Parts
        BY <2>2 DEF Types
      <3>2. g # Timer(p) /\ g # Evictor(p) /\ g # Closer(p)
        BY <2>2, Different
      <3>3. Timer(p) = Timer(part[g]) <=> p = part[g]
        BY <3>1, Different
      <3>4. Evictor(p) # Timer(part[g]) /\ Closer(p) # Timer(part[g])
        BY <3>1, Different
      <3>5. Timer(p) # Evictor(victim) /\ Closer(p) # Evictor(victim) /\ (Evictor(p) = Evictor(victim) <=> p = victim)
        BY <1>4, Different
      <3> QED BY <1>8, <2>1, <2>2, <3>2, <3>3, <3>4, <3>5
    <2>3. CASE ~by
      <3>1. PICK t \in Parts : g = Timer(t)
        BY <1>7, <2>3
      <3>2. g # Evictor(p) /\ g # Closer(p)
        BY <3>1, Different
      <3>3. Timer(p) # Evictor(victim) /\ Closer(p) # Evictor(victim) /\ (Evictor(p) = Evictor(victim) <=> p = victim)
        BY <1>4, Different
      <3> QED BY <1>8, <2>1, <2>3, <3>2, <3>3
    <2> QED BY <2>2, <2>3
  <1>10. \A d \in Consumers : pc'[d] = IF d = g THEN "consume" ELSE pc[d]
    <2> SUFFICES ASSUME NEW d \in Consumers PROVE pc'[d] = IF d = g THEN "consume" ELSE pc[d]
      OBVIOUS
    <2>1. d \in Goroutines /\ d # Evictor(victim) /\ (by => d # Timer(part[g]))
      BY <1>4, Different DEF Types
    <2> QED BY <1>8, <2>1
  <1>11. \A p \in Parts : Started(p)' = (Started(p) \/ (by /\ p = part[g]))
    BY <1>1, <1>9 DEF Started
  <1>12. Types'
    BY <1>1 DEF Types
  <1>13. Positions'
    <2>1. pc' \in [Goroutines -> ConsumerAt \cup TimerAt \cup StopperAt]
      BY <1>2 DEF Positions, ConsumerAt, TimerAt, StopperAt
    <2> QED BY <1>9, <1>10, <2>1 DEF Positions, ConsumerAt, TimerAt, StopperAt
  <1>14. Consuming'
    <2>1. \A d \in Consumers : part[d] \in Parts
      BY DEF Types
    <2> SUFFICES ASSUME NEW d \in Consumers
                 PROVE  /\ pc'[d] # "idle" => sd = "running"
                        /\ pc'[d] \in {"get", "evict", "consume"} <=> req[d] # None
                        /\ pc'[d] \in {"get", "evict"} => partitioned
                        /\ alone[d] => pc'[d] \in {"flush", "execute"}
                        /\ pc'[d] # "evict"
                        /\ pc'[d] \in {"consume", "flush", "execute", "self"} =>
                             Started(part[d]) \/ (by /\ part[d] = part[g])
      BY <1>1, <1>11, <2>1 DEF Consuming
    <2>2. CASE d = g
      BY <1>1, <1>10, <2>2 DEF Consuming
    <2>3. CASE d # g
      BY <1>3, <1>10, <2>3, Different DEF Consuming, Locked
    <2> QED BY <2>2, <2>3
  <1>15. Locked'
    <2>1. \A h \in Goroutines : pc'[h] # "evict"
      BY <1>3, <1>8 DEF Locked
    <2>2. None \notin ToSet(lru)
      BY LruParts, NoneAssumption
    <2> QED BY <1>1, <1>5, <2>1, <2>2, Holders DEF Locked
  <1>16. Partitions'
    <2>1. \A p \in Parts : p <= made /\ ~Started(p) => by /\ p = part[g]
      BY <1>3 DEF Partitions
    <2>2. \A p \in Parts : p > made => p # victim /\ (by => p # part[g]) /\ g # Timer(p)
      <3> SUFFICES ASSUME NEW p \in Parts, p > made PROVE p # victim /\ (by => p # part[g]) /\ g # Timer(p)
        OBVIOUS
      <3>1. p \in Nat /\ made \in Nat
        BY DEF Parts, Types
      <3>2. p # victim
        BY <1>3, <3>1
      <3>3. by => p # part[g]
        <4>1. by => part[g] <= made
          BY <1>1 DEF Consuming
        <4> QED BY <3>1, <4>1
      <3>4. g # Timer(p)
        BY <1>1 DEF Partitions, Started
      <3> QED BY <3>2, <3>3, <3>4
    <2>3. \A p \in Parts : p # None
      BY NoneAssumption
    <2>4. pc[Closer(victim)] # "none" => sd = "done" /\ pc[Closer(victim)] = "exit"
      BY <1>4, <1>5 DEF Partitions
    <2>5. \A p \in Parts : pc'[Timer(p)] = "exit" => pc[Timer(p)] = "exit"
      BY <1>9
    <2>6. \A p \in Parts : pc'[Timer(p)] \in {"onEmpty", "lock", "evict"} => partitioned
      BY <1>3
    <2> SUFFICES ASSUME NEW p \in Parts
                 PROVE  /\ p > made => ~Started(p)' /\ pc'[Evictor(p)] = "none" /\ pc'[Closer(p)] = "none"
                        /\ p <= made => Started(p)'
                        /\ pc'[Timer(p)] = "exit" => ~active[p]
                        /\ pc'[Evictor(p)] # "none" => p \notin ToSet(lru)
                        /\ ~active[p] <=> pc'[Evictor(p)] \in Stopping \/ pc'[Closer(p)] \in Stopping
                        /\ pc'[Closer(p)] # "none" =>
                             /\ sd \in {"waiting", "purge", "done"}
                             /\ pc'[Evictor(p)] # "none" =>
                                  pc'[Closer(p)] = "exit" /\ pc'[Evictor(p)] \in {"begin", "exit"}
                             /\ sd \in {"purge", "done"} => pc'[Closer(p)] = "exit"
      BY <1>1, <1>3, <2>3, <2>6 DEF Partitions
    <2>7. p > made => ~Started(p)' /\ pc'[Evictor(p)] = "none" /\ pc'[Closer(p)] = "none"
      <3> SUFFICES ASSUME p > made
                   PROVE  ~Started(p)' /\ pc'[Evictor(p)] = "none" /\ pc'[Closer(p)] = "none"
        OBVIOUS
      <3>1. p # victim /\ ~(by /\ p = part[g])
        BY <2>2
      <3>2. ~Started(p) /\ pc[Evictor(p)] = "none" /\ pc[Closer(p)] = "none"
        BY DEF Partitions
      <3> QED BY <1>9, <1>11, <3>1, <3>2
    <2>8. p <= made => Started(p)'
      BY <1>11, <2>1
    <2>9. CASE p = victim
      BY <1>4, <1>9, <2>4, <2>5, <2>7, <2>8, <2>9 DEF Partitions, Stopping
    <2>10. CASE p # victim
      BY <1>9, <2>5, <2>7, <2>8, <2>10 DEF Partitions
    <2> QED BY <2>9, <2>10
  <1>17. Busy'
    <2>1. \A h \in Goroutines : pc'[h] \in {"flush", "execute"} <=> pc[h] \in {"flush", "execute"}
      <3>1. by => pc[Timer(part[g])] = "none"
        BY <1>1 DEF Consuming, Started
      <3> QED BY <1>1, <1>4, <1>8, <3>1
    <2> QED BY <1>1, <2>1 DEF Busy
  <1>18. Requested'
    <2>1. Taken' = Taken /\ Fetching' = Fetching
      BY <1>1, <1>10 DEF Taken, Fetching
    <2> QED BY <1>1, <2>1 DEF Requested
  <1> QED BY <1>12, <1>13, <1>14, <1>15, <1>16, <1>17, <1>18

-----------------------------------------------------------------------------
(* Removing partitions, and Shutdown *)

\* An idle timer takes a partition out of the LRU, or finds it gone.
LEMMA RemovePartitionControl ==
  ASSUME CInv, NEW p \in Parts, RemovePartition(p)
  PROVE  CInv'
  <1> USE DEF CInv
  <1>1. /\ pc[Timer(p)] = "lock" /\ mbLock = Free
        /\ UNCHANGED <<confVars, made, key, timeVars, cur, wg, poolVars, jobs, consVars,
                       doneVars, panicked, sd>>
    BY DEF RemovePartition
  <1> USE DEF confVars, timeVars, poolVars, consVars
  <1>2. Timer(p) \in Goroutines /\ Timer(p) # Stopper /\ Timer(p) # Free
    BY Names, Different, Holders
  <1>3. CASE pc' = [pc EXCEPT ![Timer(p)] = "select"] /\ UNCHANGED <<lru, victim, mbLock>>
    <2>1. Control'
      BY <1>1, <1>3, TimerMoves DEF ctlVars, TimerAt
    <2>2. Types'
      BY <1>1, <1>3 DEF Types
    <2>3. Busy'
      BY <1>1, <1>2, <1>3 DEF Busy, Positions
    <2> QED BY <2>1, <2>2, <2>3 DEF Control
  <1>4. ASSUME NEW i \in DOMAIN lru, lru' = RemoveAt(lru, i), victim' = lru[i],
               mbLock' = Timer(p), pc' = [pc EXCEPT ![Timer(p)] = "evict"]
        PROVE  CInv'
    <2>1. /\ lru \in Seq(1..made) /\ IsInjective(lru) /\ Len(lru) \in Nat /\ Len(lru) <= LruSize
          /\ LruSize \in Nat
      BY BatcherAssumption DEF Types
    <2>2. /\ lru' \in Seq(1..made) /\ Len(lru') = Len(lru) - 1
          /\ IsInjective(lru') /\ ToSet(lru') = ToSet(lru) \ {lru[i]}
      BY <1>4, <2>1, RemoveAtFacts
    <2>3. lru[i] \in 1..made /\ lru[i] \in Parts /\ lru[i] # None /\ lru[i] \in ToSet(lru)
      BY <1>4, LruParts, NoneAssumption
    <2>4. mbLock \notin Goroutines /\ mbLock \notin Consumers
      BY <1>1, Holders, Different
    <2>5. /\ \A g \in Goroutines : pc[g] # "evict"
          /\ \A q \in Parts : q <= made => Started(q)
      BY <2>4, Unlocked
    <2>6. partitioned /\ ~(sd \in {"waiting", "purge"})
      BY <1>1, Holders DEF Partitions, Locked
    <2>7. \A g \in Goroutines : pc'[g] = IF g = Timer(p) THEN "evict" ELSE pc[g]
      BY <1>2, <1>4 DEF Positions
    <2>8. \A q \in Parts : /\ pc'[Timer(q)] = IF q = p THEN "evict" ELSE pc[Timer(q)]
                           /\ pc'[Evictor(q)] = pc[Evictor(q)] /\ pc'[Closer(q)] = pc[Closer(q)]
      BY <2>7, Names, Different
    <2>9. \A d \in Consumers : pc'[d] = pc[d]
      BY <2>7, Different
    <2>10. \A q \in Parts : Started(q)' = Started(q)
      BY <1>1, <2>8 DEF Started
    <2>11. Types'
      BY <1>1, <1>2, <1>4, <2>1, <2>2, <2>3 DEF Types
    <2>12. Positions'
      <3>1. pc' \in [Goroutines -> ConsumerAt \cup TimerAt \cup StopperAt]
        BY <1>4 DEF Positions, TimerAt
      <3> QED BY <2>8, <2>9, <3>1 DEF Positions, TimerAt
    <2>13. Consuming'
      <3>1. \A d \in Consumers : part[d] \in Parts
        BY DEF Types
      <3> QED BY <1>1, <2>9, <2>10, <3>1 DEF Consuming
    <2>14. Locked'
      <3>1. \A g \in Goroutines : pc'[g] = "evict" <=> mbLock' = g
        BY <1>4, <2>5, <2>7
      <3>2. mbLock' \in Goroutines /\ victim' # None /\ victim' \notin ToSet(lru')
        BY <1>2, <1>4, <2>2, <2>3
      <3> QED BY <1>1, <1>2, <1>4, <2>6, <3>1, <3>2 DEF Locked
    <2>15. Partitions'
      <3>1. \A q \in Parts : pc[Evictor(q)] # "none" => q # victim' /\ q \notin ToSet(lru')
        BY <1>4, <2>2, <2>3 DEF Partitions
      <3>2. \A q \in Parts : q <= made => Started(q)'
        BY <2>5, <2>10
      <3>3. \A q \in Parts : pc'[Timer(q)] = "exit" => pc[Timer(q)] = "exit"
        BY <2>8
      <3> QED BY <1>1, <2>6, <2>8, <2>10, <3>1, <3>2, <3>3 DEF Partitions
    <2>16. Busy'
      BY <1>1, <2>7 DEF Busy
    <2>17. Requested'
      <3>1. Taken' = Taken /\ Fetching' = Fetching
        BY <1>1, <2>9 DEF Taken, Fetching
      <3> QED BY <1>1, <3>1 DEF Requested
    <2> QED BY <2>11, <2>12, <2>13, <2>14, <2>15, <2>16, <2>17
  <1> QED BY <1>3, <1>4 DEF RemovePartition

\* QueueBatch.Shutdown has stopped the queue.
LEMMA StopQueueControl ==
  ASSUME CInv, StopQueue
  PROVE  CInv'
  <1> USE DEF CInv
  <1>1. /\ sd = "running" /\ \A c \in Consumers : pc[c] = "idle"
        /\ sd' = "stopped"
        /\ UNCHANGED <<confVars, mbVars, timeVars, cur, wg, poolVars, pc, jobs, consVars,
                       doneVars, panicked>>
    BY DEF StopQueue
  <1> USE DEF confVars, mbVars, timeVars, poolVars, consVars
  <1>2. Types' /\ Positions' /\ Busy'
    BY <1>1 DEF Types, Positions, Busy
  <1>3. Consuming'
    BY <1>1 DEF Consuming, Started
  <1>4. Locked'
    BY <1>1 DEF Locked
  <1>5. Partitions'
    BY <1>1 DEF Partitions, Started
  <1>6. Requested'
    BY <1>1 DEF Requested, Taken, Fetching
  <1> QED BY <1>2, <1>3, <1>4, <1>5, <1>6

\* Shutdown begins to close the partitions in the LRU, or the only one.
LEMMA ShutdownPartitionsControl ==
  ASSUME CInv, ShutdownPartitions
  PROVE  CInv'
  <1> USE DEF CInv
  <1> DEFINE closing == IF partitioned THEN ToSet(lru) ELSE {1}
  <1>1. /\ sd = "stopped" /\ mbLock = Free /\ mbLock' = IF partitioned THEN Stopper ELSE Free
        /\ pc' = [g \in Goroutines |-> IF \E p \in closing : g = Closer(p) THEN "begin" ELSE pc[g]]
        /\ sd' = "waiting"
        /\ UNCHANGED <<confVars, lru, victim, made, key, timeVars, cur, wg, poolVars, jobs,
                       consVars, doneVars, panicked>>
    BY DEF ShutdownPartitions
  <1> USE DEF confVars, timeVars, poolVars, consVars
  <1>2. /\ closing \subseteq Parts /\ \A p \in closing : p <= made
        /\ partitioned => closing = ToSet(lru)
    <2>1. 1 \in Parts
      BY BatcherAssumption DEF Parts
    <2> QED BY <2>1, LruParts DEF Locked
  <1> HIDE DEF closing
  <1>3. \A q \in Parts : /\ pc'[Timer(q)] = pc[Timer(q)] /\ pc'[Evictor(q)] = pc[Evictor(q)]
                         /\ pc'[Closer(q)] = IF q \in closing THEN "begin" ELSE pc[Closer(q)]
    BY <1>1, <1>2, Names, Different
  <1>4. \A d \in Consumers : pc'[d] = pc[d]
    BY <1>1, <1>2, Different
  <1>5. mbLock \notin Goroutines /\ mbLock \notin Consumers
    BY <1>1, Holders, Different
  <1>6. /\ victim = None /\ \A g \in Goroutines : pc[g] # "evict"
        /\ \A q \in Parts : q <= made => Started(q)
    BY <1>5, Unlocked
  <1>7. \A q \in Parts : Started(q)' = Started(q)
    BY <1>3 DEF Started
  <1>8. \A q \in Parts : pc[Closer(q)] = "none"
    BY <1>1 DEF Partitions
  <1>9. \A q \in closing : pc[Evictor(q)] = "none"
    BY <1>2 DEF Partitions
  <1>10. Types'
    BY <1>1 DEF Types
  <1>11. Positions'
    <2>1. pc' \in [Goroutines -> ConsumerAt \cup TimerAt \cup StopperAt]
      BY <1>1 DEF Positions, StopperAt
    <2> QED BY <1>3, <1>4, <2>1 DEF Positions, StopperAt
  <1>12. Consuming'
    <2>1. \A d \in Consumers : part[d] \in Parts
      BY DEF Types
    <2> QED BY <1>1, <1>4, <1>7, <2>1 DEF Consuming
  <1>13. Locked'
    <2>1. \A g \in Goroutines : pc'[g] # "evict"
      BY <1>1, <1>6
    <2>2. mbLock' \notin Goroutines /\ (mbLock' = Stopper <=> partitioned)
      BY <1>1, Holders
    <2> QED BY <1>1, <1>6, <2>1, <2>2 DEF Locked
  <1>14. Partitions'
    <2> SUFFICES ASSUME NEW q \in Parts
                 PROVE  /\ q > made => ~Started(q)' /\ pc'[Evictor(q)] = "none" /\ pc'[Closer(q)] = "none"
                        /\ q <= made => Started(q)'
                        /\ ~active[q] <=> pc'[Evictor(q)] \in Stopping \/ pc'[Closer(q)] \in Stopping
                        /\ pc'[Closer(q)] # "none" => pc'[Evictor(q)] = "none"
      BY <1>1, <1>3 DEF Partitions
    <2>1. q \in Nat /\ made \in Nat
      BY DEF Parts, Types
    <2>2. q > made => q \notin closing
      BY <1>2, <2>1
    <2> QED BY <1>3, <1>6, <1>7, <1>8, <1>9, <2>2 DEF Partitions, Stopping
  <1>15. Busy'
    <2>1. \A g \in Goroutines : pc'[g] \in {"flush", "execute"} <=> pc[g] \in {"flush", "execute"}
      BY <1>1, <1>2, <1>8
    <2> QED BY <1>1, <2>1 DEF Busy
  <1>16. Requested'
    <2>1. Taken' = Taken /\ Fetching' = Fetching
      BY <1>1, <1>4 DEF Taken, Fetching
    <2> QED BY <1>1, <2>1 DEF Requested
  <1> QED BY <1>10, <1>11, <1>12, <1>13, <1>14, <1>15, <1>16

\* Shutdown has seen all closers return, and purges.
LEMMA PurgeControl ==
  ASSUME CInv, PartitionsShut \/ Purge \/ Purged
  PROVE  CInv'
  <1> USE DEF CInv, confVars, mbVars, timeVars, poolVars, consVars
  <1>1. CASE PartitionsShut
    <2>1. /\ sd = "waiting" /\ sd' = IF partitioned THEN "purge" ELSE "done"
          /\ \A p \in Parts : pc[Closer(p)] \in {"none", "exit"}
          /\ UNCHANGED <<confVars, mbVars, timeVars, cur, poolVars, pc, jobs, consVars, panicked>>
      BY <1>1 DEF PartitionsShut
    <2>2. Types' /\ Positions' /\ Busy'
      BY <2>1 DEF Types, Positions, Busy
    <2>3. Consuming'
      BY <2>1 DEF Consuming, Started
    <2>4. Locked'
      BY <2>1 DEF Locked
    <2>5. Partitions'
      BY <2>1 DEF Partitions, Started
    <2>6. Requested'
      BY <2>1 DEF Requested, Taken, Fetching
    <2> QED BY <2>2, <2>3, <2>4, <2>5, <2>6
  <1>2. CASE Purged
    <2>1. /\ sd = "purge" /\ sd' = "done" /\ mbLock' = Free /\ lru = <<>>
          /\ UNCHANGED <<confVars, lru, victim, made, key, timeVars, cur, poolVars, pc, jobs,
                         consVars, panicked>>
      BY <1>2 DEF Purged
    <2>2. mbLock \notin Goroutines
      BY <2>1, Unlocked, Holders DEF Locked
    <2>3. /\ victim = None /\ \A g \in Goroutines : pc[g] # "evict"
          /\ \A q \in Parts : q <= made => Started(q)
      BY <2>2, Unlocked, Different
    <2>4. Types' /\ Positions' /\ Busy'
      BY <2>1 DEF Types, Positions, Busy
    <2>5. Consuming'
      BY <2>1 DEF Consuming, Started
    <2>6. Locked'
      BY <2>1, <2>3, Holders DEF Locked
    <2>7. Partitions'
      BY <2>1, <2>3 DEF Partitions, Started
    <2>8. Requested'
      BY <2>1 DEF Requested, Taken, Fetching
    <2> QED BY <2>4, <2>5, <2>6, <2>7, <2>8
  <1>3. CASE Purge
    <2>1. PICK i \in DOMAIN lru : /\ pc' = [pc EXCEPT ![Evictor(lru[i])] = "begin"]
                                  /\ lru' = RemoveAt(lru, i)
      BY <1>3 DEF Purge
    <2>2. /\ sd = "purge"
          /\ UNCHANGED <<confVars, mbLock, victim, made, key, timeVars, cur, running, jobs,
                         consVars, panicked, sd>>
      BY <1>3 DEF Purge
    <2> DEFINE q0 == lru[i]
    <2>3. /\ lru \in Seq(1..made) /\ IsInjective(lru) /\ Len(lru) \in Nat /\ Len(lru) <= LruSize
          /\ LruSize \in Nat
      BY BatcherAssumption DEF Types
    <2>4. /\ lru' \in Seq(1..made) /\ Len(lru') = Len(lru) - 1
          /\ IsInjective(lru') /\ ToSet(lru') = ToSet(lru) \ {q0}
      BY <2>1, <2>3, RemoveAtFacts
    <2>5. q0 \in Parts /\ q0 <= made /\ q0 \in ToSet(lru)
      BY <2>1, LruParts
    <2>6. partitioned
      <3>1. lru # <<>>
        BY <2>1
      <3> QED BY <3>1 DEF Locked
    <2> HIDE DEF q0
    <2>7. mbLock \notin Goroutines
      BY <2>2, <2>6, Holders DEF Locked
    <2>8. /\ victim = None /\ \A g \in Goroutines : pc[g] # "evict"
          /\ \A q \in Parts : q <= made => Started(q)
      BY <2>7, Unlocked, Different
    <2>9. pc[Evictor(q0)] = "none" /\ pc[Closer(q0)] \in {"none", "exit"}
      BY <2>2, <2>5 DEF Partitions
    <2>10. Evictor(q0) \in Goroutines /\ pc' = [pc EXCEPT ![Evictor(q0)] = "begin"]
      BY <2>1, <2>5, Names, Different DEF q0
    <2>11. \A g \in Goroutines : pc'[g] = IF g = Evictor(q0) THEN "begin" ELSE pc[g]
      BY <2>10 DEF Positions
    <2>12. \A q \in Parts : /\ pc'[Timer(q)] = pc[Timer(q)] /\ pc'[Closer(q)] = pc[Closer(q)]
                            /\ pc'[Evictor(q)] = IF q = q0 THEN "begin" ELSE pc[Evictor(q)]
      BY <2>5, <2>11, Names, Different
    <2>13. \A d \in Consumers : pc'[d] = pc[d]
      BY <2>5, <2>11, Different
    <2>14. \A q \in Parts : Started(q)' = Started(q)
      BY <2>12 DEF Started
    <2>15. Types'
      BY <2>2, <2>3, <2>4 DEF Types
    <2>16. Positions'
      <3>1. pc' \in [Goroutines -> ConsumerAt \cup TimerAt \cup StopperAt]
        BY <2>10 DEF Positions, StopperAt
      <3> QED BY <2>12, <2>13, <3>1 DEF Positions, StopperAt
    <2>17. Consuming'
      <3>1. \A d \in Consumers : part[d] \in Parts
        BY DEF Types
      <3> QED BY <2>2, <2>13, <2>14, <3>1 DEF Consuming
    <2>18. Locked'
      <3>1. \A g \in Goroutines : pc'[g] # "evict"
        BY <2>8, <2>11
      <3>2. None \notin ToSet(lru')
        BY <2>4, LruParts, NoneAssumption
      <3> QED BY <2>2, <2>6, <2>7, <2>8, <3>1, <3>2 DEF Locked
    <2>19. Partitions'
      <3> SUFFICES ASSUME NEW q \in Parts
                   PROVE  /\ q > made => pc'[Evictor(q)] = "none"
                          /\ pc'[Evictor(q)] # "none" => q # victim /\ q \notin ToSet(lru')
                          /\ ~active[q] <=> pc'[Evictor(q)] \in Stopping \/ pc'[Closer(q)] \in Stopping
                          /\ pc'[Closer(q)] # "none" /\ pc'[Evictor(q)] # "none" =>
                                pc'[Closer(q)] = "exit" /\ pc'[Evictor(q)] \in {"begin", "exit"}
        BY <2>2, <2>6, <2>8, <2>12, <2>14 DEF Partitions
      <3>1. CASE q = q0
        <4>1. ~(q0 > made) /\ q0 # None
          BY <2>5, NoneAssumption DEF Parts, Types
        <4> QED BY <2>4, <2>8, <2>9, <2>12, <3>1, <4>1 DEF Partitions, Stopping
      <3>2. CASE q # q0
        BY <2>4, <2>12, <3>2 DEF Partitions
      <3> QED BY <3>1, <3>2
    <2>20. Busy'
      BY <2>2, <2>9, <2>11 DEF Busy
    <2>21. Requested'
      <3>1. Taken' = Taken /\ Fetching' = Fetching
        BY <2>2, <2>13 DEF Taken, Fetching
      <3> QED BY <2>2, <3>1 DEF Requested
    <2> QED BY <2>15, <2>16, <2>17, <2>18, <2>19, <2>20, <2>21
  <1> QED BY <1>1, <1>2, <1>3

-----------------------------------------------------------------------------
(* MergeSplit *)

\* How many pieces of size m are needed for a items.
LEMMA Ceiling ==
  ASSUME NEW a \in Nat, NEW m \in Nat \ {0}
  PROVE  LET n == (a + m - 1) \div m
         IN  n \in Nat /\ n * m >= a /\ (n - 1) * m < a
  OBVIOUS

\* i pieces of m items are more than j of them when i is.
LEMMA Multiples ==
  ASSUME NEW m \in Nat \ {0}, NEW i \in Int, NEW j \in Int, i <= j
  PROVE  i * m \in Int /\ j * m \in Int /\ i * m <= j * m /\ (i < j => i * m <= (j - 1) * m)
         /\ (j - 1) * m = j * m - m
  OBVIOUS

\* The places in s from which piece i is made.
Cut(s, i) == {k \in DOMAIN s : (i - 1) * MaxSize < k /\ k <= i * MaxSize}

\* Elements of a part of a sequence.
LEMMA SubSeqElements ==
  ASSUME NEW S, NEW s \in Seq(S), NEW lo \in 1..Len(s), NEW hi \in lo..Len(s)
  PROVE  /\ SubSeq(s, lo, hi) \in Seq(S) /\ Len(SubSeq(s, lo, hi)) = hi - lo + 1
         /\ ToSet(SubSeq(s, lo, hi)) = {s[k] : k \in lo..hi}
         /\ IsInjective(s) => IsInjective(SubSeq(s, lo, hi))
  <1> DEFINE t == SubSeq(s, lo, hi)
  <1>1. lo \in Int /\ hi \in Int /\ lo <= hi /\ Len(s) \in Nat /\ \A i \in lo..hi : s[i] \in S
    OBVIOUS
  <1>2. t \in Seq(S)
    BY <1>1, SubSeqProperties
  <1>3. Len(t) = IF lo <= hi THEN hi - lo + 1 ELSE 0
    BY <1>1, SubSeqProperties
  <1>4. \A i \in 1..(hi - lo + 1) : t[i] = s[lo + i - 1]
    BY <1>1, SubSeqProperties
  <1> HIDE DEF t
  <1>5. Len(t) = hi - lo + 1 /\ DOMAIN t = 1..(hi - lo + 1)
    BY <1>1, <1>2, <1>3
  <1>6. ToSet(t) = {s[k] : k \in lo..hi}
    <2>1. ASSUME NEW x \in ToSet(t) PROVE x \in {s[k] : k \in lo..hi}
      <3>1. PICK i \in 1..(hi - lo + 1) : x = t[i]
        BY <1>5 DEF ToSet
      <3>2. lo + i - 1 \in lo..hi /\ x = s[lo + i - 1]
        BY <1>1, <1>4, <3>1
      <3> QED BY <3>2
    <2>2. ASSUME NEW k \in lo..hi PROVE s[k] \in ToSet(t)
      <3>1. k - lo + 1 \in 1..(hi - lo + 1) /\ lo + (k - lo + 1) - 1 = k
        BY <1>1
      <3>2. t[k - lo + 1] = s[k]
        BY <1>4, <3>1
      <3> QED BY <1>5, <3>1, <3>2 DEF ToSet
    <2> QED BY <2>1, <2>2
  <1>7. ASSUME IsInjective(s) PROVE IsInjective(t)
    <2>1. \A j, k \in 1..Len(s) : s[j] = s[k] => j = k
      BY <1>7 DEF IsInjective
    <2>2. \A a \in 1..(hi - lo + 1) : lo + a - 1 \in 1..Len(s)
      BY <1>1
    <2> SUFFICES ASSUME NEW a \in 1..(hi - lo + 1), NEW b \in 1..(hi - lo + 1), t[a] = t[b] PROVE a = b
      BY <1>5 DEF IsInjective
    <2>3. lo + a - 1 = lo + b - 1
      BY <1>4, <2>1, <2>2
    <2> QED BY <1>1, <2>3
  <1> QED BY <1>2, <1>5, <1>6, <1>7 DEF t

\* What Chunks returns: a piece for every place, made of the places of its cut.
LEMMA ChunksFacts ==
  ASSUME MaxSize > 0, NEW S, NEW s \in Seq(S)
  PROVE  /\ Chunks(s) \in Seq(Seq(S))
         /\ \A i \in DOMAIN Chunks(s) : /\ i \in Nat /\ i >= 1
                                        /\ Chunks(s)[i] # <<>>
                                        /\ ToSet(Chunks(s)[i]) = {s[k] : k \in Cut(s, i)}
                                        /\ IsInjective(s) => IsInjective(Chunks(s)[i])
         /\ \A k \in DOMAIN s : \E i \in DOMAIN Chunks(s) : k \in Cut(s, i)
  <1> DEFINE m == MaxSize
             n == (Len(s) + m - 1) \div m
             hi(i) == IF i * m < Len(s) THEN i * m ELSE Len(s)
             t == Chunks(s)
  <1>1. m \in Nat \ {0} /\ Len(s) \in Nat
    BY BatcherAssumption
  <1>2. n \in Nat /\ n * m >= Len(s) /\ (n - 1) * m < Len(s)
    BY <1>1, Ceiling
  <1>3. t = [i \in 1..n |-> SubSeq(s, (i - 1) * m + 1, hi(i))]
    BY DEF Chunks
  <1> HIDE DEF n, t, m
  <1>4. ASSUME NEW i \in 1..n
        PROVE  /\ (i - 1) * m \in Nat /\ i * m \in Nat
               /\ (i - 1) * m + 1 \in 1..Len(s) /\ hi(i) \in ((i - 1) * m + 1)..Len(s)
               /\ ((i - 1) * m + 1)..hi(i) = Cut(s, i)
    <2>1. i \in Int /\ n \in Int /\ i <= n /\ 1 <= i /\ 0 \in Int /\ i - 1 \in Int /\ n - 1 \in Int /\ i - 1 <= n - 1
      BY <1>2
    <2>2. (i - 1) * m \in Int /\ (i - 1) * m <= (n - 1) * m /\ (i - 1) * m = i * m - m
      BY <1>1, <2>1, Multiples
    <2>3. i * m \in Int /\ (n - 1) * m \in Int
      BY <1>1, <2>1, Multiples
    <2>4. 0 <= (i - 1) * m
      <3>1. 0 <= i - 1 /\ 0 * m = 0
        BY <1>1, <2>1
      <3> QED BY <1>1, <2>1, <3>1, Multiples
    <2>5. (i - 1) * m < Len(s)
      BY <1>1, <1>2, <2>2, <2>3
    <2>6. hi(i) \in ((i - 1) * m + 1)..Len(s)
      BY <1>1, <2>2, <2>3, <2>4, <2>5
    <2>7. \A k \in Int : k \in ((i - 1) * m + 1)..hi(i) <=> k \in 1..Len(s) /\ (i - 1) * m < k /\ k <= i * m
      BY <1>1, <2>2, <2>3, <2>4, <2>5
    <2>8. ((i - 1) * m + 1)..hi(i) = Cut(s, i)
      <3>1. DOMAIN s = 1..Len(s) /\ hi(i) \in Int /\ (i - 1) * m + 1 \in Int
        BY <1>1, <2>2, <2>3
      <3>2. \A k \in ((i - 1) * m + 1)..hi(i) : k \in Int
        BY <3>1
      <3>3. \A k \in Cut(s, i) : k \in Int
        BY <1>1, <3>1 DEF Cut
      <3>4. \A k \in Int : k \in Cut(s, i) <=> k \in 1..Len(s) /\ (i - 1) * m < k /\ k <= i * m
        BY <3>1 DEF Cut, m
      <3> HIDE DEF hi
      <3> QED BY <2>7, <3>2, <3>3, <3>4
    <2> QED BY <1>1, <2>2, <2>3, <2>4, <2>5, <2>6, <2>8
  <1> HIDE DEF hi
  <1>5. ASSUME NEW i \in 1..n
        PROVE  /\ t[i] \in Seq(S) /\ t[i] # <<>>
               /\ ToSet(t[i]) = {s[k] : k \in Cut(s, i)}
               /\ IsInjective(s) => IsInjective(t[i])
    <2> DEFINE lo == (i - 1) * m + 1
               up == hi(i)
    <2>1. lo \in 1..Len(s) /\ up \in lo..Len(s) /\ lo..up = Cut(s, i) /\ t[i] = SubSeq(s, lo, up)
      BY <1>3, <1>4
    <2> HIDE DEF lo, up
    <2> DEFINE u == SubSeq(s, lo, up)
    <2>2. /\ u \in Seq(S) /\ Len(u) = up - lo + 1
          /\ ToSet(u) = {s[k] : k \in lo..up}
          /\ IsInjective(s) => IsInjective(u)
      <3> HIDE DEF u
      <3>1. ASSUME NEW a \in 1..Len(s), NEW b \in a..Len(s)
            PROVE  /\ SubSeq(s, a, b) \in Seq(S) /\ Len(SubSeq(s, a, b)) = b - a + 1
                   /\ ToSet(SubSeq(s, a, b)) = {s[k] : k \in a..b}
                   /\ IsInjective(s) => IsInjective(SubSeq(s, a, b))
        BY SubSeqElements
      <3> QED BY <2>1, <3>1, Zenon DEF u
    <2> HIDE DEF u
    <2>3. u # <<>>
      BY <1>1, <2>1, <2>2
    <2>4. t[i] = u
      BY <2>1 DEF u
    <2> QED BY <2>1, <2>2, <2>3, <2>4
  <1>6. DOMAIN t = 1..n
    BY <1>3
  <1>7. t \in Seq(Seq(S))
    <2>1. t \in [1..n -> Seq(S)]
      BY <1>3, <1>5, <1>6
    <2> QED BY <1>2, <2>1
  <1>8. ASSUME NEW k \in DOMAIN s PROVE \E i \in DOMAIN t : k \in Cut(s, i)
    <2> DEFINE i == (k + m - 1) \div m
    <2>1. k \in Nat /\ k >= 1 /\ k <= Len(s)
      BY <1>1
    <2>2. i \in Nat /\ i * m >= k /\ (i - 1) * m < k
      BY <1>1, <2>1, Ceiling
    <2> HIDE DEF i
    <2>3. i >= 1
      BY <1>1, <2>1, <2>2
    <2>4. i <= n
      <3> SUFFICES ASSUME n <= i - 1 PROVE FALSE
        BY <1>2, <2>2
      <3>1. n * m <= (i - 1) * m /\ n * m \in Int /\ (i - 1) * m \in Int
        BY <1>1, <1>2, <2>2, Multiples
      <3> QED BY <1>1, <1>2, <2>1, <2>2, <3>1
    <2>5. i \in DOMAIN t
      BY <1>2, <1>6, <2>2, <2>3, <2>4
    <2>6. k \in Cut(s, i)
      BY <2>2 DEF Cut, m
    <2> QED BY <2>5, <2>6
  <1>9. \A i \in DOMAIN t : i \in Nat /\ i >= 1
    BY <1>2, <1>6
  <1> QED BY <1>5, <1>6, <1>7, <1>8, <1>9 DEF t

\* A set of numbers that is not empty has a least element.
LEMMA LeastElement ==
  ASSUME NEW T \in SUBSET Nat, T # {}
  PROVE  \E x \in T : \A y \in T : x <= y
  <1> DEFINE R == OpToRel(<, Nat)
  <1>1. \A x, y \in Nat : x < y => <<x, y>> \in R
    BY DEF OpToRel
  <1>2. IsWellFoundedOn(R, Nat)
    BY NatLessThanWellFounded, Zenon
  <1> HIDE DEF R
  <1>3. PICK x \in T : \A y \in T : ~ (<<y, x>> \in R)
    BY <1>2, WFMin
  <1>4. ASSUME NEW y \in T PROVE x <= y
    <2>1. x \in Nat /\ y \in Nat /\ ~ (y < x)
      BY <1>1, <1>3
    <2> QED BY <2>1
  <1> QED BY <1>4

\* What MergeSplit returns is made of items of what it was given.
LEMMA MergeSplitTypes ==
  ASSUME NEW S, NEW s \in Seq(S)
  PROVE  /\ Extractable(s) \in Seq(S)
         /\ MergeSplit(s).pieces \in Seq(Seq(S)) /\ MergeSplit(s).err \in BOOLEAN
  <1>1. Extractable(s) \in Seq(S)
    <2> DEFINE big == {i \in DOMAIN s : IsBig(s[i])}
               m == CHOOSE i \in big : \A j \in big : i <= j
    <2>1. CASE big = {}
      BY <2>1 DEF Extractable
    <2>2. CASE big # {}
      <3>1. m \in big
        <4>1. big \in SUBSET Nat
          OBVIOUS
        <4>2. \E i \in big : \A j \in big : i <= j
          BY <2>2, <4>1, LeastElement
        <4> QED BY <4>2
      <3> HIDE DEF m
      <3>2. m \in 1..Len(s)
        BY <3>1
      <3> HIDE DEF big
      <3>3. SubSeq(s, 1, m - 1) \in Seq(S)
        BY <3>2
      <3> QED BY <2>2, <3>3 DEF Extractable, big, m
    <2> QED BY <2>1, <2>2
  <1>2. CASE MaxSize = 0 \/ (Extractable(s) = s /\ Len(s) <= MaxSize)
    <2>1. <<s>> \in Seq(Seq(S))
      OBVIOUS
    <2> QED BY <1>1, <1>2, <2>1 DEF MergeSplit
  <1>3. CASE ~(MaxSize = 0 \/ (Extractable(s) = s /\ Len(s) <= MaxSize))
    <2>1. MaxSize > 0
      BY <1>3, BatcherAssumption
    <2>2. Chunks(Extractable(s)) \in Seq(Seq(S))
      BY <1>1, <2>1, ChunksFacts
    <2> QED BY <1>1, <1>3, <2>2 DEF MergeSplit
  <1> QED BY <1>1, <1>2, <1>3

-----------------------------------------------------------------------------
(* CInv is kept by the steps that leave mb.lock alone *)

\* Each goroutine works for one partition.
LEMMA OwnPart ==
  ASSUME CInv, NEW g \in Goroutines
  PROVE  PartOf(g) \in Parts /\ (g \in Helpers => PartOf(g) = g.p)
  BY Names, Different DEF PartOf, CInv, Types, Goroutines

\* A goroutine in flushCurrentBatchOrRemovePartition or in flush goes on.
LEMMA FlushMoves ==
  ASSUME CInv, NEW g \in Goroutines,
         pc[g] \in {"flush", "execute", "self", "last", "select"},
         pc'[g] \in {"flush", "execute", Return(g)},
         pc' = [pc EXCEPT ![g] = pc'[g]], UNCHANGED <<ctlVars, active, onEmpty, req>>,
         \A d \in Consumers \ {g} : alone'[d] = alone[d],
         g \in Consumers /\ alone'[g] => pc'[g] \in {"flush", "execute"},
         g \notin Consumers => alone' = alone
  PROVE  Control'
  <1> USE DEF CInv
  <1> DEFINE n == pc'[g]
  <1>0. n \in {"flush", "execute", Return(g)} /\ pc' = [pc EXCEPT ![g] = n]
    OBVIOUS
  <1>4. g \in Consumers /\ alone'[g] => n \in {"flush", "execute"}
    OBVIOUS
  <1> HIDE DEF n
  <1>1. CASE g \in Consumers
    <2>1. n \in {"idle", "flush", "execute", "self"}
      BY <1>0, <1>1 DEF Return
    <2>2. pc[g] \in {"consume", "flush", "execute", "self"}
      BY <1>1 DEF Positions, ConsumerAt
    <2>3. req[g] = None
      BY <1>1, <2>2 DEF Consuming
    <2>4. req' = [req EXCEPT ![g] = None]
      BY <1>1, <2>3 DEF Types
    <2> QED BY <1>0, <1>4, <1>1, <2>1, <2>2, <2>4, ConsumerMoves
  <1>2. ASSUME NEW p \in Parts, g = Timer(p) PROVE Control'
    <2>1. g \notin Consumers /\ g.kind = "timer" /\ alone' = alone
      BY <1>2, Names, Different
    <2>2. n \in {"flush", "execute", "select"}
      BY <1>0, <2>1 DEF Return
    <2>3. pc[Timer(p)] \notin {"none", "evict"} /\ n \in TimerAt \ {"none", "evict"}
      BY <1>2, <2>2 DEF TimerAt
    <2>4. n # "exit" /\ n \notin {"onEmpty", "lock"}
      BY <2>2
    <2>5. pc' = [pc EXCEPT ![Timer(p)] = n] /\ UNCHANGED <<ctlVars, active, onEmpty, req, alone>>
      BY <1>0, <1>2, <2>1
    <2> QED BY <2>3, <2>4, <2>5, TimerMoves
  <1>3. ASSUME NEW p \in Parts, g \in {Evictor(p), Closer(p)} PROVE Control'
    <2>1. g \notin Consumers /\ g.kind # "timer" /\ alone' = alone
      BY <1>3, Names, Different
    <2>2. n \in Stopping
      BY <1>0, <2>1 DEF Return, Stopping
    <2>3. pc[g] \in Stopping /\ pc[g] \notin {"none", "exit"} /\ pc[g] # "begin"
      BY <1>3 DEF Positions, StopperAt, Stopping
    <2>4. active[p] = FALSE
      BY <1>3, <2>3 DEF Partitions, Types
    <2>5. active' = [active EXCEPT ![p] = FALSE]
      BY <2>4 DEF Types
    <2>6. UNCHANGED <<ctlVars, req, alone>> /\ \A q \in Parts : onEmpty'[q] => onEmpty[q]
      BY <2>1
    <2> QED BY <1>0, <1>3, <2>2, <2>3, <2>5, <2>6, StopperMoves
  <1> QED BY <1>1, <1>2, <1>3, Kinds

\* FlushAdd keeps it.
LEMMA FlushAddControl ==
  ASSUME CInv, NEW g \in Goroutines, FlushAdd(g)
  PROVE  CInv'
  <1> USE DEF CInv
  <1>1. /\ pc[g] = "flush" /\ pc' = [pc EXCEPT ![g] = "execute"]
        /\ UNCHANGED <<confVars, mbVars, timeVars, cur, poolVars, jobs, consVars, doneVars,
                 panicked, sd>>
    BY DEF FlushAdd
  <1> USE DEF confVars, mbVars, timeVars, poolVars, consVars, doneVars
  <1>2. Control'
    <2>1. pc'[g] = "execute"
      BY <1>1 DEF Positions
    <2>2. UNCHANGED <<ctlVars, active, onEmpty, req>> /\ alone' = alone
      BY <1>1 DEF ctlVars
    <2> QED BY <1>1, <2>1, <2>2, FlushMoves
  <1>3. Types'
    BY <1>1 DEF Types
  <1>4. Busy'
    BY <1>1 DEF Busy, Positions
  <1> QED BY <1>2, <1>3, <1>4 DEF Control

\* FlushExecute keeps it.
LEMMA FlushExecuteControl ==
  ASSUME CInv, NEW g \in Goroutines, FlushExecute(g)
  PROVE  /\ CInv' /\ jobs[g] \in Seq(Batches) /\ jobs[g] # <<>>
         /\ Head(jobs[g]) \in Batches /\ Tail(jobs[g]) \in Seq(Batches)
         /\ \A h \in Goroutines : jobs'[h] = IF h = g THEN Tail(jobs[g]) ELSE jobs[h]
         /\ \A h \in Goroutines : h # g => pc'[h] = pc[h]
         /\ pc'[g] = IF Len(jobs[g]) > 1 THEN "flush" ELSE Return(g)
  <1> USE DEF CInv
  <1> DEFINE n == IF Len(jobs[g]) > 1 THEN "flush" ELSE Return(g)
  <1>1. /\ pc[g] = "execute" /\ pc' = [pc EXCEPT ![g] = n]
        /\ running' = running \cup {Head(jobs[g])}
        /\ jobs' = [jobs EXCEPT ![g] = Tail(@)]
        /\ alone' = IF g \in Consumers /\ Len(jobs[g]) = 1
                      THEN [alone EXCEPT ![g] = FALSE] ELSE alone
        /\ UNCHANGED <<confVars, mbVars, timeVars, cur, wg, sent, part, req, taken, doneVars,
                 panicked, sd>>
    BY DEF FlushExecute
  <1> USE DEF confVars, mbVars, timeVars, poolVars, doneVars
  <1>2. jobs[g] \in Seq(Batches) /\ jobs[g] # <<>>
    BY <1>1 DEF Busy, Types
  <1>3. Len(jobs[g]) \in Nat \ {0} /\ Head(jobs[g]) \in Batches /\ Tail(jobs[g]) \in Seq(Batches)
    BY <1>2
  <1>4. n \in {"flush", "execute", Return(g)}
    OBVIOUS
  <1>5. Control'
    <2>0. pc'[g] = n
      BY <1>1 DEF Positions
    <2>1. g \in Consumers /\ alone'[g] => pc'[g] \in {"flush", "execute"}
      <3>1. CASE Len(jobs[g]) = 1
        BY <1>1, <3>1 DEF Types
      <3>2. CASE Len(jobs[g]) # 1
        <4>1. \A k \in Nat \ {0} : k # 1 => k > 1
          OBVIOUS
        <4>2. Len(jobs[g]) > 1
          BY <1>3, <3>2, <4>1, Zenon
        <4> QED BY <2>0, <4>2
      <3> QED BY <3>1, <3>2
    <2>2. /\ UNCHANGED <<ctlVars, active, onEmpty, req>> /\ (g \notin Consumers => alone' = alone)
          /\ \A d \in Consumers \ {g} : alone'[d] = alone[d]
      BY <1>1 DEF ctlVars, Types
    <2>3. /\ pc[g] \in {"flush", "execute", "self", "last", "select"}
          /\ pc' = [pc EXCEPT ![g] = pc'[g]] /\ pc'[g] \in {"flush", "execute", Return(g)}
      BY <1>1, <1>4, <2>0
    <2> HIDE DEF n, CInv
    <2> QED BY <2>1, <2>2, <2>3, FlushMoves
  <1>6. Types'
    <2>1. alone' \in [Consumers -> BOOLEAN]
      BY <1>1 DEF Types
    <2>2. running' \subseteq Batches /\ jobs' \in [Goroutines -> Seq(Batches)]
      BY <1>1, <1>3 DEF Types
    <2> QED BY <1>1, <2>1, <2>2 DEF Types
  <1>7. \A h \in Goroutines : jobs'[h] = IF h = g THEN Tail(jobs[g]) ELSE jobs[h]
    BY <1>1 DEF Types
  <1>8. \A h \in Goroutines : pc'[h] = IF h = g THEN n ELSE pc[h]
    BY <1>1 DEF Positions
  <1>9. Busy'
    <2>1. Tail(jobs[g]) # <<>> <=> Len(jobs[g]) > 1
      BY <1>2
    <2>2. Return(g) \notin {"flush", "execute"}
      BY DEF Return
    <2> QED BY <1>7, <1>8, <2>1, <2>2 DEF Busy
  <1> QED BY <1>2, <1>3, <1>5, <1>6, <1>7, <1>8, <1>9 DEF Control

\* FlushCurrent keeps it.
LEMMA FlushCurrentControl ==
  ASSUME CInv, NEW g \in Goroutines, FlushCurrent(g)
  PROVE  /\ CInv' /\ cur[PartOf(g)] \in Batches
         /\ pc[g] \in {"self", "last", "select"} /\ jobs[g] = <<>>
         /\ \A h \in Goroutines : jobs'[h] = IF h = g THEN <<cur[PartOf(g)]>> ELSE jobs[h]
         /\ \A h \in Goroutines : pc'[h] = IF h = g THEN "flush" ELSE pc[h]
         /\ \A q \in Parts : cur'[q] = IF q = PartOf(g) THEN None ELSE cur[q]
         /\ \A q \in Parts : armed'[q] = (armed[q] \/ q = PartOf(g))
  <1> USE DEF CInv
  <1> DEFINE p == PartOf(g)
  <1>0. p \in Parts
    BY OwnPart
  <1> HIDE DEF p
  <1>1. /\ AtFlush(g) /\ cur[p] # None
        /\ cur' = [cur EXCEPT ![p] = None]
        /\ armed' = [armed EXCEPT ![p] = TRUE]
        /\ jobs' = [jobs EXCEPT ![g] = <<cur[p]>>]
        /\ pc' = [pc EXCEPT ![g] = "flush"]
        /\ UNCHANGED <<confVars, mbVars, active, onEmpty, wg, poolVars, consVars,
                     doneVars, panicked, sd>>
    BY DEF FlushCurrent, p
  <1> USE DEF confVars, mbVars, poolVars, consVars, doneVars
  <1>2. pc[g] \in {"self", "last", "select"}
    BY <1>1 DEF AtFlush
  <1>3. Control'
    <2>1. pc'[g] = "flush"
      BY <1>1 DEF Positions
    <2>2. UNCHANGED <<ctlVars, active, onEmpty, req>> /\ alone' = alone
      BY <1>1 DEF ctlVars
    <2> QED BY <1>1, <1>2, <2>1, <2>2, FlushMoves
  <1>4. cur[p] \in Batches /\ <<cur[p]>> \in Seq(Batches) /\ <<cur[p]>> # <<>>
    BY <1>0, <1>1 DEF Types
  <1>5. Types'
    <2>1. cur' \in [Parts -> Batches \cup {None}] /\ armed' \in [Parts -> BOOLEAN]
      BY <1>0, <1>1 DEF Types
    <2>2. jobs' \in [Goroutines -> Seq(Batches)]
      BY <1>1, <1>4 DEF Types
    <2> QED BY <1>1, <2>1, <2>2 DEF Types
  <1>6. \A h \in Goroutines : jobs'[h] = IF h = g THEN <<cur[p]>> ELSE jobs[h]
    BY <1>1 DEF Types
  <1>7. \A h \in Goroutines : pc'[h] = IF h = g THEN "flush" ELSE pc[h]
    BY <1>1 DEF Positions
  <1>8. Busy'
    BY <1>4, <1>6, <1>7 DEF Busy
  <1>9. jobs[g] = <<>>
    BY <1>2 DEF Busy
  <1>10. \A q \in Parts : cur'[q] = IF q = p THEN None ELSE cur[q]
    BY <1>1 DEF Types
  <1>11. \A q \in Parts : armed'[q] = (armed[q] \/ q = p)
    BY <1>1 DEF Types
  <1> QED BY <1>2, <1>3, <1>4, <1>5, <1>6, <1>7, <1>8, <1>9, <1>10, <1>11 DEF Control, p

\* NothingToFlush keeps it.
LEMMA NothingToFlushControl ==
  ASSUME CInv, NEW g \in Goroutines, NothingToFlush(g)
  PROVE  CInv'
  <1> USE DEF CInv
  <1> DEFINE p == PartOf(g)
             n == Return(g)
  <1>0. p \in Parts
    BY OwnPart
  <1>1. /\ AtFlush(g)
        /\ armed' = [armed EXCEPT ![p] = TRUE] /\ pc' = [pc EXCEPT ![g] = n]
        /\ UNCHANGED <<confVars, mbVars, active, onEmpty, cur, wg, poolVars, jobs,
                     consVars, doneVars, panicked, sd>>
    BY DEF NothingToFlush
  <1> HIDE DEF p, n
  <1> USE DEF confVars, mbVars, poolVars, consVars, doneVars
  <1>2. pc[g] \in {"self", "last", "select"}
    BY <1>1 DEF AtFlush
  <1>3. n \in {"flush", "execute", Return(g)} /\ n \notin {"flush", "execute"}
    BY DEF n, Return
  <1>4. Control'
    <2>1. g \in Consumers => ~alone[g]
      BY <1>2 DEF Consuming
    <2>2. UNCHANGED <<ctlVars, active, onEmpty, req>> /\ alone' = alone
      BY <1>1 DEF ctlVars
    <2>0. pc'[g] = n
      BY <1>1 DEF Positions
    <2>3. /\ pc[g] \in {"flush", "execute", "self", "last", "select"}
          /\ pc' = [pc EXCEPT ![g] = pc'[g]] /\ pc'[g] \in {"flush", "execute", Return(g)}
      BY <1>1, <1>2, <1>3, <2>0
    <2>4. g \in Consumers /\ alone'[g] => pc'[g] \in {"flush", "execute"}
      BY <2>1, <2>2
    <2>5. \A d \in Consumers \ {g} : alone'[d] = alone[d]
      BY <2>2
    <2> HIDE DEF CInv
    <2> QED BY <2>2, <2>3, <2>4, <2>5, FlushMoves
  <1>5. Types'
    <2>1. armed' \in [Parts -> BOOLEAN]
      BY <1>0, <1>1 DEF Types
    <2> QED BY <1>1, <2>1 DEF Types
  <1>6. \A h \in Goroutines : pc'[h] = IF h = g THEN n ELSE pc[h]
    BY <1>1 DEF Positions
  <1>7. Busy'
    BY <1>1, <1>2, <1>3, <1>6 DEF Busy
  <1> QED BY <1>4, <1>5, <1>7 DEF Control

\* Exported keeps it.
LEMMA ExportedControl ==
  ASSUME CInv, NEW b \in running, NEW ok \in BOOLEAN, Exported(b, ok)
  PROVE  CInv'
  <1>1. /\ running' = running \ {b}
        /\ UNCHANGED <<confVars, mbVars, timeVars, cur, pc, jobs, consVars, refused,
                 panicked, sd>>
    BY DEF Exported
  <1> USE DEF confVars, mbVars, timeVars, consVars
  <1>2. Types'
    BY <1>1 DEF CInv, Types
  <1>3. Positions' /\ Busy'
    BY <1>1 DEF CInv, Positions, Busy
  <1>4. Consuming' /\ Partitions'
    BY <1>1 DEF CInv, Consuming, Partitions, Started
  <1>5. Locked'
    BY <1>1 DEF CInv, Locked
  <1>6. Requested'
    BY <1>1 DEF CInv, Requested, Taken, Fetching
  <1> QED BY <1>2, <1>3, <1>4, <1>5, <1>6 DEF CInv

\* The timer's steps outside mb.lock keep it.
LEMMA TimerControl ==
  ASSUME CInv, NEW p \in Parts, Idle(p) \/ CallOnEmpty(p) \/ TimerExit(p)
  PROVE  CInv'
  <1> USE DEF CInv, confVars, mbVars, timeVars, poolVars, consVars, doneVars
  <1>0. Timer(p) \in Goroutines /\ Timer(p).p = p
    BY Names, Different
  <1> DEFINE n == pc'[Timer(p)]
  <1>1. /\ pc' = [pc EXCEPT ![Timer(p)] = n]
        /\ pc[Timer(p)] \in {"select", "onEmpty"} /\ n \in {"onEmpty", "lock", "exit"}
        /\ n = "exit" => ~active[p]
        /\ n \in {"onEmpty", "lock"} => partitioned
        /\ UNCHANGED <<ctlVars, active, onEmpty, req, alone>>
        /\ UNCHANGED <<stream, key, cur, running, jobs>>
        /\ armed' \in [Parts -> BOOLEAN] /\ panicked' \in BOOLEAN
    <2>1. CASE Idle(p)
      <3>1. /\ AtFlush(Timer(p)) /\ onEmpty[p]
            /\ armed' = [armed EXCEPT ![p] = FALSE]
            /\ pc' = [pc EXCEPT ![Timer(p)] = "onEmpty"]
            /\ UNCHANGED <<confVars, mbVars, active, onEmpty, cur, wg, poolVars, jobs,
                 consVars, doneVars, panicked, sd>>
        BY <2>1 DEF Idle
      <3>2. n = "onEmpty" /\ pc[Timer(p)] = "select"
        BY <1>0, <3>1 DEF Positions, TimerAt, AtFlush
      <3>3. partitioned
        BY <3>1 DEF Locked
      <3>4. armed' \in [Parts -> BOOLEAN] /\ panicked' \in BOOLEAN
        BY <3>1 DEF Types
      <3> QED BY <3>1, <3>2, <3>3, <3>4 DEF ctlVars
    <2>2. CASE CallOnEmpty(p)
      <3>1. /\ pc[Timer(p)] = "onEmpty"
            /\ pc' = [pc EXCEPT ![Timer(p)] = "lock"]
            /\ panicked' = ~onEmpty[p]
            /\ UNCHANGED <<confVars, mbVars, timeVars, cur, wg, poolVars, jobs, consVars,
                           doneVars, sd>>
        BY <2>2 DEF CallOnEmpty
      <3>2. n = "lock"
        BY <1>0, <3>1 DEF Positions
      <3>3. partitioned
        BY <3>1 DEF Partitions
      <3>4. armed' \in [Parts -> BOOLEAN] /\ panicked' \in BOOLEAN
        BY <3>1 DEF Types
      <3> QED BY <3>1, <3>2, <3>3, <3>4 DEF ctlVars
    <2>3. CASE TimerExit(p)
      <3>1. /\ pc[Timer(p)] = "select" /\ ~active[p]
            /\ pc' = [pc EXCEPT ![Timer(p)] = "exit"]
            /\ UNCHANGED <<confVars, mbVars, timeVars, cur, poolVars, jobs, consVars, doneVars,
                           panicked, sd>>
        BY <2>3 DEF TimerExit
      <3>2. n = "exit"
        BY <1>0, <3>1 DEF Positions
      <3>4. armed' \in [Parts -> BOOLEAN] /\ panicked' \in BOOLEAN
        BY <3>1 DEF Types
      <3> QED BY <3>1, <3>2, <3>4 DEF ctlVars
    <2> QED BY <2>1, <2>2, <2>3
  <1> HIDE DEF n
  <1>2. Control'
    <2>1. n \in TimerAt \ {"none", "evict"} /\ pc[Timer(p)] \notin {"none", "evict"}
      BY <1>1 DEF TimerAt
    <2> HIDE DEF CInv
    <2> QED BY <1>1, <2>1, TimerMoves
  <1>3. Types'
    BY <1>1 DEF Types, ctlVars
  <1>4. Busy'
    BY <1>0, <1>1 DEF Busy, Positions
  <1> QED BY <1>2, <1>3, <1>4 DEF Control

\* The steps of shutdownInternal keep it.
LEMMA ShutdownInternalControl ==
  ASSUME CInv, NEW g \in Helpers, ShutdownInternal(g)
  PROVE  CInv'
  <1> USE DEF CInv, confVars, mbVars, timeVars, poolVars, consVars, doneVars
  <1> DEFINE p == g.p
             n == pc'[g]
  <1>0. g \in Goroutines /\ p \in Parts
    BY Names, Different
  <1>1. /\ pc' = [pc EXCEPT ![g] = n]
        /\ pc[g] \in {"begin", "wait"} /\ n \in {"last", "exit"}
        /\ pc[g] = "begin" => n = IF active[p] THEN "last" ELSE "exit"
        /\ active' = [active EXCEPT ![p] = FALSE] \/ (pc[g] = "wait" /\ active' = active)
        /\ \A q \in Parts : onEmpty'[q] => onEmpty[q]
        /\ onEmpty' \in [Parts -> BOOLEAN]
        /\ UNCHANGED <<ctlVars, armed, req, alone>>
        /\ UNCHANGED <<stream, key, cur, running, jobs, panicked>>
    <2>1. CASE Deactivate(g)
      <3>1. /\ pc[g] = "begin" /\ active[p]
            /\ active' = [active EXCEPT ![p] = FALSE]
            /\ onEmpty' = [onEmpty EXCEPT ![p] = FALSE]
            /\ pc' = [pc EXCEPT ![g] = "last"]
            /\ UNCHANGED <<confVars, mbVars, armed, cur, wg, poolVars, jobs, consVars,
                 doneVars, panicked, sd>>
        BY <2>1 DEF Deactivate
      <3>2. n = "last"
        BY <1>0, <3>1 DEF Positions
      <3>3. onEmpty' \in [Parts -> BOOLEAN] /\ \A q \in Parts : onEmpty'[q] => onEmpty[q]
        BY <3>1 DEF Types
      <3> QED BY <3>1, <3>2, <3>3 DEF ctlVars
    <2>2. CASE AlreadyInactive(g) \/ Stopped(g)
      <3>1. /\ pc[g] \in {"begin", "wait"} /\ (pc[g] = "begin" => ~active[p])
            /\ active' = active /\ onEmpty' = onEmpty
            /\ pc' = [pc EXCEPT ![g] = "exit"]
            /\ UNCHANGED <<confVars, mbVars, armed, cur, wg, running, sent, jobs, consVars,
                 doneVars, panicked, sd>>
        BY <2>2 DEF AlreadyInactive, Stopped, Finish
      <3>2. n = "exit"
        BY <1>0, <3>1 DEF Positions
      <3>3. onEmpty' \in [Parts -> BOOLEAN] /\ \A q \in Parts : onEmpty'[q] => onEmpty[q]
        BY <3>1 DEF Types
      <3>4. pc[g] = "begin" => active' = [active EXCEPT ![p] = FALSE]
        BY <1>0, <3>1 DEF Types
      <3> QED BY <3>1, <3>2, <3>3, <3>4 DEF ctlVars
    <2> QED BY <2>1, <2>2 DEF ShutdownInternal
  <1> HIDE DEF n, p
  <1>2. g \in {Evictor(p), Closer(p)}
    <2>1. pc[g] \notin TimerAt
      BY <1>1 DEF TimerAt
    <2>2. g # Timer(p)
      BY <1>0, <2>1 DEF Positions
    <2> QED BY <2>2, Names DEF p
  <1>3. active' = [active EXCEPT ![p] = FALSE]
    <2>1. ASSUME pc[g] = "wait" PROVE ~active[p]
      BY <1>0, <1>2, <2>1 DEF Partitions, Stopping
    <2>2. ASSUME pc[g] = "wait", active' = active PROVE active' = [active EXCEPT ![p] = FALSE]
      BY <1>0, <2>1, <2>2 DEF Types
    <2> QED BY <1>1, <2>2
  <1>4. Control'
    <2>1. n \in Stopping /\ pc[g] \notin {"none", "exit"}
      BY <1>1 DEF Stopping
    <2>2. UNCHANGED <<ctlVars, req, alone>>
      BY <1>1
    <2> HIDE DEF CInv
    <2> QED BY <1>0, <1>1, <1>2, <1>3, <2>1, <2>2, StopperMoves
  <1>5. Types'
    <2>1. active' \in [Parts -> BOOLEAN]
      BY <1>0, <1>3 DEF Types
    <2> QED BY <1>1, <2>1 DEF Types, ctlVars
  <1>6. Busy'
    BY <1>0, <1>1 DEF Busy, Positions
  <1> QED BY <1>4, <1>5, <1>6 DEF Control

-----------------------------------------------------------------------------
(* Consume *)

\* What MergeSplit makes of the current batch and the request of c, and the
\* batches that c flushes then.
Split(c) == MergeSplit(Merged(c))
Kept(c) == KeepLast(Split(c))
Pieces(c) == Len(Split(c).pieces)
Flushed(c) ==
  [i \in 1..(IF Kept(c) THEN Pieces(c) - 1 ELSE Pieces(c)) |-> BatchOf(c, Split(c), i)]

\* What a consumer has in consumeInternal.
LEMMA ConsumeTypes ==
  ASSUME CInv, NEW c \in Consumers, pc[c] = "consume"
  PROVE  /\ c \in Goroutines /\ part[c] \in Parts /\ req[c] \in Fetched /\ req[c] # None
         /\ req[c].id \in Requests /\ taken[req[c].id] \in RequestItems
         /\ cur[part[c]] # None => cur[part[c]] \in Batches
         /\ Merged(c) \in RequestItems
         /\ Split(c).pieces \in Seq(RequestItems) /\ Split(c).err \in BOOLEAN
         /\ Pieces(c) \in Nat /\ (Split(c).pieces # <<>> => Pieces(c) >= 1)
         /\ \A i \in 1..Pieces(c) :
              /\ BatchOf(c, Split(c), i) \in Batches
              /\ BatchOf(c, Split(c), i).p = part[c]
              /\ BatchOf(c, Split(c), i).items = Split(c).pieces[i]
  <1> USE DEF CInv
  <1>1. c \in Goroutines /\ part[c] \in Parts /\ req[c] # None /\ req[c] \in Fetched
    BY Different DEF Types, Consuming
  <1>2. req[c].id \in Requests /\ req[c].id \in Taken
    BY <1>1, Fields DEF Requested
  <1>3. taken[req[c].id] \in RequestItems
    BY <1>2 DEF Taken, Types
  <1>4. cur[part[c]] # None => cur[part[c]] \in Batches
    BY <1>1 DEF Types
  <1>5. Merged(c) \in RequestItems
    <2>1. cur[part[c]] # None => cur[part[c]].items \in RequestItems
      BY <1>4, Fields
    <2>2. \A s, t \in RequestItems : s \o t \in RequestItems
      BY DEF RequestItems
    <2>3. <<>> \in RequestItems
      BY DEF RequestItems
    <2> QED BY <1>3, <2>1, <2>2, <2>3 DEF Merged
  <1>6. Split(c).pieces \in Seq(RequestItems) /\ Split(c).err \in BOOLEAN
    BY <1>5, MergeSplitTypes DEF Split, RequestItems
  <1>7. Pieces(c) \in Nat /\ (Split(c).pieces # <<>> => Pieces(c) >= 1)
    BY <1>6 DEF Pieces
  <1>8. ASSUME NEW i \in 1..Pieces(c)
        PROVE  /\ BatchOf(c, Split(c), i) \in Batches
               /\ BatchOf(c, Split(c), i).p = part[c]
               /\ BatchOf(c, Split(c), i).items = Split(c).pieces[i]
    <2>1. Split(c).pieces[i] \in RequestItems
      BY <1>6 DEF Pieces
    <2>2. cur[part[c]] # None => cur[part[c]].dones \in SUBSET Requests
      BY <1>4, Fields
    <2> DEFINE d == IF i = 1 /\ cur[part[c]] # None THEN cur[part[c]].dones \cup {req[c].id}
                    ELSE {req[c].id}
    <2>3. d \in SUBSET Requests
      BY <1>2, <2>2
    <2>4. BatchOf(c, Split(c), i) = [p |-> part[c], items |-> Split(c).pieces[i], dones |-> d]
      BY DEF BatchOf
    <2> HIDE DEF d
    <2> QED BY <1>1, <2>1, <2>3, <2>4 DEF Batches, RequestItems
  <1> QED BY <1>1, <1>2, <1>3, <1>4, <1>5, <1>6, <1>7, <1>8

\* ConsumeRefused, without the LETs.
LEMMA RefusedStep ==
  ASSUME CInv, NEW c \in Consumers, ConsumeRefused(c)
  PROVE  /\ pc[c] = "consume" /\ Split(c).pieces = <<>>
         /\ cur' = IF cur[part[c]] = None THEN cur
                   ELSE [cur EXCEPT ![part[c]].items = Merged(c)]
         /\ pc' = [pc EXCEPT ![c] = IF active[part[c]] THEN "idle" ELSE "self"]
         /\ alone' = [alone EXCEPT ![c] = FALSE]
         /\ req' = [req EXCEPT ![c] = None]
         /\ answer' = [answer EXCEPT ![req[c].id] = "err"]
         /\ refused' = refused \cup {req[c].id}
         /\ UNCHANGED <<confVars, mbVars, timeVars, wg, poolVars, jobs, part, taken,
                        refs, failed, panicked, sd>>
  <1>1. \A x, y : (IF ~active[part[c]] THEN x ELSE y) = IF active[part[c]] THEN y ELSE x
    OBVIOUS
  <1>2. pc' = [pc EXCEPT ![c] = IF ~active[part[c]] THEN "self" ELSE "idle"]
    BY DEF ConsumeRefused, SeesInactive
  <1>3. pc' = [pc EXCEPT ![c] = IF active[part[c]] THEN "idle" ELSE "self"]
    BY <1>1, <1>2
  <1> QED BY <1>3 DEF ConsumeRefused, Split

\* ConsumeSplit, without the LETs.
LEMMA SplitStep ==
  ASSUME CInv, NEW c \in Consumers, ConsumeSplit(c)
  PROVE  /\ pc[c] = "consume" /\ Split(c).pieces # <<>>
         /\ refs' = [refs EXCEPT ![req[c].id] =
                       NumRefs(Split(c)) - (IF Split(c).err THEN 1 ELSE 0)]
         /\ failed' = [failed EXCEPT ![req[c].id] = Split(c).err]
         /\ cur' = [cur EXCEPT ![part[c]] =
                      IF Kept(c) THEN BatchOf(c, Split(c), Pieces(c)) ELSE None]
         /\ armed' = [armed EXCEPT ![part[c]] =
                        armed[part[c]] \/ (Kept(c) /\ (cur[part[c]] = None \/ Pieces(c) > 1))]
         /\ jobs' = [jobs EXCEPT ![c] = Flushed(c)]
         /\ alone' = [alone EXCEPT ![c] = Flushed(c) # <<>> /\ ~active[part[c]]]
         /\ req' = [req EXCEPT ![c] = None]
         /\ pc' = [pc EXCEPT ![c] = IF Flushed(c) # <<>> THEN "flush"
                                    ELSE IF active[part[c]] THEN "idle" ELSE "self"]
         /\ UNCHANGED <<confVars, mbVars, active, onEmpty, wg, poolVars, part, taken,
                        answer, refused, panicked, sd>>
  <1>1. \A x, y : (IF ~active[part[c]] THEN x ELSE y) = IF active[part[c]] THEN y ELSE x
    OBVIOUS
  <1>2. pc' = [pc EXCEPT ![c] = IF Flushed(c) = <<>> THEN (IF ~active[part[c]] THEN "self" ELSE "idle")
                                ELSE "flush"]
    BY DEF ConsumeSplit, SeesInactive, Split, Kept, Pieces, Flushed
  <1>3. pc' = [pc EXCEPT ![c] = IF Flushed(c) # <<>> THEN "flush"
                                ELSE IF active[part[c]] THEN "idle" ELSE "self"]
    BY <1>1, <1>2
  <1>4. jobs' = [jobs EXCEPT ![c] = Flushed(c)]
    BY DEF ConsumeSplit, Split, Kept, Pieces, Flushed
  <1>5. alone' = [alone EXCEPT ![c] = Flushed(c) # <<>> /\ ~active[part[c]]]
    BY DEF ConsumeSplit, SeesInactive, Split, Kept, Pieces, Flushed
  <1>6. armed' = [armed EXCEPT ![part[c]] =
                    armed[part[c]] \/ (Kept(c) /\ (cur[part[c]] = None \/ Pieces(c) > 1))]
    BY DEF ConsumeSplit, Split, Kept, Pieces
  <1>7. cur' = [cur EXCEPT ![part[c]] =
                      IF Kept(c) THEN BatchOf(c, Split(c), Pieces(c)) ELSE None]
    BY DEF ConsumeSplit, Split, Kept, Pieces
  <1>8. /\ pc[c] = "consume" /\ Split(c).pieces # <<>>
        /\ refs' = [refs EXCEPT ![req[c].id] =
                       NumRefs(Split(c)) - (IF Split(c).err THEN 1 ELSE 0)]
        /\ failed' = [failed EXCEPT ![req[c].id] = Split(c).err]
        /\ req' = [req EXCEPT ![c] = None]
        /\ UNCHANGED <<confVars, mbVars, active, onEmpty, wg, poolVars, part, taken,
                        answer, refused, panicked, sd>>
    BY DEF ConsumeSplit, Split
  <1> QED BY <1>3, <1>4, <1>5, <1>6, <1>7, <1>8

\* ConsumeRefused keeps CInv.
LEMMA RefusedControl ==
  ASSUME CInv, NEW c \in Consumers, ConsumeRefused(c)
  PROVE  /\ CInv' /\ \A q \in Parts : cur'[q] = None <=> cur[q] = None
         /\ \A q \in Parts : cur[q] # None => cur'[q].p = cur[q].p /\ cur'[q].dones = cur[q].dones
         /\ \A q \in Parts : cur'[q] # cur[q] => q = part[c] /\ cur'[q].items = Merged(c)
  <1> DEFINE p == part[c]
             n == IF active[p] THEN "idle" ELSE "self"
  <1>1. /\ pc[c] = "consume"
        /\ cur' = IF cur[p] = None THEN cur ELSE [cur EXCEPT ![p].items = Merged(c)]
        /\ pc' = [pc EXCEPT ![c] = n]
        /\ alone' = [alone EXCEPT ![c] = FALSE]
        /\ req' = [req EXCEPT ![c] = None]
        /\ UNCHANGED <<confVars, mbVars, timeVars, wg, poolVars, jobs, part, taken,
                        refs, failed, panicked, sd>>
    BY RefusedStep
  <1>2. /\ c \in Goroutines /\ p \in Parts /\ Merged(c) \in RequestItems
        /\ cur[p] # None => cur[p] \in Batches
    BY <1>1, ConsumeTypes
  <1>3. n \in {"idle", "self"}
    OBVIOUS
  <1> HIDE DEF p, n
  <1> USE DEF CInv, confVars, mbVars, timeVars, poolVars
  <1>4. Control'
    <2>1. alone'[c] = FALSE /\ \A d \in Consumers \ {c} : alone'[d] = alone[d]
      BY <1>1 DEF Types
    <2>2. UNCHANGED <<ctlVars, active, onEmpty>> /\ n \in {"idle", "flush", "execute", "self"}
          /\ pc[c] \in {"consume", "flush", "execute", "self"}
      BY <1>1, <1>3 DEF ctlVars
    <2> HIDE DEF CInv
    <2> QED BY <1>1, <2>1, <2>2, ConsumerMoves
  <1>5. \A q \in Parts : cur'[q] = IF q = p /\ cur[p] # None
                                     THEN [cur[p] EXCEPT !.items = Merged(c)] ELSE cur[q]
    <2>1. CASE cur[p] = None
      BY <1>1, <2>1
    <2>2. CASE cur[p] # None
      <3>1. cur' = [cur EXCEPT ![p] = [cur[p] EXCEPT !.items = Merged(c)]]
        BY <1>1, <2>2
      <3> QED BY <2>2, <3>1 DEF Types
    <2> QED BY <2>1, <2>2
  <1>6. ASSUME cur[p] # None
        PROVE  /\ [cur[p] EXCEPT !.items = Merged(c)] \in Batches
               /\ [cur[p] EXCEPT !.items = Merged(c)].p = cur[p].p
               /\ [cur[p] EXCEPT !.items = Merged(c)].dones = cur[p].dones
               /\ [cur[p] EXCEPT !.items = Merged(c)].items = Merged(c)
    BY <1>2, <1>6 DEF Batches, RequestItems
  <1>7. cur' \in [Parts -> Batches \cup {None}]
    <2>1. CASE cur[p] = None
      BY <1>1, <2>1 DEF Types
    <2>2. CASE cur[p] # None
      <3>1. cur' = [cur EXCEPT ![p] = [cur[p] EXCEPT !.items = Merged(c)]]
        BY <1>1, <2>2
      <3> QED BY <1>6, <2>2, <3>1 DEF Types
    <2> QED BY <2>1, <2>2
  <1>8. Types'
    <2>1. alone' \in [Consumers -> BOOLEAN] /\ req' \in [Consumers -> Fetched \cup {None}]
      BY <1>1 DEF Types
    <2> QED BY <1>1, <1>7, <2>1 DEF Types
  <1>9. Busy'
    <2>1. jobs[c] = <<>>
      BY <1>1, <1>2 DEF Busy
    <2> QED BY <1>1, <1>2, <1>3, <2>1 DEF Busy, Positions
  <1>10. CInv'
    BY <1>4, <1>8, <1>9 DEF Control
  <1>11. \A q \in Parts : cur'[q] = None <=> cur[q] = None
    BY <1>5, <1>6, NoneAssumption
  <1>12. /\ \A q \in Parts : cur[q] # None => cur'[q].p = cur[q].p /\ cur'[q].dones = cur[q].dones
         /\ \A q \in Parts : cur'[q] # cur[q] => q = p /\ cur'[q].items = Merged(c)
    BY <1>5, <1>6
  <1> QED BY <1>10, <1>11, <1>12 DEF p

\* ConsumeSplit keeps CInv.
LEMMA SplitControl ==
  ASSUME CInv, NEW c \in Consumers, ConsumeSplit(c)
  PROVE  /\ CInv' /\ Flushed(c) \in Seq(Batches) /\ jobs[c] = <<>>
         /\ \A q \in Parts : cur'[q] = IF q # part[c] THEN cur[q]
                                       ELSE IF Kept(c) THEN BatchOf(c, Split(c), Pieces(c)) ELSE None
         /\ \A h \in Goroutines : jobs'[h] = IF h = c THEN Flushed(c) ELSE jobs[h]
         /\ \A h \in Goroutines : h # c => pc'[h] = pc[h]
         /\ Kept(c) => BatchOf(c, Split(c), Pieces(c)) \in Batches
  <1> DEFINE p == part[c]
             n == IF Flushed(c) # <<>> THEN "flush" ELSE IF active[p] THEN "idle" ELSE "self"
             al == Flushed(c) # <<>> /\ ~active[p]
             k == IF Kept(c) THEN BatchOf(c, Split(c), Pieces(c)) ELSE None
             ar == armed[part[c]] \/ (Kept(c) /\ (cur[part[c]] = None \/ Pieces(c) > 1))
  <1>1. /\ pc[c] = "consume" /\ Split(c).pieces # <<>>
        /\ cur' = [cur EXCEPT ![p] = k]
        /\ armed' = [armed EXCEPT ![p] = ar]
        /\ jobs' = [jobs EXCEPT ![c] = Flushed(c)]
        /\ alone' = [alone EXCEPT ![c] = al]
        /\ req' = [req EXCEPT ![c] = None]
        /\ pc' = [pc EXCEPT ![c] = n]
        /\ UNCHANGED <<confVars, mbVars, active, onEmpty, wg, poolVars, part, taken,
                        answer, refused, panicked, sd>>
    BY SplitStep
  <1>2. /\ c \in Goroutines /\ p \in Parts /\ Pieces(c) \in Nat /\ Pieces(c) >= 1
        /\ \A i \in 1..Pieces(c) : BatchOf(c, Split(c), i) \in Batches
    BY <1>1, ConsumeTypes
  <1>3. n \in {"idle", "flush", "self"} /\ (n = "flush" <=> Flushed(c) # <<>>) /\ (al => n = "flush")
        /\ al \in BOOLEAN
    OBVIOUS
  <1>4. Flushed(c) \in Seq(Batches)
    <2> DEFINE m == IF Kept(c) THEN Pieces(c) - 1 ELSE Pieces(c)
    <2>1. m \in Nat /\ m <= Pieces(c)
      BY <1>2
    <2>2. Flushed(c) = [i \in 1..m |-> BatchOf(c, Split(c), i)]
      BY DEF Flushed
    <2> HIDE DEF m
    <2>3. Flushed(c) \in [1..m -> Batches]
      BY <1>2, <2>1, <2>2
    <2> QED BY <2>1, <2>3
  <1>5. k \in Batches \cup {None} /\ (Kept(c) => k \in Batches)
    BY <1>2
  <1>6. ar \in BOOLEAN
    BY <1>2 DEF CInv, Types
  <1> HIDE DEF p, n, al, k, ar
  <1> USE DEF CInv, confVars, mbVars, poolVars
  <1>7. Control'
    <2>1. (alone'[c] => n \in {"flush", "execute"}) /\ \A d \in Consumers \ {c} : alone'[d] = alone[d]
      BY <1>1, <1>3 DEF Types
    <2>2. UNCHANGED <<ctlVars, active, onEmpty>> /\ n \in {"idle", "flush", "execute", "self"}
          /\ pc[c] \in {"consume", "flush", "execute", "self"}
      BY <1>1, <1>3 DEF ctlVars
    <2> HIDE DEF CInv
    <2> QED BY <1>1, <2>1, <2>2, ConsumerMoves
  <1>8. Types'
    <2>1. alone' \in [Consumers -> BOOLEAN]
      BY <1>1, <1>3 DEF Types
    <2>2. req' \in [Consumers -> Fetched \cup {None}]
      BY <1>1 DEF Types
    <2>3. armed' \in [Parts -> BOOLEAN]
      BY <1>1, <1>2, <1>6 DEF Types
    <2>4. cur' \in [Parts -> Batches \cup {None}]
      BY <1>1, <1>2, <1>5 DEF Types
    <2>5. jobs' \in [Goroutines -> Seq(Batches)]
      BY <1>1, <1>4 DEF Types
    <2> QED BY <1>1, <2>1, <2>2, <2>3, <2>4, <2>5 DEF Types
  <1>9. jobs[c] = <<>>
    BY <1>1, <1>2 DEF Busy
  <1>10. \A h \in Goroutines : jobs'[h] = IF h = c THEN Flushed(c) ELSE jobs[h]
    BY <1>1 DEF Types
  <1>11. \A h \in Goroutines : pc'[h] = IF h = c THEN n ELSE pc[h]
    BY <1>1 DEF Positions
  <1>12. Busy'
    BY <1>3, <1>10, <1>11 DEF Busy
  <1>13. \A q \in Parts : cur'[q] = IF q # p THEN cur[q] ELSE k
    BY <1>1 DEF Types
  <1>14. CInv'
    BY <1>7, <1>8, <1>12 DEF Control
  <1> HIDE DEF CInv
  <1>15. \A q \in Parts : cur'[q] = IF q # part[c] THEN cur[q]
                                       ELSE IF Kept(c) THEN BatchOf(c, Split(c), Pieces(c)) ELSE None
    BY <1>13 DEF p, k
  <1>16. Kept(c) => BatchOf(c, Split(c), Pieces(c)) \in Batches
    BY <1>5 DEF k
  <1> QED BY <1>4, <1>9, <1>10, <1>11, <1>14, <1>15, <1>16

-----------------------------------------------------------------------------
(* CInv is invariant *)

\* It holds at the start.
LEMMA InitControl ==
  ASSUME Init
  PROVE  CInv
  <1>1. MaxRequests \in Nat /\ 1 \in Parts /\ 1 \in 0..MaxRequests /\ 0 \in 0..MaxRequests
    BY BatcherAssumption DEF Parts
  <1>2. /\ \A c \in Consumers : pc[c] = "idle"
        /\ \A p \in Parts : /\ pc[Timer(p)] = IF p = 1 /\ made = 1 THEN "select" ELSE "none"
                            /\ pc[Evictor(p)] = "none" /\ pc[Closer(p)] = "none"
        /\ pc \in [Goroutines -> ConsumerAt \cup TimerAt \cup StopperAt]
    <2>1. pc = [g \in Goroutines |-> IF g \in Consumers THEN "idle"
                                     ELSE IF g = Timer(1) /\ made = 1 THEN "select" ELSE "none"]
      BY DEF Init
    <2>2. \A c \in Consumers : pc[c] = "idle"
      BY <2>1, Different
    <2>3. \A p \in Parts : /\ pc[Timer(p)] = IF p = 1 /\ made = 1 THEN "select" ELSE "none"
                           /\ pc[Evictor(p)] = "none" /\ pc[Closer(p)] = "none"
      BY <1>1, <2>1, Names, Different
    <2>4. pc \in [Goroutines -> ConsumerAt \cup TimerAt \cup StopperAt]
      BY <2>1 DEF ConsumerAt, TimerAt
    <2> QED BY <2>2, <2>3, <2>4
  <1>3. made = IF partitioned THEN 0 ELSE 1
    BY DEF Init
  <1>4. Types
    <2>1. lru = <<>> /\ lru \in Seq(1..made) /\ Len(lru) = 0 /\ Len(lru) <= LruSize /\ IsInjective(lru)
      BY BatcherAssumption DEF Init, IsInjective
    <2>2. /\ key \in [Parts -> Keys \cup {None}] /\ active \in [Parts -> BOOLEAN]
          /\ onEmpty \in [Parts -> BOOLEAN] /\ armed \in [Parts -> BOOLEAN]
          /\ cur \in [Parts -> Batches \cup {None}]
      BY DEF Init
    <2>3. /\ alone \in [Consumers -> BOOLEAN] /\ part \in [Consumers -> Parts]
          /\ req \in [Consumers -> Fetched \cup {None}]
      BY <1>1 DEF Init
    <2>4. /\ jobs \in [Goroutines -> Seq(Batches)] /\ running \subseteq Batches
          /\ taken \in [Requests -> RequestItems \cup {None}]
      BY DEF Init
    <2>5. made \in 0..MaxRequests
      BY <1>1, <1>3
    <2> QED BY <2>1, <2>2, <2>3, <2>4, <2>5 DEF Types, Init
  <1>5. Positions
    BY <1>2 DEF Positions, ConsumerAt, TimerAt, StopperAt
  <1>6. Consuming
    BY <1>2 DEF Consuming, Init
  <1>7. Locked
    <2>1. \A g \in Goroutines : pc[g] # "evict" /\ mbLock # g
      BY Holders DEF Init
    <2>2. None \notin ToSet(lru) /\ mbLock = Free /\ victim = None /\ lru = <<>>
      BY DEF Init, ToSet
    <2> QED BY <1>3, <2>1, <2>2, Holders DEF Locked, Init
  <1>8. Partitions
    <2>1. \A p \in Parts : active[p] /\ p \in Nat /\ p >= 1
      BY <1>1 DEF Init, Parts
    <2> QED BY <1>2, <1>3, <2>1 DEF Partitions, Started, Stopping
  <1>9. Busy
    BY DEF Busy, Init
  <1>10. Requested
    <2>1. Taken = {}
      BY DEF Taken, Init
    <2>2. Taken \ Fetching = {} /\ Cardinality({}) = 0
      BY <2>1, FS_EmptySet
    <2>3. \A c \in Consumers : req[c] = None
      BY DEF Init
    <2>4. partitioned => made <= Cardinality(Taken \ Fetching)
      BY <1>3, <2>2
    <2> QED BY <2>3, <2>4 DEF Requested
  <1> QED BY <1>4, <1>5, <1>6, <1>7, <1>8, <1>9, <1>10 DEF CInv

\* Nothing changes.
LEMMA StutterControl ==
  ASSUME CInv, UNCHANGED vars
  PROVE  CInv'
  <1> USE DEF vars, confVars, mbVars, timeVars, poolVars, consVars, doneVars
  <1>1. Types'
    BY DEF CInv, Types
  <1>2. Positions' /\ Busy'
    BY DEF CInv, Positions, Busy
  <1>3. Consuming' /\ Partitions'
    BY DEF CInv, Consuming, Partitions, Started
  <1>4. Locked'
    BY DEF CInv, Locked
  <1>5. Requested'
    BY DEF CInv, Requested, Taken, Fetching
  <1> QED BY <1>1, <1>2, <1>3, <1>4, <1>5 DEF CInv

\* Every step keeps it.
LEMMA NextControl ==
  ASSUME CInv, [Next]_vars
  PROVE  CInv'
  <1>1. ASSUME NEW c \in Consumers, Take(c) \/ Consume(c) PROVE CInv'
    BY <1>1, TakeControl, GetExistingControl, GetNewControl, RefusedControl, SplitControl
       DEF Consume
  <1>2. ASSUME NEW g \in Goroutines, Flush(g) PROVE CInv'
    BY <1>2, EvictControl, FlushCurrentControl, NothingToFlushControl, FlushAddControl,
       FlushExecuteControl DEF Flush
  <1>3. ASSUME NEW p \in Parts, Idle(p) \/ TimerStep(p) PROVE CInv'
    BY <1>3, TimerControl, RemovePartitionControl DEF TimerStep
  <1>4. ASSUME NEW g \in Helpers, ShutdownInternal(g) PROVE CInv'
    BY <1>4, ShutdownInternalControl
  <1>5. ASSUME Export PROVE CInv'
    BY <1>5, ExportedControl DEF Export
  <1>6. ASSUME StopQueue \/ Shutdown PROVE CInv'
    BY <1>6, StopQueueControl, ShutdownPartitionsControl, PurgeControl DEF Shutdown
  <1>7. ASSUME UNCHANGED vars PROVE CInv'
    BY <1>7, StutterControl
  <1> QED BY <1>1, <1>2, <1>3, <1>4, <1>5, <1>6, <1>7 DEF Next

\* Where the goroutines of the batcher can be and what they then hold.
THEOREM ControlInvariant == Spec => []CInv
  BY InitControl, NextControl, PTL DEF Spec

-----------------------------------------------------------------------------
(* Steps that leave the batches where they are.  The others are ConsumeSplit, *)
(* ConsumeRefused, FlushCurrent, FlushExecute and Exported.                   *)

\* The timer of p runs, so stopWG counts it.
Runs(p) == pc[Timer(p)] \notin {"none", "exit"}

\* The partitions whose eviction occupies a worker.
Evicting == {p \in Parts : pc[Evictor(p)] \notin {"none", "exit"}}

\* Nobody is back at the start, and nobody leaves a flush undone.
Onward ==
  \A g \in Goroutines : pc'[g] # pc[g] =>
    pc'[g] # "none" /\ (pc[g] \in {"self", "last"} => cur[PartOf(g)] = None)

\* What such a step does to the batches' surroundings.
Calm ==
  /\ UNCHANGED <<cur, jobs, running, sent, refs, failed, answer, refused, alone>>
  /\ Onward
  /\ \A p \in Parts : cur[p] # None /\ armed[p] => armed'[p]
  /\ \A p \in Parts : \/ active'[p] = active[p]
                      \/ \E g \in {Evictor(p), Closer(p)} : pc'[g] = "last"
  /\ \A c \in Consumers : part'[c] # part[c] => pc[c] = "get"
  /\ UNCHANGED <<taken, req>> \/ \E c \in Consumers : Take(c)

\* What it does to the wait groups: nothing, or a timer starts or ends, or a
\* flush begins.
Still == \A g \in Goroutines : pc'[g] # pc[g] => pc[g] # "execute" /\ pc'[g] # "execute"

\* No timer starts or ends.
Steady == wg' = wg /\ Still /\ \A p \in Parts : Runs(p)' <=> Runs(p)

\* The timer of p starts.
Begins(p) ==
  /\ wg' = [wg EXCEPT ![p] = @ + 1] /\ Still
  /\ \A q \in Parts : Runs(q)' <=> Runs(q) \/ q = p
  /\ ~Runs(p)

\* The timer of p ends.
Ends(p) ==
  /\ wg' = [wg EXCEPT ![p] = @ - 1] /\ Still
  /\ \A q \in Parts : Runs(q)' <=> Runs(q) /\ q # p
  /\ Runs(p)

\* One of these.
Ticking ==
  \/ Steady
  \/ \E p \in Parts : Begins(p) \/ Ends(p)
  \/ \E g \in Goroutines : FlushAdd(g) /\ \A p \in Parts : Runs(p)' <=> Runs(p)

\* And to the worker pool: nothing, or an eviction takes or returns a worker.
Pooled ==
  \/ workers' = workers /\ Evicting' = Evicting
  \/ \E p \in Parts \ Evicting :
       workers > 0 /\ workers' = workers - 1 /\ Evicting' = Evicting \cup {p}
  \/ \E p \in Evicting : workers' = workers + 1 /\ Evicting' = Evicting \ {p}

\* One goroutine takes a step.
LEMMA LoneStep ==
  ASSUME CInv, NEW g \in Goroutines, pc' = [pc EXCEPT ![g] = pc'[g]], pc'[g] # "none",
         pc[g] \in {"self", "last"} => cur[PartOf(g)] = None
  PROVE  /\ Onward
         /\ pc[g] # "execute" /\ pc'[g] # "execute" => Still
         /\ (pc[g] \in {"none", "exit"} <=> pc'[g] \in {"none", "exit"}) =>
              Evicting' = Evicting /\ \A p \in Parts : Runs(p)' <=> Runs(p)
  <1>1. \A h \in Goroutines : h # g => pc'[h] = pc[h]
    BY DEF CInv, Positions
  <1>2. Onward
    BY <1>1 DEF Onward
  <1>3. pc[g] # "execute" /\ pc'[g] # "execute" => Still
    BY <1>1 DEF Still
  <1>4. ASSUME pc[g] \in {"none", "exit"} <=> pc'[g] \in {"none", "exit"}
        PROVE  Evicting' = Evicting /\ \A p \in Parts : Runs(p)' <=> Runs(p)
    <2>1. \A h \in Goroutines : pc'[h] \in {"none", "exit"} <=> pc[h] \in {"none", "exit"}
      BY <1>1, <1>4
    <2>2. \A p \in Parts : /\ pc'[Timer(p)] \in {"none", "exit"} <=> pc[Timer(p)] \in {"none", "exit"}
                           /\ pc'[Evictor(p)] \in {"none", "exit"} <=> pc[Evictor(p)] \in {"none", "exit"}
      BY <2>1, Names, Different
    <2> QED BY <2>2 DEF Evicting, Runs
  <1> QED BY <1>2, <1>3, <1>4

\* Take.
LEMMA TakeCalm ==
  ASSUME CInv, NEW c \in Consumers, Take(c)
  PROVE  Calm /\ Ticking /\ Pooled
  <1>1. /\ pc[c] = "idle" /\ pc' = [pc EXCEPT ![c] = IF partitioned THEN "get" ELSE "consume"]
        /\ UNCHANGED <<confVars, mbVars, timeVars, cur, wg, poolVars, jobs, part, alone,
                 doneVars, panicked, sd>>
    BY DEF Take
  <1>2. c \in Goroutines
    BY Different
  <1>3. pc'[c] \in {"get", "consume"} /\ pc' = [pc EXCEPT ![c] = pc'[c]]
    BY <1>1, <1>2 DEF CInv, Positions
  <1>4. Onward /\ Still /\ Evicting' = Evicting /\ \A p \in Parts : Runs(p)' <=> Runs(p)
    BY <1>1, <1>2, <1>3, LoneStep
  <1> QED BY <1>1, <1>4 DEF Calm, Ticking, Steady, Pooled, mbVars, timeVars, poolVars, doneVars

\* GetExisting.
LEMMA GetExistingCalm ==
  ASSUME CInv, NEW c \in Consumers, GetExisting(c)
  PROVE  Calm /\ Ticking /\ Pooled
  <1>1. PICK i \in DOMAIN lru : part' = [part EXCEPT ![c] = lru[i]]
    BY DEF GetExisting
  <1>2. /\ pc[c] = "get" /\ pc' = [pc EXCEPT ![c] = "consume"]
        /\ UNCHANGED <<confVars, mbLock, victim, made, key, timeVars, cur, wg, poolVars,
                       jobs, req, alone, taken, doneVars, panicked, sd>>
    BY DEF GetExisting
  <1>3. c \in Goroutines /\ pc'[c] = "consume" /\ pc' = [pc EXCEPT ![c] = pc'[c]]
    BY <1>2, Different DEF CInv, Positions
  <1>4. Onward /\ Still /\ Evicting' = Evicting /\ \A p \in Parts : Runs(p)' <=> Runs(p)
    BY <1>2, <1>3, LoneStep
  <1>5. \A d \in Consumers : part'[d] # part[d] => pc[d] = "get"
    BY <1>1, <1>2 DEF CInv, Types
  <1> QED BY <1>2, <1>4, <1>5 DEF Calm, Ticking, Steady, Pooled, timeVars, poolVars, doneVars

\* A timer starts, when its partition gets into the LRU.
LEMMA TimerStarts ==
  ASSUME CInv, NEW c \in Consumers, NEW p \in Parts, pc[Timer(p)] = "none",
         pc[c] \in {"get", "evict"}, pc'[c] = "consume", pc'[Timer(p)] = "select",
         wg' = [wg EXCEPT ![p] = @ + 1],
         \A g \in Goroutines \ {c, Timer(p)} :
           pc'[g] = pc[g] \/ (pc[g] = "none" /\ pc'[g] = "begin" /\ \E q \in Parts : g = Evictor(q))
  PROVE  Onward /\ Begins(p)
  <1>1. c \in Goroutines /\ Timer(p) \in Goroutines /\ c # Timer(p)
    BY Names, Different
  <1>2. Onward
    BY <1>1 DEF Onward
  <1>3. Still
    BY <1>1 DEF Still
  <1>4. \A q \in Parts : q # p => pc'[Timer(q)] = pc[Timer(q)]
    BY Names, Different
  <1>5. \A q \in Parts : Runs(q)' <=> Runs(q) \/ q = p
    BY <1>4 DEF Runs
  <1> QED BY <1>2, <1>3, <1>5 DEF Begins, Runs

\* GetNew.
LEMMA GetNewCalm ==
  ASSUME CInv, NEW c \in Consumers, GetNew(c)
  PROVE  Calm /\ Ticking /\ Pooled
  <1> DEFINE p0 == made + 1
  <1>1. /\ pc[c] = "get" /\ part' = [part EXCEPT ![c] = p0]
        /\ UNCHANGED <<confVars, timeVars, cur, poolVars, jobs, req, alone, taken, doneVars,
                       panicked, sd>>
    BY DEF GetNew
  <1>2. /\ c \in Goroutines /\ p0 \in Parts /\ Timer(p0) \in Goroutines /\ c # Timer(p0)
        /\ pc[Timer(p0)] = "none"
    <2>1. c \in Goroutines /\ p0 \in Parts
      BY <1>1, RoomForOne, Different
    <2>2. p0 > made
      BY <2>1 DEF CInv, Types
    <2> QED BY <2>1, <2>2, Names, Different DEF CInv, Partitions, Started
  <1>3. \A d \in Consumers : part'[d] # part[d] => pc[d] = "get"
    BY <1>1 DEF CInv, Types
  <1>4. CASE Len(lru) < LruSize
    <2>1. /\ pc' = [[pc EXCEPT ![c] = "consume"] EXCEPT ![Timer(p0)] = "select"]
          /\ wg' = [wg EXCEPT ![p0] = @ + 1]
      BY <1>4 DEF GetNew, StartTimer
    <2> HIDE DEF p0
    <2>2. /\ \A g \in Goroutines \ {c, Timer(p0)} : pc'[g] = pc[g]
          /\ pc'[c] = "consume" /\ pc'[Timer(p0)] = "select"
      BY <1>2, <2>1 DEF CInv, Positions
    <2>3. Onward /\ Begins(p0)
      BY <1>1, <1>2, <2>1, <2>2, TimerStarts
    <2>4. \A q \in Parts : pc'[Evictor(q)] = pc[Evictor(q)]
      BY <1>2, <2>2, Names, Different
    <2>5. Evicting' = Evicting
      BY <2>4 DEF Evicting
    <2> QED BY <1>1, <1>2, <1>3, <2>3, <2>5 DEF Calm, Ticking, Pooled, timeVars, poolVars, doneVars
  <1>5. CASE ~(Len(lru) < LruSize)
    <2>1. pc' = [pc EXCEPT ![c] = "evict"] /\ wg' = wg
      BY <1>5 DEF GetNew
    <2> HIDE DEF p0
    <2>2. pc'[c] = "evict" /\ pc' = [pc EXCEPT ![c] = pc'[c]]
      BY <1>2, <2>1 DEF CInv, Positions
    <2>3. Onward /\ Still /\ Evicting' = Evicting /\ \A p \in Parts : Runs(p)' <=> Runs(p)
      BY <1>1, <1>2, <2>2, LoneStep
    <2> QED BY <1>1, <1>3, <2>1, <2>3 DEF Calm, Ticking, Steady, Pooled, timeVars, poolVars, doneVars
  <1> QED BY <1>4, <1>5

\* Evict.
LEMMA EvictCalm ==
  ASSUME CInv, NEW g \in Goroutines, Evict(g)
  PROVE  Calm /\ Ticking /\ Pooled
  <1>1. /\ pc[g] = "evict" /\ workers > 0 /\ workers' = workers - 1
        /\ UNCHANGED <<confVars, lru, made, key, timeVars, cur, running, sent, jobs,
                       consVars, doneVars, panicked, sd>>
    BY DEF Evict
  <1>2. /\ victim \in Parts /\ mbLock = g /\ Evictor(victim) \in Goroutines
        /\ pc[Evictor(victim)] = "none" /\ g # Evictor(victim)
    <2>1. mbLock = g /\ victim # None
      BY <1>1 DEF CInv, Locked
    <2>2. victim \in Parts
      BY <2>1, LruParts DEF CInv, Types
    <2>3. pc[Evictor(victim)] = "none"
      BY <2>2 DEF CInv, Partitions
    <2> QED BY <1>1, <2>1, <2>2, <2>3, Names, Different
  <1>3. g \in Consumers \/ \E p \in Parts : g = Timer(p)
    <2>1. \A p \in Parts : g # Evictor(p) /\ g # Closer(p)
      BY <1>1 DEF CInv, Positions, StopperAt
    <2> QED BY <2>1, Kinds
  <1>4. ASSUME pc'[Evictor(victim)] = "begin",
               \A q \in Parts \ {victim} : pc'[Evictor(q)] = pc[Evictor(q)]
        PROVE  Pooled
    <2>1. victim \in Parts \ Evicting
      BY <1>2 DEF Evicting
    <2>2. Evicting' = Evicting \cup {victim}
      BY <1>2, <1>4 DEF Evicting
    <2> QED BY <1>1, <2>1, <2>2 DEF Pooled
  <1>5. CASE g \in Consumers
    <2> DEFINE p == part[g]
    <2>1. /\ pc' = [[pc EXCEPT ![Evictor(victim)] = "begin", ![g] = "consume"]
                      EXCEPT ![Timer(p)] = "select"]
          /\ wg' = [wg EXCEPT ![p] = @ + 1]
      BY <1>5 DEF Evict, StartTimer
    <2>2. p \in Parts /\ pc[Timer(p)] = "none"
      BY <1>1, <1>5 DEF CInv, Types, Consuming, Started
    <2> HIDE DEF p
    <2>3. Timer(p) \in Goroutines /\ g # Timer(p) /\ Timer(p) # Evictor(victim)
      BY <1>2, <1>5, <2>2, Names, Different
    <2>4. /\ pc'[g] = "consume" /\ pc'[Timer(p)] = "select" /\ pc'[Evictor(victim)] = "begin"
          /\ \A h \in Goroutines \ {g, Timer(p), Evictor(victim)} : pc'[h] = pc[h]
      BY <1>2, <2>1, <2>3 DEF CInv, Positions
    <2>5. Onward /\ Begins(p)
      BY <1>1, <1>2, <1>5, <2>1, <2>2, <2>4, TimerStarts
    <2>6. \A q \in Parts \ {victim} : pc'[Evictor(q)] = pc[Evictor(q)]
      <3>1. \A q \in Parts \ {victim} : Evictor(q) \in Goroutines \ {g, Timer(p), Evictor(victim)}
        BY <1>2, <1>5, <2>2, Names, Different
      <3> QED BY <2>4, <3>1
    <2>7. Pooled
      BY <1>4, <2>4, <2>6
    <2> QED BY <1>1, <2>2, <2>5, <2>7 DEF Calm, Ticking, timeVars, consVars, doneVars
  <1>6. CASE g \notin Consumers
    <2>1. /\ pc' = [pc EXCEPT ![Evictor(victim)] = "begin", ![g] = "select"]
          /\ wg' = wg
      BY <1>6 DEF Evict
    <2>2. PICK p \in Parts : g = Timer(p)
      BY <1>3, <1>6
    <2>3. /\ pc'[g] = "select" /\ pc'[Evictor(victim)] = "begin"
          /\ \A h \in Goroutines \ {g, Evictor(victim)} : pc'[h] = pc[h]
      BY <1>2, <2>1 DEF CInv, Positions
    <2>4. Onward /\ Still
      BY <1>1, <1>2, <2>3 DEF Onward, Still
    <2>5. \A q \in Parts : /\ q # victim => pc'[Evictor(q)] = pc[Evictor(q)]
                           /\ q # p => pc'[Timer(q)] = pc[Timer(q)]
      <3>1. \A q \in Parts : /\ q # victim => Evictor(q) \in Goroutines \ {g, Evictor(victim)}
                             /\ q # p => Timer(q) \in Goroutines \ {g, Evictor(victim)}
        BY <1>2, <2>2, Names, Different
      <3> QED BY <2>3, <3>1
    <2>6. \A q \in Parts : Runs(q)' <=> Runs(q)
      BY <1>1, <2>2, <2>3, <2>5 DEF Runs
    <2>7. Pooled
      BY <1>4, <2>3, <2>5
    <2> QED BY <1>1, <2>1, <2>4, <2>6, <2>7 DEF Calm, Ticking, Steady, timeVars, consVars, doneVars
  <1> QED BY <1>5, <1>6

\* FlushAdd and NothingToFlush.
LEMMA FlushCalm ==
  ASSUME CInv, NEW g \in Goroutines, FlushAdd(g) \/ NothingToFlush(g)
  PROVE  Calm /\ Ticking /\ Pooled
  <1> USE DEF mbVars, timeVars, poolVars, consVars, doneVars
  <1>1. CASE FlushAdd(g)
    <2>1. /\ pc[g] = "flush" /\ pc' = [pc EXCEPT ![g] = "execute"]
          /\ UNCHANGED <<confVars, mbVars, timeVars, cur, poolVars, jobs, consVars, doneVars,
                         panicked, sd>>
      BY <1>1 DEF FlushAdd
    <2>2. pc'[g] = "execute" /\ pc' = [pc EXCEPT ![g] = pc'[g]]
      BY <2>1 DEF CInv, Positions
    <2>3. Onward /\ Evicting' = Evicting /\ \A p \in Parts : Runs(p)' <=> Runs(p)
      BY <2>1, <2>2, LoneStep
    <2> QED BY <1>1, <2>1, <2>3 DEF Calm, Ticking, Pooled
  <1>2. CASE NothingToFlush(g)
    <2>0. PartOf(g) \in Parts
      BY OwnPart
    <2>1. /\ AtFlush(g) /\ cur[PartOf(g)] = None
          /\ armed' = [armed EXCEPT ![PartOf(g)] = TRUE]
          /\ pc' = [pc EXCEPT ![g] = Return(g)]
          /\ UNCHANGED <<confVars, mbVars, active, onEmpty, cur, wg, poolVars, jobs,
                         consVars, doneVars, panicked, sd>>
      BY <1>2 DEF NothingToFlush
    <2>2. pc[g] \in {"self", "last", "select"} /\ Return(g) \in {"self", "idle", "select", "wait"}
      BY <2>1 DEF AtFlush, Return
    <2>3. pc'[g] = Return(g) /\ pc' = [pc EXCEPT ![g] = pc'[g]]
      BY <2>1 DEF CInv, Positions
    <2>4. /\ Onward /\ Still /\ Evicting' = Evicting
          /\ \A p \in Parts : Runs(p)' <=> Runs(p)
      BY <2>1, <2>2, <2>3, LoneStep
    <2>5. \A p \in Parts : armed[p] => armed'[p]
      BY <2>0, <2>1 DEF CInv, Types
    <2> QED BY <2>1, <2>4, <2>5 DEF Calm, Ticking, Steady, Pooled
  <1> QED BY <1>1, <1>2

\* The timer's steps.
LEMMA TimerCalm ==
  ASSUME CInv, NEW p \in Parts, Idle(p) \/ TimerStep(p)
  PROVE  Calm /\ Ticking /\ Pooled
  <1> USE DEF mbVars, timeVars, poolVars, consVars, doneVars
  <1>0. Timer(p) \in Goroutines /\ Timer(p).p = p
    BY Names, Different
  <1>1. CASE Idle(p)
    <2>1. /\ AtFlush(Timer(p)) /\ cur[p] = None
          /\ armed' = [armed EXCEPT ![p] = FALSE]
          /\ pc' = [pc EXCEPT ![Timer(p)] = "onEmpty"]
          /\ UNCHANGED <<confVars, mbVars, active, onEmpty, cur, wg, poolVars, jobs,
                 consVars, doneVars, panicked, sd>>
      BY <1>1 DEF Idle
    <2>2. pc[Timer(p)] = "select"
      BY <1>0, <2>1 DEF CInv, Positions, TimerAt, AtFlush
    <2>3. pc'[Timer(p)] = "onEmpty" /\ pc' = [pc EXCEPT ![Timer(p)] = pc'[Timer(p)]]
      BY <1>0, <2>1 DEF CInv, Positions
    <2>4. /\ Onward /\ Still /\ Evicting' = Evicting
          /\ \A q \in Parts : Runs(q)' <=> Runs(q)
      BY <1>0, <2>2, <2>3, LoneStep
    <2>5. \A q \in Parts : cur[q] # None /\ armed[q] => armed'[q]
      BY <2>1 DEF CInv, Types
    <2> QED BY <2>1, <2>4, <2>5 DEF Calm, Ticking, Steady, Pooled
  <1>2. CASE CallOnEmpty(p) \/ RemovePartition(p)
    <2>1. /\ pc[Timer(p)] \in {"onEmpty", "lock"}
          /\ UNCHANGED <<confVars, made, key, timeVars, cur, wg, poolVars, jobs, consVars, doneVars, sd>>
      BY <1>2 DEF CallOnEmpty, RemovePartition
    <2>2. \/ pc' = [pc EXCEPT ![Timer(p)] = "lock"]
          \/ pc' = [pc EXCEPT ![Timer(p)] = "evict"]
          \/ pc' = [pc EXCEPT ![Timer(p)] = "select"]
      BY <1>2 DEF CallOnEmpty, RemovePartition
    <2>3. /\ pc'[Timer(p)] \in {"lock", "evict", "select"}
          /\ pc' = [pc EXCEPT ![Timer(p)] = pc'[Timer(p)]]
      BY <1>0, <2>2 DEF CInv, Positions
    <2>4. /\ Onward /\ Still /\ Evicting' = Evicting
          /\ \A q \in Parts : Runs(q)' <=> Runs(q)
      BY <1>0, <2>1, <2>3, LoneStep
    <2> QED BY <2>1, <2>4 DEF Calm, Ticking, Steady, Pooled
  <1>3. CASE TimerExit(p)
    <2>1. /\ pc[Timer(p)] = "select"
          /\ pc' = [pc EXCEPT ![Timer(p)] = "exit"]
          /\ wg' = [wg EXCEPT ![p] = @ - 1]
          /\ UNCHANGED <<confVars, mbVars, timeVars, cur, poolVars, jobs, consVars, doneVars,
                         panicked, sd>>
      BY <1>3 DEF TimerExit
    <2>2. pc'[Timer(p)] = "exit" /\ pc' = [pc EXCEPT ![Timer(p)] = pc'[Timer(p)]]
      BY <1>0, <2>1 DEF CInv, Positions
    <2>3. Onward /\ Still
      BY <1>0, <2>1, <2>2, LoneStep
    <2>4. \A g \in Goroutines : g # Timer(p) => pc'[g] = pc[g]
      BY <2>1 DEF CInv, Positions
    <2>5. \A q \in Parts : pc'[Evictor(q)] = pc[Evictor(q)] /\ (q # p => pc'[Timer(q)] = pc[Timer(q)])
      BY <2>4, Names, Different
    <2>6. Evicting' = Evicting /\ Ends(p)
      BY <2>1, <2>2, <2>3, <2>5 DEF Evicting, Ends, Runs
    <2> QED BY <2>1, <2>3, <2>6 DEF Calm, Ticking, Pooled
  <1> QED BY <1>1, <1>2, <1>3 DEF TimerStep

\* shutdownInternal.
LEMMA ShutdownInternalCalm ==
  ASSUME CInv, NEW g \in Helpers, ShutdownInternal(g)
  PROVE  Calm /\ Ticking /\ Pooled
  <1> USE DEF mbVars, timeVars, poolVars, consVars, doneVars
  <1> DEFINE p == g.p
  <1>0. g \in Goroutines /\ p \in Parts
    BY Names, Different
  <1>1. pc[g] \in {"begin", "wait"}
    BY DEF ShutdownInternal, Deactivate, AlreadyInactive, Stopped
  <1>2. g \in {Evictor(p), Closer(p)}
    <2>1. g # Timer(p)
      BY <1>0, <1>1 DEF CInv, Positions, TimerAt
    <2> QED BY <2>1, Names
  <1>3. CASE Deactivate(g)
    <2>1. /\ active' = [active EXCEPT ![p] = FALSE]
          /\ pc' = [pc EXCEPT ![g] = "last"]
          /\ UNCHANGED <<confVars, mbVars, armed, cur, wg, poolVars, jobs, consVars,
                 doneVars, panicked, sd>>
      BY <1>3 DEF Deactivate
    <2>2. pc'[g] = "last" /\ pc' = [pc EXCEPT ![g] = pc'[g]]
      BY <1>0, <2>1 DEF CInv, Positions
    <2>3. /\ Onward /\ Still /\ Evicting' = Evicting
          /\ \A q \in Parts : Runs(q)' <=> Runs(q)
      BY <1>0, <1>1, <2>2, LoneStep
    <2>4. \A q \in Parts : \/ active'[q] = active[q]
                           \/ \E h \in {Evictor(q), Closer(q)} : pc'[h] = "last"
      BY <1>2, <2>1, <2>2 DEF CInv, Types
    <2> QED BY <2>1, <2>3, <2>4 DEF Calm, Ticking, Steady, Pooled
  <1>4. CASE AlreadyInactive(g) \/ Stopped(g)
    <2>1. /\ pc' = [pc EXCEPT ![g] = "exit"]
          /\ workers' = IF g.kind = "evict" THEN workers + 1 ELSE workers
          /\ UNCHANGED <<confVars, mbVars, timeVars, cur, wg, running, sent, jobs, consVars,
                 doneVars, panicked, sd>>
      BY <1>4 DEF AlreadyInactive, Stopped, Finish
    <2>2. pc'[g] = "exit" /\ pc' = [pc EXCEPT ![g] = pc'[g]]
      BY <1>0, <2>1 DEF CInv, Positions
    <2>3. Onward /\ Still
      BY <1>0, <1>1, <2>2, LoneStep
    <2>4. \A h \in Goroutines : h # g => pc'[h] = pc[h]
      BY <2>1 DEF CInv, Positions
    <2>5. \A q \in Parts : pc'[Timer(q)] = pc[Timer(q)]
      BY <1>0, <1>2, <2>4, Names, Different
    <2>6. \A q \in Parts : Runs(q)' <=> Runs(q)
      BY <2>5 DEF Runs
    <2>7. Pooled
      <3>1. CASE g = Evictor(p)
        <4>1. \A q \in Parts : q # p => pc'[Evictor(q)] = pc[Evictor(q)]
          BY <1>0, <2>4, <3>1, Names, Different
        <4>2. p \in Evicting /\ Evicting' = Evicting \ {p}
          BY <1>0, <1>1, <2>2, <3>1, <4>1 DEF Evicting
        <4>3. workers' = workers + 1
          BY <1>0, <2>1, <3>1, Names
        <4> QED BY <4>2, <4>3 DEF Pooled
      <3>2. CASE g = Closer(p)
        <4>1. \A q \in Parts : pc'[Evictor(q)] = pc[Evictor(q)]
          BY <1>0, <2>4, <3>2, Names, Different
        <4>2. workers' = workers
          BY <1>0, <2>1, <3>2, Names
        <4> QED BY <4>1, <4>2 DEF Pooled, Evicting
      <3> QED BY <1>2, <3>1, <3>2
    <2> QED BY <2>1, <2>3, <2>6, <2>7 DEF Calm, Ticking, Steady
  <1> QED BY <1>3, <1>4 DEF ShutdownInternal

\* QueueBatch.Shutdown.
LEMMA ShutdownCalm ==
  ASSUME CInv, StopQueue \/ Shutdown \/ UNCHANGED vars
  PROVE  Calm /\ Ticking /\ Pooled
  <1> USE DEF mbVars, timeVars, poolVars, consVars, doneVars
  <1>1. CASE StopQueue \/ PartitionsShut \/ Purged \/ UNCHANGED vars
    <2>1. UNCHANGED <<made, key, timeVars, cur, wg, poolVars, pc, jobs, consVars, doneVars>>
      BY <1>1 DEF StopQueue, PartitionsShut, Purged, vars
    <2>2. Onward /\ Still /\ Evicting' = Evicting /\ \A q \in Parts : Runs(q)' <=> Runs(q)
      BY <2>1 DEF Onward, Still, Evicting, Runs
    <2> QED BY <2>1, <2>2 DEF Calm, Ticking, Steady, Pooled
  <1>2. CASE ShutdownPartitions
    <2> DEFINE closing == IF partitioned THEN ToSet(lru) ELSE {1}
    <2>1. /\ sd = "stopped"
          /\ pc' = [g \in Goroutines |-> IF \E p \in closing : g = Closer(p) THEN "begin" ELSE pc[g]]
          /\ UNCHANGED <<confVars, lru, victim, made, key, timeVars, cur, wg, poolVars, jobs,
                         consVars, doneVars, panicked>>
      BY <1>2 DEF ShutdownPartitions
    <2>2. closing \subseteq Parts
      <3>1. 1 \in Parts
        BY BatcherAssumption DEF Parts
      <3> QED BY <3>1, LruParts
    <2> HIDE DEF closing
    <2>3. \A p \in Parts : pc[Closer(p)] = "none"
      BY <2>1 DEF CInv, Partitions
    <2>4. \A g \in Goroutines : pc'[g] # pc[g] => pc[g] = "none" /\ pc'[g] = "begin"
      BY <2>1, <2>2, <2>3
    <2>5. \A q \in Parts : pc'[Evictor(q)] = pc[Evictor(q)] /\ pc'[Timer(q)] = pc[Timer(q)]
      BY <2>1, <2>2, Names, Different
    <2>6. Onward /\ Still /\ Evicting' = Evicting /\ \A q \in Parts : Runs(q)' <=> Runs(q)
      BY <2>4, <2>5 DEF Onward, Still, Evicting, Runs
    <2> QED BY <2>1, <2>6 DEF Calm, Ticking, Steady, Pooled
  <1>3. CASE Purge
    <2>1. PICK i \in DOMAIN lru : pc' = [pc EXCEPT ![Evictor(lru[i])] = "begin"]
      BY <1>3 DEF Purge
    <2>2. /\ workers > 0 /\ workers' = workers - 1
          /\ UNCHANGED <<confVars, mbLock, victim, made, key, timeVars, cur, wg, running, sent,
                         jobs, consVars, doneVars, panicked, sd>>
      BY <1>3 DEF Purge
    <2> DEFINE p == lru[i]
    <2>3. p \in Parts /\ p \in ToSet(lru)
      BY <2>1, LruParts
    <2>4. pc[Evictor(p)] = "none"
      BY <2>3 DEF CInv, Partitions
    <2> HIDE DEF p
    <2>5. pc' = [pc EXCEPT ![Evictor(p)] = "begin"] /\ Evictor(p) \in Goroutines
      BY <2>1, <2>3, Names, Different DEF p
    <2>6. pc'[Evictor(p)] = "begin" /\ \A g \in Goroutines : g # Evictor(p) => pc'[g] = pc[g]
      BY <2>5 DEF CInv, Positions
    <2>7. Onward /\ Still
      BY <2>4, <2>6 DEF Onward, Still
    <2>8. \A q \in Parts : pc'[Timer(q)] = pc[Timer(q)] /\ (q # p => pc'[Evictor(q)] = pc[Evictor(q)])
      BY <2>3, <2>6, Names, Different
    <2>9. /\ p \in Parts \ Evicting /\ Evicting' = Evicting \cup {p}
          /\ \A q \in Parts : Runs(q)' <=> Runs(q)
      BY <2>3, <2>4, <2>6, <2>8 DEF Evicting, Runs
    <2> QED BY <2>2, <2>7, <2>9 DEF Calm, Ticking, Steady, Pooled
  <1> QED BY <1>1, <1>2, <1>3 DEF Shutdown

\* What a step does: it moves a batch, or it is calm.
LEMMA StepKinds ==
  ASSUME CInv, [Next]_vars
  PROVE  \/ \E c \in Consumers : ConsumeRefused(c) \/ ConsumeSplit(c)
         \/ \E g \in Goroutines : FlushCurrent(g) \/ FlushExecute(g)
         \/ \E b \in running, ok \in BOOLEAN : Exported(b, ok)
         \/ Calm /\ Ticking /\ Pooled
  <1>1. ASSUME NEW c \in Consumers, Take(c) \/ GetExisting(c) \/ GetNew(c)
        PROVE  Calm /\ Ticking /\ Pooled
    BY <1>1, TakeCalm, GetExistingCalm, GetNewCalm
  <1>2. ASSUME NEW g \in Goroutines, Evict(g) \/ NothingToFlush(g) \/ FlushAdd(g)
        PROVE  Calm /\ Ticking /\ Pooled
    BY <1>2, EvictCalm, FlushCalm
  <1>3. ASSUME NEW p \in Parts, Idle(p) \/ TimerStep(p) PROVE Calm /\ Ticking /\ Pooled
    BY <1>3, TimerCalm
  <1>4. ASSUME NEW g \in Helpers, ShutdownInternal(g) PROVE Calm /\ Ticking /\ Pooled
    BY <1>4, ShutdownInternalCalm
  <1>5. ASSUME StopQueue \/ Shutdown \/ UNCHANGED vars PROVE Calm /\ Ticking /\ Pooled
    BY <1>5, ShutdownCalm
  <1> QED BY <1>1, <1>2, <1>3, <1>4, <1>5 DEF Next, Consume, Flush, Export

-----------------------------------------------------------------------------
(* A batch that waits has somebody to flush it *)

\* Once the partition is inactive, shutdownInternal is about to flush it, or a
\* consumer that saw the partition inactive is.
Attended(p) ==
  \/ \E g \in {Evictor(p), Closer(p)} : pc[g] = "last"
  \/ \E c \in Consumers : part[c] = p /\ (pc[c] = "self" \/ alone[c])

\* A current batch is its partition's, whose timer was started and is armed.
Waiting ==
  \A p \in Parts : cur[p] # None =>
    cur[p].p = p /\ Started(p) /\ armed[p] /\ (active[p] \/ Attended(p))

\* Then NoBatchStranded holds: the timer has exited only when the partition is
\* inactive.
LEMMA WaitingGuarded ==
  ASSUME CInv, Waiting
  PROVE  NoBatchStranded
  <1> SUFFICES ASSUME NEW p \in Parts, cur[p] # None PROVE Guarded(p)
    BY DEF NoBatchStranded
  <1>1. Started(p) /\ armed[p] /\ (active[p] \/ Attended(p))
    BY DEF Waiting
  <1>2. CASE active[p]
    <2>1. pc[Timer(p)] \in TimerAt /\ pc[Timer(p)] # "none" /\ pc[Timer(p)] # "exit"
      BY <1>1, <1>2 DEF CInv, Positions, Partitions, Started
    <2> QED BY <1>1, <1>2, <2>1 DEF Guarded, TimerAt
  <1>3. CASE ~active[p]
    BY <1>1, <1>3 DEF Guarded, Attended
  <1> QED BY <1>2, <1>3

\* A goroutine that attends to a partition goes on to, and consumers in
\* consumeInternal do not.
LEMMA AttendedStays ==
  ASSUME CInv, NEW p \in Parts, Attended(p),
         \A g \in {Evictor(p), Closer(p)} : pc[g] = "last" => pc'[g] = "last",
         \A c \in Consumers : part[c] = p /\ (pc[c] = "self" \/ alone[c]) =>
           part'[c] = p /\ (pc'[c] = "self" \/ alone'[c])
  PROVE  Attended(p)'
  BY DEF Attended

\* Calm steps.
LEMMA WaitingCalm ==
  ASSUME CInv, Waiting, Calm
  PROVE  Waiting'
  <1> SUFFICES ASSUME NEW p \in Parts, cur'[p] # None
               PROVE  cur'[p].p = p /\ Started(p)' /\ armed'[p] /\ (active'[p] \/ Attended(p)')
    BY DEF Waiting
  <1>1. cur'[p] = cur[p] /\ cur[p] # None
    BY DEF Calm
  <1>2. cur[p].p = p /\ Started(p) /\ armed[p] /\ (active[p] \/ Attended(p))
    BY <1>1 DEF Waiting
  <1>3. Started(p)'
    <2>1. Timer(p) \in Goroutines
      BY Names, Different
    <2> QED BY <1>2, <2>1 DEF Calm, Onward, Started
  <1>4. armed'[p]
    BY <1>1, <1>2 DEF Calm
  <1>5. ASSUME active'[p] = active[p], Attended(p) PROVE Attended(p)'
    <2>1. ASSUME NEW g \in {Evictor(p), Closer(p)}, pc[g] = "last" PROVE pc'[g] = "last"
      <3>1. g \in Goroutines /\ PartOf(g) = p
        BY Names, Different DEF PartOf
      <3> QED BY <1>1, <2>1, <3>1 DEF Calm, Onward
    <2>2. ASSUME NEW c \in Consumers, part[c] = p, pc[c] = "self" \/ alone[c]
          PROVE  part'[c] = p /\ (pc'[c] = "self" \/ alone'[c])
      <3>1. c \in Goroutines /\ PartOf(c) = p
        BY <2>2, Different DEF PartOf
      <3>2. pc[c] # "get"
        BY <2>2 DEF CInv, Consuming
      <3>3. part'[c] = p /\ alone' = alone
        BY <2>2, <3>2 DEF Calm
      <3>4. pc[c] = "self" => pc'[c] = "self"
        BY <1>1, <3>1 DEF Calm, Onward
      <3> QED BY <2>2, <3>3, <3>4
    <2> QED BY <1>5, <2>1, <2>2, AttendedStays
  <1>6. active'[p] \/ Attended(p)'
    <2>1. CASE active'[p] = active[p]
      BY <1>2, <1>5, <2>1
    <2>2. CASE \E g \in {Evictor(p), Closer(p)} : pc'[g] = "last"
      BY <2>2 DEF Attended
    <2> QED BY <2>1, <2>2 DEF Calm
  <1> QED BY <1>1, <1>2, <1>3, <1>4, <1>6

\* One goroutine moves that attended to no partition but perhaps p0: all the
\* others keep who attends to them.
LEMMA WaitingElsewhere ==
  ASSUME CInv, Waiting, NEW g \in Goroutines, NEW p0 \in Parts, p0 = PartOf(g),
         \A h \in Goroutines : h # g => pc'[h] = pc[h],
         \A c \in Consumers : c # g => alone'[c] = alone[c],
         UNCHANGED <<part, active>>,
         pc'[g] # "none",
         \A q \in Parts : q # p0 => cur'[q] = cur[q],
         \A q \in Parts : q # p0 => armed'[q] = armed[q]
  PROVE  \A q \in Parts : q # p0 /\ cur'[q] # None =>
           cur'[q].p = q /\ Started(q)' /\ armed'[q] /\ (active'[q] \/ Attended(q)')
  <1> SUFFICES ASSUME NEW q \in Parts, q # p0, cur'[q] # None
               PROVE  cur'[q].p = q /\ Started(q)' /\ armed'[q] /\ (active'[q] \/ Attended(q)')
    OBVIOUS
  <1>1. /\ cur'[q] = cur[q] /\ cur[q].p = q /\ Started(q) /\ armed'[q]
        /\ active'[q] = active[q] /\ (active[q] \/ Attended(q))
    BY DEF Waiting
  <1>2. Started(q)'
    <2>1. Timer(q) \in Goroutines
      BY Names, Different
    <2> QED BY <1>1, <2>1 DEF Started
  <1>3. ASSUME Attended(q) PROVE Attended(q)'
    <2>1. ASSUME NEW h \in {Evictor(q), Closer(q)} PROVE pc'[h] = pc[h]
      <3>1. h \in Goroutines /\ PartOf(h) = q
        BY Names, Different DEF PartOf
      <3> QED BY <3>1
    <2>2. ASSUME NEW c \in Consumers, part[c] = q PROVE pc'[c] = pc[c] /\ alone'[c] = alone[c]
      <3>1. c \in Goroutines /\ PartOf(c) = q
        BY <2>2, Different DEF PartOf
      <3> QED BY <3>1
    <2> QED BY <1>3, <2>1, <2>2, AttendedStays
  <1> QED BY <1>1, <1>2, <1>3

\* The steps that move batches.
LEMMA WaitingRefused ==
  ASSUME CInv, Waiting, NEW c \in Consumers, ConsumeRefused(c)
  PROVE  Waiting'
  <1> DEFINE p == part[c]
             n == IF active[p] THEN "idle" ELSE "self"
  <1>1. /\ pc[c] = "consume"
        /\ pc' = [pc EXCEPT ![c] = n]
        /\ alone' = [alone EXCEPT ![c] = FALSE]
        /\ UNCHANGED <<timeVars, part>>
    BY RefusedStep
  <1>2. /\ \A q \in Parts : cur'[q] = None <=> cur[q] = None
        /\ \A q \in Parts : cur[q] # None => cur'[q].p = cur[q].p
        /\ \A q \in Parts : cur'[q] # cur[q] => q = p
    BY RefusedControl
  <1>3. c \in Goroutines /\ p \in Parts /\ PartOf(c) = p
    BY <1>1, ConsumeTypes DEF PartOf
  <1>4. /\ \A h \in Goroutines : h # c => pc'[h] = pc[h]
        /\ pc'[c] = n /\ \A d \in Consumers : d # c => alone'[d] = alone[d]
    BY <1>1, <1>3 DEF CInv, Positions, Types
  <1>5. ASSUME NEW q \in Parts, q # p, cur'[q] # None
        PROVE  cur'[q].p = q /\ Started(q)' /\ armed'[q] /\ (active'[q] \/ Attended(q)')
    <2>1. UNCHANGED <<part, active, armed>> /\ pc'[c] # "none"
      BY <1>1, <1>4 DEF timeVars
    <2> HIDE DEF p, n
    <2> QED BY <1>2, <1>3, <1>4, <1>5, <2>1, WaitingElsewhere
  <1>6. ASSUME NEW q \in Parts, q = p, cur'[q] # None
        PROVE  cur'[q].p = q /\ Started(q)' /\ armed'[q] /\ (active'[q] \/ Attended(q)')
    <2>1. cur[q] # None /\ cur'[q].p = q /\ Started(q) /\ armed'[q] /\ active'[q] = active[q]
      BY <1>1, <1>2, <1>3, <1>6 DEF Waiting, timeVars
    <2>2. Started(q)'
      <3>1. Timer(q) \in Goroutines /\ Timer(q) # c
        BY <1>6, <1>3, Names, Different
      <3> QED BY <1>6, <1>4, <2>1, <3>1 DEF Started
    <2>3. active[q] \/ (part'[c] = q /\ pc'[c] = "self")
      BY <1>6, <1>1, <1>4
    <2> QED BY <2>1, <2>2, <2>3 DEF Attended
  <1>7. ASSUME NEW q \in Parts, cur'[q] # None
        PROVE  cur'[q].p = q /\ Started(q)' /\ armed'[q] /\ (active'[q] \/ Attended(q)')
    <2> HIDE DEF p
    <2>1. CASE q = p
      BY <1>6, <1>7, <2>1
    <2> QED BY <1>5, <1>7, <2>1
  <1> QED BY <1>7 DEF Waiting

\* ConsumeSplit arms the timer when it leaves a new batch.
LEMMA WaitingSplit ==
  ASSUME CInv, Waiting, NEW c \in Consumers, ConsumeSplit(c)
  PROVE  Waiting'
  <1> DEFINE p == part[c]
             n == IF Flushed(c) # <<>> THEN "flush" ELSE IF active[p] THEN "idle" ELSE "self"
             al == Flushed(c) # <<>> /\ ~active[p]
             ar == armed[p] \/ (Kept(c) /\ (cur[p] = None \/ Pieces(c) > 1))
  <1>1. /\ pc[c] = "consume" /\ Split(c).pieces # <<>>
        /\ armed' = [armed EXCEPT ![p] = ar]
        /\ alone' = [alone EXCEPT ![c] = al]
        /\ pc' = [pc EXCEPT ![c] = n]
        /\ UNCHANGED <<part, active>>
    BY SplitStep
  <1>2. /\ c \in Goroutines /\ p \in Parts /\ PartOf(c) = p /\ Pieces(c) \in Nat /\ Pieces(c) >= 1
        /\ \A i \in 1..Pieces(c) : BatchOf(c, Split(c), i).p = p
    BY <1>1, ConsumeTypes DEF PartOf
  <1>3. \A q \in Parts : cur'[q] = IF q # p THEN cur[q]
                                   ELSE IF Kept(c) THEN BatchOf(c, Split(c), Pieces(c)) ELSE None
    BY SplitControl
  <1>4. /\ \A h \in Goroutines : h # c => pc'[h] = pc[h]
        /\ pc'[c] = n /\ alone'[c] = al /\ \A d \in Consumers : d # c => alone'[d] = alone[d]
        /\ armed'[p] = ar /\ \A q \in Parts : q # p => armed'[q] = armed[q]
    BY <1>1, <1>2 DEF CInv, Positions, Types
  <1>5. ASSUME NEW q \in Parts, q # p, cur'[q] # None
        PROVE  cur'[q].p = q /\ Started(q)' /\ armed'[q] /\ (active'[q] \/ Attended(q)')
    <2>1. pc'[c] # "none"
      BY <1>4
    <2> HIDE DEF p, n, al, ar
    <2> QED BY <1>1, <1>2, <1>3, <1>4, <1>5, <2>1, WaitingElsewhere
  <1>6. ASSUME NEW q \in Parts, q = p, cur'[q] # None
        PROVE  cur'[q].p = q /\ Started(q)' /\ armed'[q] /\ (active'[q] \/ Attended(q)')
    <2>1. Kept(c) /\ cur'[q].p = q
      <3>1. Kept(c) /\ cur'[q] = BatchOf(c, Split(c), Pieces(c))
        BY <1>2, <1>3, <1>6
      <3>2. Pieces(c) \in 1..Pieces(c)
        BY <1>6, <1>2
      <3> QED BY <1>6, <1>2, <3>1, <3>2
    <2>2. armed'[q]
      BY <1>6, <1>2, <1>4, <2>1 DEF Waiting
    <2>3. Started(q)'
      <3>1. Started(q)
        BY <1>6, <1>1 DEF CInv, Consuming
      <3>2. Timer(q) \in Goroutines /\ Timer(q) # c
        BY <1>6, <1>2, Names, Different
      <3> QED BY <1>6, <1>4, <3>1, <3>2 DEF Started
    <2>4. active'[q] \/ (part'[c] = q /\ (pc'[c] = "self" \/ alone'[c]))
      BY <1>6, <1>1, <1>4
    <2> QED BY <2>1, <2>2, <2>3, <2>4 DEF Attended
  <1>7. ASSUME NEW q \in Parts, cur'[q] # None
        PROVE  cur'[q].p = q /\ Started(q)' /\ armed'[q] /\ (active'[q] \/ Attended(q)')
    <2> HIDE DEF p
    <2>1. CASE q = p
      BY <1>6, <1>7, <2>1
    <2> QED BY <1>5, <1>7, <2>1
  <1> QED BY <1>7 DEF Waiting

\* FlushCurrent leaves no batch in its partition.
LEMMA WaitingFlush ==
  ASSUME CInv, Waiting, NEW g \in Goroutines, FlushCurrent(g)
  PROVE  Waiting'
  <1> DEFINE p == PartOf(g)
  <1>1. /\ pc'[g] = "flush" /\ \A h \in Goroutines : h # g => pc'[h] = pc[h]
        /\ \A q \in Parts : cur'[q] = IF q = p THEN None ELSE cur[q]
    BY FlushCurrentControl
  <1>2. UNCHANGED <<part, active, alone>> /\ p \in Parts
    BY OwnPart DEF FlushCurrent, consVars
  <1>4. \A q \in Parts : q # p => armed'[q] = armed[q]
    BY <1>2 DEF FlushCurrent, CInv, Types
  <1> HIDE DEF p
  <1>3. ASSUME NEW q \in Parts, cur'[q] # None
        PROVE  cur'[q].p = q /\ Started(q)' /\ armed'[q] /\ (active'[q] \/ Attended(q)')
    <2>1. q # p /\ p = PartOf(g) /\ pc'[g] # "none"
      BY <1>1, <1>3 DEF p
    <2> QED BY <1>1, <1>2, <1>3, <1>4, <2>1, WaitingElsewhere
  <1> QED BY <1>3 DEF Waiting

\* FlushExecute: a consumer that is alone goes on to flush its partition.
LEMMA WaitingExecute ==
  ASSUME CInv, Waiting, NEW g \in Goroutines, FlushExecute(g)
  PROVE  Waiting'
  <1>1. /\ \A h \in Goroutines : h # g => pc'[h] = pc[h]
        /\ pc'[g] = IF Len(jobs[g]) > 1 THEN "flush" ELSE Return(g)
        /\ jobs[g] \in Seq(Batches) /\ jobs[g] # <<>>
    BY FlushExecuteControl
  <1>2. /\ UNCHANGED <<part, active, armed, cur>> /\ pc[g] = "execute"
        /\ alone' = IF g \in Consumers /\ Len(jobs[g]) = 1
                      THEN [alone EXCEPT ![g] = FALSE] ELSE alone
    BY DEF FlushExecute, timeVars
  <1>3. pc'[g] # "none"
    BY <1>1 DEF Return
  <1>4. \A c \in Consumers : c # g => alone'[c] = alone[c]
    BY <1>2 DEF CInv, Types
  <1>5. ASSUME NEW q \in Parts, cur'[q] # None
        PROVE  cur'[q].p = q /\ Started(q)' /\ armed'[q] /\ (active'[q] \/ Attended(q)')
    <2>1. /\ cur'[q] = cur[q] /\ cur[q].p = q /\ Started(q) /\ armed'[q]
          /\ active'[q] = active[q] /\ (active[q] \/ Attended(q))
      BY <1>2, <1>5 DEF Waiting
    <2>2. Started(q)'
      <3>1. Timer(q) \in Goroutines
        BY Names, Different
      <3> QED BY <1>1, <1>3, <2>1, <3>1 DEF Started
    <2>3. ASSUME Attended(q) PROVE Attended(q)'
      <3>1. ASSUME NEW h \in {Evictor(q), Closer(q)}, pc[h] = "last" PROVE pc'[h] = "last"
        <4>1. h \in Goroutines /\ h # g
          BY <1>2, <3>1, Names, Different
        <4> QED BY <1>1, <3>1, <4>1
      <3>2. ASSUME NEW c \in Consumers, part[c] = q, pc[c] = "self" \/ alone[c]
            PROVE  part'[c] = q /\ (pc'[c] = "self" \/ alone'[c])
        <4>1. c \in Goroutines
          BY Different
        <4>2. CASE c # g
          BY <1>1, <1>2, <1>4, <3>2, <4>1, <4>2
        <4>3. CASE c = g /\ Len(jobs[g]) = 1
          BY <1>1, <1>2, <3>2, <4>3 DEF Return
        <4>4. CASE c = g /\ Len(jobs[g]) # 1
          <5>1. alone' = alone /\ alone[c]
            BY <1>2, <3>2, <4>4
          <5> QED BY <1>2, <3>2, <5>1
        <4> QED BY <4>2, <4>3, <4>4
      <3> QED BY <2>3, <3>1, <3>2, AttendedStays
    <2> QED BY <2>1, <2>2, <2>3
  <1> QED BY <1>5 DEF Waiting

\* Exported.
LEMMA WaitingExported ==
  ASSUME CInv, Waiting, NEW b \in running, NEW ok \in BOOLEAN, Exported(b, ok)
  PROVE  Waiting'
  <1>1. UNCHANGED <<timeVars, cur, pc, consVars>>
    BY DEF Exported
  <1> QED BY <1>1 DEF Waiting, Started, Attended, timeVars, consVars

\* Every step.
LEMMA NextWaiting ==
  ASSUME CInv, Waiting, [Next]_vars
  PROVE  Waiting'
  BY StepKinds, WaitingCalm, WaitingRefused, WaitingSplit, WaitingFlush, WaitingExecute,
     WaitingExported

\* Somebody will flush a batch that waits in a partition, whatever consumers,
\* timers, evictions and Shutdown do.
THEOREM BatcherNoBatchStranded == Spec => []NoBatchStranded
  <1>1. Init => CInv /\ Waiting
    BY InitControl DEF Init, Waiting
  <1>2. CInv /\ Waiting /\ [Next]_vars => CInv' /\ Waiting'
    BY NextControl, NextWaiting
  <1>3. CInv /\ Waiting => NoBatchStranded
    BY WaitingGuarded
  <1> QED BY <1>1, <1>2, <1>3, PTL DEF Spec

-----------------------------------------------------------------------------
(* Which items are in which piece *)

\* What can be extracted is s up to its first big item.
LEMMA ExtractableFacts ==
  ASSUME NEW S, NEW s \in Seq(S)
  PROVE  /\ Extractable(s) \in Seq(S) /\ Len(Extractable(s)) \in 0..Len(s)
         /\ \A j \in 1..Len(Extractable(s)) : Extractable(s)[j] = s[j] /\ ~IsBig(s[j])
         /\ Len(Extractable(s)) = Len(s) <=> Extractable(s) = s
         /\ Len(Extractable(s)) < Len(s) => IsBig(s[Len(Extractable(s)) + 1])
  <1> DEFINE big == {i \in DOMAIN s : IsBig(s[i])}
             m == CHOOSE i \in big : \A j \in big : i <= j
  <1>0. Len(s) \in Nat /\ DOMAIN s = 1..Len(s)
    OBVIOUS
  <1>1. CASE big = {}
    <2>1. Extractable(s) = s
      BY <1>1 DEF Extractable
    <2>2. \A j \in 1..Len(s) : ~IsBig(s[j])
      BY <1>0, <1>1
    <2> QED BY <1>0, <2>1, <2>2
  <1>2. CASE big # {}
    <2>1. m \in big /\ \A j \in big : m <= j
      <3>1. big \in SUBSET Nat
        OBVIOUS
      <3>2. \E i \in big : \A j \in big : i <= j
        BY <1>2, <3>1, LeastElement
      <3> QED BY <3>2
    <2> HIDE DEF m
    <2>2. m \in 1..Len(s) /\ IsBig(s[m])
      BY <1>0, <2>1
    <2>3. \A j \in 1..(m - 1) : j \in 1..Len(s) /\ ~IsBig(s[j])
      BY <1>0, <2>1, <2>2
    <2> DEFINE e == SubSeq(s, 1, m - 1)
    <2>4. Extractable(s) = e
      BY <1>2 DEF Extractable, m
    <2>5. 1 \in Int /\ m - 1 \in Int /\ \A i \in 1..(m - 1) : s[i] \in S
      BY <1>0, <2>2, <2>3
    <2>6. e \in Seq(S)
      BY <2>5, SubSeqProperties
    <2>7. Len(e) = m - 1
      <3>1. Len(e) = IF 1 <= m - 1 THEN (m - 1) - 1 + 1 ELSE 0
        BY <2>5, SubSeqProperties
      <3>2. \A n \in Nat : n >= 1 => (IF 1 <= n - 1 THEN (n - 1) - 1 + 1 ELSE 0) = n - 1
        OBVIOUS
      <3>3. m \in Nat /\ m >= 1
        BY <2>2
      <3> QED BY <3>1, <3>2, <3>3, Zenon
    <2>8. \A j \in 1..(m - 1) : e[j] = s[1 + j - 1]
      BY <2>5, SubSeqProperties
    <2> HIDE DEF e
    <2>9. \A j \in 1..(m - 1) : e[j] = s[j]
      BY <1>0, <2>2, <2>8
    <2>10. Len(e) < Len(s) /\ e # s /\ Len(e) \in 0..Len(s) /\ Len(e) + 1 = m
      BY <1>0, <2>2, <2>7
    <2> QED BY <1>0, <2>2, <2>3, <2>4, <2>6, <2>7, <2>9, <2>10
  <1> QED BY <1>1, <1>2

\* MergeSplit keeps s whole.
Whole(s) == MaxSize = 0 \/ (Extractable(s) = s /\ Len(s) <= MaxSize)

\* The places in s of the items of piece i.
Places(s, i) == IF Whole(s) THEN DOMAIN s ELSE Cut(Extractable(s), i)

\* Otherwise what can be extracted is cut into pieces.
LEMMA NotWhole ==
  ASSUME NEW s, ~Whole(s)
  PROVE  /\ MaxSize > 0 /\ MergeSplit(s).pieces = Chunks(Extractable(s))
         /\ MergeSplit(s).err <=> Extractable(s) # s
  <1> DEFINE e == Extractable(s)
  <1>1. MaxSize > 0
    BY BatcherAssumption DEF Whole
  <1>2. MergeSplit(s) = [pieces |-> Chunks(e), err |-> e # s]
    BY DEF Whole, MergeSplit
  <1> HIDE DEF e
  <1>3. MergeSplit(s).pieces = Chunks(e)
    BY <1>2
  <1>4. MergeSplit(s).err = (e # s)
    BY <1>2
  <1> QED BY <1>1, <1>3, <1>4 DEF e

\* What MergeSplit does with a request that has no item twice.  Every piece has
\* its places; two pieces have no place in common; without an error no place is
\* left out, and with one the place of the first big item is.
LEMMA MergeSplitPlaces ==
  ASSUME NEW S, NEW s \in Seq(S), IsInjective(s)
  PROVE  LET ps == MergeSplit(s).pieces
             e == Extractable(s)
         IN  /\ \A i \in DOMAIN ps : /\ Places(s, i) \subseteq DOMAIN s
                                     /\ ToSet(ps[i]) = {s[k] : k \in Places(s, i)}
                                     /\ IsInjective(ps[i])
                                     /\ MaxSize > 0 => \A k \in Places(s, i) : ~IsBig(s[k])
             /\ \A i, j \in DOMAIN ps : i # j => Places(s, i) \cap Places(s, j) = {}
             /\ \A i, j \in DOMAIN ps : i # j => ps[i] # ps[j]
             /\ ~MergeSplit(s).err => \A k \in DOMAIN s : \E i \in DOMAIN ps : k \in Places(s, i)
             /\ MergeSplit(s).err =>
                  /\ MaxSize > 0 /\ Len(e) + 1 \in DOMAIN s /\ IsBig(s[Len(e) + 1])
                  /\ \A i \in DOMAIN ps : Len(e) + 1 \notin Places(s, i)
             /\ ps = <<>> => MaxSize > 0 /\ s # <<>> /\ IsBig(s[1])
  <1> DEFINE ps == MergeSplit(s).pieces
             e == Extractable(s)
             n == Len(s)
  <1>0. n \in Nat /\ DOMAIN s = 1..n /\ MaxSize \in Nat
    BY BatcherAssumption
  <1>1. /\ e \in Seq(S) /\ Len(e) \in 0..n
        /\ \A j \in 1..Len(e) : e[j] = s[j] /\ ~IsBig(s[j])
        /\ Len(e) = n <=> e = s
        /\ Len(e) < n => IsBig(s[Len(e) + 1])
    BY ExtractableFacts
  <1>2. CASE Whole(s)
    <2>1. ps = <<s>> /\ ~MergeSplit(s).err /\ DOMAIN ps = {1} /\ ps[1] = s
      BY <1>2 DEF Whole, MergeSplit
    <2>2. \A i : Places(s, i) = DOMAIN s
      BY <1>2 DEF Places
    <2>3. ToSet(s) = {s[k] : k \in DOMAIN s}
      BY DEF ToSet
    <2>4. ASSUME MaxSize > 0 PROVE \A k \in DOMAIN s : ~IsBig(s[k])
      <3>1. e = s
        BY <1>2, <2>4 DEF Whole
      <3> QED BY <1>0, <1>1, <3>1
    <2>5. ps # <<>>
      BY <2>1
    <2> HIDE DEF ps, e
    <2> QED BY <2>1, <2>2, <2>3, <2>4, <2>5 DEF ps
  <1>3. CASE ~Whole(s)
    <2>1. MaxSize > 0 /\ ps = Chunks(e) /\ (MergeSplit(s).err <=> e # s)
      BY <1>3, NotWhole
    <2>2. \A i : Places(s, i) = Cut(e, i)
      BY <1>3 DEF Places
    <2> HIDE DEF e, n
    <2>3. IsInjective(e)
      <3>1. \A j, k \in 1..n : s[j] = s[k] => j = k
        BY <1>0 DEF IsInjective
      <3>2. DOMAIN e = 1..Len(e) /\ 1..Len(e) \subseteq 1..n
        BY <1>0, <1>1
      <3> QED BY <1>1, <3>1, <3>2 DEF IsInjective
    <2>4. /\ \A i \in DOMAIN ps : /\ i \in Nat /\ i >= 1 /\ ps[i] # <<>>
                                  /\ ToSet(ps[i]) = {e[k] : k \in Cut(e, i)}
                                  /\ IsInjective(ps[i])
          /\ \A k \in DOMAIN e : \E i \in DOMAIN ps : k \in Cut(e, i)
          /\ ps \in Seq(Seq(S))
      BY <1>1, <2>1, <2>3, ChunksFacts
    <2> HIDE DEF ps
    <2>5. \A i : Cut(e, i) \subseteq 1..Len(e)
      BY <1>1 DEF Cut
    <2>6. ASSUME NEW i \in DOMAIN ps
          PROVE  /\ Places(s, i) \subseteq DOMAIN s
                 /\ ToSet(ps[i]) = {s[k] : k \in Places(s, i)}
                 /\ IsInjective(ps[i])
                 /\ \A k \in Places(s, i) : ~IsBig(s[k])
      <3>1. Cut(e, i) \subseteq 1..Len(e) /\ 1..Len(e) \subseteq 1..n
        BY <1>0, <1>1, <2>5
      <3>2. {e[k] : k \in Cut(e, i)} = {s[k] : k \in Cut(e, i)}
        BY <1>1, <3>1
      <3> QED BY <1>0, <1>1, <2>2, <2>4, <3>1, <3>2
    <2>7. ASSUME NEW i \in DOMAIN ps, NEW j \in DOMAIN ps, i # j
          PROVE  Cut(e, i) \cap Cut(e, j) = {}
      <3>1. \A a, b \in DOMAIN ps : a < b => \A k \in Cut(e, a) : k \notin Cut(e, b)
        <4> SUFFICES ASSUME NEW a \in DOMAIN ps, NEW b \in DOMAIN ps, a < b,
                            NEW k \in Cut(e, a), k \in Cut(e, b)
                     PROVE  FALSE
          OBVIOUS
        <4>1. a \in Int /\ b \in Int /\ a <= b - 1 /\ b - 1 \in Int
          BY <2>4
        <4>2. k <= a * MaxSize /\ (b - 1) * MaxSize < k /\ k \in Int
          BY <1>1, <2>5 DEF Cut
        <4>3. a * MaxSize <= (b - 1) * MaxSize /\ a * MaxSize \in Int /\ (b - 1) * MaxSize \in Int
          BY <1>0, <2>1, <4>1, Multiples
        <4> HIDE DEF Cut
        <4> QED BY <4>2, <4>3
      <3>2. i < j \/ j < i
        BY <2>4, <2>7
      <3> QED BY <3>1, <3>2
    <2>8. ASSUME NEW i \in DOMAIN ps, NEW j \in DOMAIN ps, i # j
          PROVE  ps[i] # ps[j]
      <3>1. PICK x \in ToSet(ps[i]) : TRUE
        <4>1. ps[i] \in Seq(S) /\ ps[i] # <<>>
          BY <2>4
        <4>2. 1 \in DOMAIN ps[i]
          BY <4>1
        <4> QED BY <4>2 DEF ToSet
      <3>2. PICK k \in Cut(e, i) : x = e[k]
        BY <2>4, <3>1
      <3> SUFFICES ASSUME ps[i] = ps[j] PROVE FALSE
        OBVIOUS
      <3>3. PICK l \in Cut(e, j) : x = e[l]
        BY <2>4, <3>1
      <3>4. k \in DOMAIN e /\ l \in DOMAIN e
        BY <1>1, <2>5
      <3>5. k = l
        BY <2>3, <3>2, <3>3, <3>4 DEF IsInjective
      <3> QED BY <2>7, <2>8, <3>2, <3>3, <3>5
    <2>9. ASSUME ~MergeSplit(s).err, NEW k \in DOMAIN s
          PROVE  \E i \in DOMAIN ps : k \in Places(s, i)
      <3>1. e = s
        BY <2>1, <2>9
      <3> QED BY <2>2, <2>4, <3>1
    <2>10. ASSUME MergeSplit(s).err
           PROVE  /\ Len(e) + 1 \in DOMAIN s /\ IsBig(s[Len(e) + 1])
                  /\ \A i \in DOMAIN ps : Len(e) + 1 \notin Places(s, i)
      <3>1. e # s
        BY <2>1, <2>10
      <3>2. Len(e) \in Nat /\ Len(e) < n
        BY <1>0, <1>1, <3>1
      <3>3. Len(e) + 1 \in DOMAIN s /\ Len(e) + 1 \notin 1..Len(e)
        BY <1>0, <3>2
      <3> QED BY <1>1, <2>2, <2>5, <3>2, <3>3
    <2>11. ASSUME ps = <<>> PROVE s # <<>> /\ IsBig(s[1])
      <3>1. DOMAIN ps = {}
        BY <2>11
      <3>2. DOMAIN e = {}
        BY <2>4, <3>1
      <3>3. Len(e) = 0
        BY <1>1, <3>2
      <3>4. n > 0
        <4>1. e = s => n > MaxSize
          BY <1>0, <1>3, <2>1 DEF Whole, e, n
        <4>2. e # s => n # 0
          BY <1>1, <3>3
        <4> QED BY <1>0, <4>1, <4>2
      <3>5. IsBig(s[1])
        BY <1>0, <1>1, <3>3, <3>4
      <3> QED BY <3>4, <3>5 DEF n
    <2>12. \A i, j \in DOMAIN ps : i # j => Places(s, i) \cap Places(s, j) = {}
      BY <2>2, <2>7
    <2> QED BY <2>1, <2>6, <2>8, <2>9, <2>10, <2>11, <2>12 DEF ps, e
  <1> QED BY <1>2, <1>3

-----------------------------------------------------------------------------
(* Requests and the batches that carry them *)

\* The tail of a sequence that has nothing twice.
LEMMA TailFacts ==
  ASSUME NEW S, NEW s \in Seq(S), s # <<>>, IsInjective(s)
  PROVE  /\ Head(s) \in S /\ Tail(s) \in Seq(S) /\ Head(s) \in ToSet(s)
         /\ ToSet(Tail(s)) = ToSet(s) \ {Head(s)} /\ IsInjective(Tail(s))
  <1> DEFINE t == Tail(s)
  <1>1. Len(s) \in Nat /\ Len(s) >= 1 /\ DOMAIN s = 1..Len(s) /\ Head(s) = s[1]
    OBVIOUS
  <1>2. t \in Seq(S) /\ Len(t) = Len(s) - 1 /\ DOMAIN t = 1..(Len(s) - 1)
    OBVIOUS
  <1>3. \A j \in 1..(Len(s) - 1) : t[j] = s[j + 1]
    BY <1>1
  <1> HIDE DEF t
  <1>4. \A j, k \in 1..Len(s) : s[j] = s[k] => j = k
    BY <1>1 DEF IsInjective
  <1>5. IsInjective(t)
    BY <1>1, <1>2, <1>3, <1>4 DEF IsInjective
  <1>6. Head(s) \in ToSet(s)
    BY <1>1 DEF ToSet
  <1>7. ASSUME NEW x \in ToSet(t) PROVE x \in ToSet(s) /\ x # Head(s)
    <2>1. PICK j \in 1..(Len(s) - 1) : x = t[j]
      BY <1>2 DEF ToSet
    <2>2. j + 1 \in 1..Len(s) /\ j + 1 # 1 /\ x = s[j + 1] /\ 1 \in 1..Len(s)
      BY <1>1, <1>3, <2>1
    <2> QED BY <1>1, <1>4, <2>2 DEF ToSet
  <1>8. ASSUME NEW x \in ToSet(s), x # Head(s) PROVE x \in ToSet(t)
    <2>1. PICK j \in 1..Len(s) : x = s[j]
      BY <1>1 DEF ToSet
    <2>2. j - 1 \in 1..(Len(s) - 1) /\ (j - 1) + 1 = j
      BY <1>1, <1>8, <2>1
    <2> QED BY <1>2, <1>3, <2>1, <2>2 DEF ToSet
  <1>9. Head(s) \in S
    BY <1>1
  <1> QED BY <1>2, <1>5, <1>6, <1>7, <1>8, <1>9 DEF t

\* Two sequences without an element in common.
LEMMA ConcatFacts ==
  ASSUME NEW S, NEW s \in Seq(S), NEW t \in Seq(S)
  PROVE  /\ s \o t \in Seq(S) /\ Len(s \o t) = Len(s) + Len(t)
         /\ \A k \in 1..Len(s) : (s \o t)[k] = s[k]
         /\ \A k \in 1..Len(t) : (s \o t)[Len(s) + k] = t[k]
         /\ ToSet(s \o t) = ToSet(s) \cup ToSet(t)
         /\ IsInjective(s) /\ IsInjective(t) /\ ToSet(s) \cap ToSet(t) = {} => IsInjective(s \o t)
  <1> DEFINE u == s \o t
  <1>1. Len(s) \in Nat /\ Len(t) \in Nat /\ DOMAIN s = 1..Len(s) /\ DOMAIN t = 1..Len(t)
    OBVIOUS
  <1>2. u \in Seq(S) /\ Len(u) = Len(s) + Len(t) /\ DOMAIN u = 1..(Len(s) + Len(t))
    OBVIOUS
  <1>3. \A k \in 1..Len(s) : u[k] = s[k]
    BY <1>1
  <1>4. \A k \in 1..Len(t) : u[Len(s) + k] = t[k]
    BY <1>1
  <1> HIDE DEF u
  <1>5. \A k \in DOMAIN u : k \in 1..Len(s) \/ (k - Len(s) \in 1..Len(t) /\ u[k] = t[k - Len(s)])
    <2> SUFFICES ASSUME NEW k \in DOMAIN u, k \notin 1..Len(s)
                 PROVE  k - Len(s) \in 1..Len(t) /\ u[k] = t[k - Len(s)]
      OBVIOUS
    <2>1. k - Len(s) \in 1..Len(t) /\ Len(s) + (k - Len(s)) = k
      BY <1>1, <1>2
    <2> QED BY <1>4, <2>1
  <1>6. ToSet(u) = ToSet(s) \cup ToSet(t)
    <2>1. ASSUME NEW x \in ToSet(u) PROVE x \in ToSet(s) \cup ToSet(t)
      <3>1. PICK k \in DOMAIN u : x = u[k]
        BY DEF ToSet
      <3> QED BY <1>1, <1>3, <1>5, <3>1 DEF ToSet
    <2>2. ASSUME NEW x \in ToSet(s) PROVE x \in ToSet(u)
      <3>1. PICK k \in 1..Len(s) : x = s[k]
        BY <1>1 DEF ToSet
      <3>2. k \in DOMAIN u
        BY <1>1, <1>2
      <3> QED BY <1>3, <3>1, <3>2 DEF ToSet
    <2>3. ASSUME NEW x \in ToSet(t) PROVE x \in ToSet(u)
      <3>1. PICK k \in 1..Len(t) : x = t[k]
        BY <1>1 DEF ToSet
      <3>2. Len(s) + k \in DOMAIN u
        BY <1>1, <1>2
      <3> QED BY <1>4, <3>1, <3>2 DEF ToSet
    <2> QED BY <2>1, <2>2, <2>3
  <1>7. ASSUME IsInjective(s), IsInjective(t), ToSet(s) \cap ToSet(t) = {} PROVE IsInjective(u)
    <2>1. /\ \A j, k \in 1..Len(s) : s[j] = s[k] => j = k
          /\ \A j, k \in 1..Len(t) : t[j] = t[k] => j = k
          /\ \A j \in 1..Len(s), k \in 1..Len(t) : s[j] # t[k]
      <3>1. \A j \in 1..Len(s) : s[j] \in ToSet(s)
        BY <1>1 DEF ToSet
      <3>2. \A k \in 1..Len(t) : t[k] \in ToSet(t)
        BY <1>1 DEF ToSet
      <3>3. /\ \A j, k \in 1..Len(s) : s[j] = s[k] => j = k
            /\ \A j, k \in 1..Len(t) : t[j] = t[k] => j = k
        BY <1>1, <1>7 DEF IsInjective
      <3>4. \A j \in 1..Len(s), k \in 1..Len(t) : s[j] # t[k]
        BY <1>7, <3>1, <3>2
      <3> QED BY <3>3, <3>4
    <2> SUFFICES ASSUME NEW a \in DOMAIN u, NEW b \in DOMAIN u, u[a] = u[b] PROVE a = b
      BY DEF IsInjective
    <2>2. a \in 1..Len(s) \/ (a - Len(s) \in 1..Len(t) /\ u[a] = t[a - Len(s)])
      BY <1>5
    <2>3. b \in 1..Len(s) \/ (b - Len(s) \in 1..Len(t) /\ u[b] = t[b - Len(s)])
      BY <1>5
    <2>4. CASE a \in 1..Len(s) /\ b \in 1..Len(s)
      BY <1>3, <2>1, <2>4
    <2>5. CASE a \notin 1..Len(s) /\ b \notin 1..Len(s)
      <3>1. a - Len(s) = b - Len(s)
        BY <2>1, <2>2, <2>3, <2>5
      <3> QED BY <1>1, <1>2, <3>1
    <2>6. CASE a \in 1..Len(s) /\ b \notin 1..Len(s)
      BY <1>3, <2>1, <2>3, <2>6
    <2>7. CASE a \notin 1..Len(s) /\ b \in 1..Len(s)
      BY <1>3, <2>1, <2>2, <2>7
    <2> QED BY <2>4, <2>5, <2>6, <2>7
  <1> QED BY <1>2, <1>3, <1>4, <1>6, <1>7 DEF u

\* The items of a request are all different, and its own.
LEMMA ItemsFacts ==
  ASSUME NEW r \in Requests, NEW shape \in [n : Nat, big : BOOLEAN]
  PROVE  IsInjective(Items(r, shape)) /\ \A x \in ToSet(Items(r, shape)) : x[1] = r
  <1> DEFINE a == [i \in 1..shape.n |-> <<r, i>>]
             b == IF shape.big THEN <<<<r, 0>>>> ELSE <<>>
  <1>1. shape.n \in Nat /\ shape.big \in BOOLEAN
    OBVIOUS
  <1>2. /\ a \in RequestItems /\ IsInjective(a)
        /\ \A x \in ToSet(a) : x[1] = r /\ x[2] # 0
    <2>1. a \in [1..shape.n -> Requests \X Nat]
      BY <1>1
    <2>2. a \in RequestItems
      BY <1>1, <2>1 DEF RequestItems
    <2>3. IsInjective(a)
      BY DEF IsInjective
    <2>4. \A x \in ToSet(a) : x[1] = r /\ x[2] # 0
      <3> SUFFICES ASSUME NEW x \in ToSet(a) PROVE x[1] = r /\ x[2] # 0
        OBVIOUS
      <3>1. PICK i \in 1..shape.n : x = <<r, i>>
        BY DEF ToSet
      <3> QED BY <1>1, <3>1
    <2> QED BY <2>2, <2>3, <2>4
  <1>3. /\ b \in RequestItems /\ IsInjective(b)
        /\ \A x \in ToSet(b) : x[1] = r /\ x[2] = 0
    <2>1. CASE shape.big
      <3>1. b = <<<<r, 0>>>> /\ <<r, 0>> \in Requests \X Nat
        BY <2>1
      <3> HIDE DEF b
      <3>2. b \in RequestItems /\ Len(b) = 1 /\ b[1] = <<r, 0>>
        <4> DEFINE z == <<r, 0>>
        <4>1. b = <<z>> /\ z \in Requests \X Nat
          BY <3>1
        <4> HIDE DEF z
        <4>2. b \in Seq(Requests \X Nat) /\ Len(b) = 1 /\ b[1] = z
          BY <4>1
        <4> QED BY <4>2 DEF RequestItems, z
      <3>3. DOMAIN b = {1}
        BY <3>2 DEF RequestItems
      <3>4. \A x \in ToSet(b) : x = <<r, 0>>
        BY <3>2, <3>3 DEF ToSet
      <3> QED BY <3>2, <3>3, <3>4 DEF IsInjective
    <2>2. CASE ~shape.big
      <3>1. b = <<>> /\ b \in RequestItems /\ DOMAIN b = {}
        BY <2>2 DEF RequestItems
      <3> HIDE DEF b
      <3> QED BY <3>1 DEF IsInjective, ToSet
    <2> QED BY <2>1, <2>2
  <1>4. Items(r, shape) = a \o b
    BY DEF Items
  <1> HIDE DEF a, b
  <1>5. ToSet(a) \cap ToSet(b) = {}
    BY <1>2, <1>3
  <1>6. IsInjective(a \o b) /\ ToSet(a \o b) = ToSet(a) \cup ToSet(b)
    BY <1>2, <1>3, <1>5, ConcatFacts DEF RequestItems
  <1> QED BY <1>2, <1>3, <1>4, <1>6

\* A request is with its consumer until it is merged.  Until then no batch
\* knows it, and no batch has an item twice.
OfRequests ==
  /\ \A r \in Requests : taken[r] # None =>
       IsInjective(taken[r]) /\ \A x \in ToSet(taken[r]) : x[1] = r
  /\ \A b \in Pending :
       /\ \A r \in b.dones : Consumed(r)
       /\ IsInjective(b.items) /\ \A x \in ToSet(b.items) : Consumed(x[1])

\* A batch is in one place.
Apart ==
  /\ \A p \in Parts, g \in Goroutines : cur[p] # None => cur[p] \notin ToSet(jobs[g])
  /\ \A p \in Parts : cur[p] # None => cur[p] \notin running
  /\ \A g \in Goroutines : ToSet(jobs[g]) \cap running = {} /\ IsInjective(jobs[g])
  /\ \A g, h \in Goroutines : g # h => ToSet(jobs[g]) \cap ToSet(jobs[h]) = {}

\* The invariant of the batches.
DInv == CInv /\ Waiting /\ OfRequests /\ Apart

\* Where a pending batch can be.
LEMMA PendingPlaces ==
  /\ \A b : b \in Pending <=> \/ \E p \in Parts : cur[p] # None /\ b = cur[p]
                              \/ \E g \in Goroutines : b \in ToSet(jobs[g])
                              \/ b \in running
  /\ CInv => Pending \subseteq Batches
  <1>1. \A b : b \in Pending <=> \/ \E p \in Parts : cur[p] # None /\ b = cur[p]
                                 \/ \E g \in Goroutines : b \in ToSet(jobs[g])
                                 \/ b \in running
    BY DEF Pending, Current, Queued
  <1>2. ASSUME CInv PROVE Pending \subseteq Batches
    <2>1. \A p \in Parts : cur[p] # None => cur[p] \in Batches
      BY <1>2 DEF CInv, Types
    <2>2. \A g \in Goroutines : \A b \in ToSet(jobs[g]) : b \in Batches
      BY <1>2 DEF CInv, Types, ToSet
    <2>3. running \subseteq Batches
      BY <1>2 DEF CInv, Types
    <2> QED BY <1>1, <2>1, <2>2, <2>3
  <1> QED BY <1>1, <1>2

\* The same for the next state.
LEMMA PendingPlacesNext ==
  /\ \A b : b \in Pending' <=> \/ \E p \in Parts : cur'[p] # None /\ b = cur'[p]
                               \/ \E g \in Goroutines : b \in ToSet(jobs'[g])
                               \/ b \in running'
  /\ CInv' => Pending' \subseteq Batches
  <1>1. \A b : b \in Pending' <=> \/ \E p \in Parts : cur'[p] # None /\ b = cur'[p]
                                  \/ \E g \in Goroutines : b \in ToSet(jobs'[g])
                                  \/ b \in running'
    BY DEF Pending, Current, Queued
  <1>2. ASSUME CInv' PROVE Pending' \subseteq Batches
    <2>1. \A p \in Parts : cur'[p] # None => cur'[p] \in Batches
      BY <1>2 DEF CInv, Types
    <2>2. \A g \in Goroutines : \A b \in ToSet(jobs'[g]) : b \in Batches
      BY <1>2 DEF CInv, Types, ToSet
    <2>3. running' \subseteq Batches
      BY <1>2 DEF CInv, Types
    <2> QED BY <1>1, <2>1, <2>2, <2>3
  <1> QED BY <1>1, <1>2

\* A calm step consumes no request.
LEMMA ConsumedCalm ==
  ASSUME CInv, Calm, NEW r \in Requests
  PROVE  /\ Consumed(r)' <=> Consumed(r)
         /\ Consumed(r) => taken'[r] = taken[r]
         /\ Pending' = Pending
  <1>0. Pending' = Pending
    BY DEF Calm, Pending, Current, Queued
  <1>1. CASE UNCHANGED <<taken, req>>
    BY <1>0, <1>1 DEF Consumed
  <1>2. ASSUME NEW c \in Consumers, Take(c)
        PROVE  (Consumed(r)' <=> Consumed(r)) /\ (Consumed(r) => taken'[r] = taken[r])
    <2>1. PICK r0 \in DOMAIN stream, k \in (IF partitioned THEN Keys ELSE {None}) :
            /\ taken[r0] = None
            /\ taken' = [taken EXCEPT ![r0] = Items(r0, stream[r0])]
            /\ req' = [req EXCEPT ![c] = [id |-> r0, key |-> k]]
      BY <1>2 DEF Take
    <2>2. pc[c] = "idle" /\ req[c] = None
      BY <1>2 DEF Take, CInv, Consuming
    <2>3. req'[c] # None /\ req'[c].id = r0 /\ \A d \in Consumers : d # c => req'[d] = req[d]
      <3>1. req'[c] = [id |-> r0, key |-> k] /\ \A d \in Consumers : d # c => req'[d] = req[d]
        BY <2>1 DEF CInv, Types
      <3>2. r0 \in Requests /\ k \in Keys \cup {None}
        <4>1. stream \in Streams
          BY DEF CInv, Types
        <4>2. stream \in Seq([n : Nat, big : BOOLEAN]) /\ Len(stream) <= MaxRequests
          BY <4>1, BatcherAssumption
        <4>3. r0 \in 1..Len(stream) /\ Len(stream) \in Nat /\ MaxRequests \in Nat
          BY <4>2, BatcherAssumption
        <4> QED BY <4>2, <4>3 DEF Requests
      <3>3. req'[c] \in Fetched
        BY <3>1, <3>2 DEF Fetched
      <3> QED BY <3>1, <3>3, NoneAssumption
    <2>4. CASE r = r0
      BY <2>1, <2>3, <2>4 DEF Consumed
    <2>5. CASE r # r0
      <3>1. taken'[r] = taken[r]
        BY <2>1, <2>5 DEF CInv, Types
      <3>2. (\A d \in Consumers : req'[d] = None \/ req'[d].id # r) <=>
            (\A d \in Consumers : req[d] = None \/ req[d].id # r)
        BY <2>2, <2>3, <2>5
      <3> QED BY <3>1, <3>2 DEF Consumed
    <2> QED BY <2>4, <2>5
  <1> QED BY <1>0, <1>1, <1>2 DEF Calm

\* A consumer that merges its request consumes it, and nothing else.
LEMMA ConsumedMerge ==
  ASSUME CInv, NEW c \in Consumers, pc[c] = "consume",
         req' = [req EXCEPT ![c] = None], taken' = taken
  PROVE  /\ ~Consumed(req[c].id)
         /\ \A r \in Requests : Consumed(r)' <=> Consumed(r) \/ r = req[c].id
  <1>1. req[c] # None /\ req[c].id \in Requests /\ taken[req[c].id] # None
    BY ConsumeTypes DEF CInv, Requested, Taken
  <1>2. req'[c] = None /\ \A d \in Consumers : d # c => req'[d] = req[d]
    BY DEF CInv, Types
  <1>3. \A d \in Consumers : d # c => req[d] = None \/ req[d].id # req[c].id
    BY <1>1 DEF CInv, Requested
  <1>4. ~Consumed(req[c].id)
    BY <1>1 DEF Consumed
  <1>5. ASSUME NEW r \in Requests PROVE Consumed(r)' <=> Consumed(r) \/ r = req[c].id
    <2>1. CASE r = req[c].id
      BY <1>1, <1>2, <1>3, <2>1 DEF Consumed
    <2>2. CASE r # req[c].id
      BY <1>1, <1>2, <2>2 DEF Consumed
    <2> QED BY <2>1, <2>2
  <1> QED BY <1>4, <1>5

\* The other steps do not touch requests.
LEMMA ConsumedSame ==
  ASSUME UNCHANGED <<taken, req>>
  PROVE  \A r \in Requests : Consumed(r)' <=> Consumed(r)
  BY DEF Consumed

\* The items of the current batch, if there is one.
Front0(c) == IF cur[part[c]] = None THEN <<>> ELSE cur[part[c]].items

\* What a consumer merges: those items and the ones of its request, none twice.
LEMMA MergedFacts ==
  ASSUME CInv, OfRequests, NEW c \in Consumers, pc[c] = "consume"
  PROVE  LET r == req[c].id
             f == Front0(c)
             t == taken[r]
         IN  /\ f \in RequestItems /\ t \in RequestItems /\ Merged(c) = f \o t
             /\ IsInjective(f) /\ IsInjective(t) /\ ToSet(f) \cap ToSet(t) = {}
             /\ IsInjective(Merged(c)) /\ ToSet(Merged(c)) = ToSet(f) \cup ToSet(t)
             /\ \A x \in ToSet(f) : x[1] \in Requests /\ Consumed(x[1])
             /\ \A x \in ToSet(t) : x[1] = r
             /\ ~Consumed(r) /\ taken[r] # None
  <1> DEFINE r == req[c].id
             f == Front0(c)
             t == taken[r]
             p == part[c]
  <1>1. /\ p \in Parts /\ r \in Requests /\ t \in RequestItems
        /\ cur[p] # None => cur[p] \in Batches
    BY ConsumeTypes
  <1>2. t # None
    BY <1>1, NoneAssumption DEF RequestItems
  <1>3. IsInjective(t) /\ \A x \in ToSet(t) : x[1] = r
    BY <1>1, <1>2 DEF OfRequests
  <1>4. ~Consumed(r)
    <2>1. req[c] # None
      BY ConsumeTypes
    <2> QED BY <2>1 DEF Consumed
  <1>5. f \in RequestItems /\ IsInjective(f) /\ \A x \in ToSet(f) : Consumed(x[1])
    <2>1. CASE cur[p] = None
      <3>1. f = <<>>
        BY <2>1 DEF Front0
      <3> QED BY <3>1 DEF RequestItems, IsInjective, ToSet
    <2>2. CASE cur[p] # None
      <3>1. f = cur[p].items /\ cur[p] \in Pending
        BY <1>1, <2>2, PendingPlaces DEF Front0
      <3> QED BY <1>1, <2>2, <3>1, Fields DEF OfRequests
    <2> QED BY <2>1, <2>2
  <1>6. \A x \in ToSet(f) : x[1] \in Requests
    BY <1>5 DEF RequestItems, ToSet
  <1>7. Merged(c) = f \o t
    BY DEF Merged, Front0
  <1> HIDE DEF f, t, r
  <1>8. ToSet(f) \cap ToSet(t) = {}
    BY <1>3, <1>4, <1>5
  <1>9. IsInjective(f \o t) /\ ToSet(f \o t) = ToSet(f) \cup ToSet(t)
    BY <1>1, <1>3, <1>5, <1>8, ConcatFacts DEF RequestItems
  <1> QED BY <1>1, <1>2, <1>3, <1>4, <1>5, <1>6, <1>7, <1>8, <1>9 DEF f, t, r

\* The batches a consumer makes: they carry its request and differ.
LEMMA MadeBatches ==
  ASSUME CInv, OfRequests, NEW c \in Consumers, pc[c] = "consume"
  PROVE  LET B(i) == BatchOf(c, Split(c), i)
         IN  /\ \A i \in 1..Pieces(c) :
                  /\ B(i).dones = IF i = 1 /\ cur[part[c]] # None
                                    THEN cur[part[c]].dones \cup {req[c].id} ELSE {req[c].id}
                  /\ IsInjective(B(i).items)
                  /\ B(i).items = Split(c).pieces[i]
                  /\ ToSet(B(i).items) = {Merged(c)[k] : k \in Places(Merged(c), i)}
                  /\ Places(Merged(c), i) \subseteq DOMAIN Merged(c)
                  /\ ToSet(B(i).items) \subseteq ToSet(Merged(c))
                  /\ B(i) \notin Pending
             /\ \A i, j \in 1..Pieces(c) : i # j => B(i) # B(j) /\ ToSet(B(i).items) \cap ToSet(B(j).items) = {}
  <1> DEFINE s == Merged(c)
             ps == Split(c).pieces
             B(i) == BatchOf(c, Split(c), i)
             r == req[c].id
  <1>1. s \in Seq(Requests \X Nat) /\ IsInjective(s)
    BY MergedFacts, ConsumeTypes DEF RequestItems
  <1>2. /\ ps \in Seq(RequestItems) /\ DOMAIN ps = 1..Pieces(c)
        /\ \A i \in 1..Pieces(c) : B(i) \in Batches /\ B(i).items = ps[i]
    BY ConsumeTypes DEF Pieces
  <1>3. \A i \in 1..Pieces(c) : B(i).dones = IF i = 1 /\ cur[part[c]] # None
                                    THEN cur[part[c]].dones \cup {req[c].id} ELSE {req[c].id}
    BY DEF BatchOf
  <1>4. ~Consumed(r)
    BY MergedFacts
  <1> HIDE DEF s, B, r
  <1>5. /\ \A i \in 1..Pieces(c) : /\ Places(s, i) \subseteq DOMAIN s
                                   /\ ToSet(ps[i]) = {s[k] : k \in Places(s, i)}
                                   /\ IsInjective(ps[i])
        /\ \A i, j \in 1..Pieces(c) : i # j => Places(s, i) \cap Places(s, j) = {}
        /\ \A i, j \in 1..Pieces(c) : i # j => ps[i] # ps[j]
    <2>1. ps = MergeSplit(s).pieces
      BY DEF Split, s
    <2> HIDE DEF ps
    <2>2. ASSUME NEW q, q = MergeSplit(s).pieces
          PROVE  /\ \A i \in DOMAIN q : /\ Places(s, i) \subseteq DOMAIN s
                                       /\ ToSet(q[i]) = {s[k] : k \in Places(s, i)}
                                       /\ IsInjective(q[i])
                 /\ \A i, j \in DOMAIN q : i # j => Places(s, i) \cap Places(s, j) = {}
                 /\ \A i, j \in DOMAIN q : i # j => q[i] # q[j]
      <3> DEFINE m == MergeSplit(s).pieces
      <3>1. /\ \A i \in DOMAIN m : /\ Places(s, i) \subseteq DOMAIN s
                                     /\ ToSet(m[i]) = {s[k] : k \in Places(s, i)}
                                     /\ IsInjective(m[i])
            /\ \A i, j \in DOMAIN m : i # j => Places(s, i) \cap Places(s, j) = {}
            /\ \A i, j \in DOMAIN m : i # j => m[i] # m[j]
        BY <1>1, MergeSplitPlaces, Zenon
      <3>2. q = m
        BY <2>2
      <3> HIDE DEF m
      <3> QED BY <3>1, <3>2
    <2>3. /\ \A i \in DOMAIN ps : /\ Places(s, i) \subseteq DOMAIN s
                                  /\ ToSet(ps[i]) = {s[k] : k \in Places(s, i)}
                                  /\ IsInjective(ps[i])
          /\ \A i, j \in DOMAIN ps : i # j => Places(s, i) \cap Places(s, j) = {}
          /\ \A i, j \in DOMAIN ps : i # j => ps[i] # ps[j]
      BY <2>1, <2>2
    <2> QED BY <1>2, <2>3
  <1> HIDE DEF ps
  <1>6. ASSUME NEW i \in 1..Pieces(c) PROVE r \in B(i).dones
    BY <1>3 DEF r
  <1>7. ASSUME NEW i \in 1..Pieces(c) PROVE B(i) \notin Pending
    BY <1>4, <1>6 DEF OfRequests
  <1>8. ASSUME NEW i \in 1..Pieces(c) PROVE ToSet(B(i).items) \subseteq ToSet(s)
    <2>1. ToSet(B(i).items) = {s[k] : k \in Places(s, i)} /\ Places(s, i) \subseteq DOMAIN s
      BY <1>2, <1>5
    <2>2. \A k \in DOMAIN s : s[k] \in ToSet(s)
      BY DEF ToSet
    <2> QED BY <2>1, <2>2
  <1>9. ASSUME NEW i \in 1..Pieces(c), NEW j \in 1..Pieces(c), i # j
        PROVE  B(i) # B(j) /\ ToSet(B(i).items) \cap ToSet(B(j).items) = {}
    <2>1. B(i) # B(j)
      BY <1>2, <1>5, <1>9
    <2>2. ASSUME NEW x \in ToSet(ps[i]), x \in ToSet(ps[j]) PROVE FALSE
      <3>1. PICK k \in Places(s, i) : x = s[k]
        BY <1>5
      <3>2. PICK l \in Places(s, j) : x = s[l]
        BY <1>5, <2>2
      <3>3. k = l
        BY <1>1, <1>5, <3>1, <3>2 DEF IsInjective
      <3> QED BY <1>5, <1>9, <3>1, <3>2, <3>3
    <2> QED BY <1>2, <2>1, <2>2
  <1> QED BY <1>2, <1>3, <1>5, <1>7, <1>8, <1>9 DEF s, ps, B


\* When a step only moves or ends batches, they are as good as before.
LEMMA OfRequestsKept ==
  ASSUME OfRequests, UNCHANGED <<taken, req>>, Pending' \subseteq Pending, CInv
  PROVE  OfRequests'
  <1>1. \A b \in Pending' : /\ \A r \in b.dones : r \in Requests
                            /\ \A x \in ToSet(b.items) : x[1] \in Requests
    <2>1. Pending \subseteq Batches
      BY PendingPlaces
    <2>2. \A b \in Batches : /\ \A r \in b.dones : r \in Requests
                             /\ \A x \in ToSet(b.items) : x[1] \in Requests
      BY Fields DEF RequestItems, ToSet
    <2> QED BY <2>1, <2>2
  <1>2. \A b \in Pending' : /\ \A r \in b.dones : Consumed(r)'
                            /\ IsInjective(b.items) /\ \A x \in ToSet(b.items) : Consumed(x[1])'
    BY <1>1, ConsumedSame DEF OfRequests
  <1>3. \A r \in Requests : taken'[r] # None =>
          IsInjective(taken'[r]) /\ \A x \in ToSet(taken'[r]) : x[1] = r
    BY DEF OfRequests
  <1> QED BY <1>2, <1>3 DEF OfRequests

\* Calm steps leave the batches where they are.  A request just taken has its
\* items once.
LEMMA DInvCalm ==
  ASSUME DInv, CInv', Calm
  PROVE  OfRequests' /\ Apart'
  <1> USE DEF DInv
  <1>1. Apart'
    BY DEF Apart, Calm
  <1>2. Pending' = Pending /\ Pending \subseteq Batches
    BY PendingPlaces DEF Calm, Pending, Current, Queued
  <1>3. \A b \in Batches : /\ \A r \in b.dones : r \in Requests
                           /\ \A x \in ToSet(b.items) : x[1] \in Requests
    BY Fields DEF RequestItems, ToSet
  <1>4. \A r \in Requests : Consumed(r)' <=> Consumed(r)
    BY ConsumedCalm
  <1>5. \A b \in Pending' : /\ \A r \in b.dones : Consumed(r)'
                            /\ IsInjective(b.items) /\ \A x \in ToSet(b.items) : Consumed(x[1])'
    BY <1>2, <1>3, <1>4 DEF OfRequests
  <1>6. ASSUME NEW r \in Requests, taken'[r] # None
        PROVE  IsInjective(taken'[r]) /\ \A x \in ToSet(taken'[r]) : x[1] = r
    <2>1. CASE taken'[r] = taken[r]
      BY <1>6, <2>1 DEF OfRequests
    <2>2. ASSUME NEW c \in Consumers, Take(c), taken'[r] # taken[r]
          PROVE  IsInjective(taken'[r]) /\ \A x \in ToSet(taken'[r]) : x[1] = r
      <3>1. PICK q \in DOMAIN stream : taken' = [taken EXCEPT ![q] = Items(q, stream[q])]
        BY <2>2 DEF Take
      <3>2. q = r /\ taken'[r] = Items(r, stream[r]) /\ r \in DOMAIN stream
        BY <2>2, <3>1 DEF CInv, Types
      <3>3. stream[r] \in [n : Nat, big : BOOLEAN]
        <4>1. stream \in Streams
          BY DEF CInv, Types
        <4>2. stream \in Seq([n : Nat, big : BOOLEAN])
          BY <4>1, BatcherAssumption
        <4>3. \A S : \A s \in Seq(S) : \A i \in DOMAIN s : s[i] \in S
          OBVIOUS
        <4>4. r \in DOMAIN stream
          BY <3>2
        <4> QED BY <4>2, <4>3, <4>4
      <3> QED BY <3>2, <3>3, ItemsFacts
    <2> QED BY <2>1, <2>2 DEF Calm
  <1> QED BY <1>1, <1>5, <1>6 DEF OfRequests

\* FlushCurrent moves the current batch to the flushing goroutine.
LEMMA FlushCurrentMoves ==
  ASSUME DInv, NEW g \in Goroutines, FlushCurrent(g)
  PROVE  Pending' = Pending /\ OfRequests' /\ Apart'
  <1> USE DEF DInv
  <1> DEFINE p == PartOf(g)
             b == cur[p]
  <1>1. p \in Parts /\ b # None /\ UNCHANGED <<running, taken, req>>
    BY OwnPart DEF FlushCurrent, poolVars, consVars
  <1>2. \A q \in Parts : cur'[q] = IF q = p THEN None ELSE cur[q]
    BY FlushCurrentControl
  <1>3. jobs' = [jobs EXCEPT ![g] = <<b>>]
    BY DEF FlushCurrent
  <1>4. jobs[g] = <<>>
    BY DEF FlushCurrent, AtFlush, CInv, Busy
  <1>5. jobs'[g] = <<b>> /\ \A h \in Goroutines : h # g => jobs'[h] = jobs[h]
    BY <1>3 DEF CInv, Types
  <1> HIDE DEF b, p
  <1>6. ToSet(<<b>>) = {b} /\ IsInjective(<<b>>)
    BY DEF ToSet, IsInjective
  <1>7. ToSet(jobs[g]) = {}
    BY <1>4 DEF ToSet
  <1>8. Pending' = Pending
    <2>1. ASSUME NEW x, x \in Pending PROVE x \in Pending'
      <3>1. CASE x = b
        BY <1>5, <1>6, <3>1, PendingPlacesNext
      <3>2. CASE x # b
        <4>1. CASE \E q \in Parts : cur[q] # None /\ x = cur[q]
          BY <1>1, <1>2, <3>2, <4>1, PendingPlacesNext DEF b
        <4>2. CASE \E h \in Goroutines : x \in ToSet(jobs[h])
          BY <1>5, <1>7, <4>2, PendingPlacesNext
        <4>3. CASE x \in running
          BY <1>1, <4>3, PendingPlacesNext
        <4> QED BY <2>1, <4>1, <4>2, <4>3, PendingPlaces
      <3> QED BY <3>1, <3>2
    <2>2. ASSUME NEW x, x \in Pending' PROVE x \in Pending
      <3>0. b \in Pending
        BY <1>1, PendingPlaces DEF b
      <3>1. CASE \E q \in Parts : cur'[q] # None /\ x = cur'[q]
        BY <1>2, <3>1, PendingPlaces
      <3>2. CASE \E h \in Goroutines : x \in ToSet(jobs'[h])
        BY <1>5, <1>6, <3>0, <3>2, PendingPlaces
      <3>3. CASE x \in running'
        BY <1>1, <3>3, PendingPlaces
      <3> QED BY <2>2, <3>1, <3>2, <3>3, PendingPlacesNext
    <2> QED BY <2>1, <2>2
  <1>9. OfRequests'
    BY <1>1, <1>8, OfRequestsKept
  <1>10. Apart'
    <2>1. \A q \in Parts, h \in Goroutines : cur'[q] # None => cur'[q] \notin ToSet(jobs'[h])
      <3> SUFFICES ASSUME NEW q \in Parts, NEW h \in Goroutines, cur'[q] # None
                   PROVE  cur'[q] \notin ToSet(jobs'[h])
        OBVIOUS
      <3>1. q # p /\ cur'[q] = cur[q] /\ cur[q] # None
        BY <1>2
      <3>2. CASE h = g
        <4>1. cur[q].p = q /\ b.p = p
          BY <1>1, <3>1 DEF Waiting, b
        <4> QED BY <1>5, <1>6, <3>1, <3>2, <4>1
      <3>3. CASE h # g
        BY <1>5, <3>1, <3>3 DEF Apart
      <3> QED BY <3>2, <3>3
    <2>2. \A q \in Parts : cur'[q] # None => cur'[q] \notin running'
      BY <1>1, <1>2 DEF Apart
    <2>3. \A h \in Goroutines : ToSet(jobs'[h]) \cap running' = {} /\ IsInjective(jobs'[h])
      <3>1. b \notin running
        BY <1>1 DEF Apart, b
      <3> QED BY <1>1, <1>5, <1>6, <3>1 DEF Apart
    <2>4. \A h, k \in Goroutines : h # k => ToSet(jobs'[h]) \cap ToSet(jobs'[k]) = {}
      <3>1. \A h \in Goroutines : b \notin ToSet(jobs[h])
        BY <1>1 DEF Apart, b
      <3> QED BY <1>5, <1>6, <3>1 DEF Apart
    <2> QED BY <2>1, <2>2, <2>3, <2>4 DEF Apart
  <1> QED BY <1>8, <1>9, <1>10

\* FlushExecute moves a batch from the flushing goroutine to a worker.
LEMMA FlushExecuteMoves ==
  ASSUME DInv, NEW g \in Goroutines, FlushExecute(g)
  PROVE  /\ Pending' = Pending /\ OfRequests' /\ Apart'
         /\ \E b \in ToSet(jobs[g]) :
              b \notin running /\ running' = running \cup {b} /\ jobs'[g] = Tail(jobs[g])
         /\ \A h \in Goroutines : h # g => jobs'[h] = jobs[h]
         /\ ToSet(jobs'[g]) \subseteq ToSet(jobs[g])
  <1> USE DEF DInv
  <1> DEFINE b == Head(jobs[g])
  <1>1. jobs[g] \in Seq(Batches) /\ jobs[g] # <<>> /\ IsInjective(jobs[g])
    BY FlushExecuteControl DEF Apart
  <1>2. /\ b \in ToSet(jobs[g]) /\ ToSet(Tail(jobs[g])) = ToSet(jobs[g]) \ {b}
        /\ IsInjective(Tail(jobs[g]))
    BY <1>1, TailFacts
  <1>3. running' = running \cup {b} /\ UNCHANGED <<cur, taken, req>>
    BY DEF FlushExecute
  <1>4. jobs' = [jobs EXCEPT ![g] = Tail(jobs[g])]
    BY DEF FlushExecute
  <1>5. jobs'[g] = Tail(jobs[g]) /\ \A h \in Goroutines : h # g => jobs'[h] = jobs[h]
    BY <1>4 DEF CInv, Types
  <1> HIDE DEF b
  <1>6. b \notin running /\ \A h \in Goroutines : h # g => b \notin ToSet(jobs[h])
    BY <1>2 DEF Apart
  <1>7. Pending' = Pending
    <2>1. ASSUME NEW x, x \in Pending PROVE x \in Pending'
      <3>1. CASE x = b
        BY <1>3, <3>1, PendingPlacesNext
      <3>2. CASE x # b
        <4>1. CASE \E q \in Parts : cur[q] # None /\ x = cur[q]
          BY <1>3, <4>1, PendingPlacesNext
        <4>2. CASE \E h \in Goroutines : x \in ToSet(jobs[h])
          BY <1>2, <1>5, <3>2, <4>2, PendingPlacesNext
        <4>3. CASE x \in running
          BY <1>3, <4>3, PendingPlacesNext
        <4> QED BY <2>1, <4>1, <4>2, <4>3, PendingPlaces
      <3> QED BY <3>1, <3>2
    <2>2. ASSUME NEW x, x \in Pending' PROVE x \in Pending
      <3>0. b \in Pending
        BY <1>2, PendingPlaces
      <3>1. CASE \E q \in Parts : cur'[q] # None /\ x = cur'[q]
        BY <1>3, <3>1, PendingPlaces
      <3>2. CASE \E h \in Goroutines : x \in ToSet(jobs'[h])
        BY <1>2, <1>5, <3>2, PendingPlaces
      <3>3. CASE x \in running'
        BY <1>3, <3>0, <3>3, PendingPlaces
      <3> QED BY <2>2, <3>1, <3>2, <3>3, PendingPlacesNext
    <2> QED BY <2>1, <2>2
  <1>8. OfRequests'
    BY <1>3, <1>7, OfRequestsKept
  <1>9. \A h \in Goroutines : ToSet(jobs'[h]) \subseteq ToSet(jobs[h])
    BY <1>2, <1>5
  <1>10. Apart'
    <2>1. \A q \in Parts, h \in Goroutines : cur'[q] # None => cur'[q] \notin ToSet(jobs'[h])
      BY <1>3, <1>9 DEF Apart
    <2>2. \A q \in Parts : cur'[q] # None => cur'[q] \notin running'
      BY <1>2, <1>3 DEF Apart
    <2>3. \A h \in Goroutines : ToSet(jobs'[h]) \cap running' = {} /\ IsInjective(jobs'[h])
      BY <1>2, <1>3, <1>5, <1>6 DEF Apart
    <2>4. \A h, k \in Goroutines : h # k => ToSet(jobs'[h]) \cap ToSet(jobs'[k]) = {}
      BY <1>9 DEF Apart
    <2> QED BY <2>1, <2>2, <2>3, <2>4 DEF Apart
  <1> QED BY <1>2, <1>3, <1>5, <1>6, <1>7, <1>8, <1>9, <1>10

\* Exported ends one batch.
LEMMA ExportedMoves ==
  ASSUME DInv, NEW b \in running, NEW ok \in BOOLEAN, Exported(b, ok)
  PROVE  Pending' = Pending \ {b} /\ OfRequests' /\ Apart'
  <1> USE DEF DInv
  <1>1. running' = running \ {b} /\ UNCHANGED <<cur, jobs, taken, req>>
    BY DEF Exported, consVars
  <1>2. /\ \A q \in Parts : cur[q] # None => cur[q] # b
        /\ \A h \in Goroutines : b \notin ToSet(jobs[h])
    BY DEF Apart
  <1>3. Pending' = Pending \ {b}
    <2>1. \A x : x \in Pending => x = b \/ x \in Pending'
      BY <1>1, PendingPlaces, PendingPlacesNext
    <2>2. \A x : x \in Pending' => x # b /\ x \in Pending
      BY <1>1, <1>2, PendingPlaces, PendingPlacesNext
    <2> QED BY <2>1, <2>2
  <1>4. OfRequests'
    BY <1>1, <1>3, OfRequestsKept
  <1>5. Apart'
    BY <1>1 DEF Apart
  <1> QED BY <1>3, <1>4, <1>5

\* ConsumeRefused: the current batch, if any, is replaced by one with the items
\* of the request added, which is new unless the request has none.
LEMMA RefusedMoves ==
  ASSUME DInv, NEW c \in Consumers, ConsumeRefused(c)
  PROVE  /\ cur[part[c]] = None => Pending' = Pending
         /\ cur[part[c]] # None =>
              /\ Pending' = (Pending \ {cur[part[c]]}) \cup {cur'[part[c]]}
              /\ cur'[part[c]] = cur[part[c]] \/ cur'[part[c]] \notin Pending
         /\ OfRequests' /\ Apart'
  <1> USE DEF DInv
  <1> DEFINE p == part[c]
             r == req[c].id
             f == Front0(c)
             t == taken[r]
             n == cur'[p]
             o == cur[p]
  <1>1. /\ pc[c] = "consume" /\ UNCHANGED <<jobs, running, taken>>
        /\ req' = [req EXCEPT ![c] = None]
        /\ cur' = IF cur[p] = None THEN cur ELSE [cur EXCEPT ![p].items = Merged(c)]
    BY RefusedStep DEF poolVars
  <1>2. /\ p \in Parts /\ r \in Requests /\ Merged(c) \in RequestItems
        /\ o # None => o \in Batches
    BY <1>1, ConsumeTypes
  <1>3. /\ f \in RequestItems /\ t \in RequestItems /\ Merged(c) = f \o t
        /\ IsInjective(Merged(c)) /\ ToSet(Merged(c)) = ToSet(f) \cup ToSet(t)
        /\ \A x \in ToSet(f) : x[1] \in Requests /\ Consumed(x[1])
        /\ \A x \in ToSet(t) : x[1] = r
        /\ ~Consumed(r)
    BY <1>1, MergedFacts
  <1>4. \A q \in Requests : Consumed(q)' <=> Consumed(q) \/ q = r
    BY <1>1, ConsumedMerge
  <1>5. \A q \in Parts : q # p => cur'[q] = cur[q]
    BY <1>1, <1>2 DEF CInv, Types
  <1>6. o = None => n = None
    BY <1>1
  <1>7. ASSUME o # None
        PROVE  n # None /\ n.dones = o.dones /\ n.items = Merged(c) /\ n.p = o.p
    <2>1. cur' = [cur EXCEPT ![p].items = Merged(c)]
      BY <1>1, <1>7
    <2>2. n = [o EXCEPT !.items = Merged(c)]
      BY <1>2, <2>1 DEF CInv, Types
    <2>3. n \in Batches /\ n.dones = o.dones /\ n.items = Merged(c) /\ n.p = o.p
      BY <1>2, <1>7, <2>2 DEF Batches, RequestItems
    <2> QED BY <2>3, NoneAssumption
  <1>8. ASSUME o # None PROVE f = o.items
    BY <1>8 DEF Front0
  <1>13. o # None => o \in Pending
    BY <1>2, PendingPlaces
  <1> HIDE DEF n, o, f, t, p, r
  <1>9. ASSUME o # None PROVE n = o \/ n \notin Pending
    <2>1. CASE t = <<>>
      <3>1. Merged(c) = f
        BY <1>3, <2>1 DEF RequestItems
      <3>2. n.items = o.items /\ n.dones = o.dones /\ n.p = o.p
        BY <1>7, <1>8, <1>9, <3>1
      <3>3. n \in Batches /\ o \in Batches
        <4>1. n = [o EXCEPT !.items = Merged(c)]
          BY <1>1, <1>2, <1>9 DEF CInv, Types, n, o
        <4> QED BY <1>2, <1>9, <4>1 DEF Batches, RequestItems
      <3> QED BY <3>2, <3>3 DEF Batches
    <2>2. CASE t # <<>>
      <3>1. t[1] \in ToSet(t)
        BY <1>3, <2>2 DEF RequestItems, ToSet
      <3>2. t[1] \in ToSet(n.items) /\ t[1][1] = r
        BY <1>3, <1>7, <1>9, <3>1
      <3> QED BY <1>3, <3>2 DEF OfRequests
    <2> QED BY <2>1, <2>2
  <1>10. /\ o = None => Pending' = Pending
         /\ o # None => Pending' = (Pending \ {o}) \cup {n}
    <2>1. ASSUME NEW x, x \in Pending, x # o PROVE x \in Pending'
      <3>1. CASE \E q \in Parts : cur[q] # None /\ x = cur[q]
        BY <1>5, <2>1, <3>1, PendingPlacesNext DEF o
      <3>2. CASE \E h \in Goroutines : x \in ToSet(jobs[h])
        BY <1>1, <3>2, PendingPlacesNext
      <3>3. CASE x \in running
        BY <1>1, <3>3, PendingPlacesNext
      <3> QED BY <2>1, <3>1, <3>2, <3>3, PendingPlaces
    <2>2. o # None => n \in Pending'
      BY <1>2, <1>7, PendingPlacesNext DEF n
    <2>3. ASSUME NEW x, x \in Pending' PROVE (x \in Pending /\ (o # None => x # o)) \/ (o # None /\ x = n)
      <3>1. CASE \E q \in Parts : cur'[q] # None /\ x = cur'[q]
        <4>1. PICK q \in Parts : cur'[q] # None /\ x = cur'[q]
          BY <3>1
        <4>2. CASE q = p
          BY <1>6, <4>1, <4>2 DEF n
        <4>3. CASE q # p
          <5>1. x = cur[q] /\ cur[q] # None
            BY <1>5, <4>1, <4>3
          <5>2. o # None => o.p = p /\ x.p = q
            BY <1>2, <5>1 DEF Waiting, o
          <5> QED BY <4>3, <5>1, <5>2, PendingPlaces
        <4> QED BY <4>2, <4>3
      <3>2. CASE \E h \in Goroutines : x \in ToSet(jobs'[h])
        BY <1>1, <1>2, <3>2, PendingPlaces DEF Apart, o
      <3>3. CASE x \in running'
        BY <1>1, <1>2, <3>3, PendingPlaces DEF Apart, o
      <3> QED BY <2>3, <3>1, <3>2, <3>3, PendingPlacesNext
    <2>4. o = None => o \notin Pending
      BY PendingPlaces, NoneAssumption
    <2> QED BY <2>1, <2>2, <2>3, <2>4
  <1>11. OfRequests'
    <2>1. \A b \in Batches : /\ \A q \in b.dones : q \in Requests
                             /\ \A x \in ToSet(b.items) : x[1] \in Requests
      BY Fields DEF RequestItems, ToSet
    <2>2. ASSUME NEW b \in Pending
          PROVE  /\ \A q \in b.dones : Consumed(q)'
                 /\ IsInjective(b.items) /\ \A x \in ToSet(b.items) : Consumed(x[1])'
      <3>1. b \in Batches
        BY PendingPlaces
      <3> QED BY <1>4, <2>1, <3>1 DEF OfRequests
    <2>3. ASSUME o # None
          PROVE  /\ \A q \in n.dones : Consumed(q)'
                 /\ IsInjective(n.items) /\ \A x \in ToSet(n.items) : Consumed(x[1])'
      <3>1. o \in Pending
        BY <1>13, <2>3
      <3>2. \A q \in n.dones : Consumed(q)'
        BY <1>7, <2>2, <2>3, <3>1
      <3>3. \A x \in ToSet(f) : Consumed(x[1])'
        BY <1>3, <1>4
      <3>4. \A x \in ToSet(t) : Consumed(x[1])'
        BY <1>2, <1>3, <1>4
      <3>5. \A x \in ToSet(n.items) : Consumed(x[1])'
        BY <1>3, <1>7, <2>3, <3>3, <3>4
      <3> QED BY <1>3, <1>7, <2>3, <3>2, <3>5
    <2>4. \A b \in Pending' : /\ \A q \in b.dones : Consumed(q)'
                              /\ IsInjective(b.items) /\ \A x \in ToSet(b.items) : Consumed(x[1])'
      BY <1>10, <2>2, <2>3
    <2>5. \A q \in Requests : taken'[q] # None =>
            IsInjective(taken'[q]) /\ \A x \in ToSet(taken'[q]) : x[1] = q
      BY <1>1 DEF OfRequests
    <2> QED BY <2>4, <2>5 DEF OfRequests
  <1>12. Apart'
    <2>1. ASSUME NEW q \in Parts, cur'[q] # None, NEW h \in Goroutines
          PROVE  cur'[q] \notin ToSet(jobs[h]) /\ cur'[q] \notin running
      <3>1. CASE q # p
        BY <1>5, <2>1, <3>1 DEF Apart
      <3>2. CASE q = p
        <4>1. o # None /\ cur'[q] = n
          BY <1>6, <2>1, <3>2 DEF n
        <4>2. CASE n = o
          BY <1>2, <4>1, <4>2 DEF Apart, o
        <4>3. CASE n \notin Pending
          BY <4>1, <4>3, PendingPlaces
        <4> QED BY <1>9, <4>1, <4>2, <4>3
      <3> QED BY <3>1, <3>2
    <2>2. \E h \in Goroutines : TRUE
      BY Different
    <2>3. \A q \in Parts, h \in Goroutines : cur'[q] # None => cur'[q] \notin ToSet(jobs'[h])
      BY <1>1, <2>1
    <2>4. \A q \in Parts : cur'[q] # None => cur'[q] \notin running'
      BY <1>1, <2>1, <2>2
    <2>5. /\ \A h \in Goroutines : ToSet(jobs'[h]) \cap running' = {} /\ IsInjective(jobs'[h])
          /\ \A h, k \in Goroutines : h # k => ToSet(jobs'[h]) \cap ToSet(jobs'[k]) = {}
      BY <1>1 DEF Apart
    <2> QED BY <2>3, <2>4, <2>5 DEF Apart
  <1> QED BY <1>9, <1>10, <1>11, <1>12 DEF n, o, p

\* The batches that a consumer makes of what it merged, and where they go.
MadeSet(c) == {BatchOf(c, Split(c), i) : i \in 1..Pieces(c)}

\* The flushed ones are all but the one that is kept, none twice.
LEMMA FlushedFacts ==
  ASSUME CInv, OfRequests, NEW c \in Consumers, pc[c] = "consume", Split(c).pieces # <<>>
  PROVE  LET k == BatchOf(c, Split(c), Pieces(c))
         IN  /\ IsInjective(Flushed(c)) /\ k \in MadeSet(c)
             /\ Kept(c) => ToSet(Flushed(c)) = MadeSet(c) \ {k}
             /\ ~Kept(c) => ToSet(Flushed(c)) = MadeSet(c)
  <1> DEFINE B(i) == BatchOf(c, Split(c), i)
             n == Pieces(c)
             m == IF Kept(c) THEN n - 1 ELSE n
  <1>1. n \in Nat /\ n >= 1
    BY ConsumeTypes
  <1>2. \A i, j \in 1..n : i # j => B(i) # B(j)
    BY MadeBatches
  <1>3. Flushed(c) = [i \in 1..m |-> B(i)] /\ MadeSet(c) = {B(i) : i \in 1..n}
    BY DEF Flushed, MadeSet
  <1> HIDE DEF B, n, m
  <1>4. m \in Nat /\ m <= n /\ (Kept(c) => m = n - 1) /\ (~Kept(c) => m = n)
    BY <1>1 DEF m
  <1>5. IsInjective(Flushed(c))
    BY <1>1, <1>2, <1>3, <1>4 DEF IsInjective
  <1>6. ToSet(Flushed(c)) = {B(i) : i \in 1..m}
    BY <1>3 DEF ToSet
  <1>7. n \in 1..n /\ 1..m \subseteq 1..n
    BY <1>1, <1>4
  <1>8. B(n) \in MadeSet(c)
    BY <1>3, <1>7
  <1>9. ASSUME Kept(c) PROVE {B(i) : i \in 1..m} = MadeSet(c) \ {B(n)}
    <2>1. \A i : i \in 1..n => i \in 1..m \/ i = n
      BY <1>1, <1>4, <1>9
    <2>2. n \notin 1..m
      BY <1>1, <1>4, <1>9
    <2>3. \A i \in 1..m : B(i) # B(n)
      BY <1>2, <1>7, <2>2
    <2> QED BY <1>3, <1>7, <2>1, <2>3
  <1>10. ~Kept(c) => {B(i) : i \in 1..m} = MadeSet(c)
    BY <1>3, <1>4
  <1> QED BY <1>5, <1>6, <1>8, <1>9, <1>10 DEF B, n

\* ConsumeSplit replaces the current batch, if any, by new ones.
LEMMA SplitMoves ==
  ASSUME DInv, NEW c \in Consumers, ConsumeSplit(c)
  PROVE  /\ Pending' = (Pending \ {cur[part[c]]}) \cup MadeSet(c)
         /\ MadeSet(c) \cap Pending = {}
         /\ OfRequests' /\ Apart'
  <1> USE DEF DInv
  <1> DEFINE p == part[c]
             r == req[c].id
             o == cur[p]
             M == MadeSet(c)
             F == ToSet(Flushed(c))
             k == BatchOf(c, Split(c), Pieces(c))
  <1>1. /\ pc[c] = "consume" /\ Split(c).pieces # <<>> /\ UNCHANGED <<running, taken>>
        /\ req' = [req EXCEPT ![c] = None]
    BY SplitStep DEF poolVars
  <1>2. /\ p \in Parts /\ r \in Requests /\ c \in Goroutines
        /\ o # None => o \in Batches
        /\ \A i \in 1..Pieces(c) : BatchOf(c, Split(c), i) \in Batches /\ BatchOf(c, Split(c), i).p = p
    BY <1>1, ConsumeTypes
  <1>3. /\ jobs[c] = <<>>
        /\ \A q \in Parts : cur'[q] = IF q # p THEN cur[q] ELSE IF Kept(c) THEN k ELSE None
        /\ \A h \in Goroutines : jobs'[h] = IF h = c THEN Flushed(c) ELSE jobs[h]
    BY SplitControl
  <1>4. /\ IsInjective(Flushed(c)) /\ k \in M
        /\ Kept(c) => F = M \ {k}
        /\ ~Kept(c) => F = M
    BY <1>1, FlushedFacts
  <1>5. \A b \in M : b \in Batches /\ b.p = p /\ b \notin Pending
    <2>1. \A i \in 1..Pieces(c) : BatchOf(c, Split(c), i) \notin Pending
      BY <1>1, MadeBatches
    <2> QED BY <1>2, <2>1 DEF MadeSet
  <1>6. \A q \in Requests : Consumed(q)' <=> Consumed(q) \/ q = r
    BY <1>1, ConsumedMerge
  <1>7. \A b \in M : /\ \A q \in b.dones : q = r \/ (o # None /\ q \in o.dones)
                     /\ IsInjective(b.items) /\ ToSet(b.items) \subseteq ToSet(Merged(c))
    <2>1. \A i \in 1..Pieces(c) :
            /\ BatchOf(c, Split(c), i).dones = IF i = 1 /\ cur[part[c]] # None
                                    THEN cur[part[c]].dones \cup {req[c].id} ELSE {req[c].id}
            /\ IsInjective(BatchOf(c, Split(c), i).items)
            /\ ToSet(BatchOf(c, Split(c), i).items) \subseteq ToSet(Merged(c))
      BY <1>1, MadeBatches
    <2> QED BY <2>1 DEF MadeSet
  <1>8. \A x \in ToSet(Merged(c)) : x[1] = r \/ (x[1] \in Requests /\ Consumed(x[1]))
    <2>1. /\ ToSet(Merged(c)) = ToSet(Front0(c)) \cup ToSet(taken[r])
          /\ \A x \in ToSet(Front0(c)) : x[1] \in Requests /\ Consumed(x[1])
          /\ \A x \in ToSet(taken[r]) : x[1] = r
      BY <1>1, MergedFacts
    <2> QED BY <2>1
  <1>9. k \in Batches /\ k # None
    BY <1>4, <1>5, NoneAssumption
  <1>10. ToSet(jobs[c]) = {}
    BY <1>3 DEF ToSet
  <1>11. o # None => o \in Pending /\ o.p = p
    BY <1>2, PendingPlaces DEF Waiting
  <1> HIDE DEF p, r, o, M, F, k
  <1>12. \A h \in Goroutines : ToSet(jobs'[h]) = IF h = c THEN F ELSE ToSet(jobs[h])
    BY <1>3 DEF F
  <1>13. Pending' = (Pending \ {o}) \cup M
    <2>1. ASSUME NEW x, x \in Pending, x # o PROVE x \in Pending'
      <3>1. CASE \E q \in Parts : cur[q] # None /\ x = cur[q]
        BY <1>3, <2>1, <3>1, PendingPlacesNext DEF o
      <3>2. CASE \E h \in Goroutines : x \in ToSet(jobs[h])
        BY <1>10, <1>12, <3>2, PendingPlacesNext
      <3>3. CASE x \in running
        BY <1>1, <3>3, PendingPlacesNext
      <3> QED BY <2>1, <3>1, <3>2, <3>3, PendingPlaces
    <2>2. ASSUME NEW x \in M PROVE x \in Pending'
      <3>1. CASE x \in F
        BY <1>2, <1>12, <3>1, PendingPlacesNext
      <3>2. CASE x \notin F
        <4>1. Kept(c) /\ x = k
          BY <1>4, <2>2, <3>2
        <4>2. cur'[p] = x /\ cur'[p] # None
          BY <1>2, <1>3, <1>9, <4>1
        <4> QED BY <1>2, <4>2, PendingPlacesNext
      <3> QED BY <3>1, <3>2
    <2>3. ASSUME NEW x, x \in Pending' PROVE x \in M \/ (x \in Pending /\ x # o)
      <3>1. ASSUME NEW q \in Parts, cur'[q] # None, x = cur'[q]
            PROVE  x \in M \/ (x \in Pending /\ x # o)
        <4>1. CASE q = p
          BY <1>3, <1>4, <3>1, <4>1
        <4>2. CASE q # p
          <5>1. x = cur[q] /\ cur[q] # None
            BY <1>3, <3>1, <4>2
          <5>2. x.p = q
            BY <5>1 DEF Waiting
          <5>3. x # o
            BY <1>11, <4>2, <5>1, <5>2
          <5> QED BY <5>1, <5>3, PendingPlaces
        <4> QED BY <4>1, <4>2
      <3>2. ASSUME NEW h \in Goroutines, x \in ToSet(jobs'[h])
            PROVE  x \in M \/ (x \in Pending /\ x # o)
        <4>1. CASE h = c
          BY <1>4, <1>12, <3>2, <4>1
        <4>2. CASE h # c
          <5>1. x \in ToSet(jobs[h])
            BY <1>12, <3>2, <4>2
          <5>2. x \in Pending
            BY <5>1, PendingPlaces
          <5>3. x # None
            BY <5>2, PendingPlaces, NoneAssumption
          <5>4. x # o
            BY <1>2, <5>1, <5>3 DEF Apart, o
          <5> QED BY <5>2, <5>4
        <4> QED BY <4>1, <4>2
      <3>3. ASSUME x \in running' PROVE x \in M \/ (x \in Pending /\ x # o)
        <4>1. x \in running
          BY <1>1, <3>3
        <4>2. x \in Pending
          BY <4>1, PendingPlaces
        <4>3. x # None
          BY <4>2, PendingPlaces, NoneAssumption
        <4>4. x # o
          BY <1>2, <4>1, <4>3 DEF Apart, o
        <4> QED BY <4>2, <4>4
      <3> QED BY <2>3, <3>1, <3>2, <3>3, PendingPlacesNext
    <2> QED BY <2>1, <2>2, <2>3
  <1>14. M \cap Pending = {}
    BY <1>5
  <1>15. OfRequests'
    <2>1. \A b \in Batches : /\ \A q \in b.dones : q \in Requests
                             /\ \A x \in ToSet(b.items) : x[1] \in Requests
      BY Fields DEF RequestItems, ToSet
    <2>2. ASSUME NEW b \in Pending
          PROVE  /\ \A q \in b.dones : Consumed(q)'
                 /\ IsInjective(b.items) /\ \A x \in ToSet(b.items) : Consumed(x[1])'
      <3>1. b \in Batches
        BY PendingPlaces
      <3> QED BY <1>6, <2>1, <3>1 DEF OfRequests
    <2>3. \A q \in Requests : Consumed(q) \/ q = r => Consumed(q)'
      BY <1>6
    <2>4. ASSUME NEW b \in M
          PROVE  /\ \A q \in b.dones : Consumed(q)'
                 /\ IsInjective(b.items) /\ \A x \in ToSet(b.items) : Consumed(x[1])'
      <3>1. \A q \in b.dones : Consumed(q)'
        BY <1>2, <1>7, <1>11, <2>2, <2>3
      <3>2. \A x \in ToSet(b.items) : Consumed(x[1])'
        BY <1>2, <1>7, <1>8, <2>3
      <3> QED BY <1>7, <3>1, <3>2
    <2>5. \A b \in Pending' : /\ \A q \in b.dones : Consumed(q)'
                              /\ IsInjective(b.items) /\ \A x \in ToSet(b.items) : Consumed(x[1])'
      BY <1>13, <2>2, <2>4
    <2>6. \A q \in Requests : taken'[q] # None =>
            IsInjective(taken'[q]) /\ \A x \in ToSet(taken'[q]) : x[1] = q
      BY <1>1 DEF OfRequests
    <2> QED BY <2>5, <2>6 DEF OfRequests
  <1>16. Apart'
    <2>1. \A h \in Goroutines : ToSet(jobs[h]) \cap M = {}
      BY <1>5, PendingPlaces
    <2>2. running \cap M = {}
      BY <1>5, PendingPlaces
    <2>3. F \subseteq M /\ (Kept(c) => k \notin F)
      BY <1>4
    <2>4. ASSUME NEW q \in Parts, NEW h \in Goroutines, cur'[q] # None
          PROVE  cur'[q] \notin ToSet(jobs'[h])
      <3>1. CASE q = p
        <4>1. Kept(c) /\ cur'[q] = k
          BY <1>3, <2>4, <3>1
        <4> QED BY <1>4, <1>12, <2>1, <2>3, <4>1
      <3>2. CASE q # p
        <4>1. cur'[q] = cur[q] /\ cur[q] # None
          BY <1>3, <2>4, <3>2
        <4>2. cur[q] \notin M
          BY <1>5, <4>1, PendingPlaces
        <4> QED BY <1>12, <2>3, <4>1, <4>2 DEF Apart
      <3> QED BY <3>1, <3>2
    <2>5. ASSUME NEW q \in Parts, cur'[q] # None PROVE cur'[q] \notin running'
      <3>1. CASE q = p
        BY <1>1, <1>3, <1>4, <2>2, <2>5, <3>1
      <3>2. CASE q # p
        BY <1>1, <1>3, <2>5, <3>2 DEF Apart
      <3> QED BY <3>1, <3>2
    <2>6. \A h \in Goroutines : ToSet(jobs'[h]) \cap running' = {}
      BY <1>1, <1>12, <2>2, <2>3 DEF Apart
    <2>7. \A h \in Goroutines : IsInjective(jobs'[h])
      BY <1>3, <1>4 DEF Apart
    <2>8. \A h, g \in Goroutines : h # g => ToSet(jobs'[h]) \cap ToSet(jobs'[g]) = {}
      BY <1>12, <2>1, <2>3 DEF Apart
    <2> QED BY <2>4, <2>5, <2>6, <2>7, <2>8 DEF Apart
  <1> QED BY <1>13, <1>14, <1>15, <1>16 DEF o, p, M

\* Initially there is no batch.
LEMMA InitBatches ==
  ASSUME Init
  PROVE  /\ Waiting /\ OfRequests /\ Apart /\ Pending = {}
         /\ \A r \in Requests : ~Consumed(r)
  <1>1. \A p \in Parts : cur[p] = None
    BY DEF Init
  <1>2. \A g \in Goroutines : jobs[g] = <<>>
    BY DEF Init
  <1>3. running = {} /\ \A r \in Requests : taken[r] = None
    BY DEF Init
  <1>4. ToSet(<<>>) = {} /\ IsInjective(<<>>)
    BY DEF ToSet, IsInjective
  <1>5. Pending = {}
    BY <1>1, <1>2, <1>3, <1>4, PendingPlaces
  <1>6. Waiting
    BY <1>1 DEF Waiting
  <1>7. OfRequests
    BY <1>3, <1>5 DEF OfRequests
  <1>8. Apart
    BY <1>1, <1>2, <1>3, <1>4 DEF Apart
  <1> QED BY <1>3, <1>5, <1>6, <1>7, <1>8 DEF Consumed

\* Every step.
LEMMA NextBatches ==
  ASSUME DInv, [Next]_vars
  PROVE  DInv'
  <1>1. CInv' /\ Waiting'
    BY NextControl, NextWaiting DEF DInv
  <1>2. OfRequests' /\ Apart'
    BY <1>1, StepKinds, DInvCalm, FlushCurrentMoves, FlushExecuteMoves, ExportedMoves,
       RefusedMoves, SplitMoves DEF DInv
  <1> QED BY <1>1, <1>2 DEF DInv

-----------------------------------------------------------------------------
(* Wait groups and workers *)

\* A goroutine flushes batches of its own partition.
Whose == \A g \in Goroutines : \A b \in ToSet(jobs[g]) : b.p = PartOf(g)

\* Who counts in qb.stopWG: those who wait for a worker to flush a batch, the
\* batches being exported and the timer.
Executing(p) == {g \in Goroutines : pc[g] = "execute" /\ PartOf(g) = p}
Exporting(p) == {b \in running : b.p = p}
Ticks(p) == IF Runs(p) THEN 1 ELSE 0

\* And it counts each of them once.
WaitGroups ==
  /\ wg \in [Parts -> Int]
  /\ \A p \in Parts :
       /\ IsFiniteSet(Executing(p)) /\ IsFiniteSet(Exporting(p))
       /\ wg[p] = Cardinality(Executing(p)) + Cardinality(Exporting(p)) + Ticks(p)

\* A token of the pool is in the channel, or with an export or an eviction.
Pool ==
  /\ IsFiniteSet(running) /\ workers \in Nat
  /\ workers + Cardinality(running) + Cardinality(Evicting) = Workers

\* A goroutine that does not get a partition keeps the one it has.
LEMMA KeepsPart ==
  ASSUME CInv, \A c \in Consumers : part'[c] # part[c] => pc[c] = "get",
         NEW g \in Goroutines, pc[g] # "get"
  PROVE  PartOf(g)' = PartOf(g)
  BY DEF PartOf

\* Batches that stay where they are, or move between places of one partition.
LEMMA WhoseCalm ==
  ASSUME CInv, Whose, Calm
  PROVE  Whose'
  <1>1. ASSUME NEW g \in Goroutines, NEW b \in ToSet(jobs'[g]) PROVE b.p = PartOf(g)'
    <2>1. b \in ToSet(jobs[g]) /\ b.p = PartOf(g)
      BY <1>1 DEF Calm, Whose
    <2>2. jobs[g] # <<>>
      BY <2>1 DEF ToSet
    <2>3. pc[g] # "get"
      BY <2>2 DEF CInv, Busy
    <2> QED BY <2>1, <2>3, KeepsPart DEF Calm
  <1> QED BY <1>1 DEF Whose

\* The steps that move batches.
LEMMA WhoseMoves ==
  ASSUME DInv, Whose,
         \/ \E c \in Consumers : ConsumeRefused(c) \/ ConsumeSplit(c)
         \/ \E g \in Goroutines : FlushCurrent(g) \/ FlushExecute(g)
         \/ \E b \in running, ok \in BOOLEAN : Exported(b, ok)
  PROVE  Whose'
  <1> USE DEF DInv
  <1>1. ASSUME part' = part,
               \A g \in Goroutines : \A b \in ToSet(jobs'[g]) : b \in ToSet(jobs[g]) \/ b.p = PartOf(g)
        PROVE  Whose'
    BY <1>1 DEF Whose, PartOf
  <1>2. ASSUME NEW c \in Consumers, ConsumeRefused(c) PROVE Whose'
    <2>1. UNCHANGED <<part, jobs>>
      BY <1>2 DEF ConsumeRefused
    <2> QED BY <1>1, <2>1
  <1>3. ASSUME NEW c \in Consumers, ConsumeSplit(c) PROVE Whose'
    <2>1. part' = part /\ pc[c] = "consume" /\ Split(c).pieces # <<>>
      BY <1>3, SplitStep
    <2>2. \A h \in Goroutines : jobs'[h] = IF h = c THEN Flushed(c) ELSE jobs[h]
      BY <1>3, SplitControl
    <2>3. ToSet(Flushed(c)) \subseteq MadeSet(c)
      BY <2>1, FlushedFacts
    <2>4. \A b \in MadeSet(c) : b.p = part[c]
      BY <2>1, ConsumeTypes DEF MadeSet
    <2> QED BY <1>1, <2>1, <2>2, <2>3, <2>4 DEF PartOf
  <1>4. ASSUME NEW g \in Goroutines, FlushCurrent(g) PROVE Whose'
    <2>1. part' = part /\ cur[PartOf(g)] # None
      BY <1>4 DEF FlushCurrent, consVars
    <2>2. \A h \in Goroutines : jobs'[h] = IF h = g THEN <<cur[PartOf(g)]>> ELSE jobs[h]
      BY <1>4, FlushCurrentControl
    <2>3. cur[PartOf(g)].p = PartOf(g)
      BY <2>1, OwnPart DEF Waiting
    <2>4. \A b \in ToSet(<<cur[PartOf(g)]>>) : b.p = PartOf(g)
      BY <2>3 DEF ToSet
    <2> QED BY <1>1, <2>1, <2>2, <2>4
  <1>5. ASSUME NEW g \in Goroutines, FlushExecute(g) PROVE Whose'
    <2>1. part' = part
      BY <1>5 DEF FlushExecute
    <2>2. \A h \in Goroutines : ToSet(jobs'[h]) \subseteq ToSet(jobs[h])
      BY <1>5, FlushExecuteMoves
    <2> QED BY <1>1, <2>1, <2>2
  <1>6. ASSUME NEW b \in running, NEW ok \in BOOLEAN, Exported(b, ok) PROVE Whose'
    <2>1. UNCHANGED <<part, jobs>>
      BY <1>6 DEF Exported, consVars
    <2> QED BY <1>1, <2>1
  <1> QED BY <1>2, <1>3, <1>4, <1>5, <1>6

\* When nobody comes to execute or leaves it, the same goroutines are there.
LEMMA StillExecuting ==
  ASSUME CInv, Still, \A c \in Consumers : part'[c] # part[c] => pc[c] = "get"
  PROVE  \A p \in Parts : Executing(p)' = Executing(p)
  <1>1. \A g \in Goroutines : pc'[g] = "execute" <=> pc[g] = "execute"
    BY DEF Still
  <1>2. \A g \in Goroutines : pc[g] = "execute" => PartOf(g)' = PartOf(g)
    BY KeepsPart
  <1> QED BY <1>1, <1>2 DEF Executing

\* Steps that change no wait group.
LEMMA SteadyGroups ==
  ASSUME CInv, WaitGroups, wg' = wg, running' = running, Still,
         \A c \in Consumers : part'[c] # part[c] => pc[c] = "get",
         \A p \in Parts : Runs(p)' <=> Runs(p)
  PROVE  WaitGroups'
  <1>1. \A p \in Parts : Executing(p)' = Executing(p) /\ Exporting(p)' = Exporting(p)
    BY StillExecuting DEF Exporting
  <1>2. \A p \in Parts : Ticks(p)' = Ticks(p)
    BY DEF Ticks
  <1> QED BY <1>1, <1>2 DEF WaitGroups

\* Calm steps count timers and goroutines that begin to wait for a worker.
LEMMA GroupsCalm ==
  ASSUME CInv, WaitGroups, Calm, Ticking
  PROVE  WaitGroups'
  <1>1. /\ running' = running
        /\ \A c \in Consumers : part'[c] # part[c] => pc[c] = "get"
    BY DEF Calm
  <1>2. \A p \in Parts : Exporting(p)' = Exporting(p)
    BY <1>1 DEF Exporting
  <1>3. CASE Steady
    BY <1>1, <1>3, SteadyGroups DEF Steady
  <1>4. ASSUME NEW p \in Parts, Begins(p) \/ Ends(p) PROVE WaitGroups'
    <2>1. Still /\ wg' = [wg EXCEPT ![p] = IF Runs(p) THEN wg[p] - 1 ELSE wg[p] + 1]
      BY <1>4 DEF Begins, Ends
    <2>2. \A q \in Parts : Executing(q)' = Executing(q)
      BY <1>1, <2>1, StillExecuting
    <2>3. \A q \in Parts : Ticks(q)' = IF q = p THEN 1 - Ticks(p) ELSE Ticks(q)
      BY <1>4 DEF Begins, Ends, Ticks
    <2>4. /\ wg' \in [Parts -> Int]
          /\ \A q \in Parts : wg'[q] = IF q # p THEN wg[q]
                                       ELSE IF Runs(p) THEN wg[p] - 1 ELSE wg[p] + 1
      BY <2>1 DEF WaitGroups
    <2>5. \A q \in Parts : Cardinality(Executing(q)) \in Nat /\ Cardinality(Exporting(q)) \in Nat
      BY FS_CardinalityType DEF WaitGroups
    <2>6. ASSUME NEW q \in Parts
          PROVE  wg'[q] = Cardinality(Executing(q)) + Cardinality(Exporting(q)) + Ticks(q)'
      <3>1. wg[q] = Cardinality(Executing(q)) + Cardinality(Exporting(q)) + Ticks(q)
        BY DEF WaitGroups
      <3>2. CASE q # p
        BY <2>3, <2>4, <3>1, <3>2
      <3>3. CASE q = p /\ Runs(p)
        <4>1. Ticks(q) = 1 /\ Ticks(q)' = 0
          BY <2>3, <3>3 DEF Ticks
        <4> QED BY <2>4, <2>5, <3>1, <3>3, <4>1
      <3>4. CASE q = p /\ ~Runs(p)
        <4>1. Ticks(q) = 0 /\ Ticks(q)' = 1
          BY <2>3, <3>4 DEF Ticks
        <4> QED BY <2>4, <2>5, <3>1, <3>4, <4>1
      <3> QED BY <3>2, <3>3, <3>4
    <2> QED BY <1>2, <2>2, <2>4, <2>6 DEF WaitGroups
  <1>5. ASSUME NEW g \in Goroutines, FlushAdd(g), \A p \in Parts : Runs(p)' <=> Runs(p)
        PROVE  WaitGroups'
    <2> DEFINE p == PartOf(g)
    <2>1. /\ pc[g] = "flush" /\ pc' = [pc EXCEPT ![g] = "execute"] /\ part' = part
          /\ wg' = [wg EXCEPT ![p] = wg[p] + 1]
      BY <1>5 DEF FlushAdd, consVars
    <2>2. p \in Parts
      BY OwnPart
    <2>3. pc'[g] = "execute" /\ \A h \in Goroutines : h # g => pc'[h] = pc[h]
      BY <2>1 DEF CInv, Positions
    <2>4. \A h \in Goroutines : PartOf(h)' = PartOf(h)
      BY <2>1 DEF PartOf
    <2>5. \A q \in Parts : Executing(q)' = IF q = p THEN Executing(q) \cup {g} ELSE Executing(q)
      BY <2>3, <2>4 DEF Executing
    <2>6. g \notin Executing(p)
      BY <2>1 DEF Executing
    <2>7. \A q \in Parts : Ticks(q)' = Ticks(q) /\ Ticks(q) \in Nat
      BY <1>5 DEF Ticks
    <2> HIDE DEF p
    <2>8. /\ wg' \in [Parts -> Int]
          /\ \A q \in Parts : wg'[q] = IF q # p THEN wg[q] ELSE wg[p] + 1
      BY <2>1, <2>2 DEF WaitGroups
    <2>9. ASSUME NEW q \in Parts
          PROVE  /\ IsFiniteSet(Executing(q)') /\ IsFiniteSet(Exporting(q)')
                 /\ wg'[q] = Cardinality(Executing(q)') + Cardinality(Exporting(q)') + Ticks(q)'
      <3>1. /\ IsFiniteSet(Executing(q)) /\ IsFiniteSet(Exporting(q))
            /\ wg[q] = Cardinality(Executing(q)) + Cardinality(Exporting(q)) + Ticks(q)
        BY DEF WaitGroups
      <3>2. CASE q # p
        BY <1>2, <2>5, <2>7, <2>8, <3>1, <3>2
      <3>3. CASE q = p
        <4>1. IsFiniteSet(Executing(q) \cup {g}) /\ Cardinality(Executing(q) \cup {g}) = Cardinality(Executing(q)) + 1
          BY <2>6, <3>1, <3>3, FS_AddElement
        <4>2. Executing(q)' = Executing(q) \cup {g} /\ Exporting(q)' = Exporting(q)
          BY <1>2, <2>5, <3>3
        <4>3. Cardinality(Executing(q)) \in Nat /\ Cardinality(Exporting(q)) \in Nat
          BY <3>1, FS_CardinalityType
        <4>4. wg'[q] = wg[q] + 1
          BY <2>8, <3>3
        <4> QED BY <2>7, <3>1, <4>1, <4>2, <4>3, <4>4
      <3> QED BY <3>2, <3>3
    <2> QED BY <2>8, <2>9 DEF WaitGroups
  <1> QED BY <1>3, <1>4, <1>5 DEF Ticking

\* Consumers that merge, and flushCurrentBatchOrRemovePartition, do not count.
LEMMA GroupsConsume ==
  ASSUME CInv, WaitGroups,
         \/ \E c \in Consumers : ConsumeRefused(c) \/ ConsumeSplit(c)
         \/ \E g \in Goroutines : FlushCurrent(g)
  PROVE  WaitGroups'
  <1>1. ASSUME NEW g \in Goroutines, pc[g] \in {"consume", "self", "last", "select"},
               pc'[g] \in {"idle", "self", "flush"},
               \A h \in Goroutines : h # g => pc'[h] = pc[h],
               UNCHANGED <<wg, running, part>>
        PROVE  WaitGroups'
    <2>1. Still
      BY <1>1 DEF Still
    <2>2. \A p \in Parts : Runs(p)' <=> Runs(p)
      BY <1>1, Names, Different DEF Runs
    <2> QED BY <1>1, <2>1, <2>2, SteadyGroups
  <1>2. ASSUME NEW c \in Consumers, ConsumeRefused(c) PROVE WaitGroups'
    <2>1. /\ pc[c] = "consume" /\ UNCHANGED <<wg, running, part>>
          /\ pc' = [pc EXCEPT ![c] = IF active[part[c]] THEN "idle" ELSE "self"]
      BY <1>2, RefusedStep DEF poolVars
    <2>2. c \in Goroutines /\ pc'[c] \in {"idle", "self"} /\ \A h \in Goroutines : h # c => pc'[h] = pc[h]
      BY <2>1, Different DEF CInv, Positions
    <2> QED BY <1>1, <2>1, <2>2
  <1>3. ASSUME NEW c \in Consumers, ConsumeSplit(c) PROVE WaitGroups'
    <2>1. /\ pc[c] = "consume" /\ UNCHANGED <<wg, running, part>>
          /\ pc' = [pc EXCEPT ![c] = IF Flushed(c) # <<>> THEN "flush"
                                     ELSE IF active[part[c]] THEN "idle" ELSE "self"]
      BY <1>3, SplitStep DEF poolVars
    <2>2. c \in Goroutines /\ pc'[c] \in {"idle", "self", "flush"}
          /\ \A h \in Goroutines : h # c => pc'[h] = pc[h]
      BY <2>1, Different DEF CInv, Positions
    <2> QED BY <1>1, <2>1, <2>2
  <1>4. ASSUME NEW g \in Goroutines, FlushCurrent(g) PROVE WaitGroups'
    <2>1. UNCHANGED <<wg, running, part>>
      BY <1>4 DEF FlushCurrent, poolVars, consVars
    <2>2. /\ pc[g] \in {"self", "last", "select"} /\ pc'[g] = "flush"
          /\ \A h \in Goroutines : h # g => pc'[h] = pc[h]
      BY <1>4, FlushCurrentControl
    <2> QED BY <1>1, <2>1, <2>2
  <1> QED BY <1>2, <1>3, <1>4

\* The batch counts when the goroutine that waited for the worker does not.
LEMMA GroupsExecute ==
  ASSUME DInv, Whose, WaitGroups, NEW g \in Goroutines, FlushExecute(g)
  PROVE  WaitGroups'
  <1> USE DEF DInv
  <1> DEFINE p == PartOf(g)
  <1>1. pc[g] = "execute" /\ UNCHANGED <<wg, part>>
    BY DEF FlushExecute
  <1>2. /\ pc'[g] \in {"flush", Return(g)}
        /\ \A h \in Goroutines : h # g => pc'[h] = pc[h]
    BY FlushExecuteControl
  <1>3. PICK b \in ToSet(jobs[g]) : b \notin running /\ running' = running \cup {b}
    BY FlushExecuteMoves
  <1>4. p \in Parts /\ b.p = p
    BY OwnPart DEF Whose
  <1>5. pc'[g] \in {"flush", "self", "idle", "select", "wait"}
    BY <1>2 DEF Return
  <1>6. \A h \in Goroutines : PartOf(h)' = PartOf(h)
    BY <1>1 DEF PartOf
  <1>7. \A q \in Parts : Ticks(q)' = Ticks(q) /\ Ticks(q) \in Nat
    <2>1. \A q \in Parts : Runs(q)' <=> Runs(q)
      BY <1>1, <1>2, <1>5, Names, Different DEF Runs
    <2> QED BY <2>1 DEF Ticks
  <1> HIDE DEF p
  <1>8. \A q \in Parts : Executing(q)' = IF q = p THEN Executing(q) \ {g} ELSE Executing(q)
    BY <1>1, <1>2, <1>5, <1>6 DEF Executing, p
  <1>9. \A q \in Parts : Exporting(q)' = IF q = p THEN Exporting(q) \cup {b} ELSE Exporting(q)
    BY <1>3, <1>4 DEF Exporting
  <1>10. g \in Executing(p) /\ b \notin Exporting(p)
    BY <1>1, <1>3 DEF Executing, Exporting, p
  <1>11. ASSUME NEW q \in Parts
         PROVE  /\ IsFiniteSet(Executing(q)') /\ IsFiniteSet(Exporting(q)')
                /\ wg'[q] = Cardinality(Executing(q)') + Cardinality(Exporting(q)') + Ticks(q)'
    <2>1. /\ IsFiniteSet(Executing(q)) /\ IsFiniteSet(Exporting(q))
          /\ wg[q] = Cardinality(Executing(q)) + Cardinality(Exporting(q)) + Ticks(q)
          /\ wg'[q] = wg[q]
      BY <1>1 DEF WaitGroups
    <2>2. CASE q # p
      BY <1>7, <1>8, <1>9, <2>1, <2>2
    <2>3. CASE q = p
      <3>1. /\ IsFiniteSet(Executing(q) \ {g})
            /\ Cardinality(Executing(q) \ {g}) = Cardinality(Executing(q)) - 1
        BY <1>10, <2>1, <2>3, FS_RemoveElement
      <3>2. /\ IsFiniteSet(Exporting(q) \cup {b})
            /\ Cardinality(Exporting(q) \cup {b}) = Cardinality(Exporting(q)) + 1
        BY <1>10, <2>1, <2>3, FS_AddElement
      <3>3. Executing(q)' = Executing(q) \ {g} /\ Exporting(q)' = Exporting(q) \cup {b}
        BY <1>8, <1>9, <2>3
      <3>4. Cardinality(Executing(q)) \in Nat /\ Cardinality(Exporting(q)) \in Nat
        BY <2>1, FS_CardinalityType
      <3> QED BY <1>7, <2>1, <3>1, <3>2, <3>3, <3>4
    <2> QED BY <2>2, <2>3
  <1> QED BY <1>1, <1>11 DEF WaitGroups

\* stopWG.Done at the end of an export.
LEMMA GroupsExported ==
  ASSUME CInv, WaitGroups, NEW b \in running, NEW ok \in BOOLEAN, Exported(b, ok)
  PROVE  WaitGroups'
  <1>1. running' = running \ {b} /\ UNCHANGED <<pc, part>> /\ wg' = [wg EXCEPT ![b.p] = wg[b.p] - 1]
    BY DEF Exported, consVars
  <1>2. b.p \in Parts
    BY Fields DEF CInv, Types
  <1>3. \A q \in Parts : Executing(q)' = Executing(q) /\ Ticks(q)' = Ticks(q) /\ Ticks(q) \in Nat
    BY <1>1 DEF Executing, PartOf, Ticks, Runs
  <1>4. \A q \in Parts : Exporting(q)' = IF q = b.p THEN Exporting(q) \ {b} ELSE Exporting(q)
    BY <1>1 DEF Exporting
  <1>5. b \in Exporting(b.p)
    BY DEF Exporting
  <1>6. /\ wg' \in [Parts -> Int]
        /\ \A q \in Parts : wg'[q] = IF q # b.p THEN wg[q] ELSE wg[q] - 1
    BY <1>1, <1>2 DEF WaitGroups
  <1>7. ASSUME NEW q \in Parts
        PROVE  /\ IsFiniteSet(Executing(q)') /\ IsFiniteSet(Exporting(q)')
               /\ wg'[q] = Cardinality(Executing(q)') + Cardinality(Exporting(q)') + Ticks(q)'
    <2>1. /\ IsFiniteSet(Executing(q)) /\ IsFiniteSet(Exporting(q))
          /\ wg[q] = Cardinality(Executing(q)) + Cardinality(Exporting(q)) + Ticks(q)
      BY DEF WaitGroups
    <2>2. CASE q # b.p
      BY <1>3, <1>4, <1>6, <2>1, <2>2
    <2>3. CASE q = b.p
      <3>1. /\ IsFiniteSet(Exporting(q) \ {b})
            /\ Cardinality(Exporting(q) \ {b}) = Cardinality(Exporting(q)) - 1
        BY <1>5, <2>1, <2>3, FS_RemoveElement
      <3>2. Executing(q)' = Executing(q) /\ Exporting(q)' = Exporting(q) \ {b}
        BY <1>3, <1>4, <2>3
      <3>3. Cardinality(Executing(q)) \in Nat /\ Cardinality(Exporting(q)) \in Nat
        BY <2>1, FS_CardinalityType
      <3>4. wg'[q] = wg[q] - 1
        BY <1>6, <2>3
      <3> QED BY <1>3, <2>1, <3>1, <3>2, <3>3, <3>4
    <2> QED BY <2>2, <2>3
  <1> QED BY <1>6, <1>7 DEF WaitGroups

\* The partitions are finitely many.
LEMMA EvictingFinite ==
  IsFiniteSet(Parts) /\ IsFiniteSet(Evicting) /\ Cardinality(Evicting) \in Nat
  <1>1. IsFiniteSet(Parts)
    BY BatcherAssumption, FS_Interval DEF Parts
  <1>2. Evicting \in SUBSET Parts
    BY DEF Evicting
  <1>3. IsFiniteSet(Evicting)
    BY <1>1, <1>2, FS_Subset
  <1> QED BY <1>1, <1>3, FS_CardinalityType

\* Steps that leave the pool to exports and evictions.
LEMMA PoolCalm ==
  ASSUME Pool, running' = running, Pooled
  PROVE  Pool'
  <1>1. IsFiniteSet(Evicting) /\ Cardinality(Evicting) \in Nat
    BY EvictingFinite
  <1>2. Cardinality(running) \in Nat /\ Workers \in Nat
    BY FS_CardinalityType, BatcherAssumption DEF Pool
  <1>3. CASE workers' = workers /\ Evicting' = Evicting
    BY <1>3 DEF Pool
  <1>4. ASSUME NEW p \in Parts \ Evicting, workers > 0, workers' = workers - 1,
               Evicting' = Evicting \cup {p}
        PROVE  Pool'
    <2>1. Cardinality(Evicting \cup {p}) = Cardinality(Evicting) + 1
      BY <1>1, FS_AddElement
    <2> QED BY <1>1, <1>2, <1>4, <2>1 DEF Pool
  <1>5. ASSUME NEW p \in Evicting, workers' = workers + 1, Evicting' = Evicting \ {p}
        PROVE  Pool'
    <2>1. Cardinality(Evicting \ {p}) = Cardinality(Evicting) - 1
      BY <1>1, FS_RemoveElement
    <2> QED BY <1>1, <1>2, <1>5, <2>1 DEF Pool
  <1> QED BY <1>3, <1>4, <1>5 DEF Pooled

\* A worker is taken for a batch, and returned.
LEMMA PoolMoves ==
  ASSUME DInv, Pool,
         \/ \E c \in Consumers : ConsumeRefused(c) \/ ConsumeSplit(c)
         \/ \E g \in Goroutines : FlushCurrent(g) \/ FlushExecute(g)
         \/ \E b \in running, ok \in BOOLEAN : Exported(b, ok)
  PROVE  Pool'
  <1> USE DEF DInv
  <1>0. /\ IsFiniteSet(Evicting) /\ Cardinality(Evicting) \in Nat
        /\ IsFiniteSet(running) /\ Cardinality(running) \in Nat /\ workers \in Nat
        /\ workers + Cardinality(running) + Cardinality(Evicting) = Workers
    BY EvictingFinite, FS_CardinalityType DEF Pool
  <1>1. ASSUME NEW g \in Goroutines, pc[g] \notin {"none", "exit"}, pc'[g] \notin {"none", "exit"},
               \A h \in Goroutines : h # g => pc'[h] = pc[h]
        PROVE  Evicting' = Evicting
    BY <1>1, Names, Different DEF Evicting
  <1>2. ASSUME NEW c \in Consumers, ConsumeRefused(c) PROVE Pool'
    <2>1. /\ pc[c] = "consume" /\ UNCHANGED <<workers, running>>
          /\ pc' = [pc EXCEPT ![c] = IF active[part[c]] THEN "idle" ELSE "self"]
      BY <1>2, RefusedStep DEF poolVars
    <2>2. c \in Goroutines /\ pc'[c] \in {"idle", "self"} /\ \A h \in Goroutines : h # c => pc'[h] = pc[h]
      BY <2>1, Different DEF CInv, Positions
    <2>3. Evicting' = Evicting
      BY <1>1, <2>1, <2>2
    <2> QED BY <2>1, <2>3 DEF Pool
  <1>3. ASSUME NEW c \in Consumers, ConsumeSplit(c) PROVE Pool'
    <2>1. /\ pc[c] = "consume" /\ UNCHANGED <<workers, running>>
          /\ pc' = [pc EXCEPT ![c] = IF Flushed(c) # <<>> THEN "flush"
                                     ELSE IF active[part[c]] THEN "idle" ELSE "self"]
      BY <1>3, SplitStep DEF poolVars
    <2>2. c \in Goroutines /\ pc'[c] \in {"idle", "self", "flush"}
          /\ \A h \in Goroutines : h # c => pc'[h] = pc[h]
      BY <2>1, Different DEF CInv, Positions
    <2>3. Evicting' = Evicting
      BY <1>1, <2>1, <2>2
    <2> QED BY <2>1, <2>3 DEF Pool
  <1>4. ASSUME NEW g \in Goroutines, FlushCurrent(g) PROVE Pool'
    <2>1. UNCHANGED <<workers, running>>
      BY <1>4 DEF FlushCurrent, poolVars
    <2>2. /\ pc[g] \in {"self", "last", "select"} /\ pc'[g] = "flush"
          /\ \A h \in Goroutines : h # g => pc'[h] = pc[h]
      BY <1>4, FlushCurrentControl
    <2>3. Evicting' = Evicting
      BY <1>1, <2>2
    <2> QED BY <2>1, <2>3 DEF Pool
  <1>5. ASSUME NEW g \in Goroutines, FlushExecute(g) PROVE Pool'
    <2>1. pc[g] = "execute" /\ workers > 0 /\ workers' = workers - 1
      BY <1>5 DEF FlushExecute
    <2>2. pc'[g] \in {"flush", Return(g)} /\ \A h \in Goroutines : h # g => pc'[h] = pc[h]
      BY <1>5, FlushExecuteControl
    <2>3. pc'[g] \in {"flush", "self", "idle", "select", "wait"}
      BY <2>2 DEF Return
    <2>4. Evicting' = Evicting
      BY <1>1, <2>1, <2>2, <2>3
    <2>5. PICK b \in ToSet(jobs[g]) : b \notin running /\ running' = running \cup {b}
      BY <1>5, FlushExecuteMoves
    <2>6. /\ IsFiniteSet(running \cup {b})
          /\ Cardinality(running \cup {b}) = Cardinality(running) + 1
      BY <1>0, <2>5, FS_AddElement
    <2> QED BY <1>0, <2>1, <2>4, <2>5, <2>6 DEF Pool
  <1>6. ASSUME NEW b \in running, NEW ok \in BOOLEAN, Exported(b, ok) PROVE Pool'
    <2>1. UNCHANGED pc /\ running' = running \ {b} /\ workers' = workers + 1
      BY <1>6 DEF Exported
    <2>2. Evicting' = Evicting
      BY <2>1 DEF Evicting
    <2>3. /\ IsFiniteSet(running \ {b})
          /\ Cardinality(running \ {b}) = Cardinality(running) - 1
      BY <1>0, <1>6, FS_RemoveElement
    <2> QED BY <1>0, <2>1, <2>2, <2>3 DEF Pool
  <1> QED BY <1>2, <1>3, <1>4, <1>5, <1>6

\* Everything counts from the start.
LEMMA InitCounts ==
  ASSUME Init
  PROVE  Whose /\ WaitGroups /\ Pool
  <1>1. CInv
    BY InitControl
  <1>2. \A g \in Goroutines : jobs[g] = <<>>
    BY DEF Init
  <1>3. Whose
    BY <1>2 DEF Whose, ToSet
  <1>4. \A g \in Goroutines : pc[g] = IF g \in Consumers THEN "idle"
                                      ELSE IF g = Timer(1) /\ made = 1 THEN "select" ELSE "none"
    BY DEF Init
  <1>5. \A p \in Parts : Executing(p) = {} /\ Exporting(p) = {}
    BY <1>4 DEF Init, Executing, Exporting
  <1>6. Evicting = {}
    <2>1. ASSUME NEW p \in Parts PROVE pc[Evictor(p)] = "none"
      <3>1. Evictor(p) \in Goroutines /\ Evictor(p) \notin Consumers
        BY Names, Different
      <3>2. Evictor(p) # Timer(1)
        BY DEF Evictor, Timer
      <3> QED BY <1>4, <3>1, <3>2
    <2> QED BY <2>1 DEF Evicting
  <1>7. made = 0 \/ made = 1
    BY DEF Init
  <1>8. wg = [p \in Parts |-> IF p <= made THEN 1 ELSE 0]
    BY DEF Init
  <1>9. ASSUME NEW p \in Parts PROVE wg[p] = Ticks(p)
    <2>1. p \in Nat /\ p >= 1
      BY BatcherAssumption DEF Parts
    <2>2. p <= made <=> p = 1 /\ made = 1
      BY <1>7, <2>1
    <2>3. pc[Timer(p)] = IF Timer(p) = Timer(1) /\ made = 1 THEN "select" ELSE "none"
      BY <1>4, Names, Different
    <2>4. Timer(p) = Timer(1) <=> p = 1
      BY DEF Timer
    <2> QED BY <1>8, <2>2, <2>3, <2>4 DEF Ticks, Runs
  <1>10. WaitGroups
    BY <1>5, <1>8, <1>9, FS_EmptySet DEF WaitGroups
  <1>11. Pool
    BY <1>6, FS_EmptySet, BatcherAssumption DEF Init, Pool
  <1> QED BY <1>3, <1>10, <1>11

-----------------------------------------------------------------------------
(* What Shutdown has waited for *)

\* The shutdownInternal that Shutdown calls starts at the start, flushes what
\* is there unless the partition was inactive, and returns when nothing counts
\* in stopWG; a timer that has exited does not come back.
Orderly(p) ==
  /\ pc[Closer(p)] = "none" => pc'[Closer(p)] \in {"none", "begin"}
  /\ pc[Closer(p)] = "begin" => pc'[Closer(p)] \in {"begin", "last"}
  /\ pc[Closer(p)] # "exit" /\ pc'[Closer(p)] = "exit" =>
       /\ pc[Closer(p)] = "wait" /\ wg[p] = 0 /\ running' = running
       /\ pc'[Timer(p)] = pc[Timer(p)]
  /\ pc[Timer(p)] = "exit" => pc'[Timer(p)] = "exit"

\* Steps of other goroutines, and of a closer in flush.
LEMMA OrderlyOthers ==
  ASSUME CInv, NEW p \in Parts,
         pc'[Closer(p)] # pc[Closer(p)] =>
           pc[Closer(p)] \notin {"none", "begin"} /\ pc'[Closer(p)] # "exit",
         pc'[Timer(p)] # pc[Timer(p)] => pc[Timer(p)] # "exit"
  PROVE  Orderly(p)
  BY DEF Orderly

\* One goroutine takes a step that does not end it.
LEMMA OrderlyLone ==
  ASSUME CInv, NEW p \in Parts, NEW g \in Goroutines,
         \A h \in Goroutines : h # g => pc'[h] = pc[h],
         pc[g] \notin {"none", "begin", "exit"}, pc'[g] # "exit" \/ g = Timer(p) \/ g \notin Helpers
                                                             \/ g.kind # "close"
  PROVE  Orderly(p)
  <1>1. Closer(p) \in Goroutines /\ Timer(p) \in Goroutines /\ Closer(p) # Timer(p)
    BY Names, Different
  <1>2. pc'[Closer(p)] # pc[Closer(p)] => g = Closer(p)
    BY <1>1
  <1>3. g = Closer(p) => g \in Helpers /\ g.kind = "close"
    BY Names
  <1>4. pc'[Timer(p)] # pc[Timer(p)] => g = Timer(p)
    BY <1>1
  <1> QED BY <1>1, <1>2, <1>3, <1>4, OrderlyOthers

\* Consumers, and the timers they start.
LEMMA OrderlyConsumers ==
  ASSUME CInv, NEW p \in Parts, NEW c \in Consumers,
         Take(c) \/ GetExisting(c) \/ GetNew(c) \/ ConsumeRefused(c) \/ ConsumeSplit(c)
  PROVE  Orderly(p)
  <1> USE DEF CInv
  <1>0. c \in Goroutines /\ c \notin Helpers
    BY Different
  <1>1. ASSUME pc[c] \notin {"none", "begin", "exit"},
               \A h \in Goroutines : h # c => pc'[h] = pc[h]
        PROVE  Orderly(p)
    BY <1>0, <1>1, OrderlyLone
  <1>2. CASE Take(c) \/ GetExisting(c)
    <2>1. pc[c] \in {"idle", "get"} /\ \A h \in Goroutines : h # c => pc'[h] = pc[h]
      BY <1>2 DEF Take, GetExisting, Positions
    <2> QED BY <1>1, <2>1
  <1>3. CASE GetNew(c)
    <2> DEFINE m == made + 1
    <2>1. pc[c] = "get"
      BY <1>3 DEF GetNew
    <2>2. CASE Len(lru) < LruSize
      <3>1. pc' = [[pc EXCEPT ![c] = "consume"] EXCEPT ![Timer(m)] = "select"]
        BY <1>3, <2>2 DEF GetNew, StartTimer
      <3>2. \A h \in Goroutines : h # c /\ h # Timer(m) => pc'[h] = pc[h]
        BY <3>1 DEF Positions
      <3>3. pc'[Closer(p)] = pc[Closer(p)]
        <4>1. Closer(p) \in Goroutines /\ Closer(p) # c
          BY Names, Different
        <4>2. Closer(p) # Timer(m)
          BY DEF Closer, Timer
        <4> QED BY <3>2, <4>1, <4>2
      <3>4. pc'[Timer(p)] # pc[Timer(p)] => pc[Timer(p)] # "exit"
        <4>1. Timer(p) \in Goroutines /\ Timer(p) # c
          BY Names, Different
        <4>2. Timer(p) = Timer(m) => p = made + 1
          BY DEF Timer
        <4>3. p = made + 1 => p > made
          BY DEF Types
        <4>4. p = made + 1 => pc[Timer(p)] = "none"
          BY <4>3 DEF Partitions, Started
        <4> QED BY <3>2, <4>1, <4>2, <4>4
      <3> QED BY <3>3, <3>4, OrderlyOthers
    <2>3. CASE ~(Len(lru) < LruSize)
      <3>1. pc' = [pc EXCEPT ![c] = "evict"]
        BY <1>3, <2>3 DEF GetNew
      <3>2. \A h \in Goroutines : h # c => pc'[h] = pc[h]
        BY <3>1 DEF Positions
      <3> QED BY <1>1, <2>1, <3>2
    <2> QED BY <2>2, <2>3
  <1>4. CASE ConsumeRefused(c)
    <2>1. pc[c] = "consume" /\ \A h \in Goroutines : h # c => pc'[h] = pc[h]
      BY <1>4, RefusedStep DEF Positions
    <2> QED BY <1>1, <2>1
  <1>5. CASE ConsumeSplit(c)
    <2>1. pc[c] = "consume" /\ \A h \in Goroutines : h # c => pc'[h] = pc[h]
      BY <1>5, SplitControl, SplitStep
    <2> QED BY <1>1, <2>1
  <1> QED BY <1>2, <1>3, <1>4, <1>5

\* Flushes and evictions.
LEMMA OrderlyFlush ==
  ASSUME CInv, NEW p \in Parts, NEW g \in Goroutines, Flush(g)
  PROVE  Orderly(p)
  <1> USE DEF CInv
  <1>1. ASSUME FlushCurrent(g) \/ NothingToFlush(g) \/ FlushAdd(g) \/ FlushExecute(g)
        PROVE  Orderly(p)
    <2>1. pc[g] \in {"self", "last", "select", "flush", "execute"}
      BY <1>1 DEF FlushCurrent, NothingToFlush, FlushAdd, FlushExecute, AtFlush
    <2>2. \A h \in Goroutines : h # g => pc'[h] = pc[h]
      BY <1>1 DEF FlushCurrent, NothingToFlush, FlushAdd, FlushExecute, Positions
    <2>3. pc'[g] \in {"flush", "execute", Return(g)}
      BY <1>1 DEF FlushCurrent, NothingToFlush, FlushAdd, FlushExecute, Positions
    <2>4. pc'[g] # "exit"
      BY <2>3 DEF Return
    <2> QED BY <2>1, <2>2, <2>4, OrderlyLone
  <1>2. ASSUME Evict(g) PROVE Orderly(p)
    <2>1. pc[g] = "evict"
      BY <1>2 DEF Evict
    <2>2. \A h \in Goroutines : pc'[h] # pc[h] =>
            h = Evictor(victim) \/ h = g \/ (g \in Consumers /\ h = Timer(part[g]))
      BY <1>2 DEF Evict, StartTimer, Positions
    <2>3. Closer(p) \in Goroutines /\ Timer(p) \in Goroutines /\ Closer(p) # Evictor(victim)
          /\ Timer(p) # Evictor(victim) /\ \A q : Closer(p) # Timer(q)
      BY Names, Different DEF Closer, Evictor, Timer
    <2>4. Closer(p) # g
      BY <2>1 DEF Positions, StopperAt
    <2>5. pc'[Closer(p)] = pc[Closer(p)]
      BY <2>2, <2>3, <2>4
    <2>6. pc'[Timer(p)] # pc[Timer(p)] => pc[Timer(p)] # "exit"
      <3>1. g \in Consumers => ~Started(part[g])
        BY <2>1 DEF Consuming
      <3> QED BY <2>1, <2>2, <2>3, <3>1 DEF Started
    <2> QED BY <2>5, <2>6, OrderlyOthers
  <1> QED BY <1>1, <1>2 DEF Flush

\* Timers.
LEMMA OrderlyTimer ==
  ASSUME CInv, NEW p \in Parts, NEW q \in Parts, Idle(q) \/ TimerStep(q)
  PROVE  Orderly(p)
  <1>1. Timer(q) \in Goroutines /\ Timer(q).kind = "timer"
    BY Names, Different
  <1>2. pc[Timer(q)] \in {"select", "self", "last", "onEmpty", "lock"}
    BY DEF Idle, AtFlush, TimerStep, CallOnEmpty, RemovePartition, TimerExit
  <1>3. \A h \in Goroutines : h # Timer(q) => pc'[h] = pc[h]
    BY DEF Idle, TimerStep, CallOnEmpty, RemovePartition, TimerExit, CInv, Positions
  <1> QED BY <1>1, <1>2, <1>3, OrderlyLone

\* shutdownInternal.  Only an evicted partition can be inactive already.
LEMMA OrderlyShutdownInternal ==
  ASSUME CInv, NEW p \in Parts, NEW g \in Helpers, ShutdownInternal(g)
  PROVE  Orderly(p)
  <1> USE DEF CInv
  <1>0. g \in Goroutines
    BY Different
  <1>1. /\ pc[g] \in {"begin", "wait"}
        /\ \A h \in Goroutines : h # g => pc'[h] = pc[h]
    BY DEF ShutdownInternal, Deactivate, AlreadyInactive, Stopped, Finish, Positions
  <1>2. Closer(p) \in Goroutines /\ Timer(p) \in Goroutines /\ Closer(p) # Timer(p)
        /\ Closer(p).p = p
    BY Names, Different
  <1>3. g # Timer(p)
    BY <1>1 DEF Positions, TimerAt
  <1>4. pc'[Timer(p)] = pc[Timer(p)]
    BY <1>1, <1>2, <1>3
  <1>5. CASE g # Closer(p)
    <2>1. pc'[Closer(p)] = pc[Closer(p)]
      BY <1>1, <1>2, <1>5
    <2> QED BY <1>4, <2>1, OrderlyOthers
  <1>6. CASE g = Closer(p)
    <2>1. CASE Deactivate(g)
      BY <1>0, <1>4, <1>6, <2>1 DEF Deactivate, Positions, Orderly
    <2>2. CASE AlreadyInactive(g)
      <3>1. pc[Closer(p)] = "begin" /\ ~active[p]
        BY <1>2, <1>6, <2>2 DEF AlreadyInactive
      <3>2. pc[Evictor(p)] \in Stopping
        BY <3>1 DEF Partitions, Stopping
      <3> QED BY <3>1, <3>2 DEF Partitions, Stopping
    <2>3. CASE Stopped(g)
      <3>1. pc[g] = "wait" /\ wg[p] = 0 /\ running' = running
        BY <1>2, <1>6, <2>3 DEF Stopped, Finish
      <3> QED BY <1>4, <1>6, <3>1 DEF Orderly
    <2> QED BY <2>1, <2>2, <2>3 DEF ShutdownInternal
  <1> QED BY <1>5, <1>6

\* Exports and Shutdown.
LEMMA OrderlyShutdown ==
  ASSUME CInv, NEW p \in Parts, Export \/ StopQueue \/ Shutdown \/ UNCHANGED vars
  PROVE  Orderly(p)
  <1> USE DEF CInv
  <1>1. Closer(p) \in Goroutines /\ Timer(p) \in Goroutines
    BY Names, Different
  <1>2. CASE UNCHANGED pc
    BY <1>2, OrderlyOthers
  <1>3. CASE ShutdownPartitions
    <2>1. sd = "stopped" /\ \A g \in Goroutines : pc'[g] = pc[g] \/ (pc'[g] = "begin" /\ \E q : g = Closer(q))
      BY <1>3 DEF ShutdownPartitions
    <2>2. pc[Closer(p)] = "none"
      BY <2>1 DEF Partitions
    <2>3. \A q : Timer(p) # Closer(q)
      BY DEF Timer, Closer
    <2>4. pc'[Timer(p)] = pc[Timer(p)]
      BY <1>1, <2>1, <2>3
    <2>5. pc'[Closer(p)] \in {"none", "begin"}
      BY <1>1, <2>1, <2>2
    <2> QED BY <2>2, <2>4, <2>5 DEF Orderly
  <1>4. CASE Purge
    <2>1. PICK i \in DOMAIN lru : pc' = [pc EXCEPT ![Evictor(lru[i])] = "begin"]
      BY <1>4 DEF Purge
    <2>2. Closer(p) # Evictor(lru[i]) /\ Timer(p) # Evictor(lru[i])
      BY DEF Closer, Evictor, Timer
    <2>3. pc'[Closer(p)] = pc[Closer(p)] /\ pc'[Timer(p)] = pc[Timer(p)]
      BY <1>1, <2>1, <2>2 DEF Positions
    <2> QED BY <2>3, OrderlyOthers
  <1>5. CASE Export \/ StopQueue \/ PartitionsShut \/ Purged \/ UNCHANGED vars
    BY <1>2, <1>5 DEF Export, Exported, StopQueue, PartitionsShut, Purged, vars
  <1> QED BY <1>3, <1>4, <1>5 DEF Shutdown

\* Every step.
LEMMA NextOrderly ==
  ASSUME CInv, [Next]_vars, NEW p \in Parts
  PROVE  Orderly(p)
  BY OrderlyConsumers, OrderlyFlush, OrderlyTimer, OrderlyShutdownInternal, OrderlyShutdown
  DEF Next, Consume

\* Once Shutdown's shutdownInternal has flushed a partition, no batch is
\* current there; once it has returned, the timer has exited and no batch of
\* the partition is with a worker.
Closed ==
  \A p \in Parts :
    /\ pc[Closer(p)] \in {"flush", "execute", "wait", "exit"} => cur[p] = None
    /\ pc[Closer(p)] = "exit" => pc[Timer(p)] = "exit" /\ Exporting(p) = {}

\* Nobody flushes for a partition that Shutdown has closed.
LEMMA NobodyFlushes ==
  ASSUME CInv, Closed, NEW p \in Parts, pc[Closer(p)] = "exit", NEW g \in Goroutines, PartOf(g) = p
  PROVE  pc[g] \notin {"flush", "execute"}
  <1> USE DEF CInv
  <1>1. CASE g \in Consumers
    BY <1>1 DEF Consuming, Partitions
  <1>2. ASSUME NEW q \in Parts, g = Timer(q) \/ g = Evictor(q) \/ g = Closer(q)
        PROVE  pc[g] \notin {"flush", "execute"}
    <2>1. q = p
      BY <1>2, Names, Different DEF PartOf
    <2>2. pc[Timer(p)] = "exit"
      BY DEF Closed
    <2>3. pc[Evictor(p)] \in {"none", "begin", "exit"}
      BY DEF Partitions
    <2> QED BY <1>2, <2>1, <2>2, <2>3
  <1> QED BY <1>1, <1>2, Kinds

\* Then no wait group counts anything at "exit", and no batch is left.
LEMMA NextClosed ==
  ASSUME DInv, DInv', Whose, WaitGroups, Closed, [Next]_vars
  PROVE  Closed'
  <1> USE DEF DInv
  <1> SUFFICES ASSUME NEW p \in Parts
               PROVE  /\ pc'[Closer(p)] \in {"flush", "execute", "wait", "exit"} => cur'[p] = None
                      /\ pc'[Closer(p)] = "exit" => pc'[Timer(p)] = "exit" /\ Exporting(p)' = {}
    BY DEF Closed
  <1>1. Orderly(p) /\ Closer(p) \in Goroutines /\ PartOf(Closer(p)) = p
    BY NextOrderly, Names, Different DEF PartOf
  <1>2. ASSUME pc'[Closer(p)] \in {"flush", "execute", "wait", "exit"} PROVE cur'[p] = None
    <2>1. pc[Closer(p)] \notin {"none", "begin"}
      BY <1>1, <1>2 DEF Orderly
    <2>2. pc[Closer(p)] \in {"last", "flush", "execute", "wait", "exit"}
      BY <2>1 DEF CInv, Positions, StopperAt
    <2>3. \A c \in Consumers : pc[c] # "consume"
      BY <2>1 DEF CInv, Consuming, Partitions
    <2>4. CASE Calm
      <3>1. pc[Closer(p)] = "last" => cur[p] = None
        BY <1>1, <1>2, <2>4 DEF Calm, Onward
      <3>2. pc[Closer(p)] # "last" => cur[p] = None
        BY <2>2 DEF Closed
      <3> QED BY <2>4, <3>1, <3>2 DEF Calm
    <2>5. ASSUME NEW g \in Goroutines, FlushCurrent(g) PROVE cur'[p] = None
      <3>1. \A q \in Parts : cur'[q] = IF q = PartOf(g) THEN None ELSE cur[q]
        BY <2>5, FlushCurrentControl
      <3>2. pc'[Closer(p)] # pc[Closer(p)] => g = Closer(p)
        BY <1>1, <2>5, FlushCurrentControl
      <3>3. CASE g = Closer(p)
        BY <1>1, <3>1, <3>3
      <3>4. CASE g # Closer(p)
        <4>1. pc[Closer(p)] \in {"flush", "execute", "wait", "exit"}
          BY <1>2, <3>2, <3>4
        <4> QED BY <3>1, <4>1 DEF Closed
      <3> QED BY <3>3, <3>4
    <2>6. ASSUME NEW g \in Goroutines, FlushExecute(g) PROVE cur'[p] = None
      <3>1. cur' = cur /\ pc[g] = "execute"
        BY <2>6 DEF FlushExecute
      <3>2. pc'[Closer(p)] # pc[Closer(p)] => g = Closer(p)
        BY <1>1, <2>6, FlushExecuteControl
      <3>3. pc[Closer(p)] # "last"
        BY <1>2, <3>1, <3>2
      <3> QED BY <2>2, <3>1, <3>3 DEF Closed
    <2>7. ASSUME NEW b \in running, NEW ok \in BOOLEAN, Exported(b, ok) PROVE cur'[p] = None
      <3>1. UNCHANGED <<cur, pc>>
        BY <2>7 DEF Exported
      <3> QED BY <1>2, <3>1 DEF Closed
    <2>8. \A c \in Consumers : ~ConsumeRefused(c) /\ ~ConsumeSplit(c)
      BY <2>3 DEF ConsumeRefused, ConsumeSplit
    <2> QED BY <2>4, <2>5, <2>6, <2>7, <2>8, StepKinds
  <1>3. ASSUME pc'[Closer(p)] = "exit" PROVE pc'[Timer(p)] = "exit" /\ Exporting(p)' = {}
    <2>1. CASE pc[Closer(p)] # "exit"
      <3>1. /\ pc[Closer(p)] = "wait" /\ wg[p] = 0 /\ running' = running
            /\ pc'[Timer(p)] = pc[Timer(p)]
        BY <1>1, <1>3, <2>1 DEF Orderly
      <3>2. /\ IsFiniteSet(Executing(p)) /\ IsFiniteSet(Exporting(p))
            /\ wg[p] = Cardinality(Executing(p)) + Cardinality(Exporting(p)) + Ticks(p)
        BY DEF WaitGroups
      <3>3. Cardinality(Executing(p)) \in Nat /\ Cardinality(Exporting(p)) \in Nat /\ Ticks(p) \in {0, 1}
        BY <3>2, FS_CardinalityType DEF Ticks
      <3>4. Cardinality(Exporting(p)) = 0 /\ Ticks(p) = 0
        BY <3>1, <3>2, <3>3
      <3>5. Exporting(p) = {}
        BY <3>2, <3>4, FS_EmptySet
      <3>6. pc[Timer(p)] \in {"none", "exit"}
        BY <3>4 DEF Ticks, Runs
      <3>7. pc[Timer(p)] # "none"
        <4> SUFFICES ASSUME ~Started(p) PROVE FALSE
          BY DEF Started
        <4>1. sd # "running"
          BY <3>1 DEF CInv, Partitions
        <4>2. p <= made
          <5>1. p > made => pc[Closer(p)] = "none"
            BY DEF CInv, Partitions
          <5>2. p \in Nat /\ made \in Nat
            BY BatcherAssumption DEF CInv, Types, Parts
          <5> QED BY <3>1, <5>1, <5>2
        <4>3. mbLock \in Consumers
          BY <4>2 DEF CInv, Partitions
        <4>4. pc[mbLock] = "evict"
          BY <4>3, Different DEF CInv, Locked
        <4> QED BY <4>1, <4>3, <4>4 DEF CInv, Consuming
      <3> QED BY <3>1, <3>5, <3>6, <3>7 DEF Exporting
    <2>2. CASE pc[Closer(p)] = "exit"
      <3>1. pc[Timer(p)] = "exit" /\ Exporting(p) = {} /\ pc'[Timer(p)] = "exit"
        BY <1>1, <2>2 DEF Closed, Orderly
      <3>2. CASE running' \subseteq running
        BY <3>1, <3>2 DEF Exporting
      <3>3. ASSUME NEW g \in Goroutines, FlushExecute(g) PROVE Exporting(p)' = {}
        <4>1. PICK b \in ToSet(jobs[g]) : running' = running \cup {b}
          BY <3>3, FlushExecuteMoves
        <4>2. b.p = PartOf(g) /\ pc[g] = "execute"
          BY <3>3 DEF Whose, FlushExecute
        <4>3. PartOf(g) # p
          BY <2>2, <4>2, NobodyFlushes
        <4> QED BY <3>1, <4>1, <4>2, <4>3 DEF Exporting
      <3>4. running' \subseteq running \/ \E g \in Goroutines : FlushExecute(g)
        BY StepKinds DEF Calm, ConsumeRefused, ConsumeSplit, FlushCurrent, Exported, poolVars
      <3> QED BY <3>1, <3>2, <3>3, <3>4
    <2> QED BY <2>1, <2>2
  <1> QED BY <1>2, <1>3

\* The invariant of the batches, the counters and the closed partitions.
SInv == DInv /\ Whose /\ WaitGroups /\ Pool /\ Closed

\* SInv is inductive.
LEMMA InitStops ==
  ASSUME Init
  PROVE  SInv
  <1>1. DInv /\ Whose /\ WaitGroups /\ Pool
    BY InitControl, InitBatches, InitCounts DEF DInv
  <1>2. \A p \in Parts : pc[Closer(p)] = "none"
    <2> SUFFICES ASSUME NEW p \in Parts PROVE pc[Closer(p)] = "none"
      OBVIOUS
    <2>1. Closer(p) \in Goroutines /\ Closer(p) \notin Consumers
      BY Names, Different
    <2>2. Closer(p) # Timer(1)
      BY DEF Closer, Timer
    <2> QED BY <2>1, <2>2 DEF Init
  <1> QED BY <1>1, <1>2 DEF SInv, Closed

\* Every step.
LEMMA NextStops ==
  ASSUME SInv, [Next]_vars
  PROVE  SInv'
  <1> USE DEF SInv
  <1>1. DInv'
    BY NextBatches
  <1>2. Closed'
    BY <1>1, NextClosed
  <1>3. CInv
    BY DEF DInv
  <1>4. CASE Calm /\ Ticking /\ Pooled
    BY <1>1, <1>2, <1>3, <1>4, WhoseCalm, GroupsCalm, PoolCalm DEF Calm
  <1>5. CASE \/ \E c \in Consumers : ConsumeRefused(c) \/ ConsumeSplit(c)
             \/ \E g \in Goroutines : FlushCurrent(g) \/ FlushExecute(g)
             \/ \E b \in running, ok \in BOOLEAN : Exported(b, ok)
    <2>1. Whose' /\ Pool'
      BY <1>5, WhoseMoves, PoolMoves
    <2>2. WaitGroups'
      BY <1>3, <1>5, GroupsConsume, GroupsExecute, GroupsExported
    <2> QED BY <1>1, <1>2, <2>1, <2>2
  <1> QED BY <1>3, <1>4, <1>5, StepKinds

\* When Shutdown has returned, a partition that it closed has nothing left.
LEMMA StopsDrained ==
  ASSUME SInv
  PROVE  ShutdownDrains
  <1> USE DEF SInv, DInv
  <1> SUFFICES ASSUME sd = "done", NEW b \in Pending, pc[Closer(b.p)] # "none" PROVE FALSE
    BY DEF ShutdownDrains
  <1> DEFINE p == b.p
  <1>1. p \in Parts
    BY PendingPlaces, Fields
  <1>2. pc[Closer(p)] = "exit"
    BY <1>1 DEF CInv, Partitions
  <1> HIDE DEF p
  <1>3. ASSUME NEW q \in Parts, cur[q] # None, b = cur[q] PROVE FALSE
    <2>1. q = p
      BY <1>3 DEF Waiting, p
    <2> QED BY <1>2, <1>3, <2>1 DEF Closed
  <1>4. ASSUME NEW g \in Goroutines, b \in ToSet(jobs[g]) PROVE FALSE
    <2>1. PartOf(g) = p /\ jobs[g] # <<>>
      BY <1>4 DEF Whose, p, ToSet
    <2>2. pc[g] \in {"flush", "execute"}
      BY <2>1 DEF CInv, Busy
    <2> QED BY <1>1, <1>2, <2>1, <2>2, NobodyFlushes
  <1>5. ASSUME b \in running PROVE FALSE
    BY <1>1, <1>2, <1>5 DEF Closed, Exporting, p
  <1> QED BY <1>3, <1>4, <1>5, PendingPlaces

\* QueueBatch.Shutdown returns when every batch of the partitions it closed was
\* exported or given up.
THEOREM BatcherShutdownDrains == Spec => []ShutdownDrains
  <1>1. Init => SInv
    BY InitStops
  <1>2. SInv /\ [Next]_vars => SInv'
    BY NextStops
  <1>3. SInv => ShutdownDrains
    BY StopsDrained
  <1> QED BY <1>1, <1>2, <1>3, PTL DEF Spec

-----------------------------------------------------------------------------
(* Done is called once *)

\* The batches that will call the Done of r.
Carriers(r) == {b \in Pending : r \in b.dones}

\* refCountDone counts them, and has called Done when there is none left.
Counted ==
  /\ refs \in [Requests -> Int] /\ failed \in [Requests -> BOOLEAN]
  /\ answer \in [Requests -> {None, "ok", "err"}]
  /\ \A r \in Requests :
       /\ IsFiniteSet(Carriers(r)) /\ refs[r] = Cardinality(Carriers(r))
       /\ Consumed(r) => (answer[r] = None <=> Carriers(r) # {})
       /\ ~Consumed(r) => answer[r] = None

\* No batch knows a request that is still with its consumer.
LEMMA NotCarried ==
  ASSUME OfRequests, NEW r \in Requests, ~Consumed(r)
  PROVE  Carriers(r) = {}
  BY DEF OfRequests, Carriers

\* Replacing one element of a finite set by a new one.
LEMMA Exchange ==
  ASSUME NEW S, IsFiniteSet(S), NEW x \in S, NEW y, y = x \/ y \notin S
  PROVE  /\ IsFiniteSet((S \ {x}) \cup {y})
         /\ Cardinality((S \ {x}) \cup {y}) = Cardinality(S)
  <1>1. IsFiniteSet(S \ {x}) /\ Cardinality(S \ {x}) = Cardinality(S) - 1
    BY FS_RemoveElement
  <1>2. y \notin S \ {x}
    OBVIOUS
  <1>3. /\ IsFiniteSet((S \ {x}) \cup {y})
        /\ Cardinality((S \ {x}) \cup {y}) = Cardinality(S \ {x}) + 1
    BY <1>1, <1>2, FS_AddElement
  <1>4. Cardinality(S) \in Nat
    BY FS_CardinalityType
  <1> QED BY <1>1, <1>3, <1>4

\* Steps that neither make nor end batches.
LEMMA CountedSame ==
  ASSUME Counted, Pending' = Pending, UNCHANGED <<refs, failed, answer>>,
         \A r \in Requests : Consumed(r)' <=> Consumed(r)
  PROVE  Counted'
  <1>1. \A r \in Requests : Carriers(r)' = Carriers(r)
    BY DEF Carriers
  <1> QED BY <1>1 DEF Counted

\* ConsumeRefused: the batch that replaces the current one has its requests.
LEMMA CountedRefused ==
  ASSUME DInv, Counted, NEW c \in Consumers, ConsumeRefused(c)
  PROVE  Counted'
  <1> USE DEF DInv
  <1> DEFINE r == req[c].id
             o == cur[part[c]]
             n == cur'[part[c]]
  <1>1. /\ pc[c] = "consume" /\ UNCHANGED <<taken, refs, failed>>
        /\ req' = [req EXCEPT ![c] = None] /\ answer' = [answer EXCEPT ![r] = "err"]
    BY RefusedStep
  <1>2. part[c] \in Parts /\ r \in Requests
    BY <1>1, ConsumeTypes
  <1>3. /\ o = None => Pending' = Pending
        /\ o # None => Pending' = (Pending \ {o}) \cup {n} /\ (n = o \/ n \notin Pending)
    BY RefusedMoves
  <1>4. o # None => n.dones = o.dones /\ o \in Pending
    BY <1>2, RefusedControl, PendingPlaces
  <1>5. ~Consumed(r) /\ \A q \in Requests : Consumed(q)' <=> Consumed(q) \/ q = r
    BY <1>1, ConsumedMerge
  <1>6. Carriers(r) = {}
    BY <1>2, <1>5, NotCarried
  <1>7. \A q \in Requests : answer'[q] = IF q = r THEN "err" ELSE answer[q]
    BY <1>1, <1>2 DEF Counted
  <1>8. answer' \in [Requests -> {None, "ok", "err"}]
    BY <1>1, <1>2 DEF Counted
  <1> HIDE DEF r, o, n
  <1>9. ASSUME NEW q \in Requests
        PROVE  /\ IsFiniteSet(Carriers(q)') /\ Cardinality(Carriers(q)') = Cardinality(Carriers(q))
    <2>1. IsFiniteSet(Carriers(q))
      BY DEF Counted
    <2>2. CASE o = None
      <3>1. Carriers(q)' = Carriers(q)
        BY <1>3, <2>2 DEF Carriers
      <3> QED BY <2>1, <3>1
    <2>3. CASE o # None /\ q \in o.dones
      <3>1. o \in Carriers(q) /\ (n = o \/ n \notin Carriers(q))
        BY <1>3, <1>4, <2>3 DEF Carriers
      <3>2. Carriers(q)' = (Carriers(q) \ {o}) \cup {n}
        BY <1>3, <1>4, <2>3 DEF Carriers
      <3> QED BY <2>1, <3>1, <3>2, Exchange
    <2>4. CASE o # None /\ q \notin o.dones
      <3>1. Carriers(q)' = Carriers(q)
        BY <1>3, <1>4, <2>4 DEF Carriers
      <3> QED BY <2>1, <3>1
    <2> QED BY <2>2, <2>3, <2>4
  <1>10. ASSUME NEW q \in Requests
         PROVE  /\ IsFiniteSet(Carriers(q)') /\ refs'[q] = Cardinality(Carriers(q)')
                /\ Consumed(q)' => (answer'[q] = None <=> Carriers(q)' # {})
                /\ ~Consumed(q)' => answer'[q] = None
    <2>1. IsFiniteSet(Carriers(q)') /\ refs'[q] = Cardinality(Carriers(q)')
      BY <1>1, <1>9 DEF Counted
    <2>2. Carriers(q)' = {} <=> Carriers(q) = {}
      <3>1. IsFiniteSet(Carriers(q)) /\ IsFiniteSet(Carriers(q)') /\ Cardinality(Carriers(q)') = Cardinality(Carriers(q))
        BY <1>9 DEF Counted
      <3>2. \A S : IsFiniteSet(S) => (Cardinality(S) = 0 <=> S = {})
        BY FS_EmptySet
      <3>3. Carriers(q)' = {} <=> Cardinality(Carriers(q)') = 0
        BY <3>1, <3>2
      <3>4. Carriers(q) = {} <=> Cardinality(Carriers(q)) = 0
        BY <3>1, <3>2
      <3> QED BY <3>1, <3>3, <3>4
    <2>3. CASE q = r
      <3>1. answer'[q] = "err" /\ Carriers(q)' = {} /\ Consumed(q)'
        BY <1>5, <1>6, <1>7, <2>2, <2>3
      <3> QED BY <2>1, <3>1, NoneAssumption
    <2>4. CASE q # r
      <3>1. answer'[q] = answer[q] /\ (Consumed(q)' <=> Consumed(q))
        BY <1>5, <1>7, <2>4
      <3>2. /\ Consumed(q) => (answer[q] = None <=> Carriers(q) # {})
            /\ ~Consumed(q) => answer[q] = None
        BY DEF Counted
      <3> QED BY <2>1, <2>2, <3>1, <3>2
    <2> QED BY <2>3, <2>4
  <1> QED BY <1>1, <1>8, <1>10 DEF Counted

\* As many batches as pieces.
LEMMA MadeCount ==
  ASSUME CInv, OfRequests, NEW c \in Consumers, pc[c] = "consume"
  PROVE  IsFiniteSet(MadeSet(c)) /\ Cardinality(MadeSet(c)) = Pieces(c)
  <1> DEFINE B(i) == BatchOf(c, Split(c), i)
             n == Pieces(c)
             f == [i \in 1..n |-> B(i)]
  <1>1. n \in Nat
    BY ConsumeTypes
  <1>2. \A i, j \in 1..n : i # j => B(i) # B(j)
    BY MadeBatches
  <1>3. MadeSet(c) = {B(i) : i \in 1..n}
    BY DEF MadeSet
  <1> HIDE DEF B, n
  <1>4. f \in [1..n -> MadeSet(c)]
    BY <1>3
  <1>5. \A i, j \in 1..n : f[i] = f[j] => i = j
    BY <1>2
  <1>6. \A b \in MadeSet(c) : \E i \in 1..n : f[i] = b
    BY <1>3
  <1> HIDE DEF f
  <1>7. ExistsBijection(1..n, MadeSet(c))
    BY <1>4, <1>5, <1>6 DEF ExistsBijection, Bijection, Injection, Surjection, IsInjective
  <1>8. IsFiniteSet(1..n) /\ Cardinality(1..n) = n
    BY <1>1, FS_Interval
  <1> QED BY <1>7, <1>8, FS_Bijection DEF n

\* All of them call the Done of the new request, and the first one those of the
\* current batch.
LEMMA MadeDones ==
  ASSUME CInv, OfRequests, NEW c \in Consumers, pc[c] = "consume", Split(c).pieces # <<>>
  PROVE  LET r == req[c].id
             o == cur[part[c]]
             a == BatchOf(c, Split(c), 1)
         IN  /\ a \in MadeSet(c) /\ \A b \in MadeSet(c) : r \in b.dones
             /\ \A b \in MadeSet(c) : \A q \in Requests : q # r =>
                  (q \in b.dones <=> b = a /\ o # None /\ q \in o.dones)
  <1> DEFINE r == req[c].id
             o == cur[part[c]]
             a == BatchOf(c, Split(c), 1)
  <1>1. \A i \in 1..Pieces(c) : BatchOf(c, Split(c), i).dones =
          IF i = 1 /\ cur[part[c]] # None THEN cur[part[c]].dones \cup {req[c].id} ELSE {req[c].id}
    BY MadeBatches
  <1>2. \A i, j \in 1..Pieces(c) : i # j => BatchOf(c, Split(c), i) # BatchOf(c, Split(c), j)
    BY MadeBatches
  <1>3. 1 \in 1..Pieces(c)
    BY ConsumeTypes
  <1>4. ASSUME NEW i \in 1..Pieces(c), NEW q \in Requests, q # r
        PROVE  q \in BatchOf(c, Split(c), i).dones <=>
                 BatchOf(c, Split(c), i) = a /\ o # None /\ q \in o.dones
    <2>1. BatchOf(c, Split(c), i) = a <=> i = 1
      BY <1>2, <1>3
    <2>2. BatchOf(c, Split(c), i).dones = IF i = 1 /\ o # None THEN o.dones \cup {r} ELSE {r}
      BY <1>1
    <2> HIDE DEF o, r, a
    <2> QED BY <1>4, <2>1, <2>2
  <1>5. \A i \in 1..Pieces(c) : r \in BatchOf(c, Split(c), i).dones
    BY <1>1
  <1>6. a \in MadeSet(c)
    BY <1>3 DEF MadeSet
  <1> HIDE DEF r, o, a
  <1>7. \A b \in MadeSet(c) : r \in b.dones
    BY <1>5 DEF MadeSet
  <1>8. \A b \in MadeSet(c) : \A q \in Requests : q # r =>
          (q \in b.dones <=> b = a /\ o # None /\ q \in o.dones)
    BY <1>4 DEF MadeSet
  <1> QED BY <1>6, <1>7, <1>8 DEF r, o, a

\* ConsumeSplit: the new request gets one reference for each of its batches,
\* and the first of them takes over from the current batch.
LEMMA CountedSplit ==
  ASSUME DInv, Counted, NEW c \in Consumers, ConsumeSplit(c)
  PROVE  Counted'
  <1> USE DEF DInv
  <1> DEFINE r == req[c].id
             o == cur[part[c]]
             M == MadeSet(c)
             a == BatchOf(c, Split(c), 1)
             m == NumRefs(Split(c)) - (IF Split(c).err THEN 1 ELSE 0)
  <1>1. /\ pc[c] = "consume" /\ Split(c).pieces # <<>> /\ UNCHANGED <<taken, answer>>
        /\ req' = [req EXCEPT ![c] = None]
        /\ refs' = [refs EXCEPT ![r] = m]
        /\ failed' = [failed EXCEPT ![r] = Split(c).err]
    BY SplitStep
  <1>2. /\ part[c] \in Parts /\ r \in Requests /\ Split(c).err \in BOOLEAN
        /\ Pieces(c) \in Nat /\ Pieces(c) >= 1
    BY <1>1, ConsumeTypes
  <1>3. m = Pieces(c)
    BY <1>2 DEF NumRefs, Pieces
  <1>4. Pending' = (Pending \ {o}) \cup M /\ M \cap Pending = {}
    BY SplitMoves
  <1>5. ~Consumed(r) /\ \A q \in Requests : Consumed(q)' <=> Consumed(q) \/ q = r
    BY <1>1, ConsumedMerge
  <1>6. Carriers(r) = {}
    BY <1>2, <1>5, NotCarried
  <1>7. IsFiniteSet(M) /\ Cardinality(M) = Pieces(c)
    BY <1>1, MadeCount
  <1>8. /\ a \in M /\ \A b \in M : r \in b.dones
        /\ \A b \in M : \A q \in Requests : q # r =>
             (q \in b.dones <=> b = a /\ o # None /\ q \in o.dones)
    BY <1>1, MadeDones
  <1>9. o # None => o \in Pending
    BY <1>2, PendingPlaces
  <1>10. \A q \in Requests : refs'[q] = IF q = r THEN Pieces(c) ELSE refs[q]
    BY <1>1, <1>2, <1>3 DEF Counted
  <1>11. refs' \in [Requests -> Int] /\ failed' \in [Requests -> BOOLEAN]
    BY <1>1, <1>2, <1>3 DEF Counted
  <1> HIDE DEF r, o, M, a, m
  <1>12. ASSUME NEW q \in Requests, q = r
         PROVE  /\ IsFiniteSet(Carriers(q)') /\ refs'[q] = Cardinality(Carriers(q)')
                /\ Carriers(q)' # {} /\ answer'[q] = None
    <2>1. Carriers(q)' = M
      BY <1>4, <1>6, <1>8, <1>12 DEF Carriers
    <2>2. answer'[q] = None
      BY <1>1, <1>5, <1>12 DEF Counted
    <2> QED BY <1>7, <1>8, <1>10, <1>12, <2>1, <2>2
  <1>13. ASSUME NEW q \in Requests, q # r
         PROVE  /\ IsFiniteSet(Carriers(q)') /\ Cardinality(Carriers(q)') = Cardinality(Carriers(q))
                /\ Carriers(q)' = {} <=> Carriers(q) = {}
    <2>1. IsFiniteSet(Carriers(q))
      BY DEF Counted
    <2>2. CASE o # None /\ q \in o.dones
      <3>1. o \in Carriers(q) /\ a \notin Carriers(q)
        BY <1>4, <1>8, <1>9, <2>2 DEF Carriers
      <3>2. Carriers(q)' = (Carriers(q) \ {o}) \cup {a}
        BY <1>4, <1>8, <1>13, <2>2 DEF Carriers
      <3> QED BY <2>1, <3>1, <3>2, Exchange
    <2>3. CASE ~(o # None /\ q \in o.dones)
      <3>1. \A b \in M : q \notin b.dones
        BY <1>8, <1>13, <2>3
      <3>2. o \notin Carriers(q)
        <4>1. CASE o = None
          <5>1. o \notin Pending
            BY <4>1, PendingPlaces, NoneAssumption
          <5> QED BY <5>1 DEF Carriers
        <4>2. CASE o # None
          BY <2>3, <4>2 DEF Carriers
        <4> QED BY <4>1, <4>2
      <3>3. Carriers(q)' = Carriers(q)
        BY <1>4, <3>1, <3>2 DEF Carriers
      <3> QED BY <2>1, <3>3
    <2> QED BY <2>2, <2>3
  <1>14. ASSUME NEW q \in Requests
         PROVE  /\ IsFiniteSet(Carriers(q)') /\ refs'[q] = Cardinality(Carriers(q)')
                /\ Consumed(q)' => (answer'[q] = None <=> Carriers(q)' # {})
                /\ ~Consumed(q)' => answer'[q] = None
    <2>1. CASE q = r
      BY <1>12, <2>1
    <2>2. CASE q # r
      <3>1. answer'[q] = answer[q] /\ refs'[q] = refs[q] /\ (Consumed(q)' <=> Consumed(q))
        BY <1>1, <1>5, <1>10, <2>2
      <3>2. /\ refs[q] = Cardinality(Carriers(q))
            /\ Consumed(q) => (answer[q] = None <=> Carriers(q) # {})
            /\ ~Consumed(q) => answer[q] = None
        BY DEF Counted
      <3> QED BY <1>13, <2>2, <3>1, <3>2
    <2> QED BY <2>1, <2>2
  <1>15. answer' \in [Requests -> {None, "ok", "err"}]
    BY <1>1 DEF Counted
  <1> QED BY <1>11, <1>14, <1>15 DEF Counted

\* OnDone gives one reference of each of the batch's requests back, and calls
\* the Done of those that have none left.
LEMMA CountedExported ==
  ASSUME DInv, Counted, NEW b \in running, NEW ok \in BOOLEAN, Exported(b, ok)
  PROVE  Counted'
  <1> USE DEF DInv
  <1>1. /\ refs' = [r \in Requests |-> IF r \in b.dones THEN refs[r] - 1 ELSE refs[r]]
        /\ failed' = [r \in Requests |-> failed[r] \/ (r \in b.dones /\ ~ok)]
        /\ answer' = [r \in Requests |->
                  IF r \in b.dones /\ refs[r] = 1
                    THEN (IF failed'[r] THEN "err" ELSE "ok")
                    ELSE answer[r]]
        /\ UNCHANGED <<taken, req>>
    BY DEF Exported, OnDone, consVars
  <1>2. Pending' = Pending \ {b} /\ b \in Pending
    BY ExportedMoves, PendingPlaces
  <1>3. \A r \in Requests : Consumed(r)' <=> Consumed(r)
    BY <1>1, ConsumedSame
  <1>4. refs' \in [Requests -> Int] /\ failed' \in [Requests -> BOOLEAN]
    BY <1>1 DEF Counted
  <1>5. answer' \in [Requests -> {None, "ok", "err"}]
    BY <1>1 DEF Counted
  <1>6. ASSUME NEW r \in Requests
        PROVE  /\ IsFiniteSet(Carriers(r)') /\ refs'[r] = Cardinality(Carriers(r)')
               /\ Consumed(r)' => (answer'[r] = None <=> Carriers(r)' # {})
               /\ ~Consumed(r)' => answer'[r] = None
    <2>1. /\ IsFiniteSet(Carriers(r)) /\ refs[r] = Cardinality(Carriers(r))
          /\ Consumed(r) => (answer[r] = None <=> Carriers(r) # {})
          /\ ~Consumed(r) => answer[r] = None
      BY DEF Counted
    <2>2. Carriers(r)' = Carriers(r) \ {b}
      BY <1>2 DEF Carriers
    <2>3. CASE r \notin b.dones
      <3>1. Carriers(r)' = Carriers(r)
        BY <2>2, <2>3 DEF Carriers
      <3>2. refs'[r] = refs[r] /\ answer'[r] = answer[r]
        BY <1>1, <2>3
      <3> QED BY <1>3, <2>1, <3>1, <3>2
    <2>4. CASE r \in b.dones
      <3>1. b \in Carriers(r)
        BY <1>2, <2>4 DEF Carriers
      <3>2. IsFiniteSet(Carriers(r) \ {b}) /\ Cardinality(Carriers(r) \ {b}) = Cardinality(Carriers(r)) - 1
        BY <2>1, <3>1, FS_RemoveElement
      <3>3. refs'[r] = refs[r] - 1
        BY <1>1, <2>4
      <3>4. Consumed(r) /\ answer[r] = None
        <4>1. Consumed(r)
          BY <1>2, <2>4 DEF OfRequests
        <4> QED BY <2>1, <3>1, <4>1
      <3>5. Cardinality(Carriers(r)) \in Nat
        BY <2>1, FS_CardinalityType
      <3>6. refs[r] = 1 <=> Carriers(r)' = {}
        <4>1. Cardinality(Carriers(r)') = 0 <=> Carriers(r)' = {}
          BY <2>2, <3>2, FS_EmptySet
        <4> QED BY <2>1, <2>2, <3>2, <3>5, <4>1
      <3>7. answer'[r] = IF refs[r] = 1 THEN (IF failed'[r] THEN "err" ELSE "ok") ELSE answer[r]
        BY <1>1, <2>4
      <3>8. answer'[r] = None <=> refs[r] # 1
        BY <3>4, <3>7, NoneAssumption
      <3> QED BY <1>3, <2>1, <2>2, <3>2, <3>3, <3>4, <3>6, <3>8
    <2> QED BY <2>3, <2>4
  <1> QED BY <1>4, <1>5, <1>6 DEF Counted

\* Every step.
LEMMA NextCounted ==
  ASSUME DInv, Counted, [Next]_vars
  PROVE  Counted'
  <1> USE DEF DInv
  <1>1. CASE Calm
    <2>1. \A r \in Requests : Consumed(r)' <=> Consumed(r)
      BY <1>1, ConsumedCalm
    <2>2. Pending' = Pending /\ UNCHANGED <<refs, failed, answer>>
      BY <1>1 DEF Calm, Pending, Current, Queued
    <2> QED BY <2>1, <2>2, CountedSame
  <1>2. ASSUME NEW g \in Goroutines, FlushCurrent(g) \/ FlushExecute(g) PROVE Counted'
    <2>1. Pending' = Pending
      BY <1>2, FlushCurrentMoves, FlushExecuteMoves
    <2>2. UNCHANGED <<taken, req, refs, failed, answer>>
      BY <1>2 DEF FlushCurrent, FlushExecute, consVars, doneVars
    <2>3. \A r \in Requests : Consumed(r)' <=> Consumed(r)
      BY <2>2, ConsumedSame
    <2> QED BY <2>1, <2>2, <2>3, CountedSame
  <1> QED BY <1>1, <1>2, StepKinds, CountedRefused, CountedSplit, CountedExported

\* The types of the module.
LEMMA AllTypes ==
  ASSUME SInv, Counted
  PROVE  TypeOK
  <1> USE DEF SInv, DInv, CInv
  <1>1. /\ partitioned \in BOOLEAN /\ stream \in Streams /\ panicked \in BOOLEAN
        /\ mbLock \in {Free, Stopper} \cup Goroutines
        /\ made \in 0..MaxRequests /\ key \in [Parts -> Keys \cup {None}]
        /\ lru \in Seq(1..made) /\ Len(lru) <= LruSize
        /\ victim \in (1..made) \cup {None}
        /\ active \in [Parts -> BOOLEAN] /\ onEmpty \in [Parts -> BOOLEAN]
        /\ armed \in [Parts -> BOOLEAN]
        /\ running \subseteq Batches /\ jobs \in [Goroutines -> Seq(Batches)]
        /\ sd \in {"running", "stopped", "waiting", "purge", "done"}
    BY DEF Types
  <1>2. \A p \in Parts : cur[p] = None \/ (cur[p] \in Batches /\ cur[p].p = p)
    BY DEF Types, Waiting
  <1>3. pc \in [Goroutines -> {"idle", "get", "evict", "consume", "flush", "execute", "self",
                               "none", "select", "onEmpty", "lock", "exit", "begin", "last",
                               "wait"}]
    <2>1. ConsumerAt \cup TimerAt \cup StopperAt =
            {"idle", "get", "evict", "consume", "flush", "execute", "self",
             "none", "select", "onEmpty", "lock", "exit", "begin", "last", "wait"}
      BY DEF ConsumerAt, TimerAt, StopperAt
    <2> QED BY <2>1 DEF Positions
  <1>4. wg \in [Parts -> Nat]
    <2>1. wg \in [Parts -> Int]
      BY DEF WaitGroups
    <2>2. ASSUME NEW p \in Parts PROVE wg[p] \in Nat
      <3>1. /\ IsFiniteSet(Executing(p)) /\ IsFiniteSet(Exporting(p))
            /\ wg[p] = Cardinality(Executing(p)) + Cardinality(Exporting(p)) + Ticks(p)
        BY DEF WaitGroups
      <3>2. Cardinality(Executing(p)) \in Nat /\ Cardinality(Exporting(p)) \in Nat
        BY <3>1, FS_CardinalityType
      <3>3. Ticks(p) \in Nat
        BY DEF Ticks
      <3> QED BY <3>1, <3>2, <3>3
    <2> QED BY <2>1, <2>2
  <1>5. workers \in 0..Workers
    <2>1. /\ workers \in Nat /\ Workers \in Nat /\ Cardinality(Evicting) \in Nat
          /\ Cardinality(running) \in Nat
          /\ workers + Cardinality(running) + Cardinality(Evicting) = Workers
      BY EvictingFinite, FS_CardinalityType, BatcherAssumption DEF Pool
    <2> QED BY <2>1
  <1>6. /\ refs \in [Requests -> Int] /\ failed \in [Requests -> BOOLEAN]
        /\ answer \in [Requests -> {None, "ok", "err"}]
    BY DEF Counted
  <1> QED BY <1>1, <1>2, <1>3, <1>4, <1>5, <1>6 DEF TypeOK

\* What the counts say about Done.
LEMMA CountedDone ==
  ASSUME SInv, Counted
  PROVE  DoneExactlyOnce
  <1>1. TypeOK
    BY AllTypes
  <1>2. ASSUME NEW r \in Requests, Consumed(r)
        PROVE  LET n == Cardinality({b \in Pending : r \in b.dones})
               IN  /\ refs[r] = n
                   /\ answer[r] = None <=> n > 0
    <2>1. /\ IsFiniteSet(Carriers(r)) /\ refs[r] = Cardinality(Carriers(r))
          /\ answer[r] = None <=> Carriers(r) # {}
      BY <1>2 DEF Counted
    <2>2. Cardinality(Carriers(r)) \in Nat /\ (Cardinality(Carriers(r)) = 0 <=> Carriers(r) = {})
      BY <2>1, FS_CardinalityType, FS_EmptySet
    <2>3. Cardinality(Carriers(r)) > 0 <=> Carriers(r) # {}
      BY <2>2
    <2>4. Carriers(r) = {b \in Pending : r \in b.dones}
      BY DEF Carriers
    <2> QED BY <2>1, <2>3, <2>4
  <1> QED BY <1>1, <1>2 DEF DoneExactlyOnce

\* Initially nothing was consumed.
LEMMA InitCounted ==
  ASSUME Init
  PROVE  Counted
  <1>1. Pending = {} /\ \A r \in Requests : ~Consumed(r)
    BY InitBatches
  <1>2. \A r \in Requests : Carriers(r) = {}
    BY <1>1 DEF Carriers
  <1>3. /\ refs = [r \in Requests |-> 0] /\ failed = [r \in Requests |-> FALSE]
        /\ answer = [r \in Requests |-> None]
    BY DEF Init
  <1> QED BY <1>1, <1>2, <1>3, FS_EmptySet DEF Counted

\* refCountDone never miscounts: Done is called once, after the last batch of
\* the request, however it was split, merged and exported.  With the types.
THEOREM BatcherDoneExactlyOnce == Spec => []DoneExactlyOnce
  <1>1. Init => SInv /\ Counted
    BY InitStops, InitCounted
  <1>2. SInv /\ Counted /\ [Next]_vars => SInv' /\ Counted'
    BY NextStops, NextCounted DEF SInv
  <1>3. SInv /\ Counted => DoneExactlyOnce
    BY CountedDone
  <1> QED BY <1>1, <1>2, <1>3, PTL DEF Spec

-----------------------------------------------------------------------------
(* The answer is true *)

\* What can be the current batch when there is a limit: it begins with an item
\* larger than max_size, left there by a MergeSplit that refused a request, or
\* it has no such item and is too small to be sent.
Fit(s) ==
  \/ s # <<>> /\ IsBig(s[1])
  \/ Len(s) < MinSize /\ \A x \in ToSet(s) : ~IsBig(x)

\* The items of a piece.
LEMMA PieceItems ==
  ASSUME NEW S, NEW s \in Seq(S), IsInjective(s), NEW i \in DOMAIN MergeSplit(s).pieces
  PROVE  ToSet(MergeSplit(s).pieces[i]) = {s[k] : k \in Places(s, i)}
  BY MergeSplitPlaces, Zenon

\* s is f and then t.
Joins(f, t, s) == s = f \o t

\* The items of the current batch f all go to the first piece, so a merge drops
\* none of them; the items of the request t are in every piece, and one of them
\* is dropped if any is.
LEMMA FrontFirst ==
  ASSUME NEW S, NEW f \in Seq(S), NEW t \in Seq(S), NEW s, Joins(f, t, s), IsInjective(s),
         MaxSize > 0 => f = <<>> \/ Fit(f), MergeSplit(s).pieces # <<>>
  PROVE  LET ps == MergeSplit(s).pieces
         IN  /\ \A x \in ToSet(f) : x \in ToSet(ps[1])
             /\ ~MergeSplit(s).err /\ t # <<>> =>
                  \A i \in DOMAIN ps : \E x \in ToSet(ps[i]) : x \in ToSet(t)
             /\ MergeSplit(s).err => \E x \in ToSet(t) : \A i \in DOMAIN ps : x \notin ToSet(ps[i])
             /\ ~MergeSplit(s).err => \A x \in ToSet(t) : \E i \in DOMAIN ps : x \in ToSet(ps[i])
             /\ MaxSize > 0 => \A i \in DOMAIN ps : \A x \in ToSet(ps[i]) : ~IsBig(x)
  <1> DEFINE ps == MergeSplit(s).pieces
             e == Extractable(s)
             l == Len(f)
             er == MergeSplit(s).err
  <1>1. /\ s \in Seq(S) /\ Len(s) = l + Len(t) /\ l \in Nat /\ Len(t) \in Nat
        /\ \A k \in 1..l : s[k] = f[k]
        /\ \A k \in 1..Len(t) : s[l + k] = t[k]
        /\ ToSet(s) = ToSet(f) \cup ToSet(t)
    BY ConcatFacts DEF Joins
  <1>2. /\ \A i \in DOMAIN ps : /\ Places(s, i) \subseteq DOMAIN s
                                /\ ToSet(ps[i]) = {s[k] : k \in Places(s, i)}
                                /\ MaxSize > 0 => \A k \in Places(s, i) : ~IsBig(s[k])
        /\ ~er => \A k \in DOMAIN s : \E i \in DOMAIN ps : k \in Places(s, i)
        /\ er => /\ MaxSize > 0 /\ Len(e) + 1 \in DOMAIN s /\ IsBig(s[Len(e) + 1])
                 /\ \A i \in DOMAIN ps : Len(e) + 1 \notin Places(s, i)
    <2>1. ASSUME NEW i \in DOMAIN ps
          PROVE  /\ Places(s, i) \subseteq DOMAIN s
                 /\ ToSet(ps[i]) = {s[k] : k \in Places(s, i)}
                 /\ MaxSize > 0 => \A k \in Places(s, i) : ~IsBig(s[k])
      <3>1. Places(s, i) \subseteq DOMAIN s
        BY <1>1, MergeSplitPlaces, Zenon
      <3>3. ToSet(ps[i]) = {s[k] : k \in Places(s, i)}
        BY <1>1, PieceItems
      <3>2. MaxSize > 0 => \A k \in Places(s, i) : ~IsBig(s[k])
        BY <1>1, MergeSplitPlaces, Zenon
      <3> QED BY <3>1, <3>2, <3>3
    <2>2. ~er => \A k \in DOMAIN s : \E i \in DOMAIN ps : k \in Places(s, i)
      BY <1>1, MergeSplitPlaces, Zenon
    <2>3. er => /\ MaxSize > 0 /\ Len(e) + 1 \in DOMAIN s /\ IsBig(s[Len(e) + 1])
                /\ \A i \in DOMAIN ps : Len(e) + 1 \notin Places(s, i)
      BY <1>1, MergeSplitPlaces, Zenon
    <2> HIDE DEF ps, e, er
    <2> QED BY <2>1, <2>2, <2>3
  <1>3. /\ e \in Seq(S) /\ Len(e) \in Nat /\ Len(e) <= Len(s)
        /\ \A j \in 1..Len(e) : e[j] = s[j] /\ ~IsBig(s[j])
        /\ Len(e) < Len(s) => IsBig(s[Len(e) + 1])
    <2>1. /\ e \in Seq(S) /\ Len(e) \in 0..Len(s)
          /\ \A j \in 1..Len(e) : e[j] = s[j] /\ ~IsBig(s[j])
          /\ Len(e) < Len(s) => IsBig(s[Len(e) + 1])
      BY <1>1, ExtractableFacts, Zenon
    <2> HIDE DEF e
    <2> QED BY <1>1, <2>1
  <1>4. DOMAIN s = 1..Len(s) /\ DOMAIN f = 1..l /\ DOMAIN t = 1..Len(t) /\ DOMAIN e = 1..Len(e)
    BY <1>1, <1>3
  <1>5. \A k \in DOMAIN s : (k <= l => k \in DOMAIN f /\ s[k] = f[k])
                         /\ (k > l => k - l \in DOMAIN t /\ s[k] = t[k - l])
    <2>1. ASSUME NEW k \in DOMAIN s, k > l PROVE k - l \in DOMAIN t /\ s[k] = t[k - l]
      <3>1. k - l \in 1..Len(t) /\ l + (k - l) = k
        BY <1>1, <1>4, <2>1
      <3> QED BY <1>1, <1>4, <3>1
    <2>2. ASSUME NEW k \in DOMAIN s, k <= l PROVE k \in DOMAIN f /\ s[k] = f[k]
      BY <1>1, <1>4, <2>2
    <2> QED BY <2>1, <2>2
  <1>6. ~Whole(s) => /\ MaxSize > 0 /\ ps = Chunks(e) /\ (er <=> e # s)
    BY NotWhole
  <1>7. ASSUME ~Whole(s)
        PROVE  \A i \in DOMAIN ps : /\ i \in Nat /\ i >= 1 /\ Cut(e, i) # {}
                                    /\ ToSet(ps[i]) = {e[k] : k \in Cut(e, i)}
    <2>1. \A i \in DOMAIN ps : /\ i \in Nat /\ i >= 1 /\ ps[i] # <<>>
                               /\ ToSet(ps[i]) = {e[k] : k \in Cut(e, i)}
      BY <1>3, <1>6, <1>7, ChunksFacts
    <2>2. ps \in Seq(Seq(S))
      BY <1>3, <1>6, <1>7, ChunksFacts
    <2> HIDE DEF ps, e
    <2> SUFFICES ASSUME NEW i \in DOMAIN ps PROVE Cut(e, i) # {}
      BY <2>1
    <2>3. ps[i] \in Seq(S) /\ ps[i] # <<>>
      BY <2>1, <2>2
    <2>4. 1 \in DOMAIN ps[i]
      BY <2>3
    <2>5. ToSet(ps[i]) # {}
      BY <2>4 DEF ToSet
    <2> QED BY <2>1, <2>5
  <1>8. Whole(s) => ps = <<s>> /\ ~er /\ DOMAIN ps = {1} /\ ps[1] = s
    <2>1. Whole(s) => MergeSplit(s) = [pieces |-> <<s>>, err |-> FALSE]
      BY DEF Whole, MergeSplit
    <2>2. Whole(s) => ps = <<s>> /\ ~er
      BY <2>1
    <2> HIDE DEF ps, er
    <2> QED BY <2>2
  <1>9. 1 \in DOMAIN ps
    <2>1. CASE Whole(s)
      BY <1>8, <2>1
    <2>2. CASE ~Whole(s)
      <3>1. ps \in Seq(Seq(S))
        BY <1>3, <1>6, <2>2, ChunksFacts
      <3> HIDE DEF ps
      <3>2. ps # <<>>
        BY DEF ps
      <3> QED BY <3>1, <3>2
    <2> QED BY <2>1, <2>2
  <1>10. MinSize \in Nat /\ MaxSize \in Nat /\ (MaxSize > 0 => MinSize <= MaxSize)
    BY BatcherAssumption
  <1> HIDE DEF ps, e, l, er
  <1>11. \A k \in DOMAIN s : s[k] \in ToSet(s)
    BY DEF ToSet
  <1>12. \A k \in DOMAIN f : f[k] \in ToSet(f)
    BY DEF ToSet
  <1>13. \A k \in DOMAIN t : t[k] \in ToSet(t)
    BY DEF ToSet
  <1>14. ASSUME MaxSize > 0
         PROVE  l < MaxSize /\ \A k \in 1..l : ~IsBig(s[k])
    <2>1. CASE f = <<>>
      BY <1>10, <1>14, <2>1 DEF l
    <2>2. CASE f # <<>> /\ IsBig(f[1])
      <3>1. 1 \in 1..l /\ 1 \in DOMAIN s
        BY <1>1, <1>4, <2>2 DEF l
      <3>2. IsBig(s[1])
        BY <1>1, <2>2, <3>1
      <3>3. CASE Whole(s)
        <4>1. 1 \in Places(s, 1)
          BY <3>1, <3>3 DEF Places
        <4> QED BY <1>2, <1>9, <1>14, <3>2, <4>1
      <3>4. CASE ~Whole(s)
        <4>1. PICK k \in Cut(e, 1) : TRUE
          BY <1>7, <1>9, <3>4
        <4>2. k \in 1..Len(e)
          BY <1>4 DEF Cut
        <4>3. 1 \in 1..Len(e)
          BY <1>3, <4>2
        <4> QED BY <1>3, <3>2, <4>3
      <3> QED BY <3>3, <3>4
    <2>3. CASE Len(f) < MinSize /\ \A x \in ToSet(f) : ~IsBig(x)
      <3>1. l < MaxSize
        BY <1>1, <1>10, <1>14, <2>3 DEF l
      <3>2. \A k \in 1..l : ~IsBig(s[k])
        BY <1>1, <1>4, <1>12, <2>3
      <3> QED BY <3>1, <3>2
    <2> QED BY <1>14, <2>1, <2>2, <2>3 DEF Fit
  <1>15. MaxSize > 0 => Len(e) >= l
    <2> SUFFICES ASSUME MaxSize > 0, Len(e) < l PROVE FALSE
      BY <1>1, <1>3
    <2>1. Len(e) + 1 \in 1..l /\ Len(e) < Len(s)
      BY <1>1, <1>3
    <2> QED BY <1>3, <1>14, <2>1
  <1>16. ASSUME NEW x \in ToSet(f) PROVE x \in ToSet(ps[1])
    <2>1. PICK k \in 1..l : x = f[k]
      BY <1>4 DEF ToSet
    <2>2. CASE Whole(s)
      BY <1>1, <1>8, <2>2
    <2>3. CASE ~Whole(s)
      <3>0. MaxSize > 0 /\ l < MaxSize /\ l <= Len(e) /\ MaxSize \in Nat /\ k \in Nat /\ 1 <= k /\ k <= l
        BY <1>1, <1>3, <1>6, <1>10, <1>14, <1>15, <2>3
      <3>4. k \in DOMAIN e
        BY <1>1, <1>3, <1>4, <3>0
      <3>5. (1 - 1) * MaxSize < k /\ k <= 1 * MaxSize
        BY <1>1, <3>0
      <3>1. k \in DOMAIN e /\ (1 - 1) * MaxSize < k /\ k <= 1 * MaxSize
        BY <3>4, <3>5
      <3>2. k \in Cut(e, 1)
        BY <3>1 DEF Cut
      <3>3. e[k] = x
        BY <1>1, <1>3, <1>4, <2>1, <3>1
      <3> QED BY <1>7, <1>9, <2>3, <3>2, <3>3
    <2> QED BY <2>2, <2>3
  <1>17. ASSUME ~er, t # <<>>, NEW i \in DOMAIN ps PROVE \E x \in ToSet(ps[i]) : x \in ToSet(t)
    <2>1. l + 1 \in DOMAIN s /\ s[l + 1] \in ToSet(t)
      <3>1. 1 \in 1..Len(t)
        BY <1>17
      <3>2. l + 1 \in DOMAIN s
        BY <1>1, <1>4, <3>1
      <3> QED BY <1>1, <1>4, <1>13, <3>1, <3>2
    <2>2. CASE Whole(s)
      BY <1>8, <1>11, <1>17, <2>1, <2>2
    <2>3. CASE ~Whole(s)
      <3>1. e = s /\ MaxSize > 0
        BY <1>6, <1>17, <2>3
      <3>2. CASE i = 1
        <4>1. (1 - 1) * MaxSize < l + 1 /\ l + 1 <= 1 * MaxSize
          BY <1>1, <1>10, <1>14, <3>1
        <4>2. l + 1 \in Cut(e, 1)
          BY <2>1, <3>1, <4>1 DEF Cut
        <4> QED BY <1>7, <1>17, <2>1, <2>3, <3>1, <3>2, <4>2
      <3>3. CASE i # 1
        <4>1. PICK k \in Cut(e, i) : TRUE
          BY <1>7, <1>17, <2>3
        <4>2. k \in DOMAIN s /\ (i - 1) * MaxSize < k /\ k \in Int
          BY <1>4, <3>1, <4>1 DEF Cut
        <4>3. i \in Nat /\ i >= 1
          BY <1>7, <1>17, <2>3
        <4>4. 1 * MaxSize <= (i - 1) * MaxSize /\ (i - 1) * MaxSize \in Int
          <5>1. 1 <= i - 1 /\ i - 1 \in Int /\ MaxSize \in Nat \ {0}
            BY <1>10, <3>1, <3>3, <4>3
          <5> QED BY <5>1, Multiples
        <4>5. k > l
          BY <1>1, <1>10, <1>14, <3>1, <4>2, <4>4
        <4>6. s[k] \in ToSet(t)
          BY <1>5, <1>13, <4>2, <4>5
        <4> QED BY <1>7, <1>17, <2>3, <3>1, <4>1, <4>6
      <3> QED BY <3>2, <3>3
    <2> QED BY <2>2, <2>3
  <1>18. ASSUME er PROVE \E x \in ToSet(t) : \A i \in DOMAIN ps : x \notin ToSet(ps[i])
    <2> DEFINE k == Len(e) + 1
    <2>1. /\ MaxSize > 0 /\ k \in DOMAIN s /\ IsBig(s[k])
          /\ \A i \in DOMAIN ps : k \notin Places(s, i)
      BY <1>2, <1>18
    <2>2. k > l
      BY <1>1, <1>3, <1>15, <2>1
    <2> HIDE DEF k
    <2>3. s[k] \in ToSet(t)
      BY <1>5, <1>13, <2>1, <2>2
    <2>4. ASSUME NEW i \in DOMAIN ps PROVE s[k] \notin ToSet(ps[i])
      <3> SUFFICES ASSUME s[k] \in ToSet(ps[i]) PROVE FALSE
        OBVIOUS
      <3>0. ToSet(ps[i]) = {s[j] : j \in Places(s, i)}
        BY <1>2, <2>4
      <3>1. PICK j \in Places(s, i) : s[k] = s[j]
        BY <3>0
      <3>2. j \in DOMAIN s
        BY <1>2, <2>4
      <3>3. j = k
        BY <2>1, <3>1, <3>2 DEF IsInjective
      <3> QED BY <2>1, <2>4, <3>1, <3>3
    <2> QED BY <2>3, <2>4
  <1>19. ASSUME ~er, NEW x \in ToSet(t) PROVE \E i \in DOMAIN ps : x \in ToSet(ps[i])
    <2>1. x \in ToSet(s)
      BY <1>1
    <2>2. PICK k \in DOMAIN s : x = s[k]
      BY <2>1 DEF ToSet
    <2>3. PICK i \in DOMAIN ps : k \in Places(s, i)
      BY <1>2, <1>19
    <2> QED BY <1>2, <2>2, <2>3
  <1>20. MaxSize > 0 => \A i \in DOMAIN ps : \A x \in ToSet(ps[i]) : ~IsBig(x)
    BY <1>2
  <1> QED BY <1>16, <1>17, <1>18, <1>19, <1>20 DEF ps, er

\* What was exported, and what was refused, was merged before.
Past ==
  /\ \A x \in sent : x[1] \in Requests /\ Consumed(x[1])
  /\ \A r \in refused : r \in Requests /\ Consumed(r) /\ answer[r] = "err"

\* With a limit every current batch is Fit.
CurFit == MaxSize > 0 => \A p \in Parts : cur[p] # None => Fit(cur[p].items)

\* Where the items of a request are: while nothing of it has failed they were
\* exported or are in a batch that will call its Done, and each such batch has
\* one of them; afterwards there is one that will never be exported.
Fate(r) ==
  /\ ~failed[r] =>
       \A x \in ToSet(taken[r]) : x \in sent \/ \E b \in Carriers(r) : x \in ToSet(b.items)
  /\ ~failed[r] /\ taken[r] # <<>> =>
       \A b \in Carriers(r) : \E x \in ToSet(b.items) : x \in ToSet(taken[r])
  /\ failed[r] /\ taken[r] # <<>> =>
       \E x \in ToSet(taken[r]) : x \notin sent /\ \A b \in Pending : x \notin ToSet(b.items)
  /\ answer[r] = "ok" => ~failed[r]
  /\ answer[r] = "err" => failed[r]

\* So it is for every request that was merged and not refused.
Fates == \A r \in Requests : Consumed(r) /\ r \notin refused => Fate(r)

\* The invariant of the answers.
AInv == DInv /\ Counted /\ Past /\ CurFit /\ ItemsOnce /\ Fates

\* Then the answers are true.
LEMMA FatesAnswer ==
  ASSUME AInv
  PROVE  AnswerIsTrue
  <1> USE DEF AInv
  <1> SUFFICES ASSUME NEW r \in Requests
               PROVE  /\ answer[r] = "ok" => ToSet(taken[r]) \subseteq sent
                      /\ (answer[r] = "err" /\ r \notin refused /\ taken[r] # <<>>)
                            => ~(ToSet(taken[r]) \subseteq sent)
    BY DEF AnswerIsTrue
  <1>1. answer[r] # None => Consumed(r) /\ Carriers(r) = {}
    BY DEF Counted
  <1>2. ASSUME answer[r] = "ok" PROVE ToSet(taken[r]) \subseteq sent
    <2>1. Consumed(r) /\ Carriers(r) = {} /\ r \notin refused
      BY <1>1, <1>2, NoneAssumption DEF Past
    <2>2. Fate(r)
      BY <2>1 DEF Fates
    <2> QED BY <1>2, <2>1, <2>2 DEF Fate
  <1>3. ASSUME answer[r] = "err", r \notin refused, taken[r] # <<>>
        PROVE  ~(ToSet(taken[r]) \subseteq sent)
    <2>1. Consumed(r)
      BY <1>1, <1>3, NoneAssumption
    <2>2. Fate(r)
      BY <1>3, <2>1 DEF Fates
    <2> QED BY <1>3, <2>2 DEF Fate
  <1> QED BY <1>2, <1>3

\* A request whose batches were replaced by batches with as many of its items.
LEMMA FateMoved ==
  ASSUME NEW r \in Requests, Fate(r), taken'[r] = taken[r], failed'[r] = failed[r],
         answer'[r] = answer[r], sent' = sent,
         \A b \in Carriers(r) : \E d \in Carriers(r)' : ToSet(b.items) \subseteq ToSet(d.items),
         \A d \in Carriers(r)' : \E b \in Carriers(r) : ToSet(b.items) \subseteq ToSet(d.items),
         \A d \in Pending' : \A x \in ToSet(d.items) : x \in ToSet(taken[r]) =>
           \E b \in Pending : x \in ToSet(b.items)
  PROVE  Fate(r)'
  <1>1. ~failed'[r] => \A x \in ToSet(taken'[r]) :
          x \in sent' \/ \E b \in Carriers(r)' : x \in ToSet(b.items)
    BY DEF Fate
  <1>2. ~failed'[r] /\ taken'[r] # <<>> =>
          \A b \in Carriers(r)' : \E x \in ToSet(b.items) : x \in ToSet(taken'[r])
    BY DEF Fate
  <1>3. failed'[r] /\ taken'[r] # <<>> =>
          \E x \in ToSet(taken'[r]) : x \notin sent' /\ \A b \in Pending' : x \notin ToSet(b.items)
    BY DEF Fate
  <1>4. (answer'[r] = "ok" => ~failed'[r]) /\ (answer'[r] = "err" => failed'[r])
    BY DEF Fate
  <1> QED BY <1>1, <1>2, <1>3, <1>4 DEF Fate

\* Steps that neither make nor end batches.
LEMMA AnswersSame ==
  ASSUME AInv, Pending' = Pending, UNCHANGED <<failed, answer, refused, sent>>,
         \A r \in Requests : (Consumed(r)' <=> Consumed(r)) /\ (Consumed(r) => taken'[r] = taken[r]),
         \A p \in Parts : cur'[p] # None => cur'[p] = cur[p]
  PROVE  Past' /\ CurFit' /\ ItemsOnce' /\ Fates'
  <1> USE DEF AInv
  <1>1. Past'
    BY DEF Past
  <1>2. CurFit'
    BY DEF CurFit
  <1>3. ItemsOnce'
    BY DEF ItemsOnce
  <1>4. ASSUME NEW r \in Requests, Consumed(r)', r \notin refused' PROVE Fate(r)'
    <2>1. Consumed(r) /\ taken'[r] = taken[r] /\ Fate(r)
      BY <1>4 DEF Fates
    <2>2. Carriers(r)' = Carriers(r)
      BY DEF Carriers
    <2> QED BY <2>1, <2>2, FateMoved
  <1> QED BY <1>1, <1>2, <1>3, <1>4 DEF Fates

\* The batches M replace the batch o: they have items of F, which is the items
\* of o or nothing, and of T, which nobody has; each in one of them.
Replaces(P, Q, s, o, M, F, T) ==
  /\ Q = (P \ {o}) \cup M
  /\ \A x \in F : o \in P /\ x \in ToSet(o.items)
  /\ \A d \in M : ToSet(d.items) \subseteq F \cup T
  /\ T \cap s = {} /\ \A b \in P : ToSet(b.items) \cap T = {}
  /\ \A d, e \in M : d # e => ToSet(d.items) \cap ToSet(e.items) = {}

\* ItemsOnce, of any pending batches and items sent.
Once(P, s) ==
  \A b \in P : /\ ToSet(b.items) \cap s = {}
               /\ \A d \in P : b # d => ToSet(b.items) \cap ToSet(d.items) = {}

\* Then no item is in two batches.
LEMMA OnceReplaced ==
  ASSUME NEW P, NEW Q, NEW s, NEW o, NEW M, NEW F, NEW T,
         Once(P, s), Replaces(P, Q, s, o, M, F, T)
  PROVE  Once(Q, s)
  <1> USE DEF Replaces
  <1>1. F \cap s = {}
    BY DEF Once
  <1>2. \A b \in P \ {o} : ToSet(b.items) \cap F = {}
    BY DEF Once
  <1>3. \A b \in Q : ToSet(b.items) \cap s = {}
    BY <1>1 DEF Once
  <1>4. \A b \in P \ {o}, d \in M : ToSet(b.items) \cap ToSet(d.items) = {}
    BY <1>2
  <1>5. \A b, d \in P \ {o} : b # d => ToSet(b.items) \cap ToSet(d.items) = {}
    BY DEF Once
  <1>6. ASSUME NEW b \in Q, NEW d \in Q, b # d
        PROVE  ToSet(b.items) \cap ToSet(d.items) = {}
    <2>1. CASE b \in M /\ d \in M
      BY <1>6, <2>1
    <2>2. CASE b \notin M /\ d \in M
      BY <1>4, <2>2
    <2>3. CASE b \in M /\ d \notin M
      BY <1>4, <2>3
    <2>4. CASE b \notin M /\ d \notin M
      BY <1>5, <1>6, <2>4
    <2> QED BY <2>1, <2>2, <2>3, <2>4
  <1> QED BY <1>3, <1>6 DEF Once

\* The request that a consumer merges: nothing of it was exported or is in a
\* batch, and the items of the current batch are there.
LEMMA NewItems ==
  ASSUME AInv, NEW c \in Consumers, pc[c] = "consume"
  PROVE  LET r == req[c].id
             o == cur[part[c]]
         IN  /\ r \in Requests /\ r \notin refused /\ taken[r] \in RequestItems
             /\ \A x \in ToSet(Front0(c)) : o \in Pending /\ x \in ToSet(o.items)
             /\ o # None => o \in Pending /\ Front0(c) = o.items
             /\ ToSet(taken[r]) \cap sent = {}
             /\ \A b \in Pending : ToSet(b.items) \cap ToSet(taken[r]) = {}
             /\ \A q \in Requests : q # r /\ taken[q] # None => ToSet(taken[q]) \cap ToSet(taken[r]) = {}
             /\ ToSet(Merged(c)) = ToSet(Front0(c)) \cup ToSet(taken[r])
  <1> USE DEF AInv, DInv
  <1> DEFINE r == req[c].id
             o == cur[part[c]]
  <1>1. /\ part[c] \in Parts /\ r \in Requests /\ taken[r] \in RequestItems
    BY ConsumeTypes
  <1>2. /\ \A x \in ToSet(taken[r]) : x[1] = r
        /\ ~Consumed(r) /\ ToSet(Merged(c)) = ToSet(Front0(c)) \cup ToSet(taken[r])
    BY MergedFacts
  <1>3. o # None => o \in Pending /\ Front0(c) = o.items
    BY <1>1, PendingPlaces DEF Front0
  <1>4. o = None => ToSet(Front0(c)) = {}
    BY DEF Front0, ToSet
  <1>5. r \notin refused
    BY <1>2 DEF Past
  <1> HIDE DEF r, o
  <1>6. ToSet(taken[r]) \cap sent = {}
    BY <1>2 DEF Past
  <1>7. \A b \in Pending : ToSet(b.items) \cap ToSet(taken[r]) = {}
    BY <1>2 DEF OfRequests
  <1>8. \A q \in Requests : q # r /\ taken[q] # None => ToSet(taken[q]) \cap ToSet(taken[r]) = {}
    BY <1>2 DEF OfRequests
  <1>9. \A x \in ToSet(Front0(c)) : o \in Pending /\ x \in ToSet(o.items)
    BY <1>3, <1>4
  <1> QED BY <1>1, <1>2, <1>3, <1>5, <1>6, <1>7, <1>8, <1>9 DEF r, o

\* The current batch does not begin with a big item unless MergeSplit refused
\* the request that was merged.
LEMMA RefusedFit ==
  ASSUME AInv, NEW c \in Consumers, ConsumeRefused(c)
  PROVE  CurFit'
  <1> USE DEF AInv, DInv
  <1>1. pc[c] = "consume" /\ Split(c).pieces = <<>>
    BY RefusedStep
  <1>2. Merged(c) \in RequestItems /\ IsInjective(Merged(c))
    BY <1>1, ConsumeTypes, MergedFacts
  <1>3. Merged(c) # <<>> /\ IsBig(Merged(c)[1])
    <2>1. MergeSplit(Merged(c)).pieces = <<>> =>
            MaxSize > 0 /\ Merged(c) # <<>> /\ IsBig(Merged(c)[1])
      BY <1>2, MergeSplitPlaces, Zenon DEF RequestItems
    <2> QED BY <1>1, <2>1 DEF Split
  <1>4. \A q \in Parts : /\ cur'[q] # cur[q] => cur'[q].items = Merged(c)
                         /\ cur'[q] = None <=> cur[q] = None
    BY RefusedControl
  <1> QED BY <1>3, <1>4 DEF CurFit, Fit

\* A request that is refused ends there; the batch that keeps its items still
\* has all of the others.
LEMMA AnswersRefused ==
  ASSUME AInv, NEW c \in Consumers, ConsumeRefused(c)
  PROVE  Past' /\ CurFit' /\ ItemsOnce' /\ Fates'
  <1> USE DEF AInv, DInv
  <1> DEFINE r == req[c].id
             o == cur[part[c]]
             n == cur'[part[c]]
             F == ToSet(Front0(c))
             T == ToSet(taken[r])
  <1>1. /\ pc[c] = "consume" /\ UNCHANGED <<taken, refs, failed, sent>>
        /\ req' = [req EXCEPT ![c] = None] /\ answer' = [answer EXCEPT ![r] = "err"]
        /\ refused' = refused \cup {r}
    BY RefusedStep DEF poolVars
  <1>2. part[c] \in Parts /\ r \in Requests
    BY <1>1, ConsumeTypes
  <1>3. /\ o = None => Pending' = Pending
        /\ o # None => Pending' = (Pending \ {o}) \cup {n}
    BY RefusedMoves
  <1>4. o # None => /\ n.dones = o.dones /\ o \in Pending /\ F = ToSet(o.items)
                    /\ F \subseteq ToSet(n.items) /\ ToSet(n.items) \subseteq F \cup T
    <2>1. o # None => /\ n.dones = o.dones /\ (n # o => n.items = Merged(c))
      BY <1>2, RefusedControl
    <2>2. o # None => o \in Pending /\ Front0(c) = o.items
      BY <1>1, NewItems
    <2>3. ToSet(Merged(c)) = F \cup T
      BY <1>1, NewItems
    <2> HIDE DEF r, o, n
    <2> QED BY <2>1, <2>2, <2>3
  <1>5. ~Consumed(r) /\ \A q \in Requests : Consumed(q)' <=> Consumed(q) \/ q = r
    BY <1>1, ConsumedMerge
  <1>6. \A q \in Requests : answer'[q] = IF q = r THEN "err" ELSE answer[q]
    BY <1>1, <1>2 DEF Counted
  <1>7. /\ \A x \in F : o \in Pending /\ x \in ToSet(o.items)
        /\ T \cap sent = {}
        /\ \A b \in Pending : ToSet(b.items) \cap T = {}
        /\ \A q \in Requests : q # r /\ taken[q] # None => ToSet(taken[q]) \cap T = {}
    BY <1>1, NewItems
  <1> HIDE DEF r, o, n, F, T
  <1>8. Past'
    BY <1>1, <1>2, <1>5, <1>6 DEF Past
  <1>9. ItemsOnce'
    <2>1. CASE o = None
      BY <1>1, <1>3, <2>1 DEF ItemsOnce
    <2>2. CASE o # None
      <3> DEFINE M == {n}
      <3>1. \A d \in M : ToSet(d.items) \subseteq F \cup T
        BY <1>4, <2>2
      <3>2. \A d, e \in M : d # e => ToSet(d.items) \cap ToSet(e.items) = {}
        OBVIOUS
      <3>3. Pending' = (Pending \ {o}) \cup M /\ sent' = sent /\ ItemsOnce
        BY <1>1, <1>3, <2>2
      <3> HIDE DEF M
      <3>4. Replaces(Pending, Pending', sent, o, M, F, T)
        BY <1>7, <3>1, <3>2, <3>3 DEF Replaces
      <3>5. Once(Pending, sent)
        BY <3>3 DEF Once, ItemsOnce
      <3>6. Once(Pending', sent)
        BY <3>4, <3>5, OnceReplaced
      <3> QED BY <3>3, <3>6 DEF Once, ItemsOnce
    <2> QED BY <2>1, <2>2
  <1>10. ASSUME NEW q \in Requests, Consumed(q)', q \notin refused' PROVE Fate(q)'
    <2>1. q # r /\ Consumed(q) /\ q \notin refused
      BY <1>1, <1>5, <1>10
    <2>2. Fate(q) /\ answer'[q] = answer[q] /\ taken[q] # None
      BY <1>6, <2>1 DEF Fates, Consumed
    <2>3. CASE o = None
      <3>1. Carriers(q)' = Carriers(q)
        BY <1>3, <2>3 DEF Carriers
      <3> QED BY <1>1, <1>3, <2>2, <2>3, <3>1, FateMoved
    <2>4. CASE o # None
      <3>1. \A b \in Carriers(q) : \E d \in Carriers(q)' : ToSet(b.items) \subseteq ToSet(d.items)
        <4> SUFFICES ASSUME NEW b \in Carriers(q)
                     PROVE  \E d \in Carriers(q)' : ToSet(b.items) \subseteq ToSet(d.items)
          OBVIOUS
        <4>1. CASE b = o
          <5>1. n \in Carriers(q)' /\ ToSet(b.items) \subseteq ToSet(n.items)
            BY <1>3, <1>4, <2>4, <4>1 DEF Carriers
          <5> QED BY <5>1
        <4>2. CASE b # o
          <5>1. b \in Carriers(q)'
            BY <1>3, <2>4, <4>2 DEF Carriers
          <5> QED BY <5>1
        <4> QED BY <4>1, <4>2
      <3>2. \A d \in Carriers(q)' : \E b \in Carriers(q) : ToSet(b.items) \subseteq ToSet(d.items)
        <4> SUFFICES ASSUME NEW d \in Carriers(q)'
                     PROVE  \E b \in Carriers(q) : ToSet(b.items) \subseteq ToSet(d.items)
          OBVIOUS
        <4>1. CASE d = n
          <5>1. o \in Carriers(q) /\ ToSet(o.items) \subseteq ToSet(d.items)
            BY <1>4, <2>4, <4>1 DEF Carriers
          <5> QED BY <5>1
        <4>2. CASE d # n
          <5>1. d \in Carriers(q)
            BY <1>3, <2>4, <4>2 DEF Carriers
          <5> QED BY <5>1
        <4> QED BY <4>1, <4>2
      <3>3. ASSUME NEW d \in Pending', NEW x \in ToSet(d.items), x \in ToSet(taken[q])
            PROVE  \E b \in Pending : x \in ToSet(b.items)
        <4>1. CASE d = n
          <5>1. x \in F
            BY <1>4, <1>7, <2>1, <2>2, <2>4, <3>3, <4>1
          <5> QED BY <1>7, <5>1
        <4>2. CASE d # n
          BY <1>3, <2>4, <3>3, <4>2
        <4> QED BY <4>1, <4>2
      <3> QED BY <1>1, <2>2, <3>1, <3>2, <3>3, FateMoved
    <2> QED BY <2>3, <2>4
  <1>11. CurFit'
    BY RefusedFit
  <1> QED BY <1>8, <1>9, <1>10, <1>11 DEF Fates

\* The batches that ConsumeSplit makes, of the items of the current batch and
\* of the request: none with a big item; all that the current batch had is in
\* the first; what the request has is in them, or one of its items was dropped.
LEMMA MadeItems ==
  ASSUME AInv, NEW c \in Consumers, pc[c] = "consume", Split(c).pieces # <<>>
  PROVE  LET a == BatchOf(c, Split(c), 1)
             t == taken[req[c].id]
         IN  /\ a \in MadeSet(c) /\ ToSet(Front0(c)) \subseteq ToSet(a.items)
             /\ ~Split(c).err /\ t # <<>> =>
                  \A b \in MadeSet(c) : \E x \in ToSet(b.items) : x \in ToSet(t)
             /\ Split(c).err => \E x \in ToSet(t) : \A b \in MadeSet(c) : x \notin ToSet(b.items)
             /\ ~Split(c).err => \A x \in ToSet(t) : \E b \in MadeSet(c) : x \in ToSet(b.items)
             /\ MaxSize > 0 => \A b \in MadeSet(c) : \A x \in ToSet(b.items) : ~IsBig(x)
  <1> USE DEF AInv, DInv
  <1> DEFINE B(i) == BatchOf(c, Split(c), i)
             t == taken[req[c].id]
             f == Front0(c)
             s == Merged(c)
             S == Requests \X Nat
             ps == MergeSplit(s).pieces
             er == MergeSplit(s).err
  <1>1. /\ f \in Seq(S) /\ t \in Seq(S) /\ Joins(f, t, s) /\ IsInjective(s)
    BY MergedFacts DEF RequestItems, Joins
  <1>2. MaxSize > 0 => f = <<>> \/ Fit(f)
    <2>1. part[c] \in Parts
      BY ConsumeTypes
    <2> QED BY <2>1 DEF CurFit, Front0
  <1>3. ps # <<>> /\ Split(c).err = er
    BY DEF Split
  <1>4. /\ Pieces(c) \in Nat /\ Pieces(c) >= 1 /\ DOMAIN ps = 1..Pieces(c)
        /\ \A i \in 1..Pieces(c) : B(i).items = ps[i]
    <2>1. /\ Split(c).pieces \in Seq(RequestItems)
          /\ Pieces(c) \in Nat /\ (Split(c).pieces # <<>> => Pieces(c) >= 1)
          /\ \A i \in 1..Pieces(c) : B(i).items = Split(c).pieces[i]
      BY ConsumeTypes
    <2>2. ps = Split(c).pieces
      BY DEF Split
    <2> HIDE DEF ps, B
    <2> QED BY <2>1, <2>2 DEF Pieces
  <1>5. /\ \A x \in ToSet(f) : x \in ToSet(ps[1])
        /\ ~er /\ t # <<>> => \A i \in DOMAIN ps : \E x \in ToSet(ps[i]) : x \in ToSet(t)
        /\ er => \E x \in ToSet(t) : \A i \in DOMAIN ps : x \notin ToSet(ps[i])
        /\ ~er => \A x \in ToSet(t) : \E i \in DOMAIN ps : x \in ToSet(ps[i])
        /\ MaxSize > 0 => \A i \in DOMAIN ps : \A x \in ToSet(ps[i]) : ~IsBig(x)
    <2> HIDE DEF t, f, s, S
    <2> QED BY <1>1, <1>2, <1>3, FrontFirst
  <1>6. MadeSet(c) = {B(i) : i \in 1..Pieces(c)}
    BY DEF MadeSet
  <1> HIDE DEF B, t, f, s, S, ps, er
  <1>7. 1 \in 1..Pieces(c)
    BY <1>4
  <1>8. B(1) \in MadeSet(c) /\ ToSet(f) \subseteq ToSet(B(1).items)
    BY <1>4, <1>5, <1>6, <1>7
  <1>9. ~Split(c).err /\ t # <<>> => \A b \in MadeSet(c) : \E x \in ToSet(b.items) : x \in ToSet(t)
    BY <1>3, <1>4, <1>5, <1>6
  <1>10. Split(c).err => \E x \in ToSet(t) : \A b \in MadeSet(c) : x \notin ToSet(b.items)
    BY <1>3, <1>4, <1>5, <1>6
  <1>11. ~Split(c).err => \A x \in ToSet(t) : \E b \in MadeSet(c) : x \in ToSet(b.items)
    BY <1>3, <1>4, <1>5, <1>6
  <1>12. MaxSize > 0 => \A b \in MadeSet(c) : \A x \in ToSet(b.items) : ~IsBig(x)
    BY <1>4, <1>5, <1>6
  <1> QED BY <1>8, <1>9, <1>10, <1>11, <1>12 DEF B, t, f

\* What ConsumeSplit keeps is small and has no big item.
LEMMA SplitFit ==
  ASSUME AInv, NEW c \in Consumers, ConsumeSplit(c)
  PROVE  CurFit'
  <1> USE DEF AInv, DInv
  <1> DEFINE k == BatchOf(c, Split(c), Pieces(c))
  <1>1. pc[c] = "consume" /\ Split(c).pieces # <<>>
    BY SplitStep
  <1>2. \A q \in Parts : cur'[q] = IF q # part[c] THEN cur[q] ELSE IF Kept(c) THEN k ELSE None
    BY SplitControl
  <1>3. k \in MadeSet(c)
    BY <1>1, FlushedFacts
  <1>4. MaxSize > 0 => \A x \in ToSet(k.items) : ~IsBig(x)
    BY <1>1, <1>3, MadeItems
  <1>5. Kept(c) => Len(k.items) < MinSize
    <2>1. Pieces(c) \in Nat /\ Pieces(c) >= 1
      BY <1>1, ConsumeTypes
    <2>2. k.items = Split(c).pieces[Pieces(c)]
      BY <1>1, <2>1, ConsumeTypes
    <2>3. Kept(c) => Len(Split(c).pieces[Pieces(c)]) < MinSize
      BY DEF Kept, KeepLast, Last, Pieces
    <2> QED BY <2>2, <2>3
  <1> HIDE DEF k
  <1> QED BY <1>2, <1>4, <1>5 DEF CurFit, Fit

\* ConsumeSplit: the batches it makes take over from the current batch, and the
\* request has its items in them, or has failed.
LEMMA AnswersSplit ==
  ASSUME AInv, NEW c \in Consumers, ConsumeSplit(c)
  PROVE  Past' /\ CurFit' /\ ItemsOnce' /\ Fates'
  <1> USE DEF AInv, DInv
  <1> DEFINE r == req[c].id
             o == cur[part[c]]
             M == MadeSet(c)
             a == BatchOf(c, Split(c), 1)
             F == ToSet(Front0(c))
             T == ToSet(taken[r])
  <1>1. /\ pc[c] = "consume" /\ Split(c).pieces # <<>>
        /\ UNCHANGED <<taken, answer, refused, sent>>
        /\ req' = [req EXCEPT ![c] = None]
        /\ failed' = [failed EXCEPT ![r] = Split(c).err]
    BY SplitStep DEF poolVars
  <1>2. /\ part[c] \in Parts /\ r \in Requests /\ Split(c).err \in BOOLEAN
        /\ Pieces(c) \in Nat /\ Pieces(c) >= 1
    BY <1>1, ConsumeTypes
  <1>3. Pending' = (Pending \ {o}) \cup M
    BY SplitMoves
  <1>4. ~Consumed(r) /\ \A q \in Requests : Consumed(q)' <=> Consumed(q) \/ q = r
    BY <1>1, ConsumedMerge
  <1>5. /\ \A x \in F : o \in Pending /\ x \in ToSet(o.items)
        /\ o # None => o \in Pending /\ F = ToSet(o.items)
        /\ T \cap sent = {}
        /\ \A b \in Pending : ToSet(b.items) \cap T = {}
        /\ \A q \in Requests : q # r /\ taken[q] # None => ToSet(taken[q]) \cap T = {}
    BY <1>1, NewItems
  <1>6. \A d \in M : ToSet(d.items) \subseteq F \cup T
    <2>1. ToSet(Merged(c)) = F \cup T
      BY <1>1, NewItems
    <2>2. \A i \in 1..Pieces(c) : ToSet(BatchOf(c, Split(c), i).items) \subseteq ToSet(Merged(c))
      BY <1>1, MadeBatches
    <2> HIDE DEF F, T
    <2> QED BY <2>1, <2>2 DEF MadeSet
  <1>7. \A d, e \in M : d # e => ToSet(d.items) \cap ToSet(e.items) = {}
    <2>1. \A i, j \in 1..Pieces(c) : i # j =>
            ToSet(BatchOf(c, Split(c), i).items) \cap ToSet(BatchOf(c, Split(c), j).items) = {}
      BY <1>1, MadeBatches
    <2> QED BY <2>1 DEF MadeSet
  <1>8. /\ a \in M /\ F \subseteq ToSet(a.items)
        /\ ~Split(c).err /\ taken[r] # <<>> =>
             \A b \in M : \E x \in ToSet(b.items) : x \in T
        /\ Split(c).err => \E x \in T : \A b \in M : x \notin ToSet(b.items)
        /\ ~Split(c).err => \A x \in T : \E b \in M : x \in ToSet(b.items)
    BY <1>1, MadeItems
  <1>9. /\ \A b \in M : r \in b.dones
        /\ \A b \in M : \A q \in Requests : q # r =>
             (q \in b.dones <=> b = a /\ o # None /\ q \in o.dones)
    BY <1>1, MadeDones
  <1>10. \A q \in Requests : failed'[q] = IF q = r THEN Split(c).err ELSE failed[q]
    BY <1>1, <1>2 DEF Counted
  <1>11. answer'[r] = None
    BY <1>1, <1>2, <1>4 DEF Counted
  <1>12. Carriers(r) = {}
    BY <1>2, <1>4, NotCarried
  <1> HIDE DEF r, o, M, a, F, T
  <1>13. Past'
    BY <1>1, <1>2, <1>4 DEF Past
  <1>14. ItemsOnce'
    <2>1. Replaces(Pending, Pending', sent, o, M, F, T)
      BY <1>3, <1>5, <1>6, <1>7 DEF Replaces
    <2>2. Once(Pending, sent)
      BY DEF Once, ItemsOnce
    <2>3. Once(Pending', sent)
      BY <2>1, <2>2, OnceReplaced
    <2> QED BY <1>1, <2>3 DEF Once, ItemsOnce
  <1>15. ASSUME NEW q \in Requests, Consumed(q)', q \notin refused', q # r PROVE Fate(q)'
    <2>1. Consumed(q) /\ q \notin refused
      BY <1>1, <1>4, <1>15
    <2>2. Fate(q) /\ failed'[q] = failed[q] /\ taken[q] # None
      BY <1>10, <1>15, <2>1 DEF Fates, Consumed
    <2>3. \A b \in Carriers(q) : \E d \in Carriers(q)' : ToSet(b.items) \subseteq ToSet(d.items)
      <3> SUFFICES ASSUME NEW b \in Carriers(q)
                   PROVE  \E d \in Carriers(q)' : ToSet(b.items) \subseteq ToSet(d.items)
        OBVIOUS
      <3>0. b \in Pending /\ q \in b.dones
        BY DEF Carriers
      <3>1. CASE b = o
        <4>0. o # None
          <5>1. None \notin Pending
            BY PendingPlaces, NoneAssumption
          <5> QED BY <3>0, <3>1, <5>1
        <4>1. a \in Carriers(q)' /\ ToSet(b.items) \subseteq ToSet(a.items)
          BY <1>3, <1>5, <1>8, <1>9, <1>15, <3>0, <3>1, <4>0 DEF Carriers
        <4> QED BY <4>1
      <3>2. CASE b # o
        <4>1. b \in Carriers(q)'
          BY <1>3, <3>0, <3>2 DEF Carriers
        <4> QED BY <4>1
      <3> QED BY <3>1, <3>2
    <2>4. \A d \in Carriers(q)' : \E b \in Carriers(q) : ToSet(b.items) \subseteq ToSet(d.items)
      <3> SUFFICES ASSUME NEW d \in Carriers(q)'
                   PROVE  \E b \in Carriers(q) : ToSet(b.items) \subseteq ToSet(d.items)
        OBVIOUS
      <3>0. d \in Pending' /\ q \in d.dones
        BY DEF Carriers
      <3>1. CASE d \in M
        <4>1. o \in Carriers(q) /\ ToSet(o.items) \subseteq ToSet(d.items)
          BY <1>5, <1>8, <1>9, <1>15, <3>0, <3>1 DEF Carriers
        <4> QED BY <4>1
      <3>2. CASE d \notin M
        <4>1. d \in Carriers(q)
          BY <1>3, <3>0, <3>2 DEF Carriers
        <4> QED BY <4>1
      <3> QED BY <3>1, <3>2
    <2>5. ASSUME NEW d \in Pending', NEW x \in ToSet(d.items), x \in ToSet(taken[q])
          PROVE  \E b \in Pending : x \in ToSet(b.items)
      <3>1. CASE d \in M
        <4>1. x \in F
          BY <1>5, <1>6, <1>15, <2>2, <2>5, <3>1
        <4> QED BY <1>5, <4>1
      <3>2. CASE d \notin M
        BY <1>3, <2>5, <3>2
      <3> QED BY <3>1, <3>2
    <2> QED BY <1>1, <2>2, <2>3, <2>4, <2>5, FateMoved
  <1>16. ASSUME NEW q \in Requests, q = r PROVE Fate(q)'
    <2>1. Carriers(q)' = M
      <3>1. M \subseteq Carriers(q)'
        BY <1>3, <1>9, <1>16 DEF Carriers
      <3>2. Carriers(q)' \subseteq M
        BY <1>3, <1>12, <1>16 DEF Carriers
      <3> QED BY <3>1, <3>2
    <2>2. failed'[q] = Split(c).err /\ answer'[q] = None /\ taken'[q] = taken[r]
      BY <1>1, <1>10, <1>11, <1>16
    <2>3. ~failed'[q] => \A x \in ToSet(taken'[q]) :
            x \in sent' \/ \E b \in Carriers(q)' : x \in ToSet(b.items)
      BY <1>8, <2>1, <2>2 DEF T
    <2>4. ~failed'[q] /\ taken'[q] # <<>> =>
            \A b \in Carriers(q)' : \E x \in ToSet(b.items) : x \in ToSet(taken'[q])
      BY <1>8, <2>1, <2>2 DEF T
    <2>5. ASSUME failed'[q]
          PROVE  \E x \in ToSet(taken'[q]) : x \notin sent' /\ \A b \in Pending' : x \notin ToSet(b.items)
      <3>1. PICK x \in T : \A b \in M : x \notin ToSet(b.items)
        BY <1>8, <2>2, <2>5
      <3>2. x \notin sent' /\ \A b \in Pending' : x \notin ToSet(b.items)
        BY <1>1, <1>3, <1>5, <3>1
      <3>3. x \in ToSet(taken'[q])
        BY <2>2, <3>1 DEF T
      <3> QED BY <3>2, <3>3
    <2> QED BY <2>2, <2>3, <2>4, <2>5, NoneAssumption DEF Fate
  <1>17. Fates'
    BY <1>15, <1>16 DEF Fates
  <1>18. CurFit'
    BY SplitFit
  <1> QED BY <1>13, <1>14, <1>17, <1>18

\* Exported: the items of the batch were sent, or the requests it carries have
\* failed and it had an item of each.
LEMMA AnswersExported ==
  ASSUME AInv, NEW b \in running, NEW ok \in BOOLEAN, Exported(b, ok)
  PROVE  Past' /\ CurFit' /\ ItemsOnce' /\ Fates'
  <1> USE DEF AInv, DInv
  <1>1. /\ failed' = [r \in Requests |-> failed[r] \/ (r \in b.dones /\ ~ok)]
        /\ answer' = [r \in Requests |->
                  IF r \in b.dones /\ refs[r] = 1
                    THEN (IF failed'[r] THEN "err" ELSE "ok")
                    ELSE answer[r]]
        /\ UNCHANGED <<taken, req, cur, refused>>
        /\ sent' = IF ok THEN sent \cup ToSet(b.items) ELSE sent
    BY DEF Exported, OnDone, consVars
  <1>2. Pending' = Pending \ {b} /\ b \in Pending
    BY ExportedMoves, PendingPlaces
  <1>3. \A r \in Requests : Consumed(r)' <=> Consumed(r)
    BY <1>1, ConsumedSame
  <1>4. \A r \in Requests :
          /\ failed'[r] <=> failed[r] \/ (r \in b.dones /\ ~ok)
          /\ answer'[r] # answer[r] => /\ r \in b.dones
                                       /\ answer'[r] = IF failed'[r] THEN "err" ELSE "ok"
    BY <1>1
  <1>5. \A x \in ToSet(b.items) : x[1] \in Requests /\ Consumed(x[1])
    <2>1. b \in Batches
      BY <1>2, PendingPlaces
    <2>2. b.items \in Seq(Requests \X Nat)
      BY <2>1 DEF Batches
    <2>3. \A x \in ToSet(b.items) : x \in Requests \X Nat
      BY <2>2 DEF ToSet
    <2>4. \A x \in ToSet(b.items) : x[1] \in Requests
      BY <2>3
    <2> QED BY <1>2, <2>4 DEF OfRequests
  <1>6. \A r \in Requests : answer[r] # None => r \notin b.dones
    <2> SUFFICES ASSUME NEW r \in Requests, r \in b.dones PROVE answer[r] = None
      OBVIOUS
    <2>1. b \in Carriers(r) /\ Consumed(r)
      BY <1>2 DEF Carriers, OfRequests
    <2> QED BY <2>1 DEF Counted
  <1>7. Past'
    <2>1. \A x \in sent' : x[1] \in Requests /\ Consumed(x[1])'
      BY <1>1, <1>3, <1>5 DEF Past
    <2>2. \A r \in refused' : r \in Requests /\ Consumed(r)' /\ answer'[r] = "err"
      BY <1>1, <1>3, <1>4, <1>6, NoneAssumption DEF Past
    <2> QED BY <2>1, <2>2 DEF Past
  <1>8. CurFit'
    BY <1>1 DEF CurFit
  <1>9. ItemsOnce'
    <2>1. \A d \in Pending' : d \in Pending /\ d # b
      BY <1>2
    <2>2. \A d \in Pending' : ToSet(d.items) \cap sent = {} /\ ToSet(d.items) \cap ToSet(b.items) = {}
      BY <1>2, <2>1 DEF ItemsOnce
    <2>3. \A d \in Pending' : ToSet(d.items) \cap sent' = {}
      BY <1>1, <2>2
    <2>4. \A d, e \in Pending' : d # e => ToSet(d.items) \cap ToSet(e.items) = {}
      BY <2>1 DEF ItemsOnce
    <2> QED BY <2>3, <2>4 DEF ItemsOnce
  <1>10. ASSUME NEW r \in Requests, Consumed(r)', r \notin refused' PROVE Fate(r)'
    <2>1. Fate(r)
      BY <1>1, <1>3, <1>10 DEF Fates
    <2>2. \A d : d \in Carriers(r)' <=> d \in Carriers(r) /\ d # b
      BY <1>2 DEF Carriers
    <2>3. r \in b.dones <=> b \in Carriers(r)
      BY <1>2 DEF Carriers
    <2>4. ASSUME ~failed'[r], NEW x \in ToSet(taken'[r])
          PROVE  x \in sent' \/ \E d \in Carriers(r)' : x \in ToSet(d.items)
      <3>1. ~failed[r] /\ (ok \/ b \notin Carriers(r)) /\ x \in ToSet(taken[r])
        BY <1>1, <1>4, <2>3, <2>4
      <3>2. x \in sent \/ \E d \in Carriers(r) : x \in ToSet(d.items)
        BY <2>1, <3>1 DEF Fate
      <3> QED BY <1>1, <2>2, <3>1, <3>2
    <2>5. ASSUME ~failed'[r], taken'[r] # <<>>, NEW d \in Carriers(r)'
          PROVE  \E x \in ToSet(d.items) : x \in ToSet(taken'[r])
      BY <1>1, <1>4, <2>1, <2>2, <2>5 DEF Fate
    <2>6. ASSUME failed'[r], taken'[r] # <<>>
          PROVE  \E x \in ToSet(taken'[r]) : x \notin sent' /\ \A d \in Pending' : x \notin ToSet(d.items)
      <3>1. CASE failed[r]
        <4>1. PICK x \in ToSet(taken[r]) : x \notin sent /\ \A d \in Pending : x \notin ToSet(d.items)
          BY <1>1, <2>1, <2>6, <3>1 DEF Fate
        <4>2. x \notin sent' /\ \A d \in Pending' : x \notin ToSet(d.items)
          BY <1>1, <1>2, <4>1
        <4> QED BY <1>1, <4>1, <4>2
      <3>2. CASE ~failed[r]
        <4>1. b \in Carriers(r) /\ ~ok /\ sent' = sent
          BY <1>1, <1>4, <2>3, <2>6, <3>2
        <4>2. PICK x \in ToSet(b.items) : x \in ToSet(taken[r])
          BY <1>1, <2>1, <2>6, <3>2, <4>1 DEF Fate
        <4>3. x \notin sent /\ \A d \in Pending : d # b => x \notin ToSet(d.items)
          BY <1>2, <4>2 DEF ItemsOnce
        <4>4. x \notin sent' /\ \A d \in Pending' : x \notin ToSet(d.items)
          BY <1>2, <4>1, <4>3
        <4> QED BY <1>1, <4>2, <4>4
      <3> QED BY <3>1, <3>2
    <2>7. (answer'[r] = "ok" => ~failed'[r]) /\ (answer'[r] = "err" => failed'[r])
      <3>1. CASE answer'[r] = answer[r]
        <4>1. answer[r] # None => (failed'[r] <=> failed[r])
          BY <1>4, <1>6
        <4> QED BY <2>1, <3>1, <4>1, NoneAssumption DEF Fate
      <3>2. CASE answer'[r] # answer[r]
        BY <1>4, <3>2
      <3> QED BY <3>1, <3>2
    <2> QED BY <2>4, <2>5, <2>6, <2>7 DEF Fate
  <1> QED BY <1>7, <1>8, <1>9, <1>10 DEF Fates

\* Initially nothing was taken.
LEMMA InitAnswers ==
  ASSUME Init
  PROVE  Past /\ CurFit /\ ItemsOnce /\ Fates
  <1>1. Pending = {} /\ \A r \in Requests : ~Consumed(r)
    BY InitBatches
  <1>2. cur = [p \in Parts |-> None] /\ sent = {} /\ refused = {}
    BY DEF Init
  <1> QED BY <1>1, <1>2 DEF Past, CurFit, ItemsOnce, Fates

\* Every step.
LEMMA NextAnswers ==
  ASSUME AInv, [Next]_vars
  PROVE  Past' /\ CurFit' /\ ItemsOnce' /\ Fates'
  <1> USE DEF AInv, DInv
  <1>1. CASE Calm
    <2>1. \A r \in Requests : (Consumed(r)' <=> Consumed(r)) /\ (Consumed(r) => taken'[r] = taken[r])
      BY <1>1, ConsumedCalm
    <2>2. Pending' = Pending /\ UNCHANGED <<failed, answer, refused, sent, cur>>
      BY <1>1 DEF Calm, Pending, Current, Queued
    <2> QED BY <2>1, <2>2, AnswersSame
  <1>2. ASSUME NEW g \in Goroutines, FlushCurrent(g) \/ FlushExecute(g)
        PROVE  Past' /\ CurFit' /\ ItemsOnce' /\ Fates'
    <2>1. Pending' = Pending
      BY <1>2, FlushCurrentMoves, FlushExecuteMoves
    <2>2. UNCHANGED <<taken, req, failed, answer, refused, sent>>
      BY <1>2 DEF FlushCurrent, FlushExecute, consVars, doneVars, poolVars
    <2>3. \A r \in Requests : Consumed(r)' <=> Consumed(r)
      BY <2>2, ConsumedSame
    <2>4. \A p \in Parts : cur'[p] # None => cur'[p] = cur[p]
      <3>1. FlushExecute(g) => cur' = cur
        BY DEF FlushExecute
      <3> QED BY <1>2, <3>1, FlushCurrentControl
    <2> QED BY <2>1, <2>2, <2>3, <2>4, AnswersSame
  <1> QED BY <1>1, <1>2, StepKinds, AnswersRefused, AnswersSplit, AnswersExported

\* A request is answered "ok" only when every item of it was exported, and with
\* an error, unless MergeSplit refused it, only when one was not; and no item is
\* exported twice, however requests are merged, split and exported in parallel.
THEOREM BatcherAnswerIsTrue == Spec => []AnswerIsTrue
  <1>1. Init => AInv
    BY InitControl, InitBatches, InitCounted, InitAnswers DEF AInv, DInv
  <1>2. AInv /\ [Next]_vars => AInv'
    BY NextBatches, NextCounted, NextAnswers DEF AInv
  <1>3. AInv => AnswerIsTrue
    BY FatesAnswer
  <1> QED BY <1>1, <1>2, <1>3, PTL DEF Spec
=============================================================================
