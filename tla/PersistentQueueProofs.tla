----------------------- MODULE PersistentQueueProofs ------------------------
(***************************************************************************)
(* The safety properties of the persistent queue, over any number of       *)
(* crashes and restarts, from three inductive invariants.                  *)
(*                                                                         *)
(* Base holds always: the types, the order of the indices in the metadata  *)
(* (Ordered), what producers, consumers and Start hold (Roles, Copied),    *)
(* and that no index is served twice (Served).                             *)
(*                                                                         *)
(* Kept says where an accepted and unfinished request is: stored under an  *)
(* index that the metadata on disk lists, or in the list that Start puts   *)
(* back.  Exact says that, without a storage failure, the size on disk     *)
(* and in memory is what the stored items add up to.  A crash while Start  *)
(* puts items back destroys that list, so both are preserved only under    *)
(* ~CrashWhileReputting: with such crashes requests are lost.              *)
(***************************************************************************)
EXTENDS PersistentQueue, Totals

-----------------------------------------------------------------------------
(* The inductive invariant *)

\* The positions in which a consumer holds a request, and in which its index is
\* dispatched.
Holds(c) == cpc[c] \in {"consume", "onDone", "interrupted", "unref"}
Serving(c) == cpc[c] \in {"consume", "onDone", "interrupted"}

\* TypeOK, and the items that Start has still to put back.
Types ==
  /\ TypeOK
  /\ IsFiniteSet(DOMAIN store)
  /\ pend \in Seq(Items \cup {None}) \cup {None}
  /\ life = "put" => pend \in Seq(Items \cup {None})

\* The dispatched indices are below the read index and listed once.
WellFormed(m) ==
  /\ m.ri <= m.wi
  /\ IsInjective(m.cdi)
  /\ \A k \in DOMAIN m.cdi : m.cdi[k] < m.ri

Ordered == WellFormed(meta) /\ (smeta # None => WellFormed(smeta))

\* Producers and consumers exist while the queue is started, and hold what
\* their position says.
Roles ==
  /\ \A c \in Consumers : cur[c] # None <=> Holds(c)
  /\ \A p \in Producers : ppc[p] # "idle" => offer[p] # None
  /\ stopped <=> life = "draining"
  /\ ~Started =>
       /\ refClient = 1
       /\ \A c \in Consumers : cpc[c] = "exit"
       /\ \A p \in Producers : ppc[p] = "idle"

\* Between reading the dispatched items and deleting them Start has copies.
Copied ==
  life = "cleanup" =>
    /\ smeta # None /\ meta = smeta
    /\ IF pend = None
         THEN \A i \in DOMAIN store : i \in Range(meta.cdi) => store[i] \in dropped
         ELSE /\ Len(pend) = Len(meta.cdi)
              /\ \A k \in DOMAIN pend : pend[k] = ItemAt(meta.cdi[k], None)

\* Two consumers never hold the same index, and a consumer holds what is stored
\* under its index for as long as that is there.
Served ==
  /\ \A c, d \in Consumers : c # d /\ Holds(c) /\ Holds(d) => cur[c].idx # cur[d].idx
  /\ \A c \in Consumers : Holds(c) => cur[c].idx < meta.ri
  /\ \A c \in Consumers : Serving(c) =>
       /\ cur[c].idx \in Range(meta.cdi)
       /\ cur[c].idx \in DOMAIN store => store[cur[c].idx] = cur[c].el

Base == Types /\ Ordered /\ Roles /\ Copied /\ Served /\ ClientOpenWhileUsed

\* Where r is stored it is found after a restart, and it will not be overwritten
\* or deleted before.
Queued(m) == m.ri..(m.wi - 1)

Stays(i) == (life = "put" => i \in Queued(meta)) /\ (Started => i \in Indices(meta))

Stored(r) ==
  smeta # None /\ \E i \in DOMAIN store : i \in Indices(smeta) /\ store[i] = r /\ Stays(i)

Copy(r) == life = "put" /\ \E k \in DOMAIN pend : pend[k] = r

Unfinished == accepted \ (completed \cup dropped)

Kept == \A r \in Unfinished : Stored(r) \/ Copy(r)

\* The sizes of the items in s, a store or a list with gaps, add up to this.
Filled(s) == {i \in DOMAIN s : s[i] # None}
SizesOf(s) == Total([i \in Filled(s) |-> s[i].size], Filled(s))

\* The listed indices whose item is still there.
Present(m, s) == {k \in DOMAIN m.cdi : m.cdi[k] \in DOMAIN s}

\* Metadata m describes store s.
ExactFor(m, s) ==
  /\ DOMAIN s = Indices(m)
  /\ m.isz = SizesOf(s)
  /\ IF sizerType = "requests" THEN requestSize(m) <= Cap ELSE m.isz <= Cap

\* The same, except that m may still list items that were put back.
DiskFor(m, s) ==
  /\ DOMAIN s \subseteq Indices(m) /\ Queued(m) \subseteq DOMAIN s
  /\ m.isz = SizesOf(s)
  /\ IF sizerType = "requests" THEN m.wi - m.ri + Cardinality(Present(m, s)) <= Cap
                               ELSE m.isz <= Cap

\* The same, while the items in q are put back.
PutFor(m, s, q) ==
  /\ DOMAIN s = Queued(m)
  /\ m.isz = SizesOf(s) + SizesOf(q)
  /\ IF sizerType = "requests" THEN m.wi - m.ri + Cardinality(Filled(q)) <= Cap
                               ELSE m.isz <= Cap

\* As long as the storage has not failed, metadata and store agree.
Exact ==
  faults = 0 =>
    /\ life # "put" => IF smeta = None THEN DOMAIN store = {} ELSE DiskFor(smeta, store)
    /\ life = "cleanup" => pend # None
    /\ life = "put" => smeta = meta /\ PutFor(meta, store, pend)
    /\ Started /\ refClient > 0 => smeta # None /\ ExactFor(meta, store)

-----------------------------------------------------------------------------
(* Metadata and items *)

\* The fields of metadata and of what consumers hold.
LEMMA Fields ==
  /\ \A m \in Metadata : m # None /\ m.ri \in Nat /\ m.wi \in Nat /\ m.cdi \in Seq(Nat) /\ m.isz \in Nat
  /\ \A h \in Handed : h # None /\ h.idx \in Nat /\ h.el \in Items
  /\ \A r \in Items : r # None /\ r.size \in Nat
  /\ Requests \subseteq Items /\ Empty \in Items
  /\ \A r \in Requests : r.size \in Nat \ {0} /\ r.p \in Producers
  <1>1. \A r \in Requests : r.size \in Nat \ {0} /\ r.p \in Producers
    BY QueueAssumption DEF Requests
  <1>2. Requests \subseteq Items /\ Empty \in Items
    BY DEF Items
  <1>3. ASSUME NEW r \in Items PROVE r # None /\ r.size \in Nat
    <2>1. Empty.size = 0
      BY DEF Empty
    <2> QED BY <1>1, <2>1, NoneAssumption DEF Items
  <1>4. \A m \in Metadata : m # None /\ m.ri \in Nat /\ m.wi \in Nat /\ m.cdi \in Seq(Nat) /\ m.isz \in Nat
    BY NoneAssumption DEF Metadata
  <1>5. \A h \in Handed : h # None /\ h.idx \in Nat /\ h.el \in Items
    BY NoneAssumption DEF Handed
  <1> QED BY <1>1, <1>2, <1>3, <1>4, <1>5

\* Removing a listed index leaves the others, each listed once.
LEMMA RemoveListed ==
  ASSUME NEW m \in Metadata, WellFormed(m), NEW i, i \in Range(m.cdi)
  PROVE  LET r == RemoveDispatched(m, i)
         IN /\ r \in Metadata /\ r.ri = m.ri /\ r.wi = m.wi /\ r.isz = m.isz
            /\ Range(r.cdi) = Range(m.cdi) \ {i}
            /\ Len(r.cdi) = Len(m.cdi) - 1
            /\ WellFormed(r)
  <1> DEFINE s == m.cdi
             n == Len(s)
             k == CHOOSE j \in 1..n : s[j] = i
             t == [s EXCEPT ![k] = s[n]]
             u == SubSeq(t, 1, n - 1)
  <1>1. s \in Seq(Nat) /\ n \in Nat /\ DOMAIN s = 1..n
    BY Fields
  <1>2. \E j \in 1..n : s[j] = i
    BY <1>1 DEF Range
  <1>3. k \in 1..n /\ s[k] = i /\ n >= 1
    BY <1>1, <1>2
  <1>4. RemoveDispatched(m, i) = [m EXCEPT !.cdi = u]
    BY DEF RemoveDispatched
  <1> HIDE DEF k
  <1>5. t \in Seq(Nat) /\ Len(t) = n /\ t[k] = s[n] /\ (\A j \in 1..n : j # k => t[j] = s[j])
    BY <1>1, <1>3
  <1> HIDE DEF t
  <1>a. n - 1 \in Nat /\ 1 \in 1..Len(t) /\ n - 1 \in 0..Len(t)
    BY <1>1, <1>3, <1>5
  <1>6. u \in Seq(Nat) /\ Len(u) = n - 1 /\ DOMAIN u = 1..(n - 1)
    <2>1. u = [j \in 1..(n - 1) |-> t[j]]
      BY <1>1, <1>5, <1>a
    <2>2. \A j \in 1..(n - 1) : t[j] \in Nat
      BY <1>1, <1>5, <1>a
    <2> QED BY <2>1, <2>2, <1>a
  <1>7. \A j \in 1..(n - 1) : u[j] = t[j]
    BY <1>1, <1>5, <1>a
  <1> HIDE DEF u
  <1>8. \A a, b \in 1..n : s[a] = s[b] => a = b
    BY <1>1 DEF WellFormed, IsInjective
  <1>b. \A j \in 1..n : s[j] < m.ri
    BY <1>1 DEF WellFormed
  <1> HIDE DEF s, n
  <1>9. ASSUME NEW j \in 1..(n - 1) PROVE u[j] = IF j = k THEN s[n] ELSE s[j]
    <2>1. j \in 1..n /\ u[j] = t[j]
      BY <1>1, <1>7
    <2> QED BY <2>1, <1>5
  <1>10. Range(u) = Range(s) \ {i}
    <2>1. ASSUME NEW j \in 1..(n - 1) PROVE u[j] \in Range(s) /\ u[j] # i
      <3>1. j \in 1..n /\ n \in 1..n /\ j # n
        BY <1>1, <1>3
      <3>2. \A l \in 1..n : s[l] \in Range(s) /\ (s[l] = i => l = k)
        BY <1>1, <1>3, <1>8 DEF Range
      <3> QED BY <3>1, <3>2, <1>3, <1>9
    <2>2. ASSUME NEW j \in 1..n, s[j] # i PROVE \E l \in 1..(n - 1) : u[l] = s[j]
      <3>1. CASE j = n
        <4>1. k \in 1..(n - 1)
          BY <1>1, <1>3, <2>2, <3>1
        <4> QED BY <4>1, <3>1, <1>9
      <3>2. CASE j # n
        <4>1. j \in 1..(n - 1) /\ j # k
          BY <1>1, <1>3, <2>2, <3>2
        <4> QED BY <4>1, <1>9
      <3> QED BY <3>1, <3>2
    <2>3. ASSUME NEW x \in Range(s) \ {i} PROVE x \in Range(u)
      <3>1. PICK j \in 1..n : s[j] = x
        BY <1>1 DEF Range
      <3>2. PICK l \in 1..(n - 1) : u[l] = s[j]
        BY <3>1, <2>2
      <3> QED BY <3>1, <3>2, <1>6 DEF Range
    <2>4. Range(u) \subseteq Range(s) \ {i}
      BY <2>1, <1>6 DEF Range
    <2> QED BY <2>3, <2>4
  <1>11. \A a, b \in 1..(n - 1) : u[a] = u[b] => a = b
    <2> SUFFICES ASSUME NEW a \in 1..(n - 1), NEW b \in 1..(n - 1), u[a] = u[b] PROVE a = b
      OBVIOUS
    <2>1. a \in 1..n /\ b \in 1..n /\ n \in 1..n /\ a # n /\ b # n
      BY <1>1, <1>3
    <2> QED BY <2>1, <1>8, <1>9
  <1>12. \A j \in 1..(n - 1) : u[j] < m.ri
    <2>1. \A j \in 1..(n - 1) : j \in 1..n /\ n \in 1..n
      BY <1>1, <1>3
    <2> QED BY <2>1, <1>b, <1>9
  <1> DEFINE r == [m EXCEPT !.cdi = u]
  <1>13. r \in Metadata /\ r.ri = m.ri /\ r.wi = m.wi /\ r.isz = m.isz /\ r.cdi = u
    BY <1>6 DEF Metadata
  <1>14. WellFormed(r)
    BY <1>6, <1>11, <1>12, <1>13 DEF WellFormed, IsInjective
  <1> HIDE DEF r
  <1> QED BY <1>4, <1>6, <1>10, <1>13, <1>14 DEF r, s, n

\* The size is set to zero when nothing is left, and nothing else changes.
LEMMA SyncFields ==
  ASSUME NEW m \in Metadata, WellFormed(m)
  PROVE  LET r == SyncSize(m)
         IN /\ r \in Metadata /\ r.ri = m.ri /\ r.wi = m.wi /\ r.cdi = m.cdi
            /\ r.isz = IF requestSize(m) = 0 THEN 0 ELSE m.isz
            /\ WellFormed(r)
  <1>1. m.ri \in Nat /\ m.wi \in Nat /\ m.cdi \in Seq(Nat) /\ m.isz \in Nat
    BY Fields
  <1>2. [m EXCEPT !.isz = 0] \in Metadata
    BY DEF Metadata
  <1> QED BY <1>1, <1>2 DEF SyncSize, WellFormed, Metadata

\* itemDispatchingFinish, on a listed index.
LEMMA FinishedFields ==
  ASSUME NEW m \in Metadata, WellFormed(m), NEW i, i \in Range(m.cdi)
  PROVE  LET r == Finished(m, i)
         IN /\ r \in Metadata /\ r.ri = m.ri /\ r.wi = m.wi
            /\ Range(r.cdi) = Range(m.cdi) \ {i}
            /\ Len(r.cdi) = Len(m.cdi) - 1
            /\ r.isz = IF m.wi - m.ri + Len(m.cdi) - 1 = 0 THEN 0 ELSE m.isz
            /\ WellFormed(r)
  <1> DEFINE d == RemoveDispatched(m, i)
  <1>1. /\ d \in Metadata /\ d.ri = m.ri /\ d.wi = m.wi /\ d.isz = m.isz
        /\ Range(d.cdi) = Range(m.cdi) \ {i}
        /\ Len(d.cdi) = Len(m.cdi) - 1
        /\ WellFormed(d)
    BY RemoveListed
  <1>2. m.ri \in Nat /\ m.wi \in Nat /\ Len(m.cdi) \in Nat
    BY Fields
  <1>3. requestSize(d) = m.wi - m.ri + Len(m.cdi) - 1
    BY <1>1, <1>2 DEF requestSize
  <1> HIDE DEF d
  <1>4. /\ SyncSize(d) \in Metadata /\ SyncSize(d).ri = d.ri /\ SyncSize(d).wi = d.wi
        /\ SyncSize(d).cdi = d.cdi
        /\ SyncSize(d).isz = IF requestSize(d) = 0 THEN 0 ELSE d.isz
        /\ WellFormed(SyncSize(d))
    BY <1>1, SyncFields
  <1>5. Finished(m, i) = SyncSize(d)
    BY DEF Finished, d
  <1> QED BY <1>1, <1>3, <1>4, <1>5

\* getNextItem moves the read index into the list.
LEMMA DispatchedFields ==
  ASSUME meta \in Metadata, WellFormed(meta), meta.ri # meta.wi
  PROVE  /\ Dispatched \in Metadata
         /\ Dispatched.ri = meta.ri + 1 /\ Dispatched.wi = meta.wi /\ Dispatched.isz = meta.isz
         /\ Len(Dispatched.cdi) = Len(meta.cdi) + 1
         /\ Range(Dispatched.cdi) = Range(meta.cdi) \cup {meta.ri}
         /\ WellFormed(Dispatched)
  <1> DEFINE s == meta.cdi
             n == Len(s)
             t == Append(s, meta.ri)
  <1>1. s \in Seq(Nat) /\ n \in Nat /\ DOMAIN s = 1..n /\ meta.ri \in Nat /\ meta.wi \in Nat
    BY Fields
  <1>2. t \in Seq(Nat) /\ Len(t) = n + 1 /\ DOMAIN t = 1..(n + 1)
        /\ t[n + 1] = meta.ri /\ \A j \in 1..n : t[j] = s[j]
    BY <1>1
  <1>3. Dispatched \in Metadata /\ Dispatched.ri = meta.ri + 1 /\ Dispatched.wi = meta.wi
        /\ Dispatched.isz = meta.isz /\ Dispatched.cdi = t
    <2>1. Dispatched = [meta EXCEPT !.ri = meta.ri + 1, !.cdi = t]
      BY DEF Dispatched
    <2> HIDE DEF t
    <2>2. meta.ri + 1 \in Nat
      BY <1>1
    <2> QED BY <1>2, <2>1, <2>2 DEF Metadata
  <1> HIDE DEF t
  <1>4. \A j \in 1..(n + 1) : j \in 1..n \/ j = n + 1
    BY <1>1
  <1>5. n + 1 \in 1..(n + 1) /\ \A j \in 1..n : j \in 1..(n + 1) /\ j # n + 1
    BY <1>1
  <1>6. Range(t) = Range(s) \cup {meta.ri}
    BY <1>1, <1>2, <1>4, <1>5 DEF Range
  <1>7. \A j \in 1..n : s[j] < meta.ri /\ s[j] \in Nat /\ s[j] # meta.ri
    BY <1>1 DEF WellFormed
  <1>8. \A a, b \in 1..n : s[a] = s[b] => a = b
    BY <1>1 DEF WellFormed, IsInjective
  <1>9. WellFormed(Dispatched)
    <2>3. meta.ri + 1 <= meta.wi
      BY <1>1 DEF WellFormed
    <2> HIDE DEF s, n
    <2>1. ASSUME NEW a \in 1..(n + 1), NEW b \in 1..(n + 1), t[a] = t[b] PROVE a = b
      BY <2>1, <1>2, <1>4, <1>7, <1>8
    <2>2. ASSUME NEW a \in 1..(n + 1) PROVE t[a] < meta.ri + 1
      <3>1. CASE a \in 1..n
        BY <3>1, <1>1, <1>2, <1>7
      <3>2. CASE a = n + 1
        BY <3>2, <1>1, <1>2
      <3> QED BY <3>1, <3>2, <1>4
    <2> QED BY <1>2, <1>3, <2>1, <2>2, <2>3 DEF WellFormed, IsInjective
  <1> QED BY <1>2, <1>3, <1>6, <1>9

-----------------------------------------------------------------------------
(* Steps that leave metadata and storage alone *)

\* A step of a goroutine keeps the types of mutex and cond.
LEMMA CondTypes ==
  ASSUME C!TypeOK, NEW g \in Goroutines,
         \/ C!Lock(g) \/ C!Unlock(g) \/ C!Signal(g) \/ C!Send(g) \/ C!Wait(g)
         \/ C!CtxDone(g) \/ C!CtxRelock(g) \/ C!Drain(g) \/ C!Receive(g) \/ C!Relock(g)
  PROVE  C!TypeOK'
  <1>1. CASE C!Lock(g) \/ C!Unlock(g) \/ C!Relock(g)
    BY <1>1 DEF C!Lock, C!Unlock, C!Relock, C!TypeOK, C!Positions
  <1>2. CASE C!Signal(g) \/ C!Send(g)
    BY <1>2 DEF C!Signal, C!Send, C!TypeOK, C!Positions
  <1>3. CASE C!Wait(g) \/ C!CtxDone(g)
    BY <1>3 DEF C!Wait, C!CtxDone, C!TypeOK, C!Positions
  <1>4. CASE C!CtxRelock(g)
    BY <1>4 DEF C!CtxRelock, C!TypeOK, C!Positions
  <1>5. CASE C!Drain(g) \/ C!Receive(g)
    BY <1>5 DEF C!Drain, C!Receive, C!TypeOK, C!Positions
  <1> QED BY <1>1, <1>2, <1>3, <1>4, <1>5

\* Only a started queue has goroutines.
LEMMA Active ==
  ASSUME Base
  PROVE  /\ \A p \in Producers : ppc[p] # "idle" => Started
         /\ \A c \in Consumers : cpc[c] # "exit" => Started
  BY DEF Base, Roles

\* A producer goes on, and nothing but mutex and producers changes.
LEMMA ProducerMoves ==
  ASSUME Base, C!TypeOK', Started,
         ppc' \in [Producers -> {"idle", "offer", "cancelled"}],
         offer' \in [Producers -> Requests \cup {None}],
         offers' \in [Producers -> 0..MaxOffers],
         \A p \in Producers : ppc'[p] # "idle" => offer'[p] # None,
         UNCHANGED <<confVars, memVars, diskVars, lifeVars, consVars, histVars, faults>>
  PROVE  Base'
  <1> USE DEF Base, confVars, memVars, diskVars, lifeVars, consVars, histVars
  <1>1. Types'
    BY DEF Types, TypeOK
  <1>2. Ordered'
    BY DEF Ordered
  <1>3. Roles'
    BY DEF Roles, Started, Holds
  <1>4. Copied'
    BY DEF Copied, ItemAt
  <1>5. Served' /\ ClientOpenWhileUsed'
    BY DEF Served, Holds, Serving, ClientOpenWhileUsed, Started
  <1> QED BY <1>1, <1>2, <1>3, <1>4, <1>5

\* A consumer goes on with what it holds, and nothing but mutex and consumers
\* changes.
LEMMA ConsumerMoves ==
  ASSUME Base, C!TypeOK', Started,
         cpc' \in [Consumers -> {"read", "parked", "consume", "onDone", "interrupted", "unref",
                                 "exit"}],
         \A c \in Consumers : Holds(c)' = Holds(c) /\ (Serving(c)' => Serving(c)),
         UNCHANGED <<confVars, memVars, diskVars, lifeVars, prodVars, cur, histVars, faults>>
  PROVE  Base'
  <1> USE DEF Base, confVars, memVars, diskVars, lifeVars, prodVars, histVars
  <1>1. Types'
    BY DEF Types, TypeOK
  <1>2. Ordered'
    BY DEF Ordered
  <1>3. Roles'
    BY DEF Roles, Started
  <1>4. Copied'
    BY DEF Copied, ItemAt
  <1>5. Served' /\ ClientOpenWhileUsed'
    BY DEF Served, ClientOpenWhileUsed, Started
  <1> QED BY <1>1, <1>2, <1>3, <1>4, <1>5

\* Offer up to, and without, its put.
QuietOffer(p) ==
  \/ OfferLock(p) \/ OfferFull(p) \/ OfferWait(p) \/ OfferWoken(p)
  \/ OfferCtxDone(p) \/ OfferCtxRelock(p) \/ OfferCancelled(p)

\* The steps of Offer that touch neither the metadata nor the storage.
LEMMA QuietOfferBase ==
  ASSUME Base, NEW p \in Producers, QuietOffer(p)
  PROVE  Base' /\ Started
  <1>0. p \in Goroutines
    BY DEF Goroutines
  <1>1. C!TypeOK'
    BY <1>0, CondTypes DEF QuietOffer, OfferLock, OfferFull, OfferWait, OfferWoken, OfferCtxDone,
      OfferCtxRelock, OfferCancelled, Return, Base, Types, TypeOK
  <1>2. Started
    BY Active DEF QuietOffer, OfferLock, OfferFull, OfferWait, OfferWoken, OfferCtxDone,
      OfferCtxRelock, OfferCancelled
  <1>3. UNCHANGED <<confVars, memVars, diskVars, lifeVars, consVars, histVars, faults>>
    BY DEF QuietOffer, OfferLock, OfferFull, OfferWait, OfferWoken, OfferCtxDone,
      OfferCtxRelock, OfferCancelled, Return
  <1>4. /\ ppc \in [Producers -> {"idle", "offer", "cancelled"}]
        /\ offer \in [Producers -> Requests \cup {None}]
        /\ offers \in [Producers -> 0..MaxOffers]
        /\ \A q \in Producers : ppc[q] # "idle" => offer[q] # None
    BY DEF Base, Types, TypeOK, Roles
  <1>5. /\ ppc' \in [Producers -> {"idle", "offer", "cancelled"}]
        /\ offer' \in [Producers -> Requests \cup {None}]
        /\ offers' \in [Producers -> 0..MaxOffers]
        /\ \A q \in Producers : ppc'[q] # "idle" => offer'[q] # None
    <2>1. CASE OfferLock(p)
      <3>1. PICK r \in Requests : offer' = [offer EXCEPT ![p] = r]
        BY <2>1 DEF OfferLock
      <3>2. r # None
        BY Fields
      <3>3. offers[p] + 1 \in 0..MaxOffers
        BY <2>1, <1>4, QueueAssumption DEF OfferLock
      <3> QED BY <2>1, <3>1, <3>2, <3>3, <1>4 DEF OfferLock
    <2>2. CASE OfferFull(p) \/ OfferCancelled(p)
      BY <2>2, <1>4 DEF OfferFull, OfferCancelled, Return
    <2>3. CASE OfferWait(p) \/ OfferWoken(p) \/ OfferCtxRelock(p)
      BY <2>3, <1>4 DEF OfferWait, OfferWoken, OfferCtxRelock, prodVars
    <2>4. CASE OfferCtxDone(p)
      BY <2>4, <1>4 DEF OfferCtxDone
    <2> QED BY <2>1, <2>2, <2>3, <2>4 DEF QuietOffer
  <1> QED BY <1>1, <1>2, <1>3, <1>5, ProducerMoves

\* The consumer's steps that only lock, unlock, wait or tell.
QuietRead(c) ==
  \/ ReadLock(c) \/ ReadStopped(c) \/ ReadPark(c) \/ ReadDropSend(c) \/ OnDoneLock(c)
  \/ OnDoneSend(c)

\* The steps of Read and OnDone that touch neither the metadata nor the storage.
LEMMA QuietReadBase ==
  ASSUME Base, NEW c \in Consumers, QuietRead(c)
  PROVE  Base' /\ Started
  <1>0. c \in Goroutines
    BY DEF Goroutines
  <1>1. C!TypeOK'
    BY <1>0, CondTypes DEF QuietRead, ReadLock, ReadStopped, ReadPark, ReadDropSend, OnDoneLock,
      OnDoneSend, Base, Types, TypeOK
  <1>2. Started
    BY Active DEF QuietRead, ReadLock, ReadStopped, ReadPark, ReadDropSend, OnDoneLock,
      OnDoneSend
  <1>3. UNCHANGED <<confVars, memVars, diskVars, lifeVars, prodVars, cur, histVars, faults>>
    BY DEF QuietRead, ReadLock, ReadStopped, ReadPark, ReadDropSend, OnDoneLock, OnDoneSend,
      consVars
  <1>4. cpc \in [Consumers -> {"read", "parked", "consume", "onDone", "interrupted", "unref",
                               "exit"}]
    BY DEF Base, Types, TypeOK
  <1>5. /\ cpc' \in [Consumers -> {"read", "parked", "consume", "onDone", "interrupted",
                                   "unref", "exit"}]
        /\ \A d \in Consumers : Holds(d)' = Holds(d) /\ (Serving(d)' => Serving(d))
    <2>1. CASE ReadLock(c) \/ ReadDropSend(c) \/ OnDoneSend(c)
      BY <2>1, <1>4 DEF ReadLock, ReadDropSend, OnDoneSend, consVars, Holds, Serving
    <2>2. CASE ReadStopped(c) \/ ReadPark(c)
      BY <2>2, <1>4 DEF ReadStopped, ReadPark, Holds, Serving
    <2>3. CASE OnDoneLock(c)
      BY <2>3, <1>4 DEF OnDoneLock, Holds, Serving
    <2> QED BY <2>1, <2>2, <2>3 DEF QuietRead
  <1> QED BY <1>1, <1>2, <1>3, <1>5, ConsumerMoves

\* Shutdown of the retry sender and of the queue.
LEMMA ShutdownBase ==
  ASSUME Base, ShutdownRetry \/ ShutdownQueue
  PROVE  Base' /\ Started /\ Started' /\ refClient' <= refClient
  <1> USE DEF Base
  <1>1. CASE ShutdownRetry
    <2>1. /\ life = "run" /\ life' = "stopping" /\ retryStopped' = TRUE
          /\ stops < MaxStops /\ stops' = stops + 1
          /\ UNCHANGED <<sizerType, blockOnOverflow, mu, waiting, ch, at, meta, stopped,
                         refClient, smeta, store, pend, ppc, offer, offers, cpc, cur, accepted,
                         completed, dropped, faults>>
      BY <1>1 DEF ShutdownRetry, confVars, condVars, memVars, diskVars, prodVars, consVars,
        histVars
    <2>2. Types'
      BY <2>1, QueueAssumption DEF Types, TypeOK, C!TypeOK
    <2>3. Ordered' /\ Copied'
      BY <2>1 DEF Ordered, Copied
    <2>4. Roles' /\ ClientOpenWhileUsed'
      BY <2>1 DEF Roles, ClientOpenWhileUsed, Started, Holds
    <2>5. Served'
      BY <2>1 DEF Served, Holds, Serving
    <2> QED BY <2>1, <2>2, <2>3, <2>4, <2>5 DEF Started, Types, TypeOK
  <1>2. CASE ShutdownQueue
    <2>1. /\ life = "stopping" /\ life' = "draining" /\ stopped' = TRUE
          /\ cpc' = [c \in Consumers |-> IF cpc[c] = "parked" THEN "read" ELSE cpc[c]]
          /\ refClient' = refClient - 1
          /\ UNCHANGED <<sizerType, blockOnOverflow, mu, waiting, ch, at, meta,
                         smeta, store, pend, ppc, offer, offers, cur, accepted,
                         completed, dropped, faults, stops, retryStopped>>
      BY <1>2 DEF ShutdownQueue, confVars, condVars, memVars, diskVars, prodVars, consVars,
        histVars
    <2>2. ~stopped
      BY <2>1 DEF Roles
    <2>3. ClientOpenWhileUsed' /\ refClient' \in Nat
      <3> DEFINE H == Cardinality({c \in Consumers : cur[c] # None})
      <3>1. IsFiniteSet({c \in Consumers : cur[c] # None})
        BY FS_Subset, QueueAssumption
      <3>2. H \in Nat
        BY <3>1, FS_CardinalityType
      <3>3. refClient = 1 + H
        BY <2>1, <2>2 DEF ClientOpenWhileUsed, Started
      <3>4. H' = H
        BY <2>1
      <3> HIDE DEF H
      <3>5. refClient' = 0 + H
        BY <2>1, <3>2, <3>3
      <3> QED BY <2>1, <3>2, <3>4, <3>5 DEF H, ClientOpenWhileUsed
    <2>4. Types'
      BY <2>1, <2>3 DEF Types, TypeOK, C!TypeOK
    <2>5. Ordered' /\ Copied'
      BY <2>1 DEF Ordered, Copied
    <2>6. \A c \in Consumers : Holds(c)' = Holds(c) /\ Serving(c)' = Serving(c)
      BY <2>1 DEF Holds, Serving
    <2>7. Roles' /\ Served'
      BY <2>1, <2>6 DEF Roles, Served, Started
    <2> QED BY <2>1, <2>3, <2>4, <2>5, <2>7 DEF Started, Types, TypeOK
  <1> QED BY <1>1, <1>2

-----------------------------------------------------------------------------
(* Start and the end of the process *)

\* The metadata of a new queue.
LEMMA NewFields ==
  NewMetadata \in Metadata /\ WellFormed(NewMetadata) /\ Indices(NewMetadata) = {}
  <1>1. NewMetadata.ri = 0 /\ NewMetadata.wi = 0 /\ NewMetadata.cdi = <<>> /\ NewMetadata.isz = 0
    BY DEF NewMetadata
  <1>2. NewMetadata \in Metadata
    BY DEF NewMetadata, Metadata
  <1>3. <<>> \in Seq(Nat) /\ DOMAIN <<>> = {} /\ Len(<<>>) = 0
    OBVIOUS
  <1>4. WellFormed(NewMetadata)
    BY <1>1, <1>3 DEF WellFormed, IsInjective
  <1>5. Indices(NewMetadata) = {}
    BY <1>1, <1>3 DEF Indices, Range
  <1> QED BY <1>2, <1>4, <1>5

\* Nobody holds anything before the consumers run.
LEMMA NobodyHolds ==
  ASSUME Base, ~Started
  PROVE  \A c \in Consumers : cur[c] = None /\ cpc[c] = "exit"
  BY DEF Base, Roles, Holds

\* Start ends: the consumers run.
LEMMA ConsumersRun ==
  ASSUME Base, ~Started, StartConsumers, UNCHANGED <<cur, ppc, offer>>,
         stopped' = FALSE, refClient' = 1
  PROVE  Roles' /\ Copied' /\ Served' /\ ClientOpenWhileUsed' /\ Started'
  <1>1. life' = "run" /\ Started' /\ cpc' = [c \in Consumers |-> "read"]
    BY DEF StartConsumers, Started
  <1>2. \A c \in Consumers : cur'[c] = None /\ ~Holds(c)' /\ ~Serving(c)'
    BY <1>1, NobodyHolds DEF Holds, Serving
  <1>3. Roles'
    BY <1>1, <1>2 DEF Base, Roles
  <1>4. Copied' /\ Served'
    BY <1>1, <1>2 DEF Copied, Served
  <1>5. ClientOpenWhileUsed'
    <2>1. {c \in Consumers : cur'[c] # None} = {}
      BY <1>2
    <2>2. Cardinality({}) = 0
      BY FS_EmptySet
    <2> QED BY <2>1, <2>2 DEF ClientOpenWhileUsed
  <1> QED BY <1>1, <1>3, <1>4, <1>5

\* The failures are counted up to their bound.
LEMMA FaultCounts ==
  ASSUME Base, Fault \/ UNCHANGED faults
  PROVE  faults' \in 0..MaxFaults /\ (faults' = 0 => UNCHANGED faults)
         /\ (refClient > 0 /\ Fault => faults' # 0)
  <1>1. faults \in 0..MaxFaults /\ MaxFaults \in Nat /\ refClient \in Nat
    BY QueueAssumption DEF Base, Types, TypeOK
  <1> QED BY <1>1 DEF Fault

\* A queue without metadata, or with metadata that cannot be read.
LEMMA StartNewBase ==
  ASSUME Base, StartNew \/ StartUnreadable
  PROVE  Base'
  <1>1. /\ ~Started
        /\ meta' = NewMetadata /\ stopped' = FALSE /\ refClient' = 1
        /\ StartConsumers
        /\ smeta' \in {smeta, NewMetadata}
        /\ Fault \/ UNCHANGED faults
        /\ dropped' \in {dropped, dropped \cup Range(store)}
        /\ UNCHANGED <<sizerType, blockOnOverflow, mu, waiting, ch, at, store, pend,
                       retryStopped, stops, ppc, offer, offers, cur, accepted, completed>>
    BY DEF StartNew, StartUnreadable, Memory, Started, confVars, condVars, diskVars, prodVars,
      histVars
  <1>2. life' = "run" /\ cpc' = [c \in Consumers |-> "read"]
    BY <1>1 DEF StartConsumers
  <1>3. Range(store) \subseteq Items
    BY DEF Base, Types, TypeOK, Range
  <1>4. Types'
    <2>1. faults' \in 0..MaxFaults
      BY <1>1, FaultCounts
    <2>2. smeta' \in Metadata \cup {None}
      BY <1>1, NewFields DEF Base, Types, TypeOK
    <2>3. dropped' \subseteq Items
      BY <1>1, <1>3 DEF Base, Types, TypeOK
    <2> QED BY <1>1, <1>2, <2>1, <2>2, <2>3, NewFields DEF Base, Types, TypeOK, C!TypeOK
  <1>5. Ordered'
    BY <1>1, NewFields DEF Base, Ordered
  <1> QED BY <1>1, <1>4, <1>5, ConsumersRun DEF Base

\* Start reads the metadata and copies the items consumers had left.
LEMMA StartLoadBase ==
  ASSUME Base, StartLoad
  PROVE  Base'
  <1>1. /\ life = "down" /\ ~Started /\ smeta # None
        /\ meta' = smeta /\ stopped' = FALSE /\ refClient' = 1
        /\ UNCHANGED <<sizerType, blockOnOverflow, mu, waiting, ch, at, smeta, store,
                       retryStopped, stops, ppc, offer, offers, cur, accepted, completed>>
    BY DEF StartLoad, Memory, Started, confVars, condVars, diskVars, prodVars
  <1>2. smeta \in Metadata /\ WellFormed(smeta) /\ smeta.cdi \in Seq(Nat)
    BY <1>1, Fields DEF Base, Types, TypeOK, Ordered
  <1>3. Ordered'
    BY <1>1, <1>2 DEF Ordered
  <1>4. CASE smeta.cdi = <<>>
    <2>1. StartConsumers /\ UNCHANGED <<pend, dropped, faults>>
      BY <1>4 DEF StartLoad
    <2>2. Types'
      BY <1>1, <1>2, <2>1 DEF Base, Types, TypeOK, C!TypeOK, StartConsumers
    <2> QED BY <1>1, <1>3, <2>1, <2>2, ConsumersRun DEF Base
  <1>5. CASE smeta.cdi # <<>>
    <2> DEFINE copies == [k \in DOMAIN smeta.cdi |-> ItemAt(smeta.cdi[k], None)]
               lost == {ItemAt(i, Empty) : i \in Range(smeta.cdi)}
    <2>1. /\ life' = "cleanup" /\ UNCHANGED cpc
          /\ \/ pend' = copies /\ UNCHANGED <<dropped, faults>>
             \/ Fault /\ pend' = None /\ dropped' = dropped \cup lost
      BY <1>5 DEF StartLoad
    <2>2. \A i \in Nat : ItemAt(i, None) \in Items \cup {None} /\ ItemAt(i, Empty) \in Items
      BY Fields DEF ItemAt, Base, Types, TypeOK
    <2>3. Range(smeta.cdi) \subseteq Nat
      BY <1>2 DEF Range
    <2>4. lost \subseteq Items
      BY <2>2, <2>3
    <2>5. /\ copies \in Seq(Items \cup {None}) /\ Len(copies) = Len(smeta.cdi)
          /\ \A k \in DOMAIN copies : copies[k] = ItemAt(smeta.cdi[k], None)
      <3> DEFINE n == Len(smeta.cdi)
      <3>1. n \in Nat /\ DOMAIN smeta.cdi = 1..n /\ \A k \in 1..n : smeta.cdi[k] \in Nat
        BY <1>2
      <3>2. \A k \in 1..n : ItemAt(smeta.cdi[k], None) \in Items \cup {None}
        BY <2>2, <3>1
      <3>3. copies = [k \in 1..n |-> ItemAt(smeta.cdi[k], None)]
        BY <3>1
      <3> HIDE DEF copies, n
      <3>4. copies \in [1..n -> Items \cup {None}]
        BY <3>2, <3>3
      <3>5. copies \in Seq(Items \cup {None}) /\ Len(copies) = n
        BY <3>1, <3>4
      <3> QED BY <3>3, <3>5 DEF n
    <2>6. copies # None
      BY <2>5, NoneAssumption
    <2>7. \A i \in DOMAIN store : i \in Range(smeta.cdi) => store[i] \in lost
      BY DEF ItemAt
    <2> HIDE DEF copies, lost
    <2>8. Types'
      <3>1. faults' \in 0..MaxFaults
        BY <2>1, FaultCounts
      <3>2. pend' \in Seq(Items \cup {None}) \cup {None} /\ dropped' \subseteq Items
        BY <2>1, <2>4, <2>5 DEF Base, Types, TypeOK
      <3> QED BY <1>1, <1>2, <2>1, <3>1, <3>2 DEF Base, Types, TypeOK, C!TypeOK
    <2>9. Copied'
      <3>1. CASE pend' = copies
        BY <1>1, <2>5, <2>6, <3>1 DEF Copied, ItemAt
      <3>2. CASE pend' = None /\ dropped' = dropped \cup lost
        BY <1>1, <2>7, <3>2 DEF Copied
      <3> QED BY <2>1, <3>1, <3>2
    <2>10. Roles' /\ Served' /\ ClientOpenWhileUsed'
      <3>1. ~Started'
        BY <2>1 DEF Started
      <3>2. \A c \in Consumers : cpc'[c] = "exit" /\ cur'[c] = None /\ ~Holds(c)' /\ ~Serving(c)'
        BY <1>1, <2>1, NobodyHolds DEF Holds, Serving
      <3> QED BY <1>1, <2>1, <3>1, <3>2 DEF Base, Roles, Served, ClientOpenWhileUsed
    <2> QED BY <1>3, <2>8, <2>9, <2>10 DEF Base
  <1> QED BY <1>4, <1>5

\* Deleting keeps a finite store of items.
LEMMA WithoutStore ==
  ASSUME Base, NEW I
  PROVE  LET s == Without(store, I)
         IN /\ DOMAIN s = DOMAIN store \ I /\ IsFiniteSet(DOMAIN s) /\ DOMAIN s \subseteq Nat
            /\ \A i \in DOMAIN s : s[i] = store[i] /\ s[i] \in Items
  <1> DEFINE s == Without(store, I)
  <1>1. DOMAIN s = DOMAIN store \ I /\ \A i \in DOMAIN s : s[i] = store[i]
    BY DEF Without
  <1>2. IsFiniteSet(DOMAIN store \ I)
    BY FS_Subset DEF Base, Types
  <1> HIDE DEF s
  <1>3. IsFiniteSet(DOMAIN s) /\ DOMAIN s \subseteq Nat /\ \A i \in DOMAIN s : s[i] \in Items
    BY <1>1, <1>2 DEF Base, Types, TypeOK
  <1> QED BY <1>1, <1>3 DEF s

\* Writing one item keeps a finite store of items.
LEMMA WithItemStore ==
  ASSUME Base, NEW k \in Nat, NEW r \in Items
  PROVE  LET s == WithItem(store, k, r)
         IN /\ DOMAIN s = DOMAIN store \cup {k} /\ IsFiniteSet(DOMAIN s) /\ DOMAIN s \subseteq Nat
            /\ s[k] = r /\ \A i \in DOMAIN store : i # k => s[i] = store[i]
            /\ \A i \in DOMAIN s : s[i] \in Items
  <1> DEFINE s == WithItem(store, k, r)
  <1>1. /\ DOMAIN s = DOMAIN store \cup {k}
        /\ s[k] = r /\ \A i \in DOMAIN store : i # k => s[i] = store[i]
    BY DEF WithItem
  <1>2. IsFiniteSet(DOMAIN store \cup {k})
    BY FS_AddElement DEF Base, Types
  <1> HIDE DEF s
  <1>3. IsFiniteSet(DOMAIN s) /\ DOMAIN s \subseteq Nat /\ \A i \in DOMAIN s : s[i] \in Items
    BY <1>1, <1>2 DEF Base, Types, TypeOK
  <1> QED BY <1>1, <1>3 DEF s

\* Start deletes the items it has copied.
LEMMA StartCleanupBase ==
  ASSUME Base, StartCleanup
  PROVE  Base'
  <1>1. /\ life = "cleanup" /\ life' = "put" /\ ~Started /\ ~Started'
        /\ store' \in {store, Without(store, Range(meta.cdi))}
        /\ Fault \/ UNCHANGED faults
        /\ pend' = IF pend = None THEN <<>> ELSE pend
        /\ UNCHANGED <<sizerType, blockOnOverflow, mu, waiting, ch, at, meta, stopped, refClient,
                       smeta, retryStopped, stops, ppc, offer, offers, cpc, cur, accepted,
                       completed, dropped>>
    BY DEF StartCleanup, Started, confVars, condVars, memVars, prodVars, consVars, histVars
  <1>2. faults' \in 0..MaxFaults
    BY <1>1, FaultCounts
  <1>3. pend' \in Seq(Items \cup {None})
    <2>1. <<>> \in Seq(Items \cup {None})
      OBVIOUS
    <2> QED BY <1>1, <2>1 DEF Base, Types
  <1>4. IsFiniteSet(DOMAIN store') /\ DOMAIN store' \subseteq Nat /\ \A i \in DOMAIN store' : store'[i] \in Items
    <2>1. CASE store' = store
      BY <2>1 DEF Base, Types, TypeOK
    <2>2. CASE store' = Without(store, Range(meta.cdi))
      BY <2>2, WithoutStore
    <2> QED BY <1>1, <2>1, <2>2
  <1>5. Types'
    BY <1>1, <1>2, <1>3, <1>4 DEF Base, Types, TypeOK, C!TypeOK
  <1>6. Ordered' /\ Copied'
    BY <1>1 DEF Base, Ordered, Copied
  <1>7. \A c \in Consumers : cpc'[c] = "exit" /\ cur'[c] = None /\ ~Holds(c)' /\ ~Serving(c)'
    BY <1>1, NobodyHolds DEF Holds, Serving
  <1>8. Roles' /\ Served' /\ ClientOpenWhileUsed'
    BY <1>1, <1>7 DEF Base, Roles, Served, ClientOpenWhileUsed
  <1> QED BY <1>5, <1>6, <1>8 DEF Base

\* The write index moves on.
LEMMA PutFields ==
  ASSUME meta \in Metadata, WellFormed(meta), NEW d \in Nat
  PROVE  LET m == [meta EXCEPT !.wi = @ + 1, !.isz = @ + d]
         IN /\ m \in Metadata /\ WellFormed(m) /\ m.ri = meta.ri /\ m.wi = meta.wi + 1
            /\ m.cdi = meta.cdi /\ m.isz = meta.isz + d
            /\ Indices(m) = Indices(meta) \cup {meta.wi} /\ meta.wi \notin Indices(meta)
            /\ Queued(m) = Queued(meta) \cup {meta.wi} /\ meta.wi \notin Queued(meta)
  <1> DEFINE m == [meta EXCEPT !.wi = @ + 1, !.isz = @ + d]
  <1>1. meta.ri \in Nat /\ meta.wi \in Nat /\ meta.cdi \in Seq(Nat) /\ meta.isz \in Nat
    BY Fields
  <1>2. m = [meta EXCEPT !.wi = meta.wi + 1, !.isz = meta.isz + d]
    OBVIOUS
  <1>3. meta.wi + 1 \in Nat /\ meta.isz + d \in Nat
    BY <1>1
  <1>4. /\ m \in Metadata /\ m.ri = meta.ri /\ m.wi = meta.wi + 1
        /\ m.cdi = meta.cdi /\ m.isz = meta.isz + d
    BY <1>2, <1>3 DEF Metadata
  <1> HIDE DEF m
  <1>5. WellFormed(m)
    BY <1>1, <1>4 DEF WellFormed
  <1>6. meta.ri <= meta.wi
    BY DEF WellFormed
  <1>7. Queued(m) = Queued(meta) \cup {meta.wi} /\ meta.wi \notin Queued(meta)
    BY <1>1, <1>4, <1>6 DEF Queued
  <1>8. meta.wi \notin Range(meta.cdi)
    <2> SUFFICES ASSUME NEW k \in DOMAIN meta.cdi, meta.wi = meta.cdi[k] PROVE FALSE
      BY DEF Range
    <2>1. meta.cdi[k] < meta.ri
      BY DEF WellFormed
    <2> QED BY <1>1, <1>6, <2>1
  <1>9. Indices(m) = Indices(meta) \cup {meta.wi} /\ meta.wi \notin Indices(meta)
    BY <1>4, <1>7, <1>8 DEF Indices, Queued
  <1> QED BY <1>4, <1>5, <1>7, <1>9 DEF m

\* An item is put back, skipped because it is not there, or given up.
LEMMA StartPutCases ==
  ASSUME Base, StartPut
  PROVE  LET m == [meta EXCEPT !.wi = @ + 1, !.isz = @ + 0]
             s == WithItem(store, meta.wi, Head(pend))
         IN /\ life = "put" /\ life' = "put" /\ ~Started /\ ~Started' /\ refClient = 1
            /\ pend \in Seq(Items \cup {None}) /\ pend # <<>> /\ pend' = Tail(pend)
            /\ UNCHANGED <<sizerType, blockOnOverflow, mu, waiting, ch, at, stopped, refClient,
                           retryStopped, stops, ppc, offer, offers, cpc, cur, accepted,
                           completed>>
            /\ meta' \in {meta, m} /\ smeta' \in {smeta, m} /\ (Fault \/ UNCHANGED faults)
            /\ \/ Head(pend) = None /\ UNCHANGED <<meta, smeta, store, dropped, faults>>
               \/ /\ Head(pend) # None /\ meta' = m /\ smeta' = m /\ store' = s
                  /\ UNCHANGED <<dropped, faults>>
               \/ /\ Head(pend) # None /\ Fault /\ dropped' = dropped \cup {Head(pend)}
                  /\ \/ UNCHANGED diskVars
                     \/ meta' = m /\ smeta' = m /\ store' = s
  <1> DEFINE m0 == [meta EXCEPT !.wi = @ + 1]
             m == [meta EXCEPT !.wi = @ + 1, !.isz = @ + 0]
             s == WithItem(store, meta.wi, Head(pend))
  <1>1. m0 = m
    <2>1. meta \in Metadata /\ meta.isz + 0 = meta.isz
      BY Fields DEF Base, Types, TypeOK
    <2>2. m = [meta EXCEPT !.wi = meta.wi + 1, !.isz = meta.isz]
      BY <2>1
    <2>3. m0 = [meta EXCEPT !.wi = meta.wi + 1]
      OBVIOUS
    <2> HIDE DEF m, m0
    <2> QED BY <2>1, <2>2, <2>3 DEF Metadata
  <1>2. /\ life = "put" /\ pend # <<>> /\ pend' = Tail(pend)
        /\ UNCHANGED <<sizerType, blockOnOverflow, mu, waiting, ch, at, stopped, refClient, life,
                       retryStopped, stops, ppc, offer, offers, cpc, cur, accepted, completed>>
    BY DEF StartPut, confVars, condVars, prodVars, consVars
  <1>3. ~Started /\ refClient = 1 /\ pend \in Seq(Items \cup {None}) /\ ~Started'
    BY <1>2 DEF Started, Base, Types, Roles
  <1>4. \/ Head(pend) = None /\ UNCHANGED <<meta, smeta, store, dropped, faults>>
        \/ /\ Head(pend) # None
           /\ \/ meta' = m0 /\ BatchOK(m0, s) /\ UNCHANGED dropped
              \/ /\ \/ meta' = m0 /\ BatchFails(m0, s)
                    \/ Fault /\ UNCHANGED <<meta, diskVars>>
                 /\ dropped' = dropped \cup {Head(pend)}
    BY DEF StartPut, diskVars
  <1> HIDE DEF m0, m, s
  <1>5. /\ meta' \in {meta, m} /\ smeta' \in {smeta, m} /\ (Fault \/ UNCHANGED faults)
        /\ \/ Head(pend) = None /\ UNCHANGED <<meta, smeta, store, dropped, faults>>
           \/ /\ Head(pend) # None /\ meta' = m /\ smeta' = m /\ store' = s
              /\ UNCHANGED <<dropped, faults>>
           \/ /\ Head(pend) # None /\ Fault /\ dropped' = dropped \cup {Head(pend)}
              /\ \/ UNCHANGED diskVars
                 \/ meta' = m /\ smeta' = m /\ store' = s
    BY <1>1, <1>4 DEF BatchOK, BatchFails, diskVars
  <1> QED BY <1>2, <1>3, <1>5 DEF m, s

\* Start puts one copied item back.
LEMMA StartPutBase ==
  ASSUME Base, StartPut
  PROVE  Base'
  <1> DEFINE m == [meta EXCEPT !.wi = @ + 1, !.isz = @ + 0]
             s == WithItem(store, meta.wi, Head(pend))
  <1>1. /\ life = "put" /\ life' = "put" /\ ~Started /\ ~Started'
        /\ pend \in Seq(Items \cup {None}) /\ pend # <<>> /\ pend' = Tail(pend)
        /\ UNCHANGED <<sizerType, blockOnOverflow, mu, waiting, ch, at, stopped, refClient,
                       retryStopped, stops, ppc, offer, offers, cpc, cur, accepted,
                       completed>>
        /\ meta' \in {meta, m} /\ smeta' \in {smeta, m} /\ (Fault \/ UNCHANGED faults)
    BY StartPutCases
  <1>2. /\ store' = store \/ (store' = s /\ Head(pend) # None)
        /\ dropped' = dropped \/ (dropped' = dropped \cup {Head(pend)} /\ Head(pend) # None)
    BY StartPutCases DEF diskVars
  <1>3. meta \in Metadata /\ WellFormed(meta) /\ meta.wi \in Nat
    BY Fields DEF Base, Types, TypeOK, Ordered
  <1>4. m \in Metadata /\ WellFormed(m)
    <2>1. 0 \in Nat
      OBVIOUS
    <2> QED BY <1>3, <2>1, PutFields
  <1> HIDE DEF m
  <1>5. Head(pend) \in Items \cup {None} /\ Tail(pend) \in Seq(Items \cup {None})
    BY <1>1
  <1>6. IsFiniteSet(DOMAIN store') /\ DOMAIN store' \subseteq Nat /\ \A i \in DOMAIN store' : store'[i] \in Items
    <2>1. CASE store' = store
      BY <2>1 DEF Base, Types, TypeOK
    <2>2. CASE store' = s /\ Head(pend) # None
      BY <2>2, <1>3, <1>5, WithItemStore
    <2> QED BY <1>2, <2>1, <2>2
  <1>7. Types'
    <2>1. faults' \in 0..MaxFaults
      BY <1>1, FaultCounts
    <2>2. dropped' \subseteq Items
      BY <1>2, <1>5 DEF Base, Types, TypeOK
    <2>3. meta' \in Metadata /\ smeta' \in Metadata \cup {None}
      BY <1>1, <1>4 DEF Base, Types, TypeOK
    <2> QED BY <1>1, <1>5, <1>6, <2>1, <2>2, <2>3 DEF Base, Types, TypeOK, C!TypeOK
  <1>8. Ordered'
    BY <1>1, <1>4 DEF Base, Ordered
  <1>9. \A c \in Consumers : cpc'[c] = "exit" /\ cur'[c] = None /\ ~Holds(c)' /\ ~Serving(c)'
    BY <1>1, NobodyHolds DEF Holds, Serving
  <1>10. Roles' /\ Served' /\ ClientOpenWhileUsed' /\ Copied'
    BY <1>1, <1>9 DEF Base, Roles, Served, ClientOpenWhileUsed, Copied
  <1> QED BY <1>7, <1>8, <1>10 DEF Base

\* Start has put back all items and starts the consumers.
LEMMA StartDoneBase ==
  ASSUME Base, StartDone
  PROVE  /\ Base'
         /\ meta' \in Metadata /\ meta'.ri = meta.ri /\ meta'.wi = meta.wi
         /\ meta'.isz = meta.isz /\ meta'.cdi = <<>>
         /\ Indices(meta') = Queued(meta) /\ Queued(meta') = Queued(meta)
  <1>1. /\ life = "put" /\ ~Started /\ pend = <<>>
        /\ meta' = [meta EXCEPT !.cdi = <<>>]
        /\ StartConsumers
        /\ UNCHANGED <<sizerType, blockOnOverflow, mu, waiting, ch, at, stopped, refClient, smeta,
                       store, pend, retryStopped, stops, ppc, offer, offers, cur, accepted,
                       completed, dropped, faults>>
    BY DEF StartDone, Started, confVars, condVars, diskVars, prodVars, histVars
  <1>2. life' = "run" /\ cpc' = [c \in Consumers |-> "read"]
    BY <1>1 DEF StartConsumers
  <1>3. meta \in Metadata /\ WellFormed(meta)
    BY DEF Base, Types, TypeOK, Ordered
  <1>4. meta' \in Metadata /\ meta'.ri = meta.ri /\ meta'.wi = meta.wi
        /\ meta'.isz = meta.isz /\ meta'.cdi = <<>>
    <2>1. <<>> \in Seq(Nat)
      OBVIOUS
    <2> QED BY <1>1, <1>3, <2>1 DEF Metadata
  <1>5. DOMAIN <<>> = {} /\ Len(<<>>) = 0
    OBVIOUS
  <1>6. Indices(meta') = Queued(meta) /\ Queued(meta') = Queued(meta)
    BY <1>4, <1>5 DEF Indices, Queued, Range
  <1>7. WellFormed(meta')
    BY <1>3, <1>4, <1>5 DEF WellFormed, IsInjective
  <1>8. Types'
    BY <1>1, <1>2, <1>4 DEF Base, Types, TypeOK, C!TypeOK
  <1>9. Ordered'
    BY <1>1, <1>7 DEF Base, Ordered
  <1>10. stopped' = FALSE /\ refClient' = 1
    BY <1>1 DEF Base, Roles, Types, TypeOK
  <1>11. Roles' /\ Copied' /\ Served' /\ ClientOpenWhileUsed'
    BY <1>1, <1>10, ConsumersRun
  <1> QED BY <1>4, <1>6, <1>8, <1>9, <1>11 DEF Base

\* The process ends, by a crash or after Shutdown.
LEMMA DieBase ==
  ASSUME Base, Die, stops' \in 0..MaxStops
  PROVE  Base' /\ life' = "down" /\ ~Started'
  <1>1. /\ mu' = Free /\ waiting' = 0 /\ ch' = 0 /\ at' = [g \in Goroutines |-> "out"]
        /\ meta' = NewMetadata /\ stopped' = FALSE /\ refClient' = 1
        /\ life' = "down" /\ pend' = <<>> /\ retryStopped' = FALSE
        /\ ppc' = [p \in Producers |-> "idle"] /\ offer' = [p \in Producers |-> None]
        /\ cpc' = [c \in Consumers |-> "exit"] /\ cur' = [c \in Consumers |-> None]
        /\ UNCHANGED <<sizerType, blockOnOverflow, smeta, store, offers, accepted, completed,
                       dropped, faults>>
    BY DEF Die, Memory, confVars, diskVars, histVars
  <1>2. <<>> \in Seq(Items \cup {None})
    OBVIOUS
  <1>3. C!TypeOK'
    BY <1>1 DEF C!TypeOK, C!Positions
  <1>4. Types'
    BY <1>1, <1>2, <1>3, NewFields DEF Base, Types, TypeOK
  <1>5. Ordered' /\ Copied'
    BY <1>1, NewFields DEF Base, Ordered, Copied
  <1>6. ~Started'
    BY <1>1 DEF Started
  <1>7. Roles' /\ Served' /\ ClientOpenWhileUsed'
    BY <1>1, <1>6 DEF Roles, Served, ClientOpenWhileUsed, Holds, Serving
  <1> QED BY <1>1, <1>4, <1>5, <1>6, <1>7 DEF Base

-----------------------------------------------------------------------------
(* Offer's put, Read and onDone *)

\* A request is put: both are written, or the storage fails and only the
\* metadata in memory is sure to move on.
LEMMA OfferPutCases ==
  ASSUME Base, NEW p \in Producers, OfferPut(p)
  PROVE  LET m == [meta EXCEPT !.wi = @ + 1, !.isz = @ + offer[p].size]
             s == WithItem(store, meta.wi, offer[p])
         IN /\ ppc[p] = "offer" /\ Fits(p) /\ Started /\ Started' /\ C!TypeOK'
            /\ offer[p] \in Requests
            /\ ppc' = [ppc EXCEPT ![p] = "idle"] /\ offer' = [offer EXCEPT ![p] = None]
            /\ meta' = m
            /\ UNCHANGED <<sizerType, blockOnOverflow, stopped, refClient, life, pend,
                           retryStopped, stops, offers, cur, completed, dropped>>
            /\ \/ /\ refClient > 0 /\ smeta' = m /\ store' = s /\ UNCHANGED faults
                  /\ SignalElements
                  /\ accepted' = accepted \cup {offer[p]}
               \/ /\ Fault /\ UNCHANGED <<cpc, accepted>>
                  /\ UNCHANGED diskVars \/ (smeta' = m /\ store' = s)
  <1> DEFINE m == [meta EXCEPT !.wi = @ + 1, !.isz = @ + offer[p].size]
             s == WithItem(store, meta.wi, offer[p])
  <1>1. /\ ppc[p] = "offer" /\ Fits(p) /\ C!Unlock(p)
        /\ ppc' = [ppc EXCEPT ![p] = "idle"] /\ offer' = [offer EXCEPT ![p] = None]
        /\ meta' = m
        /\ UNCHANGED <<sizerType, blockOnOverflow, stopped, refClient, life, pend, retryStopped,
                       stops, offers, cur, completed, dropped>>
    BY DEF OfferPut, Return, confVars, lifeVars
  <1>2. \/ BatchOK(m, s) /\ SignalElements /\ accepted' = accepted \cup {offer[p]}
        \/ BatchFails(m, s) /\ UNCHANGED <<cpc, accepted>>
    BY DEF OfferPut
  <1>3. Started /\ Started'
    BY <1>1, Active DEF Started
  <1>4. p \in Goroutines
    BY DEF Goroutines
  <1>5. C!TypeOK'
    BY <1>1, <1>4, CondTypes DEF Base, Types, TypeOK
  <1>6. offer[p] \in Requests
    BY <1>1 DEF Base, Types, TypeOK, Roles
  <1> HIDE DEF m, s
  <1>7. \/ /\ refClient > 0 /\ smeta' = m /\ store' = s /\ UNCHANGED faults
           /\ SignalElements
           /\ accepted' = accepted \cup {offer[p]}
        \/ /\ Fault /\ UNCHANGED <<cpc, accepted>>
           /\ UNCHANGED diskVars \/ (smeta' = m /\ store' = s)
    BY <1>2 DEF BatchOK, BatchFails
  <1> QED BY <1>1, <1>3, <1>5, <1>6, <1>7 DEF m, s

\* Offer writes its request under the write index.
LEMMA OfferPutBase ==
  ASSUME Base, NEW p \in Producers, OfferPut(p)
  PROVE  Base'
  <1>0. PICK m, s :
          /\ m = [meta EXCEPT !.wi = @ + 1, !.isz = @ + offer[p].size]
          /\ s = WithItem(store, meta.wi, offer[p])
    OBVIOUS
  <1>1. /\ ppc[p] = "offer" /\ Started /\ Started' /\ C!TypeOK' /\ offer[p] \in Requests
        /\ ppc' = [ppc EXCEPT ![p] = "idle"] /\ offer' = [offer EXCEPT ![p] = None]
        /\ meta' = m /\ smeta' \in {smeta, m} /\ store' \in {store, s}
        /\ UNCHANGED <<sizerType, blockOnOverflow, stopped, refClient, life, pend,
                       retryStopped, stops, offers, cur, completed, dropped>>
        /\ SignalElements \/ UNCHANGED cpc
        /\ Fault \/ UNCHANGED faults
        /\ accepted' \in {accepted, accepted \cup {offer[p]}}
    BY <1>0, OfferPutCases DEF diskVars
  <1>2. meta \in Metadata /\ WellFormed(meta) /\ meta.wi \in Nat /\ offer[p] \in Items
        /\ offer[p].size \in Nat /\ meta.ri \in Nat
    BY <1>1, Fields DEF Base, Types, TypeOK, Ordered
  <1>3. m \in Metadata /\ WellFormed(m) /\ m.ri = meta.ri /\ m.cdi = meta.cdi
    BY <1>0, <1>2, PutFields
  <1>4. IsFiniteSet(DOMAIN s) /\ DOMAIN s \subseteq Nat /\ (\A i \in DOMAIN s : s[i] \in Items)
        /\ DOMAIN s = DOMAIN store \cup {meta.wi}
        /\ \A i \in DOMAIN store : i # meta.wi => s[i] = store[i]
    BY <1>0, <1>2, WithItemStore
  <1>5. /\ cpc' \in [Consumers -> {"read", "parked", "consume", "onDone", "interrupted",
                                   "unref", "exit"}]
        /\ \A c \in Consumers : Holds(c)' = Holds(c) /\ Serving(c)' = Serving(c)
    <2>1. cpc \in [Consumers -> {"read", "parked", "consume", "onDone", "interrupted", "unref",
                                 "exit"}]
      BY DEF Base, Types, TypeOK
    <2>2. CASE UNCHANGED cpc
      BY <2>1, <2>2 DEF Holds, Serving
    <2>3. CASE cpc' # cpc
      <3>1. PICK c \in Consumers : cpc[c] = "parked" /\ cpc' = [cpc EXCEPT ![c] = "read"]
        BY <1>1, <2>3 DEF SignalElements
      <3> QED BY <2>1, <3>1 DEF Holds, Serving
    <2> QED BY <2>2, <2>3
  <1>6. Types'
    <2>1. faults' \in 0..MaxFaults
      BY <1>1, FaultCounts
    <2>2. accepted' \subseteq Items
      BY <1>1, <1>2 DEF Base, Types, TypeOK
    <2>3. smeta' \in Metadata \cup {None}
      BY <1>1, <1>3 DEF Base, Types, TypeOK
    <2>4. IsFiniteSet(DOMAIN store') /\ DOMAIN store' \subseteq Nat /\ \A i \in DOMAIN store' : store'[i] \in Items
      BY <1>1, <1>4 DEF Base, Types, TypeOK
    <2>5. life' # "put"
      BY <1>1 DEF Started
    <2> QED BY <1>1, <1>3, <1>5, <2>1, <2>2, <2>3, <2>4, <2>5 DEF Base, Types, TypeOK
  <1>7. Ordered'
    BY <1>1, <1>3 DEF Base, Ordered
  <1>8. Copied'
    BY <1>1 DEF Copied, Started
  <1>9. Roles' /\ ClientOpenWhileUsed'
    BY <1>1, <1>5 DEF Base, Roles, ClientOpenWhileUsed, Types, TypeOK
  <1>10. Served'
    <2>1. \A c \in Consumers : Holds(c) => cur[c] \in Handed /\ cur[c].idx \in Nat /\ cur[c].idx < meta.ri
      BY Fields DEF Base, Types, TypeOK, Roles, Served
    <2>2. \A c \in Consumers : Holds(c) => cur[c].idx # meta.wi
      BY <1>2, <2>1 DEF WellFormed
    <2>3. \A c \in Consumers : Serving(c) => Holds(c)
      BY DEF Serving, Holds
    <2> QED BY <1>1, <1>3, <1>4, <1>5, <2>2, <2>3 DEF Base, Served
  <1> QED BY <1>6, <1>7, <1>8, <1>9, <1>10 DEF Base

\* What the indices of dispatched metadata are.
LEMMA DispatchedIndices ==
  ASSUME meta \in Metadata, WellFormed(meta), meta.ri # meta.wi
  PROVE  Indices(Dispatched) = Indices(meta) /\ meta.ri \in Queued(meta)
         /\ meta.ri \in Range(Dispatched.cdi)
         /\ Queued(Dispatched) = Queued(meta) \ {meta.ri}
  <1>1. /\ Dispatched.ri = meta.ri + 1 /\ Dispatched.wi = meta.wi
        /\ Range(Dispatched.cdi) = Range(meta.cdi) \cup {meta.ri}
    BY DispatchedFields
  <1>2. meta.ri \in Nat /\ meta.wi \in Nat /\ meta.ri < meta.wi
    BY Fields DEF WellFormed
  <1>3. meta.ri..(meta.wi - 1) = {meta.ri} \cup ((meta.ri + 1)..(meta.wi - 1))
        /\ meta.ri \notin (meta.ri + 1)..(meta.wi - 1)
    BY <1>2
  <1> QED BY <1>1, <1>3 DEF Indices, Queued

\* What is left of the indices when an item is finished.
LEMMA FinishedIndices ==
  ASSUME NEW m \in Metadata, WellFormed(m), NEW i, i \in Range(m.cdi)
  PROVE  Indices(Finished(m, i)) = Indices(m) \ {i} /\ i \in Indices(m)
         /\ Queued(Finished(m, i)) = Queued(m)
  <1> DEFINE r == Finished(m, i)
  <1>1. r.ri = m.ri /\ r.wi = m.wi /\ Range(r.cdi) = Range(m.cdi) \ {i}
    BY FinishedFields
  <1>2. i \in Nat /\ i < m.ri /\ m.ri \in Nat
    BY Fields DEF WellFormed, Range
  <1>3. i \notin m.ri..(m.wi - 1)
    BY <1>2
  <1> HIDE DEF r
  <1> QED BY <1>1, <1>3 DEF Indices, Queued, r

\* A consumer is handed the item at the read index.
LEMMA ReadNextCases ==
  ASSUME Base, NEW c \in Consumers, ReadNext(c)
  PROVE  /\ cpc[c] = "read" /\ ~stopped /\ meta.ri # meta.wi
         /\ Started /\ Started' /\ C!TypeOK'
         /\ meta' = Dispatched /\ smeta' = Dispatched
         /\ refClient > 0 /\ refClient' = refClient + 1
         /\ cur' = [cur EXCEPT ![c] = [idx |-> meta.ri, el |-> NextRequest]]
         /\ cpc' = [cpc EXCEPT ![c] = "consume"]
         /\ UNCHANGED <<sizerType, blockOnOverflow, store, stopped, life, pend, retryStopped,
                        stops, ppc, offer, offers, accepted, completed, dropped, faults>>
  <1>1. /\ cpc[c] = "read" /\ ~stopped /\ meta.ri # meta.wi /\ C!Unlock(c)
        /\ meta' = Dispatched /\ smeta' = Dispatched
        /\ refClient > 0 /\ refClient' = refClient + 1
        /\ cur' = [cur EXCEPT ![c] = [idx |-> meta.ri, el |-> NextRequest]]
        /\ cpc' = [cpc EXCEPT ![c] = "consume"]
        /\ UNCHANGED <<sizerType, blockOnOverflow, store, stopped, life, pend, retryStopped,
                       stops, ppc, offer, offers, accepted, completed, dropped, faults>>
    BY DEF ReadNext, BatchOK, confVars, lifeVars, prodVars, histVars
  <1>2. Started /\ Started'
    BY <1>1, Active DEF Started
  <1>3. c \in Goroutines
    BY DEF Goroutines
  <1>4. C!TypeOK'
    BY <1>1, <1>3, CondTypes DEF Base, Types, TypeOK
  <1> QED BY <1>1, <1>2, <1>4

\* Read dispatches the request at the read index.
LEMMA ReadNextBase ==
  ASSUME Base, NEW c \in Consumers, ReadNext(c)
  PROVE  Base'
  <1>0. PICK h : h = [idx |-> meta.ri, el |-> NextRequest]
    OBVIOUS
  <1>1. /\ cpc[c] = "read" /\ ~stopped /\ meta.ri # meta.wi
        /\ Started /\ Started' /\ C!TypeOK'
        /\ meta' = Dispatched /\ smeta' = Dispatched
        /\ refClient > 0 /\ refClient' = refClient + 1
        /\ cur' = [cur EXCEPT ![c] = h]
        /\ cpc' = [cpc EXCEPT ![c] = "consume"]
        /\ UNCHANGED <<sizerType, blockOnOverflow, store, stopped, life, pend, retryStopped,
                       stops, ppc, offer, offers, accepted, completed, dropped, faults>>
    BY <1>0, ReadNextCases
  <1>2. meta \in Metadata /\ WellFormed(meta) /\ meta.ri \in Nat
    BY Fields DEF Base, Types, TypeOK, Ordered
  <1>3. /\ Dispatched \in Metadata /\ Dispatched.ri = meta.ri + 1 /\ WellFormed(Dispatched)
        /\ Range(Dispatched.cdi) = Range(meta.cdi) \cup {meta.ri}
    BY <1>1, <1>2, DispatchedFields
  <1>4. h \in Handed /\ h # None /\ h.idx = meta.ri
        /\ (meta.ri \in DOMAIN store => store[meta.ri] = h.el)
    <2>1. NextRequest \in Items /\ (meta.ri \in DOMAIN store => store[meta.ri] = NextRequest)
      BY Fields DEF NextRequest, ItemAt, Base, Types, TypeOK
    <2>2. h \in Handed /\ h.idx = meta.ri /\ h.el = NextRequest
      BY <1>0, <1>2, <2>1 DEF Handed
    <2> QED BY <2>1, <2>2, Fields
  <1>5. cpc \in [Consumers -> {"read", "parked", "consume", "onDone", "interrupted", "unref",
                               "exit"}]
        /\ cur \in [Consumers -> Handed \cup {None}]
    BY DEF Base, Types, TypeOK
  <1>6. Types'
    <2>1. life' # "put" /\ refClient' \in Nat
      BY <1>1 DEF Started, Base, Types, TypeOK
    <2> QED BY <1>1, <1>3, <1>4, <1>5, <2>1 DEF Base, Types, TypeOK
  <1>7. Ordered' /\ Copied'
    BY <1>1, <1>3 DEF Ordered, Copied, Started
  <1>8. /\ Holds(c)' /\ Serving(c)' /\ ~Holds(c) /\ cur'[c] = h
        /\ \A d \in Consumers \ {c} : Holds(d)' = Holds(d) /\ Serving(d)' = Serving(d) /\ cur'[d] = cur[d]
    BY <1>1, <1>5 DEF Holds, Serving
  <1>9. Roles'
    <2>1. \A d \in Consumers : cur'[d] # None <=> Holds(d)'
      BY <1>4, <1>8 DEF Base, Roles
    <2> QED BY <1>1, <2>1 DEF Base, Roles
  <1>10. Served'
    <2>1. \A d \in Consumers \ {c} : Holds(d) => cur[d].idx \in Nat /\ cur[d].idx < meta.ri
      BY Fields DEF Base, Types, TypeOK, Roles, Served
    <2>2. \A d \in Consumers \ {c} : Holds(d) => cur[d].idx # meta.ri /\ cur[d].idx < meta.ri + 1
      BY <1>2, <2>1
    <2>3. meta.ri < meta.ri + 1
      BY <1>2
    <2> QED BY <1>1, <1>3, <1>4, <1>8, <2>2, <2>3 DEF Base, Served
  <1>11. ClientOpenWhileUsed'
    <2> DEFINE H == {d \in Consumers : cur[d] # None}
    <2>1. IsFiniteSet(H) /\ c \notin H
      BY <1>8, FS_Subset, QueueAssumption DEF Base, Roles
    <2>2. H' = H \cup {c}
      BY <1>4, <1>8
    <2>3. Cardinality(H \cup {c}) = Cardinality(H) + 1 /\ Cardinality(H) \in Nat
      BY <2>1, FS_AddElement, FS_CardinalityType
    <2>4. refClient = 1 + Cardinality(H)
      BY <1>1 DEF Base, ClientOpenWhileUsed
    <2> HIDE DEF H
    <2>5. refClient' = 1 + Cardinality(H')
      BY <1>1, <2>2, <2>3, <2>4
    <2> QED BY <1>1, <2>5 DEF ClientOpenWhileUsed, H
  <1> QED BY <1>6, <1>7, <1>9, <1>10, <1>11 DEF Base

\* getNextItem fails and drops the item.
LEMMA ReadDropCases ==
  ASSUME Base, NEW c \in Consumers, ReadDrop(c)
  PROVE  LET m == Finished(Dispatched, meta.ri)
             s == Without(store, {meta.ri})
         IN /\ ~stopped /\ meta.ri # meta.wi
            /\ Started /\ Started' /\ C!TypeOK' /\ Fault /\ refClient > 0
            /\ meta' = m /\ smeta' \in {smeta, Dispatched, m} /\ store' \in {store, s}
            /\ dropped' = dropped \cup {NextRequest}
            /\ UNCHANGED <<sizerType, blockOnOverflow, stopped, refClient, life, pend,
                           retryStopped, stops, ppc, offer, offers, cpc, cur, accepted, completed>>
  <1> DEFINE m == Finished(Dispatched, meta.ri)
             s == Without(store, {meta.ri})
  <1>1. /\ cpc[c] = "read" /\ ~stopped /\ meta.ri # meta.wi /\ C!Signal(c) /\ Fault
        /\ meta' = m
        /\ \/ smeta' \in {m, Dispatched} /\ store' = s
           \/ smeta' \in {smeta, Dispatched} /\ UNCHANGED store
           \/ UNCHANGED smeta /\ store' = s
        /\ dropped' = dropped \cup {NextRequest}
        /\ UNCHANGED <<sizerType, blockOnOverflow, stopped, refClient, life, pend,
                       retryStopped, stops, ppc, offer, offers, cpc, cur, accepted, completed>>
    BY DEF ReadDrop, confVars, lifeVars, prodVars, consVars
  <1>2. Started /\ Started'
    BY <1>1, Active DEF Started
  <1>3. c \in Goroutines
    BY DEF Goroutines
  <1>4. C!TypeOK'
    BY <1>1, <1>3, CondTypes DEF Base, Types, TypeOK
  <1>5. refClient > 0
    <2>1. IsFiniteSet({d \in Consumers : cur[d] # None})
      BY FS_Subset, QueueAssumption
    <2>2. Cardinality({d \in Consumers : cur[d] # None}) \in Nat
      BY <2>1, FS_CardinalityType
    <2> QED BY <1>1, <1>2, <2>2 DEF Base, ClientOpenWhileUsed
  <1> HIDE DEF m, s
  <1>6. smeta' \in {smeta, Dispatched, m} /\ store' \in {store, s}
    BY <1>1
  <1> QED BY <1>1, <1>2, <1>4, <1>5, <1>6 DEF m, s

\* Read drops an index whose item cannot be read, and goes on.
LEMMA ReadDropBase ==
  ASSUME Base, NEW c \in Consumers, ReadDrop(c)
  PROVE  Base'
  <1>0. PICK m, s, i :
          i = meta.ri /\ m = Finished(Dispatched, i) /\ s = Without(store, {i})
    OBVIOUS
  <1>1. /\ ~stopped /\ meta.ri # meta.wi
        /\ Started /\ Started' /\ C!TypeOK' /\ Fault
        /\ meta' = m /\ smeta' \in {smeta, Dispatched, m} /\ store' \in {store, s}
        /\ dropped' = dropped \cup {NextRequest}
        /\ UNCHANGED <<sizerType, blockOnOverflow, stopped, refClient, life, pend,
                       retryStopped, stops, ppc, offer, offers, cpc, cur, accepted, completed>>
    BY <1>0, ReadDropCases
  <1>2. meta \in Metadata /\ WellFormed(meta) /\ meta.ri \in Nat
    BY Fields DEF Base, Types, TypeOK, Ordered
  <1>3. /\ Dispatched \in Metadata /\ Dispatched.ri = meta.ri + 1 /\ WellFormed(Dispatched)
        /\ Range(Dispatched.cdi) = Range(meta.cdi) \cup {i}
    BY <1>0, <1>1, <1>2, DispatchedFields
  <1>4. m \in Metadata /\ WellFormed(m) /\ m.ri = meta.ri + 1
        /\ Range(m.cdi) = (Range(meta.cdi) \cup {i}) \ {i}
    <2>1. i \in Range(Dispatched.cdi)
      BY <1>3
    <2> QED BY <1>0, <1>3, <2>1, FinishedFields
  <1>5. /\ IsFiniteSet(DOMAIN s) /\ DOMAIN s \subseteq Nat /\ (\A k \in DOMAIN s : s[k] \in Items)
        /\ DOMAIN s \subseteq DOMAIN store /\ \A k \in DOMAIN s : s[k] = store[k]
    BY <1>0, WithoutStore
  <1>6. NextRequest \in Items
    BY Fields DEF NextRequest, ItemAt, Base, Types, TypeOK
  <1>7. Types'
    <2>1. faults' \in 0..MaxFaults
      BY <1>1, FaultCounts
    <2>2. dropped' \subseteq Items
      BY <1>1, <1>6 DEF Base, Types, TypeOK
    <2>3. smeta' \in Metadata \cup {None}
      BY <1>1, <1>3, <1>4 DEF Base, Types, TypeOK
    <2>4. IsFiniteSet(DOMAIN store') /\ DOMAIN store' \subseteq Nat /\ \A k \in DOMAIN store' : store'[k] \in Items
      BY <1>1, <1>5 DEF Base, Types, TypeOK
    <2>5. life' # "put"
      BY <1>1 DEF Started
    <2> QED BY <1>1, <1>4, <2>1, <2>2, <2>3, <2>4, <2>5 DEF Base, Types, TypeOK
  <1>8. Ordered' /\ Copied'
    BY <1>1, <1>3, <1>4 DEF Base, Ordered, Copied, Started
  <1>9. Roles' /\ ClientOpenWhileUsed'
    BY <1>1 DEF Base, Roles, ClientOpenWhileUsed, Holds
  <1>10. Served'
    <2>1. \A d \in Consumers : Holds(d) => cur[d].idx \in Nat /\ cur[d].idx < meta.ri
      BY Fields DEF Base, Types, TypeOK, Roles, Served
    <2>2. \A d \in Consumers : Holds(d) => cur[d].idx # i /\ cur[d].idx < meta.ri + 1
      BY <1>0, <1>2, <2>1
    <2>3. \A d \in Consumers : Serving(d) => Holds(d)
      BY DEF Serving, Holds
    <2>4. \A d \in Consumers : Holds(d)' = Holds(d) /\ Serving(d)' = Serving(d)
      BY <1>1 DEF Serving, Holds
    <2>5. \A d \in Consumers : Serving(d) =>
            /\ cur[d].idx \in Range(m.cdi)
            /\ cur[d].idx \in DOMAIN store' => store'[cur[d].idx] = cur[d].el
      BY <1>1, <1>4, <1>5, <2>2, <2>3 DEF Base, Served
    <2> QED BY <1>1, <1>4, <2>2, <2>4, <2>5 DEF Base, Served
  <1> QED BY <1>7, <1>8, <1>9, <1>10 DEF Base

\* What onDone gives back.
LEMMA ReleasedFields ==
  ASSUME meta \in Metadata, WellFormed(meta), NEW r \in Items
  PROVE  LET m == Released(r)
         IN /\ m \in Metadata /\ WellFormed(m) /\ m.ri = meta.ri /\ m.wi = meta.wi
            /\ m.cdi = meta.cdi /\ m.isz = IF meta.isz < r.size THEN 0 ELSE meta.isz - r.size
            /\ Indices(m) = Indices(meta) /\ Queued(m) = Queued(meta)
  <1> DEFINE d == IF meta.isz < r.size THEN 0 ELSE meta.isz - r.size
             m == Released(r)
  <1>1. meta.isz \in Nat /\ r.size \in Nat
    BY Fields
  <1>2. d \in Nat
    BY <1>1
  <1>3. m = [meta EXCEPT !.isz = d]
    BY DEF Released
  <1> HIDE DEF d, m
  <1>4. /\ m \in Metadata /\ m.ri = meta.ri /\ m.wi = meta.wi
        /\ m.cdi = meta.cdi /\ m.isz = d
    BY <1>2, <1>3 DEF Metadata
  <1>5. WellFormed(m) /\ Indices(m) = Indices(meta) /\ Queued(m) = Queued(meta)
    BY <1>4 DEF WellFormed, Indices, Queued
  <1> QED BY <1>4, <1>5 DEF d, m

\* onDone of a request whose export has ended.
LEMMA OnDoneFinishCases ==
  ASSUME Base, NEW c \in Consumers, OnDoneFinish(c)
  PROVE  LET m == Finished(Released(cur[c].el), cur[c].idx)
             s == Without(store, {cur[c].idx})
         IN /\ cpc[c] = "onDone" /\ cur[c] \in Handed
            /\ Started /\ Started' /\ C!TypeOK' /\ refClient > 0
            /\ meta' = m /\ completed' = completed \cup {cur[c].el}
            /\ cpc' = [cpc EXCEPT ![c] = "unref"]
            /\ \/ smeta' = m /\ store' = s /\ UNCHANGED faults
               \/ Fault /\ smeta' \in {smeta, m} /\ store' \in {store, s}
            /\ UNCHANGED <<sizerType, blockOnOverflow, stopped, refClient, life, pend,
                           retryStopped, stops, ppc, offer, offers, cur, accepted, dropped>>
  <1> DEFINE m == Finished(Released(cur[c].el), cur[c].idx)
             s == Without(store, {cur[c].idx})
  <1>1. /\ cpc[c] = "onDone" /\ C!Signal(c)
        /\ meta' = m /\ completed' = completed \cup {cur[c].el}
        /\ cpc' = [cpc EXCEPT ![c] = "unref"]
        /\ FinishOnDisk(m, cur[c].idx)
        /\ UNCHANGED <<sizerType, blockOnOverflow, stopped, refClient, life, pend,
                       retryStopped, stops, ppc, offer, offers, cur, accepted, dropped>>
    BY DEF OnDoneFinish, confVars, lifeVars, prodVars
  <1>2. Started /\ Started'
    BY <1>1, Active DEF Started
  <1>3. c \in Goroutines
    BY DEF Goroutines
  <1>4. C!TypeOK'
    BY <1>1, <1>3, CondTypes DEF Base, Types, TypeOK
  <1>5. cur[c] # None /\ cur[c] \in Handed
    BY <1>1 DEF Base, Types, TypeOK, Roles, Holds
  <1>6. refClient > 0
    <2> DEFINE H == {d \in Consumers : cur[d] # None}
    <2>1. IsFiniteSet(H) /\ c \in H
      BY <1>5, FS_Subset, QueueAssumption
    <2>2. Cardinality(H) \in Nat /\ Cardinality(H) # 0
      BY <2>1, FS_CardinalityType, FS_EmptySet
    <2> QED BY <1>2, <2>2 DEF Base, ClientOpenWhileUsed
  <1>7. \/ smeta' = m /\ store' = s /\ UNCHANGED faults
        \/ Fault /\ smeta' \in {smeta, m} /\ store' \in {store, s}
    <2> HIDE DEF m
    <2> QED BY <1>1 DEF FinishOnDisk, BatchOK, diskVars
  <1> HIDE DEF m, s
  <1> QED BY <1>1, <1>2, <1>4, <1>5, <1>6, <1>7 DEF m, s

\* OnDone removes the index of a finished request from the list and its item from
\* the storage.
LEMMA OnDoneFinishBase ==
  ASSUME Base, NEW c \in Consumers, OnDoneFinish(c)
  PROVE  Base'
  <1>0. PICK h, i, d, m, s :
          /\ h = cur[c] /\ i = h.idx /\ d = Released(h.el) /\ m = Finished(d, i)
          /\ s = Without(store, {i})
    OBVIOUS
  <1>1. /\ cpc[c] = "onDone" /\ h \in Handed
        /\ Started /\ Started' /\ C!TypeOK'
        /\ meta' = m /\ completed' = completed \cup {h.el}
        /\ cpc' = [cpc EXCEPT ![c] = "unref"]
        /\ smeta' \in {smeta, m} /\ store' \in {store, s}
        /\ Fault \/ UNCHANGED faults
        /\ UNCHANGED <<sizerType, blockOnOverflow, stopped, refClient, life, pend,
                       retryStopped, stops, ppc, offer, offers, cur, accepted, dropped>>
    BY <1>0, OnDoneFinishCases
  <1>2. meta \in Metadata /\ WellFormed(meta) /\ h.el \in Items
    BY <1>1, Fields DEF Base, Types, TypeOK, Ordered
  <1>3. d \in Metadata /\ WellFormed(d) /\ d.ri = meta.ri /\ d.cdi = meta.cdi
    BY <1>0, <1>2, ReleasedFields
  <1>4. i \in Range(meta.cdi)
    BY <1>0, <1>1 DEF Base, Served, Serving
  <1>5. m \in Metadata /\ WellFormed(m) /\ m.ri = meta.ri /\ Range(m.cdi) = Range(meta.cdi) \ {i}
    BY <1>0, <1>3, <1>4, FinishedFields
  <1>6. /\ IsFiniteSet(DOMAIN s) /\ DOMAIN s \subseteq Nat /\ (\A k \in DOMAIN s : s[k] \in Items)
        /\ DOMAIN s \subseteq DOMAIN store /\ \A k \in DOMAIN s : s[k] = store[k]
    BY <1>0, WithoutStore
  <1>7. cpc \in [Consumers -> {"read", "parked", "consume", "onDone", "interrupted", "unref",
                               "exit"}]
    BY DEF Base, Types, TypeOK
  <1>8. Types'
    <2>1. faults' \in 0..MaxFaults
      BY <1>1, FaultCounts
    <2>2. completed' \subseteq Items
      BY <1>1, <1>2 DEF Base, Types, TypeOK
    <2>3. smeta' \in Metadata \cup {None}
      BY <1>1, <1>5 DEF Base, Types, TypeOK
    <2>4. IsFiniteSet(DOMAIN store') /\ DOMAIN store' \subseteq Nat /\ \A k \in DOMAIN store' : store'[k] \in Items
      BY <1>1, <1>6 DEF Base, Types, TypeOK
    <2>5. life' # "put"
      BY <1>1 DEF Started
    <2> QED BY <1>1, <1>5, <1>7, <2>1, <2>2, <2>3, <2>4, <2>5 DEF Base, Types, TypeOK
  <1>9. Ordered' /\ Copied'
    BY <1>1, <1>5 DEF Base, Ordered, Copied, Started
  <1>10. /\ \A e \in Consumers : Holds(e)' = Holds(e)
         /\ ~Serving(c)' /\ \A e \in Consumers \ {c} : Serving(e)' = Serving(e)
    BY <1>1, <1>7 DEF Holds, Serving
  <1>11. Roles' /\ ClientOpenWhileUsed'
    BY <1>1, <1>10 DEF Base, Roles, ClientOpenWhileUsed
  <1>12. Served'
    <2>1. \A e \in Consumers : Serving(e) => Holds(e)
      BY DEF Serving, Holds
    <2>2. \A e \in Consumers \ {c} : Serving(e) => cur[e].idx # i
      BY <1>0, <1>1, <2>1 DEF Base, Served, Holds
    <2>3. \A e \in Consumers \ {c} : Serving(e) =>
            /\ cur[e].idx \in Range(m.cdi)
            /\ cur[e].idx \in DOMAIN store' => store'[cur[e].idx] = cur[e].el
      BY <1>1, <1>5, <1>6, <2>2 DEF Base, Served
    <2> QED BY <1>1, <1>5, <1>10, <2>3 DEF Base, Served
  <1> QED BY <1>8, <1>9, <1>11, <1>12 DEF Base

\* onDone ends: the reference on the client is given back.
LEMMA OnDoneUnrefBase ==
  ASSUME Base, NEW c \in Consumers, OnDoneUnref(c)
  PROVE  Base' /\ Started /\ refClient' <= refClient
         /\ UNCHANGED <<sizerType, meta, smeta, store, life, pend, accepted, completed, dropped, faults>>
  <1>1. /\ cpc[c] \in {"unref", "interrupted"} /\ C!Unlock(c)
        /\ refClient' = refClient - 1
        /\ cur' = [cur EXCEPT ![c] = None]
        /\ cpc' = [cpc EXCEPT ![c] = "read"]
        /\ UNCHANGED <<sizerType, blockOnOverflow, meta, stopped, smeta, store, life, pend,
                       retryStopped, stops, ppc, offer, offers, accepted, completed, dropped, faults>>
    BY DEF OnDoneUnref, confVars, diskVars, lifeVars, prodVars, histVars
  <1>2. Started /\ Started'
    BY <1>1, Active DEF Started
  <1>3. c \in Goroutines
    BY DEF Goroutines
  <1>4. C!TypeOK'
    BY <1>1, <1>3, CondTypes DEF Base, Types, TypeOK
  <1>5. cpc \in [Consumers -> {"read", "parked", "consume", "onDone", "interrupted", "unref",
                               "exit"}]
        /\ cur \in [Consumers -> Handed \cup {None}]
    BY DEF Base, Types, TypeOK
  <1>6. /\ ~Holds(c)' /\ ~Serving(c)' /\ Holds(c) /\ cur'[c] = None
        /\ \A d \in Consumers \ {c} : Holds(d)' = Holds(d) /\ Serving(d)' = Serving(d) /\ cur'[d] = cur[d]
    BY <1>1, <1>5 DEF Holds, Serving
  <1>7. ClientOpenWhileUsed' /\ refClient' \in Nat /\ refClient' <= refClient
    <2> DEFINE H == {d \in Consumers : cur[d] # None}
    <2>1. IsFiniteSet(H) /\ c \in H
      BY <1>6, FS_Subset, QueueAssumption DEF Base, Roles
    <2>2. H' = H \ {c}
      BY <1>6
    <2>3. Cardinality(H \ {c}) = Cardinality(H) - 1 /\ Cardinality(H) \in Nat /\ Cardinality(H) # 0
      BY <2>1, FS_RemoveElement, FS_CardinalityType, FS_EmptySet
    <2>4. refClient = (IF stopped THEN 0 ELSE 1) + Cardinality(H)
      BY <1>2 DEF Base, ClientOpenWhileUsed
    <2> HIDE DEF H
    <2>5. /\ refClient' = (IF stopped THEN 0 ELSE 1) + Cardinality(H')
          /\ refClient' \in Nat /\ refClient' <= refClient
      BY <1>1, <2>2, <2>3, <2>4
    <2> QED BY <1>1, <2>5 DEF ClientOpenWhileUsed, H
  <1>8. Types'
    <2>1. life' # "put"
      BY <1>1, <1>2 DEF Started
    <2> QED BY <1>1, <1>4, <1>5, <1>7, <2>1 DEF Base, Types, TypeOK
  <1>9. Ordered' /\ Copied'
    BY <1>1, <1>2 DEF Base, Ordered, Copied, Started
  <1>10. Roles'
    BY <1>1, <1>2, <1>6 DEF Base, Roles
  <1>11. Served'
    BY <1>1, <1>6 DEF Base, Served
  <1> QED BY <1>1, <1>2, <1>7, <1>8, <1>9, <1>10, <1>11 DEF Base

\* An empty storage and no process.
LEMMA BaseInit == Init => Base
  <1> SUFFICES ASSUME Init PROVE Base
    OBVIOUS
  <1>1. C!TypeOK
    BY DEF Init, C!Init, C!TypeOK, C!Positions
  <1>2. <<>> \in Seq(Items \cup {None})
    OBVIOUS
  <1>3. DOMAIN store = {} /\ IsFiniteSet({})
    BY FS_EmptySet DEF Init
  <1>4. Types
    <2>1. /\ DOMAIN store \subseteq Nat /\ (\A i \in DOMAIN store : store[i] \in Items)
          /\ IsFiniteSet(DOMAIN store)
      BY <1>3
    <2>2. {accepted, completed, dropped} \subseteq SUBSET Items
      BY DEF Init
    <2>3. /\ offers \in [Producers -> 0..MaxOffers] /\ stops \in 0..MaxStops
          /\ faults \in 0..MaxFaults
      BY QueueAssumption DEF Init
    <2>4. /\ ppc \in [Producers -> {"idle", "offer", "cancelled"}]
          /\ offer \in [Producers -> Requests \cup {None}]
          /\ cpc \in [Consumers -> {"read", "parked", "consume", "onDone", "interrupted",
                                   "unref", "exit"}]
          /\ cur \in [Consumers -> Handed \cup {None}]
      BY DEF Init
    <2>5. /\ sizerType \in {"requests", "items"} /\ blockOnOverflow \in BOOLEAN
          /\ meta \in Metadata /\ stopped \in BOOLEAN /\ refClient \in Nat
          /\ smeta \in Metadata \cup {None} /\ life = "down" /\ pend = <<>>
      BY NewFields DEF Init
    <2> QED BY <1>1, <1>2, <2>1, <2>2, <2>3, <2>4, <2>5 DEF Types, TypeOK
  <1>5. Ordered /\ Copied
    BY NewFields DEF Init, Ordered, Copied
  <1>6. Roles /\ Served /\ ClientOpenWhileUsed
    BY DEF Init, Roles, Served, ClientOpenWhileUsed, Started, Holds, Serving
  <1> QED BY <1>4, <1>5, <1>6 DEF Base

\* Base is inductive.
LEMMA BaseStep == Base /\ [Next]_vars => Base'
  <1> SUFFICES ASSUME Base, [Next]_vars PROVE Base'
    OBVIOUS
  <1>1. CASE UNCHANGED vars
    <2> USE <1>1 DEF Base, vars, confVars, condVars, memVars, diskVars, lifeVars, prodVars,
        consVars, histVars
    <2>1. Types' /\ Ordered' /\ Copied'
      BY DEF Types, TypeOK, C!TypeOK, Ordered, Copied, ItemAt
    <2>2. Roles' /\ Served' /\ ClientOpenWhileUsed'
      BY DEF Roles, Served, ClientOpenWhileUsed, Holds, Serving, Started
    <2> QED BY <2>1, <2>2
  <1>2. CASE Start
    BY <1>2, StartNewBase, StartLoadBase, StartCleanupBase, StartPutBase, StartDoneBase DEF Start
  <1>3. ASSUME NEW p \in Producers, Producer(p) PROVE Base'
    BY <1>3, QuietOfferBase, OfferPutBase DEF Producer, QuietOffer
  <1>4. ASSUME NEW c \in Consumers, Consumer(c) PROVE Base'
    BY <1>4, QuietReadBase, ReadNextBase, ReadDropBase, OnDoneFinishBase, OnDoneUnrefBase
      DEF Consumer, QuietRead
  <1>5. CASE ShutdownRetry \/ ShutdownQueue
    BY <1>5, ShutdownBase
  <1>6. CASE ShutdownReturns \/ Crash
    <2>1. stops' \in 0..MaxStops
      BY <1>6, QueueAssumption DEF ShutdownReturns, Crash, Base, Types, TypeOK
    <2> QED BY <1>6, <2>1, DieBase DEF ShutdownReturns, Crash
  <1> QED BY <1>1, <1>2, <1>3, <1>4, <1>5, <1>6 DEF Next

\* Whatever crashes, fails or is shut down, what the queue keeps in memory and in
\* the storage fits together.
THEOREM PersistentQueueBase == Spec => []Base
  BY BaseInit, BaseStep, PTL DEF Spec

\* An index is with one consumer at most, is listed once as dispatched while it
\* is, and is never handed out again.
THEOREM PersistentSingleDispatch == Spec => []SingleDispatch
  <1>1. Base => SingleDispatch
    <2> SUFFICES ASSUME Base PROVE SingleDispatch
      OBVIOUS
    <2>1. \A c \in Consumers : (cur[c] # None <=> Holds(c)) /\ (Serving(c) => Holds(c))
      BY DEF Base, Roles, Serving, Holds
    <2>2. IsInjective(meta.cdi)
      BY DEF Base, Ordered, WellFormed
    <2> QED BY <2>1, <2>2 DEF Base, Served, SingleDispatch, Serving
  <1> QED BY <1>1, PersistentQueueBase, PTL

\* The client stays open as long as somebody may still call it.
THEOREM PersistentClientOpen == Spec => []ClientOpenWhileUsed
  <1>1. Base => ClientOpenWhileUsed
    BY DEF Base
  <1> QED BY <1>1, PersistentQueueBase, PTL

-----------------------------------------------------------------------------
(* Nothing is lost *)

\* A step of a started queue that touches neither metadata nor storage.
LEMMA KeptQuiet ==
  ASSUME Kept, Started, Started',
         UNCHANGED <<meta, smeta, store, accepted, completed, dropped>>
  PROVE  Kept'
  BY DEF Kept, Unfinished, Stored, Copy, Stays, Started

\* A new queue, or one whose metadata cannot be read (all its items count as
\* dropped).
LEMMA StartNewKept ==
  ASSUME Base, Kept, StartNew \/ StartUnreadable
  PROVE  Kept'
  <1>1. /\ life = "down" /\ accepted' = accepted /\ completed' = completed
        /\ \/ smeta = None /\ dropped' = dropped
           \/ dropped' = dropped \cup Range(store)
    BY DEF StartNew, StartUnreadable, histVars
  <1>2. ASSUME NEW r \in Unfinished' PROVE FALSE
    <2>1. r \in Unfinished /\ (smeta # None => r \notin Range(store))
      BY <1>1, <1>2 DEF Unfinished
    <2>2. Stored(r)
      BY <1>1, <2>1 DEF Kept, Copy
    <2> QED BY <2>1, <2>2 DEF Stored, Range
  <1> QED BY <1>2 DEF Kept

\* The copies are taken before anything is deleted.
LEMMA StartLoadKept ==
  ASSUME Base, Kept, StartLoad
  PROVE  Kept'
  <1>1. /\ life = "down" /\ smeta # None /\ meta' = smeta /\ dropped \subseteq dropped'
        /\ life' \in {"run", "cleanup"}
        /\ UNCHANGED <<smeta, store, accepted, completed>>
    BY DEF StartLoad, Memory, StartConsumers, diskVars
  <1> SUFFICES ASSUME NEW r \in Unfinished' PROVE Stored(r)'
    BY DEF Kept
  <1>2. r \in Unfinished
    BY <1>1 DEF Unfinished
  <1>3. Stored(r)
    BY <1>1, <1>2 DEF Kept, Copy
  <1>4. PICK i \in DOMAIN store : i \in Indices(smeta) /\ store[i] = r
    BY <1>3 DEF Stored
  <1> QED BY <1>1, <1>4 DEF Stored, Stays

\* What the cleanup deletes is in the list to put back.
LEMMA StartCleanupKept ==
  ASSUME Base, Kept, StartCleanup
  PROVE  Kept'
  <1>1. /\ life = "cleanup" /\ life' = "put" /\ ~Started /\ ~Started'
        /\ store' \in {store, Without(store, Range(meta.cdi))}
        /\ pend' = IF pend = None THEN <<>> ELSE pend
        /\ UNCHANGED <<meta, smeta, accepted, completed, dropped>>
    BY DEF StartCleanup, Started, memVars, histVars
  <1>2. meta = smeta /\ smeta # None
    BY <1>1 DEF Base, Copied
  <1>3. meta \in Metadata /\ WellFormed(meta) /\ meta.cdi \in Seq(Nat) /\ meta.ri \in Nat
    BY Fields DEF Base, Types, TypeOK, Ordered
  <1> SUFFICES ASSUME NEW r \in Unfinished' PROVE Stored(r)' \/ Copy(r)'
    BY DEF Kept
  <1>4. r \in Unfinished
    BY <1>1 DEF Unfinished
  <1>5. Stored(r)
    BY <1>1, <1>4 DEF Kept, Copy
  <1>6. PICK i \in DOMAIN store : i \in Indices(smeta) /\ store[i] = r
    BY <1>5 DEF Stored
  <1>7. CASE i \in Range(meta.cdi)
    <2>1. pend # None
      BY <1>1, <1>4, <1>6, <1>7 DEF Base, Copied, Unfinished
    <2>2. /\ pend' = pend /\ pend \in Seq(Items \cup {None}) /\ Len(pend) = Len(meta.cdi)
          /\ \A k \in DOMAIN pend : pend[k] = ItemAt(meta.cdi[k], None)
      BY <1>1, <2>1 DEF Base, Types, Copied
    <2>3. PICK k \in DOMAIN meta.cdi : meta.cdi[k] = i
      BY <1>7 DEF Range
    <2>4. k \in DOMAIN pend
      BY <1>3, <2>2
    <2>5. pend[k] = r
      BY <1>6, <2>2, <2>3, <2>4 DEF ItemAt
    <2> QED BY <1>1, <2>2, <2>4, <2>5 DEF Copy
  <1>8. CASE i \notin Range(meta.cdi)
    <2>1. i \in Queued(meta)
      BY <1>2, <1>6, <1>8 DEF Indices, Queued
    <2>2. i \in DOMAIN store' /\ store'[i] = r
      BY <1>1, <1>6, <1>8, WithoutStore
    <2> QED BY <1>1, <1>2, <1>6, <2>1, <2>2 DEF Stored, Stays
  <1> QED BY <1>7, <1>8

\* An item leaves the list for an index that the metadata on disk lists.
LEMMA StartPutKept ==
  ASSUME Base, Kept, StartPut
  PROVE  Kept'
  <1>0. PICK m, s :
          /\ m = [meta EXCEPT !.wi = @ + 1, !.isz = @ + 0]
          /\ s = WithItem(store, meta.wi, Head(pend))
    OBVIOUS
  <1>1. /\ life = "put" /\ life' = "put" /\ ~Started /\ ~Started'
        /\ pend \in Seq(Items \cup {None}) /\ pend # <<>> /\ pend' = Tail(pend)
        /\ meta' \in {meta, m}
        /\ UNCHANGED <<accepted, completed>>
        /\ \/ Head(pend) = None /\ UNCHANGED <<meta, smeta, store, dropped>>
           \/ /\ Head(pend) # None /\ meta' = m /\ smeta' = m /\ store' = s
              /\ UNCHANGED dropped
           \/ /\ Head(pend) # None /\ dropped' = dropped \cup {Head(pend)}
              /\ \/ UNCHANGED <<smeta, store>>
                 \/ meta' = m /\ smeta' = m /\ store' = s
    BY <1>0, StartPutCases DEF diskVars
  <1>2. meta \in Metadata /\ WellFormed(meta) /\ meta.wi \in Nat
    BY Fields DEF Base, Types, TypeOK, Ordered
  <1>3. /\ m \in Metadata /\ Indices(m) = Indices(meta) \cup {meta.wi}
        /\ Queued(m) = Queued(meta) \cup {meta.wi} /\ meta.wi \notin Queued(meta)
    <2>1. 0 \in Nat
      OBVIOUS
    <2> QED BY <1>0, <1>2, <2>1, PutFields
  <1>4. Head(pend) # None =>
          /\ DOMAIN s = DOMAIN store \cup {meta.wi} /\ s[meta.wi] = Head(pend)
          /\ \A i \in DOMAIN store : i # meta.wi => s[i] = store[i]
    <2>1. Head(pend) \in Items \cup {None}
      BY <1>1
    <2> QED BY <1>0, <1>2, <2>1, WithItemStore
  <1>5. m # None /\ Queued(m) \subseteq Indices(m)
    BY <1>3, Fields DEF Indices, Queued
  <1>6. dropped \subseteq dropped' /\ (Head(pend) # None /\ dropped' # dropped => Head(pend) \in dropped')
    BY <1>1
  <1> SUFFICES ASSUME NEW r \in Unfinished' PROVE Stored(r)' \/ Copy(r)'
    BY DEF Kept
  <1>7. r \in Unfinished /\ r # None
    BY <1>1, <1>6, Fields DEF Unfinished, Base, Types, TypeOK
  <1>8. CASE Stored(r)
    <2>1. PICK i \in DOMAIN store :
            smeta # None /\ i \in Indices(smeta) /\ store[i] = r /\ i \in Queued(meta)
      BY <1>1, <1>8 DEF Stored, Stays
    <2>2. i \in Queued(m) /\ i # meta.wi
      BY <1>3, <2>1
    <2>3. i \in DOMAIN store' /\ store'[i] = r
      BY <1>1, <1>4, <2>1, <2>2
    <2>4. smeta' # None /\ i \in Indices(smeta') /\ i \in Queued(meta')
      BY <1>1, <1>5, <2>1, <2>2
    <2> QED BY <1>1, <2>3, <2>4 DEF Stored, Stays
  <1>9. CASE Copy(r)
    <2>1. PICK k \in DOMAIN pend : pend[k] = r
      BY <1>9 DEF Copy
    <2>2. CASE k = 1
      <3>1. Head(pend) = r
        BY <1>1, <2>1, <2>2
      <3>2. meta' = m /\ smeta' = m /\ store' = s
        BY <1>1, <1>6, <1>7, <3>1 DEF Unfinished
      <3>3. meta.wi \in DOMAIN store' /\ store'[meta.wi] = r
        BY <1>4, <1>7, <3>1, <3>2
      <3> QED BY <1>1, <1>3, <1>5, <3>2, <3>3 DEF Stored, Stays
    <2>3. CASE k # 1
      <3>1. k - 1 \in DOMAIN Tail(pend) /\ Tail(pend)[k - 1] = pend[k]
        BY <1>1, <2>3
      <3> QED BY <1>1, <2>1, <3>1 DEF Copy
    <2> QED BY <2>2, <2>3
  <1> QED BY <1>7, <1>8, <1>9 DEF Kept

\* When the list is empty everything is stored.
LEMMA StartDoneKept ==
  ASSUME Base, Kept, StartDone
  PROVE  Kept'
  <1>1. /\ life = "put" /\ life' = "run" /\ Started' /\ pend = <<>>
        /\ UNCHANGED <<smeta, store, accepted, completed, dropped>>
    BY DEF StartDone, StartConsumers, Started, diskVars, histVars
  <1>2. Indices(meta') = Queued(meta)
    BY StartDoneBase
  <1>3. DOMAIN pend = {}
    BY <1>1
  <1> SUFFICES ASSUME NEW r \in Unfinished' PROVE Stored(r)'
    BY DEF Kept
  <1>4. Stored(r)
    BY <1>1, <1>3 DEF Kept, Copy, Unfinished
  <1> QED BY <1>1, <1>2, <1>4 DEF Stored, Stays

\* A request is accepted once it is stored; no other is overwritten.
LEMMA OfferPutKept ==
  ASSUME Base, Kept, NEW p \in Producers, OfferPut(p)
  PROVE  Kept'
  <1>0. PICK m, s :
          /\ m = [meta EXCEPT !.wi = @ + 1, !.isz = @ + offer[p].size]
          /\ s = WithItem(store, meta.wi, offer[p])
    OBVIOUS
  <1>1. /\ Started /\ Started' /\ offer[p] \in Requests /\ meta' = m
        /\ UNCHANGED <<life, completed, dropped>>
        /\ \/ smeta' = m /\ store' = s /\ accepted' = accepted \cup {offer[p]}
           \/ accepted' = accepted /\ (UNCHANGED <<smeta, store>> \/ (smeta' = m /\ store' = s))
    BY <1>0, OfferPutCases DEF diskVars
  <1>2. meta \in Metadata /\ WellFormed(meta) /\ meta.wi \in Nat /\ offer[p] \in Items
        /\ offer[p].size \in Nat
    BY <1>1, Fields DEF Base, Types, TypeOK, Ordered
  <1>3. m # None /\ Indices(m) = Indices(meta) \cup {meta.wi} /\ meta.wi \notin Indices(meta)
    BY <1>0, <1>2, PutFields, Fields
  <1>4. /\ DOMAIN s = DOMAIN store \cup {meta.wi} /\ s[meta.wi] = offer[p]
        /\ \A i \in DOMAIN store : i # meta.wi => s[i] = store[i]
    <2>1. PICK k \in Nat, q \in Items : k = meta.wi /\ q = offer[p]
      BY <1>2
    <2>2. s = WithItem(store, k, q)
      BY <1>0, <2>1
    <2> QED BY <2>1, <2>2, WithItemStore
  <1>5. life # "put" /\ life' # "put"
    BY <1>1 DEF Started
  <1> SUFFICES ASSUME NEW r \in Unfinished' PROVE Stored(r)'
    BY DEF Kept
  <1>6. CASE r \in Unfinished
    <2>1. Stored(r)
      BY <1>5, <1>6 DEF Kept, Copy
    <2>2. PICK i \in DOMAIN store :
            smeta # None /\ i \in Indices(smeta) /\ store[i] = r /\ i \in Indices(meta)
      BY <1>1, <2>1 DEF Stored, Stays
    <2>3. i \in Indices(m) /\ i # meta.wi
      BY <1>3, <2>2
    <2>4. i \in DOMAIN store' /\ store'[i] = r /\ smeta' # None /\ i \in Indices(smeta')
      BY <1>1, <1>3, <1>4, <2>2, <2>3
    <2> QED BY <1>1, <1>5, <2>3, <2>4 DEF Stored, Stays
  <1>7. CASE r \notin Unfinished
    <2>1. r = offer[p] /\ smeta' = m /\ store' = s
      BY <1>1, <1>7 DEF Unfinished
    <2> QED BY <1>1, <1>3, <1>4, <1>5, <2>1 DEF Stored, Stays
  <1> QED BY <1>6, <1>7

\* An item that leaves the metadata leaves alone the others.
LEMMA LeaveKept ==
  ASSUME Base, Kept, Started, Started', NEW i,
         Indices(meta') = Indices(meta) \ {i} \/ Indices(meta') = Indices(meta),
         smeta' = smeta \/ (smeta' # None /\ Indices(meta) \ {i} \subseteq Indices(smeta')),
         store' \in {store, Without(store, {i})},
         i \in DOMAIN store => store[i] \notin Unfinished',
         Unfinished' \subseteq Unfinished
  PROVE  Kept'
  <1>1. life # "put" /\ life' # "put"
    BY DEF Started
  <1> SUFFICES ASSUME NEW r \in Unfinished' PROVE Stored(r)'
    BY DEF Kept
  <1>2. Stored(r)
    BY <1>1 DEF Kept, Copy
  <1>3. PICK k \in DOMAIN store :
          smeta # None /\ k \in Indices(smeta) /\ store[k] = r /\ k \in Indices(meta)
    BY <1>2 DEF Stored, Stays
  <1>4. k # i
    BY <1>3
  <1>5. k \in DOMAIN store' /\ store'[k] = r
    <2>1. PICK s : s = Without(store, {i})
      OBVIOUS
    <2>2. k \in DOMAIN s /\ s[k] = r
      BY <1>3, <1>4, <2>1, WithoutStore
    <2> QED BY <1>3, <2>1, <2>2
  <1>6. smeta' # None /\ k \in Indices(smeta') /\ k \in Indices(meta')
    BY <1>3, <1>4
  <1> QED BY <1>1, <1>5, <1>6 DEF Stored, Stays

\* A dispatched request stays stored, and listed on disk.
LEMMA ReadKept ==
  ASSUME Base, Kept, NEW c \in Consumers, ReadNext(c) \/ ReadDrop(c)
  PROVE  Kept'
  <1>0. meta.ri # meta.wi
    BY ReadNextCases, ReadDropCases
  <1>1. meta \in Metadata /\ WellFormed(meta)
    BY DEF Base, Types, TypeOK, Ordered
  <1>2. Dispatched \in Metadata /\ Dispatched # None /\ WellFormed(Dispatched)
        /\ Indices(Dispatched) = Indices(meta)
        /\ meta.ri \in Range(Dispatched.cdi)
    BY <1>0, <1>1, DispatchedFields, DispatchedIndices, Fields
  <1>3. PICK i, m : i = meta.ri /\ m = Finished(Dispatched, i)
    OBVIOUS
  <1>4. m \in Metadata /\ m # None /\ Indices(m) = Indices(meta) \ {i}
    BY <1>2, <1>3, FinishedFields, FinishedIndices, Fields
  <1>5. CASE ReadNext(c)
    <2>1. /\ Started /\ Started' /\ meta' = Dispatched /\ smeta' = Dispatched
          /\ UNCHANGED <<store, life, accepted, completed, dropped>>
      BY <1>5, ReadNextCases
    <2> SUFFICES ASSUME NEW r \in Unfinished' PROVE Stored(r)'
      BY DEF Kept
    <2>2. life # "put"
      BY <2>1 DEF Started
    <2>3. Stored(r)
      BY <2>1, <2>2 DEF Kept, Copy, Unfinished
    <2> QED BY <1>2, <2>1, <2>2, <2>3 DEF Stored, Stays
  <1>6. CASE ReadDrop(c)
    <2>1. /\ Started /\ Started' /\ meta' = m /\ smeta' \in {smeta, Dispatched, m}
          /\ store' \in {store, Without(store, {i})}
          /\ dropped' = dropped \cup {NextRequest}
          /\ UNCHANGED <<accepted, completed>>
      BY <1>3, <1>6, ReadDropCases
    <2>2. i \in DOMAIN store => store[i] \notin Unfinished'
      BY <1>3, <2>1 DEF NextRequest, ItemAt, Unfinished
    <2>3. Unfinished' \subseteq Unfinished
      BY <2>1 DEF Unfinished
    <2>4. smeta' = smeta \/ (smeta' # None /\ Indices(meta) \ {i} \subseteq Indices(smeta'))
      BY <1>2, <1>4, <2>1
    <2>5. Indices(meta') = Indices(meta) \ {i}
      BY <1>4, <2>1
    <2> QED BY <2>1, <2>2, <2>3, <2>4, <2>5, LeaveKept
  <1> QED BY <1>5, <1>6

\* Only the item of the completed request is deleted.
LEMMA OnDoneFinishKept ==
  ASSUME Base, Kept, NEW c \in Consumers, OnDoneFinish(c)
  PROVE  Kept'
  <1>0. PICK h, i, d, m :
          h = cur[c] /\ i = h.idx /\ d = Released(h.el) /\ m = Finished(d, i)
    OBVIOUS
  <1>1. /\ cpc[c] = "onDone" /\ h \in Handed /\ Started /\ Started'
        /\ meta' = m /\ completed' = completed \cup {h.el}
        /\ smeta' \in {smeta, m} /\ store' \in {store, Without(store, {i})}
        /\ UNCHANGED <<accepted, dropped>>
    BY <1>0, OnDoneFinishCases
  <1>2. meta \in Metadata /\ WellFormed(meta) /\ h.el \in Items
    BY <1>1, Fields DEF Base, Types, TypeOK, Ordered
  <1>3. d \in Metadata /\ WellFormed(d) /\ d.cdi = meta.cdi /\ Indices(d) = Indices(meta)
    BY <1>0, <1>2, ReleasedFields
  <1>4. i \in Range(meta.cdi) /\ (i \in DOMAIN store => store[i] = h.el)
    BY <1>0, <1>1 DEF Base, Served, Serving
  <1>5. m # None /\ Indices(m) = Indices(meta) \ {i}
    BY <1>0, <1>3, <1>4, FinishedFields, FinishedIndices, Fields
  <1>6. i \in DOMAIN store => store[i] \notin Unfinished'
    BY <1>1, <1>4 DEF Unfinished
  <1>7. Unfinished' \subseteq Unfinished
    BY <1>1 DEF Unfinished
  <1>8. smeta' = smeta \/ (smeta' # None /\ Indices(meta) \ {i} \subseteq Indices(smeta'))
    BY <1>1, <1>5
  <1>9. Indices(meta') = Indices(meta) \ {i}
    BY <1>1, <1>5
  <1> QED BY <1>1, <1>6, <1>7, <1>8, <1>9, LeaveKept

\* The process ends, but not while Start holds the only copies.
LEMMA DieKept ==
  ASSUME Kept, Die, life # "put"
  PROVE  Kept'
  <1>1. life' = "down" /\ ~Started' /\ UNCHANGED <<smeta, store, accepted, completed, dropped>>
    BY DEF Die, diskVars, histVars, Started
  <1> SUFFICES ASSUME NEW r \in Unfinished' PROVE Stored(r)'
    BY DEF Kept
  <1>2. Stored(r)
    BY <1>1 DEF Kept, Copy, Unfinished
  <1> QED BY <1>1, <1>2 DEF Stored, Stays

\* Kept is inductive, unless a crash hits Start while it puts items back.
LEMMA KeptStep ==
  ASSUME ~CrashWhileReputting
  PROVE  Base /\ Kept /\ [Next]_vars => Kept'
  <1> SUFFICES ASSUME Base, Kept, [Next]_vars PROVE Kept'
    OBVIOUS
  <1>1. CASE UNCHANGED vars
    BY <1>1 DEF vars, memVars, diskVars, lifeVars, histVars, Kept, Unfinished, Stored, Copy,
      Stays, Started
  <1>2. CASE Start
    BY <1>2, StartNewKept, StartLoadKept, StartCleanupKept, StartPutKept, StartDoneKept DEF Start
  <1>3. ASSUME NEW p \in Producers, Producer(p) PROVE Kept'
    <2>1. CASE QuietOffer(p)
      <3>1. UNCHANGED <<memVars, diskVars, lifeVars, histVars>>
        BY <2>1 DEF QuietOffer, OfferLock, OfferFull, OfferWait, OfferWoken, OfferCtxDone,
          OfferCtxRelock, OfferCancelled, Return
      <3> QED BY <2>1, <3>1, QuietOfferBase, KeptQuiet DEF memVars, diskVars, lifeVars, histVars,
        Started
    <2>2. CASE OfferPut(p)
      BY <2>2, OfferPutKept
    <2> QED BY <1>3, <2>1, <2>2 DEF Producer, QuietOffer
  <1>4. ASSUME NEW c \in Consumers, Consumer(c) PROVE Kept'
    <2>1. CASE QuietRead(c)
      <3>1. UNCHANGED <<memVars, diskVars, lifeVars, histVars>>
        BY <2>1 DEF QuietRead, ReadLock, ReadStopped, ReadPark, ReadDropSend, OnDoneLock,
          OnDoneSend
      <3> QED BY <2>1, <3>1, QuietReadBase, KeptQuiet DEF memVars, diskVars, lifeVars, histVars,
        Started
    <2>2. CASE OnDoneUnref(c)
      BY <2>2, OnDoneUnrefBase, KeptQuiet DEF Started
    <2>3. CASE ReadNext(c) \/ ReadDrop(c)
      BY <2>3, ReadKept
    <2>4. CASE OnDoneFinish(c)
      BY <2>4, OnDoneFinishKept
    <2> QED BY <1>4, <2>1, <2>2, <2>3, <2>4 DEF Consumer, QuietRead
  <1>5. CASE ShutdownRetry \/ ShutdownQueue
    <2>1. UNCHANGED <<meta, diskVars, histVars>>
      BY <1>5 DEF ShutdownRetry, ShutdownQueue, memVars
    <2> QED BY <1>5, <2>1, ShutdownBase, KeptQuiet DEF diskVars, histVars
  <1>6. CASE ShutdownReturns \/ Crash
    <2>1. Die /\ life # "put"
      BY <1>6 DEF ShutdownReturns, Crash
    <2> QED BY <2>1, DieKept
  <1> QED BY <1>1, <1>2, <1>3, <1>4, <1>5, <1>6 DEF Next

\* Nothing Offer accepted is lost, whatever crashes, restarts, shutdowns and
\* storage failures come, unless a crash hits the end of Start, where the items
\* that were dispatched have been deleted and not all put back.
THEOREM PersistentNoLoss ==
  ASSUME ~CrashWhileReputting
  PROVE  Spec => []NoLoss
  <1>1. Init => Kept
    BY DEF Init, Kept, Unfinished
  <1>2. Base /\ Kept => NoLoss
    BY DEF Kept, Unfinished, Stored, Copy, NoLoss
  <1> QED BY <1>1, <1>2, KeptStep, PersistentQueueBase, PTL DEF Spec

-----------------------------------------------------------------------------
(* The size *)

\* Nothing in a store of items is a gap.
LEMMA StoreFilled ==
  ASSUME NEW s, \A i \in DOMAIN s : s[i] \in Items
  PROVE  Filled(s) = DOMAIN s
  BY Fields DEF Filled

\* The sizes add up to a number that none of them exceeds.
LEMMA SizesOfNat ==
  ASSUME NEW s, IsFiniteSet(DOMAIN s), \A i \in DOMAIN s : s[i] \in Items \cup {None}
  PROVE  /\ SizesOf(s) \in Nat /\ IsFiniteSet(Filled(s))
         /\ \A i \in Filled(s) : s[i].size \in Nat /\ s[i].size <= SizesOf(s)
  <1> DEFINE D == Filled(s)
             f == [i \in D |-> s[i].size]
  <1>1. IsFiniteSet(D)
    BY FS_Subset DEF Filled
  <1>2. \A i \in D : f[i] \in Nat
    BY Fields DEF Filled
  <1>3. \A i \in D : f[i] = s[i].size
    OBVIOUS
  <1>4. SizesOf(s) = Total(f, D)
    BY DEF SizesOf
  <1> HIDE DEF f, D
  <1>5. Total(f, D) \in Nat /\ \A i \in D : f[i] <= Total(f, D)
    BY <1>1, <1>2, TotalBounds
  <1> QED BY <1>1, <1>2, <1>3, <1>4, <1>5 DEF D

\* The empty store.
LEMMA SizesOfEmpty ==
  ASSUME NEW s, DOMAIN s = {}
  PROVE  SizesOf(s) = 0
  <1>1. Filled(s) = {}
    BY DEF Filled
  <1> QED BY <1>1, TotalEmpty DEF SizesOf

\* A part of a store, and the rest.
LEMMA SizesOfSplit ==
  ASSUME NEW s, IsFiniteSet(DOMAIN s), \A i \in DOMAIN s : s[i] \in Items,
         NEW I, NEW u, DOMAIN u = DOMAIN s \ I, \A i \in DOMAIN u : u[i] = s[i]
  PROVE  SizesOf(s) = SizesOf(u) + Total([i \in DOMAIN s |-> s[i].size], DOMAIN s \cap I)
  <1> DEFINE D == DOMAIN s
             J == D \cap I
             E == D \ I
             f == [i \in D |-> s[i].size]
             g == [i \in E |-> u[i].size]
  <1>1. IsFiniteSet(D) /\ IsFiniteSet(E) /\ IsFiniteSet(J) /\ E \cap J = {} /\ E \cup J = D
    BY FS_Subset
  <1>2. \A i \in D : f[i] \in Int
    BY Fields
  <1>3. Filled(s) = D /\ Filled(u) = E
    BY StoreFilled
  <1>4. SizesOf(s) = Total(f, D) /\ SizesOf(u) = Total(g, E)
    BY <1>3 DEF SizesOf
  <1>5. \A i \in E : f[i] = g[i]
    OBVIOUS
  <1> HIDE DEF D, E, J, f, g
  <1>6. \A i \in E \cup J : f[i] \in Int
    BY <1>1, <1>2
  <1>7. Total(f, E \cup J) = Total(f, E) + Total(f, J)
    BY <1>1, <1>6, TotalUnion
  <1>8. Total(f, E) = Total(g, E)
    BY <1>1, <1>5, <1>6, TotalSame
  <1> QED BY <1>1, <1>4, <1>7, <1>8 DEF D, J, f

\* One item less.
LEMMA SizesOfRemove ==
  ASSUME NEW s, IsFiniteSet(DOMAIN s), \A i \in DOMAIN s : s[i] \in Items,
         NEW k \in DOMAIN s, NEW u, DOMAIN u = DOMAIN s \ {k}, \A i \in DOMAIN u : u[i] = s[i]
  PROVE  SizesOf(s) = SizesOf(u) + s[k].size
  <1> DEFINE f == [i \in DOMAIN s |-> s[i].size]
  <1>1. SizesOf(s) = SizesOf(u) + Total(f, DOMAIN s \cap {k})
    BY SizesOfSplit
  <1>2. DOMAIN s \cap {k} = {k} /\ {} \cup {k} = {k} /\ f[k] = s[k].size /\ f[k] \in Int
    BY Fields
  <1> HIDE DEF f
  <1>3. Total(f, {} \cup {k}) = Total(f, {}) + f[k]
    <2>1. IsFiniteSet({}) /\ k \notin {} /\ \A x \in {} \cup {k} : f[x] \in Int
      BY <1>2, FS_EmptySet
    <2> QED BY <2>1, TotalAdd
  <1>4. Total(f, {k}) = s[k].size
    BY <1>2, <1>3, TotalEmpty
  <1> QED BY <1>1, <1>2, <1>4

\* One item more.
LEMMA SizesOfWith ==
  ASSUME Base, NEW k \in Nat, k \notin DOMAIN store, NEW r \in Items
  PROVE  SizesOf(WithItem(store, k, r)) = SizesOf(store) + r.size
  <1> DEFINE s == WithItem(store, k, r)
  <1>1. /\ DOMAIN s = DOMAIN store \cup {k} /\ IsFiniteSet(DOMAIN s)
        /\ s[k] = r /\ \A i \in DOMAIN store : i # k => s[i] = store[i]
        /\ \A i \in DOMAIN s : s[i] \in Items
    BY WithItemStore
  <1> HIDE DEF s
  <1>2. DOMAIN store = DOMAIN s \ {k} /\ k \in DOMAIN s /\ \A i \in DOMAIN store : store[i] = s[i]
    BY <1>1
  <1>3. SizesOf(s) = SizesOf(store) + s[k].size
    BY <1>1, <1>2, SizesOfRemove
  <1> QED BY <1>1, <1>3 DEF s

\* Taking the head of a list.
LEMMA SizesOfTail ==
  ASSUME NEW q \in Seq(Items \cup {None}), q # <<>>
  PROVE  LET t == Tail(q)
         IN /\ SizesOf(q) = SizesOf(t) + (IF Head(q) = None THEN 0 ELSE Head(q).size)
            /\ Cardinality(Filled(q)) = Cardinality(Filled(t)) + (IF Head(q) = None THEN 0 ELSE 1)
            /\ Cardinality(Filled(t)) \in Nat /\ Filled(t) = {k \in 1..(Len(q) - 1) : q[k + 1] # None}
  <1> DEFINE t == Tail(q)
             n == Len(q)
  <1>1. n \in Nat /\ n >= 1 /\ DOMAIN q = 1..n /\ Head(q) = q[1]
    OBVIOUS
  <1>2. DOMAIN t = 1..(n - 1) /\ \A k \in 1..(n - 1) : t[k] = q[k + 1]
    BY <1>1
  <1> HIDE DEF t, n
  <1> DEFINE F == Filled(q)
             G == Filled(t)
             f == [i \in F |-> q[i].size]
             g == [i \in G |-> t[i].size]
             h == [i \in G |-> i + 1]
             R == F \ {1}
  <1>3. G = {k \in 1..(n - 1) : q[k + 1] # None}
    BY <1>1, <1>2 DEF Filled
  <1>4. F = {k \in 1..n : q[k] # None}
    BY <1>1 DEF Filled
  <1>5. \A i \in F : f[i] \in Int
    <2>1. \A i \in 1..n : q[i] \in Items \cup {None}
      BY <1>1
    <2> QED BY <2>1, <1>4, Fields
  <1>6. IsFiniteSet(F) /\ IsFiniteSet(G) /\ IsFiniteSet(R)
    <2>1. IsFiniteSet(1..n) /\ IsFiniteSet(1..(n - 1))
      BY <1>1, FS_Interval
    <2> QED BY <2>1, <1>3, <1>4, FS_Subset
  <1>7. {h[i] : i \in G} = R
    <2>1. ASSUME NEW i \in G PROVE h[i] \in R
      BY <1>1, <1>3, <1>4
    <2>2. ASSUME NEW j \in R PROVE \E i \in G : h[i] = j
      <3>1. j - 1 \in G /\ (j - 1) + 1 = j
        BY <1>1, <1>3, <1>4
      <3> QED BY <3>1
    <2> HIDE DEF h, G, R
    <2>3. {h[i] : i \in G} \subseteq R
      BY <2>1
    <2>4. R \subseteq {h[i] : i \in G}
      BY <2>2
    <2> QED BY <2>3, <2>4
  <1>8. \A x, y \in G : h[x] = h[y] => x = y
    BY <1>1, <1>3
  <1>9. \A x \in G : h[x] \in F /\ g[x] = f[h[x]] /\ f[h[x]] \in Int
    BY <1>1, <1>2, <1>3, <1>4, <1>5
  <1>10. Total(g, G) = Total(f, R)
    <2> HIDE DEF f, g, h, G, R
    <2> QED BY <1>6, <1>7, <1>8, <1>9, TotalImage
  <1>11. Cardinality(G) = Cardinality(R) /\ Cardinality(G) \in Nat /\ Cardinality(R) \in Nat
    <2>1. h \in Bijection(G, R)
      <3>1. h \in [G -> R]
        BY <1>7
      <3>2. \A y \in R : \E x \in G : h[x] = y
        BY <1>7
      <3> HIDE DEF h, G, R
      <3>3. h \in Injection(G, R)
        BY <3>1, <1>8 DEF Injection, IsInjective
      <3>4. h \in Surjection(G, R)
        BY <3>1, <3>2 DEF Surjection
      <3> QED BY <3>3, <3>4 DEF Bijection
    <2>2. ExistsBijection(G, R)
      BY <2>1 DEF ExistsBijection
    <2> HIDE DEF h, G, R
    <2> QED BY <2>2, <1>6, FS_Bijection, FS_CardinalityType
  <1>12. SizesOf(q) = Total(f, F) /\ SizesOf(t) = Total(g, G)
    BY DEF SizesOf
  <1>13. CASE Head(q) = None
    <2>1. R = F
      BY <1>1, <1>4, <1>13
    <2>2. Total(g, G) \in Int
      BY <1>5, <1>6, <1>10, <2>1, TotalInt
    <2> HIDE DEF f, g, F, G, R
    <2> QED BY <1>3, <1>10, <1>11, <1>12, <1>13, <2>1, <2>2 DEF t, G, F, n
  <1>14. CASE Head(q) # None
    <2>1. 1 \in F
      BY <1>1, <1>4, <1>14
    <2>2. f[1] = Head(q).size /\ f[1] \in Int
      BY <1>1, <1>5, <2>1
    <2> HIDE DEF f, g, F
    <2>3. Total(f, R) = Total(f, F) - f[1] /\ Total(f, F) \in Int
      BY <1>5, <1>6, <2>1, TotalRemove, TotalInt
    <2>4. Cardinality(R) = Cardinality(F) - 1 /\ Cardinality(F) \in Nat
      BY <1>6, <2>1, FS_RemoveElement, FS_CardinalityType
    <2> HIDE DEF G, R
    <2>5. Total(f, F) = Total(g, G) + Head(q).size
      BY <1>10, <2>2, <2>3
    <2>6. Cardinality(F) = Cardinality(G) + 1
      BY <1>11, <2>4
    <2> QED BY <1>3, <1>11, <1>12, <1>14, <2>5, <2>6 DEF t, G, F, n
  <1> QED BY <1>13, <1>14

\* What Start deletes is what it has copies of.
LEMMA SizesOfCleanup ==
  ASSUME Base, life = "cleanup", pend # None
  PROVE  LET s == Without(store, Range(meta.cdi))
         IN /\ SizesOf(store) = SizesOf(s) + SizesOf(pend)
            /\ Filled(pend) = Present(meta, store)
  <1> DEFINE s == Without(store, Range(meta.cdi))
             f == [i \in DOMAIN store |-> store[i].size]
             g == [k \in Filled(pend) |-> pend[k].size]
             J == DOMAIN store \cap Range(meta.cdi)
  <1>1. /\ pend \in Seq(Items \cup {None}) /\ Len(pend) = Len(meta.cdi)
        /\ \A k \in DOMAIN pend : pend[k] = ItemAt(meta.cdi[k], None)
    BY DEF Base, Types, Copied
  <1>2. meta.cdi \in Seq(Nat) /\ \A a, b \in DOMAIN meta.cdi : meta.cdi[a] = meta.cdi[b] => a = b
    BY Fields DEF Base, Types, TypeOK, Ordered, WellFormed, IsInjective
  <1>3. DOMAIN pend = DOMAIN meta.cdi /\ IsFiniteSet(DOMAIN pend)
    <2>1. DOMAIN pend = 1..Len(pend) /\ DOMAIN meta.cdi = 1..Len(pend) /\ Len(pend) \in Nat
      BY <1>1, <1>2
    <2> QED BY <2>1, FS_Interval
  <1>4. IsFiniteSet(DOMAIN store) /\ \A i \in DOMAIN store : store[i] \in Items
    BY DEF Base, Types, TypeOK
  <1>5. Filled(pend) = Present(meta, store)
    BY <1>1, <1>3, <1>4, Fields DEF Filled, Present, ItemAt
  <1>6. SizesOf(store) = SizesOf(s) + Total(f, J)
    <2>1. DOMAIN s = DOMAIN store \ Range(meta.cdi) /\ \A i \in DOMAIN s : s[i] = store[i]
      BY WithoutStore
    <2> HIDE DEF s
    <2> QED BY <1>4, <2>1, SizesOfSplit
  <1>7. Total(g, Filled(pend)) = Total(f, J)
    <2> DEFINE P == Filled(pend)
               h == meta.cdi
    <2>1. IsFiniteSet(P) /\ P = {k \in DOMAIN h : h[k] \in DOMAIN store}
      BY <1>3, <1>5, FS_Subset DEF Present
    <2>2. \A x, y \in P : h[x] = h[y] => x = y
      BY <1>2, <2>1
    <2>3. \A x \in P : g[x] = f[h[x]] /\ f[h[x]] \in Int
      <3>1. ASSUME NEW x \in P PROVE h[x] \in DOMAIN store /\ pend[x] = store[h[x]]
        BY <1>1, <1>3, <2>1 DEF ItemAt
      <3> QED BY <3>1, <1>4, Fields
    <2>4. {h[x] : x \in P} = J
      BY <2>1 DEF Range
    <2> HIDE DEF P, h, f, g, J
    <2>5. Total(g, P) = Total(f, {h[x] : x \in P})
      BY <2>1, <2>2, <2>3, TotalImage
    <2> QED BY <2>4, <2>5 DEF P
  <1>8. SizesOf(pend) = Total(g, Filled(pend))
    BY DEF SizesOf
  <1> HIDE DEF s, f, g, J
  <1> QED BY <1>5, <1>6, <1>7, <1>8 DEF s

\* Metadata that is exact is exact on disk.
LEMMA ExactOnDisk ==
  ASSUME NEW m \in Metadata, NEW s, ExactFor(m, s)
  PROVE  DiskFor(m, s)
  <1>1. m.cdi \in Seq(Nat) /\ m.ri \in Nat /\ m.wi \in Nat
    BY Fields
  <1>2. DOMAIN s = Indices(m) /\ Queued(m) \subseteq Indices(m) /\ Range(m.cdi) \subseteq Indices(m)
    BY DEF ExactFor, Indices, Queued
  <1>3. Present(m, s) = 1..Len(m.cdi)
    BY <1>1, <1>2 DEF Present, Range
  <1>4. Len(m.cdi) \in Nat
    BY <1>1
  <1>5. Cardinality(1..Len(m.cdi)) = Len(m.cdi)
    BY <1>4, FS_Interval
  <1> QED BY <1>1, <1>2, <1>3, <1>5 DEF ExactFor, DiskFor, requestSize

\* A step of a started queue that touches neither metadata nor storage.
LEMMA ExactQuiet ==
  ASSUME Exact, Started, Started', refClient' > 0 => refClient > 0,
         UNCHANGED <<sizerType, meta, smeta, store, faults>>
  PROVE  Exact'
  <1>1. life # "put" /\ life # "cleanup" /\ life' # "put" /\ life' # "cleanup"
    BY DEF Started
  <1> QED BY <1>1 DEF Exact, ExactFor, DiskFor, requestSize

\* A new, empty queue.
LEMMA StartNewExact ==
  ASSUME Base, Exact, StartNew \/ StartUnreadable
  PROVE  Exact'
  <1> SUFFICES ASSUME faults' = 0 PROVE Exact'
    BY DEF Exact
  <1>1. refClient = 1
    BY DEF StartNew, StartUnreadable, Base, Roles, Started
  <1>2. StartNew
    BY <1>1, FaultCounts DEF StartUnreadable
  <1>3. life = "down" /\ smeta = None /\ UNCHANGED faults /\ smeta' = NewMetadata
    BY <1>1, <1>2, FaultCounts DEF StartNew
  <1>4. life' = "run" /\ meta' = NewMetadata /\ UNCHANGED <<store, sizerType>>
    BY <1>2 DEF StartNew, Memory, StartConsumers, confVars
  <1>5. DOMAIN store = {}
    BY <1>3 DEF Exact
  <1>6. ExactFor(NewMetadata, store)'
    <2>1. SizesOf(store) = 0
      BY <1>5, SizesOfEmpty
    <2>2. /\ NewMetadata.ri = 0 /\ NewMetadata.wi = 0 /\ NewMetadata.cdi = <<>>
          /\ NewMetadata.isz = 0
      BY DEF NewMetadata
    <2>3. requestSize(NewMetadata) = 0
      BY <2>2 DEF requestSize
    <2> HIDE DEF NewMetadata
    <2> QED BY <1>4, <1>5, <2>1, <2>2, <2>3, NewFields, QueueAssumption DEF ExactFor
  <1>7. ExactFor(NewMetadata, store) /\ NewMetadata # None
    BY <1>4, <1>6, NewFields, Fields DEF ExactFor
  <1>8. DiskFor(NewMetadata, store)
    BY <1>7, NewFields, ExactOnDisk
  <1>9. DiskFor(NewMetadata, store)'
    BY <1>4, <1>8 DEF DiskFor
  <1> QED BY <1>3, <1>4, <1>6, <1>7, <1>9 DEF Exact

\* Loading the metadata of an exact storage.
LEMMA StartLoadExact ==
  ASSUME Base, Exact, StartLoad
  PROVE  Exact'
  <1> SUFFICES ASSUME faults' = 0 PROVE Exact'
    BY DEF Exact
  <1>1. /\ life = "down" /\ ~Started /\ smeta # None /\ meta' = smeta
        /\ UNCHANGED <<sizerType, smeta, store>>
    BY DEF StartLoad, Memory, Started, confVars, diskVars
  <1>2. refClient = 1
    BY <1>1 DEF Base, Roles
  <1>3. /\ smeta.cdi = <<>> => life' = "run" /\ UNCHANGED faults
        /\ smeta.cdi # <<>> =>
             life' = "cleanup" /\ UNCHANGED faults
             /\ pend' = [k \in DOMAIN smeta.cdi |-> ItemAt(smeta.cdi[k], None)]
    BY <1>2, FaultCounts DEF StartLoad, StartConsumers
  <1>4. DiskFor(smeta, store) /\ faults = 0
    BY <1>1, <1>3 DEF Exact
  <1>5. DiskFor(smeta, store)'
    BY <1>1, <1>4 DEF DiskFor
  <1>6. smeta \in Metadata /\ smeta.ri \in Nat /\ smeta.wi \in Nat
    BY <1>1, Fields DEF Base, Types, TypeOK
  <1>7. CASE smeta.cdi = <<>>
    <2>1. DOMAIN smeta.cdi = {} /\ Len(smeta.cdi) = 0
      BY <1>7
    <2>2. Indices(smeta) = Queued(smeta) /\ Present(smeta, store) = {}
      BY <2>1 DEF Indices, Queued, Range, Present
    <2>3. Cardinality({}) = 0
      BY FS_EmptySet
    <2>4. ExactFor(smeta, store)
      BY <1>4, <1>6, <2>1, <2>2, <2>3 DEF DiskFor, ExactFor, requestSize
    <2>5. ExactFor(meta, store)'
      BY <1>1, <2>4 DEF ExactFor
    <2> QED BY <1>1, <1>3, <1>5, <1>7, <2>5 DEF Exact, Started
  <1>8. CASE smeta.cdi # <<>>
    <2>1. pend' \in Seq(Items \cup {None}) \cup {None} /\ life' = "cleanup"
      BY <1>3, <1>8, StartLoadBase DEF Base, Types
    <2>2. pend' # None
      <3>1. smeta.cdi \in Seq(Nat)
        BY <1>6, Fields
      <3>2. PICK n \in Nat : n = Len(smeta.cdi) /\ DOMAIN smeta.cdi = 1..n
        BY <3>1
      <3>3. \A i \in Nat : ItemAt(i, None) \in Items \cup {None}
        BY DEF ItemAt, Base, Types, TypeOK
      <3>4. pend' \in [1..n -> Items \cup {None}]
        BY <1>3, <1>8, <3>1, <3>2, <3>3
      <3>5. pend' \in Seq(Items \cup {None})
        BY <3>4
      <3> QED BY <3>5, NoneAssumption
    <2> QED BY <1>1, <1>5, <2>1, <2>2 DEF Exact, Started
  <1> QED BY <1>7, <1>8

\* The deleted items are counted by the list to put back.
LEMMA StartCleanupExact ==
  ASSUME Base, Exact, StartCleanup
  PROVE  Exact'
  <1> SUFFICES ASSUME faults' = 0 PROVE Exact'
    BY DEF Exact
  <1>1. /\ life = "cleanup" /\ life' = "put" /\ ~Started /\ ~Started'
        /\ pend' = IF pend = None THEN <<>> ELSE pend
        /\ UNCHANGED <<sizerType, meta, smeta>>
    BY DEF StartCleanup, Started, confVars, memVars
  <1>2. refClient = 1 /\ meta = smeta /\ smeta # None
    BY <1>1 DEF Base, Roles, Copied
  <1>3. PICK s : s = Without(store, Range(meta.cdi))
    OBVIOUS
  <1>4. store' = s /\ UNCHANGED faults
    BY <1>2, <1>3, FaultCounts DEF StartCleanup
  <1>5. DiskFor(meta, store) /\ pend # None
    BY <1>1, <1>2, <1>4 DEF Exact
  <1>6. DOMAIN s = DOMAIN store \ Range(meta.cdi) /\ IsFiniteSet(DOMAIN s)
        /\ \A i \in DOMAIN s : s[i] \in Items
    BY <1>3, WithoutStore
  <1>7. /\ SizesOf(store) = SizesOf(s) + SizesOf(pend)
        /\ Filled(pend) = Present(meta, store)
    BY <1>1, <1>3, <1>5, SizesOfCleanup
  <1>8. DOMAIN s = Queued(meta)
    <2>1. Queued(meta) \cap Range(meta.cdi) = {}
      <3> SUFFICES ASSUME NEW k \in DOMAIN meta.cdi, meta.cdi[k] \in Queued(meta) PROVE FALSE
        BY DEF Range
      <3>1. meta.ri \in Nat /\ meta.cdi[k] < meta.ri /\ meta.cdi \in Seq(Nat)
        BY Fields DEF Base, Types, TypeOK, Ordered, WellFormed
      <3> QED BY <3>1 DEF Queued
    <2> QED BY <1>5, <1>6, <2>1 DEF DiskFor, Indices, Queued
  <1>9. PutFor(meta, s, pend)
    BY <1>5, <1>7, <1>8 DEF DiskFor, PutFor
  <1>10. PutFor(meta, store, pend)'
    BY <1>1, <1>4, <1>5, <1>9 DEF PutFor
  <1> QED BY <1>1, <1>2, <1>10 DEF Exact

\* Putting an item back moves its size from the list to the storage.
LEMMA StartPutExact ==
  ASSUME Base, Exact, StartPut
  PROVE  Exact'
  <1> SUFFICES ASSUME faults' = 0 PROVE Exact'
    BY DEF Exact
  <1>0. PICK m, s, q, t :
          /\ m = [meta EXCEPT !.wi = @ + 1, !.isz = @ + 0]
          /\ s = WithItem(store, meta.wi, Head(pend))
          /\ q = pend /\ t = Tail(pend)
    OBVIOUS
  <1>1. /\ life = "put" /\ life' = "put" /\ ~Started /\ ~Started' /\ refClient = 1
        /\ q \in Seq(Items \cup {None}) /\ q # <<>> /\ pend' = t
        /\ UNCHANGED sizerType
        /\ \/ Head(q) = None /\ UNCHANGED <<meta, smeta, store, dropped, faults>>
           \/ /\ Head(q) # None /\ meta' = m /\ smeta' = m /\ store' = s
              /\ UNCHANGED faults
           \/ Fault
    BY <1>0, StartPutCases
  <1>2. ~Fault
    BY <1>1, FaultCounts
  <1>3. faults = 0 /\ smeta = meta /\ PutFor(meta, store, q)
    BY <1>0, <1>1, <1>2 DEF Exact
  <1>4. meta \in Metadata /\ WellFormed(meta) /\ meta.wi \in Nat /\ meta.ri \in Nat /\ meta.isz \in Nat
    BY Fields DEF Base, Types, TypeOK, Ordered
  <1>5. /\ m.ri = meta.ri /\ m.wi = meta.wi + 1 /\ m.isz = meta.isz + 0
        /\ Queued(m) = Queued(meta) \cup {meta.wi} /\ meta.wi \notin Queued(meta)
    <2>1. 0 \in Nat
      OBVIOUS
    <2> QED BY <1>0, <1>4, <2>1, PutFields
  <1>6. /\ SizesOf(q) = SizesOf(t) + (IF Head(q) = None THEN 0 ELSE Head(q).size)
        /\ Cardinality(Filled(q)) = Cardinality(Filled(t)) + (IF Head(q) = None THEN 0 ELSE 1)
        /\ Cardinality(Filled(t)) \in Nat
    BY <1>0, <1>1, SizesOfTail
  <1>7. SizesOf(t) \in Nat /\ SizesOf(store) \in Nat
    <2>1. t \in Seq(Items \cup {None})
      BY <1>0, <1>1
    <2>2. IsFiniteSet(DOMAIN t) /\ \A i \in DOMAIN t : t[i] \in Items \cup {None}
      <3>1. DOMAIN t = 1..Len(t) /\ Len(t) \in Nat
        BY <2>1
      <3> QED BY <2>1, <3>1, FS_Interval
    <2>3. IsFiniteSet(DOMAIN store) /\ \A i \in DOMAIN store : store[i] \in Items \cup {None}
      BY DEF Base, Types, TypeOK
    <2> QED BY <2>2, <2>3, SizesOfNat
  <1>8. CASE Head(q) = None
    <2>1. PutFor(meta, store, t)
      BY <1>3, <1>6, <1>7, <1>8 DEF PutFor
    <2>2. PutFor(meta, store, pend)'
      BY <1>1, <1>2, <1>8, <2>1 DEF PutFor
    <2> QED BY <1>1, <1>2, <1>3, <1>8, <2>2 DEF Exact
  <1>9. CASE Head(q) # None
    <2>1. PICK r \in Items : r = Head(q) /\ r.size \in Nat
      BY <1>1, <1>9, Fields
    <2>2. meta.wi \notin DOMAIN store
      BY <1>3, <1>5 DEF PutFor
    <2>3. SizesOf(s) = SizesOf(store) + r.size
      BY <1>0, <1>4, <2>1, <2>2, SizesOfWith
    <2>4. DOMAIN s = DOMAIN store \cup {meta.wi}
      BY <1>0, <1>4, <2>1, WithItemStore
    <2>5. DOMAIN s = Queued(m)
      BY <1>3, <1>5, <2>4 DEF PutFor
    <2>6. m.isz = SizesOf(s) + SizesOf(t)
      BY <1>3, <1>4, <1>5, <1>6, <1>7, <1>9, <2>1, <2>3 DEF PutFor
    <2>7. m.wi - m.ri + Cardinality(Filled(t)) = meta.wi - meta.ri + Cardinality(Filled(q))
      BY <1>4, <1>5, <1>6, <1>9
    <2>8. PutFor(m, s, t)
      BY <1>3, <1>4, <1>5, <2>5, <2>6, <2>7 DEF PutFor
    <2>9. meta' = m /\ smeta' = m /\ store' = s
      BY <1>1, <1>2, <1>9
    <2>10. PutFor(meta, store, pend)'
      BY <1>1, <2>8, <2>9 DEF PutFor
    <2> QED BY <1>1, <2>9, <2>10 DEF Exact
  <1> QED BY <1>8, <1>9

\* With the list empty, the dispatched indices are given up.
LEMMA StartDoneExact ==
  ASSUME Base, Exact, StartDone
  PROVE  Exact'
  <1> SUFFICES ASSUME faults' = 0 PROVE Exact'
    BY DEF Exact
  <1>1. /\ life = "put" /\ life' = "run" /\ Started' /\ pend = <<>>
        /\ UNCHANGED <<sizerType, smeta, store, faults>>
    BY DEF StartDone, StartConsumers, Started, diskVars, confVars
  <1>2. /\ meta' \in Metadata /\ meta'.ri = meta.ri /\ meta'.wi = meta.wi
        /\ meta'.isz = meta.isz /\ meta'.cdi = <<>>
        /\ Indices(meta') = Queued(meta)
    BY StartDoneBase
  <1>3. PICK e : e = pend
    OBVIOUS
  <1>4. smeta = meta /\ PutFor(meta, store, e)
    BY <1>1, <1>3 DEF Exact
  <1>5. e = <<>> /\ DOMAIN e = {} /\ SizesOf(e) = 0 /\ Filled(e) = {} /\ Cardinality({}) = 0
    <2>1. DOMAIN e = {}
      BY <1>1, <1>3
    <2> QED BY <1>1, <1>3, <2>1, SizesOfEmpty, FS_EmptySet DEF Filled
  <1>6. meta \in Metadata /\ WellFormed(meta) /\ meta.ri \in Nat /\ meta.wi \in Nat /\ meta # None
        /\ meta.cdi \in Seq(Nat)
    BY Fields DEF Base, Types, TypeOK, Ordered
  <1>7. SizesOf(store) \in Nat
    BY SizesOfNat DEF Base, Types, TypeOK
  <1>8. meta.isz = SizesOf(store)
        /\ (sizerType = "requests" => meta.wi - meta.ri <= Cap)
        /\ (sizerType # "requests" => meta.isz <= Cap) /\ DOMAIN store = Queued(meta)
    <2>1. Cardinality(Filled(e)) = 0
      BY <1>5
    <2>2. meta.wi - meta.ri + 0 = meta.wi - meta.ri
      BY <1>6
    <2>3. SizesOf(store) + 0 = SizesOf(store)
      BY <1>7
    <2> QED BY <1>4, <1>5, <2>1, <2>2, <2>3 DEF PutFor
  <1>9. ExactFor(meta', store)
    <2>1. requestSize(meta') = meta.wi - meta.ri
      <3>1. Len(<<>>) = 0
        OBVIOUS
      <3> QED BY <1>2, <1>6, <3>1 DEF requestSize
    <2> QED BY <1>2, <1>8, <2>1 DEF ExactFor
  <1>10. ExactFor(meta, store)'
    BY <1>1, <1>9 DEF ExactFor
  <1>11. DiskFor(meta, store)
    <2>1. Present(meta, store) = {}
      <3> SUFFICES ASSUME NEW k \in DOMAIN meta.cdi, meta.cdi[k] \in DOMAIN store PROVE FALSE
        BY DEF Present
      <3>1. meta.cdi[k] < meta.ri /\ meta.cdi[k] \in Nat
        BY <1>6 DEF WellFormed
      <3> QED BY <1>6, <1>8, <3>1 DEF Queued
    <2>2. Queued(meta) \subseteq Indices(meta)
      BY DEF Queued, Indices
    <2> QED BY <1>5, <1>6, <1>8, <2>1, <2>2 DEF DiskFor
  <1>12. DiskFor(smeta, store)'
    BY <1>1, <1>4, <1>11 DEF DiskFor
  <1> QED BY <1>1, <1>4, <1>6, <1>10, <1>12 DEF Exact

\* An accepted request is counted once, and fits.
LEMMA OfferPutExact ==
  ASSUME Base, Exact, NEW p \in Producers, OfferPut(p)
  PROVE  Exact'
  <1> SUFFICES ASSUME faults' = 0 PROVE Exact'
    BY DEF Exact
  <1>0. PICK r, m, s :
          /\ r = offer[p]
          /\ m = [meta EXCEPT !.wi = @ + 1, !.isz = @ + r.size]
          /\ s = WithItem(store, meta.wi, r)
    OBVIOUS
  <1>1. /\ Started /\ Started' /\ r \in Requests /\ meta' = m /\ Fits(p)
        /\ UNCHANGED <<sizerType, refClient, life>>
        /\ \/ refClient > 0 /\ smeta' = m /\ store' = s /\ UNCHANGED faults
           \/ Fault /\ (UNCHANGED <<smeta, store>> \/ (smeta' = m /\ store' = s))
    BY <1>0, OfferPutCases DEF diskVars
  <1>2. /\ life # "put" /\ life' # "put" /\ life' # "cleanup" /\ life # "cleanup"
    BY <1>1 DEF Started
  <1>3. faults = 0
    BY <1>1, FaultCounts
  <1>4. CASE refClient > 0
    <2>1. smeta' = m /\ store' = s
      BY <1>1, <1>4, FaultCounts
    <2>2. ExactFor(meta, store)
      BY <1>1, <1>3, <1>4 DEF Exact
    <2>3. /\ meta \in Metadata /\ WellFormed(meta) /\ meta.wi \in Nat /\ meta.ri \in Nat
          /\ meta.isz \in Nat /\ meta.cdi \in Seq(Nat) /\ r \in Items /\ r.size \in Nat
      BY <1>1, Fields DEF Base, Types, TypeOK, Ordered
    <2>4. /\ m \in Metadata /\ m.ri = meta.ri /\ m.wi = meta.wi + 1
          /\ m.cdi = meta.cdi /\ m.isz = meta.isz + r.size
          /\ Indices(m) = Indices(meta) \cup {meta.wi} /\ meta.wi \notin Indices(meta)
      BY <1>0, <2>3, PutFields
    <2>5. meta.wi \notin DOMAIN store
      BY <2>2, <2>4 DEF ExactFor
    <2>6. SizesOf(s) = SizesOf(store) + r.size
      BY <1>0, <2>3, <2>5, SizesOfWith
    <2>7. DOMAIN s = DOMAIN store \cup {meta.wi}
      BY <1>0, <2>3, WithItemStore
    <2>8. IF sizerType = "requests" THEN requestSize(m) <= Cap ELSE m.isz <= Cap
      <3>1. CASE sizerType = "requests"
        <4>1. requestSize(meta) + 1 <= Cap
          BY <1>1, <3>1 DEF Fits, internalSize, Sizeof
        <4>2. requestSize(m) = requestSize(meta) + 1
          <5>1. Len(meta.cdi) \in Nat
            BY <2>3
          <5>2. requestSize(m) = (meta.wi + 1) - meta.ri + Len(meta.cdi)
            BY <2>4 DEF requestSize
          <5>3. requestSize(meta) = meta.wi - meta.ri + Len(meta.cdi)
            BY DEF requestSize
          <5>4. \A a, b, n \in Nat : (a + 1) - b + n = (a - b + n) + 1
            OBVIOUS
          <5>5. (meta.wi + 1) - meta.ri + Len(meta.cdi)
                  = (meta.wi - meta.ri + Len(meta.cdi)) + 1
            BY <2>3, <5>1, <5>4
          <5> QED BY <5>2, <5>3, <5>5
        <4> QED BY <3>1, <4>1, <4>2
      <3>2. CASE sizerType # "requests"
        BY <1>0, <1>1, <2>4, <3>2 DEF Fits, internalSize, Sizeof
      <3> QED BY <3>1, <3>2
    <2>9. ExactFor(m, s)
      BY <2>2, <2>4, <2>6, <2>7, <2>8 DEF ExactFor
    <2>10. DiskFor(m, s) /\ m # None
      BY <2>4, <2>9, ExactOnDisk, Fields
    <2>11. ExactFor(meta, store)' /\ DiskFor(smeta, store)'
      BY <1>1, <2>1, <2>9, <2>10 DEF ExactFor, DiskFor
    <2> QED BY <1>2, <2>1, <2>10, <2>11 DEF Exact
  <1>5. CASE ~(refClient > 0)
    <2>1. UNCHANGED <<smeta, store>>
      <3>1. OfferPut(p) => BatchFails(m, s) \/ BatchOK(m, s)
        BY <1>0 DEF OfferPut
      <3> QED BY <1>5, <3>1 DEF BatchFails, BatchOK, diskVars
    <2> QED BY <1>1, <1>2, <1>3, <1>5, <2>1 DEF Exact, DiskFor
  <1> QED BY <1>4, <1>5

\* Dispatching moves an index and changes no size.
LEMMA ReadExact ==
  ASSUME Base, Exact, NEW c \in Consumers, ReadNext(c) \/ ReadDrop(c)
  PROVE  Exact'
  <1> SUFFICES ASSUME faults' = 0 PROVE Exact'
    BY DEF Exact
  <1>1. ~ReadDrop(c)
    BY ReadDropCases, FaultCounts
  <1>2. /\ meta.ri # meta.wi /\ Started /\ Started' /\ meta' = Dispatched /\ smeta' = Dispatched
        /\ refClient > 0 /\ UNCHANGED <<sizerType, store, life, faults>>
    BY <1>1, ReadNextCases
  <1>3. ExactFor(meta, store)
    BY <1>2 DEF Exact
  <1>4. /\ meta \in Metadata /\ WellFormed(meta) /\ meta.wi \in Nat /\ meta.ri \in Nat
        /\ meta.cdi \in Seq(Nat)
    BY Fields DEF Base, Types, TypeOK, Ordered
  <1>5. PICK d : d = Dispatched
    OBVIOUS
  <1>6. /\ d \in Metadata /\ d.ri = meta.ri + 1 /\ d.wi = meta.wi /\ d.isz = meta.isz
        /\ Len(d.cdi) = Len(meta.cdi) + 1
        /\ Indices(d) = Indices(meta)
    BY <1>2, <1>4, <1>5, DispatchedFields, DispatchedIndices
  <1>7. requestSize(d) = requestSize(meta)
    <2>1. Len(meta.cdi) \in Nat
      BY <1>4
    <2>2. \A a, b, n \in Nat : a - (b + 1) + (n + 1) = a - b + n
      OBVIOUS
    <2>3. requestSize(d) = meta.wi - (meta.ri + 1) + (Len(meta.cdi) + 1)
      BY <1>6 DEF requestSize
    <2>4. requestSize(meta) = meta.wi - meta.ri + Len(meta.cdi)
      BY DEF requestSize
    <2>5. meta.wi - (meta.ri + 1) + (Len(meta.cdi) + 1) = meta.wi - meta.ri + Len(meta.cdi)
      BY <1>4, <2>1, <2>2
    <2> QED BY <2>3, <2>4, <2>5
  <1>8. ExactFor(d, store)
    BY <1>3, <1>6, <1>7 DEF ExactFor
  <1>9. DiskFor(d, store) /\ d # None
    BY <1>6, <1>8, ExactOnDisk, Fields
  <1>10. ExactFor(meta, store)' /\ DiskFor(smeta, store)'
    BY <1>2, <1>5, <1>8, <1>9 DEF ExactFor, DiskFor
  <1>11. life' # "put" /\ life' # "cleanup"
    BY <1>2 DEF Started
  <1> QED BY <1>2, <1>5, <1>9, <1>10, <1>11 DEF Exact

\* A finished request is subtracted once; the last one leaves 0.
LEMMA OnDoneFinishExact ==
  ASSUME Base, Exact, NEW c \in Consumers, OnDoneFinish(c)
  PROVE  Exact'
  <1> SUFFICES ASSUME faults' = 0 PROVE Exact'
    BY DEF Exact
  <1>0. PICK h, i, d, m, s :
          /\ h = cur[c] /\ i = h.idx /\ d = Released(h.el) /\ m = Finished(d, i)
          /\ s = Without(store, {i})
    OBVIOUS
  <1>1. /\ cpc[c] = "onDone" /\ h \in Handed /\ Started /\ Started' /\ refClient > 0
        /\ meta' = m
        /\ \/ smeta' = m /\ store' = s /\ UNCHANGED faults
           \/ Fault
        /\ UNCHANGED <<sizerType, life>>
    BY <1>0, OnDoneFinishCases
  <1>2. smeta' = m /\ store' = s /\ faults = 0
    BY <1>1, FaultCounts
  <1>3. ExactFor(meta, store)
    BY <1>1, <1>2 DEF Exact
  <1>4. /\ meta \in Metadata /\ WellFormed(meta) /\ meta.wi \in Nat /\ meta.ri \in Nat
        /\ meta.cdi \in Seq(Nat) /\ meta.isz \in Nat /\ h.el \in Items /\ h.el.size \in Nat
        /\ meta.ri <= meta.wi
    BY <1>1, Fields DEF Base, Types, TypeOK, Ordered, WellFormed
  <1>5. i \in Range(meta.cdi) /\ (i \in DOMAIN store => store[i] = h.el)
    BY <1>0, <1>1 DEF Base, Served, Serving
  <1>6. i \in DOMAIN store /\ store[i] = h.el
    BY <1>3, <1>5 DEF ExactFor, Indices
  <1>7. h.el.size <= meta.isz
    <2>1. IsFiniteSet(DOMAIN store) /\ (\A k \in DOMAIN store : store[k] \in Items)
      BY DEF Base, Types, TypeOK
    <2>2. i \in Filled(store)
      BY <1>6, <2>1, StoreFilled
    <2> QED BY <1>3, <1>6, <2>1, <2>2, SizesOfNat DEF ExactFor
  <1>8. /\ d \in Metadata /\ WellFormed(d) /\ d.ri = meta.ri /\ d.wi = meta.wi
        /\ d.cdi = meta.cdi /\ d.isz = meta.isz - h.el.size /\ Indices(d) = Indices(meta)
    <2>1. ~(meta.isz < h.el.size)
      BY <1>4, <1>7
    <2> QED BY <1>0, <1>4, <2>1, ReleasedFields
  <1>9. /\ m \in Metadata /\ m.ri = meta.ri /\ m.wi = meta.wi
        /\ Len(m.cdi) = Len(meta.cdi) - 1
        /\ m.isz = (IF meta.wi - meta.ri + Len(meta.cdi) - 1 = 0 THEN 0 ELSE meta.isz - h.el.size)
        /\ Indices(m) = Indices(meta) \ {i}
    BY <1>0, <1>5, <1>8, FinishedFields, FinishedIndices
  <1>10. DOMAIN s = DOMAIN store \ {i} /\ \A k \in DOMAIN s : s[k] = store[k]
    BY <1>0, WithoutStore
  <1>11. SizesOf(store) = SizesOf(s) + h.el.size /\ SizesOf(s) \in Nat
    <2>1. IsFiniteSet(DOMAIN store) /\ (\A k \in DOMAIN store : store[k] \in Items)
      BY DEF Base, Types, TypeOK
    <2>2. IsFiniteSet(DOMAIN s) /\ \A k \in DOMAIN s : s[k] \in Items \cup {None}
      BY <1>10, <2>1, FS_Subset
    <2> QED BY <1>6, <1>10, <2>1, <2>2, SizesOfRemove, SizesOfNat
  <1>12. DOMAIN s = Indices(m)
    BY <1>3, <1>9, <1>10 DEF ExactFor
  <1>13. m.isz = SizesOf(s)
    <2>1. CASE meta.wi - meta.ri + Len(meta.cdi) - 1 = 0
      <3>1. Len(meta.cdi) \in Nat /\ Len(meta.cdi) >= 1
        BY <1>4, <1>5 DEF Range
      <3>2. meta.wi = meta.ri /\ Len(m.cdi) = 0
        <4>1. \A a, b, n \in Nat : a >= b /\ n >= 1 /\ a - b + n - 1 = 0 => a = b /\ n - 1 = 0
          OBVIOUS
        <4> QED BY <1>4, <1>9, <2>1, <3>1, <4>1
      <3>3. m.cdi \in Seq(Nat)
        BY <1>9, Fields
      <3>4. DOMAIN m.cdi = {}
        BY <3>2, <3>3
      <3>5. Indices(m) = {}
        BY <1>4, <1>9, <3>2, <3>4 DEF Indices, Range
      <3> QED BY <1>9, <1>12, <2>1, <3>5, SizesOfEmpty
    <2>2. CASE meta.wi - meta.ri + Len(meta.cdi) - 1 # 0
      BY <1>3, <1>4, <1>9, <1>11, <2>2 DEF ExactFor
    <2> QED BY <2>1, <2>2
  <1>14. IF sizerType = "requests" THEN requestSize(m) <= Cap ELSE m.isz <= Cap
    <2>1. requestSize(m) <= requestSize(meta) /\ requestSize(m) \in Int /\ requestSize(meta) \in Int
      <3>1. Len(meta.cdi) \in Nat
        BY <1>4
      <3>2. \A a, b, n \in Nat :
              a - b + (n - 1) <= a - b + n /\ a - b + (n - 1) \in Int /\ a - b + n \in Int
        OBVIOUS
      <3> QED BY <1>4, <1>9, <3>1, <3>2 DEF requestSize
    <2>2. m.isz <= meta.isz /\ m.isz \in Nat
      BY <1>4, <1>9, Fields
    <2> QED BY <1>3, <1>4, <2>1, <2>2, QueueAssumption DEF ExactFor
  <1>15. ExactFor(m, s)
    BY <1>12, <1>13, <1>14 DEF ExactFor
  <1>16. DiskFor(m, s) /\ m # None
    BY <1>9, <1>15, ExactOnDisk, Fields
  <1>17. ExactFor(meta, store)' /\ DiskFor(smeta, store)'
    BY <1>1, <1>2, <1>15, <1>16 DEF ExactFor, DiskFor
  <1>18. life' # "put" /\ life' # "cleanup"
    BY <1>1 DEF Started
  <1> QED BY <1>2, <1>16, <1>17, <1>18 DEF Exact

\* What is on disk stays exact.
LEMMA DieExact ==
  ASSUME Exact, Die, life # "put"
  PROVE  Exact'
  <1>1. life' = "down" /\ ~Started' /\ UNCHANGED <<sizerType, smeta, store, faults>>
    BY DEF Die, confVars, diskVars, Started
  <1> QED BY <1>1 DEF Exact, DiskFor

\* Exact is inductive, unless a crash hits Start while it puts items back.
LEMMA ExactStep ==
  ASSUME ~CrashWhileReputting
  PROVE  Base /\ Exact /\ [Next]_vars => Exact'
  <1> SUFFICES ASSUME Base, Exact, [Next]_vars PROVE Exact'
    OBVIOUS
  <1>1. CASE UNCHANGED vars
    BY <1>1 DEF vars, confVars, memVars, diskVars, lifeVars, Exact, ExactFor, DiskFor, PutFor,
      requestSize, Started
  <1>2. CASE Start
    BY <1>2, StartNewExact, StartLoadExact, StartCleanupExact, StartPutExact, StartDoneExact
      DEF Start
  <1>3. ASSUME NEW p \in Producers, Producer(p) PROVE Exact'
    <2>1. CASE QuietOffer(p)
      <3>1. UNCHANGED <<confVars, memVars, diskVars, lifeVars, faults>>
        BY <2>1 DEF QuietOffer, OfferLock, OfferFull, OfferWait, OfferWoken, OfferCtxDone,
          OfferCtxRelock, OfferCancelled, Return
      <3> QED BY <2>1, <3>1, QuietOfferBase, ExactQuiet DEF confVars, memVars, diskVars, lifeVars,
        Started
    <2>2. CASE OfferPut(p)
      BY <2>2, OfferPutExact
    <2> QED BY <1>3, <2>1, <2>2 DEF Producer, QuietOffer
  <1>4. ASSUME NEW c \in Consumers, Consumer(c) PROVE Exact'
    <2>1. CASE QuietRead(c)
      <3>1. UNCHANGED <<confVars, memVars, diskVars, lifeVars, faults>>
        BY <2>1 DEF QuietRead, ReadLock, ReadStopped, ReadPark, ReadDropSend, OnDoneLock,
          OnDoneSend
      <3> QED BY <2>1, <3>1, QuietReadBase, ExactQuiet DEF confVars, memVars, diskVars, lifeVars,
        Started
    <2>2. CASE OnDoneUnref(c)
      <3>1. refClient' > 0 => refClient > 0
        BY <2>2, OnDoneUnrefBase DEF Base, Types, TypeOK
      <3> QED BY <2>2, <3>1, OnDoneUnrefBase, ExactQuiet DEF Started
    <2>3. CASE ReadNext(c) \/ ReadDrop(c)
      BY <2>3, ReadExact
    <2>4. CASE OnDoneFinish(c)
      BY <2>4, OnDoneFinishExact
    <2> QED BY <1>4, <2>1, <2>2, <2>3, <2>4 DEF Consumer, QuietRead
  <1>5. CASE ShutdownRetry \/ ShutdownQueue
    <2>1. UNCHANGED <<confVars, meta, diskVars, faults>>
      BY <1>5 DEF ShutdownRetry, ShutdownQueue, memVars
    <2>2. refClient' > 0 => refClient > 0
      BY <1>5, ShutdownBase DEF Base, Types, TypeOK
    <2> QED BY <1>5, <2>1, <2>2, ShutdownBase, ExactQuiet DEF confVars, diskVars
  <1>6. CASE ShutdownReturns \/ Crash
    <2>1. Die /\ life # "put"
      BY <1>6 DEF ShutdownReturns, Crash
    <2> QED BY <2>1, DieExact
  <1> QED BY <1>1, <1>2, <1>3, <1>4, <1>5, <1>6 DEF Next

\* The sum of the specification is the total of the stored sizes.
LEMMA SizesAtTotal ==
  ASSUME Base, DOMAIN store = Indices(meta)
  PROVE  SizesAt(Indices(meta)) = SizesOf(store)
  <1> DEFINE I == DOMAIN store
             f == [i \in I |-> store[i].size]
             It(H) == H = [t \in SUBSET I |->
                             IF t = {} THEN 0 ELSE store[Pick(t)].size + H[t \ {Pick(t)}]]
  <1>1. Filled(store) = I
    BY StoreFilled DEF Base, Types, TypeOK
  <1>2. SizesOf(store) = Total(f, I)
    BY <1>1 DEF SizesOf
  <1>3. \A H : It(H) <=> Sums(f, I, H)
    BY Picked DEF Sums
  <1>4. SizesAt(I) = (CHOOSE H : It(H))[I]
    BY DEF SizesAt, MapThenSumSet, MapThenFoldSet, Pick
  <1> HIDE DEF It, f
  <1>5. (CHOOSE H : It(H)) = CHOOSE H : Sums(f, I, H)
    BY <1>3, Zenon
  <1> QED BY <1>2, <1>4, <1>5 DEF Total

\* As long as the storage has not failed and no crash hit the end of Start, the
\* size the queue counts is exactly what its unfinished requests add up to, over
\* crashes and restarts, and stays within the capacity.  With the types.
THEOREM PersistentSizeAccounting ==
  ASSUME ~CrashWhileReputting
  PROVE  Spec => []SizeAccounting
  <1>1. Init => Exact
    BY DEF Init, Exact, Started
  <1>2. Base /\ Exact => SizeAccounting
    <2> SUFFICES ASSUME Base, Exact PROVE SizeAccounting
      OBVIOUS
    <2>1. ASSUME Started, faults = 0, refClient > 0
          PROVE  meta.isz = SizesAt(Indices(meta)) /\ internalSize <= Cap
      <3>1. ExactFor(meta, store)
        BY <2>1 DEF Exact
      <3> QED BY <3>1, SizesAtTotal DEF ExactFor, internalSize
    <2> QED BY <2>1 DEF Base, Types, SizeAccounting
  <1> QED BY <1>1, <1>2, ExactStep, PersistentQueueBase, PTL DEF Spec

\* The types of all variables, in every behaviour.
THEOREM PersistentTypes == Spec => []TypeOK
  <1>1. Base => TypeOK
    BY DEF Base, Types
  <1> QED BY <1>1, PersistentQueueBase, PTL
=============================================================================
