----------------------------- MODULE CondProofs -----------------------------
(***************************************************************************)
(* What Cond guarantees for every finite set of goroutines.                *)
(***************************************************************************)
EXTENDS Cond, FiniteSetTheorems, TLAPS

\* A goroutine is only at the receive of the ctx branch when waiting is 0, and
\* only in the loop of Broadcast while somebody waits.  Both are tested under
\* c.L and can only change under it.
Committed ==
  \A g \in Goroutines :
    /\ at[g] = "drain" => waiting = 0
    /\ at[g] = "bcast" => waiting > 0

IInv == TypeOK /\ MutualExclusion /\ TokensMatchWaiters /\ Committed

-----------------------------------------------------------------------------
\* How the number of goroutines that Wait still owes a token changes when one
\* goroutine moves.
LEMMA UnservedFinite ==
  IsFiniteSet(Unserved) /\ Cardinality(Unserved) \in Nat
  BY GoroutinesAssumption, FS_Subset, FS_CardinalityType DEF Unserved

\* The waiters not yet served, when nobody enters or leaves Wait.
LEMMA UnservedSame ==
  ASSUME NEW g \in Goroutines, NEW x \in Positions, TypeOK,
         at' = [at EXCEPT ![g] = x],
         at[g] \in {"select", "ctx", "drain"} <=> x \in {"select", "ctx", "drain"}
  PROVE  Cardinality(Unserved') = Cardinality(Unserved)
  <1>1. Unserved' = Unserved
    BY DEF Unserved, TypeOK
  <1> QED BY <1>1

\* One more waiter.
LEMMA UnservedEnters ==
  ASSUME NEW g \in Goroutines, TypeOK,
         at' = [at EXCEPT ![g] = "select"], at[g] = "crit"
  PROVE  Cardinality(Unserved') = Cardinality(Unserved) + 1
  <1>1. Unserved' = Unserved \cup {g} /\ g \notin Unserved
    BY DEF Unserved, TypeOK
  <1> QED BY <1>1, UnservedFinite, FS_AddElement

\* One waiter less.
LEMMA UnservedLeaves ==
  ASSUME NEW g \in Goroutines, NEW x \in {"crit", "woken"}, TypeOK,
         at' = [at EXCEPT ![g] = x], at[g] \in {"select", "ctx", "drain"}
  PROVE  Cardinality(Unserved') = Cardinality(Unserved) - 1
  <1>1. Unserved' = Unserved \ {g} /\ g \in Unserved
    BY DEF Unserved, TypeOK
  <1> QED BY <1>1, UnservedFinite, FS_RemoveElement

\* There is at most one sender, the goroutine that holds c.L.
LEMMA OneHolder ==
  ASSUME MutualExclusion, NEW g \in Goroutines, NEW h \in Goroutines,
         at[g] \in Holding, at[h] \in Holding
  PROVE  g = h
  BY DEF MutualExclusion

-----------------------------------------------------------------------------
\* Nobody waits at first.
LEMMA InitInv == Init => IInv
  <1> SUFFICES ASSUME Init PROVE IInv
    OBVIOUS
  <1>1. Unserved = {} /\ Owed = 0
    BY DEF Init, Unserved, Owed
  <1>2. Cardinality(Unserved) = 0
    BY <1>1, FS_EmptySet
  <1> QED
    BY <1>1, <1>2, GoroutinesAssumption
    DEF Init, IInv, TypeOK, Positions, MutualExclusion, Holding,
        TokensMatchWaiters, Committed

\* Every step of a goroutine preserves the invariant.
LEMMA StepInv ==
  ASSUME IInv, NEW g \in Goroutines, Step(g)
  PROVE  IInv'
  <1> USE GoroutinesAssumption DEF IInv
  <1>a. g # Free /\ Cardinality(Unserved) \in Nat
    BY UnservedFinite
  <1>1. TypeOK' /\ MutualExclusion'
    <2>1. CASE Lock(g)
      BY <2>1, <1>a DEF Lock, TypeOK, MutualExclusion, Holding, Positions
    <2>2. CASE Unlock(g)
      BY <2>2, <1>a DEF Unlock, TypeOK, MutualExclusion, Holding, Positions
    <2>3. CASE Signal(g)
      BY <2>3, <1>a DEF Signal, TypeOK, MutualExclusion, Holding, Positions
    <2>4. CASE Send(g)
      BY <2>4, <1>a DEF Send, TypeOK, MutualExclusion, Holding, Positions
    <2>5. CASE Broadcast(g)
      BY <2>5, <1>a DEF Broadcast, TypeOK, MutualExclusion, Holding, Positions
    <2>6. CASE BroadcastSend(g)
      BY <2>6, <1>a DEF BroadcastSend, TypeOK, MutualExclusion, Holding, Positions, Committed
    <2>7. CASE Wait(g)
      BY <2>7, <1>a DEF Wait, TypeOK, MutualExclusion, Holding, Positions
    <2>8. CASE CtxDone(g)
      BY <2>8, <1>a DEF CtxDone, TypeOK, MutualExclusion, Holding, Positions
    <2>9. CASE CtxRelock(g)
      BY <2>9, <1>a DEF CtxRelock, TypeOK, MutualExclusion, Holding, Positions
    <2>10. CASE Drain(g)
      BY <2>10, <1>a DEF Drain, TypeOK, MutualExclusion, Holding, Positions
    <2>11. CASE Receive(g)
      BY <2>11, <1>a DEF Receive, TypeOK, MutualExclusion, Holding, Positions
    <2>12. CASE Relock(g)
      BY <2>12, <1>a DEF Relock, TypeOK, MutualExclusion, Holding, Positions
    <2> QED BY <2>1, <2>2, <2>3, <2>4, <2>5, <2>6, <2>7, <2>8, <2>9, <2>10,
               <2>11, <2>12 DEF Step
  <1>2. Committed'
    <2> SUFFICES ASSUME NEW h \in Goroutines
                 PROVE  /\ at'[h] = "drain" => waiting' = 0
                        /\ at'[h] = "bcast" => waiting' > 0
      BY DEF Committed
    <2>1. CASE Lock(g) \/ Unlock(g) \/ Send(g) \/ CtxDone(g) \/ Receive(g) \/ Relock(g) \/ Drain(g)
      BY <2>1 DEF Lock, Unlock, Send, CtxDone, Receive, Relock, Drain, Committed, TypeOK
    <2>2. CASE Signal(g) \/ Broadcast(g) \/ BroadcastSend(g) \/ Wait(g)
      <3>1. at[g] \in Holding
        BY <2>2 DEF Signal, Broadcast, BroadcastSend, Wait, Holding
      <3>2. h # g => at[h] \notin Holding
        BY <3>1, OneHolder
      <3> QED BY <2>2, <3>2 DEF Signal, Broadcast, BroadcastSend, Wait, Committed, TypeOK, Holding
    <2>3. CASE CtxRelock(g)
      <3>1. at[h] \notin Holding
        BY <2>3 DEF CtxRelock, MutualExclusion
      <3> QED BY <2>3, <3>1 DEF CtxRelock, Committed, TypeOK, Holding
    <2> QED BY <2>1, <2>2, <2>3 DEF Step
  <1>3. TokensMatchWaiters'
    <2>1. CASE Lock(g) \/ Unlock(g) \/ Broadcast(g) \/ CtxDone(g) \/ Relock(g)
      <3>1. PICK x \in Positions :
              /\ at' = [at EXCEPT ![g] = x] /\ x # "send" /\ at[g] # "send"
              /\ at[g] \in {"select", "ctx", "drain"} <=> x \in {"select", "ctx", "drain"}
        BY <2>1 DEF Lock, Unlock, Broadcast, CtxDone, Relock, Positions
      <3>2. Cardinality(Unserved') = Cardinality(Unserved)
        BY <3>1, UnservedSame
      <3>3. waiting' = waiting /\ ch' = ch
        BY <2>1 DEF Lock, Unlock, Broadcast, CtxDone, Relock
      <3>4. Owed' = Owed
        BY <3>1, <3>3 DEF Owed, TypeOK
      <3> QED BY <3>2, <3>3, <3>4 DEF TokensMatchWaiters
    <2>2. CASE Signal(g)
      <3>1. \A h \in Goroutines : at[h] # "send"
        BY <2>2, OneHolder DEF Signal, Holding
      <3>2. CASE waiting = 0
        BY <3>2, <2>2 DEF Signal, TokensMatchWaiters, Unserved, Owed
      <3>3. CASE waiting # 0
        <4>1. Cardinality(Unserved') = Cardinality(Unserved)
          BY <3>3, <2>2, UnservedSame DEF Signal, Positions
        <4>2. at'[g] = "send"
          BY <3>3, <2>2 DEF Signal, TypeOK
        <4>3. Owed = ch /\ Owed' = ch + 1
          BY <3>1, <4>2, <2>2 DEF Owed, Signal, TypeOK
        <4> QED BY <4>1, <4>3, <3>3, <2>2 DEF Signal, TokensMatchWaiters, TypeOK
      <3> QED BY <3>2, <3>3
    <2>3. CASE Send(g)
      <3>1. \A h \in Goroutines : h # g => at[h] # "send"
        BY <2>3, OneHolder DEF Send, Holding
      <3>2. Owed = 1 /\ Owed' = 1
        BY <3>1, <2>3 DEF Owed, Send, TypeOK
      <3>3. Cardinality(Unserved') = Cardinality(Unserved)
        BY <2>3, UnservedSame DEF Send, Positions
      <3> QED BY <3>2, <3>3, <2>3 DEF Send, TokensMatchWaiters
    <2>4. CASE BroadcastSend(g)
      <3>1. \A h \in Goroutines : at[h] # "send"
        BY <2>4, OneHolder DEF BroadcastSend, Holding
      <3>2. Owed = 0 /\ Owed' = 1
        BY <3>1, <2>4 DEF Owed, BroadcastSend, TypeOK
      <3>3. Cardinality(Unserved') = Cardinality(Unserved)
        <4>1. PICK x \in {"crit", "bcast"} : at' = [at EXCEPT ![g] = x]
          BY <2>4 DEF BroadcastSend
        <4> QED BY <4>1, <2>4, UnservedSame DEF BroadcastSend, Positions
      <3>4. waiting' = waiting - 1
        BY <2>4 DEF BroadcastSend
      <3> QED BY <3>2, <3>3, <3>4 DEF TokensMatchWaiters, TypeOK
    <2>5. CASE Wait(g)
      <3>1. Cardinality(Unserved') = Cardinality(Unserved) + 1
        BY <2>5, UnservedEnters DEF Wait
      <3>2. Owed' = Owed /\ Owed \in Nat
        BY <2>5 DEF Wait, Owed, TypeOK
      <3>3. waiting' = waiting + 1
        BY <2>5 DEF Wait
      <3> QED BY <3>1, <3>2, <3>3 DEF TokensMatchWaiters, TypeOK
    <2>6. CASE CtxRelock(g)
      <3>1. Owed' = Owed /\ Owed \in Nat
        BY <2>6 DEF CtxRelock, Owed, TypeOK
      <3>2. CASE waiting = 0
        <4>1. Cardinality(Unserved') = Cardinality(Unserved)
          BY <3>2, <2>6, UnservedSame DEF CtxRelock, Positions
        <4> QED BY <4>1, <3>1, <3>2, <2>6 DEF CtxRelock, TokensMatchWaiters
      <3>3. CASE waiting # 0
        <4>1. Cardinality(Unserved') = Cardinality(Unserved) - 1
          BY <3>3, <2>6, UnservedLeaves DEF CtxRelock
        <4>2. waiting' = waiting - 1
          BY <3>3, <2>6 DEF CtxRelock
        <4> QED BY <4>1, <4>2, <3>1, <1>a DEF TokensMatchWaiters, TypeOK
      <3> QED BY <3>2, <3>3
    <2>7. CASE Drain(g) \/ Receive(g)
      <3>1. PICK x \in {"crit", "woken"} :
              at' = [at EXCEPT ![g] = x] /\ at[g] \in {"select", "ctx", "drain"}
        BY <2>7 DEF Drain, Receive
      <3>2. Cardinality(Unserved') = Cardinality(Unserved) - 1
        BY <3>1, UnservedLeaves
      <3>3. Owed' = Owed - 1 /\ Owed \in Nat
        BY <3>1, <2>7 DEF Drain, Receive, Owed, TypeOK
      <3>4. waiting' = waiting
        BY <2>7 DEF Drain, Receive
      <3> QED BY <3>2, <3>3, <3>4, <1>a DEF TokensMatchWaiters, TypeOK
    <2> QED BY <2>1, <2>2, <2>3, <2>4, <2>5, <2>6, <2>7 DEF Step
  <1> QED BY <1>1, <1>2, <1>3

\* Every step, or none, preserves the invariant.
LEMMA NextInv == IInv /\ [Next]_vars => IInv'
  <1> SUFFICES ASSUME IInv, [Next]_vars PROVE IInv'
    OBVIOUS
  <1>1. CASE Next
    BY <1>1, StepInv DEF Next
  <1>2. CASE UNCHANGED vars
    BY <1>2 DEF vars, IInv, TypeOK, MutualExclusion, TokensMatchWaiters,
                Committed, Unserved, Owed
  <1> QED BY <1>1, <1>2

-----------------------------------------------------------------------------
\* cond.go keeps its count right for any number of goroutines, cancellations
\* and signals: no wakeup is lost and none is left over.
THEOREM CondInvariant == Spec => []IInv
  BY InitInv, NextInv, PTL DEF Spec

\* The tokens in the channel match the goroutines inside Wait that are owed one.
THEOREM CondTokens == Spec => []TokensMatchWaiters
  <1>1. IInv => TokensMatchWaiters
    BY DEF IInv
  <1> QED BY <1>1, CondInvariant, PTL

\* The receive with c.L held, on the ctx branch of Wait, never blocks.
THEOREM CondDrain == Spec => []DrainNeverBlocks
  <1>1. IInv => DrainNeverBlocks
    <2> SUFFICES ASSUME IInv, NEW g \in Goroutines, at[g] = "drain"
                 PROVE  ch = 1
      BY DEF DrainNeverBlocks
    <2> USE DEF IInv
    <2>1. g \in Unserved /\ Cardinality(Unserved) # 0
      BY UnservedFinite, FS_EmptySet DEF Unserved
    <2>2. \A h \in Goroutines : at[h] # "send"
      BY OneHolder DEF Holding
    <2>3. waiting = 0 /\ Owed = ch
      BY <2>2 DEF Committed, Owed, TypeOK
    <2> QED BY <2>1, <2>3 DEF TokensMatchWaiters, TypeOK
  <1> QED BY <1>1, CondInvariant, PTL

\* Only a goroutine with a ctx that can be done is on the ctx branch.
OnCtxBranch ==
  \A g \in Goroutines : at[g] \in {"ctx", "drain"} => g \in Cancellable

\* Who leaves Wait through its ctx had one that could be done.
LEMMA CondOnCtxBranch == Spec => []OnCtxBranch
  <1>1. Init => OnCtxBranch
    BY DEF Init, OnCtxBranch
  <1>2. IInv /\ OnCtxBranch /\ [Next]_vars => OnCtxBranch'
    <2> SUFFICES ASSUME IInv, OnCtxBranch, [Next]_vars PROVE OnCtxBranch'
      OBVIOUS
    <2>1. CASE Next
      <3>1. PICK g \in Goroutines : Step(g)
        BY <2>1 DEF Next
      <3> QED
        BY <3>1 DEF Step, Lock, Unlock, Signal, Send, Broadcast, BroadcastSend,
          Wait, CtxDone, CtxRelock, Drain, Receive, Relock, OnCtxBranch, IInv, TypeOK
    <2>2. CASE UNCHANGED vars
      BY <2>2 DEF vars, OnCtxBranch
    <2> QED BY <2>1, <2>2
  <1> QED BY <1>1, <1>2, CondInvariant, PTL DEF Spec

\* A Signal, or a round of Broadcast, that cannot send its token has two
\* goroutines against it: the token in the buffer and the one in its hand are
\* owed to two goroutines, and none of them is at the select any more.
THEOREM CondStuckSignal == Spec => []StuckSignalNeedsTwoCancelled
  <1>1. IInv => StuckSignalNeedsTwoCancelled
    <2> SUFFICES ASSUME IInv,
                        NEW g \in Goroutines, at[g] \in {"send", "bcast"}, ch = 1,
                        \A h \in Goroutines : at[h] # "select",
                        \A h, k \in Goroutines : at[h] = "ctx" /\ at[k] = "ctx" => h = k
                 PROVE  FALSE
      BY DEF StuckSignalNeedsTwoCancelled
    <2> USE DEF IInv
    <2>1. \A h \in Unserved : at[h] = "ctx"
      <3>1. \A h \in Goroutines : at[h] # "drain"
        BY OneHolder DEF Holding
      <3> QED BY <3>1 DEF Unserved
    <2>2. Cardinality(Unserved) <= 1
      <3>1. CASE Unserved = {}
        BY <3>1, FS_EmptySet
      <3>2. CASE Unserved # {}
        <4>1. PICK h : h \in Unserved
          BY <3>2
        <4>2. Unserved = {h}
          BY <4>1, <2>1 DEF Unserved
        <4>3. Cardinality({h}) = 1
          BY FS_Singleton, Zenon
        <4> QED BY <4>2, <4>3
      <3> QED BY <3>1, <3>2
    <2>3. waiting + Owed >= 2
      <3>1. CASE at[g] = "send"
        BY <3>1 DEF Owed, TypeOK
      <3>2. CASE at[g] = "bcast"
        BY <3>2 DEF Committed, Owed, TypeOK
      <3> QED BY <3>1, <3>2
    <2> QED BY <2>2, <2>3, UnservedFinite DEF TokensMatchWaiters
  <1> QED BY <1>1, CondInvariant, PTL

\* Hence Signal and Broadcast always get rid of their token, and nobody keeps
\* c.L for ever, as long as at most one goroutine waits with a ctx that may be
\* done.  With two it is false: run cond_signal_stuck.
THEOREM CondSignalCanFinish ==
  ASSUME \A g, h \in Cancellable : g = h
  PROVE  Spec => []SignalCanFinish
  <1>1. StuckSignalNeedsTwoCancelled /\ OnCtxBranch => SignalCanFinish
    BY DEF StuckSignalNeedsTwoCancelled, OnCtxBranch, SignalCanFinish
  <1> QED BY <1>1, CondStuckSignal, CondOnCtxBranch, PTL
=============================================================================
