-------------------------------- MODULE Cond --------------------------------
(***************************************************************************)
(* The context-aware condition variable of exporterhelper's queues         *)
(* (queue/cond.go).  The memory queue and the persistent queue both park   *)
(* producers on one.                                                       *)
(*                                                                         *)
(* `mu` is the mutex c.L, `waiting` and `ch` are the fields of cond: ch is *)
(* the number of tokens in the channel, whose buffer holds one.  at[g]     *)
(* says where goroutine g is with respect to c.L and to the calls:         *)
(*   "out"     it does not hold c.L and is in no call                      *)
(*   "crit"    it holds c.L and runs its caller's code                     *)
(*   "select"  it is in Wait, at the select                                *)
(*   "ctx"     it took the ctx.Done() branch and is at c.L.Lock()          *)
(*   "drain"   on that branch it holds c.L and is at  <-c.ch               *)
(*   "woken"   it received a token and is at c.L.Lock()                    *)
(*   "send"    it holds c.L, in Signal, at  c.ch <- struct{}{}             *)
(*   "bcast"   it holds c.L, in the loop of Broadcast                      *)
(* Receiving directly from a blocked sender is the same as the sender      *)
(* buffering the token and the receiver taking it.                         *)
(***************************************************************************)
EXTENDS Integers, FiniteSets

CONSTANTS Goroutines,   \* everybody who ever locks c.L
          Cancellable,  \* the goroutines whose ctx may become done
          Free          \* the value of mu when nobody holds it

ASSUME GoroutinesAssumption ==
  /\ IsFiniteSet(Goroutines)
  /\ Cancellable \subseteq Goroutines
  /\ Free \notin Goroutines

VARIABLES mu, waiting, ch, at

vars == <<mu, waiting, ch, at>>

Positions == {"out", "crit", "select", "ctx", "drain", "woken", "send", "bcast"}

Holding == {"crit", "drain", "send", "bcast"}

\* Goroutines inside Wait that no token has been spent on.
Unserved == {g \in Goroutines : at[g] \in {"select", "ctx", "drain"}}

Init ==
  /\ mu = Free
  /\ waiting = 0
  /\ ch = 0
  /\ at = [g \in Goroutines |-> "out"]

Lock(g) ==
  /\ at[g] = "out"
  /\ mu = Free
  /\ mu' = g
  /\ at' = [at EXCEPT ![g] = "crit"]
  /\ UNCHANGED <<waiting, ch>>

Unlock(g) ==
  /\ at[g] = "crit"
  /\ mu' = Free
  /\ at' = [at EXCEPT ![g] = "out"]
  /\ UNCHANGED <<waiting, ch>>

\* Mutant of Signal: the waiter is not taken off the count.
SignalUncounted(g) ==
  /\ at[g] = "crit"
  /\ IF waiting = 0 THEN UNCHANGED at
                    ELSE at' = [at EXCEPT ![g] = "send"]
  /\ UNCHANGED <<mu, waiting, ch>>

\* Signal, up to the channel send.  With nobody waiting it is a no-op.
Signal(g) ==
  /\ at[g] = "crit"
  /\ IF waiting = 0
       THEN UNCHANGED <<waiting, at>>
       ELSE /\ waiting' = waiting - 1
            /\ at' = [at EXCEPT ![g] = "send"]
  /\ UNCHANGED <<mu, ch>>

\* c.ch <- struct{}{}: possible while the buffer is empty.
Send(g) ==
  /\ at[g] = "send"
  /\ ch = 0
  /\ ch' = 1
  /\ at' = [at EXCEPT ![g] = "crit"]
  /\ UNCHANGED <<mu, waiting>>

Broadcast(g) ==
  /\ at[g] = "crit"
  /\ waiting > 0
  /\ at' = [at EXCEPT ![g] = "bcast"]
  /\ UNCHANGED <<mu, waiting, ch>>

\* One round of the loop of Broadcast: send, then decrement.
BroadcastSend(g) ==
  /\ at[g] = "bcast"
  /\ ch = 0
  /\ ch' = 1
  /\ waiting' = waiting - 1
  /\ at' = [at EXCEPT ![g] = IF waiting = 1 THEN "crit" ELSE "bcast"]
  /\ UNCHANGED mu

Wait(g) ==
  /\ at[g] = "crit"
  /\ waiting' = waiting + 1
  /\ mu' = Free
  /\ at' = [at EXCEPT ![g] = "select"]
  /\ UNCHANGED ch

\* case <-ctx.Done()
CtxDone(g) ==
  /\ at[g] = "select"
  /\ g \in Cancellable
  /\ at' = [at EXCEPT ![g] = "ctx"]
  /\ UNCHANGED <<mu, waiting, ch>>

CtxRelockUntested(g) ==
  /\ at[g] = "ctx"
  /\ mu = Free
  /\ mu' = g
  /\ at' = [at EXCEPT ![g] = "drain"]
  /\ UNCHANGED <<waiting, ch>>

\* c.L.Lock() on that branch, and the test of c.waiting.
CtxRelock(g) ==
  /\ at[g] = "ctx"
  /\ mu = Free
  /\ mu' = g
  /\ IF waiting = 0
       THEN /\ at' = [at EXCEPT ![g] = "drain"]
            /\ UNCHANGED waiting
       ELSE /\ at' = [at EXCEPT ![g] = "crit"]
            /\ waiting' = waiting - 1
  /\ UNCHANGED ch

\* <-c.ch on that branch
Drain(g) ==
  /\ at[g] = "drain"
  /\ ch = 1
  /\ ch' = 0
  /\ at' = [at EXCEPT ![g] = "crit"]
  /\ UNCHANGED <<mu, waiting>>

\* case <-c.ch
Receive(g) ==
  /\ at[g] = "select"
  /\ ch = 1
  /\ ch' = 0
  /\ at' = [at EXCEPT ![g] = "woken"]
  /\ UNCHANGED <<mu, waiting>>

Relock(g) ==
  /\ at[g] = "woken"
  /\ mu = Free
  /\ mu' = g
  /\ at' = [at EXCEPT ![g] = "crit"]
  /\ UNCHANGED <<waiting, ch>>

Step(g) ==
  \/ Lock(g) \/ Unlock(g)
  \/ Signal(g) \/ Send(g)
  \/ Broadcast(g) \/ BroadcastSend(g)
  \/ Wait(g) \/ CtxDone(g) \/ CtxRelock(g) \/ Drain(g)
  \/ Receive(g) \/ Relock(g)

Next == \E g \in Goroutines : Step(g)

Spec == Init /\ [][Next]_vars

-----------------------------------------------------------------------------
TypeOK ==
  /\ mu \in Goroutines \cup {Free}
  /\ waiting \in Nat
  /\ ch \in {0, 1}
  /\ at \in [Goroutines -> Positions]

\* c.L is a mutex for the code around the calls: only the goroutine recorded
\* in mu is past Lock and not yet back in Wait or Unlock.
MutualExclusion ==
  \A g \in Goroutines : at[g] \in Holding <=> mu = g

\* Tokens still to be given out: announced but not sent (Signal decrements
\* before it sends), or sitting in the buffer.
Owed == ch + (IF \E g \in Goroutines : at[g] = "send" THEN 1 ELSE 0)

\* The bookkeeping that makes cond work: every goroutine inside Wait that was
\* not served yet is either counted in `waiting` or has a token on its way.
\* Too small a sum is a lost wakeup, too large a one a token for nobody.
TokensMatchWaiters == Cardinality(Unserved) = waiting + Owed

\* The receive on the ctx branch of Wait happens with c.L held, so it must
\* never block: there is a token whenever it is reached.
DrainNeverBlocks == \A g \in Goroutines : at[g] = "drain" => ch = 1

\* A Signal that finds the buffer full holds c.L; it can only go on if some
\* goroutine can still take the token without c.L, from the select of Wait.
SignalCanFinish ==
  \A g \in Goroutines :
    at[g] \in {"send", "bcast"} /\ ch = 1 => \E h \in Goroutines : at[h] = "select"

\* How much it takes for a Signal to hang with c.L held: two goroutines whose
\* ctx is done, both past the select of Wait and not yet back under c.L.
StuckSignalNeedsTwoCancelled ==
  \A g \in Goroutines :
    at[g] \in {"send", "bcast"} /\ ch = 1 =>
      \/ \E h \in Goroutines : at[h] = "select"
      \/ \E h, k \in Goroutines : h # k /\ at[h] = "ctx" /\ at[k] = "ctx"
=============================================================================
