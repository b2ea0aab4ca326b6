------------------------------ MODULE MCBatcher ------------------------------
(* Small instances of Batcher for TLC. *)
EXTENDS Batcher, TLC

\* Requests of no item, one item, more items than max_size, one big item.
Empty == [n |-> 0, big |-> FALSE]
One == [n |-> 1, big |-> FALSE]
Many == [n |-> 4, big |-> FALSE]
Big == [n |-> 0, big |-> TRUE]
OneBig == [n |-> 1, big |-> TRUE]

\* Three small requests meet evictions and merges; the others split, merge and
\* split, drop a big item, and fail to merge with an empty batch.
MCStreams ==
  {<<One, One, One>>, <<One, Many>>, <<Many, OneBig>>, <<OneBig, Many>>,
   <<One, Big>>, <<Empty, Big, One>>}

MCOne == {<<One>>}

MCSymmetry == Permutations(Consumers) \cup Permutations(Keys)
=============================================================================
