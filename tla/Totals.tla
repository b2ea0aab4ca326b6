------------------------------- MODULE Totals -------------------------------
(***************************************************************************)
(* Sums over finite sets: the operators with which the queues' sizes are   *)
(* stated, MapThenSumSet of FiniteSetsExt, add up what they should.        *)
(*                                                                         *)
(* An induction theorem with an operator as parameter cannot be used, but  *)
(* one about a set of numbers can; everything else follows from it.  So do *)
(* folds over sequences, with which a shared component's past events are   *)
(* replayed: FoldsExist gives the function that computes them.             *)
(***************************************************************************)
EXTENDS Integers, FiniteSets, FiniteSetsExt, FiniteSetTheorems, WellFoundedInduction, TLAPS

\* A set that holds 0 and with each number the next holds all numbers.
LEMMA NumberInduction ==
  ASSUME NEW S, 0 \in S, \A n \in Nat : n \in S => n + 1 \in S
  PROVE  Nat \subseteq S
  <1> DEFINE T == Nat \ S
             R == OpToRel(<, Nat)
  <1> SUFFICES ASSUME T # {} PROVE FALSE
    OBVIOUS
  <1>1. \A x, y \in Nat : x < y => <<x, y>> \in R
    BY DEF OpToRel
  <1>2. IsWellFoundedOn(R, Nat)
    BY NatLessThanWellFounded, Zenon
  <1> HIDE DEF R
  <1>3. PICK x \in T : \A y \in T : ~ (<<y, x>> \in R)
    <2>1. T \subseteq Nat
      OBVIOUS
    <2> HIDE DEF T
    <2> QED BY <2>1, <1>2, WFMin
  <1>4. x \in Nat /\ x # 0
    BY <1>3
  <1>5. x - 1 \in Nat /\ x - 1 < x /\ x = (x - 1) + 1
    BY <1>4
  <1>6. x - 1 \notin T
    BY <1>1, <1>3, <1>4, <1>5
  <1> QED BY <1>3, <1>5, <1>6

-----------------------------------------------------------------------------
\* The element that the fold takes next, and the function it defines: the sum
\* of f over each subset of S.
Pick(s) == CHOOSE x \in s : TRUE

Sums(f, S, G) ==
  G = [s \in SUBSET S |-> IF s = {} THEN 0 ELSE f[Pick(s)] + G[s \ {Pick(s)}]]

Total(f, S) == (CHOOSE G : Sums(f, S, G))[S]

\* The fold takes an element that is there.
LEMMA Picked ==
  ASSUME NEW s, s # {}
  PROVE  Pick(s) \in s
  BY DEF Pick

\* What remains of a finite set without one of its elements is smaller.
LEMMA Smaller ==
  ASSUME NEW S, IsFiniteSet(S), NEW T \in SUBSET S, NEW x \in T
  PROVE  /\ IsFiniteSet(T) /\ Cardinality(T) \in Nat
         /\ Cardinality(T \ {x}) \in Nat /\ Cardinality(T) = Cardinality(T \ {x}) + 1
  <1>1. IsFiniteSet(T)
    BY FS_Subset
  <1>2. IsFiniteSet(T \ {x}) /\ Cardinality(T \ {x}) = Cardinality(T) - 1
    BY <1>1, FS_RemoveElement
  <1>3. Cardinality(T) \in Nat /\ Cardinality(T \ {x}) \in Nat
    BY <1>1, <1>2, FS_CardinalityType
  <1> QED BY <1>1, <1>2, <1>3

\* To show that all subsets of a finite set have a property it is enough to
\* show it of each with the property given for the smaller ones.
LEMMA SubsetInduction ==
  ASSUME NEW S, IsFiniteSet(S), NEW F,
         {} \in F,
         \A T \in SUBSET S : T # {} /\ (\A x \in T : \A U \in SUBSET (T \ {x}) : U \in F) => T \in F
  PROVE  SUBSET S \subseteq F
  <1> DEFINE N == {n \in Nat : \A T \in SUBSET S : Cardinality(T) <= n => T \in F}
  <1>1. 0 \in N
    <2> SUFFICES ASSUME NEW T \in SUBSET S, Cardinality(T) <= 0 PROVE T \in F
      OBVIOUS
    <2>1. T = {}
      <3> SUFFICES ASSUME T # {} PROVE FALSE
        OBVIOUS
      <3> PICK x \in T : TRUE
        OBVIOUS
      <3>1. Cardinality(T \ {x}) \in Nat /\ Cardinality(T) = Cardinality(T \ {x}) + 1
        BY Smaller
      <3> QED BY <3>1
    <2> QED BY <2>1
  <1>2. ASSUME NEW n \in Nat, n \in N PROVE n + 1 \in N
    <2> SUFFICES ASSUME NEW T \in SUBSET S, Cardinality(T) <= n + 1 PROVE T \in F
      OBVIOUS
    <2> SUFFICES ASSUME T # {} PROVE T \in F
      OBVIOUS
    <2>1. ASSUME NEW x \in T, NEW U \in SUBSET (T \ {x}) PROVE U \in F
      <3>1. IsFiniteSet(T \ {x})
        BY FS_Subset
      <3>2. Cardinality(U) <= Cardinality(T \ {x}) /\ Cardinality(U) \in Nat
        BY <3>1, FS_Subset, FS_CardinalityType
      <3>3. Cardinality(U) <= n
        BY <3>2, Smaller
      <3> QED BY <3>3, <1>2
    <2> QED BY <2>1
  <1>3. Nat \subseteq N
    <2> HIDE DEF N
    <2> QED BY <1>1, <1>2, NumberInduction
  <1>4. ASSUME NEW T \in SUBSET S PROVE T \in F
    <2>1. Cardinality(T) \in Nat
      BY FS_Subset, FS_CardinalityType
    <2>2. Cardinality(T) \in N
      BY <2>1, <1>3
    <2> QED BY <2>1, <2>2
  <1> QED BY <1>4

\* The function the fold defines exists.
LEMMA SumsExist ==
  ASSUME NEW S, IsFiniteSet(S), NEW f, \A x \in S : f[x] \in Int
  PROVE  \E G \in [SUBSET S -> Int] : Sums(f, S, G)
  <1> DEFINE Upto(n) == {s \in SUBSET S : Cardinality(s) <= n}
             Good(n, G) == \A s \in Upto(n) :
                             G[s] = IF s = {} THEN 0 ELSE f[Pick(s)] + G[s \ {Pick(s)}]
             N == {n \in Nat : \E G \in [Upto(n) -> Int] : Good(n, G)}
  <1>0. \A s \in SUBSET S : Cardinality(s) \in Nat
    BY FS_Subset, FS_CardinalityType
  <1>a. ASSUME NEW s \in SUBSET S, s # {}
        PROVE  /\ Pick(s) \in s /\ s \ {Pick(s)} \in SUBSET S /\ f[Pick(s)] \in Int
               /\ Cardinality(s \ {Pick(s)}) \in Nat
               /\ Cardinality(s) = Cardinality(s \ {Pick(s)}) + 1
    BY <1>a, Picked, Smaller
  <1>1. 0 \in N
    <2>1. ASSUME NEW s \in SUBSET S
          PROVE  s \in Upto(0) <=> s = {}
      <3>1. s = {} => Cardinality(s) = 0
        BY FS_EmptySet
      <3>2. ASSUME s # {} PROVE Cardinality(s) > 0
        <4>1. Cardinality(s \ {Pick(s)}) \in Nat /\ Cardinality(s) = Cardinality(s \ {Pick(s)}) + 1
          BY <3>2, <1>a
        <4> QED BY <4>1
      <3>3. Cardinality(s) \in Nat
        BY <1>0
      <3> QED BY <3>1, <3>2, <3>3
    <2> DEFINE G == [s \in Upto(0) |-> 0]
    <2>2. G \in [Upto(0) -> Int] /\ Good(0, G)
      BY <2>1
    <2> QED BY <2>2
  <1>2. ASSUME NEW n \in Nat, n \in N PROVE n + 1 \in N
    <2>1. PICK G \in [Upto(n) -> Int] : Good(n, G)
      BY <1>2
    <2> DEFINE H == [s \in Upto(n + 1) |->
                       IF s \in Upto(n) THEN G[s] ELSE f[Pick(s)] + G[s \ {Pick(s)}]]
    <2>2. ASSUME NEW s \in Upto(n + 1), s # {}
          PROVE  s \ {Pick(s)} \in Upto(n)
      BY <2>2, <1>a
    <2>3. \A s \in Upto(n) : s \in Upto(n + 1)
      BY <1>0
    <2>4. {} \in Upto(n)
      BY FS_EmptySet
    <2>5. H \in [Upto(n + 1) -> Int]
      <3> SUFFICES ASSUME NEW s \in Upto(n + 1) PROVE H[s] \in Int
        OBVIOUS
      <3>1. CASE s \in Upto(n)
        BY <3>1
      <3>2. CASE s \notin Upto(n)
        <4>1. s # {} /\ s \in SUBSET S
          BY <3>2, <2>4
        <4>2. f[Pick(s)] \in Int
          BY <4>1, <1>a
        <4>3. G[s \ {Pick(s)}] \in Int
          BY <4>1, <2>2
        <4> HIDE DEF Upto
        <4> QED BY <3>2, <4>2, <4>3
      <3> QED BY <3>1, <3>2
    <2>6. Good(n + 1, H)
      <3> SUFFICES ASSUME NEW s \in Upto(n + 1)
                   PROVE  H[s] = IF s = {} THEN 0 ELSE f[Pick(s)] + H[s \ {Pick(s)}]
        OBVIOUS
      <3>1. s \in Upto(n) =>
              H[s] = IF s = {} THEN 0 ELSE f[Pick(s)] + G[s \ {Pick(s)}]
        <4> HIDE DEF Upto
        <4> QED BY <2>1
      <3>2. s \notin Upto(n) => s # {} /\ H[s] = f[Pick(s)] + G[s \ {Pick(s)}]
        <4> HIDE DEF Upto
        <4> QED BY <2>4
      <3>3. s # {} => H[s \ {Pick(s)}] = G[s \ {Pick(s)}]
        <4> HIDE DEF Upto
        <4> QED BY <2>2, <2>3
      <3> HIDE DEF H, Upto
      <3> QED BY <3>1, <3>2, <3>3
    <2> HIDE DEF H, Upto, Good
    <2> QED BY <2>5, <2>6
  <1>3. Nat \subseteq N
    <2> HIDE DEF N
    <2> QED BY <1>1, <1>2, NumberInduction
  <1>4. Cardinality(S) \in N
    BY <1>0, <1>3
  <1>5. Upto(Cardinality(S)) = SUBSET S
    BY <1>0, FS_Subset
  <1>6. PICK G \in [SUBSET S -> Int] :
          \A s \in SUBSET S : G[s] = IF s = {} THEN 0 ELSE f[Pick(s)] + G[s \ {Pick(s)}]
    BY <1>4, <1>5
  <1>7. Sums(f, S, G)
    BY <1>6 DEF Sums
  <1> QED BY <1>7

\* What it yields for a subset depends on f inside this subset only.
LEMMA SumsAgree ==
  ASSUME NEW S, NEW T, IsFiniteSet(T), T \subseteq S, NEW f, NEW g, NEW G, NEW H,
         Sums(f, S, G), Sums(g, T, H), \A x \in T : f[x] = g[x]
  PROVE  \A s \in SUBSET T : G[s] = H[s]
  <1> DEFINE F == {s \in SUBSET T : G[s] = H[s]}
  <1>1. \A s \in SUBSET T : G[s] = IF s = {} THEN 0 ELSE f[Pick(s)] + G[s \ {Pick(s)}]
    BY DEF Sums
  <1>2. \A s \in SUBSET T : H[s] = IF s = {} THEN 0 ELSE g[Pick(s)] + H[s \ {Pick(s)}]
    BY DEF Sums
  <1>3. {} \in F
    BY <1>1, <1>2
  <1>4. ASSUME NEW s \in SUBSET T, s # {}, \A x \in s : \A u \in SUBSET (s \ {x}) : u \in F
        PROVE  s \in F
    <2>1. Pick(s) \in s
      BY <1>4, Picked
    <2>2. s \ {Pick(s)} \in F
      BY <2>1, <1>4
    <2>3. f[Pick(s)] = g[Pick(s)]
      BY <2>1
    <2> QED BY <1>1, <1>2, <1>4, <2>2, <2>3
  <1>5. SUBSET T \subseteq F
    <2> HIDE DEF F
    <2> QED BY <1>3, <1>4, SubsetInduction
  <1> QED BY <1>5

\* It does not matter which element is taken first.
Splits(f, G, s, y) == G[s] = f[y] + G[s \ {y}]

\* Any element can be taken out of the sum first.
LEMMA SumsTake ==
  ASSUME NEW S, IsFiniteSet(S), NEW f, \A x \in S : f[x] \in Int,
         NEW G \in [SUBSET S -> Int], Sums(f, S, G), NEW t \in SUBSET S, NEW z \in t
  PROVE  Splits(f, G, t, z)
  <1> DEFINE F == {s \in SUBSET S : \A y \in s : G[s] = f[y] + G[s \ {y}]}
  <1>1. \A s \in SUBSET S : s # {} => G[s] = f[Pick(s)] + G[s \ {Pick(s)}]
    BY DEF Sums
  <1>2. {} \in F
    OBVIOUS
  <1>3. ASSUME NEW s \in SUBSET S, s # {}, \A x \in s : \A u \in SUBSET (s \ {x}) : u \in F
        PROVE  s \in F
    <2> DEFINE x == Pick(s)
    <2>1. x \in s /\ G[s] = f[x] + G[s \ {x}]
      BY <1>3, <1>1, Picked
    <2> HIDE DEF x
    <2> SUFFICES ASSUME NEW y \in s, y # x PROVE G[s] = f[y] + G[s \ {y}]
      BY <2>1
    <2>2. s \ {x} \in F /\ y \in s \ {x}
      BY <2>1, <1>3
    <2>3. s \ {y} \in F /\ x \in s \ {y}
      BY <2>1, <1>3
    <2>4. G[s \ {x}] = f[y] + G[(s \ {x}) \ {y}]
      BY <2>2
    <2>5. G[s \ {y}] = f[x] + G[(s \ {y}) \ {x}]
      BY <2>3
    <2>6. (s \ {x}) \ {y} = (s \ {y}) \ {x} /\ (s \ {y}) \ {x} \in SUBSET S
      OBVIOUS
    <2>7. f[x] \in Int /\ f[y] \in Int /\ G[(s \ {y}) \ {x}] \in Int
      BY <2>1, <2>6
    <2> DEFINE rest == G[(s \ {y}) \ {x}]
    <2>8. f[x] + (f[y] + rest) = f[y] + (f[x] + rest)
      BY <2>7
    <2> QED BY <2>1, <2>4, <2>5, <2>6, <2>8
  <1>4. SUBSET S \subseteq F
    <2> HIDE DEF F
    <2> QED BY <1>2, <1>3, SubsetInduction
  <1> QED BY <1>4 DEF Splits

-----------------------------------------------------------------------------
\* Total is the fold's value at each subset.
LEMMA TotalSums ==
  ASSUME NEW S, IsFiniteSet(S), NEW f, \A x \in S : f[x] \in Int
  PROVE  \E G \in [SUBSET S -> Int] : Sums(f, S, G) /\ Total(f, S) = G[S]
  <1>1. PICK G \in [SUBSET S -> Int] : Sums(f, S, G)
    BY SumsExist
  <1> DEFINE H == CHOOSE H : Sums(f, S, H)
  <1>2. Sums(f, S, H)
    BY <1>1
  <1>3. Total(f, S) = H[S]
    BY DEF Total
  <1> HIDE DEF H
  <1>4. H[S] = G[S]
    BY <1>1, <1>2, SumsAgree
  <1> QED BY <1>1, <1>3, <1>4

\* The empty sum.
LEMMA TotalEmpty ==
  ASSUME NEW f
  PROVE  Total(f, {}) = 0
  <1>1. PICK G : Sums(f, {}, G) /\ Total(f, {}) = G[{}]
    BY TotalSums, FS_EmptySet
  <1> QED BY <1>1 DEF Sums

\* A sum of integers is one.
LEMMA TotalInt ==
  ASSUME NEW S, IsFiniteSet(S), NEW f, \A x \in S : f[x] \in Int
  PROVE  Total(f, S) \in Int
  <1>1. PICK G \in [SUBSET S -> Int] : Total(f, S) = G[S]
    BY TotalSums
  <1> QED BY <1>1

\* Only the summands count.
LEMMA TotalSame ==
  ASSUME NEW S, IsFiniteSet(S), NEW f, NEW g, \A x \in S : f[x] \in Int /\ f[x] = g[x]
  PROVE  Total(f, S) = Total(g, S)
  <1>1. PICK G \in [SUBSET S -> Int] : Sums(f, S, G) /\ Total(f, S) = G[S]
    BY TotalSums
  <1>2. PICK H \in [SUBSET S -> Int] : Sums(g, S, H) /\ Total(g, S) = H[S]
    BY TotalSums
  <1>3. G[S] = H[S]
    BY <1>1, <1>2, SumsAgree
  <1> QED BY <1>1, <1>2, <1>3

\* An element that leaves takes its summand along.
LEMMA TotalRemove ==
  ASSUME NEW S, IsFiniteSet(S), NEW f, \A x \in S : f[x] \in Int, NEW y \in S
  PROVE  Total(f, S \ {y}) = Total(f, S) - f[y]
  <1>1. PICK G \in [SUBSET S -> Int] : Sums(f, S, G) /\ Total(f, S) = G[S]
    BY TotalSums
  <1>2. IsFiniteSet(S \ {y})
    BY FS_Subset
  <1>3. PICK H \in [SUBSET (S \ {y}) -> Int] :
          Sums(f, S \ {y}, H) /\ Total(f, S \ {y}) = H[S \ {y}]
    BY <1>2, TotalSums
  <1>4. G[S \ {y}] = H[S \ {y}]
    <2> DEFINE T == S \ {y}
    <2>1. T \subseteq S /\ IsFiniteSet(T) /\ Sums(f, T, H)
      BY <1>2, <1>3
    <2> HIDE DEF T
    <2>2. \A s \in SUBSET T : G[s] = H[s]
      BY <2>1, <1>1, SumsAgree
    <2> QED BY <2>2 DEF T
  <1>5. G[S] = f[y] + G[S \ {y}]
    <2>1. S \in SUBSET S /\ Sums(f, S, G)
      BY <1>1
    <2>2. Splits(f, G, S, y)
      BY <2>1, SumsTake
    <2> QED BY <2>2 DEF Splits
  <1>6. f[y] \in Int /\ G[S \ {y}] \in Int
    OBVIOUS
  <1> QED BY <1>1, <1>3, <1>4, <1>5, <1>6

\* An element that joins brings its summand.
LEMMA TotalAdd ==
  ASSUME NEW S, IsFiniteSet(S), NEW y, y \notin S,
         NEW f, \A x \in S \cup {y} : f[x] \in Int
  PROVE  Total(f, S \cup {y}) = Total(f, S) + f[y]
  <1> DEFINE T == S \cup {y}
  <1>1. T \ {y} = S /\ y \in T /\ f[y] \in Int
    OBVIOUS
  <1>2. IsFiniteSet(T)
    BY FS_AddElement
  <1>3. Total(f, T) \in Int /\ Total(f, S) = Total(f, T) - f[y]
    <2>1. \A x \in T : f[x] \in Int
      OBVIOUS
    <2> HIDE DEF T
    <2> QED BY <1>1, <1>2, <2>1, TotalInt, TotalRemove
  <1> QED BY <1>1, <1>3

\* No summand is larger than a sum of natural numbers.
LEMMA TotalBounds ==
  ASSUME NEW S, IsFiniteSet(S), NEW f, \A x \in S : f[x] \in Nat
  PROVE  /\ Total(f, S) \in Nat
         /\ \A y \in S : f[y] <= Total(f, S)
  <1> DEFINE F == {s \in SUBSET S : Total(f, s) \in Nat}
  <1>1. {} \in F
    BY TotalEmpty
  <1>2. ASSUME NEW s \in SUBSET S, s # {}, \A x \in s : \A u \in SUBSET (s \ {x}) : u \in F
        PROVE  s \in F
    <2>1. PICK y \in s : s \ {y} \in F
      BY <1>2
    <2>2. IsFiniteSet(s) /\ \A x \in s : f[x] \in Int
      BY FS_Subset
    <2>3. Total(f, s \ {y}) = Total(f, s) - f[y] /\ Total(f, s) \in Int
      BY <2>2, TotalRemove, TotalInt
    <2>4. Total(f, s \ {y}) \in Nat /\ f[y] \in Nat
      BY <2>1
    <2>5. Total(f, s) \in Nat
      BY <2>3, <2>4
    <2> QED BY <2>5
  <1>3. SUBSET S \subseteq F
    <2> HIDE DEF F
    <2> QED BY <1>1, <1>2, SubsetInduction
  <1>4. ASSUME NEW y \in S PROVE f[y] <= Total(f, S)
    <2>1. Total(f, S) \in Nat /\ Total(f, S \ {y}) \in Nat
      BY <1>3
    <2>2. Total(f, S \ {y}) = Total(f, S) - f[y]
      <3>1. \A x \in S : f[x] \in Int
        OBVIOUS
      <3> QED BY <3>1, TotalRemove
    <2>3. f[y] \in Nat
      OBVIOUS
    <2> QED BY <2>1, <2>2, <2>3
  <1> QED BY <1>3, <1>4

\* Two sets without a common element.
LEMMA TotalUnion ==
  ASSUME NEW S, IsFiniteSet(S), NEW T, IsFiniteSet(T), S \cap T = {},
         NEW f, \A x \in S \cup T : f[x] \in Int
  PROVE  Total(f, S \cup T) = Total(f, S) + Total(f, T)
  <1> DEFINE F == {s \in SUBSET S : Total(f, s \cup T) = Total(f, s) + Total(f, T)}
  <1>1. Total(f, T) \in Int
    BY TotalInt
  <1>2. {} \in F
    <2>1. {} \cup T = T
      OBVIOUS
    <2>2. Total(f, {}) = 0
      BY TotalEmpty
    <2> QED BY <1>1, <2>1, <2>2
  <1>3. ASSUME NEW s \in SUBSET S, s # {}, \A x \in s : \A u \in SUBSET (s \ {x}) : u \in F
        PROVE  s \in F
    <2>1. PICK y \in s : s \ {y} \in F
      BY <1>3
    <2> DEFINE u == s \ {y}
               ut == u \cup T
    <2>2. IsFiniteSet(u) /\ IsFiniteSet(ut)
      BY FS_Subset, FS_Union
    <2>3. y \notin u /\ y \notin ut /\ u \cup {y} = s /\ ut \cup {y} = s \cup T
      OBVIOUS
    <2>4. \A x \in u \cup {y} : f[x] \in Int
      OBVIOUS
    <2>5. \A x \in ut \cup {y} : f[x] \in Int
      OBVIOUS
    <2>6. Total(f, ut) = Total(f, u) + Total(f, T)
      BY <2>1
    <2>7. f[y] \in Int
      OBVIOUS
    <2> HIDE DEF u, ut
    <2>8. Total(f, s) = Total(f, u) + f[y] /\ Total(f, u) \in Int
      BY <2>2, <2>3, <2>4, TotalAdd, TotalInt
    <2>9. Total(f, s \cup T) = Total(f, ut) + f[y]
      BY <2>2, <2>3, <2>5, TotalAdd
    <2>10. Total(f, s \cup T) = Total(f, s) + Total(f, T)
      BY <1>1, <2>6, <2>7, <2>8, <2>9
    <2> QED BY <2>10
  <1>4. SUBSET S \subseteq F
    <2> HIDE DEF F
    <2> QED BY <1>2, <1>3, SubsetInduction
  <1> QED BY <1>4

\* A sum over indices is the sum over what they stand for.
LEMMA TotalImage ==
  ASSUME NEW S, IsFiniteSet(S), NEW h, \A x, y \in S : h[x] = h[y] => x = y,
         NEW f, \A x \in S : f[h[x]] \in Int,
         NEW g, \A x \in S : g[x] = f[h[x]]
  PROVE  Total(g, S) = Total(f, {h[x] : x \in S})
  <1> DEFINE Im(s) == {h[x] : x \in s}
             F == {s \in SUBSET S : IsFiniteSet(Im(s)) /\ Total(g, s) = Total(f, Im(s))}
  <1>1. {} \in F
    <2>1. Im({}) = {}
      OBVIOUS
    <2> QED BY <2>1, TotalEmpty, FS_EmptySet
  <1>2. ASSUME NEW s \in SUBSET S, s # {}, \A x \in s : \A u \in SUBSET (s \ {x}) : u \in F
        PROVE  s \in F
    <2>1. PICK y \in s : s \ {y} \in F
      BY <1>2
    <2> DEFINE u == s \ {y}
    <2>2. IsFiniteSet(u) /\ y \notin u /\ u \cup {y} = s
      BY FS_Subset
    <2>3. IsFiniteSet(Im(u)) /\ Total(g, u) = Total(f, Im(u))
      BY <2>1
    <2>4. h[y] \notin Im(u) /\ Im(u) \cup {h[y]} = Im(s)
      OBVIOUS
    <2>5. \A x \in u \cup {y} : g[x] \in Int
      OBVIOUS
    <2>6. \A z \in Im(u) \cup {h[y]} : f[z] \in Int
      OBVIOUS
    <2>7. g[y] = f[h[y]]
      OBVIOUS
    <2> HIDE DEF u, Im
    <2>8. Total(g, s) = Total(g, u) + g[y]
      BY <2>2, <2>5, TotalAdd
    <2>9. Total(f, Im(s)) = Total(f, Im(u)) + f[h[y]]
      <3> DEFINE S1 == Im(u)
                 z == h[y]
      <3>1. IsFiniteSet(S1) /\ z \notin S1 /\ S1 \cup {z} = Im(s) /\ \A x \in S1 \cup {z} : f[x] \in Int
        BY <2>3, <2>4, <2>6
      <3> HIDE DEF S1, z
      <3>2. Total(f, S1 \cup {z}) = Total(f, S1) + f[z]
        BY <3>1, TotalAdd
      <3> QED BY <3>1, <3>2 DEF S1, z
    <2>10. IsFiniteSet(Im(s))
      BY <2>3, <2>4, FS_AddElement
    <2> QED BY <2>3, <2>7, <2>8, <2>9, <2>10
  <1>3. SUBSET S \subseteq F
    <2> HIDE DEF F
    <2> QED BY <1>1, <1>2, SubsetInduction
  <1> QED BY <1>3

-----------------------------------------------------------------------------
(* Folds with values in a set *)

\* The function a fold over S defines, that takes p[s] first of all of s.
Folds(S, p, base, h, G) ==
  G = [s \in SUBSET S |-> IF s = {} THEN base ELSE h[p[s]][G[s \ {p[s]}]]]

\* The function the fold defines exists, and has its values where the base and
\* the step function have theirs.
LEMMA FoldsExist ==
  ASSUME NEW S, IsFiniteSet(S), NEW V, NEW base \in V, NEW p, NEW h,
         \A s \in SUBSET S : s # {} => p[s] \in s,
         \A x \in S, v \in V : h[x][v] \in V
  PROVE  \E G \in [SUBSET S -> V] : Folds(S, p, base, h, G)
  <1> DEFINE Upto(n) == {s \in SUBSET S : Cardinality(s) <= n}
             Good(n, G) == \A s \in Upto(n) :
                             G[s] = IF s = {} THEN base ELSE h[p[s]][G[s \ {p[s]}]]
             N == {n \in Nat : \E G \in [Upto(n) -> V] : Good(n, G)}
  <1>0. \A s \in SUBSET S : Cardinality(s) \in Nat
    BY FS_Subset, FS_CardinalityType
  <1>a. ASSUME NEW s \in SUBSET S, s # {}
        PROVE  /\ p[s] \in s /\ s \ {p[s]} \in SUBSET S
               /\ Cardinality(s \ {p[s]}) \in Nat
               /\ Cardinality(s) = Cardinality(s \ {p[s]}) + 1
    BY <1>a, Smaller
  <1>1. 0 \in N
    <2>1. ASSUME NEW s \in SUBSET S
          PROVE  s \in Upto(0) <=> s = {}
      <3>1. s = {} => Cardinality(s) = 0
        BY FS_EmptySet
      <3>2. ASSUME s # {} PROVE Cardinality(s) > 0
        <4>1. Cardinality(s \ {p[s]}) \in Nat /\ Cardinality(s) = Cardinality(s \ {p[s]}) + 1
          BY <3>2, <1>a
        <4> QED BY <4>1
      <3>3. Cardinality(s) \in Nat
        BY <1>0
      <3> QED BY <3>1, <3>2, <3>3
    <2> DEFINE G == [s \in Upto(0) |-> base]
    <2>2. G \in [Upto(0) -> V] /\ Good(0, G)
      BY <2>1
    <2> QED BY <2>2
  <1>2. ASSUME NEW n \in Nat, n \in N PROVE n + 1 \in N
    <2>1. PICK G \in [Upto(n) -> V] : Good(n, G)
      BY <1>2
    <2> DEFINE H == [s \in Upto(n + 1) |->
                       IF s \in Upto(n) THEN G[s] ELSE h[p[s]][G[s \ {p[s]}]]]
    <2>2. ASSUME NEW s \in Upto(n + 1), s # {}
          PROVE  s \ {p[s]} \in Upto(n)
      BY <2>2, <1>a
    <2>3. \A s \in Upto(n) : s \in Upto(n + 1)
      BY <1>0
    <2>4. {} \in Upto(n)
      BY FS_EmptySet
    <2>5. H \in [Upto(n + 1) -> V]
      <3> SUFFICES ASSUME NEW s \in Upto(n + 1) PROVE H[s] \in V
        OBVIOUS
      <3>1. CASE s \in Upto(n)
        BY <3>1
      <3>2. CASE s \notin Upto(n)
        <4>1. s # {} /\ s \in SUBSET S
          BY <3>2, <2>4
        <4>2. p[s] \in S
          BY <4>1, <1>a
        <4>3. G[s \ {p[s]}] \in V
          BY <4>1, <2>2
        <4> HIDE DEF Upto
        <4> QED BY <3>2, <4>2, <4>3
      <3> QED BY <3>1, <3>2
    <2>6. Good(n + 1, H)
      <3> SUFFICES ASSUME NEW s \in Upto(n + 1)
                   PROVE  H[s] = IF s = {} THEN base ELSE h[p[s]][H[s \ {p[s]}]]
        OBVIOUS
      <3>1. s \in Upto(n) => H[s] = IF s = {} THEN base ELSE h[p[s]][G[s \ {p[s]}]]
        <4> HIDE DEF Upto
        <4> QED BY <2>1
      <3>2. s \notin Upto(n) => s # {} /\ H[s] = h[p[s]][G[s \ {p[s]}]]
        <4> HIDE DEF Upto
        <4> QED BY <2>4
      <3>3. s # {} => H[s \ {p[s]}] = G[s \ {p[s]}]
        <4> HIDE DEF Upto
        <4> QED BY <2>2, <2>3
      <3> HIDE DEF H, Upto
      <3> QED BY <3>1, <3>2, <3>3
    <2> HIDE DEF H, Upto, Good
    <2> QED BY <2>5, <2>6
  <1>3. Nat \subseteq N
    <2> HIDE DEF N
    <2> QED BY <1>1, <1>2, NumberInduction
  <1>4. Cardinality(S) \in N
    BY <1>0, <1>3
  <1>5. Upto(Cardinality(S)) = SUBSET S
    BY <1>0, FS_Subset
  <1>6. PICK G \in [SUBSET S -> V] :
          \A s \in SUBSET S : G[s] = IF s = {} THEN base ELSE h[p[s]][G[s \ {p[s]}]]
    BY <1>4, <1>5
  <1>7. Folds(S, p, base, h, G)
    BY <1>6 DEF Folds
  <1> QED BY <1>7

\* A finite set of numbers that is not empty has a greatest element.
LEMMA MaxInSet ==
  ASSUME NEW S \in SUBSET Nat, IsFiniteSet(S), S # {}
  PROVE  Max(S) \in S /\ \A y \in S : y <= Max(S)
  <1> DEFINE F == {s \in SUBSET S : s = {} \/ \E x \in s : \A y \in s : x >= y}
  <1>1. {} \in F
    OBVIOUS
  <1>2. ASSUME NEW s \in SUBSET S, s # {}, \A x \in s : \A u \in SUBSET (s \ {x}) : u \in F
        PROVE  s \in F
    <2>1. PICK x \in s : TRUE
      BY <1>2
    <2>2. s \ {x} \in F
      BY <1>2, <2>1
    <2>3. CASE s \ {x} = {}
      <3>1. \A y \in s : y = x
        BY <2>3
      <3> QED BY <2>1, <3>1
    <2>4. CASE s \ {x} # {}
      <3>1. PICK m \in s \ {x} : \A y \in s \ {x} : m >= y
        BY <2>2, <2>4
      <3>2. CASE x >= m
        <4>1. \A y \in s : x >= y
          BY <3>1, <3>2
        <4> QED BY <4>1
      <3>3. CASE ~(x >= m)
        <4>1. \A y \in s : m >= y
          BY <3>1, <3>3
        <4> QED BY <4>1
      <3> QED BY <3>2, <3>3
    <2> QED BY <2>3, <2>4
  <1>3. SUBSET S \subseteq F
    <2> HIDE DEF F
    <2> QED BY <1>1, <1>2, SubsetInduction
  <1>4. \E x \in S : \A y \in S : x >= y
    BY <1>3
  <1>5. Max(S) \in S /\ \A y \in S : Max(S) >= y
    BY <1>4 DEF Max
  <1> QED BY <1>5
=============================================================================
