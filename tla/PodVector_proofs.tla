-------------------------- MODULE PodVector_proofs -------------------------
(***************************************************************************)
(* Vectors over the memory pools, for every number of threads, capacities, *)
(* addresses and vectors: no block is in two places or lost, objects live  *)
(* as long as memory is held, the counts of a thread are the bytes of its  *)
(* blocks, and vectors are values of their own.                            *)
(*                                                                         *)
(* The pools are functions of values, so what each of them preserves is a  *)
(* lemma about an arbitrary pool p and the set H of blocks that are held;  *)
(* the operations of vectors are put together from these lemmas.  Counts   *)
(* are sums over sets of blocks, which are finite however many addresses   *)
(* there are: a step allocates one block at most.                          *)
(***************************************************************************)
EXTENDS PodVector, Integers, SequenceTheorems, FiniteSetTheorems,
        WellFoundedInduction, TLAPS

-----------------------------------------------------------------------------
(***************************************************************************)
(* Sums over finite sets.  The provers have no induction over sets, but a  *)
(* set of natural numbers that is not empty has a least element.           *)
(***************************************************************************)
LEMMA LeastNatural ==
  ASSUME NEW S, S \subseteq Nat, S # {}
  PROVE  \E n \in S : \A m \in S : n <= m
<1>1. PICK n : n \in S /\ \A m \in S : ~ (<<m, n>> \in OpToRel(<, Nat))
  BY NatLessThanWellFounded, WFMin, Zenon
<1>2. n \in S
  BY <1>1, Zenon
<1>3. \A m \in S : ~ (m < n)
  BY <1>1 DEF OpToRel
<1>4. QED
  BY <1>2, <1>3

LEMMA UpTo ==
  ASSUME NEW n \in Nat, NEW T, 0 \in T,
         \A k \in 1 .. n : k - 1 \in T => k \in T
  PROVE  \A k \in 0 .. n : k \in T
<1> DEFINE S == {k \in 0 .. n : k \notin T}
<1>1. SUFFICES ASSUME S # {} PROVE FALSE
  OBVIOUS
<1>2. PICK k \in S : \A m \in S : k <= m
  <2>1. S \subseteq Nat
    OBVIOUS
  <2> HIDE DEF S
  <2>2. QED
    BY <1>1, <2>1, LeastNatural
<1>3. k # 0
  OBVIOUS
<1>4. k \in 1 .. n /\ k - 1 \in 0 .. n /\ k - 1 \notin S
  BY <1>2, <1>3
<1>5. QED
  BY <1>4

(* From {} to a finite set S, one element at a time.                       *)
LEMMA OneByOne ==
  ASSUME NEW S, IsFiniteSet(S), NEW D, {} \in D,
         \A T \in SUBSET S, x \in S : T \in D => T \union {x} \in D
  PROVE  S \in D
<1> DEFINE N == {n \in Nat : \A T \in SUBSET S : Cardinality(T) = n => T \in D}
           c == Cardinality(S)
<1>1. c \in Nat /\ \A T \in SUBSET S : IsFiniteSet(T) /\ Cardinality(T) \in Nat
  BY FS_CardinalityType, FS_Subset
<1>2. 0 \in N
  <2>1. ASSUME NEW T \in SUBSET S, Cardinality(T) = 0 PROVE T \in D
    BY <1>1, <2>1, FS_EmptySet
  <2>2. QED
    BY <2>1
<1>3. ASSUME NEW k \in 1 .. c, k - 1 \in N PROVE k \in N
  <2>1. k \in Nat /\ k # 0 /\ k - 1 \in Nat
    BY <1>1
  <2>2. ASSUME NEW T \in SUBSET S, Cardinality(T) = k PROVE T \in D
    <3>1. T # {}
      BY <2>1, <2>2, FS_EmptySet
    <3>2. PICK x : x \in T
      BY <3>1
    <3>3. Cardinality(T \ {x}) = k - 1
      BY <1>1, <2>2, <3>2, FS_RemoveElement
    <3>4. T \ {x} \in SUBSET S /\ x \in S /\ (T \ {x}) \union {x} = T
      BY <3>2
    <3>5. T \ {x} \in D
      BY <1>3, <3>3, <3>4
    <3>6. QED
      BY <3>4, <3>5
  <2>3. QED
    BY <2>1, <2>2
<1> HIDE DEF N
<1>4. \A k \in 1 .. c : k - 1 \in N => k \in N
  BY <1>3
<1>5. \A k \in 0 .. c : k \in N
  BY <1>1, <1>2, <1>4, UpTo
<1>6. c \in N
  BY <1>1, <1>5
<1>7. QED
  BY <1>6 DEF N

(* The numbers f has on a set, added up. *)
Picked(s) == CHOOSE x \in s : TRUE

Adds(f, s, g) == IF s = {} THEN 0 ELSE f[Picked(s)] + g[s \ {Picked(s)}]

Iter(f, S, g) == g = [s \in SUBSET S |-> Adds(f, s, g)]

SumOf(f, S) == (CHOOSE g : Iter(f, S, g))[S]

Numbers(f, S) == IsFiniteSet(S) /\ \A x \in S : f[x] \in Int

LEMMA PickedIn ==
  ASSUME NEW S, NEW s \in SUBSET S, s # {}
  PROVE  Picked(s) \in s /\ s \ {Picked(s)} \in SUBSET S
<1>1. \E x \in s : TRUE
  OBVIOUS
<1>2. Picked(s) \in s
  BY <1>1 DEF Picked
<1>3. QED
  BY <1>2

LEMMA AddsTyped ==
  ASSUME NEW f, NEW S, Numbers(f, S), NEW g \in [SUBSET S -> Int], NEW s \in SUBSET S
  PROVE  Adds(f, s, g) \in Int
<1>1. CASE s = {}
  BY <1>1 DEF Adds
<1>2. CASE s # {}
  <2>1. Picked(s) \in s /\ s \ {Picked(s)} \in SUBSET S
    BY <1>2, PickedIn
  <2>2. f[Picked(s)] \in Int /\ g[s \ {Picked(s)}] \in Int
    BY <2>1 DEF Numbers
  <2>3. QED
    BY <1>2, <2>2 DEF Adds
<1>3. QED
  BY <1>1, <1>2

(* The recursion of a fold has a solution: one that is right on the sets   *)
(* of up to n elements can be made right on those of n + 1.                *)
LEMMA IterExists ==
  ASSUME NEW f, NEW S, Numbers(f, S)
  PROVE  \E g \in [SUBSET S -> Int] : Iter(f, S, g)
<1> DEFINE c == Cardinality(S)
           RightOn(g, n) == \A s \in SUBSET S : Cardinality(s) <= n => g[s] = Adds(f, s, g)
           N == {n \in Nat : \E g \in [SUBSET S -> Int] : RightOn(g, n)}
<1>1. c \in Nat /\ \A T \in SUBSET S : IsFiniteSet(T) /\ Cardinality(T) \in Nat /\ Cardinality(T) <= c
  BY FS_CardinalityType, FS_Subset DEF Numbers
<1>2. 0 \in N
  <2> DEFINE g == [s \in SUBSET S |-> 0]
  <2>1. ASSUME NEW s \in SUBSET S, Cardinality(s) <= 0 PROVE g[s] = Adds(f, s, g)
    <3>1. Cardinality(s) = 0
      BY <1>1, <2>1
    <3>2. s = {}
      BY <1>1, <3>1, FS_EmptySet
    <3>3. QED
      BY <3>2 DEF Adds
  <2>2. g \in [SUBSET S -> Int]
    OBVIOUS
  <2> HIDE DEF g
  <2>3. RightOn(g, 0)
    BY <2>1
  <2>4. QED
    BY <2>2, <2>3
<1>3. ASSUME NEW k \in 1 .. c, k - 1 \in N PROVE k \in N
  <2>1. PICK g \in [SUBSET S -> Int] : RightOn(g, k - 1)
    BY <1>3
  <2> DEFINE h == [s \in SUBSET S |-> Adds(f, s, g)]
  <2>2. h \in [SUBSET S -> Int]
    BY AddsTyped
  <2>3. ASSUME NEW s \in SUBSET S, Cardinality(s) <= k PROVE h[s] = Adds(f, s, h)
    <3>1. CASE s = {}
      BY <3>1 DEF Adds
    <3>2. CASE s # {}
      <4>1. Picked(s) \in s /\ s \ {Picked(s)} \in SUBSET S
        BY <3>2, PickedIn
      <4>2. Cardinality(s \ {Picked(s)}) = Cardinality(s) - 1
        BY <1>1, <4>1, FS_RemoveElement
      <4>3. Cardinality(s \ {Picked(s)}) <= k - 1
        BY <1>1, <2>3, <4>2
      <4>4. g[s \ {Picked(s)}] = h[s \ {Picked(s)}]
        BY <2>1, <4>1, <4>3
      <4>5. QED
        BY <3>2, <4>4 DEF Adds
    <3>3. QED
      BY <3>1, <3>2
  <2> HIDE DEF h
  <2>4. RightOn(h, k)
    BY <2>3
  <2>5. QED
    BY <1>1, <2>2, <2>4
<1> HIDE DEF N
<1>4. \A k \in 1 .. c : k - 1 \in N => k \in N
  BY <1>3
<1>5. \A k \in 0 .. c : k \in N
  BY <1>1, <1>2, <1>4, UpTo
<1>6. c \in N
  BY <1>1, <1>5
<1>7. PICK g \in [SUBSET S -> Int] : RightOn(g, c)
  BY <1>6 DEF N
<1>8. g = [s \in SUBSET S |-> Adds(f, s, g)]
  BY <1>1, <1>7
<1>9. QED
  BY <1>8 DEF Iter

(* And only one, whatever larger set it is the solution for.               *)
LEMMA IterUnique ==
  ASSUME NEW f, NEW S, IsFiniteSet(S), NEW T, NEW g, NEW h,
         S \subseteq T, Iter(f, S, g), Iter(f, T, h)
  PROVE  g[S] = h[S]
<1> DEFINE c == Cardinality(S)
           N == {n \in Nat : \A s \in SUBSET S : Cardinality(s) = n => g[s] = h[s]}
<1>1. c \in Nat /\ \A s \in SUBSET S : IsFiniteSet(s) /\ Cardinality(s) \in Nat
  BY FS_CardinalityType, FS_Subset
<1>2. \A s \in SUBSET S : g[s] = Adds(f, s, g) /\ h[s] = Adds(f, s, h)
  BY DEF Iter
<1>3. 0 \in N
  <2>1. ASSUME NEW s \in SUBSET S, Cardinality(s) = 0 PROVE g[s] = h[s]
    <3>1. s = {}
      BY <1>1, <2>1, FS_EmptySet
    <3>2. QED
      BY <1>2, <3>1 DEF Adds
  <2>2. QED
    BY <2>1
<1>4. ASSUME NEW k \in 1 .. c, k - 1 \in N PROVE k \in N
  <2>1. ASSUME NEW s \in SUBSET S, Cardinality(s) = k PROVE g[s] = h[s]
    <3>1. s # {}
      BY <1>1, <2>1, FS_EmptySet
    <3>2. Picked(s) \in s /\ s \ {Picked(s)} \in SUBSET S
      BY <3>1, PickedIn
    <3>3. Cardinality(s \ {Picked(s)}) = k - 1
      BY <1>1, <2>1, <3>2, FS_RemoveElement
    <3>4. g[s \ {Picked(s)}] = h[s \ {Picked(s)}]
      BY <1>4, <3>2, <3>3
    <3>5. QED
      BY <1>2, <3>1, <3>4 DEF Adds
  <2>2. k \in Nat
    BY <1>1
  <2>3. QED
    BY <2>1, <2>2
<1> HIDE DEF N
<1>5. \A k \in 1 .. c : k - 1 \in N => k \in N
  BY <1>4
<1>6. \A k \in 0 .. c : k \in N
  BY <1>1, <1>3, <1>5, UpTo
<1>7. c \in N
  BY <1>1, <1>6
<1>8. QED
  BY <1>7 DEF N

(* A sum is what any solution of the recursion has.                        *)
LEMMA SumSolves ==
  ASSUME NEW f, NEW S, Numbers(f, S), NEW T, NEW h, S \subseteq T, Iter(f, T, h)
  PROVE  SumOf(f, S) = h[S]
<1>1. PICK g : Iter(f, S, g) /\ g = CHOOSE v : Iter(f, S, v)
  BY IterExists
<1>2. SumOf(f, S) = g[S]
  BY <1>1 DEF SumOf
<1>3. IsFiniteSet(S)
  BY DEF Numbers
<1>4. g[S] = h[S]
  BY <1>1, <1>3, IterUnique
<1>5. QED
  BY <1>2, <1>4

LEMMA SumType ==
  ASSUME NEW f, NEW S, Numbers(f, S)
  PROVE  SumOf(f, S) \in Int
<1>1. PICK g \in [SUBSET S -> Int] : Iter(f, S, g)
  BY IterExists
<1>2. SumOf(f, S) = g[S]
  BY <1>1, SumSolves
<1>3. S \in SUBSET S
  OBVIOUS
<1>4. QED
  BY <1>1, <1>2, <1>3

LEMMA SumEmpty ==
  ASSUME NEW f
  PROVE  SumOf(f, {}) = 0
<1>1. Numbers(f, {})
  BY FS_EmptySet DEF Numbers
<1>2. PICK g \in [SUBSET {} -> Int] : Iter(f, {}, g)
  BY <1>1, IterExists
<1>3. SumOf(f, {}) = g[{}]
  BY <1>1, <1>2, SumSolves
<1>4. g[{}] = Adds(f, {}, g)
  BY <1>2 DEF Iter
<1>5. QED
  BY <1>3, <1>4 DEF Adds

LEMMA FewerNumbers ==
  ASSUME NEW f, NEW S, Numbers(f, S), NEW T, T \subseteq S
  PROVE  Numbers(f, T)
<1>1. T \in SUBSET S
  OBVIOUS
<1>2. QED
  BY <1>1, FS_Subset DEF Numbers

(* The element that is picked first.                                       *)
LEMMA SumPicked ==
  ASSUME NEW f, NEW S, Numbers(f, S), S # {}
  PROVE  SumOf(f, S) = f[Picked(S)] + SumOf(f, S \ {Picked(S)})
<1> DEFINE R == S \ {Picked(S)}
<1>1. PICK g \in [SUBSET S -> Int] : Iter(f, S, g)
  BY IterExists
<1>2. SumOf(f, S) = g[S]
  BY <1>1, SumSolves
<1>3. g[S] = Adds(f, S, g)
  BY <1>1 DEF Iter
<1>4. R \subseteq S /\ Numbers(f, R)
  BY FewerNumbers
<1> HIDE DEF R
<1>5. SumOf(f, R) = g[R]
  BY <1>1, <1>4, SumSolves
<1>6. QED
  BY <1>2, <1>3, <1>5 DEF Adds, R

(* Any element.                                                            *)
LEMMA SumRemove ==
  ASSUME NEW f, NEW S, Numbers(f, S), NEW x \in S
  PROVE  SumOf(f, S) = f[x] + SumOf(f, S \ {x})
<1> DEFINE c == Cardinality(S)
           Good(s) == \A y \in s : SumOf(f, s) = f[y] + SumOf(f, s \ {y})
           N == {n \in Nat : \A s \in SUBSET S : Cardinality(s) = n => Good(s)}
<1>1. c \in Nat /\ \A s \in SUBSET S : IsFiniteSet(s) /\ Cardinality(s) \in Nat
  BY FS_CardinalityType, FS_Subset DEF Numbers
<1>2. 0 \in N
  <2>1. ASSUME NEW s \in SUBSET S, Cardinality(s) = 0 PROVE Good(s)
    <3>1. s = {}
      BY <1>1, <2>1, FS_EmptySet
    <3>2. QED
      BY <3>1
  <2>2. QED
    BY <2>1
<1>3. ASSUME NEW k \in 1 .. c, k - 1 \in N PROVE k \in N
  <2>1. ASSUME NEW s \in SUBSET S, Cardinality(s) = k, NEW y \in s
        PROVE  SumOf(f, s) = f[y] + SumOf(f, s \ {y})
    <3> PICK z : z = Picked(s)
      OBVIOUS
    <3>1. s # {} /\ Numbers(f, s)
      BY <2>1, FewerNumbers
    <3>2. z \in s
      BY <3>1, PickedIn
    <3>3. SumOf(f, s) = f[z] + SumOf(f, s \ {z})
      BY <3>1, SumPicked
    <3>4. CASE y = z
      BY <3>3, <3>4
    <3>5. CASE y # z
      <4> DEFINE u == s \ {y}
                 w == s \ {z}
      <4>1. u \in SUBSET S /\ w \in SUBSET S /\ z \in u /\ y \in w /\ u \ {z} = w \ {y}
        BY <3>2, <3>5
      <4>2. Cardinality(u) = k - 1 /\ Cardinality(w) = k - 1
        BY <1>1, <2>1, <3>2, FS_RemoveElement
      <4>3. Good(u) /\ Good(w)
        BY <1>3, <4>1, <4>2
      <4>4. /\ SumOf(f, u) = f[z] + SumOf(f, u \ {z})
            /\ SumOf(f, w) = f[y] + SumOf(f, u \ {z})
        BY <4>1, <4>3
      <4>5. Numbers(f, u \ {z}) /\ f[y] \in Int /\ f[z] \in Int
        BY <3>1, <3>2, <4>1, FewerNumbers DEF Numbers
      <4>6. SumOf(f, u \ {z}) \in Int
        BY <4>5, SumType
      <4> HIDE DEF u, w
      <4>7. f[z] + SumOf(f, w) = f[y] + SumOf(f, u)
        BY <4>4, <4>5, <4>6
      <4>8. QED
        BY <3>3, <4>7 DEF u, w
    <3>6. QED
      BY <3>4, <3>5
  <2>2. k \in Nat
    BY <1>1
  <2>3. QED
    BY <2>1, <2>2
<1> HIDE DEF N
<1>4. \A k \in 1 .. c : k - 1 \in N => k \in N
  BY <1>3
<1>5. \A k \in 0 .. c : k \in N
  BY <1>1, <1>2, <1>4, UpTo
<1>6. c \in N
  BY <1>1, <1>5
<1>7. Good(S)
  BY <1>6 DEF N
<1>8. QED
  BY <1>7

LEMMA SumInsert ==
  ASSUME NEW f, NEW S, Numbers(f, S), NEW x, x \notin S, f[x] \in Int
  PROVE  /\ Numbers(f, S \union {x})
         /\ SumOf(f, S \union {x}) = SumOf(f, S) + f[x]
<1> DEFINE T == S \union {x}
<1>1. Numbers(f, T)
  BY FS_AddElement DEF Numbers
<1>2. x \in T /\ T \ {x} = S
  OBVIOUS
<1> HIDE DEF T
<1>3. SumOf(f, T) = f[x] + SumOf(f, T \ {x})
  BY <1>1, <1>2, SumRemove
<1>4. SumOf(f, S) \in Int
  BY SumType
<1>5. SumOf(f, T) = f[x] + SumOf(f, S)
  BY <1>2, <1>3
<1>6. SumOf(f, T) = SumOf(f, S) + f[x]
  BY <1>4, <1>5
<1>7. QED
  BY <1>1, <1>6 DEF T

(* Two functions that agree have one sum. *)
LEMMA SumSame ==
  ASSUME NEW f, NEW g, NEW S, Numbers(f, S), \A x \in S : g[x] = f[x]
  PROVE  Numbers(g, S) /\ SumOf(g, S) = SumOf(f, S)
<1> DEFINE D == {T \in SUBSET S : SumOf(g, T) = SumOf(f, T)}
<1>1. Numbers(g, S) /\ IsFiniteSet(S)
  BY DEF Numbers
<1>2. {} \in D
  BY SumEmpty
<1>3. ASSUME NEW T \in SUBSET S, NEW x \in S, T \in D PROVE T \union {x} \in D
  <2>1. CASE x \in T
    <3>1. T \union {x} = T
      BY <2>1
    <3>2. QED
      BY <1>3, <3>1
  <2>2. CASE x \notin T
    <3>1. Numbers(f, T) /\ Numbers(g, T)
      BY <1>1, FewerNumbers
    <3>2. f[x] \in Int /\ g[x] = f[x]
      BY DEF Numbers
    <3>3. SumOf(f, T \union {x}) = SumOf(f, T) + f[x]
      BY <2>2, <3>1, <3>2, SumInsert
    <3>4. SumOf(g, T \union {x}) = SumOf(g, T) + g[x]
      BY <2>2, <3>1, <3>2, SumInsert
    <3>5. QED
      BY <1>3, <3>2, <3>3, <3>4
  <2>3. QED
    BY <2>1, <2>2
<1> HIDE DEF D
<1>4. \A T \in SUBSET S, x \in S : T \in D => T \union {x} \in D
  BY <1>3
<1>5. S \in D
  BY <1>1, <1>2, <1>4, OneByOne
<1>6. QED
  BY <1>1, <1>5 DEF D

LEMMA SumDisjoint ==
  ASSUME NEW f, NEW S, NEW T, Numbers(f, S), Numbers(f, T), S \cap T = {}
  PROVE  /\ Numbers(f, S \union T)
         /\ SumOf(f, S \union T) = SumOf(f, S) + SumOf(f, T)
<1> DEFINE D == {U \in SUBSET T : SumOf(f, S \union U) = SumOf(f, S) + SumOf(f, U)}
<1>1. Numbers(f, S \union T) /\ IsFiniteSet(T) /\ SumOf(f, S) \in Int
  BY FS_Union, SumType DEF Numbers
<1>2. {} \in D
  <2>1. S \union {} = S
    OBVIOUS
  <2>2. QED
    BY <1>1, <2>1, SumEmpty
<1>3. ASSUME NEW U \in SUBSET T, NEW x \in T, U \in D PROVE U \union {x} \in D
  <2>1. CASE x \in U
    <3>1. U \union {x} = U
      BY <2>1
    <3>2. QED
      BY <1>3, <3>1
  <2>2. CASE x \notin U
    <3> DEFINE V == S \union U
    <3>1. V \subseteq S \union T /\ x \notin V /\ S \union (U \union {x}) = V \union {x}
      BY <2>2
    <3>2. Numbers(f, U) /\ Numbers(f, V)
      BY <1>1, <3>1, FewerNumbers
    <3>3. f[x] \in Int /\ SumOf(f, U) \in Int
      BY <3>2, SumType DEF Numbers
    <3>4. SumOf(f, U \union {x}) = SumOf(f, U) + f[x]
      BY <2>2, <3>2, <3>3, SumInsert
    <3> HIDE DEF V
    <3>5. SumOf(f, V \union {x}) = SumOf(f, V) + f[x]
      BY <3>1, <3>2, <3>3, SumInsert
    <3>6. SumOf(f, V) = SumOf(f, S) + SumOf(f, U)
      BY <1>3 DEF V
    <3>7. SumOf(f, V \union {x}) = SumOf(f, S) + SumOf(f, U \union {x})
      BY <1>1, <3>3, <3>4, <3>5, <3>6
    <3>8. QED
      BY <3>1, <3>7
  <2>3. QED
    BY <2>1, <2>2
<1> HIDE DEF D
<1>4. \A U \in SUBSET T, x \in T : U \in D => U \union {x} \in D
  BY <1>3
<1>5. T \in D
  BY <1>1, <1>2, <1>4, OneByOne
<1>6. QED
  BY <1>1, <1>5 DEF D

(* Equal numbers. *)
LEMMA SumEqual ==
  ASSUME NEW f, NEW S, IsFiniteSet(S), NEW m \in Nat, \A x \in S : f[x] = m
  PROVE  Numbers(f, S) /\ SumOf(f, S) = Cardinality(S) * m
<1> DEFINE D == {T \in SUBSET S : SumOf(f, T) = Cardinality(T) * m}
<1>1. Numbers(f, S)
  BY DEF Numbers
<1>2. {} \in D
  <2>1. 0 * m = 0
    OBVIOUS
  <2>2. QED
    BY <2>1, SumEmpty, FS_EmptySet
<1>3. ASSUME NEW T \in SUBSET S, NEW x \in S, T \in D PROVE T \union {x} \in D
  <2>1. CASE x \in T
    <3>1. T \union {x} = T
      BY <2>1
    <3>2. QED
      BY <1>3, <3>1
  <2>2. CASE x \notin T
    <3>1. Numbers(f, T) /\ f[x] \in Int /\ IsFiniteSet(T)
      BY <1>1, FewerNumbers DEF Numbers
    <3>2. SumOf(f, T \union {x}) = SumOf(f, T) + f[x]
      BY <2>2, <3>1, SumInsert
    <3>3. Cardinality(T \union {x}) = Cardinality(T) + 1 /\ Cardinality(T) \in Nat
      BY <2>2, <3>1, FS_AddElement, FS_CardinalityType
    <3> DEFINE k == Cardinality(T)
    <3> HIDE DEF k
    <3>4. k \in Nat => (k + 1) * m = k * m + m
      OBVIOUS
    <3>5. SumOf(f, T) = k * m
      BY <1>3 DEF k
    <3>6. QED
      BY <3>2, <3>3, <3>4, <3>5 DEF k
  <2>3. QED
    BY <2>1, <2>2
<1> HIDE DEF D
<1>4. \A T \in SUBSET S, x \in S : T \in D => T \union {x} \in D
  BY <1>3
<1>5. S \in D
  BY <1>2, <1>4, OneByOne
<1>6. QED
  BY <1>1, <1>5 DEF D

(* A sum of positive numbers. *)
LEMMA SumPositive ==
  ASSUME NEW f, NEW S, IsFiniteSet(S), \A x \in S : f[x] \in Nat \ {0}
  PROVE  Numbers(f, S) /\ SumOf(f, S) \in Nat /\ (SumOf(f, S) = 0 <=> S = {})
<1> DEFINE D == {T \in SUBSET S : SumOf(f, T) \in Nat}
<1>1. Numbers(f, S)
  BY DEF Numbers
<1>2. {} \in D
  BY SumEmpty
<1>3. ASSUME NEW T \in SUBSET S, NEW x \in S, T \in D PROVE T \union {x} \in D
  <2>1. CASE x \in T
    <3>1. T \union {x} = T
      BY <2>1
    <3>2. QED
      BY <1>3, <3>1
  <2>2. CASE x \notin T
    <3>1. Numbers(f, T) /\ f[x] \in Nat
      BY <1>1, FewerNumbers
    <3>2. SumOf(f, T \union {x}) = SumOf(f, T) + f[x]
      BY <2>2, <3>1, SumInsert
    <3>3. QED
      BY <1>3, <3>1, <3>2
  <2>3. QED
    BY <2>1, <2>2
<1>4. \A T \in SUBSET S, x \in S : T \in D => T \union {x} \in D
  BY <1>3
<1> HIDE DEF D
<1>5. \A T \in SUBSET S : T \in D
  <2>1. SUFFICES ASSUME NEW T \in SUBSET S PROVE T \in D
    OBVIOUS
  <2>2. IsFiniteSet(T)
    BY FS_Subset
  <2>3. \A U \in SUBSET T, x \in T : U \in D => U \union {x} \in D
    BY <1>4
  <2>4. QED
    BY <1>2, <2>2, <2>3, OneByOne
<1>6. ASSUME S # {} PROVE SumOf(f, S) # 0
  <2>1. PICK x \in S : TRUE
    BY <1>6
  <2>2. SumOf(f, S) = f[x] + SumOf(f, S \ {x})
    BY <1>1, SumRemove
  <2>3. SumOf(f, S \ {x}) \in Nat
    BY <1>5 DEF D
  <2>4. f[x] \in Nat /\ f[x] # 0
    OBVIOUS
  <2>5. QED
    BY <2>2, <2>3, <2>4
<1>7. SumOf(f, S) \in Nat
  BY <1>5 DEF D
<1>8. QED
  BY <1>1, <1>6, <1>7, SumEmpty

-----------------------------------------------------------------------------
(***************************************************************************)
(* Bytes.                                                                  *)
(***************************************************************************)

(* The sizes of blocks, and what some of them have together.               *)
SizeOf(p) == [a \in Addr |-> capacity_vec[CapOf(p, a)]]

Total(p, S) == SumOf(SizeOf(p), S)

SizesAdd(p, S, g) ==
  g = [s \in SUBSET S |->
         IF s = {} THEN 0
         ELSE capacity_vec[CapOf(p, Picked(s))] + g[s \ {Picked(s)}]]

LEMMA SizesIter ==
  ASSUME NEW p, NEW S, S \subseteq Addr, NEW g
  PROVE  SizesAdd(p, S, g) <=> Iter(SizeOf(p), S, g)
<1>1. ASSUME NEW s \in SUBSET S
      PROVE  Adds(SizeOf(p), s, g)
               = IF s = {} THEN 0
                 ELSE capacity_vec[CapOf(p, Picked(s))] + g[s \ {Picked(s)}]
  <2>1. CASE s = {}
    BY <2>1 DEF Adds
  <2>2. CASE s # {}
    <3>1. Picked(s) \in Addr
      BY <2>2, PickedIn
    <3>2. SizeOf(p)[Picked(s)] = capacity_vec[CapOf(p, Picked(s))]
      BY <3>1 DEF SizeOf
    <3>3. QED
      BY <2>2, <3>2 DEF Adds
  <2>3. QED
    BY <2>1, <2>2
<1>2. QED
  BY <1>1 DEF Iter, SizesAdd

(* The sum in CountsExact. *)
LEMMA TotalIs ==
  ASSUME NEW p, NEW S, S \subseteq Addr, Numbers(SizeOf(p), S)
  PROVE  MapThenSumSet(LAMBDA a : capacity_vec[CapOf(p, a)], S) = Total(p, S)
<1>1. MapThenSumSet(LAMBDA a : capacity_vec[CapOf(p, a)], S)
        = (CHOOSE g : SizesAdd(p, S, g))[S]
  BY DEF MapThenSumSet, MapThenFoldSet, SizesAdd, Picked
<1>2. \E g : SizesAdd(p, S, g)
  BY IterExists, SizesIter
<1>3. PICK g : SizesAdd(p, S, g) /\ g = CHOOSE v : SizesAdd(p, S, v)
  BY <1>2
<1>4. Iter(SizeOf(p), S, g)
  BY <1>3, SizesIter
<1>5. SumOf(SizeOf(p), S) = g[S]
  BY <1>4, SumSolves
<1>6. QED
  BY <1>1, <1>3, <1>5 DEF Total

(* Bytes of a list per capacity. *)
BytesOf(root) == [c \in Cap |-> Cardinality(root[c]) * capacity_vec[c]]

BytesAdd(root, g) ==
  g = [s \in SUBSET Cap |->
         IF s = {} THEN 0
         ELSE Cardinality(root[Picked(s)]) * capacity_vec[Picked(s)]
                + g[s \ {Picked(s)}]]

LEMMA BytesIter ==
  ASSUME NEW root, NEW g
  PROVE  BytesAdd(root, g) <=> Iter(BytesOf(root), Cap, g)
<1>1. ASSUME NEW s \in SUBSET Cap
      PROVE  Adds(BytesOf(root), s, g)
               = IF s = {} THEN 0
                 ELSE Cardinality(root[Picked(s)]) * capacity_vec[Picked(s)]
                        + g[s \ {Picked(s)}]
  <2>1. CASE s = {}
    BY <2>1 DEF Adds
  <2>2. CASE s # {}
    <3>1. Picked(s) \in Cap
      BY <2>2, PickedIn
    <3>2. BytesOf(root)[Picked(s)]
            = Cardinality(root[Picked(s)]) * capacity_vec[Picked(s)]
      BY <3>1 DEF BytesOf
    <3>3. QED
      BY <2>2, <3>2 DEF Adds
  <2>3. QED
    BY <2>1, <2>2
<1>2. QED
  BY <1>1 DEF Iter, BytesAdd

LEMMA BytesIs ==
  ASSUME NEW root, Numbers(BytesOf(root), Cap)
  PROVE  Bytes(root) = SumOf(BytesOf(root), Cap)
<1>1. Bytes(root) = (CHOOSE g : BytesAdd(root, g))[Cap]
  BY DEF Bytes, MapThenSumSet, MapThenFoldSet, BytesAdd, Picked
<1>2. \E g : BytesAdd(root, g)
  BY IterExists, BytesIter
<1>3. PICK g : BytesAdd(root, g) /\ g = CHOOSE v : BytesAdd(root, v)
  BY <1>2
<1>4. Iter(BytesOf(root), Cap, g)
  BY <1>3, BytesIter
<1>5. SumOf(BytesOf(root), Cap) = g[Cap]
  BY <1>4, SumSolves
<1>6. QED
  BY <1>1, <1>3, <1>5

(* Blocks by capacity, or all of them at once: the same bytes.             *)
Sorted(f, root) ==
  /\ root \in [Cap -> SUBSET Addr]
  /\ \A c \in Cap : IsFiniteSet(root[c]) /\ \A a \in root[c] : f[a] = capacity_vec[c]
  /\ \A c, d \in Cap : c # d => root[c] \cap root[d] = {}

UnionOf(root, C) == UNION {root[c] : c \in C}

LEMMA BytesAreSizes ==
  ASSUME NEW f, NEW root, Sorted(f, root)
  PROVE  /\ Numbers(f, UnionOf(root, Cap))
         /\ Bytes(root) = SumOf(f, UnionOf(root, Cap))
<1> DEFINE h == BytesOf(root)
           D == {C \in SUBSET Cap : /\ Numbers(f, UnionOf(root, C))
                                    /\ SumOf(h, C) = SumOf(f, UnionOf(root, C))}
<1>1. IsFiniteSet(Cap)
  <2>1. 0 \in Int /\ num_cap - 1 \in Int
    BY ThreadCapAssumption
  <2>2. QED
    BY <2>1, FS_Interval DEF Cap
<1>2. ASSUME NEW c \in Cap
      PROVE  /\ Numbers(f, root[c]) /\ h[c] \in Int
             /\ SumOf(f, root[c]) = h[c]
  <2>1. /\ IsFiniteSet(root[c]) /\ \A a \in root[c] : f[a] = capacity_vec[c]
        /\ capacity_vec[c] \in Nat
    BY ThreadCapAssumption DEF Sorted
  <2>2. Numbers(f, root[c]) /\ SumOf(f, root[c]) = Cardinality(root[c]) * capacity_vec[c]
    BY <2>1, SumEqual
  <2>3. h[c] = Cardinality(root[c]) * capacity_vec[c]
    BY DEF BytesOf
  <2>4. SumOf(f, root[c]) \in Int
    BY <2>2, SumType
  <2>5. QED
    BY <2>2, <2>3, <2>4
<1> HIDE DEF h
<1>3. Numbers(h, Cap)
  BY <1>1, <1>2 DEF Numbers
<1>4. {} \in D
  <2>1. UnionOf(root, {}) = {}
    BY DEF UnionOf
  <2>2. QED
    BY <2>1, SumEmpty, FS_EmptySet DEF Numbers
<1>5. ASSUME NEW C \in SUBSET Cap, NEW c \in Cap, C \in D PROVE C \union {c} \in D
  <2>1. CASE c \in C
    <3>1. C \union {c} = C
      BY <2>1
    <3>2. QED
      BY <1>5, <3>1
  <2>2. CASE c \notin C
    <3> DEFINE S == UnionOf(root, C)
               T == root[c]
               E == C \union {c}
    <3>1. UnionOf(root, E) = S \union T
      BY DEF UnionOf
    <3>2. S \cap T = {}
      BY <2>2 DEF UnionOf, Sorted
    <3>3. Numbers(f, S) /\ Numbers(f, T) /\ SumOf(h, C) = SumOf(f, S)
      BY <1>2, <1>5
    <3>4. Numbers(h, C)
      BY <1>3, FewerNumbers
    <3>5. SumOf(h, E) = SumOf(h, C) + h[c]
      BY <1>2, <2>2, <3>4, SumInsert
    <3>6. SumOf(f, T) = h[c]
      BY <1>2
    <3> HIDE DEF S, T
    <3>7. Numbers(f, S \union T) /\ SumOf(f, S \union T) = SumOf(f, S) + SumOf(f, T)
      BY <3>2, <3>3, SumDisjoint
    <3>8. QED
      BY <3>1, <3>3, <3>5, <3>6, <3>7
  <2>3. QED
    BY <2>1, <2>2
<1> HIDE DEF D
<1>6. \A C \in SUBSET Cap, c \in Cap : C \in D => C \union {c} \in D
  BY <1>5
<1>7. Cap \in D
  BY <1>1, <1>4, <1>6, OneByOne
<1>8. Bytes(root) = SumOf(h, Cap)
  BY <1>3, BytesIs DEF h
<1>9. QED
  BY <1>7, <1>8 DEF D

(* The available blocks of a thread. *)
Avail(p, t) == thread_info(p, t).root_available_

Shape(p) ==
  /\ DOMAIN p = {"info", "block"}
  /\ DOMAIN p.info = Thread /\ DOMAIN p.block = Addr
  /\ \A t \in Thread :
       /\ DOMAIN thread_info(p, t) = {"count_inuse_", "count_available_",
                                      "root_inuse_", "root_available_"}
       /\ Avail(p, t) \in [Cap -> SUBSET Addr]

(* A block fresh from the system. *)
Fresh(t, c) == [tc_index_ |-> TcIndex(t, c),
                data |-> [k \in 1 .. capacity_vec[c] |-> Raw]]

(* What is in a block of capacity c. *)
Data(c) == [1 .. capacity_vec[c] -> Elem \union {Raw}]

Sized(p, a) ==
  /\ p.block[a] \in Block
  /\ ThreadOf(p, a) \in Thread /\ CapOf(p, a) \in Cap
  /\ p.block[a].data \in Data(CapOf(p, a))

(* No object is in the block at a, or only objects. *)
Bare(p, a) ==
  ~is_pod => \A k \in DOMAIN p.block[a].data : p.block[a].data[k] = Raw

Full(p, a) ==
  ~is_pod => \A k \in DOMAIN p.block[a].data : p.block[a].data[k] # Raw

(* An available block is allocated, of its list, held by none and bare. *)
Listed(p, H) ==
  \A t \in Thread, c \in Cap : \A a \in Avail(p, t)[c] :
    /\ p.block[a] # Free /\ p.block[a].tc_index_ = TcIndex(t, c)
    /\ a \notin H /\ Bare(p, a)

Kept(p, H) == H \subseteq Addr /\ \A a \in H : p.block[a] # Free

Tracked(p, H) ==
  \A a \in Addr : p.block[a] # Free =>
    a \in H \/ \E t \in Thread, c \in Cap : a \in Avail(p, t)[c]

AllSized(p) == \A a \in Addr : p.block[a] # Free => Sized(p, a)

Laid(p, H) ==
  Shape(p) /\ Listed(p, H) /\ Kept(p, H) /\ Tracked(p, H) /\ AllSized(p)

-----------------------------------------------------------------------------
(***************************************************************************)
(* Indices of thread and capacity.                                         *)
(***************************************************************************)

LEMMA Division ==
  ASSUME NEW n \in Nat \ {0}, NEW a \in Nat
  PROVE  /\ a \div n \in Nat
         /\ a % n \in 0 .. n - 1
         /\ a = n * (a \div n) + (a % n)
  BY SMT

LEMMA ProductGrows ==
  ASSUME NEW n \in Nat \ {0}, NEW k \in Nat, NEW m \in Nat, k < m
  PROVE  k * n + n <= m * n
  BY SMT

(* Quotient and remainder are unique. *)
LEMMA QuotientUnique ==
  ASSUME NEW n \in Nat \ {0}, NEW p \in Nat, NEW q \in Nat,
         NEW r \in 0 .. n - 1, NEW s \in 0 .. n - 1,
         p * n + r = q * n + s
  PROVE  p = q /\ r = s
<1> DEFINE x == p * n
           y == q * n
<1>1. x \in Nat /\ y \in Nat /\ x + r = y + s
  OBVIOUS
<1>2. ~(p < q)
  <2>1. SUFFICES ASSUME p < q PROVE FALSE
    OBVIOUS
  <2>2. x + n <= y
    BY <2>1, ProductGrows
  <2> HIDE DEF x, y
  <2>3. QED
    BY <1>1, <2>2
<1>3. ~(q < p)
  <2>1. SUFFICES ASSUME q < p PROVE FALSE
    OBVIOUS
  <2>2. y + n <= x
    BY <2>1, ProductGrows
  <2> HIDE DEF x, y
  <2>3. QED
    BY <1>1, <2>2
<1>4. p = q
  BY <1>2, <1>3
<1>5. x = y
  BY <1>4
<1> HIDE DEF x, y
<1>6. QED
  BY <1>1, <1>4, <1>5

(* An index names its thread and its capacity. *)
LEMMA IndexSplits ==
  ASSUME NEW t \in Thread, NEW c \in Cap
  PROVE  /\ TcIndex(t, c) \in 0 .. CPPAD_MAX_NUM_THREADS * num_cap - 1
         /\ TcIndex(t, c) \div num_cap = t
         /\ TcIndex(t, c) % num_cap = c
<1> DEFINE n == num_cap
           N == CPPAD_MAX_NUM_THREADS
           i == t * n + c
           q == i \div n
           r == i % n
<1>1. n \in Nat \ {0} /\ N \in Nat /\ t \in Nat /\ t < N /\ c \in 0 .. n - 1
  BY ThreadCapAssumption DEF Thread, Cap
<1>2. t * n \in Nat /\ N * n \in Nat
  BY <1>1
<1>3. t * n + n <= N * n
  BY <1>1, ProductGrows
<1>4. i \in Nat /\ i <= N * n - 1
  <2> DEFINE x == t * n
             y == N * n
  <2>1. x \in Nat /\ y \in Nat /\ x + n <= y
    BY <1>2, <1>3
  <2>2. i = x + c
    OBVIOUS
  <2> HIDE DEF x, y
  <2>3. i \in Nat /\ i <= y - 1
    BY <1>1, <2>1, <2>2
  <2>4. QED
    BY <2>3 DEF y
<1>5. q \in Nat /\ r \in 0 .. n - 1 /\ i = n * q + r
  BY <1>1, <1>4, Division
<1>6. n * q = q * n
  BY <1>1, <1>5
<1>7. t * n + c = q * n + r
  BY <1>5, <1>6
<1> HIDE DEF q, r
<1>8. t = q /\ c = r
  BY <1>1, <1>5, <1>7, QuotientUnique
<1>9. QED
  BY <1>4, <1>8 DEF TcIndex, q, r

(* A new block is one. *)
LEMMA NewBlock ==
  ASSUME NEW t \in Thread, NEW c \in Cap, NEW d \in Data(c),
         NEW b, b = [tc_index_ |-> TcIndex(t, c), data |-> d]
  PROVE  b \in Block /\ b # Free
<1>1. TcIndex(t, c) \in 0 .. CPPAD_MAX_NUM_THREADS * num_cap - 1
  BY IndexSplits
<1>2. d \in UNION {[1 .. capacity_vec[e] -> Elem \union {Raw}] : e \in Cap}
  BY DEF Data
<1>3. b \in Block
  BY <1>1, <1>2 DEF Block
<1>4. QED
  BY <1>3, FreeAssumption

-----------------------------------------------------------------------------
(***************************************************************************)
(* What the functions of the pools change: the available blocks of one     *)
(* thread and capacity, and one block.                                     *)
(***************************************************************************)

(* A pool with a new record of one thread. *)
LEMMA NewRecord ==
  ASSUME NEW p, Shape(p), NEW t \in Thread, NEW i, NEW q,
         DOMAIN i = {"count_inuse_", "count_available_",
                     "root_inuse_", "root_available_"},
         i.root_available_ \in [Cap -> SUBSET Addr],
         DOMAIN q = {"info", "block"}, DOMAIN q.block = Addr,
         q.info = [p.info EXCEPT ![t] = <<i>>]
  PROVE  /\ Shape(q)
         /\ thread_info(q, t) = i
         /\ \A u \in Thread \ {t} : thread_info(q, u) = thread_info(p, u)
<1>1. <<i>> # NoRecord /\ <<i>>[1] = i
  BY DEF NoRecord
<1>2. DOMAIN p.info = Thread /\ DOMAIN q.info = Thread
  BY DEF Shape
<1>3. thread_info(q, t) = i
  BY <1>1, <1>2 DEF thread_info
<1>4. \A u \in Thread \ {t} : thread_info(q, u) = thread_info(p, u)
  BY <1>2 DEF thread_info
<1>5. QED
  BY <1>2, <1>3, <1>4 DEF Shape, Avail

(* A thread without a record has nothing available. *)
LEMMA NoInfoShape ==
  /\ DOMAIN NoInfo = {"count_inuse_", "count_available_",
                      "root_inuse_", "root_available_"}
  /\ NoInfo.root_available_ \in [Cap -> SUBSET Addr]
  /\ \A c \in Cap : NoInfo.root_available_[c] = {}
  BY DEF NoInfo

Got(p, q, t, c, a) ==
  /\ Shape(q)
  /\ a \in Addr
  /\ \A u \in Thread, d \in Cap :
       Avail(q, u)[d] = IF u = t /\ d = c THEN Avail(p, u)[d] \ {a}
                        ELSE Avail(p, u)[d]
  /\ \A b \in Addr : b # a => q.block[b] = p.block[b]
  /\ \/ a \in Avail(p, t)[c] /\ q.block[a] = p.block[a]
     \/ /\ Avail(p, t)[c] = {} /\ p.block[a] = Free
        /\ q.block[a] = Fresh(t, c)

LEMMA GetEffect ==
  ASSUME NEW p, Shape(p), NEW t \in Thread, NEW c \in Cap,
         NEW a \in Obtainable(p, t, c), NEW q, q = get_memory(p, t, c, a)
  PROVE  Got(p, q, t, c, a)
<1> DEFINE i == thread_info(p, t)
           taken == [i EXCEPT !.root_inuse_[c] = @ \union {a},
                              !.count_inuse_ = @ + capacity_vec[c]]
           less == [taken EXCEPT !.root_available_[c] = @ \ {a},
                                 !.count_available_ = @ - capacity_vec[c]]
<1>1. /\ DOMAIN i = {"count_inuse_", "count_available_",
                     "root_inuse_", "root_available_"}
      /\ i.root_available_ \in [Cap -> SUBSET Addr]
      /\ i.root_available_ = Avail(p, t)
  BY DEF Shape, Avail
<1>2. /\ DOMAIN taken = {"count_inuse_", "count_available_",
                         "root_inuse_", "root_available_"}
      /\ taken.root_available_ = i.root_available_
  BY <1>1
<1>3. /\ DOMAIN less = {"count_inuse_", "count_available_",
                        "root_inuse_", "root_available_"}
      /\ less.root_available_ = [i.root_available_ EXCEPT ![c] = @ \ {a}]
  BY <1>1, <1>2
<1> HIDE DEF taken, less, i
<1>4. CASE i.root_available_[c] # {}
  <2>1. a \in i.root_available_[c] /\ a \in Addr
    BY <1>1, <1>4 DEF Obtainable, i
  <2>2. q = [p EXCEPT !.info[t] = <<less>>]
    BY <1>4 DEF get_memory, less, taken, i
  <2>3. /\ DOMAIN q = {"info", "block"} /\ q.block = p.block
        /\ q.info = [p.info EXCEPT ![t] = <<less>>] /\ DOMAIN p.block = Addr
    BY <2>2 DEF Shape
  <2>4. less.root_available_ \in [Cap -> SUBSET Addr]
    BY <1>1, <1>3
  <2>5. /\ Shape(q) /\ thread_info(q, t) = less
        /\ \A u \in Thread \ {t} : thread_info(q, u) = thread_info(p, u)
    BY <2>3, <2>4, <1>3, NewRecord
  <2>6. \A u \in Thread, d \in Cap :
          Avail(q, u)[d] = IF u = t /\ d = c THEN Avail(p, u)[d] \ {a}
                           ELSE Avail(p, u)[d]
    BY <1>1, <1>3, <2>5 DEF Avail
  <2>7. QED
    BY <1>1, <2>1, <2>3, <2>5, <2>6 DEF Got
<1>5. CASE i.root_available_[c] = {}
  <2>1. a \in Addr /\ p.block[a] = Free
    BY <1>1, <1>5 DEF Obtainable, i
  <2> DEFINE new == Fresh(t, c)
  <2> HIDE DEF new
  <2>2. q = [p EXCEPT !.info[t] = <<taken>>, !.block[a] = new]
    BY <1>5 DEF get_memory, taken, i, new, Fresh
  <2>3. /\ DOMAIN q = {"info", "block"} /\ q.block = [p.block EXCEPT ![a] = new]
        /\ q.info = [p.info EXCEPT ![t] = <<taken>>] /\ DOMAIN p.block = Addr
    BY <2>2 DEF Shape
  <2>4. /\ Shape(q) /\ thread_info(q, t) = taken
        /\ \A u \in Thread \ {t} : thread_info(q, u) = thread_info(p, u)
    BY <1>1, <1>2, <2>3, NewRecord
  <2>5. \A u \in Thread, d \in Cap :
          Avail(q, u)[d] = IF u = t /\ d = c THEN Avail(p, u)[d] \ {a}
                           ELSE Avail(p, u)[d]
    BY <1>1, <1>2, <1>5, <2>4 DEF Avail
  <2>6. QED
    BY <1>1, <1>5, <2>1, <2>3, <2>4, <2>5 DEF new, Got
<1>6. QED
  BY <1>4, <1>5

Returned(p, q, h, t, c, a) ==
  /\ Shape(q)
  /\ \A u \in Thread, d \in Cap :
       Avail(q, u)[d] = IF h /\ u = t /\ d = c THEN Avail(p, u)[d] \union {a}
                        ELSE Avail(p, u)[d]
  /\ \A b \in Addr : b # a => q.block[b] = p.block[b]
  /\ q.block[a] = IF h THEN p.block[a] ELSE Free

LEMMA ReturnEffect ==
  ASSUME NEW p, Shape(p), NEW a \in Addr, NEW h, NEW t \in Thread, NEW c \in Cap,
         t = ThreadOf(p, a), c = CapOf(p, a),
         NEW q, q = return_memory(p, h, a)
  PROVE  Returned(p, q, h, t, c, a)
<1> DEFINE i == thread_info(p, t)
           returned == [i EXCEPT !.root_inuse_[c] = @ \ {a},
                                 !.count_inuse_ = @ - capacity_vec[c]]
           more == [returned EXCEPT !.root_available_[c] = @ \union {a},
                                    !.count_available_ = @ + capacity_vec[c]]
<1>1. /\ DOMAIN i = {"count_inuse_", "count_available_",
                     "root_inuse_", "root_available_"}
      /\ i.root_available_ \in [Cap -> SUBSET Addr]
      /\ i.root_available_ = Avail(p, t)
  BY DEF Shape, Avail
<1>2. /\ DOMAIN returned = {"count_inuse_", "count_available_",
                            "root_inuse_", "root_available_"}
      /\ returned.root_available_ = i.root_available_
  BY <1>1
<1>3. /\ DOMAIN more = {"count_inuse_", "count_available_",
                        "root_inuse_", "root_available_"}
      /\ more.root_available_ = [i.root_available_ EXCEPT ![c] = @ \union {a}]
  BY <1>1, <1>2
<1> HIDE DEF returned, more, i
<1>4. CASE h
  <2>1. q = [p EXCEPT !.info[t] = <<more>>]
    BY <1>4 DEF return_memory, more, returned, i
  <2>2. /\ DOMAIN q = {"info", "block"} /\ q.block = p.block
        /\ q.info = [p.info EXCEPT ![t] = <<more>>] /\ DOMAIN p.block = Addr
    BY <2>1 DEF Shape
  <2>3. more.root_available_ \in [Cap -> SUBSET Addr]
    BY <1>1, <1>3
  <2>4. /\ Shape(q) /\ thread_info(q, t) = more
        /\ \A u \in Thread \ {t} : thread_info(q, u) = thread_info(p, u)
    BY <1>3, <2>2, <2>3, NewRecord
  <2>5. \A u \in Thread, d \in Cap :
          Avail(q, u)[d] = IF u = t /\ d = c THEN Avail(p, u)[d] \union {a}
                           ELSE Avail(p, u)[d]
    BY <1>1, <1>3, <2>4 DEF Avail
  <2>6. QED
    BY <1>4, <2>2, <2>4, <2>5 DEF Returned
<1>5. CASE ~h
  <2>1. q = [p EXCEPT !.info[t] = <<returned>>, !.block[a] = Free]
    BY <1>5 DEF return_memory, returned, i
  <2>2. /\ DOMAIN q = {"info", "block"} /\ q.block = [p.block EXCEPT ![a] = Free]
        /\ q.info = [p.info EXCEPT ![t] = <<returned>>] /\ DOMAIN p.block = Addr
    BY <2>1 DEF Shape
  <2>3. /\ Shape(q) /\ thread_info(q, t) = returned
        /\ \A u \in Thread \ {t} : thread_info(q, u) = thread_info(p, u)
    BY <1>1, <1>2, <2>2, NewRecord
  <2>4. \A u \in Thread : Avail(q, u) = Avail(p, u)
    BY <1>1, <1>2, <2>3 DEF Avail
  <2>5. QED
    BY <1>5, <2>2, <2>3, <2>4 DEF Returned
<1>6. QED
  BY <1>4, <1>5

LEMMA FreeAvailableEffect ==
  ASSUME NEW p, Shape(p), NEW t \in Thread, NEW q, q = free_available(p, t)
  PROVE  /\ Shape(q)
         /\ \A u \in Thread, d \in Cap :
              Avail(q, u)[d] = IF u = t THEN {} ELSE Avail(p, u)[d]
         /\ \A b \in Addr :
              q.block[b] = IF \E c \in Cap : b \in Avail(p, t)[c] THEN Free
                           ELSE p.block[b]
<1> DEFINE i == thread_info(p, t)
           none == [c \in Cap |-> {}]
           rest == [i EXCEPT !.root_available_ = none,
                             !.count_available_ = @ - Bytes(i.root_available_)]
           held == UNION {i.root_available_[c] : c \in Cap}
           new == IF i.count_inuse_ = 0 THEN NoRecord ELSE <<rest>>
<1>1. /\ DOMAIN i = {"count_inuse_", "count_available_",
                     "root_inuse_", "root_available_"}
      /\ i.root_available_ = Avail(p, t)
  BY DEF Shape, Avail
<1>2. /\ DOMAIN rest = {"count_inuse_", "count_available_",
                        "root_inuse_", "root_available_"}
      /\ rest.root_available_ = none
  BY <1>1
<1>3. /\ none \in [Cap -> SUBSET Addr] /\ \A c \in Cap : none[c] = {}
  OBVIOUS
<1>4. \A b : b \in held <=> \E c \in Cap : b \in i.root_available_[c]
  OBVIOUS
<1>5. q = [info |-> [p.info EXCEPT ![t] = new],
           block |-> [a \in Addr |-> IF a \in held THEN Free ELSE p.block[a]]]
  BY DEF free_available
<1> HIDE DEF i, none, rest, held, new
<1>6. /\ DOMAIN q = {"info", "block"} /\ DOMAIN q.block = Addr
      /\ q.info = [p.info EXCEPT ![t] = new]
      /\ \A b \in Addr : q.block[b] = IF b \in held THEN Free ELSE p.block[b]
  BY <1>5
<1>7. /\ Shape(q)
      /\ Avail(q, t) \in [Cap -> SUBSET Addr] /\ \A c \in Cap : Avail(q, t)[c] = {}
      /\ \A u \in Thread \ {t} : Avail(q, u) = Avail(p, u)
  <2>1. CASE i.count_inuse_ = 0
    <3>1. q.info = [p.info EXCEPT ![t] = NoRecord] /\ DOMAIN p.info = Thread
      BY <2>1, <1>6 DEF new, Shape
    <3>2. thread_info(q, t) = NoInfo
      BY <3>1 DEF thread_info
    <3>3. \A u \in Thread \ {t} : thread_info(q, u) = thread_info(p, u)
      BY <3>1 DEF thread_info
    <3>4. QED
      BY <1>6, <3>1, <3>2, <3>3, NoInfoShape DEF Shape, Avail
  <2>2. CASE i.count_inuse_ # 0
    <3>1. q.info = [p.info EXCEPT ![t] = <<rest>>]
      BY <2>2, <1>6 DEF new
    <3>2. /\ Shape(q) /\ thread_info(q, t) = rest
          /\ \A u \in Thread \ {t} : thread_info(q, u) = thread_info(p, u)
      BY <1>2, <1>3, <1>6, <3>1, NewRecord
    <3>3. QED
      BY <1>2, <1>3, <3>2 DEF Avail
  <2>3. QED
    BY <2>1, <2>2
<1>8. QED
  BY <1>1, <1>4, <1>6, <1>7

LEMMA FreeAllEffect ==
  ASSUME NEW p, Shape(p), NEW q, q = free_all(p)
  PROVE  /\ Shape(q)
         /\ \A u \in Thread, d \in Cap : Avail(q, u)[d] = {}
         /\ \A b \in Addr :
              q.block[b] = IF \E t \in Thread, c \in Cap : b \in Avail(p, t)[c]
                           THEN Free ELSE p.block[b]
<1> DEFINE i == [t \in Thread |-> thread_info(p, t)]
           held == UNION {i[t].root_available_[c] : t \in Thread, c \in Cap}
<1>1. \A b : b \in held <=> \E t \in Thread, c \in Cap : b \in Avail(p, t)[c]
  BY DEF Avail
<1>2. q = [info |-> [t \in Thread |-> free_available(p, t).info[t]],
           block |-> [a \in Addr |-> IF a \in held THEN Free ELSE p.block[a]]]
  BY DEF free_all
<1> HIDE DEF i, held
<1>3. /\ DOMAIN q = {"info", "block"} /\ DOMAIN q.block = Addr
      /\ DOMAIN q.info = Thread
      /\ \A t \in Thread : q.info[t] = free_available(p, t).info[t]
      /\ \A b \in Addr : q.block[b] = IF b \in held THEN Free ELSE p.block[b]
  BY <1>2
<1>4. ASSUME NEW t \in Thread
      PROVE  /\ DOMAIN thread_info(q, t) = {"count_inuse_", "count_available_",
                                            "root_inuse_", "root_available_"}
             /\ Avail(q, t) \in [Cap -> SUBSET Addr]
             /\ \A d \in Cap : Avail(q, t)[d] = {}
  <2> DEFINE r == free_available(p, t)
  <2>1. Shape(r) /\ \A d \in Cap : Avail(r, t)[d] = {}
    BY FreeAvailableEffect
  <2>2. thread_info(q, t) = thread_info(r, t)
    BY <1>3 DEF thread_info
  <2> HIDE DEF r
  <2>3. QED
    BY <2>1, <2>2 DEF Shape, Avail
<1>5. Shape(q)
  BY <1>3, <1>4 DEF Shape
<1>6. QED
  BY <1>1, <1>3, <1>4, <1>5

(* parallel_setup makes records, which changes no list. *)
LEMMA RecordsEffect ==
  ASSUME NEW p, Shape(p), NEW n, NEW q,
         q = [p EXCEPT !.info = [t \in Thread |->
                IF t < n THEN <<thread_info(p, t)>> ELSE p.info[t]]]
  PROVE  /\ Shape(q) /\ q.block = p.block
         /\ \A u \in Thread : thread_info(q, u) = thread_info(p, u)
<1>1. /\ DOMAIN q = {"info", "block"} /\ q.block = p.block
      /\ DOMAIN q.info = Thread
      /\ \A t \in Thread :
           q.info[t] = IF t < n THEN <<thread_info(p, t)>> ELSE p.info[t]
  BY DEF Shape
<1>2. ASSUME NEW t \in Thread PROVE thread_info(q, t) = thread_info(p, t)
  <2>1. <<thread_info(p, t)>> # NoRecord
        /\ <<thread_info(p, t)>>[1] = thread_info(p, t)
    BY DEF NoRecord
  <2>2. CASE t < n
    BY <1>1, <2>1, <2>2 DEF thread_info
  <2>3. CASE ~(t < n)
    BY <1>1, <2>3 DEF thread_info
  <2>4. QED
    BY <2>2, <2>3
<1>3. QED
  BY <1>1, <1>2 DEF Shape, Avail

-----------------------------------------------------------------------------
(***************************************************************************)
(* Where the functions of the pools leave the blocks.                      *)
(***************************************************************************)

(* get_memory answers a block that nobody held, bare and of its capacity.  *)
LEMMA GetLays ==
  ASSUME NEW p, NEW H, Laid(p, H), NEW t \in Thread, NEW c \in Cap,
         NEW a \in Obtainable(p, t, c), NEW q, q = get_memory(p, t, c, a)
  PROVE  /\ Laid(q, H \union {a})
         /\ a \in Addr /\ a \notin H /\ Bare(q, a) /\ CapOf(q, a) = c
         /\ \A b \in Addr : b # a => q.block[b] = p.block[b]
<1>1. /\ Shape(p) /\ Listed(p, H) /\ Kept(p, H) /\ Tracked(p, H) /\ AllSized(p)
  BY DEF Laid
<1>2. /\ Shape(q) /\ a \in Addr
      /\ \A u \in Thread, d \in Cap :
           Avail(q, u)[d] = IF u = t /\ d = c THEN Avail(p, u)[d] \ {a}
                            ELSE Avail(p, u)[d]
      /\ \A b \in Addr : b # a => q.block[b] = p.block[b]
      /\ \/ a \in Avail(p, t)[c] /\ q.block[a] = p.block[a]
         \/ /\ Avail(p, t)[c] = {} /\ p.block[a] = Free
            /\ q.block[a] = Fresh(t, c)
  <2>1. Got(p, q, t, c, a)
    BY <1>1, GetEffect
  <2>2. QED
    BY <2>1 DEF Got
<1>3. /\ a \notin H /\ q.block[a] # Free /\ q.block[a].tc_index_ = TcIndex(t, c)
      /\ Bare(q, a) /\ Sized(q, a)
  <2>1. CASE a \in Avail(p, t)[c] /\ q.block[a] = p.block[a]
    <3>1. /\ p.block[a] # Free /\ p.block[a].tc_index_ = TcIndex(t, c)
          /\ a \notin H /\ Bare(p, a)
      BY <1>1, <2>1 DEF Listed
    <3>2. Sized(p, a)
      BY <1>1, <1>2, <3>1 DEF AllSized
    <3>3. QED
      BY <2>1, <3>1, <3>2 DEF Sized, Bare, ThreadOf, CapOf
  <2>2. CASE /\ Avail(p, t)[c] = {} /\ p.block[a] = Free
             /\ q.block[a] = Fresh(t, c)
    <3> DEFINE d == [k \in 1 .. capacity_vec[c] |-> Raw]
    <3>1. d \in Data(c) /\ \A k \in DOMAIN d : d[k] = Raw
      BY DEF Data
    <3> HIDE DEF d
    <3>2. q.block[a] = [tc_index_ |-> TcIndex(t, c), data |-> d]
      BY <2>2 DEF d, Fresh
    <3>3. q.block[a] \in Block /\ q.block[a] # Free
      BY <3>1, <3>2, NewBlock
    <3>4. q.block[a].tc_index_ = TcIndex(t, c) /\ q.block[a].data = d
      BY <3>2
    <3>5. ThreadOf(q, a) = t /\ CapOf(q, a) = c
      BY <3>4, IndexSplits DEF ThreadOf, CapOf
    <3>6. a \notin H
      BY <1>1, <2>2 DEF Kept
    <3>7. QED
      BY <3>1, <3>3, <3>4, <3>5, <3>6 DEF Sized, Bare
  <2>3. QED
    BY <1>2, <2>1, <2>2
<1>4. CapOf(q, a) = c
  BY <1>3, IndexSplits DEF CapOf
<1>5. Listed(q, H \union {a})
  <2>1. SUFFICES ASSUME NEW u \in Thread, NEW d \in Cap, NEW b \in Avail(q, u)[d]
                 PROVE  /\ q.block[b] # Free /\ q.block[b].tc_index_ = TcIndex(u, d)
                        /\ b \notin H \union {a} /\ Bare(q, b)
    BY DEF Listed
  <2>2. b \in Avail(p, u)[d] /\ b \in Addr
    <3>1. Avail(q, u)[d] \subseteq Avail(p, u)[d]
      BY <1>2
    <3>2. Avail(p, u)[d] \subseteq Addr
      BY <1>1 DEF Shape
    <3>3. QED
      BY <3>1, <3>2
  <2>3. /\ p.block[b] # Free /\ p.block[b].tc_index_ = TcIndex(u, d)
        /\ b \notin H /\ Bare(p, b)
    BY <1>1, <2>2 DEF Listed
  <2>4. b # a
    <3>1. SUFFICES ASSUME b = a PROVE FALSE
      OBVIOUS
    <3>2. q.block[a] = p.block[a]
      BY <1>2, <2>3, <3>1
    <3>3. TcIndex(u, d) = TcIndex(t, c)
      BY <1>3, <2>3, <3>1, <3>2
    <3>4. u = t /\ d = c
      BY <3>3, IndexSplits
    <3>5. QED
      BY <1>2, <3>1, <3>4
  <2>5. q.block[b] = p.block[b]
    BY <1>2, <2>2, <2>4
  <2>6. QED
    BY <2>3, <2>4, <2>5 DEF Bare
<1>6. Kept(q, H \union {a})
  BY <1>1, <1>2, <1>3 DEF Kept
<1>7. Tracked(q, H \union {a})
  <2>1. SUFFICES ASSUME NEW b \in Addr, q.block[b] # Free, b \notin H, b # a
                 PROVE  \E u \in Thread, d \in Cap : b \in Avail(q, u)[d]
    BY DEF Tracked
  <2>2. p.block[b] # Free
    BY <1>2, <2>1
  <2>3. PICK u \in Thread, d \in Cap : b \in Avail(p, u)[d]
    BY <1>1, <2>1, <2>2 DEF Tracked
  <2>4. b \in Avail(q, u)[d]
    BY <1>2, <2>1, <2>3
  <2>5. QED
    BY <2>4
<1>8. AllSized(q)
  BY <1>1, <1>2, <1>3 DEF AllSized, Sized, ThreadOf, CapOf
<1>9. QED
  BY <1>2, <1>3, <1>4, <1>5, <1>6, <1>7, <1>8 DEF Laid

(* return_memory makes a bare block that was held available, or frees it.  *)
LEMMA ReturnLays ==
  ASSUME NEW p, NEW H, Laid(p, H), NEW a \in H, Bare(p, a), NEW h,
         NEW q, q = return_memory(p, h, a)
  PROVE  /\ Laid(q, H \ {a})
         /\ \A b \in Addr : b # a => q.block[b] = p.block[b]
<1> DEFINE t == ThreadOf(p, a)
           c == CapOf(p, a)
<1>1. /\ Shape(p) /\ Listed(p, H) /\ Kept(p, H) /\ Tracked(p, H) /\ AllSized(p)
  BY DEF Laid
<1>2. a \in Addr /\ p.block[a] # Free /\ Sized(p, a)
  BY <1>1 DEF Kept, AllSized
<1>3. t \in Thread /\ c \in Cap
  BY <1>2 DEF Sized
<1>4. /\ Shape(q)
      /\ \A u \in Thread, d \in Cap :
           Avail(q, u)[d] = IF h /\ u = t /\ d = c THEN Avail(p, u)[d] \union {a}
                            ELSE Avail(p, u)[d]
      /\ \A b \in Addr : b # a => q.block[b] = p.block[b]
      /\ q.block[a] = IF h THEN p.block[a] ELSE Free
  <2>1. Returned(p, q, h, t, c, a)
    BY <1>1, <1>2, <1>3, ReturnEffect
  <2>2. QED
    BY <2>1 DEF Returned
<1>5. p.block[a].tc_index_ = TcIndex(t, c)
  <2>1. p.block[a].tc_index_ \in Nat /\ num_cap \in Nat \ {0}
    BY <1>2, ThreadCapAssumption DEF Sized, Block
  <2> DEFINE i == p.block[a].tc_index_
             n == num_cap
  <2> HIDE DEF i, n
  <2>2. i \div n \in Nat /\ i % n \in 0 .. n - 1 /\ i = n * (i \div n) + (i % n)
    BY <2>1, Division DEF i, n
  <2>3. t = i \div n /\ c = i % n
    BY DEF ThreadOf, CapOf, i, n
  <2>4. n * (i \div n) = (i \div n) * n
    BY <2>1, <2>2 DEF n
  <2>5. QED
    BY <2>2, <2>3, <2>4 DEF TcIndex, i, n
<1> HIDE DEF t, c
<1>6. Listed(q, H \ {a})
  <2>1. SUFFICES ASSUME NEW u \in Thread, NEW d \in Cap, NEW b \in Avail(q, u)[d]
                 PROVE  /\ q.block[b] # Free /\ q.block[b].tc_index_ = TcIndex(u, d)
                        /\ b \notin H \ {a} /\ Bare(q, b)
    BY DEF Listed
  <2>2. CASE b \in Avail(p, u)[d]
    <3>1. /\ p.block[b] # Free /\ p.block[b].tc_index_ = TcIndex(u, d)
          /\ b \notin H /\ Bare(p, b)
      BY <1>1, <2>2 DEF Listed
    <3>2. b # a
      BY <3>1
    <3>3. b \in Addr
      BY <1>1, <2>2 DEF Shape
    <3>4. q.block[b] = p.block[b]
      BY <1>4, <3>2, <3>3
    <3>5. QED
      BY <3>1, <3>4 DEF Bare
  <2>3. CASE b \notin Avail(p, u)[d]
    <3>1. h /\ u = t /\ d = c /\ b = a
      BY <1>4, <2>3
    <3>2. q.block[b] = p.block[b]
      BY <1>4, <3>1
    <3>3. QED
      BY <1>2, <1>5, <3>1, <3>2 DEF Bare
  <2>4. QED
    BY <2>2, <2>3
<1>7. Kept(q, H \ {a})
  BY <1>1, <1>4 DEF Kept
<1>8. Tracked(q, H \ {a})
  <2>1. SUFFICES ASSUME NEW b \in Addr, q.block[b] # Free, b \notin H \ {a}
                 PROVE  \E u \in Thread, d \in Cap : b \in Avail(q, u)[d]
    BY DEF Tracked
  <2>2. CASE b = a
    <3>1. h
      BY <1>4, <2>1, <2>2
    <3>2. a \in Avail(q, t)[c]
      BY <1>3, <1>4, <3>1
    <3>3. QED
      BY <1>3, <2>2, <3>2
  <2>3. CASE b # a
    <3>1. p.block[b] # Free /\ b \notin H
      BY <1>4, <2>1, <2>3
    <3>2. PICK u \in Thread, d \in Cap : b \in Avail(p, u)[d]
      BY <1>1, <3>1 DEF Tracked
    <3>3. b \in Avail(q, u)[d]
      BY <1>4, <3>2
    <3>4. QED
      BY <3>3
  <2>4. QED
    BY <2>2, <2>3
<1>9. AllSized(q)
  BY <1>1, <1>4 DEF AllSized, Sized, ThreadOf, CapOf
<1>10. QED
  BY <1>4, <1>6, <1>7, <1>8, <1>9 DEF Laid

(* Lists can be emptied, of one thread or of all, if their blocks go too.  *)
Emptied(p, q, T) ==
  /\ Shape(q)
  /\ \A u \in Thread, d \in Cap :
       Avail(q, u)[d] = IF u \in T THEN {} ELSE Avail(p, u)[d]
  /\ \A b \in Addr :
       q.block[b] = IF \E t \in T, c \in Cap : b \in Avail(p, t)[c] THEN Free
                    ELSE p.block[b]

LEMMA EmptiedLays ==
  ASSUME NEW p, NEW H, Laid(p, H), NEW T \in SUBSET Thread, NEW q, Emptied(p, q, T)
  PROVE  Laid(q, H) /\ \A b \in H : q.block[b] = p.block[b]
<1>1. /\ Shape(p) /\ Listed(p, H) /\ Kept(p, H) /\ Tracked(p, H) /\ AllSized(p)
  BY DEF Laid
<1>2. Shape(q)
  BY DEF Emptied
<1>3. ASSUME NEW b \in H PROVE q.block[b] = p.block[b] /\ b \in Addr
  <2>1. b \in Addr /\ ~ \E t \in Thread, c \in Cap : b \in Avail(p, t)[c]
    BY <1>1 DEF Kept, Listed
  <2>2. QED
    BY <2>1 DEF Emptied
<1>4. Listed(q, H)
  <2>1. SUFFICES ASSUME NEW u \in Thread, NEW d \in Cap, NEW b \in Avail(q, u)[d]
                 PROVE  /\ q.block[b] # Free /\ q.block[b].tc_index_ = TcIndex(u, d)
                        /\ b \notin H /\ Bare(q, b)
    BY DEF Listed
  <2>2. u \notin T /\ b \in Avail(p, u)[d]
    BY DEF Emptied
  <2>3. /\ p.block[b] # Free /\ p.block[b].tc_index_ = TcIndex(u, d)
        /\ b \notin H /\ Bare(p, b)
    BY <1>1, <2>2 DEF Listed
  <2>4. b \in Addr
    BY <1>1, <2>2 DEF Shape
  <2>5. ~ \E t \in T, c \in Cap : b \in Avail(p, t)[c]
    <3>1. SUFFICES ASSUME NEW t \in T, NEW c \in Cap, b \in Avail(p, t)[c]
                   PROVE  FALSE
      OBVIOUS
    <3>2. p.block[b].tc_index_ = TcIndex(t, c)
      BY <1>1, <3>1 DEF Listed
    <3>3. t \in Thread /\ TcIndex(t, c) = TcIndex(u, d)
      BY <2>3, <3>2
    <3>4. t = u
      BY <3>3, IndexSplits
    <3>5. QED
      BY <2>2, <3>4
  <2>6. q.block[b] = p.block[b]
    BY <2>4, <2>5 DEF Emptied
  <2>7. QED
    BY <2>3, <2>6 DEF Bare
<1>5. Kept(q, H)
  BY <1>1, <1>3 DEF Kept
<1>6. Tracked(q, H)
  <2>1. SUFFICES ASSUME NEW b \in Addr, q.block[b] # Free, b \notin H
                 PROVE  \E u \in Thread, d \in Cap : b \in Avail(q, u)[d]
    BY DEF Tracked
  <2>2. p.block[b] # Free /\ ~ \E t \in T, c \in Cap : b \in Avail(p, t)[c]
    BY <2>1 DEF Emptied
  <2>3. PICK u \in Thread, d \in Cap : b \in Avail(p, u)[d]
    BY <1>1, <2>1, <2>2 DEF Tracked
  <2>4. u \notin T
    BY <2>2, <2>3
  <2>5. b \in Avail(q, u)[d]
    BY <2>3, <2>4 DEF Emptied
  <2>6. QED
    BY <2>5
<1>7. AllSized(q)
  <2>1. SUFFICES ASSUME NEW b \in Addr, q.block[b] # Free PROVE Sized(q, b)
    BY DEF AllSized
  <2>2. q.block[b] = p.block[b]
    BY <2>1 DEF Emptied
  <2>3. QED
    BY <1>1, <2>1, <2>2 DEF AllSized, Sized, ThreadOf, CapOf
<1>8. QED
  BY <1>2, <1>3, <1>4, <1>5, <1>6, <1>7 DEF Laid

LEMMA FreeAvailableLays ==
  ASSUME NEW p, NEW H, Laid(p, H), NEW t \in Thread, NEW q, q = free_available(p, t)
  PROVE  Laid(q, H) /\ \A b \in H : q.block[b] = p.block[b]
<1>1. Shape(p)
  BY DEF Laid
<1>2. Emptied(p, q, {t})
  BY <1>1, FreeAvailableEffect DEF Emptied
<1>3. QED
  BY <1>2, EmptiedLays

LEMMA FreeAllLays ==
  ASSUME NEW p, NEW H, Laid(p, H), NEW q, q = free_all(p)
  PROVE  Laid(q, H) /\ \A b \in H : q.block[b] = p.block[b]
<1>1. Shape(p)
  BY DEF Laid
<1>2. Emptied(p, q, Thread)
  BY <1>1, FreeAllEffect DEF Emptied
<1>3. QED
  BY <1>2, EmptiedLays

(* The contents of a block that is held can change.                        *)
WithData(p, a, d) == [p EXCEPT !.block[a].data = d]

LEMMA DataLays ==
  ASSUME NEW p, NEW H, Laid(p, H), NEW a \in H, NEW d \in Data(CapOf(p, a)),
         NEW q, q = WithData(p, a, d)
  PROVE  /\ Laid(q, H)
         /\ q.block[a].data = d /\ CapOf(q, a) = CapOf(p, a)
         /\ \A b \in Addr : b # a => q.block[b] = p.block[b]
<1>1. /\ Shape(p) /\ Listed(p, H) /\ Kept(p, H) /\ Tracked(p, H) /\ AllSized(p)
  BY DEF Laid
<1>2. a \in Addr /\ p.block[a] # Free /\ Sized(p, a)
  BY <1>1 DEF Kept, AllSized
<1>3. /\ DOMAIN q = {"info", "block"} /\ q.info = p.info
      /\ q.block = [p.block EXCEPT ![a].data = d]
      /\ DOMAIN p.block = Addr
  BY <1>1 DEF Shape, WithData
<1>4. q.block[a] = [p.block[a] EXCEPT !.data = d]
  BY <1>2, <1>3
<1>5. /\ q.block[a].data = d
      /\ q.block[a].tc_index_ = p.block[a].tc_index_
      /\ q.block[a] = [tc_index_ |-> p.block[a].tc_index_, data |-> d]
  BY <1>2, <1>4 DEF Sized, Block
<1>6. CapOf(q, a) = CapOf(p, a) /\ ThreadOf(q, a) = ThreadOf(p, a)
  BY <1>5 DEF CapOf, ThreadOf
<1>7. q.block[a] \in Block /\ q.block[a] # Free
  <2>1. d \in UNION {[1 .. capacity_vec[c] -> Elem \union {Raw}] : c \in Cap}
    BY <1>2 DEF Data, Sized
  <2>2. QED
    BY <1>2, <1>5, <2>1, FreeAssumption DEF Block, Sized
<1>8. \A b \in Addr : b # a => q.block[b] = p.block[b]
  BY <1>3
<1>9. \A u \in Thread : thread_info(q, u) = thread_info(p, u)
  BY <1>3 DEF thread_info
<1>10. Shape(q)
  BY <1>1, <1>3, <1>9 DEF Shape, Avail
<1>11. Listed(q, H)
  <2>1. SUFFICES ASSUME NEW u \in Thread, NEW c \in Cap, NEW b \in Avail(q, u)[c]
                 PROVE  /\ q.block[b] # Free /\ q.block[b].tc_index_ = TcIndex(u, c)
                        /\ b \notin H /\ Bare(q, b)
    BY DEF Listed
  <2>2. b \in Avail(p, u)[c]
    BY <1>9 DEF Avail
  <2>3. /\ p.block[b] # Free /\ p.block[b].tc_index_ = TcIndex(u, c)
        /\ b \notin H /\ Bare(p, b)
    BY <1>1, <2>2 DEF Listed
  <2>4. b \in Addr
    BY <1>1, <2>2 DEF Shape
  <2>5. q.block[b] = p.block[b]
    BY <1>8, <2>3, <2>4
  <2>6. QED
    BY <2>3, <2>5 DEF Bare
<1>12. Kept(q, H)
  BY <1>1, <1>7, <1>8 DEF Kept
<1>13. Tracked(q, H)
  BY <1>1, <1>2, <1>8, <1>9 DEF Tracked, Avail
<1>14. AllSized(q)
  <2>1. Sized(q, a)
    BY <1>2, <1>5, <1>6, <1>7 DEF Sized
  <2>2. QED
    BY <1>1, <1>8, <2>1 DEF AllSized, Sized, ThreadOf, CapOf
<1>15. QED
  BY <1>5, <1>6, <1>8, <1>10, <1>11, <1>12, <1>13, <1>14 DEF Laid

-----------------------------------------------------------------------------
(***************************************************************************)
(* The counts.                                                             *)
(***************************************************************************)

InUse(p, t) == thread_info(p, t).root_inuse_
Used(p, t) == thread_info(p, t).count_inuse_
Spare(p, t) == thread_info(p, t).count_available_

(* The blocks of a thread that are held. *)
Of(p, H, t) == {a \in H : ThreadOf(p, a) = t}

(* The lists and counts of a thread, if S are its blocks in use.           *)
Exact(p, S, t) ==
  /\ InUse(p, t) \in [Cap -> SUBSET Addr]
  /\ \A c \in Cap : InUse(p, t)[c] = {a \in S : CapOf(p, a) = c}
  /\ Used(p, t) = Total(p, S)
  /\ \A c \in Cap : IsFiniteSet(Avail(p, t)[c])
  /\ Spare(p, t) = Total(p, UnionOf(Avail(p, t), Cap))
  /\ p.info[t] = NoRecord \/ p.info[t] = <<thread_info(p, t)>>

Counted(p, H) == IsFiniteSet(H) /\ \A t \in Thread : Exact(p, Of(p, H, t), t)

PoolOK(p, H) == Laid(p, H) /\ Counted(p, H)

(* Blocks and their sizes. *)
Blocks(p, S) == IsFiniteSet(S) /\ S \subseteq Addr /\ \A a \in S : p.block[a] # Free

LEMMA SizesOK ==
  ASSUME NEW p, NEW H, Laid(p, H), NEW S, Blocks(p, S)
  PROVE  /\ Numbers(SizeOf(p), S)
         /\ \A a \in S : /\ CapOf(p, a) \in Cap
                         /\ SizeOf(p)[a] = capacity_vec[CapOf(p, a)]
                         /\ SizeOf(p)[a] \in Nat \ {0}
<1>1. \A a \in S : /\ CapOf(p, a) \in Cap
                   /\ SizeOf(p)[a] = capacity_vec[CapOf(p, a)]
                   /\ SizeOf(p)[a] \in Nat \ {0}
  BY ThreadCapAssumption DEF SizeOf, Laid, AllSized, Sized, Blocks
<1>2. QED
  BY <1>1 DEF Numbers, Blocks

(* What is available is in blocks of the thread, sorted by capacity.       *)
LEMMA AvailSorted ==
  ASSUME NEW p, NEW H, Laid(p, H), NEW t \in Thread,
         \A c \in Cap : IsFiniteSet(Avail(p, t)[c])
  PROVE  /\ Sorted(SizeOf(p), Avail(p, t))
         /\ Blocks(p, UnionOf(Avail(p, t), Cap))
         /\ \A c \in Cap : \A a \in Avail(p, t)[c] :
              a \in Addr /\ ThreadOf(p, a) = t /\ CapOf(p, a) = c /\ a \notin H
<1>1. Avail(p, t) \in [Cap -> SUBSET Addr]
  BY DEF Laid, Shape
<1>2. ASSUME NEW c \in Cap, NEW a \in Avail(p, t)[c]
      PROVE  /\ a \in Addr /\ ThreadOf(p, a) = t /\ CapOf(p, a) = c /\ a \notin H
             /\ p.block[a] # Free
             /\ SizeOf(p)[a] = capacity_vec[c]
  <2>1. p.block[a] # Free /\ p.block[a].tc_index_ = TcIndex(t, c) /\ a \notin H
    BY DEF Laid, Listed
  <2>2. ThreadOf(p, a) = t /\ CapOf(p, a) = c /\ a \in Addr
    BY <1>1, <2>1, IndexSplits DEF ThreadOf, CapOf
  <2>3. QED
    BY <2>1, <2>2 DEF SizeOf
<1>3. Sorted(SizeOf(p), Avail(p, t))
  <2>1. \A c, d \in Cap : c # d => Avail(p, t)[c] \cap Avail(p, t)[d] = {}
    BY <1>2
  <2>2. QED
    BY <1>1, <1>2, <2>1 DEF Sorted
<1>4. IsFiniteSet(UnionOf(Avail(p, t), Cap))
  BY <1>3, BytesAreSizes DEF Numbers
<1>5. \A a \in UnionOf(Avail(p, t), Cap) : a \in Addr /\ p.block[a] # Free
  BY <1>2 DEF UnionOf
<1>6. QED
  BY <1>2, <1>3, <1>4, <1>5 DEF Blocks

LEMMA HeldBlocks ==
  ASSUME NEW p, NEW H, PoolOK(p, H), NEW t
  PROVE  Blocks(p, Of(p, H, t)) /\ Blocks(p, H)
<1>1. Blocks(p, H)
  BY DEF PoolOK, Laid, Kept, Counted, Blocks
<1>2. Of(p, H, t) \in SUBSET H
  BY DEF Of
<1>3. IsFiniteSet(Of(p, H, t))
  BY <1>1, <1>2, FS_Subset DEF Blocks
<1>4. QED
  BY <1>1, <1>2, <1>3 DEF Blocks

(* Sizes stay as long as the indices do.                                   *)
SameIndex(p, q, S) == \A a \in S : q.block[a].tc_index_ = p.block[a].tc_index_

LEMMA TotalSame ==
  ASSUME NEW p, NEW H, Laid(p, H), NEW S, Blocks(p, S), NEW q, SameIndex(p, q, S)
  PROVE  /\ Numbers(SizeOf(q), S) /\ Total(q, S) = Total(p, S)
         /\ \A a \in S : CapOf(q, a) = CapOf(p, a) /\ ThreadOf(q, a) = ThreadOf(p, a)
<1>1. \A a \in S : CapOf(q, a) = CapOf(p, a) /\ ThreadOf(q, a) = ThreadOf(p, a)
  BY DEF SameIndex, CapOf, ThreadOf
<1>2. \A a \in S : SizeOf(q)[a] = SizeOf(p)[a]
  BY <1>1 DEF SizeOf, Blocks
<1>3. Numbers(SizeOf(p), S)
  BY SizesOK
<1>4. Numbers(SizeOf(q), S) /\ SumOf(SizeOf(q), S) = SumOf(SizeOf(p), S)
  BY <1>2, <1>3, SumSame
<1>5. QED
  BY <1>1, <1>4 DEF Total

(* A thread whose record stays, or becomes explicit.                       *)
Unmoved(p, q, t) ==
  /\ thread_info(q, t) = thread_info(p, t)
  /\ q.info[t] = p.info[t] \/ q.info[t] = <<thread_info(p, t)>>

LEMMA ExactKept ==
  ASSUME NEW p, NEW H, Laid(p, H), NEW S, Blocks(p, S), NEW t \in Thread, Exact(p, S, t),
         NEW q, Unmoved(p, q, t), SameIndex(p, q, S),
         SameIndex(p, q, UnionOf(Avail(p, t), Cap))
  PROVE  Exact(q, S, t)
<1>1. /\ InUse(q, t) = InUse(p, t) /\ Used(q, t) = Used(p, t)
      /\ Spare(q, t) = Spare(p, t) /\ Avail(q, t) = Avail(p, t)
  BY DEF Unmoved, InUse, Used, Spare, Avail
<1>2. Total(q, S) = Total(p, S) /\ \A a \in S : CapOf(q, a) = CapOf(p, a)
  BY TotalSame
<1>3. Blocks(p, UnionOf(Avail(p, t), Cap))
  BY AvailSorted DEF Exact
<1>4. Total(q, UnionOf(Avail(p, t), Cap)) = Total(p, UnionOf(Avail(p, t), Cap))
  BY <1>3, TotalSame
<1>5. q.info[t] = NoRecord \/ q.info[t] = <<thread_info(q, t)>>
  BY DEF Exact, Unmoved
<1>6. \A c \in Cap : InUse(q, t)[c] = {a \in S : CapOf(q, a) = c}
  BY <1>1, <1>2 DEF Exact
<1>7. QED
  BY <1>1, <1>2, <1>4, <1>5, <1>6 DEF Exact

-----------------------------------------------------------------------------
(* What get_memory and return_memory do to the record of a thread.         *)
GotCounts(p, q, t, c, a) ==
  /\ \A u \in Thread \ {t} : Unmoved(p, q, u)
  /\ q.info[t] = <<thread_info(q, t)>>
  /\ InUse(q, t) = [InUse(p, t) EXCEPT ![c] = @ \union {a}]
  /\ Used(q, t) = Used(p, t) + capacity_vec[c]
  /\ Spare(q, t) = IF Avail(p, t)[c] # {} THEN Spare(p, t) - capacity_vec[c]
                   ELSE Spare(p, t)

Fields == {"count_inuse_", "count_available_", "root_inuse_", "root_available_"}

(* A pool with a new record of one thread. *)
NewInfo(p, q, t, i) ==
  q.info[t] = <<i>> /\ \A u \in Thread \ {t} : q.info[u] = p.info[u]

Recorded(p, q, t, i) ==
  /\ thread_info(q, t) = i /\ q.info[t] = <<i>>
  /\ \A u \in Thread \ {t} : Unmoved(p, q, u)

LEMMA RecordIs ==
  ASSUME NEW p, NEW t \in Thread, NEW i, NEW q, NewInfo(p, q, t, i)
  PROVE  Recorded(p, q, t, i)
<1>1. <<i>> # NoRecord /\ <<i>>[1] = i
  BY DEF NoRecord
<1>2. q.info[t] = <<i>> /\ thread_info(q, t) = i
  BY <1>1 DEF thread_info, NewInfo
<1>3. \A u \in Thread \ {t} : q.info[u] = p.info[u]
  BY DEF NewInfo
<1>4. \A u \in Thread \ {t} : thread_info(q, u) = thread_info(p, u)
  BY <1>3 DEF thread_info
<1>5. QED
  BY <1>2, <1>3, <1>4 DEF Unmoved, Recorded

LEMMA GetCounts ==
  ASSUME NEW p, Shape(p), NEW t \in Thread, NEW c \in Cap, NEW a,
         NEW q, q = get_memory(p, t, c, a)
  PROVE  GotCounts(p, q, t, c, a)
<1> DEFINE i == thread_info(p, t)
           taken == [i EXCEPT !.root_inuse_[c] = @ \union {a},
                              !.count_inuse_ = @ + capacity_vec[c]]
           less == [taken EXCEPT !.root_available_[c] = @ \ {a},
                                 !.count_available_ = @ - capacity_vec[c]]
<1>1. /\ DOMAIN i = Fields /\ i.root_available_ = Avail(p, t)
      /\ i.root_inuse_ = InUse(p, t) /\ i.count_inuse_ = Used(p, t)
      /\ i.count_available_ = Spare(p, t)
      /\ DOMAIN p = {"info", "block"} /\ DOMAIN p.info = Thread
  BY DEF Shape, Avail, InUse, Used, Spare, Fields
<1>2. /\ DOMAIN taken = Fields /\ taken.count_available_ = Spare(p, t)
      /\ taken.root_inuse_ = [InUse(p, t) EXCEPT ![c] = @ \union {a}]
      /\ taken.count_inuse_ = Used(p, t) + capacity_vec[c]
  BY <1>1 DEF Fields
<1>3. /\ less.root_inuse_ = [InUse(p, t) EXCEPT ![c] = @ \union {a}]
      /\ less.count_inuse_ = Used(p, t) + capacity_vec[c]
      /\ less.count_available_ = Spare(p, t) - capacity_vec[c]
  BY <1>2 DEF Fields
<1> HIDE DEF taken, less, i
<1>4. CASE Avail(p, t)[c] # {}
  <2>1. q = [p EXCEPT !.info[t] = <<less>>]
    BY <1>1, <1>4 DEF get_memory, less, taken, i
  <2>2. NewInfo(p, q, t, less)
    BY <1>1, <2>1 DEF NewInfo
  <2>3. Recorded(p, q, t, less)
    BY <2>2, RecordIs
  <2>4. QED
    BY <1>3, <1>4, <2>3 DEF GotCounts, Recorded, InUse, Used, Spare
<1>5. CASE Avail(p, t)[c] = {}
  <2> DEFINE new == [tc_index_ |-> TcIndex(t, c),
                     data |-> [k \in 1 .. capacity_vec[c] |-> Raw]]
  <2> HIDE DEF new
  <2>1. q = [p EXCEPT !.info[t] = <<taken>>, !.block[a] = new]
    BY <1>1, <1>5 DEF get_memory, taken, i, new
  <2>2. NewInfo(p, q, t, taken)
    BY <1>1, <2>1 DEF NewInfo
  <2>3. Recorded(p, q, t, taken)
    BY <2>2, RecordIs
  <2>4. QED
    BY <1>2, <1>5, <2>3 DEF GotCounts, Recorded, InUse, Used, Spare
<1>6. QED
  BY <1>4, <1>5

ReturnedCounts(p, q, h, t, c, a) ==
  /\ \A u \in Thread \ {t} : Unmoved(p, q, u)
  /\ q.info[t] = <<thread_info(q, t)>>
  /\ InUse(q, t) = [InUse(p, t) EXCEPT ![c] = @ \ {a}]
  /\ Used(q, t) = Used(p, t) - capacity_vec[c]
  /\ Spare(q, t) = IF h THEN Spare(p, t) + capacity_vec[c] ELSE Spare(p, t)

LEMMA ReturnCounts ==
  ASSUME NEW p, Shape(p), NEW a, NEW h, NEW t \in Thread, NEW c \in Cap,
         t = ThreadOf(p, a), c = CapOf(p, a),
         NEW q, q = return_memory(p, h, a)
  PROVE  ReturnedCounts(p, q, h, t, c, a)
<1> DEFINE i == thread_info(p, t)
           returned == [i EXCEPT !.root_inuse_[c] = @ \ {a},
                                 !.count_inuse_ = @ - capacity_vec[c]]
           more == [returned EXCEPT !.root_available_[c] = @ \union {a},
                                    !.count_available_ = @ + capacity_vec[c]]
<1>1. /\ DOMAIN i = Fields
      /\ i.root_inuse_ = InUse(p, t) /\ i.count_inuse_ = Used(p, t)
      /\ i.count_available_ = Spare(p, t)
      /\ DOMAIN p = {"info", "block"} /\ DOMAIN p.info = Thread
  BY DEF Shape, InUse, Used, Spare, Fields
<1>2. /\ DOMAIN returned = Fields /\ returned.count_available_ = Spare(p, t)
      /\ returned.root_inuse_ = [InUse(p, t) EXCEPT ![c] = @ \ {a}]
      /\ returned.count_inuse_ = Used(p, t) - capacity_vec[c]
  BY <1>1 DEF Fields
<1>3. /\ more.root_inuse_ = [InUse(p, t) EXCEPT ![c] = @ \ {a}]
      /\ more.count_inuse_ = Used(p, t) - capacity_vec[c]
      /\ more.count_available_ = Spare(p, t) + capacity_vec[c]
  BY <1>2 DEF Fields
<1> HIDE DEF returned, more, i
<1>4. CASE h
  <2>1. q = [p EXCEPT !.info[t] = <<more>>]
    BY <1>4 DEF return_memory, more, returned, i
  <2>2. NewInfo(p, q, t, more)
    BY <1>1, <2>1 DEF NewInfo
  <2>3. Recorded(p, q, t, more)
    BY <2>2, RecordIs
  <2>4. QED
    BY <1>3, <1>4, <2>3 DEF ReturnedCounts, Recorded, InUse, Used, Spare
<1>5. CASE ~h
  <2>1. q = [p EXCEPT !.info[t] = <<returned>>, !.block[a] = Free]
    BY <1>5 DEF return_memory, returned, i
  <2>2. NewInfo(p, q, t, returned)
    BY <1>1, <2>1 DEF NewInfo
  <2>3. Recorded(p, q, t, returned)
    BY <2>2, RecordIs
  <2>4. QED
    BY <1>2, <1>5, <2>3 DEF ReturnedCounts, Recorded, InUse, Used, Spare
<1>6. QED
  BY <1>4, <1>5

FreedCounts(p, q, t) ==
  /\ q.info[t] = NoRecord \/ q.info[t] = <<thread_info(q, t)>>
  /\ Used(p, t) = 0 => /\ Used(q, t) = 0 /\ Spare(q, t) = 0
                       /\ InUse(q, t) = [c \in Cap |-> {}]
  /\ Used(p, t) # 0 => /\ Used(q, t) = Used(p, t) /\ InUse(q, t) = InUse(p, t)
                       /\ Spare(q, t) = Spare(p, t) - Bytes(Avail(p, t))

LEMMA FreeAvailableCounts ==
  ASSUME NEW p, Shape(p), NEW t \in Thread, NEW q, q = free_available(p, t)
  PROVE  FreedCounts(p, q, t) /\ \A u \in Thread \ {t} : Unmoved(p, q, u)
<1> DEFINE i == thread_info(p, t)
           none == [c \in Cap |-> {}]
           rest == [i EXCEPT !.root_available_ = none,
                             !.count_available_ = @ - Bytes(i.root_available_)]
           new == IF i.count_inuse_ = 0 THEN NoRecord ELSE <<rest>>
<1>1. /\ DOMAIN i = Fields /\ i.root_available_ = Avail(p, t)
      /\ i.root_inuse_ = InUse(p, t) /\ i.count_inuse_ = Used(p, t)
      /\ i.count_available_ = Spare(p, t)
      /\ DOMAIN p.info = Thread
  BY DEF Shape, Avail, InUse, Used, Spare, Fields
<1>2. /\ rest.root_inuse_ = InUse(p, t) /\ rest.count_inuse_ = Used(p, t)
      /\ rest.count_available_ = Spare(p, t) - Bytes(Avail(p, t))
  BY <1>1 DEF Fields
<1>3. q.info = [p.info EXCEPT ![t] = new]
  BY DEF free_available
<1> HIDE DEF i, rest
<1>4. CASE Used(p, t) = 0
  <2>1. q.info[t] = NoRecord /\ \A u \in Thread \ {t} : q.info[u] = p.info[u]
    BY <1>1, <1>3, <1>4
  <2>2. thread_info(q, t) = NoInfo
    BY <2>1 DEF thread_info
  <2>3. \A u \in Thread \ {t} : Unmoved(p, q, u)
    BY <2>1 DEF thread_info, Unmoved
  <2>4. QED
    BY <1>4, <2>1, <2>2, <2>3 DEF FreedCounts, Recorded, Used, Spare, InUse, NoInfo
<1>5. CASE Used(p, t) # 0
  <2>1. NewInfo(p, q, t, rest)
    BY <1>1, <1>3, <1>5 DEF NewInfo
  <2>2. Recorded(p, q, t, rest)
    BY <2>1, RecordIs
  <2>3. QED
    BY <1>2, <1>5, <2>2 DEF FreedCounts, Recorded, Used, Spare, InUse
<1>6. QED
  BY <1>4, <1>5

LEMMA FreeAllCounts ==
  ASSUME NEW p, Shape(p), NEW q, q = free_all(p), NEW t \in Thread
  PROVE  FreedCounts(p, q, t)
<1> DEFINE r == free_available(p, t)
<1>1. FreedCounts(p, r, t)
  BY FreeAvailableCounts
<1>2. q.info[t] = r.info[t]
  BY DEF free_all
<1> HIDE DEF r
<1>3. thread_info(q, t) = thread_info(r, t)
  BY <1>2 DEF thread_info
<1>4. QED
  BY <1>1, <1>2, <1>3 DEF FreedCounts, Recorded, Used, Spare, InUse

(* A block more, or less. *)
LEMMA TotalPlus ==
  ASSUME NEW p, NEW H, Laid(p, H), NEW S, Blocks(p, S), NEW q, SameIndex(p, q, S),
         NEW a \in Addr, a \notin S, CapOf(q, a) \in Cap
  PROVE  Total(q, S \union {a}) = Total(p, S) + capacity_vec[CapOf(q, a)]
<1>1. Numbers(SizeOf(q), S) /\ Total(q, S) = Total(p, S)
  BY TotalSame
<1>2. SizeOf(q)[a] = capacity_vec[CapOf(q, a)] /\ SizeOf(q)[a] \in Int
  BY ThreadCapAssumption DEF SizeOf
<1>3. SumOf(SizeOf(q), S \union {a}) = SumOf(SizeOf(q), S) + SizeOf(q)[a]
  BY <1>1, <1>2, SumInsert
<1>4. QED
  BY <1>1, <1>2, <1>3 DEF Total

LEMMA TotalMinus ==
  ASSUME NEW p, NEW H, Laid(p, H), NEW S, Blocks(p, S), NEW a \in S,
         NEW q, SameIndex(p, q, S \ {a})
  PROVE  Total(q, S \ {a}) = Total(p, S) - capacity_vec[CapOf(p, a)]
<1> DEFINE R == S \ {a}
<1>1. /\ Numbers(SizeOf(p), S)
      /\ SizeOf(p)[a] = capacity_vec[CapOf(p, a)] /\ SizeOf(p)[a] \in Int
  BY SizesOK
<1>2. SumOf(SizeOf(p), S) = SizeOf(p)[a] + SumOf(SizeOf(p), R)
  BY <1>1, SumRemove
<1>3. Numbers(SizeOf(p), R) /\ Blocks(p, R)
  BY <1>1, FewerNumbers DEF Numbers, Blocks
<1> HIDE DEF R
<1>4. SumOf(SizeOf(p), R) \in Int
  BY <1>3, SumType
<1>5. SameIndex(p, q, R)
  BY DEF R
<1>6. Total(q, R) = Total(p, R)
  BY <1>3, <1>5, TotalSame
<1>7. Total(p, R) = Total(p, S) - capacity_vec[CapOf(p, a)]
  BY <1>1, <1>2, <1>4 DEF Total
<1>8. QED
  BY <1>6, <1>7 DEF R

-----------------------------------------------------------------------------
(***************************************************************************)
(* What the functions of the pools preserve, counts included.              *)
(***************************************************************************)

(* A block that was available or new is held, and in use.                  *)
LEMMA GetKeeps ==
  ASSUME NEW p, NEW H, PoolOK(p, H), NEW t \in Thread, NEW c \in Cap,
         NEW a \in Obtainable(p, t, c), NEW q, q = get_memory(p, t, c, a)
  PROVE  /\ PoolOK(q, H \union {a})
         /\ a \in Addr /\ a \notin H /\ Bare(q, a) /\ CapOf(q, a) = c
         /\ \A b \in Addr : b # a => q.block[b] = p.block[b]
<1> DEFINE K == H \union {a}
           A(u) == UnionOf(Avail(p, u), Cap)
<1>1. Laid(p, H) /\ Shape(p) /\ Counted(p, H)
  BY DEF PoolOK, Laid
<1>2. /\ Laid(q, K) /\ a \in Addr /\ a \notin H /\ Bare(q, a) /\ CapOf(q, a) = c
      /\ \A b \in Addr : b # a => q.block[b] = p.block[b]
  BY <1>1, GetLays
<1>3. Got(p, q, t, c, a)
  BY <1>1, GetEffect
<1>4. GotCounts(p, q, t, c, a)
  BY <1>1, GetCounts
<1>5. ASSUME NEW S, Blocks(p, S) PROVE SameIndex(p, q, S)
  <2>1. SUFFICES ASSUME NEW b \in S PROVE q.block[b] = p.block[b]
    BY DEF SameIndex
  <2>2. b \in Addr /\ p.block[b] # Free
    BY <1>5 DEF Blocks
  <2>3. QED
    BY <1>2, <1>3, <2>2 DEF Got
<1>6. ThreadOf(q, a) = t
  <2>1. q.block[a].tc_index_ = TcIndex(t, c)
    <3>1. CASE a \in Avail(p, t)[c] /\ q.block[a] = p.block[a]
      BY <1>1, <3>1 DEF Laid, Listed
    <3>2. CASE q.block[a] = Fresh(t, c)
      BY <3>2 DEF Fresh
    <3>3. QED
      BY <1>3, <3>1, <3>2 DEF Got
  <2>2. QED
    BY <2>1, IndexSplits DEF ThreadOf
<1>7. \A b \in H : /\ b # a /\ ThreadOf(q, b) = ThreadOf(p, b)
                   /\ CapOf(q, b) = CapOf(p, b)
  BY <1>1, <1>2 DEF Laid, Kept, ThreadOf, CapOf
<1>8. ASSUME NEW u \in Thread
      PROVE  /\ Exact(p, Of(p, H, u), u) /\ Blocks(p, Of(p, H, u))
             /\ Blocks(p, A(u)) /\ SameIndex(p, q, Of(p, H, u))
             /\ SameIndex(p, q, A(u))
             /\ \A d \in Cap : IsFiniteSet(Avail(p, u)[d])
  <2>1. Exact(p, Of(p, H, u), u) /\ Blocks(p, Of(p, H, u))
    BY <1>1, HeldBlocks DEF Counted
  <2>2. \A d \in Cap : IsFiniteSet(Avail(p, u)[d])
    BY <2>1 DEF Exact
  <2>3. Blocks(p, A(u))
    BY <1>1, <2>2, AvailSorted
  <2>4. QED
    BY <1>5, <2>1, <2>2, <2>3
<1> HIDE DEF A, K
<1>9. ASSUME NEW u \in Thread \ {t} PROVE Exact(q, Of(q, K, u), u)
  <2>1. Of(q, K, u) = Of(p, H, u)
    BY <1>6, <1>7 DEF Of, K
  <2>2. Unmoved(p, q, u)
    BY <1>4 DEF GotCounts
  <2>3. Exact(q, Of(p, H, u), u)
    BY <1>1, <1>8, <2>2, ExactKept DEF A
  <2>4. QED
    BY <2>1, <2>3
<1>10. Exact(q, Of(q, K, t), t)
  <2> DEFINE S == Of(p, H, t)
  <2>1. Of(q, K, t) = S \union {a} /\ a \notin S /\ S \in SUBSET H
    BY <1>2, <1>6, <1>7 DEF Of, K
  <2>2. Exact(p, S, t) /\ Blocks(p, S)
    BY <1>8
  <2> HIDE DEF S
  <2>3. Total(q, S \union {a}) = Total(p, S) + capacity_vec[c]
    <3>1. SameIndex(p, q, S)
      BY <1>5, <2>2
    <3>2. Total(q, S \union {a}) = Total(p, S) + capacity_vec[CapOf(q, a)]
      BY <1>1, <1>2, <2>1, <2>2, <3>1, TotalPlus
    <3>3. QED
      BY <1>2, <3>2
  <2>4. InUse(p, t) \in [Cap -> SUBSET Addr] /\ InUse(q, t) = [InUse(p, t) EXCEPT ![c] = @ \union {a}]
    BY <1>4, <2>2 DEF GotCounts, Exact
  <2>5. InUse(q, t) \in [Cap -> SUBSET Addr]
    BY <1>2, <2>4
  <2>6. \A d \in Cap : InUse(q, t)[d] = {b \in S \union {a} : CapOf(q, b) = d}
    <3>1. SUFFICES ASSUME NEW d \in Cap
                   PROVE  InUse(q, t)[d] = {b \in S \union {a} : CapOf(q, b) = d}
      OBVIOUS
    <3>2. InUse(p, t)[d] = {b \in S : CapOf(p, b) = d}
      BY <2>2 DEF Exact
    <3>3. \A b \in S : CapOf(q, b) = CapOf(p, b)
      BY <1>7, <2>1
    <3>4. InUse(q, t)[d] = IF d = c THEN InUse(p, t)[d] \union {a} ELSE InUse(p, t)[d]
      BY <2>4
    <3>5. QED
      BY <1>2, <3>2, <3>3, <3>4
  <2>7. \A d \in Cap : Avail(q, t)[d] = IF d = c THEN Avail(p, t)[d] \ {a}
                                        ELSE Avail(p, t)[d]
    BY <1>3 DEF Got
  <2>8. \A d \in Cap : IsFiniteSet(Avail(q, t)[d])
    <3>1. \A d \in Cap : Avail(q, t)[d] \subseteq Avail(p, t)[d]
      BY <2>7
    <3>2. QED
      BY <1>8, <3>1, FS_Subset
  <2>9. \A d \in Cap : d # c => a \notin Avail(p, t)[d]
    <3>1. SUFFICES ASSUME NEW d \in Cap, a \in Avail(p, t)[d] PROVE d = c
      OBVIOUS
    <3>2. p.block[a] # Free /\ CapOf(p, a) = d
      BY <1>1, <1>8, <3>1, AvailSorted DEF Laid, Listed
    <3>3. q.block[a] = p.block[a]
      BY <1>3, <3>2 DEF Got
    <3>4. QED
      BY <1>2, <3>2, <3>3 DEF CapOf
  <2>10. UnionOf(Avail(q, t), Cap) = A(t) \ {a}
    BY <2>7, <2>9 DEF UnionOf, A
  <2>11. Spare(q, t) = Total(q, A(t) \ {a})
    <3>1. Spare(p, t) = Total(p, A(t))
      BY <2>2 DEF Exact, A
    <3>2. CASE Avail(p, t)[c] # {}
      <4>1. a \in Avail(p, t)[c] /\ Spare(q, t) = Spare(p, t) - capacity_vec[c]
        BY <1>3, <1>4, <3>2 DEF Got, GotCounts
      <4>2. CapOf(p, a) = c
        BY <1>1, <1>8, <4>1, AvailSorted
      <4>6. a \in A(t)
        BY <4>1 DEF A, UnionOf
      <4>3. SameIndex(p, q, A(t) \ {a})
        BY <1>8 DEF SameIndex
      <4>4. Total(q, A(t) \ {a}) = Total(p, A(t)) - capacity_vec[CapOf(p, a)]
        BY <1>1, <1>8, <4>6, <4>3, TotalMinus
      <4>5. QED
        BY <3>1, <4>1, <4>2, <4>4
    <3>3. CASE Avail(p, t)[c] = {}
      <4>1. Spare(q, t) = Spare(p, t)
        BY <1>4, <3>3 DEF GotCounts
      <4>2. A(t) \ {a} = A(t)
        BY <2>9, <3>3 DEF A, UnionOf
      <4>3. Total(q, A(t)) = Total(p, A(t))
        BY <1>1, <1>8, TotalSame
      <4>4. QED
        BY <3>1, <4>1, <4>2, <4>3
    <3>4. QED
      BY <3>2, <3>3
  <2>12. Used(q, t) = Total(q, S \union {a})
    BY <1>4, <2>2, <2>3 DEF GotCounts, Exact
  <2>13. q.info[t] = <<thread_info(q, t)>>
    BY <1>4 DEF GotCounts
  <2>14. QED
    BY <2>1, <2>5, <2>6, <2>8, <2>10, <2>11, <2>12, <2>13 DEF Exact
<1>11. IsFiniteSet(K)
  BY <1>1, FS_AddElement DEF Counted, K
<1>12. \A u \in Thread : Exact(q, Of(q, K, u), u)
  BY <1>9, <1>10
<1>13. PoolOK(q, K)
  BY <1>2, <1>11, <1>12 DEF PoolOK, Counted
<1>14. QED
  BY <1>2, <1>13 DEF K

(* A block that was held is available or free, and in use no longer.      *)
LEMMA ReturnKeeps ==
  ASSUME NEW p, NEW H, PoolOK(p, H), NEW a \in H, Bare(p, a), NEW h,
         NEW q, q = return_memory(p, h, a)
  PROVE  /\ PoolOK(q, H \ {a})
         /\ \A b \in Addr : b # a => q.block[b] = p.block[b]
<1> DEFINE K == H \ {a}
           A(u) == UnionOf(Avail(p, u), Cap)
           t == ThreadOf(p, a)
           c == CapOf(p, a)
<1>1. Laid(p, H) /\ Shape(p) /\ Counted(p, H)
  BY DEF PoolOK, Laid
<1>2. Laid(q, K) /\ \A b \in Addr : b # a => q.block[b] = p.block[b]
  BY <1>1, ReturnLays
<1>3. a \in Addr /\ p.block[a] # Free /\ t \in Thread /\ c \in Cap
  BY <1>1 DEF Laid, Kept, AllSized, Sized
<1> HIDE DEF K
<1>4. Returned(p, q, h, t, c, a) /\ ReturnedCounts(p, q, h, t, c, a)
  BY <1>1, <1>3, ReturnEffect, ReturnCounts
<1>5. ASSUME NEW S, Blocks(p, S), a \notin S PROVE SameIndex(p, q, S)
  BY <1>2, <1>5 DEF SameIndex, Blocks
<1>6. \A b \in K : /\ b \in H /\ b # a /\ ThreadOf(q, b) = ThreadOf(p, b)
                   /\ CapOf(q, b) = CapOf(p, b)
  BY <1>1, <1>2 DEF Laid, Kept, ThreadOf, CapOf, K
<1>7. ASSUME NEW u \in Thread
      PROVE  /\ Exact(p, Of(p, H, u), u) /\ Blocks(p, Of(p, H, u))
             /\ Blocks(p, A(u)) /\ a \notin A(u) /\ SameIndex(p, q, A(u))
             /\ \A d \in Cap : IsFiniteSet(Avail(p, u)[d])
  <2>1. Exact(p, Of(p, H, u), u) /\ Blocks(p, Of(p, H, u))
    BY <1>1, HeldBlocks DEF Counted
  <2>2. \A d \in Cap : IsFiniteSet(Avail(p, u)[d])
    BY <2>1 DEF Exact
  <2>3. Blocks(p, A(u)) /\ a \notin A(u)
    BY <1>1, <2>2, AvailSorted DEF UnionOf
  <2>4. QED
    BY <1>5, <2>1, <2>2, <2>3
<1> HIDE DEF A, t, c
<1>8. ASSUME NEW u \in Thread \ {t} PROVE Exact(q, Of(q, K, u), u)
  <2>1. Of(q, K, u) = Of(p, H, u) /\ a \notin Of(p, H, u)
    BY <1>6 DEF Of, K, t
  <2>2. Unmoved(p, q, u)
    BY <1>4 DEF ReturnedCounts
  <2>3. SameIndex(p, q, Of(p, H, u))
    BY <1>5, <1>7, <2>1
  <2>4. Exact(q, Of(p, H, u), u)
    BY <1>1, <1>7, <2>2, <2>3, ExactKept DEF A
  <2>5. QED
    BY <2>1, <2>4
<1>9. Exact(q, Of(q, K, t), t)
  <2> DEFINE S == Of(p, H, t)
  <2>1. Of(q, K, t) = S \ {a} /\ a \in S /\ S \in SUBSET H
    BY <1>6 DEF Of, K, t
  <2>2. Exact(p, S, t) /\ Blocks(p, S)
    BY <1>3, <1>7
  <2> HIDE DEF S
  <2>3. SameIndex(p, q, S \ {a})
    <3>1. Blocks(p, S \ {a})
      BY <2>2, FS_Subset DEF Blocks
    <3>2. QED
      BY <1>5, <3>1
  <2>4. Total(q, S \ {a}) = Total(p, S) - capacity_vec[c]
    BY <1>1, <2>1, <2>2, <2>3, TotalMinus DEF c
  <2>5. InUse(p, t) \in [Cap -> SUBSET Addr] /\ InUse(q, t) = [InUse(p, t) EXCEPT ![c] = @ \ {a}]
    BY <1>4, <2>2 DEF ReturnedCounts, Exact
  <2>6. InUse(q, t) \in [Cap -> SUBSET Addr]
    BY <1>3, <2>5
  <2>7. \A d \in Cap : InUse(q, t)[d] = {b \in S \ {a} : CapOf(q, b) = d}
    <3>1. SUFFICES ASSUME NEW d \in Cap
                   PROVE  InUse(q, t)[d] = {b \in S \ {a} : CapOf(q, b) = d}
      OBVIOUS
    <3>2. InUse(p, t)[d] = {b \in S : CapOf(p, b) = d}
      BY <2>2 DEF Exact
    <3>3. \A b \in S \ {a} : CapOf(q, b) = CapOf(p, b)
      BY <1>6, <2>1 DEF K
    <3>4. InUse(q, t)[d] = IF d = c THEN InUse(p, t)[d] \ {a} ELSE InUse(p, t)[d]
      BY <2>5
    <3>5. c = CapOf(p, a)
      BY DEF c
    <3>6. QED
      BY <3>2, <3>3, <3>4, <3>5
  <2>8. \A d \in Cap : Avail(q, t)[d] = IF h /\ d = c THEN Avail(p, t)[d] \union {a}
                                        ELSE Avail(p, t)[d]
    BY <1>3, <1>4 DEF Returned
  <2>9. \A d \in Cap : IsFiniteSet(Avail(q, t)[d])
    <3>1. \A d \in Cap : IsFiniteSet(Avail(p, t)[d]) /\ IsFiniteSet(Avail(p, t)[d] \union {a})
      BY <1>3, <1>7, FS_AddElement
    <3>2. QED
      BY <2>8, <3>1
  <2>10. Spare(q, t) = Total(q, UnionOf(Avail(q, t), Cap))
    <3>1. Spare(p, t) = Total(p, A(t))
      BY <2>2 DEF Exact, A
    <3>2. Blocks(p, A(t)) /\ SameIndex(p, q, A(t)) /\ a \notin A(t)
      BY <1>3, <1>7
    <3>3. CASE h
      <4>1. UnionOf(Avail(q, t), Cap) = A(t) \union {a}
        <5>1. \A b : b \in UnionOf(Avail(q, t), Cap)
                       <=> \E d \in Cap : b \in Avail(q, t)[d]
          BY DEF UnionOf
        <5>2. \A b : b \in A(t) <=> \E d \in Cap : b \in Avail(p, t)[d]
          BY DEF UnionOf, A
        <5>3. \A d \in Cap : Avail(q, t)[d] = IF d = c THEN Avail(p, t)[d] \union {a}
                                              ELSE Avail(p, t)[d]
          BY <2>8, <3>3
        <5>4. \A b : b \in UnionOf(Avail(q, t), Cap) <=> b \in A(t) \/ b = a
          BY <1>3, <5>1, <5>2, <5>3
        <5>5. QED
          BY <5>4
      <4>2. Spare(q, t) = Spare(p, t) + capacity_vec[c]
        BY <1>4, <3>3 DEF ReturnedCounts
      <4>3. CapOf(q, a) = c
        BY <1>4, <3>3 DEF Returned, CapOf, c
      <4>4. CapOf(q, a) \in Cap
        BY <1>3, <4>3
      <4>5. Total(q, A(t) \union {a}) = Total(p, A(t)) + capacity_vec[CapOf(q, a)]
        BY <1>1, <1>3, <3>2, <4>4, TotalPlus
      <4>6. QED
        BY <3>1, <4>1, <4>2, <4>3, <4>5
    <3>4. CASE ~h
      <4>1. UnionOf(Avail(q, t), Cap) = A(t)
        BY <2>8, <3>4 DEF UnionOf, A
      <4>2. Spare(q, t) = Spare(p, t)
        BY <1>4, <3>4 DEF ReturnedCounts
      <4>3. Total(q, A(t)) = Total(p, A(t))
        BY <1>1, <3>2, TotalSame
      <4>4. QED
        BY <3>1, <4>1, <4>2, <4>3
    <3>5. QED
      BY <3>3, <3>4
  <2>11. Used(q, t) = Total(q, S \ {a})
    BY <1>4, <2>2, <2>4 DEF ReturnedCounts, Exact
  <2>12. q.info[t] = <<thread_info(q, t)>>
    BY <1>4 DEF ReturnedCounts
  <2>13. QED
    BY <2>1, <2>6, <2>7, <2>9, <2>10, <2>11, <2>12 DEF Exact
<1>10. IsFiniteSet(K)
  BY <1>1, FS_Subset DEF Counted, K
<1>11. \A u \in Thread : Exact(q, Of(q, K, u), u)
  BY <1>8, <1>9
<1>12. PoolOK(q, K)
  BY <1>2, <1>10, <1>11 DEF PoolOK, Counted
<1>13. QED
  BY <1>2, <1>12 DEF K

(* A thread's lists are emptied: what it has in use stays counted.         *)
EmptiedOf(p, q, H, t) ==
  /\ Laid(q, H) /\ FreedCounts(p, q, t)
  /\ \A d \in Cap : Avail(q, t)[d] = {}
  /\ \A b \in H : q.block[b] = p.block[b]

LEMMA EmptiedCounts ==
  ASSUME NEW p, NEW H, PoolOK(p, H), NEW t \in Thread, NEW q, EmptiedOf(p, q, H, t)
  PROVE  Exact(q, Of(q, H, t), t)
<1> DEFINE S == Of(p, H, t)
           A == UnionOf(Avail(p, t), Cap)
<1>1. Laid(p, H) /\ Exact(p, S, t) /\ Blocks(p, S)
  BY HeldBlocks DEF PoolOK, Counted
<1>2. S \in SUBSET H /\ Of(q, H, t) = S /\ SameIndex(p, q, S)
  BY DEF Of, EmptiedOf, ThreadOf, SameIndex
<1> HIDE DEF S
<1>3. Total(q, S) = Total(p, S) /\ \A a \in S : CapOf(q, a) = CapOf(p, a)
  BY <1>1, <1>2, TotalSame
<1>4. /\ \A d \in Cap : IsFiniteSet(Avail(q, t)[d])
      /\ Total(q, UnionOf(Avail(q, t), Cap)) = 0
  <2>1. UnionOf(Avail(q, t), Cap) = {}
    BY DEF UnionOf, EmptiedOf
  <2>2. QED
    BY <2>1, SumEmpty, FS_EmptySet DEF Total, EmptiedOf
<1>5. q.info[t] = NoRecord \/ q.info[t] = <<thread_info(q, t)>>
  BY DEF EmptiedOf, FreedCounts
<1>6. CASE Used(p, t) = 0
  <2>1. /\ IsFiniteSet(S) /\ \A a \in S : SizeOf(p)[a] \in Nat \ {0}
    BY <1>1, SizesOK DEF Blocks
  <2>2. SumOf(SizeOf(p), S) = 0
    BY <1>1, <1>6 DEF Exact, Total
  <2>3. S = {}
    BY <2>1, <2>2, SumPositive
  <2>4. Used(q, t) = 0 /\ Spare(q, t) = 0 /\ InUse(q, t) = [c \in Cap |-> {}]
    BY <1>6 DEF EmptiedOf, FreedCounts
  <2>5. Total(q, S) = 0
    BY <2>3, SumEmpty DEF Total
  <2>6. InUse(q, t) \in [Cap -> SUBSET Addr]
        /\ \A c \in Cap : InUse(q, t)[c] = {a \in S : CapOf(q, a) = c}
    BY <2>3, <2>4
  <2>7. QED
    BY <1>2, <1>4, <1>5, <2>4, <2>5, <2>6 DEF Exact
<1>7. CASE Used(p, t) # 0
  <2>1. /\ Used(q, t) = Used(p, t) /\ InUse(q, t) = InUse(p, t)
        /\ Spare(q, t) = Spare(p, t) - Bytes(Avail(p, t))
    BY <1>7 DEF EmptiedOf, FreedCounts
  <2>2. Sorted(SizeOf(p), Avail(p, t)) /\ Spare(p, t) = Total(p, A)
    BY <1>1, AvailSorted DEF Exact
  <2> HIDE DEF A
  <2>3. Numbers(SizeOf(p), A) /\ Bytes(Avail(p, t)) = Total(p, A)
    BY <2>2, BytesAreSizes DEF A, Total
  <2>4. Total(p, A) \in Int
    BY <2>3, SumType DEF Total
  <2>5. Spare(q, t) = 0
    BY <2>1, <2>2, <2>3, <2>4
  <2>6. \A c \in Cap : InUse(q, t)[c] = {a \in S : CapOf(q, a) = c}
    BY <1>1, <1>3, <2>1 DEF Exact
  <2>7. QED
    BY <1>1, <1>2, <1>3, <1>4, <1>5, <2>1, <2>5, <2>6 DEF Exact
<1>8. QED
  BY <1>6, <1>7

(* No block that is held goes. *)
LEMMA FreeAvailableKeeps ==
  ASSUME NEW p, NEW H, PoolOK(p, H), NEW t \in Thread, NEW q, q = free_available(p, t)
  PROVE  PoolOK(q, H) /\ \A b \in H : q.block[b] = p.block[b]
<1>1. Laid(p, H) /\ Shape(p) /\ Counted(p, H)
  BY DEF PoolOK, Laid
<1>2. Laid(q, H) /\ \A b \in H : q.block[b] = p.block[b]
  BY <1>1, FreeAvailableLays
<1>3. \A u \in Thread, d \in Cap : Avail(q, u)[d] = IF u = t THEN {} ELSE Avail(p, u)[d]
  BY <1>1, FreeAvailableEffect
<1>4. FreedCounts(p, q, t) /\ \A u \in Thread \ {t} : Unmoved(p, q, u)
  BY <1>1, FreeAvailableCounts
<1>5. Exact(q, Of(q, H, t), t)
  <2>1. EmptiedOf(p, q, H, t)
    BY <1>2, <1>3, <1>4 DEF EmptiedOf
  <2>2. QED
    BY <2>1, EmptiedCounts
<1>6. ASSUME NEW u \in Thread \ {t} PROVE Exact(q, Of(q, H, u), u)
  <2>1. Of(q, H, u) = Of(p, H, u) /\ SameIndex(p, q, Of(p, H, u))
    BY <1>2 DEF Of, ThreadOf, SameIndex
  <2>2. Exact(p, Of(p, H, u), u) /\ Blocks(p, Of(p, H, u))
    BY <1>1, HeldBlocks DEF Counted
  <2>3. \A d \in Cap : IsFiniteSet(Avail(p, u)[d])
    BY <2>2 DEF Exact
  <2>4. \A c \in Cap : \A a \in Avail(p, u)[c] : a \in Addr /\ ThreadOf(p, a) = u
    BY <1>1, <2>3, AvailSorted
  <2>5. \A c \in Cap : \A a \in Avail(p, t)[c] : ThreadOf(p, a) = t
    <3>1. \A d \in Cap : IsFiniteSet(Avail(p, t)[d])
      BY <1>1 DEF Counted, Exact
    <3>2. QED
      BY <1>1, <3>1, AvailSorted
  <2>6. SameIndex(p, q, UnionOf(Avail(p, u), Cap))
    <3>1. SUFFICES ASSUME NEW c \in Cap, NEW a \in Avail(p, u)[c]
                   PROVE  q.block[a] = p.block[a]
      BY DEF SameIndex, UnionOf
    <3>2. a \in Addr /\ ~ \E d \in Cap : a \in Avail(p, t)[d]
      BY <2>4, <2>5
    <3>3. q.block[a] = IF \E d \in Cap : a \in Avail(p, t)[d] THEN Free ELSE p.block[a]
      BY <1>1, <3>2, FreeAvailableEffect
    <3>4. QED
      BY <3>2, <3>3
  <2>7. Unmoved(p, q, u)
    BY <1>4
  <2>8. Exact(q, Of(p, H, u), u)
    BY <1>1, <2>1, <2>2, <2>6, <2>7, ExactKept
  <2>9. QED
    BY <2>1, <2>8
<1>7. \A u \in Thread : Exact(q, Of(q, H, u), u)
  BY <1>5, <1>6
<1>8. QED
  BY <1>1, <1>2, <1>7 DEF PoolOK, Counted

(* Nor with all threads at once. *)
LEMMA FreeAllKeeps ==
  ASSUME NEW p, NEW H, PoolOK(p, H), NEW q, q = free_all(p)
  PROVE  PoolOK(q, H) /\ \A b \in H : q.block[b] = p.block[b]
<1>1. Laid(p, H) /\ Shape(p) /\ Counted(p, H)
  BY DEF PoolOK, Laid
<1>2. Laid(q, H) /\ \A b \in H : q.block[b] = p.block[b]
  BY <1>1, FreeAllLays
<1>3. \A u \in Thread, d \in Cap : Avail(q, u)[d] = {}
  BY <1>1, FreeAllEffect
<1>4. ASSUME NEW t \in Thread PROVE Exact(q, Of(q, H, t), t)
  <2>1. FreedCounts(p, q, t)
    BY <1>1, FreeAllCounts
  <2>2. EmptiedOf(p, q, H, t)
    BY <1>2, <1>3, <2>1 DEF EmptiedOf
  <2>3. QED
    BY <2>2, EmptiedCounts
<1>5. QED
  BY <1>1, <1>2, <1>4 DEF PoolOK, Counted

(* What is in a block is not counted. *)
LEMMA DataKeeps ==
  ASSUME NEW p, NEW H, PoolOK(p, H), NEW a \in H, NEW d \in Data(CapOf(p, a)),
         NEW q, q = WithData(p, a, d)
  PROVE  /\ PoolOK(q, H)
         /\ q.block[a].data = d /\ CapOf(q, a) = CapOf(p, a)
         /\ \A b \in Addr : b # a => q.block[b] = p.block[b]
<1>1. Laid(p, H) /\ Counted(p, H)
  BY DEF PoolOK
<1>2. /\ Laid(q, H)
      /\ q.block[a].data = d /\ CapOf(q, a) = CapOf(p, a)
      /\ \A b \in Addr : b # a => q.block[b] = p.block[b]
  BY <1>1, DataLays
<1>3. q.info = p.info /\ q.block[a].tc_index_ = p.block[a].tc_index_
  <2>1. /\ DOMAIN p = {"info", "block"} /\ DOMAIN p.block = Addr
        /\ a \in Addr /\ p.block[a] \in Block
    BY <1>1 DEF Laid, Shape, Kept, AllSized, Sized
  <2>2. q.info = p.info /\ q.block = [p.block EXCEPT ![a].data = d]
    BY <2>1 DEF WithData
  <2>3. q.block[a] = [p.block[a] EXCEPT !.data = d]
    BY <2>1, <2>2
  <2>4. QED
    BY <2>1, <2>2, <2>3 DEF Block
<1>4. \A b \in Addr : q.block[b].tc_index_ = p.block[b].tc_index_
  BY <1>2, <1>3
<1>5. ASSUME NEW u \in Thread PROVE Exact(q, Of(q, H, u), u)
  <2>1. Exact(p, Of(p, H, u), u) /\ Blocks(p, Of(p, H, u))
    BY <1>1, HeldBlocks DEF Counted
  <2>2. \A e \in Cap : IsFiniteSet(Avail(p, u)[e])
    BY <2>1 DEF Exact
  <2>3. Blocks(p, UnionOf(Avail(p, u), Cap))
    BY <1>1, <2>2, AvailSorted
  <2>4. Of(q, H, u) = Of(p, H, u)
    BY <1>1, <1>4 DEF Of, ThreadOf, Laid, Kept
  <2>5. SameIndex(p, q, Of(p, H, u)) /\ SameIndex(p, q, UnionOf(Avail(p, u), Cap))
    BY <1>4, <2>1, <2>3 DEF SameIndex, Blocks
  <2>6. Unmoved(p, q, u)
    BY <1>3 DEF Unmoved, thread_info
  <2>7. Exact(q, Of(p, H, u), u)
    BY <1>1, <2>1, <2>5, <2>6, ExactKept
  <2>8. QED
    BY <2>4, <2>7
<1>6. QED
  BY <1>1, <1>2, <1>5 DEF PoolOK, Counted

(* parallel_setup: a record of nothing counts what no record does. *)
LEMMA RecordsKeep ==
  ASSUME NEW p, NEW H, PoolOK(p, H), NEW n, NEW q,
         q = [p EXCEPT !.info = [t \in Thread |->
                IF t < n THEN <<thread_info(p, t)>> ELSE p.info[t]]]
  PROVE  /\ PoolOK(q, H) /\ q.block = p.block
         /\ \A u \in Thread : thread_info(q, u) = thread_info(p, u)
<1>1. Laid(p, H) /\ Counted(p, H) /\ Shape(p)
  BY DEF PoolOK, Laid
<1>2. /\ Shape(q) /\ q.block = p.block
      /\ \A u \in Thread : thread_info(q, u) = thread_info(p, u)
  BY <1>1, RecordsEffect
<1>3. \A t \in Thread : q.info[t] = IF t < n THEN <<thread_info(p, t)>> ELSE p.info[t]
  BY <1>1 DEF Shape
<1>4. Laid(q, H)
  <2>1. /\ \A u \in Thread : Avail(q, u) = Avail(p, u)
        /\ \A b \in Addr : Bare(q, b) = Bare(p, b) /\ Sized(q, b) = Sized(p, b)
    BY <1>2 DEF Avail, Bare, Sized, ThreadOf, CapOf
  <2>2. Listed(p, H) /\ Kept(p, H) /\ Tracked(p, H) /\ AllSized(p)
    BY <1>1 DEF Laid
  <2>3. Listed(q, H)
    BY <1>2, <2>1, <2>2 DEF Listed, Bare
  <2>4. Kept(q, H) /\ Tracked(q, H) /\ AllSized(q)
    BY <1>2, <2>1, <2>2 DEF Kept, Tracked, AllSized
  <2>5. QED
    BY <1>2, <2>3, <2>4 DEF Laid
<1>5. ASSUME NEW u \in Thread PROVE Exact(q, Of(q, H, u), u)
  <2>1. Exact(p, Of(p, H, u), u) /\ Blocks(p, Of(p, H, u))
    BY <1>1, HeldBlocks DEF Counted
  <2>2. Of(q, H, u) = Of(p, H, u)
    BY <1>2 DEF Of, ThreadOf
  <2>3. SameIndex(p, q, Of(p, H, u)) /\ SameIndex(p, q, UnionOf(Avail(p, u), Cap))
    BY <1>2 DEF SameIndex
  <2>4. Unmoved(p, q, u)
    BY <1>2, <1>3 DEF Unmoved
  <2>5. Exact(q, Of(p, H, u), u)
    BY <1>1, <2>1, <2>3, <2>4, ExactKept
  <2>6. QED
    BY <2>2, <2>5
<1>6. QED
  BY <1>1, <1>2, <1>4, <1>5 DEF PoolOK, Counted

(* The block that comes and goes leaves no trace. *)
LEMMA SetupKeeps ==
  ASSUME NEW p, NEW H, PoolOK(p, H), NEW h, NEW n, 0 \in Thread, 0 \in Cap,
         NEW a \in Obtainable(p, 0, 0), NEW q, q = parallel_setup(p, h, n, a)
  PROVE  PoolOK(q, H) /\ \A b \in H : q.block[b] = p.block[b]
<1> DEFINE p1 == [p EXCEPT !.info = [t \in Thread |->
                    IF t < n THEN <<thread_info(p, t)>> ELSE p.info[t]]]
           p2 == get_memory(p1, 0, 0, a)
           p3 == return_memory(p2, h, a)
<1>1. q = free_available(p3, 0)
  BY DEF parallel_setup
<1>2. PoolOK(p1, H) /\ p1.block = p.block /\ a \in Obtainable(p1, 0, 0)
  <2>1. /\ PoolOK(p1, H) /\ p1.block = p.block
        /\ \A u \in Thread : thread_info(p1, u) = thread_info(p, u)
    BY RecordsKeep
  <2> HIDE DEF p1
  <2>2. a \in Obtainable(p1, 0, 0)
    BY <2>1 DEF Obtainable
  <2>3. QED
    BY <2>1, <2>2
<1> HIDE DEF p1
<1>3. /\ PoolOK(p2, H \union {a}) /\ Bare(p2, a) /\ a \notin H
      /\ \A b \in Addr : b # a => p2.block[b] = p1.block[b]
  BY <1>2, GetKeeps
<1> HIDE DEF p2
<1>4. /\ PoolOK(p3, (H \union {a}) \ {a})
      /\ \A b \in Addr : b # a => p3.block[b] = p2.block[b]
  BY <1>3, ReturnKeeps
<1> HIDE DEF p3
<1>5. (H \union {a}) \ {a} = H
  BY <1>3
<1>6. PoolOK(q, H) /\ \A b \in H : q.block[b] = p3.block[b]
  <2>1. PoolOK(p3, H)
    BY <1>4, <1>5
  <2>2. QED
    BY <1>1, <2>1, FreeAvailableKeeps
<1>7. \A b \in H : b \in Addr /\ b # a
  BY <1>3 DEF PoolOK, Laid, Kept
<1>8. QED
  BY <1>2, <1>3, <1>4, <1>6, <1>7

(* What a vector knows of its memory. *)
VectorOK(x, p) ==
  /\ x \in [length_ : Nat, capacity_ : Nat, data_ : Addr \union {Null}]
  /\ x.length_ <= x.capacity_
  /\ x.capacity_ > 0 => /\ x.data_ \in Addr
                        /\ x.capacity_ = capacity_vec[CapOf(p, x.data_)]
                        /\ Full(p, x.data_)

(* The memory of a vector, and of all of them. *)
Mem(x) == IF x.capacity_ > 0 THEN {x.data_} ELSE {}

HeldBy(vec) == UNION {Mem(vec[v]) : v \in Vector}

Pods(p, vec) ==
  /\ PoolOK(p, HeldBy(vec))
  /\ vec \in [Vector -> [length_ : Nat, capacity_ : Nat,
                         data_ : Addr \union {Null}]]
  /\ \A v \in Vector : VectorOK(vec[v], p)
  /\ \A v, w \in Vector : v # w => Mem(vec[v]) \cap Mem(vec[w]) = {}

(* The inductive invariant. *)
PodInv == Pods(pool, vector)

-----------------------------------------------------------------------------
(***************************************************************************)
(* The parts of the operations of vectors.                                 *)
(***************************************************************************)

(* The destructor and return_memory: the memory of x is held no longer.    *)
LEMMA ReleasedKeeps ==
  ASSUME NEW p, NEW H, PoolOK(p, H), NEW x, VectorOK(x, p), Mem(x) \subseteq H,
         NEW q, q = Released(p, x)
  PROVE  /\ PoolOK(q, H \ Mem(x))
         /\ \A b \in Addr : b \notin Mem(x) => q.block[b] = p.block[b]
<1>1. CASE ~(x.capacity_ > 0)
  <2>1. q = p /\ Mem(x) = {}
    BY <1>1 DEF Released, Mem
  <2>2. H \ Mem(x) = H
    BY <2>1
  <2>3. QED
    BY <2>1, <2>2
<1>2. CASE x.capacity_ > 0
  <2> DEFINE a == x.data_
             r == Destroyed(p, a)
  <2>1. /\ Mem(x) = {a} /\ a \in H /\ a \in Addr
        /\ q = return_memory(r, hold_memory, a)
    BY <1>2 DEF Mem, Released, VectorOK
  <2>2. /\ PoolOK(r, H) /\ Bare(r, a)
        /\ \A b \in Addr : b # a => r.block[b] = p.block[b]
    <3>1. CASE is_pod
      BY <3>1 DEF Destroyed, Bare
    <3>2. CASE ~is_pod
      <4> DEFINE d == [k \in DOMAIN p.block[a].data |-> Raw]
      <4>1. r = WithData(p, a, d)
        BY <3>2 DEF Destroyed, WithData
      <4>2. Sized(p, a)
        BY <2>1 DEF PoolOK, Laid, AllSized, Kept
      <4>3. d \in Data(CapOf(p, a)) /\ \A k \in DOMAIN d : d[k] = Raw
        BY <4>2 DEF Sized, Data
      <4> HIDE DEF d, r, a
      <4>4. /\ PoolOK(r, H) /\ r.block[a].data = d
            /\ \A b \in Addr : b # a => r.block[b] = p.block[b]
        BY <2>1, <4>1, <4>3, DataKeeps
      <4>5. QED
        BY <4>3, <4>4 DEF Bare
    <3>3. QED
      BY <3>1, <3>2
  <2> HIDE DEF a, r
  <2>3. /\ PoolOK(q, H \ {a})
        /\ \A b \in Addr : b # a => q.block[b] = r.block[b]
    BY <2>1, <2>2, ReturnKeeps
  <2>4. QED
    BY <2>1, <2>2, <2>3
<1>3. QED
  BY <1>1, <1>2

(* get_memory and the constructors: a block that nobody held, full.        *)
LEMMA ObtainedKeeps ==
  ASSUME NEW p, NEW H, PoolOK(p, H), NEW t \in Thread, NEW c \in Cap,
         NEW a \in Obtainable(p, t, c), NEW q, q = Obtained(p, t, c, a)
  PROVE  /\ PoolOK(q, H \union {a})
         /\ a \in Addr /\ a \notin H /\ Full(q, a) /\ CapOf(q, a) = c
         /\ \A b \in Addr : b # a => q.block[b] = p.block[b]
<1> DEFINE r == get_memory(p, t, c, a)
<1>1. /\ PoolOK(r, H \union {a})
      /\ a \in Addr /\ a \notin H /\ CapOf(r, a) = c
      /\ \A b \in Addr : b # a => r.block[b] = p.block[b]
  BY GetKeeps
<1>2. q = Constructed(r, a)
  BY DEF Obtained
<1> HIDE DEF r
<1>3. CASE is_pod
  <2>1. q = r
    BY <1>2, <1>3 DEF Constructed
  <2>2. QED
    BY <1>1, <1>3, <2>1 DEF Full
<1>4. CASE ~is_pod
  <2> DEFINE d == [k \in DOMAIN r.block[a].data |-> Default]
  <2>1. q = WithData(r, a, d)
    BY <1>2, <1>4 DEF Constructed, WithData
  <2>2. Sized(r, a)
    BY <1>1 DEF PoolOK, Laid, AllSized, Kept
  <2>3. d \in Data(CapOf(r, a)) /\ \A k \in DOMAIN d : d[k] # Raw
    BY <2>2, ElemAssumption DEF Sized, Data
  <2> HIDE DEF d
  <2>4. /\ PoolOK(q, H \union {a}) /\ q.block[a].data = d
        /\ CapOf(q, a) = CapOf(r, a)
        /\ \A b \in Addr : b # a => q.block[b] = r.block[b]
    BY <1>1, <2>1, <2>3, DataKeeps
  <2>5. QED
    BY <1>1, <2>3, <2>4 DEF Full
<1>5. QED
  BY <1>3, <1>4

(* What can be the elements of a vector. *)
Copyable(s, n) ==
  /\ \A k \in 1 .. n : s[k] \in Elem \union {Raw}
  /\ ~is_pod => \A k \in 1 .. n : s[k] # Raw

Rewritten(p, q, H, a, n, s) ==
  /\ PoolOK(q, H) /\ Full(q, a) /\ CapOf(q, a) = CapOf(p, a)
  /\ \A k \in 1 .. n : q.block[a].data[k] = s[k]
  /\ \A b \in Addr : b # a => q.block[b] = p.block[b]

(* The first n elements become s. *)
LEMMA CopiedKeeps ==
  ASSUME NEW p, NEW H, PoolOK(p, H), NEW a \in H, Full(p, a),
         NEW n \in Nat, n <= capacity_vec[CapOf(p, a)],
         NEW s, Copyable(s, n)
  PROVE  Rewritten(p, Copied(p, a, n, s), H, a, n, s)
<1> DEFINE q == Copied(p, a, n, s)
           e == p.block[a].data
           m == capacity_vec[CapOf(p, a)]
           d == [k \in DOMAIN e |-> IF k <= n THEN s[k] ELSE e[k]]
<1>1. q = WithData(p, a, d)
  BY DEF Copied, WithData
<1>2. Sized(p, a)
  BY DEF PoolOK, Laid, AllSized, Kept
<1>3. m \in Nat /\ e \in [1 .. m -> Elem \union {Raw}]
  BY <1>2, ThreadCapAssumption DEF Sized, Data
<1>4. n <= m
  OBVIOUS
<1>5. ~is_pod => \A k \in DOMAIN e : e[k] # Raw
  BY DEF Full
<1> HIDE DEF m, e, q
<1>6. /\ d \in [1 .. m -> Elem \union {Raw}]
      /\ \A k \in 1 .. n : d[k] = s[k]
      /\ ~is_pod => \A k \in DOMAIN d : d[k] # Raw
  <2>1. DOMAIN e = 1 .. m /\ DOMAIN d = 1 .. m
    BY <1>3
  <2>2. \A k \in 1 .. m : d[k] = IF k <= n THEN s[k] ELSE e[k]
    BY <2>1
  <2>3. \A k \in 1 .. m : k <= n => k \in 1 .. n
    BY <1>3
  <2>5. d = [k \in 1 .. m |-> d[k]]
    BY <2>1
  <2>6. \A k \in 1 .. n : d[k] = s[k]
    BY <1>3, <1>4, <2>2
  <2>7. ~is_pod => \A k \in DOMAIN d : d[k] # Raw
    BY <1>5, <2>1, <2>2, <2>3 DEF Copyable
  <2> HIDE DEF d
  <2>4. ASSUME NEW k \in 1 .. m PROVE d[k] \in Elem \union {Raw}
    <3>1. e[k] \in Elem \union {Raw}
      BY <1>3
    <3>2. k <= n => s[k] \in Elem \union {Raw}
      BY <2>3 DEF Copyable
    <3>3. QED
      BY <2>2, <3>1, <3>2
  <2>8. d \in [1 .. m -> Elem \union {Raw}]
    BY <2>4, <2>5
  <2>9. QED
    BY <2>6, <2>7, <2>8
<1> HIDE DEF d
<1>7. d \in Data(CapOf(p, a))
  BY <1>6 DEF Data, m
<1>8. /\ PoolOK(q, H) /\ q.block[a].data = d /\ CapOf(q, a) = CapOf(p, a)
      /\ \A b \in Addr : b # a => q.block[b] = p.block[b]
  BY <1>1, <1>7, DataKeeps
<1>9. QED
  BY <1>6, <1>8 DEF Full, Rewritten, q

-----------------------------------------------------------------------------
(***************************************************************************)
(* One vector changes and the others keep what they had.                   *)
(***************************************************************************)

(* The elements of all vectors, as the refinement maps them. *)
VecOf(p, vec) == [v \in Vector |-> Elements(p, vec[v])]

LEMMA ElementsType ==
  ASSUME NEW p, NEW H, PoolOK(p, H), NEW x, VectorOK(x, p), Mem(x) \subseteq H
  PROVE  /\ x.length_ \in Nat
         /\ Elements(p, x) \in [1 .. x.length_ -> Elem \union {Raw}]
         /\ Elements(p, x) \in Seq(Elem \union {Raw}) /\ Len(Elements(p, x)) = x.length_
         /\ \A k \in 1 .. x.length_ :
              /\ k \in DOMAIN p.block[x.data_].data
              /\ Elements(p, x)[k] = p.block[x.data_].data[k]
         /\ ~is_pod => \A k \in 1 .. x.length_ : Elements(p, x)[k] # Raw
<1> DEFINE n == x.length_
           m == x.capacity_
           d == p.block[x.data_].data
           e == Elements(p, x)
<1>1. n \in Nat /\ m \in Nat /\ n <= m
  BY DEF VectorOK
<1>2. m > 0 => d \in [1 .. m -> Elem \union {Raw}] /\ Full(p, x.data_)
  <2>1. SUFFICES ASSUME m > 0 PROVE d \in [1 .. m -> Elem \union {Raw}]
                                   /\ Full(p, x.data_)
    OBVIOUS
  <2>2. /\ x.data_ \in H /\ Full(p, x.data_)
        /\ m = capacity_vec[CapOf(p, x.data_)]
    BY <2>1 DEF Mem, VectorOK
  <2>3. Sized(p, x.data_)
    BY <2>2 DEF PoolOK, Laid, Kept, AllSized
  <2>4. QED
    BY <2>2, <2>3 DEF Sized, Data
<1>3. e = [k \in 1 .. n |-> d[k]]
  BY DEF Elements
<1>4. ~is_pod /\ m > 0 => \A k \in DOMAIN d : d[k] # Raw
  BY <1>2 DEF Full
<1> HIDE DEF n, m, d, e
<1>5. \A k \in 1 .. n : k \in 1 .. m /\ m > 0
  BY <1>1
<1>6. \A k \in 1 .. n : k \in DOMAIN d /\ d[k] \in Elem \union {Raw}
  BY <1>2, <1>5
<1>7. \A k \in 1 .. n : k \in DOMAIN d /\ e[k] = d[k]
  BY <1>3, <1>6
<1>8. e \in [1 .. n -> Elem \union {Raw}]
  BY <1>3, <1>6
<1>9. e \in Seq(Elem \union {Raw})
  BY <1>1, <1>8, SeqDef
<1>10. Len(e) = n
  <2>1. Len(e) \in Nat /\ DOMAIN e = 1 .. Len(e)
    BY <1>9, LenProperties
  <2>2. 1 .. Len(e) = 1 .. n
    BY <1>8, <2>1
  <2> DEFINE l == Len(e)
  <2> HIDE DEF l
  <2>3. l \in Nat /\ 1 .. l = 1 .. n
    BY <2>1, <2>2 DEF l
  <2>4. l = n
    BY <2>3, <1>1
  <2>5. QED
    BY <2>4 DEF l
<1>11. ~is_pod => \A k \in 1 .. n : e[k] # Raw
  BY <1>4, <1>5, <1>7
<1>12. QED
  BY <1>1, <1>7, <1>8, <1>9, <1>10, <1>11 DEF n, d, e

(* A vector whose block stays keeps its elements. *)
LEMMA SameBlock ==
  ASSUME NEW p, NEW q, NEW x, VectorOK(x, p),
         \A b \in Mem(x) : q.block[b] = p.block[b]
  PROVE  VectorOK(x, q) /\ Elements(q, x) = Elements(p, x)
<1>1. CASE x.capacity_ > 0
  <2>1. q.block[x.data_] = p.block[x.data_]
    BY <1>1 DEF Mem
  <2>2. QED
    BY <2>1 DEF VectorOK, Full, CapOf, Elements
<1>2. CASE ~(x.capacity_ > 0)
  <2>1. x.length_ = 0
    BY <1>2 DEF VectorOK
  <2>2. 1 .. x.length_ = {}
    BY <2>1
  <2>3. QED
    BY <1>2, <2>2 DEF VectorOK, Elements
<1>3. QED
  BY <1>1, <1>2

(* The pool changes but not the blocks that are held. *)
LEMMA PoolChanges ==
  ASSUME NEW p, NEW vec, Pods(p, vec), NEW q, PoolOK(q, HeldBy(vec)),
         \A b \in HeldBy(vec) : q.block[b] = p.block[b]
  PROVE  Pods(q, vec) /\ VecOf(q, vec) = VecOf(p, vec)
<1>1. ASSUME NEW v \in Vector
      PROVE  VectorOK(vec[v], q) /\ Elements(q, vec[v]) = Elements(p, vec[v])
  <2>1. VectorOK(vec[v], p) /\ Mem(vec[v]) \subseteq HeldBy(vec)
    BY DEF Pods, HeldBy
  <2>2. QED
    BY <2>1, SameBlock
<1>2. VecOf(q, vec) = VecOf(p, vec)
  BY <1>1 DEF VecOf
<1>3. QED
  BY <1>1, <1>2 DEF Pods

(* The vector v becomes x, in a pool where the others keep their blocks.   *)
Others(vec, v) == HeldBy(vec) \ Mem(vec[v])

Replaced(p, q, vec, v, x) ==
  /\ Pods(p, vec)
  /\ x \in [length_ : Nat, capacity_ : Nat, data_ : Addr \union {Null}]
  /\ PoolOK(q, Others(vec, v) \union Mem(x))
  /\ Others(vec, v) \cap Mem(x) = {}
  /\ VectorOK(x, q)
  /\ \A b \in Others(vec, v) : q.block[b] = p.block[b]

LEMMA OthersApart ==
  ASSUME NEW p, NEW vec, Pods(p, vec), NEW v \in Vector
  PROVE  /\ \A w \in Vector \ {v} : Mem(vec[w]) \subseteq Others(vec, v)
         /\ Mem(vec[v]) \subseteq HeldBy(vec)
         /\ HeldBy(vec) = Others(vec, v) \union Mem(vec[v])
         /\ Others(vec, v) = UNION {Mem(vec[w]) : w \in Vector \ {v}}
<1>1. \A w \in Vector \ {v} : Mem(vec[w]) \subseteq HeldBy(vec)
                            /\ Mem(vec[w]) \cap Mem(vec[v]) = {}
  BY DEF Pods, HeldBy
<1>2. Mem(vec[v]) \subseteq HeldBy(vec)
  BY DEF HeldBy
<1>3. \A w \in Vector \ {v} : Mem(vec[w]) \subseteq Others(vec, v)
  BY <1>1 DEF Others
<1>4. HeldBy(vec) = Others(vec, v) \union Mem(vec[v])
  BY <1>2 DEF Others
<1>5. ASSUME NEW b \in Others(vec, v) PROVE \E w \in Vector \ {v} : b \in Mem(vec[w])
  BY DEF Others, HeldBy
<1>6. QED
  BY <1>2, <1>3, <1>4, <1>5

With(f, v, x) == [f EXCEPT ![v] = x]

LEMMA Replace ==
  ASSUME NEW p, NEW q, NEW vec, NEW v \in Vector, NEW x, Replaced(p, q, vec, v, x)
  PROVE  /\ Pods(q, With(vec, v, x))
         /\ VecOf(q, With(vec, v, x)) = With(VecOf(p, vec), v, Elements(q, x))
<1> DEFINE new == With(vec, v, x)
<1>1. Pods(p, vec) /\ DOMAIN vec = Vector
  BY DEF Replaced, Pods
<1>2. /\ new[v] = x /\ \A w \in Vector \ {v} : new[w] = vec[w]
      /\ DOMAIN new = Vector
  BY <1>1 DEF With
<1> HIDE DEF new
<1>3. HeldBy(new) = Others(vec, v) \union Mem(x)
  <2>1. Others(vec, v) = UNION {Mem(vec[w]) : w \in Vector \ {v}}
    BY <1>1, OthersApart
  <2>2. \A b : b \in HeldBy(new) <=> \E w \in Vector : b \in Mem(new[w])
    BY DEF HeldBy
  <2>3. \A b : b \in Others(vec, v) <=> \E w \in Vector \ {v} : b \in Mem(vec[w])
    BY <2>1
  <2>4. \A b : b \in HeldBy(new) <=> b \in Others(vec, v) \/ b \in Mem(x)
    BY <1>2, <2>2, <2>3
  <2>5. QED
    BY <2>4
<1>4. PoolOK(q, HeldBy(new))
  BY <1>3 DEF Replaced
<1>5. new \in [Vector -> [length_ : Nat, capacity_ : Nat, data_ : Addr \union {Null}]]
  BY <1>1 DEF Replaced, Pods, With, new
<1>6. ASSUME NEW w \in Vector \ {v}
      PROVE  /\ VectorOK(new[w], q) /\ Elements(q, new[w]) = Elements(p, vec[w])
             /\ Mem(new[w]) \cap Mem(x) = {}
  <2>1. new[w] = vec[w] /\ VectorOK(vec[w], p) /\ Mem(vec[w]) \subseteq Others(vec, v)
    BY <1>1, <1>2, OthersApart DEF Pods
  <2>2. \A b \in Mem(vec[w]) : q.block[b] = p.block[b]
    BY <2>1 DEF Replaced
  <2>3. VectorOK(vec[w], q) /\ Elements(q, vec[w]) = Elements(p, vec[w])
    BY <2>1, <2>2, SameBlock
  <2>4. Mem(vec[w]) \cap Mem(x) = {}
    BY <2>1 DEF Replaced
  <2>5. QED
    BY <2>1, <2>3, <2>4
<1>7. \A w \in Vector : VectorOK(new[w], q)
  BY <1>2, <1>6 DEF Replaced
<1>8. ASSUME NEW u \in Vector, NEW w \in Vector, u # w
      PROVE  Mem(new[u]) \cap Mem(new[w]) = {}
  <2>1. CASE u = v
    BY <1>2, <1>6, <1>8, <2>1
  <2>2. CASE w = v
    BY <1>2, <1>6, <1>8, <2>2
  <2>3. CASE u # v /\ w # v
    BY <1>1, <1>2, <1>8, <2>3 DEF Pods
  <2>4. QED
    BY <2>1, <2>2, <2>3
<1>9. VecOf(q, new) = With(VecOf(p, vec), v, Elements(q, x))
  BY <1>2, <1>6 DEF VecOf, With
<1>10. QED
  BY <1>4, <1>5, <1>7, <1>8, <1>9 DEF Pods, new

-----------------------------------------------------------------------------
(***************************************************************************)
(* The operations: each keeps the invariant and is an abstract step.       *)
(***************************************************************************)

Uninit == Elem \union {Raw}

(* What every operation finds. *)
LEMMA VectorFacts ==
  ASSUME PodInv, NEW v \in Vector
  PROVE  /\ PoolOK(pool, HeldBy(vector)) /\ VectorOK(vector[v], pool)
         /\ Mem(vector[v]) \subseteq HeldBy(vector)
         /\ vector[v].length_ \in Nat /\ vector[v].capacity_ \in Nat
         /\ DOMAIN vector = Vector /\ DOMAIN VecOf(pool, vector) = Vector
         /\ VecOf(pool, vector)[v] = Elements(pool, vector[v])
<1>1. VectorOK(vector[v], pool) /\ PoolOK(pool, HeldBy(vector)) /\ DOMAIN vector = Vector
  BY DEF PodInv, Pods
<1>2. vector[v].length_ \in Nat /\ vector[v].capacity_ \in Nat
  BY <1>1 DEF VectorOK
<1>3. Mem(vector[v]) \subseteq HeldBy(vector)
  BY DEF HeldBy
<1>4. QED
  BY <1>1, <1>2, <1>3 DEF VecOf

(* A vector of the same block and another length. *)
LEMMA NewLength ==
  ASSUME PodInv, NEW v \in Vector, NEW n \in Nat, n <= vector[v].capacity_,
         NEW x, x = [vector[v] EXCEPT !.length_ = n]
  PROVE  /\ Replaced(pool, pool, vector, v, x)
         /\ x.length_ = n /\ x.data_ = vector[v].data_ /\ x.capacity_ = vector[v].capacity_
         /\ Mem(x) = Mem(vector[v])
<1>1. vector[v] \in [length_ : Nat, capacity_ : Nat, data_ : Addr \union {Null}]
  BY VectorFacts DEF VectorOK
<1>2. /\ x \in [length_ : Nat, capacity_ : Nat, data_ : Addr \union {Null}]
      /\ x.length_ = n /\ x.data_ = vector[v].data_ /\ x.capacity_ = vector[v].capacity_
  BY <1>1
<1>3. Mem(x) = Mem(vector[v]) /\ VectorOK(x, pool)
  BY <1>2, VectorFacts DEF Mem, VectorOK
<1>4. Pods(pool, vector)
  BY DEF PodInv
<1>5. /\ HeldBy(vector) = Others(vector, v) \union Mem(x)
      /\ Others(vector, v) \cap Mem(x) = {}
  BY <1>3, <1>4, OthersApart DEF Others
<1>6. QED
  BY <1>2, <1>3, <1>4, <1>5, VectorFacts DEF Replaced

LEMMA ExtendInPlace ==
  ASSUME PodInv, NEW v \in Vector, NEW n \in Nat,
         vector[v].capacity_ >= vector[v].length_ + n,
         vector' = [vector EXCEPT ![v].length_ = vector[v].length_ + n], pool' = pool
  PROVE  /\ PodInv'
         /\ \E s \in [1 .. vector[v].length_ + n -> Uninit] :
              /\ \A i \in 1 .. vector[v].length_ : s[i] = Elements(pool, vector[v])[i]
              /\ VecOf(pool', vector') = With(VecOf(pool, vector), v, s)
<1> DEFINE m == vector[v].length_
           x == [vector[v] EXCEPT !.length_ = m + n]
           s == Elements(pool, x)
<1>1. m \in Nat /\ m + n \in Nat /\ m + n <= vector[v].capacity_
  BY VectorFacts
<1>2. /\ Replaced(pool, pool, vector, v, x)
      /\ x.length_ = m + n /\ x.data_ = vector[v].data_ /\ Mem(x) = Mem(vector[v])
  BY <1>1, NewLength
<1>3. vector' = With(vector, v, x)
  BY VectorFacts DEF With
<1> HIDE DEF x, m
<1>4. /\ Pods(pool, vector')
      /\ VecOf(pool, vector') = With(VecOf(pool, vector), v, s)
  <2>1. /\ Pods(pool, With(vector, v, x))
        /\ VecOf(pool, With(vector, v, x)) = With(VecOf(pool, vector), v, s)
    BY <1>2, Replace
  <2>2. QED
    BY <1>3, <2>1
<1>5. /\ s \in [1 .. m + n -> Uninit]
      /\ \A k \in 1 .. m + n : s[k] = pool.block[x.data_].data[k]
  BY <1>2, VectorFacts, ElementsType DEF Replaced, Uninit
<1>6. \A i \in 1 .. m : Elements(pool, vector[v])[i] = pool.block[vector[v].data_].data[i]
  BY VectorFacts, ElementsType DEF m
<1>7. \A i \in 1 .. m : i \in 1 .. m + n
  BY <1>1
<1> HIDE DEF s
<1>8. \A i \in 1 .. m : s[i] = Elements(pool, vector[v])[i]
  BY <1>2, <1>5, <1>6, <1>7
<1>9. PodInv'
  BY <1>4 DEF PodInv
<1>10. QED
  BY <1>4, <1>5, <1>8, <1>9 DEF m

(* A vector in a new block of capacity c, which holds its first elements.  *)
NewVector(n, c, a) == [length_ |-> n, capacity_ |-> capacity_vec[c], data_ |-> a]

LEMMA ExtendMoves ==
  ASSUME PodInv, NEW t \in Thread, NEW v \in Vector, NEW n \in Nat \ {0},
         NEW c \in Cap, Fits(vector[v].length_ + n, c), NEW a \in Obtainable(pool, t, c),
         vector' = [vector EXCEPT ![v] = NewVector(vector[v].length_ + n, c, a)],
         pool' = Released(Copied(Obtained(pool, t, c, a), a, vector[v].length_,
                                 Elements(pool, vector[v])), vector[v])
  PROVE  /\ PodInv'
         /\ \E s \in [1 .. vector[v].length_ + n -> Uninit] :
              /\ \A i \in 1 .. vector[v].length_ : s[i] = Elements(pool, vector[v])[i]
              /\ VecOf(pool', vector') = With(VecOf(pool, vector), v, s)
<1> DEFINE m == vector[v].length_
           H == HeldBy(vector)
           old == vector[v]
           x == NewVector(m + n, c, a)
           e == Elements(pool, old)
           p1 == Obtained(pool, t, c, a)
           p2 == Copied(p1, a, m, e)
           q == Released(p2, old)
           s == Elements(q, x)
<1>1. /\ m \in Nat /\ m + n \in Nat /\ capacity_vec[c] \in Nat \ {0}
      /\ m + n <= capacity_vec[c] /\ m <= capacity_vec[c]
  <2>1. m \in Nat /\ capacity_vec[c] \in Nat \ {0} /\ capacity_vec[c] >= m + n
    BY VectorFacts, ThreadCapAssumption DEF Fits
  <2>2. QED
    BY <2>1
<1>2. /\ PoolOK(pool, H) /\ VectorOK(old, pool) /\ Mem(old) \subseteq H
      /\ vector' = With(vector, v, x) /\ pool' = q
  BY VectorFacts DEF With
<1>3. /\ \A k \in 1 .. m : e[k] \in Elem \union {Raw}
      /\ ~is_pod => \A k \in 1 .. m : e[k] # Raw
  BY <1>2, ElementsType
<1> HIDE DEF e
<1>4. /\ PoolOK(p1, H \union {a})
      /\ a \in Addr /\ a \notin H /\ Full(p1, a) /\ CapOf(p1, a) = c
      /\ \A b \in Addr : b # a => p1.block[b] = pool.block[b]
  BY <1>2, ObtainedKeeps
<1> HIDE DEF p1
<1>5. /\ PoolOK(p2, H \union {a}) /\ Full(p2, a) /\ CapOf(p2, a) = c
      /\ \A k \in 1 .. m : p2.block[a].data[k] = e[k]
      /\ \A b \in Addr : b # a => p2.block[b] = p1.block[b]
  <2>1. a \in H \union {a} /\ m <= capacity_vec[CapOf(p1, a)]
    BY <1>1, <1>4
  <2>2. Copyable(e, m)
    BY <1>3 DEF Copyable
  <2> HIDE DEF m, H
  <2>3. Rewritten(p1, Copied(p1, a, m, e), H \union {a}, a, m, e)
    BY <1>1, <1>4, <2>1, <2>2, CopiedKeeps
  <2>4. QED
    BY <1>4, <2>3 DEF Rewritten
<1> HIDE DEF p2
<1>6. H \subseteq Addr
  BY <1>2 DEF PoolOK, Laid, Kept
<1>7. \A b \in H : p2.block[b] = pool.block[b] /\ b # a
  BY <1>4, <1>5, <1>6
<1>8. VectorOK(old, p2)
  <2>1. \A b \in Mem(old) : p2.block[b] = pool.block[b]
    BY <1>2, <1>7
  <2>2. QED
    BY <1>2, <2>1, SameBlock
<1>9. /\ PoolOK(q, (H \union {a}) \ Mem(old))
      /\ \A b \in Addr : b \notin Mem(old) => q.block[b] = p2.block[b]
  <2>1. Mem(old) \subseteq H \union {a}
    BY <1>2
  <2> HIDE DEF old, H
  <2>2. QED
    BY <1>5, <1>8, <2>1, ReleasedKeeps
<1> HIDE DEF q
<1>10. q.block[a] = p2.block[a]
  BY <1>2, <1>4, <1>9
<1>11. /\ x.length_ = m + n /\ x.capacity_ = capacity_vec[c] /\ x.data_ = a
       /\ x \in [length_ : Nat, capacity_ : Nat, data_ : Addr \union {Null}]
  BY <1>1, <1>4 DEF NewVector
<1> HIDE DEF x
<1>12. Mem(x) = {a} /\ VectorOK(x, q)
  <2>1. x.capacity_ > 0
    BY <1>1, <1>11
  <2>2. Full(q, a) /\ CapOf(q, a) = c
    BY <1>5, <1>10 DEF Full, CapOf
  <2>3. QED
    BY <1>1, <1>4, <1>11, <2>1, <2>2 DEF Mem, VectorOK
<1>13. /\ (H \union {a}) \ Mem(old) = Others(vector, v) \union Mem(x)
       /\ Others(vector, v) \cap Mem(x) = {}
  BY <1>2, <1>4, <1>12 DEF Others
<1>14. \A b \in Others(vector, v) : q.block[b] = pool.block[b]
  BY <1>6, <1>7, <1>9 DEF Others
<1>15. Replaced(pool, q, vector, v, x)
  <2>1. PoolOK(q, Others(vector, v) \union Mem(x))
    BY <1>9, <1>13
  <2>2. QED
    BY <1>11, <1>12, <1>13, <1>14, <2>1 DEF Replaced, PodInv
<1>16. /\ Pods(q, vector')
       /\ VecOf(q, vector') = With(VecOf(pool, vector), v, s)
  <2>1. /\ Pods(q, With(vector, v, x))
        /\ VecOf(q, With(vector, v, x)) = With(VecOf(pool, vector), v, s)
    BY <1>15, Replace
  <2>2. QED
    BY <1>2, <2>1
<1>17. /\ s \in [1 .. m + n -> Uninit]
       /\ \A k \in 1 .. m + n : s[k] = q.block[a].data[k]
  <2>1. Mem(x) \subseteq Others(vector, v) \union Mem(x)
    OBVIOUS
  <2>2. /\ s \in [1 .. x.length_ -> Elem \union {Raw}]
        /\ \A k \in 1 .. x.length_ : s[k] = q.block[x.data_].data[k]
    BY <1>12, <1>15, <2>1, ElementsType DEF Replaced
  <2>3. QED
    BY <1>11, <2>2 DEF Uninit
<1>18. \A i \in 1 .. m : i \in 1 .. m + n
  BY <1>1
<1> HIDE DEF s
<1>19. \A i \in 1 .. m : s[i] = e[i]
  BY <1>5, <1>10, <1>17, <1>18
<1>20. PodInv'
  BY <1>2, <1>16 DEF PodInv
<1>21. QED
  BY <1>2, <1>16, <1>17, <1>19, <1>20 DEF m, e, old

(* The vector v becomes s, and the invariant is kept. *)
Becomes(v, s) ==
  PodInv' /\ VecOf(pool', vector') = With(VecOf(pool, vector), v, s)

LEMMA EraseStep ==
  ASSUME PodInv, NEW v \in Vector,
         vector' = [vector EXCEPT ![v].length_ = 0], pool' = pool
  PROVE  Becomes(v, <<>>)
<1> DEFINE x == [vector[v] EXCEPT !.length_ = 0]
<1>1. 0 <= vector[v].capacity_
  BY VectorFacts
<1>2. Replaced(pool, pool, vector, v, x) /\ x.length_ = 0
  BY <1>1, NewLength
<1>3. vector' = With(vector, v, x)
  BY VectorFacts DEF With
<1> HIDE DEF x
<1>4. /\ Pods(pool, With(vector, v, x))
      /\ VecOf(pool, With(vector, v, x)) = With(VecOf(pool, vector), v, Elements(pool, x))
  BY <1>2, Replace
<1>5. Elements(pool, x) = <<>>
  BY <1>2 DEF Elements
<1>6. QED
  BY <1>3, <1>4, <1>5 DEF Becomes, PodInv

LEMMA FreeStep ==
  ASSUME PodInv, NEW v \in Vector,
         pool' = Released(pool, vector[v]), vector' = [vector EXCEPT ![v] = Empty]
  PROVE  Becomes(v, <<>>)
<1> DEFINE q == Released(pool, vector[v])
           x == Empty
<1>1. vector' = With(vector, v, x) /\ pool' = q
  BY DEF With
<1>2. /\ PoolOK(q, HeldBy(vector) \ Mem(vector[v]))
      /\ \A b \in Addr : b \notin Mem(vector[v]) => q.block[b] = pool.block[b]
  BY VectorFacts, ReleasedKeeps
<1> HIDE DEF q
<1>3. HeldBy(vector) \subseteq Addr
  BY VectorFacts DEF PoolOK, Laid, Kept
<1>4. \A b \in Others(vector, v) : q.block[b] = pool.block[b]
  BY <1>2, <1>3 DEF Others
<1>5. /\ x \in [length_ : Nat, capacity_ : Nat, data_ : Addr \union {Null}]
      /\ Mem(x) = {} /\ VectorOK(x, q) /\ x.length_ = 0
  BY DEF Empty, Mem, VectorOK
<1> HIDE DEF x
<1>6. Replaced(pool, q, vector, v, x)
  <2>1. /\ Others(vector, v) \union Mem(x) = HeldBy(vector) \ Mem(vector[v])
        /\ Others(vector, v) \cap Mem(x) = {}
    BY <1>5 DEF Others
  <2>2. QED
    BY <1>2, <1>4, <1>5, <2>1 DEF Replaced, PodInv
<1>7. /\ Pods(q, With(vector, v, x))
      /\ VecOf(q, With(vector, v, x)) = With(VecOf(pool, vector), v, Elements(q, x))
  BY <1>6, Replace
<1>8. Elements(q, x) = <<>>
  BY <1>5 DEF Elements
<1>9. QED
  BY <1>1, <1>7, <1>8 DEF Becomes, PodInv

(* A vector with the block it has and elements copied to it. *)
CopiedInto(p, H, x, s) ==
  LET q == Copied(p, x.data_, x.length_, s)
  IN  /\ PoolOK(q, H) /\ VectorOK(x, q) /\ Elements(q, x) = s
      /\ \A b \in Addr : b # x.data_ => q.block[b] = p.block[b]

LEMMA CopyReplaces ==
  ASSUME NEW p, NEW H, PoolOK(p, H), NEW x, VectorOK(x, p), Mem(x) \subseteq H,
         x.capacity_ > 0, NEW s \in [1 .. x.length_ -> Uninit],
         Copyable(s, x.length_)
  PROVE  CopiedInto(p, H, x, s)
<1> DEFINE q == Copied(p, x.data_, x.length_, s)
           n == x.length_
           a == x.data_
<1>1. /\ n \in Nat /\ n <= x.capacity_ /\ x.capacity_ = capacity_vec[CapOf(p, a)]
      /\ a \in H /\ a \in Addr /\ Full(p, a) /\ Mem(x) = {a}
  BY DEF VectorOK, Mem
<1>2. Copyable(s, n)
  OBVIOUS
<1>3. n <= capacity_vec[CapOf(p, a)]
  BY <1>1
<1> HIDE DEF n, a, q
<1>4. /\ PoolOK(q, H) /\ Full(q, a) /\ CapOf(q, a) = CapOf(p, a)
      /\ \A k \in 1 .. n : q.block[a].data[k] = s[k]
      /\ \A b \in Addr : b # a => q.block[b] = p.block[b]
  <2>1. q = Copied(p, a, n, s) /\ Copyable(s, n)
    BY <1>2 DEF n, a, q
  <2>2. n \in Nat /\ a \in H /\ Full(p, a)
    BY <1>1
  <2>3. Rewritten(p, Copied(p, a, n, s), H, a, n, s)
    BY <1>3, <2>1, <2>2, CopiedKeeps
  <2>4. QED
    BY <2>1, <2>3 DEF Rewritten
<1>5. VectorOK(x, q)
  BY <1>1, <1>4 DEF VectorOK, a
<1>6. Elements(q, x) = s
  <2>1. Elements(q, x) = [k \in 1 .. n |-> q.block[a].data[k]]
    BY DEF Elements, n, a
  <2>2. s = [k \in 1 .. n |-> s[k]]
    BY DEF n
  <2>3. QED
    BY <1>4, <2>1, <2>2
<1>7. QED
  BY <1>4, <1>5, <1>6 DEF a, q, CopiedInto

LEMMA AssignInPlace ==
  ASSUME PodInv, NEW v \in Vector, NEW w \in Vector,
         vector[w].length_ <= vector[v].capacity_,
         vector' = [vector EXCEPT ![v].length_ = vector[w].length_],
         pool' = IF vector[w].length_ = 0 THEN pool
                 ELSE Copied(pool, vector[v].data_, vector[w].length_,
                             Elements(pool, vector[w]))
  PROVE  Becomes(v, Elements(pool, vector[w]))
<1> DEFINE n == vector[w].length_
           x == [vector[v] EXCEPT !.length_ = n]
           s == Elements(pool, vector[w])
<1>1. n \in Nat /\ s \in [1 .. n -> Uninit] /\ Copyable(s, n)
  BY VectorFacts, ElementsType DEF Uninit, Copyable
<1>2. /\ Replaced(pool, pool, vector, v, x) /\ x.length_ = n
      /\ x.data_ = vector[v].data_ /\ x.capacity_ = vector[v].capacity_
      /\ Mem(x) = Mem(vector[v])
  BY <1>1, NewLength
<1>3. vector' = With(vector, v, x)
  BY VectorFacts DEF With
<1> HIDE DEF x, s, n
<1>4. CASE n = 0
  <2>1. pool' = pool
    BY <1>4 DEF n
  <2>2. s = <<>>
    BY <1>1, <1>4
  <2>3. Elements(pool, x) = <<>>
    BY <1>2, <1>4 DEF Elements
  <2>4. /\ Pods(pool, With(vector, v, x))
        /\ VecOf(pool, With(vector, v, x)) = With(VecOf(pool, vector), v, Elements(pool, x))
    BY <1>2, Replace
  <2>5. QED
    BY <1>3, <2>1, <2>2, <2>3, <2>4 DEF Becomes, PodInv, s
<1>5. CASE n # 0
  <2> DEFINE q == Copied(pool, x.data_, x.length_, s)
  <2>1. pool' = q
    BY <1>2, <1>5 DEF n, s
  <2>2. /\ VectorOK(x, pool) /\ Mem(x) \subseteq HeldBy(vector)
        /\ PoolOK(pool, HeldBy(vector)) /\ x.capacity_ > 0
    <3>1. x.capacity_ >= n /\ x.capacity_ \in Nat
      BY <1>2, VectorFacts DEF n
    <3>2. x.capacity_ > 0
      BY <1>1, <1>5, <3>1
    <3>3. QED
      BY <1>2, <3>2, VectorFacts DEF Replaced
  <2>3. /\ PoolOK(q, HeldBy(vector)) /\ VectorOK(x, q) /\ Elements(q, x) = s
        /\ \A b \in Addr : b # x.data_ => q.block[b] = pool.block[b]
    BY <1>1, <1>2, <2>2, CopyReplaces DEF CopiedInto
  <2> HIDE DEF q
  <2>4. Replaced(pool, q, vector, v, x)
    <3>1. HeldBy(vector) = Others(vector, v) \union Mem(x)
      BY <1>2, OthersApart DEF PodInv
    <3>2. HeldBy(vector) \subseteq Addr
      BY VectorFacts DEF PoolOK, Laid, Kept
    <3>3. \A b \in Others(vector, v) : q.block[b] = pool.block[b]
      <4>1. Mem(x) = {x.data_}
        BY <2>2 DEF Mem
      <4>2. \A b \in Others(vector, v) : b # x.data_ /\ b \in Addr
        BY <1>2, <3>2, <4>1 DEF Others
      <4>3. QED
        BY <2>3, <4>2
    <3>4. QED
      BY <1>2, <2>3, <3>1, <3>3 DEF Replaced
  <2>5. /\ Pods(q, With(vector, v, x))
        /\ VecOf(q, With(vector, v, x)) = With(VecOf(pool, vector), v, Elements(q, x))
    BY <2>4, Replace
  <2>6. QED
    BY <1>3, <2>1, <2>3, <2>5 DEF Becomes, PodInv, s
<1>6. QED
  BY <1>4, <1>5

LEMMA AssignMoves ==
  ASSUME PodInv, NEW t \in Thread, NEW v \in Vector, NEW w \in Vector,
         vector[w].length_ > vector[v].capacity_,
         NEW c \in Cap, Fits(vector[w].length_, c),
         NEW a \in Obtainable(Released(pool, vector[v]), t, c),
         vector' = [vector EXCEPT ![v] = NewVector(vector[w].length_, c, a)],
         pool' = Copied(Obtained(Released(pool, vector[v]), t, c, a), a,
                        vector[w].length_, Elements(pool, vector[w]))
  PROVE  Becomes(v, Elements(pool, vector[w]))
<1> DEFINE n == vector[w].length_
           H == HeldBy(vector)
           s == Elements(pool, vector[w])
           x == NewVector(n, c, a)
           rest == Others(vector, v)
           back == Released(pool, vector[v])
           p1 == Obtained(back, t, c, a)
           q == Copied(p1, x.data_, x.length_, s)
<1>1. n \in Nat /\ s \in [1 .. n -> Uninit] /\ Copyable(s, n)
  BY VectorFacts, ElementsType DEF Uninit, Copyable
<1>2. capacity_vec[c] \in Nat \ {0} /\ n <= capacity_vec[c]
  BY <1>1, ThreadCapAssumption DEF Fits
<1>3. x.length_ = n /\ x.capacity_ = capacity_vec[c] /\ x.data_ = a
  BY DEF NewVector
<1>4. vector' = With(vector, v, x) /\ pool' = q
  BY <1>3 DEF With
<1> HIDE DEF n, s
<1>5. /\ PoolOK(back, rest)
      /\ \A b \in Addr : b \notin Mem(vector[v]) => back.block[b] = pool.block[b]
  BY VectorFacts, ReleasedKeeps DEF Others
<1> HIDE DEF back, rest
<1>6. /\ PoolOK(p1, rest \union {a})
      /\ a \in Addr /\ a \notin rest /\ Full(p1, a) /\ CapOf(p1, a) = c
      /\ \A b \in Addr : b # a => p1.block[b] = back.block[b]
  <2>1. a \in Obtainable(back, t, c)
    BY DEF back
  <2>2. QED
    BY <1>5, <2>1, ObtainedKeeps
<1>7. x \in [length_ : Nat, capacity_ : Nat, data_ : Addr \union {Null}]
  BY <1>1, <1>2, <1>6 DEF NewVector
<1> HIDE DEF p1, x
<1>8. VectorOK(x, p1) /\ Mem(x) = {a} /\ x.capacity_ > 0
  <2>1. x.capacity_ > 0
    BY <1>2, <1>3
  <2>2. QED
    BY <1>2, <1>3, <1>6, <1>7, <2>1 DEF VectorOK, Mem
<1>9. /\ PoolOK(q, rest \union {a}) /\ VectorOK(x, q) /\ Elements(q, x) = s
      /\ \A b \in Addr : b # a => q.block[b] = p1.block[b]
  <2>1. Mem(x) \subseteq rest \union {a}
    BY <1>8
  <2>2. s \in [1 .. x.length_ -> Uninit] /\ Copyable(s, x.length_)
    BY <1>1, <1>3
  <2>3. PoolOK(p1, rest \union {a})
    BY <1>6
  <2>4. CopiedInto(p1, rest \union {a}, x, s)
    BY <1>8, <2>1, <2>2, <2>3, CopyReplaces
  <2>5. QED
    BY <1>3, <2>4 DEF CopiedInto
<1> HIDE DEF q
<1>10. \A b \in rest : q.block[b] = pool.block[b]
  <2>1. \A b \in rest : b \in Addr /\ b # a /\ b \notin Mem(vector[v])
    BY <1>5, <1>6 DEF PoolOK, Laid, Kept, rest, Others
  <2>2. QED
    BY <1>5, <1>6, <1>9, <2>1
<1>11. Replaced(pool, q, vector, v, x)
  BY <1>6, <1>7, <1>8, <1>9, <1>10 DEF Replaced, PodInv, rest
<1>12. /\ Pods(q, With(vector, v, x))
       /\ VecOf(q, With(vector, v, x)) = With(VecOf(pool, vector), v, Elements(q, x))
  BY <1>11, Replace
<1>13. QED
  BY <1>4, <1>9, <1>12 DEF Becomes, PodInv, s

LEMMA WriteStep ==
  ASSUME PodInv, NEW v \in Vector, NEW i \in 1 .. vector[v].length_, NEW e \in Elem,
         vector' = vector, pool' = [pool EXCEPT !.block[vector[v].data_].data[i] = e]
  PROVE  Becomes(v, [Elements(pool, vector[v]) EXCEPT ![i] = e])
<1> DEFINE x == vector[v]
           a == x.data_
           H == HeldBy(vector)
           d == pool.block[a].data
           new == [d EXCEPT ![i] = e]
           q == WithData(pool, a, new)
<1>1. /\ PoolOK(pool, H) /\ VectorOK(x, pool) /\ Mem(x) \subseteq H
      /\ x.length_ \in Nat /\ x.capacity_ \in Nat
  BY VectorFacts
<1>2. x.capacity_ > 0 /\ x.length_ <= x.capacity_ /\ i \in 1 .. x.capacity_
  <2>1. x.length_ <= x.capacity_
    BY <1>1 DEF VectorOK
  <2> HIDE DEF x
  <2>2. i \in 1 .. x.length_
    BY DEF x
  <2>3. QED
    BY <1>1, <2>1, <2>2
<1>3. Mem(x) = {a} /\ a \in H /\ a \in Addr /\ Full(pool, a)
      /\ x.capacity_ = capacity_vec[CapOf(pool, a)]
  BY <1>1, <1>2 DEF Mem, VectorOK
<1>4. Sized(pool, a)
  BY <1>1, <1>3 DEF PoolOK, Laid, Kept, AllSized
<1>5. d \in [1 .. x.capacity_ -> Elem \union {Raw}]
  BY <1>3, <1>4 DEF Sized, Data
<1>6. pool' = q
  <2>1. /\ DOMAIN pool = {"info", "block"} /\ DOMAIN pool.block = Addr
        /\ pool.block[a] \in Block
    BY <1>1, <1>4 DEF PoolOK, Laid, Shape, Sized
  <2>2. QED
    BY <1>3, <2>1 DEF WithData, Block
<1> HIDE DEF d
<1>7. /\ new \in [1 .. x.capacity_ -> Elem \union {Raw}]
      /\ new[i] = e /\ \A k \in 1 .. x.capacity_ : k # i => new[k] = d[k]
  BY <1>2, <1>5
<1>8. new \in Data(CapOf(pool, a))
  BY <1>3, <1>7 DEF Data
<1> HIDE DEF new
<1>9. /\ PoolOK(q, H) /\ q.block[a].data = new /\ CapOf(q, a) = CapOf(pool, a)
      /\ \A b \in Addr : b # a => q.block[b] = pool.block[b]
  <2> HIDE DEF x, a, H
  <2>1. QED
    BY <1>1, <1>3, <1>8, DataKeeps
<1> HIDE DEF q
<1>10. Full(q, a)
  <2>1. SUFFICES ASSUME ~is_pod, NEW k \in 1 .. x.capacity_ PROVE new[k] # Raw
    BY <1>7, <1>9 DEF Full
  <2>2. d[k] # Raw
    BY <1>3, <1>5, <2>1 DEF Full, d
  <2>3. e # Raw
    BY ElemAssumption
  <2>4. QED
    BY <1>7, <2>2, <2>3
<1>11. VectorOK(x, q)
  BY <1>1, <1>3, <1>9, <1>10 DEF VectorOK
<1>12. Elements(q, x) = [Elements(pool, x) EXCEPT ![i] = e]
  <2>1. /\ Elements(q, x) = [k \in 1 .. x.length_ |-> new[k]]
        /\ Elements(pool, x) = [k \in 1 .. x.length_ |-> d[k]]
    BY <1>9 DEF Elements, d
  <2>2. \A k \in 1 .. x.length_ : k \in 1 .. x.capacity_
    <3> HIDE DEF x
    <3>1. QED
      BY <1>1, <1>2
  <2>3. \A k \in 1 .. x.length_ : new[k] = IF k = i THEN e ELSE d[k]
    BY <1>7, <2>2
  <2>4. QED
    BY <2>1, <2>3
<1>13. Replaced(pool, q, vector, v, x)
  <2>1. H = Others(vector, v) \union Mem(x) /\ Others(vector, v) \cap Mem(x) = {}
    BY OthersApart DEF PodInv, Others
  <2>2. \A b \in Others(vector, v) : b # a /\ b \in Addr
    BY <1>1, <1>3 DEF PoolOK, Laid, Kept, Others
  <2>3. PoolOK(q, Others(vector, v) \union Mem(x))
    BY <1>9, <2>1
  <2>4. x \in [length_ : Nat, capacity_ : Nat, data_ : Addr \union {Null}]
    BY <1>1 DEF VectorOK
  <2>5. QED
    BY <1>9, <1>11, <2>1, <2>2, <2>3, <2>4 DEF Replaced, PodInv
<1>14. /\ Pods(q, With(vector, v, x))
       /\ VecOf(q, With(vector, v, x)) = With(VecOf(pool, vector), v, Elements(q, x))
  BY <1>13, Replace
<1>15. With(vector, v, x) = vector
  <2>1. vector = [u \in Vector |-> vector[u]]
    BY DEF PodInv, Pods
  <2>2. QED
    BY <2>1 DEF With
<1>16. QED
  BY <1>6, <1>12, <1>14, <1>15 DEF Becomes, PodInv

LEMMA SwapStep ==
  ASSUME PodInv, NEW v \in Vector, NEW w \in Vector, pool' = pool,
         vector' = [vector EXCEPT ![v] = vector[w], ![w] = vector[v]]
  PROVE  /\ PodInv'
         /\ VecOf(pool', vector') = [VecOf(pool, vector) EXCEPT
                                       ![v] = VecOf(pool, vector)[w],
                                       ![w] = VecOf(pool, vector)[v]]
<1> DEFINE new == [vector EXCEPT ![v] = vector[w], ![w] = vector[v]]
           Other(u) == IF u = v THEN w ELSE IF u = w THEN v ELSE u
<1>1. Pods(pool, vector) /\ DOMAIN vector = Vector
  BY DEF PodInv, Pods
<1>2. \A u \in Vector : Other(u) \in Vector /\ new[u] = vector[Other(u)]
  BY <1>1
<1>3. \A u \in Vector : Other(Other(u)) = u
  OBVIOUS
<1>4. new \in [Vector -> [length_ : Nat, capacity_ : Nat, data_ : Addr \union {Null}]]
  BY <1>1 DEF Pods
<1> HIDE DEF new, Other
<1>5. HeldBy(new) = HeldBy(vector)
  <2>1. \A b : b \in HeldBy(new) <=> \E u \in Vector : b \in Mem(new[u])
    BY DEF HeldBy
  <2>2. \A b : b \in HeldBy(vector) <=> \E u \in Vector : b \in Mem(vector[u])
    BY DEF HeldBy
  <2>3. \A u \in Vector : vector[u] = new[Other(u)]
    BY <1>2, <1>3
  <2>4. QED
    BY <1>2, <2>1, <2>2, <2>3
<1>6. Pods(pool, new)
  <2>1. \A u \in Vector : VectorOK(new[u], pool)
    BY <1>1, <1>2 DEF Pods
  <2>2. ASSUME NEW u \in Vector, NEW z \in Vector, u # z
        PROVE  Mem(new[u]) \cap Mem(new[z]) = {}
    <3>1. Other(u) # Other(z)
      BY <1>3, <2>2
    <3>2. QED
      BY <1>1, <1>2, <3>1 DEF Pods
  <2>3. QED
    BY <1>1, <1>4, <1>5, <2>1, <2>2 DEF Pods
<1>7. VecOf(pool, new) = [VecOf(pool, vector) EXCEPT ![v] = VecOf(pool, vector)[w],
                                                     ![w] = VecOf(pool, vector)[v]]
  BY <1>1 DEF VecOf, new
<1>8. QED
  BY <1>6, <1>7 DEF PodInv, new

-----------------------------------------------------------------------------
(***************************************************************************)
(* The specification.                                                      *)
(***************************************************************************)

(* The refinement mapping, before and after a step. *)
Mapped == [v \in Vector |-> Elements(pool, vector[v])]

LEMMA MappedIs ==
  Mapped = VecOf(pool, vector) /\ Mapped' = VecOf(pool', vector')
  BY DEF Mapped, VecOf, Elements

(* A vector that becomes empty was cleared. *)
LEMMA BecomesClear ==
  ASSUME NEW v \in Vector, Becomes(v, <<>>)
  PROVE  PodInv' /\ Vectors_!Clear(v)
<1>1. PodInv' /\ Mapped' = [Mapped EXCEPT ![v] = <<>>]
  BY MappedIs DEF Becomes, With
<1>2. QED
  BY <1>1 DEF Mapped, Vectors_!Clear

LEMMA ExtendIs ==
  ASSUME PodInv, NEW t \in Thread, NEW v \in Vector, NEW n \in 1 .. MaxLength,
         extend(t, v, n)
  PROVE  PodInv' /\ Vectors_!Extend(v, n)
<1> DEFINE m == vector[v].length_
           e == Elements(pool, vector[v])
<1>1. n \in Nat \ {0} /\ n \in Nat /\ m \in Nat /\ MaxLength \in Nat
  BY ElemAssumption, VectorFacts
<1>2. m + n <= MaxLength
  BY DEF extend
<1>3. /\ PodInv'
      /\ \E s \in [1 .. m + n -> Uninit] :
           /\ \A i \in 1 .. m : s[i] = e[i]
           /\ VecOf(pool', vector') = With(VecOf(pool, vector), v, s)
  <2>1. CASE /\ vector[v].capacity_ >= m + n
             /\ vector' = [vector EXCEPT ![v].length_ = m + n]
             /\ UNCHANGED pool
    BY <1>1, <2>1, ExtendInPlace
  <2>2. ASSUME NEW c \in Cap, Fits(m + n, c), NEW a \in Obtainable(pool, t, c),
               vector' = [vector EXCEPT ![v] =
                 [length_ |-> m + n, capacity_ |-> capacity_vec[c], data_ |-> a]],
               pool' = Released(Copied(Obtained(pool, t, c, a), a, m, e), vector[v])
        PROVE  /\ PodInv'
               /\ \E s \in [1 .. m + n -> Uninit] :
                    /\ \A i \in 1 .. m : s[i] = e[i]
                    /\ VecOf(pool', vector') = With(VecOf(pool, vector), v, s)
    <3>1. vector' = [vector EXCEPT ![v] = NewVector(m + n, c, a)]
      BY <2>2 DEF NewVector
    <3>2. QED
      BY <1>1, <2>2, <3>1, ExtendMoves
  <2>3. QED
    BY <2>1, <2>2 DEF extend
<1>4. Len(Mapped[v]) = m /\ Mapped[v] = e
  BY VectorFacts, ElementsType, MappedIs
<1> HIDE DEF m, e
<1>5. \E s \in [1 .. Len(Mapped[v]) + n -> Elem \union {Raw}] :
        /\ \A i \in 1 .. Len(Mapped[v]) : s[i] = Mapped[v][i]
        /\ Mapped' = [Mapped EXCEPT ![v] = s]
  BY <1>3, <1>4, MappedIs DEF With, Uninit
<1>6. Len(Mapped[v]) + n <= MaxLength
  BY <1>2, <1>4
<1>7. QED
  BY <1>3, <1>5, <1>6 DEF Mapped, Vectors_!Extend

LEMMA AssignIs ==
  ASSUME PodInv, NEW t \in Thread, NEW v \in Vector, NEW w \in Vector, Assign(t, v, w)
  PROVE  PodInv' /\ Vectors_!Assign(v, w)
<1> DEFINE n == vector[w].length_
           e == Elements(pool, vector[w])
           back == Released(pool, vector[v])
<1>1. Becomes(v, e)
  <2>1. CASE /\ n <= vector[v].capacity_
             /\ vector' = [vector EXCEPT ![v].length_ = n]
             /\ pool' = IF n = 0 THEN pool ELSE Copied(pool, vector[v].data_, n, e)
    BY <2>1, AssignInPlace
  <2>2. ASSUME n > vector[v].capacity_,
               NEW c \in Cap, Fits(n, c), NEW a \in Obtainable(back, t, c),
               vector' = [vector EXCEPT ![v] =
                 [length_ |-> n, capacity_ |-> capacity_vec[c], data_ |-> a]],
               pool' = Copied(Obtained(back, t, c, a), a, n, e)
        PROVE  Becomes(v, e)
    <3>1. vector' = [vector EXCEPT ![v] = NewVector(n, c, a)]
      BY <2>2 DEF NewVector
    <3>2. QED
      BY <2>2, <3>1, AssignMoves
  <2>3. QED
    BY <2>1, <2>2 DEF Assign
<1>2. PodInv' /\ Mapped' = [Mapped EXCEPT ![v] = Mapped[w]]
  <2>1. Mapped[w] = e
    BY VectorFacts, MappedIs
  <2>2. QED
    BY <1>1, <2>1, MappedIs DEF Becomes, With
<1>3. QED
  BY <1>2 DEF Mapped, Vectors_!Assign

(* Whatever the pools do by themselves shows in no vector. *)
LEMMA PoolStep ==
  ASSUME PodInv, vector' = vector, PoolOK(pool', HeldBy(vector)),
         \A b \in HeldBy(vector) : pool'.block[b] = pool.block[b]
  PROVE  PodInv' /\ Mapped' = Mapped
<1> DEFINE q == pool'
<1>1. PoolOK(q, HeldBy(vector)) /\ \A b \in HeldBy(vector) : q.block[b] = pool.block[b]
  OBVIOUS
<1> HIDE DEF q
<1>2. Pods(q, vector) /\ VecOf(q, vector) = VecOf(pool, vector)
  BY <1>1, PoolChanges DEF PodInv
<1>3. QED
  BY <1>2, MappedIs DEF PodInv, q

LEMMA StepIs ==
  ASSUME PodInv, [Next]_vars
  PROVE  PodInv' /\ [Vectors_!Next]_Mapped
<1>1. 0 \in Thread /\ 0 \in Cap
  BY ThreadCapAssumption DEF Thread, Cap
<1>2. PoolOK(pool, HeldBy(vector))
  BY DEF PodInv, Pods
<1>3. ASSUME NEW t \in Thread, NEW v \in Vector, NEW n \in 1 .. MaxLength, Extend(t, v, n)
      PROVE  PodInv' /\ [Vectors_!Next]_Mapped
  BY <1>3, ExtendIs DEF Extend, Vectors_!Next
<1>4. ASSUME NEW t \in Thread, NEW v \in Vector, NEW w \in Vector, Assign(t, v, w)
      PROVE  PodInv' /\ [Vectors_!Next]_Mapped
  BY <1>4, AssignIs DEF Vectors_!Next
<1>5. ASSUME NEW t \in Thread, NEW v \in Vector, FreeVector(t, v)
      PROVE  PodInv' /\ [Vectors_!Next]_Mapped
  BY <1>5, FreeStep, BecomesClear DEF FreeVector, Vectors_!Next
<1>6. ASSUME NEW t \in Thread, NEW u \in Thread, FreeAvailable(t, u)
      PROVE  PodInv' /\ [Vectors_!Next]_Mapped
  <2>1. pool' = free_available(pool, u) /\ vector' = vector
    BY <1>6 DEF FreeAvailable
  <2>2. /\ PoolOK(pool', HeldBy(vector))
        /\ \A b \in HeldBy(vector) : pool'.block[b] = pool.block[b]
    BY <1>2, <2>1, FreeAvailableKeeps
  <2>3. QED
    BY <2>1, <2>2, PoolStep
<1>7. ASSUME NEW v \in Vector, Erase(v)
      PROVE  PodInv' /\ [Vectors_!Next]_Mapped
  BY <1>7, EraseStep, BecomesClear DEF Erase, Vectors_!Next
<1>8. ASSUME NEW v \in Vector, NEW w \in Vector, Swap(v, w)
      PROVE  PodInv' /\ [Vectors_!Next]_Mapped
  <2>1. PodInv' /\ Mapped' = [Mapped EXCEPT ![v] = Mapped[w], ![w] = Mapped[v]]
    BY <1>8, SwapStep, MappedIs DEF Swap
  <2>2. Vectors_!Swap(v, w)
    BY <2>1 DEF Mapped, Vectors_!Swap
  <2>3. QED
    BY <2>1, <2>2 DEF Vectors_!Next
<1>9. ASSUME NEW v \in Vector, NEW i \in 1 .. MaxLength, NEW e \in Elem, Write(v, i, e)
      PROVE  PodInv' /\ [Vectors_!Next]_Mapped
  <2>1. i \in 1 .. vector[v].length_ /\ Becomes(v, [Elements(pool, vector[v]) EXCEPT ![i] = e])
    BY <1>9, WriteStep DEF Write
  <2>2. /\ Mapped[v] = Elements(pool, vector[v])
        /\ Len(Elements(pool, vector[v])) = vector[v].length_
    BY VectorFacts, ElementsType, MappedIs
  <2>3. /\ PodInv' /\ Mapped' = [Mapped EXCEPT ![v] = [@ EXCEPT ![i] = e]]
        /\ i \in 1 .. Len(Mapped[v])
    BY <2>1, <2>2, MappedIs DEF Becomes, With
  <2>4. Vectors_!Write(v, i, e)
    BY <2>3 DEF Mapped, Vectors_!Write
  <2>5. QED
    BY <2>3, <2>4 DEF Vectors_!Next
<1>10. ASSUME UNCHANGED <<pool, vector>>
       PROVE  PodInv' /\ Mapped' = Mapped
  BY <1>10, MappedIs DEF PodInv
<1>11. ASSUME NEW value \in BOOLEAN, HoldMemory(value)
       PROVE  PodInv' /\ [Vectors_!Next]_Mapped
  BY <1>10, <1>11 DEF HoldMemory
<1>12. CASE FreeAll
  <2>1. pool' = free_all(pool) /\ vector' = vector
    BY <1>12 DEF FreeAll
  <2>2. /\ PoolOK(pool', HeldBy(vector))
        /\ \A b \in HeldBy(vector) : pool'.block[b] = pool.block[b]
    BY <1>2, <2>1, FreeAllKeeps
  <2>3. QED
    BY <2>1, <2>2, PoolStep
<1>13. ASSUME NEW n \in 1 .. CPPAD_MAX_NUM_THREADS, ParallelSetup(n)
       PROVE  PodInv' /\ [Vectors_!Next]_Mapped
  <2>1. CASE n = 1
    BY <1>10, <1>13, <2>1 DEF ParallelSetup
  <2>2. CASE n # 1
    <3>1. PICK a \in Obtainable(pool, 0, 0) :
            pool' = parallel_setup(pool, hold_memory, n, a) /\ vector' = vector
      BY <1>13, <2>2 DEF ParallelSetup
    <3>2. /\ PoolOK(pool', HeldBy(vector))
          /\ \A b \in HeldBy(vector) : pool'.block[b] = pool.block[b]
      BY <1>1, <1>2, <3>1, SetupKeeps
    <3>3. QED
      BY <3>1, <3>2, PoolStep
  <2>3. QED
    BY <2>1, <2>2
<1>14. CASE EnterParallel \/ LeaveParallel
  BY <1>10, <1>14 DEF EnterParallel, LeaveParallel
<1>15. CASE UNCHANGED vars
  BY <1>10, <1>15 DEF vars
<1>16. QED
  BY <1>3, <1>4, <1>5, <1>6, <1>7, <1>8, <1>9, <1>11, <1>12, <1>13, <1>14, <1>15
  DEF Next, VectorStep

LEMMA InitIs ==
  ASSUME Init
  PROVE  PodInv /\ Vectors_!Init
<1>1. /\ pool = [info |-> [t \in Thread |-> NoRecord], block |-> [a \in Addr |-> Free]]
      /\ vector = [v \in Vector |-> Empty]
  BY DEF Init
<1>2. \A t \in Thread : thread_info(pool, t) = NoInfo
  BY <1>1 DEF thread_info
<1>3. Shape(pool)
  BY <1>1, <1>2, NoInfoShape DEF Shape, Avail
<1>4. /\ Empty \in [length_ : Nat, capacity_ : Nat, data_ : Addr \union {Null}]
      /\ Mem(Empty) = {} /\ VectorOK(Empty, pool) /\ Elements(pool, Empty) = <<>>
  BY DEF Empty, Mem, VectorOK, Elements
<1> HIDE DEF Empty
<1>5. HeldBy(vector) = {}
  BY <1>1, <1>4 DEF HeldBy
<1>6. PoolOK(pool, {})
  <2>1. \A a \in Addr : pool.block[a] = Free
    BY <1>1
  <2>2. \A t \in Thread, c \in Cap : Avail(pool, t)[c] = {}
    BY <1>2, NoInfoShape DEF Avail
  <2>3. Laid(pool, {})
    BY <1>3, <2>1, <2>2 DEF Laid, Listed, Kept, Tracked, AllSized
  <2>4. Counted(pool, {})
    <3>1. SUFFICES ASSUME NEW t \in Thread PROVE Exact(pool, {}, t)
      BY FS_EmptySet DEF Counted, Of
    <3>2. thread_info(pool, t) = NoInfo /\ pool.info[t] = NoRecord
      BY <1>1, <1>2
    <3>3. /\ Used(pool, t) = 0 /\ Spare(pool, t) = 0
          /\ InUse(pool, t) = [c \in Cap |-> {}]
      BY <3>2 DEF Used, Spare, InUse, NoInfo
    <3>4. \A c \in Cap : Avail(pool, t)[c] = {}
      BY <2>2
    <3>5. UnionOf(Avail(pool, t), Cap) = {}
      BY <3>4 DEF UnionOf
    <3>6. Total(pool, {}) = 0
      BY SumEmpty DEF Total
    <3>7. QED
      BY <3>2, <3>3, <3>4, <3>5, <3>6, FS_EmptySet DEF Exact
  <2>5. QED
    BY <2>3, <2>4 DEF PoolOK
<1>7. PodInv
  BY <1>1, <1>4, <1>5, <1>6 DEF PodInv, Pods
<1>8. QED
  BY <1>1, <1>4, <1>7 DEF Vectors_!Init

THEOREM InvariantKept == Spec => []PodInv
<1>1. Init => PodInv
  BY InitIs
<1>2. PodInv /\ [Next]_vars => PodInv'
  BY StepIs
<1>3. QED
  BY <1>1, <1>2, PTL DEF Spec

-----------------------------------------------------------------------------
(* No operation of a vector or of the pools, in any order and by any       *)
(* thread, puts a block on two lists or under two vectors.                 *)
THEOREM BlocksStayApart == Spec => []BlocksApart
<1>1. ASSUME PodInv PROVE BlocksApart
  <2>1. PoolOK(pool, HeldBy(vector))
    BY <1>1 DEF PodInv, Pods
  <2>2. ASSUME NEW t \in Thread, NEW c \in Cap, NEW a \in Addr, Available(t, c, a)
        PROVE  /\ pool.block[a] # Free /\ pool.block[a].tc_index_ = TcIndex(t, c)
               /\ a \notin HeldBy(vector)
    BY <2>1, <2>2 DEF PoolOK, Laid, Listed, Available, Avail
  <2>3. ASSUME NEW v \in Vector, NEW a \in Addr, Holds(v, a)
        PROVE  /\ pool.block[a] # Free
               /\ vector[v].capacity_ = capacity_vec[CapOf(pool, a)]
               /\ DOMAIN pool.block[a].data = 1 .. vector[v].capacity_
               /\ a \in HeldBy(vector)
               /\ \A w \in Vector \ {v} : ~Holds(w, a)
    <3>1. Mem(vector[v]) = {a} /\ a \in HeldBy(vector)
      BY <2>3 DEF Holds, Mem, HeldBy
    <3>2. vector[v].capacity_ = capacity_vec[CapOf(pool, a)]
      BY <1>1, <2>3 DEF PodInv, Pods, VectorOK, Holds
    <3>3. pool.block[a] # Free /\ Sized(pool, a)
      BY <2>1, <3>1 DEF PoolOK, Laid, Kept, AllSized
    <3>4. ASSUME NEW w \in Vector \ {v}, Holds(w, a) PROVE FALSE
      <4>1. Mem(vector[w]) = {a}
        BY <3>4 DEF Holds, Mem
      <4>2. QED
        BY <1>1, <3>1, <4>1 DEF PodInv, Pods
    <3>5. QED
      BY <3>1, <3>2, <3>3, <3>4 DEF Sized, Data
  <2>4. QED
    BY <2>2, <2>3 DEF BlocksApart
<1>2. QED
  BY <1>1, InvariantKept, PTL

(* No operation forgets a block.                                           *)
THEOREM NothingIsLost == Spec => []NothingLost
<1>1. ASSUME PodInv PROVE NothingLost
  <2>1. Tracked(pool, HeldBy(vector))
    BY <1>1 DEF PodInv, Pods, PoolOK, Laid
  <2>2. ASSUME NEW a \in HeldBy(vector) PROVE \E v \in Vector : Holds(v, a)
    BY DEF HeldBy, Holds, Mem
  <2>3. QED
    BY <2>1, <2>2 DEF NothingLost, Tracked, Available, Avail
<1>2. QED
  BY <1>1, InvariantKept, PTL

(* Constructors and destructors are called once for each element.          *)
THEOREM ObjectsStayLive == Spec => []ObjectsLive
<1>1. ASSUME PodInv PROVE ObjectsLive
  <2>1. Listed(pool, HeldBy(vector))
    BY <1>1 DEF PodInv, Pods, PoolOK, Laid
  <2>2. ASSUME ~is_pod, NEW v \in Vector, NEW a \in Addr, Holds(v, a)
        PROVE  \A k \in DOMAIN pool.block[a].data : pool.block[a].data[k] # Raw
    BY <1>1, <2>2 DEF PodInv, Pods, VectorOK, Holds, Full
  <2>3. ASSUME ~is_pod, NEW t \in Thread, NEW c \in Cap, NEW a \in Addr,
               Available(t, c, a)
        PROVE  \A k \in DOMAIN pool.block[a].data : pool.block[a].data[k] = Raw
    BY <2>1, <2>3 DEF Listed, Available, Avail, Bare
  <2>4. QED
    BY <2>2, <2>3 DEF ObjectsLive
<1>2. QED
  BY <1>1, InvariantKept, PTL

(* Vectors over the pools are values of their own.                         *)
THEOREM VectorsImplemented == Spec => ImplementsVectors
<1>1. Init => Vectors_!Init
  BY InitIs
<1>2. PodInv /\ [Next]_vars => [Vectors_!Next]_Mapped
  BY StepIs
<1>3. QED
  BY <1>1, <1>2, InvariantKept, PTL DEF Spec, ImplementsVectors, Vectors_!Spec, Mapped

-----------------------------------------------------------------------------
(* The sums of CountsExact are those of Exact.                             *)
LEMMA CountsOf ==
  ASSUME PodInv, NEW t \in Thread, NEW held,
         held = Of(pool, HeldBy(vector), t)
  PROVE  /\ thread_info(pool, t).count_inuse_
              = MapThenSumSet(LAMBDA a : capacity_vec[CapOf(pool, a)], held)
         /\ thread_info(pool, t).count_available_
              = MapThenSumSet(LAMBDA a : capacity_vec[CapOf(pool, a)],
                              UnionOf(Avail(pool, t), Cap))
         /\ UNION {thread_info(pool, t).root_inuse_[c] : c \in Cap} = held
<1>1. PoolOK(pool, HeldBy(vector)) /\ Laid(pool, HeldBy(vector))
  BY DEF PodInv, Pods, PoolOK
<1>2. Exact(pool, held, t) /\ Blocks(pool, held)
  BY <1>1, HeldBlocks DEF PoolOK, Counted
<1>3. Numbers(SizeOf(pool), held) /\ \A a \in held : CapOf(pool, a) \in Cap
  BY <1>1, <1>2, SizesOK
<1>4. Used(pool, t) = MapThenSumSet(LAMBDA a : capacity_vec[CapOf(pool, a)], held)
  BY <1>2, <1>3, TotalIs DEF Exact, Blocks
<1> DEFINE A == UnionOf(Avail(pool, t), Cap)
<1>5. Blocks(pool, A)
  BY <1>1, <1>2, AvailSorted DEF Exact
<1> HIDE DEF A
<1>6. Numbers(SizeOf(pool), A) /\ A \subseteq Addr
  BY <1>1, <1>5, SizesOK DEF Blocks
<1>7. Spare(pool, t) = MapThenSumSet(LAMBDA a : capacity_vec[CapOf(pool, a)], A)
  BY <1>2, <1>6, TotalIs DEF Exact, A
<1>8. UNION {InUse(pool, t)[c] : c \in Cap} = held
  <2>1. \A c \in Cap : InUse(pool, t)[c] = {a \in held : CapOf(pool, a) = c}
    BY <1>2 DEF Exact
  <2>2. QED
    BY <1>3, <2>1
<1>9. QED
  BY <1>4, <1>7, <1>8 DEF Used, Spare, InUse, A

(* The counts of every thread are the bytes of its blocks, whoever gives   *)
(* them back and whatever hold_memory is then.                             *)
THEOREM CountsAreExact == Spec => []CountsExact
<1>1. ASSUME PodInv PROVE CountsExact
  <2>1. SUFFICES ASSUME NEW t \in Thread
                 PROVE  LET mine == {a \in Addr : pool.block[a] # Free
                                                  /\ ThreadOf(pool, a) = t}
                            held == {a \in mine : \E v \in Vector : Holds(v, a)}
                            Size(a) == capacity_vec[CapOf(pool, a)]
                            i == thread_info(pool, t)
                        IN  /\ i.count_inuse_ = MapThenSumSet(Size, held)
                            /\ i.count_available_ = MapThenSumSet(Size, mine \ held)
                            /\ UNION {i.root_inuse_[c] : c \in Cap} = held
    BY DEF CountsExact
  <2> DEFINE mine == {a \in Addr : pool.block[a] # Free /\ ThreadOf(pool, a) = t}
             held == {a \in mine : \E v \in Vector : Holds(v, a)}
             H == HeldBy(vector)
             A == UnionOf(Avail(pool, t), Cap)
  <2>2. Laid(pool, H) /\ \A d \in Cap : IsFiniteSet(Avail(pool, t)[d])
    BY <1>1 DEF PodInv, Pods, PoolOK, Counted, Exact
  <2>3. \A a : a \in H <=> \E v \in Vector : Holds(v, a)
    BY DEF HeldBy, Holds, Mem
  <2>4. held = Of(pool, H, t)
    BY <2>2, <2>3 DEF Of, Laid, Kept
  <2>5. mine \ held = A
    <3>1. ASSUME NEW a \in mine, a \notin held PROVE a \in A
      <4>1. a \notin H
        BY <2>3, <3>1
      <4>2. PICK u \in Thread, c \in Cap : a \in Avail(pool, u)[c]
        BY <2>2, <3>1, <4>1 DEF Laid, Tracked
      <4>3. ThreadOf(pool, a) = u
        <5>1. \A d \in Cap : IsFiniteSet(Avail(pool, u)[d])
          BY <1>1 DEF PodInv, Pods, PoolOK, Counted, Exact
        <5>2. QED
          BY <2>2, <4>2, <5>1, AvailSorted
      <4>4. QED
        BY <3>1, <4>2, <4>3 DEF UnionOf
    <3>2. ASSUME NEW c \in Cap, NEW a \in Avail(pool, t)[c]
          PROVE  a \in mine /\ a \notin held
      <4>1. a \in Addr /\ ThreadOf(pool, a) = t /\ a \notin H
        BY <2>2, AvailSorted
      <4>2. pool.block[a] # Free
        BY <2>2 DEF Laid, Listed
      <4>3. QED
        BY <2>3, <4>1, <4>2
    <3>3. QED
      BY <3>1, <3>2 DEF UnionOf
  <2> HIDE DEF mine, held, H, A
  <2>6. /\ thread_info(pool, t).count_inuse_
             = MapThenSumSet(LAMBDA a : capacity_vec[CapOf(pool, a)], held)
        /\ thread_info(pool, t).count_available_
             = MapThenSumSet(LAMBDA a : capacity_vec[CapOf(pool, a)], A)
        /\ UNION {thread_info(pool, t).root_inuse_[c] : c \in Cap} = held
    BY <1>1, <2>4, CountsOf DEF H, A
  <2>7. QED
    BY <2>5, <2>6 DEF mine, held
<1>2. QED
  BY <1>1, InvariantKept, PTL

(* free_all answers true exactly if it leaves nothing allocated.           *)
THEOREM FreeAllSays == Spec => FreeAllTells
<1>1. ASSUME PodInv, FreeAll
      PROVE  free_all_ok(pool) <=> \A a \in Addr : pool'.block[a] = Free
  <2> DEFINE H == HeldBy(vector)
             q == pool'
  <2>1. Laid(pool, H) /\ PoolOK(pool, H) /\ Counted(pool, H) /\ Shape(pool)
    BY <1>1 DEF PodInv, Pods, PoolOK, Laid
  <2>2. q = free_all(pool)
    BY <1>1 DEF FreeAll
  <2> HIDE DEF H, q
  <2>3. ASSUME NEW t \in Thread PROVE Used(pool, t) = 0 <=> Of(pool, H, t) = {}
    <3> DEFINE S == Of(pool, H, t)
    <3>1. Blocks(pool, S) /\ Used(pool, t) = Total(pool, S)
      BY <2>1, HeldBlocks DEF Counted, Exact
    <3> HIDE DEF S
    <3>2. IsFiniteSet(S) /\ \A a \in S : SizeOf(pool)[a] \in Nat \ {0}
      BY <2>1, <3>1, SizesOK DEF Blocks
    <3>3. SumOf(SizeOf(pool), S) = 0 <=> S = {}
      BY <3>2, SumPositive
    <3>4. QED
      BY <3>1, <3>3 DEF Total, S
  <2>4. free_all_ok(pool) <=> H = {}
    <3>1. free_all_ok(pool) <=> \A t \in Thread : Of(pool, H, t) = {}
      BY <2>3 DEF free_all_ok, Used
    <3>2. \A a \in H : ThreadOf(pool, a) \in Thread
      BY <2>1 DEF Laid, Kept, AllSized, Sized
    <3>3. QED
      BY <3>1, <3>2 DEF Of
  <2>5. \A b \in Addr :
          q.block[b] = IF \E t \in Thread, c \in Cap : b \in Avail(pool, t)[c]
                       THEN Free ELSE pool.block[b]
    BY <2>1, <2>2, FreeAllEffect
  <2>6. H = {} <=> \A a \in Addr : q.block[a] = Free
    <3>1. ASSUME NEW a \in H PROVE a \in Addr /\ q.block[a] # Free
      <4>1. a \in Addr /\ pool.block[a] # Free
        BY <2>1 DEF Laid, Kept
      <4>2. ~ \E t \in Thread, c \in Cap : a \in Avail(pool, t)[c]
        BY <2>1 DEF Laid, Listed
      <4>3. QED
        BY <2>5, <4>1, <4>2
    <3>2. ASSUME H = {}, NEW a \in Addr PROVE q.block[a] = Free
      <4>1. pool.block[a] = Free \/ \E t \in Thread, c \in Cap : a \in Avail(pool, t)[c]
        BY <2>1, <3>2 DEF Laid, Tracked
      <4>2. QED
        BY <2>5, <4>1
    <3>3. QED
      BY <3>1, <3>2
  <2>7. QED
    BY <2>4, <2>6 DEF q
<1>2. PodInv /\ [Next]_vars
        => [FreeAll => (free_all_ok(pool) <=> \A a \in Addr : pool'.block[a] = Free)]_vars
  BY <1>1
<1>3. QED
  BY <1>2, InvariantKept, PTL DEF Spec, FreeAllTells

-----------------------------------------------------------------------------
(***************************************************************************)
(* Types.  The invariant says what is in a pool; that a pool has nothing   *)
(* else is kept by every function by itself.                               *)
(***************************************************************************)

IsInfo(i) == i = [f \in Fields |-> i[f]]

Plain(p) ==
  /\ p = [info |-> p.info, block |-> p.block]
  /\ p.info = [t \in Thread |-> p.info[t]]
  /\ p.block = [a \in Addr |-> p.block[a]]
  /\ \A t \in Thread : IsInfo(thread_info(p, t))

WithInfo(p, t, s) == [p EXCEPT !.info[t] = s]
WithBlock(p, a, b) == [p EXCEPT !.block[a] = b]

LEMMA InfoPlain ==
  ASSUME NEW p, Plain(p), NEW t, NEW i, t \in Thread => IsInfo(i)
  PROVE  Plain(WithInfo(p, t, <<i>>))
<1> DEFINE q == WithInfo(p, t, <<i>>)
<1>1. /\ p = [info |-> p.info, block |-> p.block]
      /\ p.info = [u \in Thread |-> p.info[u]]
      /\ p.block = [a \in Addr |-> p.block[a]]
  BY DEF Plain
<1>2. q = [info |-> [p.info EXCEPT ![t] = <<i>>], block |-> p.block]
  BY <1>1 DEF WithInfo
<1>3. q.info = [p.info EXCEPT ![t] = <<i>>] /\ q.block = p.block
  BY <1>2
<1>4. q.info = [u \in Thread |-> q.info[u]]
  BY <1>1, <1>3
<1>5. q = [info |-> q.info, block |-> q.block]
  BY <1>2, <1>3
<1> HIDE DEF q
<1>6. ASSUME NEW u \in Thread PROVE IsInfo(thread_info(q, u))
  <2>1. CASE u = t
    <3>1. q.info[u] = <<i>>
      BY <1>1, <1>3, <2>1
    <3>2. <<i>> # NoRecord /\ <<i>>[1] = i
      BY DEF NoRecord
    <3>3. thread_info(q, u) = i
      BY <3>1, <3>2 DEF thread_info
    <3>4. QED
      BY <2>1, <3>3
  <2>2. CASE u # t
    <3>1. q.info[u] = p.info[u]
      BY <1>1, <1>3, <2>2
    <3>2. thread_info(q, u) = thread_info(p, u)
      BY <3>1 DEF thread_info
    <3>3. QED
      BY <3>2 DEF Plain
  <2>3. QED
    BY <2>1, <2>2
<1>7. QED
  BY <1>1, <1>3, <1>4, <1>5, <1>6 DEF Plain, q

LEMMA BlockPlain ==
  ASSUME NEW p, Plain(p), NEW a, NEW b
  PROVE  Plain(WithBlock(p, a, b))
<1> DEFINE q == WithBlock(p, a, b)
<1>1. /\ p = [info |-> p.info, block |-> p.block]
      /\ p.info = [u \in Thread |-> p.info[u]]
      /\ p.block = [c \in Addr |-> p.block[c]]
  BY DEF Plain
<1>2. q = [info |-> p.info, block |-> [p.block EXCEPT ![a] = b]]
  BY <1>1 DEF WithBlock
<1>3. q.info = p.info /\ q.block = [p.block EXCEPT ![a] = b]
  BY <1>2
<1>4. q.block = [c \in Addr |-> q.block[c]]
  BY <1>1, <1>3
<1>5. q = [info |-> q.info, block |-> q.block]
  BY <1>2, <1>3
<1> HIDE DEF q
<1>6. \A u \in Thread : thread_info(q, u) = thread_info(p, u)
  BY <1>3 DEF thread_info
<1>7. QED
  BY <1>1, <1>3, <1>4, <1>5, <1>6 DEF Plain, q

LEMMA GetPlain ==
  ASSUME NEW p, Plain(p), NEW t, NEW c, NEW a
  PROVE  Plain(get_memory(p, t, c, a))
<1> DEFINE i == thread_info(p, t)
           taken == [i EXCEPT !.root_inuse_[c] = @ \union {a},
                              !.count_inuse_ = @ + capacity_vec[c]]
           less == [taken EXCEPT !.root_available_[c] = @ \ {a},
                                 !.count_available_ = @ - capacity_vec[c]]
           new == [tc_index_ |-> TcIndex(t, c),
                   data |-> [k \in 1 .. capacity_vec[c] |-> Raw]]
<1>1. t \in Thread => IsInfo(i)
  BY DEF Plain
<1> HIDE DEF i
<1>2. t \in Thread => IsInfo(taken)
  BY <1>1 DEF IsInfo
<1> HIDE DEF taken
<1>3. t \in Thread => IsInfo(less)
  BY <1>2 DEF IsInfo
<1> HIDE DEF less, new
<1>4. CASE i.root_available_[c] # {}
  <2>1. get_memory(p, t, c, a) = WithInfo(p, t, <<less>>)
    BY <1>4 DEF get_memory, WithInfo, less, taken, i
  <2>2. QED
    BY <1>3, <2>1, InfoPlain
<1>5. CASE i.root_available_[c] = {}
  <2>1. get_memory(p, t, c, a) = [p EXCEPT !.info[t] = <<taken>>, !.block[a] = new]
    BY <1>5 DEF get_memory, taken, i, new
  <2>2. get_memory(p, t, c, a) = WithBlock(WithInfo(p, t, <<taken>>), a, new)
    BY <2>1 DEF WithInfo, WithBlock
  <2>3. QED
    BY <1>2, <2>2, InfoPlain, BlockPlain
<1>6. QED
  BY <1>4, <1>5

LEMMA ReturnPlain ==
  ASSUME NEW p, Plain(p), NEW h, NEW a
  PROVE  Plain(return_memory(p, h, a))
<1> DEFINE t == ThreadOf(p, a)
           c == CapOf(p, a)
           i == thread_info(p, t)
           returned == [i EXCEPT !.root_inuse_[c] = @ \ {a},
                                 !.count_inuse_ = @ - capacity_vec[c]]
           more == [returned EXCEPT !.root_available_[c] = @ \union {a},
                                    !.count_available_ = @ + capacity_vec[c]]
<1>1. t \in Thread => IsInfo(i)
  BY DEF Plain
<1> HIDE DEF i, t, c
<1>2. t \in Thread => IsInfo(returned)
  BY <1>1 DEF IsInfo
<1> HIDE DEF returned
<1>3. t \in Thread => IsInfo(more)
  BY <1>2 DEF IsInfo
<1> HIDE DEF more
<1>4. CASE h
  <2>1. return_memory(p, h, a) = WithInfo(p, t, <<more>>)
    BY <1>4 DEF return_memory, WithInfo, more, returned, i, t, c
  <2>2. QED
    BY <1>3, <2>1, InfoPlain
<1>5. CASE ~h
  <2>1. return_memory(p, h, a) = [p EXCEPT !.info[t] = <<returned>>, !.block[a] = Free]
    BY <1>5 DEF return_memory, returned, i, t, c
  <2>2. return_memory(p, h, a) = WithBlock(WithInfo(p, t, <<returned>>), a, Free)
    BY <2>1 DEF WithInfo, WithBlock
  <2>3. QED
    BY <1>2, <2>2, InfoPlain, BlockPlain
<1>6. QED
  BY <1>4, <1>5

LEMMA NoInfoIs == IsInfo(NoInfo)
<1>1. NoInfo = [f \in DOMAIN NoInfo |-> NoInfo[f]]
  BY DEF NoInfo
<1>2. DOMAIN NoInfo = Fields
  BY DEF NoInfo, Fields
<1>3. QED
  BY <1>1, <1>2 DEF IsInfo

(* A pool that a function makes anew. *)
LEMMA MadePlain ==
  ASSUME NEW p, Plain(p), NEW q,
         q = [info |-> q.info, block |-> q.block],
         q.info = [t \in Thread |-> q.info[t]],
         q.block = [a \in Addr |-> q.block[a]],
         \A t \in Thread : \/ thread_info(q, t) = NoInfo
                           \/ IsInfo(thread_info(q, t))
                           \/ thread_info(q, t) = thread_info(p, t)
  PROVE  Plain(q)
  BY NoInfoIs DEF Plain

LEMMA FreeAvailablePlain ==
  ASSUME NEW p, Plain(p), NEW t
  PROVE  Plain(free_available(p, t))
<1> DEFINE q == free_available(p, t)
           i == thread_info(p, t)
           rest == [i EXCEPT !.root_available_ = [c \in Cap |-> {}],
                             !.count_available_ = @ - Bytes(i.root_available_)]
           new == IF i.count_inuse_ = 0 THEN NoRecord ELSE <<rest>>
<1>1. p.info = [u \in Thread |-> p.info[u]] /\ (t \in Thread => IsInfo(i))
  BY DEF Plain
<1>2. /\ q = [info |-> q.info, block |-> q.block]
      /\ q.info = [p.info EXCEPT ![t] = new]
      /\ q.block = [a \in Addr |-> q.block[a]]
  BY DEF free_available
<1> HIDE DEF i, q
<1>3. t \in Thread => IsInfo(rest)
  BY <1>1 DEF IsInfo
<1> HIDE DEF rest
<1>4. q.info = [u \in Thread |-> q.info[u]]
  BY <1>1, <1>2
<1>5. ASSUME NEW u \in Thread
      PROVE  \/ thread_info(q, u) = NoInfo
             \/ IsInfo(thread_info(q, u))
             \/ thread_info(q, u) = thread_info(p, u)
  <2>1. q.info[u] = IF u = t THEN new ELSE p.info[u]
    BY <1>1, <1>2
  <2>2. <<rest>> # NoRecord /\ <<rest>>[1] = rest
    BY DEF NoRecord
  <2>3. CASE u # t
    BY <2>1, <2>3 DEF thread_info
  <2>4. CASE u = t /\ i.count_inuse_ = 0
    BY <2>1, <2>4 DEF thread_info
  <2>5. CASE u = t /\ i.count_inuse_ # 0
    <3>1. thread_info(q, u) = rest
      BY <2>1, <2>2, <2>5 DEF thread_info
    <3>2. QED
      BY <1>3, <2>5, <3>1
  <2>6. QED
    BY <2>3, <2>4, <2>5
<1>6. Plain(q)
  BY <1>2, <1>4, <1>5, MadePlain
<1>7. QED
  BY <1>6 DEF q

LEMMA FreeAllPlain ==
  ASSUME NEW p, Plain(p)
  PROVE  Plain(free_all(p))
<1> DEFINE q == free_all(p)
<1>1. /\ q = [info |-> q.info, block |-> q.block]
      /\ q.info = [t \in Thread |-> free_available(p, t).info[t]]
      /\ q.block = [a \in Addr |-> q.block[a]]
  BY DEF free_all
<1> HIDE DEF q
<1>2. q.info = [t \in Thread |-> q.info[t]]
  BY <1>1
<1>3. ASSUME NEW t \in Thread PROVE IsInfo(thread_info(q, t))
  <2> DEFINE r == free_available(p, t)
  <2>1. Plain(r)
    BY FreeAvailablePlain
  <2>2. q.info[t] = r.info[t]
    BY <1>1
  <2> HIDE DEF r
  <2>3. thread_info(q, t) = thread_info(r, t)
    BY <2>2 DEF thread_info
  <2>4. QED
    BY <2>1, <2>3 DEF Plain
<1>4. Plain(q)
  BY <1>1, <1>2, <1>3, MadePlain
<1>5. QED
  BY <1>4 DEF q

LEMMA SetupPlain ==
  ASSUME NEW p, Plain(p), NEW h, NEW n, NEW a
  PROVE  Plain(parallel_setup(p, h, n, a))
<1> DEFINE q == [p EXCEPT !.info = [t \in Thread |->
                   IF t < n THEN <<thread_info(p, t)>> ELSE p.info[t]]]
<1>1. /\ p = [info |-> p.info, block |-> p.block]
      /\ p.block = [b \in Addr |-> p.block[b]]
  BY DEF Plain
<1>2. q = [info |-> [t \in Thread |->
                       IF t < n THEN <<thread_info(p, t)>> ELSE p.info[t]],
           block |-> p.block]
  BY <1>1
<1> HIDE DEF q
<1>3. /\ q.info = [t \in Thread |->
                     IF t < n THEN <<thread_info(p, t)>> ELSE p.info[t]]
      /\ q.block = p.block
  BY <1>2
<1>4. q.info = [t \in Thread |-> q.info[t]] /\ q = [info |-> q.info, block |-> q.block]
  BY <1>2, <1>3
<1>5. ASSUME NEW t \in Thread PROVE thread_info(q, t) = thread_info(p, t)
  <2>1. <<thread_info(p, t)>> # NoRecord
        /\ <<thread_info(p, t)>>[1] = thread_info(p, t)
    BY DEF NoRecord
  <2>2. CASE t < n
    BY <1>3, <2>1, <2>2 DEF thread_info
  <2>3. CASE ~(t < n)
    BY <1>3, <2>3 DEF thread_info
  <2>4. QED
    BY <2>2, <2>3
<1>6. Plain(q)
  BY <1>1, <1>3, <1>4, <1>5, MadePlain
<1>7. parallel_setup(p, h, n, a)
        = free_available(return_memory(get_memory(q, 0, 0, a), h, a), 0)
  BY DEF parallel_setup, q
<1>8. Plain(get_memory(q, 0, 0, a))
  BY <1>6, GetPlain
<1>9. Plain(return_memory(get_memory(q, 0, 0, a), h, a))
  BY <1>8, ReturnPlain
<1>10. QED
  BY <1>7, <1>9, FreeAvailablePlain

LEMMA InfoIs ==
  ASSUME NEW i, IsInfo(i), i.count_inuse_ \in Int, i.count_available_ \in Int,
         i.root_inuse_ \in [Cap -> SUBSET Addr],
         i.root_available_ \in [Cap -> SUBSET Addr]
  PROVE  i \in Info
<1> DEFINE r == [count_inuse_ |-> i.count_inuse_, count_available_ |-> i.count_available_,
                 root_inuse_ |-> i.root_inuse_, root_available_ |-> i.root_available_]
<1>1. r \in Info
  BY DEF Info
<1>2. DOMAIN r = Fields /\ r = [f \in DOMAIN r |-> r[f]]
  BY DEF Fields
<1>3. \A f \in Fields : r[f] = i[f]
  BY DEF Fields
<1> HIDE DEF r
<1>4. r = i
  BY <1>2, <1>3 DEF IsInfo
<1>5. QED
  BY <1>1, <1>4

(* What the invariant says of a plain pool. *)
LEMMA PoolTyped ==
  ASSUME NEW p, NEW H, PoolOK(p, H), Plain(p)
  PROVE  p \in [info : [Thread -> {s \in Seq(Info) : Len(s) <= 1}],
                block : [Addr -> Block \union {Free}]]
<1>1. /\ p = [info |-> p.info, block |-> p.block]
      /\ p.info = [t \in Thread |-> p.info[t]]
      /\ p.block = [a \in Addr |-> p.block[a]]
  BY DEF Plain
<1>2. Laid(p, H) /\ Counted(p, H)
  BY DEF PoolOK
<1>3. ASSUME NEW t \in Thread PROVE p.info[t] \in {s \in Seq(Info) : Len(s) <= 1}
  <2> DEFINE i == thread_info(p, t)
             S == Of(p, H, t)
             A == UnionOf(Avail(p, t), Cap)
  <2>1. Exact(p, S, t) /\ Blocks(p, S) /\ Blocks(p, A)
    BY <1>2, HeldBlocks, AvailSorted DEF Counted, Exact
  <2>2. p.info[t] = NoRecord \/ p.info[t] = <<i>>
    BY <2>1 DEF Exact
  <2>3. Total(p, S) \in Int /\ Total(p, A) \in Int
    <3> HIDE DEF S, A
    <3>1. Numbers(SizeOf(p), S) /\ Numbers(SizeOf(p), A)
      BY <1>2, <2>1, SizesOK
    <3>2. QED
      BY <3>1, SumType DEF Total
  <2>4. i.root_available_ \in [Cap -> SUBSET Addr]
    BY <1>2 DEF Laid, Shape, Avail
  <2>5. /\ i.count_inuse_ \in Int /\ i.count_available_ \in Int
        /\ i.root_inuse_ \in [Cap -> SUBSET Addr]
    BY <2>1, <2>3 DEF Exact, Used, Spare, InUse
  <2>6. IsInfo(i)
    BY DEF Plain
  <2> HIDE DEF i
  <2>7. i \in Info
    BY <2>4, <2>5, <2>6, InfoIs
  <2>8. CASE p.info[t] = <<i>>
    <3>1. <<i>> \in Seq(Info) /\ Len(<<i>>) = 1
      BY <2>7
    <3>2. QED
      BY <2>8, <3>1
  <2>9. CASE p.info[t] = NoRecord
    <3>1. <<>> \in Seq(Info) /\ Len(<<>>) = 0
      OBVIOUS
    <3>2. QED
      BY <2>9, <3>1 DEF NoRecord
  <2>10. QED
    BY <2>2, <2>8, <2>9
<1>4. \A a \in Addr : p.block[a] \in Block \union {Free}
  BY <1>2 DEF Laid, AllSized, Sized
<1>5. /\ p.info \in [Thread -> {s \in Seq(Info) : Len(s) <= 1}]
      /\ p.block \in [Addr -> Block \union {Free}]
  BY <1>1, <1>3, <1>4
<1>6. QED
  BY <1>1, <1>5

LEMMA DataPlain ==
  ASSUME NEW p, Plain(p), NEW a
  PROVE  /\ Plain(Constructed(p, a)) /\ Plain(Destroyed(p, a))
         /\ \A n, s : Plain(Copied(p, a, n, s))
         /\ \A i, e : Plain([p EXCEPT !.block[a].data[i] = e])
<1>1. ASSUME NEW d PROVE Plain(WithData(p, a, d))
  <2>1. WithData(p, a, d) = WithBlock(p, a, [p.block[a] EXCEPT !.data = d])
    BY DEF WithData, WithBlock
  <2>2. QED
    BY <2>1, BlockPlain
<1>2. Plain(Constructed(p, a))
  <2> DEFINE d == [k \in DOMAIN p.block[a].data |-> Default]
  <2>1. Constructed(p, a) = p \/ Constructed(p, a) = WithData(p, a, d)
    BY DEF Constructed, WithData
  <2>2. QED
    BY <1>1, <2>1
<1>3. Plain(Destroyed(p, a))
  <2> DEFINE d == [k \in DOMAIN p.block[a].data |-> Raw]
  <2>1. Destroyed(p, a) = p \/ Destroyed(p, a) = WithData(p, a, d)
    BY DEF Destroyed, WithData
  <2>2. QED
    BY <1>1, <2>1
<1>4. ASSUME NEW n, NEW s PROVE Plain(Copied(p, a, n, s))
  <2> DEFINE e == p.block[a].data
             d == [k \in DOMAIN e |-> IF k <= n THEN s[k] ELSE e[k]]
  <2>1. Copied(p, a, n, s) = WithData(p, a, d)
    BY DEF Copied, WithData
  <2>2. QED
    BY <1>1, <2>1
<1>5. ASSUME NEW i, NEW e PROVE Plain([p EXCEPT !.block[a].data[i] = e])
  <2> DEFINE d == [p.block[a].data EXCEPT ![i] = e]
  <2>1. [p EXCEPT !.block[a].data[i] = e] = WithData(p, a, d)
    BY DEF WithData
  <2>2. QED
    BY <1>1, <2>1
<1>6. QED
  BY <1>2, <1>3, <1>4, <1>5

LEMMA VectorPlain ==
  ASSUME NEW p, Plain(p)
  PROVE  /\ \A x : Plain(Released(p, x))
         /\ \A t, c, a : Plain(Obtained(p, t, c, a))
<1>1. ASSUME NEW x PROVE Plain(Released(p, x))
  <2> DEFINE r == Destroyed(p, x.data_)
  <2>1. Plain(r)
    BY DataPlain
  <2>2. Released(p, x) = p \/ Released(p, x) = return_memory(r, hold_memory, x.data_)
    BY DEF Released
  <2> HIDE DEF r
  <2>3. Plain(return_memory(r, hold_memory, x.data_))
    BY <2>1, ReturnPlain
  <2>4. QED
    BY <2>2, <2>3
<1>2. ASSUME NEW t, NEW c, NEW a PROVE Plain(Obtained(p, t, c, a))
  <2> DEFINE r == get_memory(p, t, c, a)
  <2>1. Plain(r)
    BY GetPlain
  <2>2. Obtained(p, t, c, a) = Constructed(r, a)
    BY DEF Obtained
  <2> HIDE DEF r
  <2>3. QED
    BY <2>1, <2>2, DataPlain
<1>3. QED
  BY <1>1, <1>2

LEMMA StepPlain ==
  ASSUME Plain(pool), [Next]_vars
  PROVE  Plain(pool')
<1>1. ASSUME NEW t \in Thread, NEW v \in Vector, NEW n \in 1 .. MaxLength, Extend(t, v, n)
      PROVE  Plain(pool')
  <2>1. extend(t, v, n)
    BY <1>1 DEF Extend
  <2>2. CASE pool' = pool
    BY <2>2
  <2>3. CASE pool' # pool
    <3>1. PICK c, a :
            pool' = Released(Copied(Obtained(pool, t, c, a), a, vector[v].length_,
                                    Elements(pool, vector[v])), vector[v])
      BY <2>1, <2>3 DEF extend
    <3>2. Plain(Obtained(pool, t, c, a))
      BY VectorPlain
    <3>3. Plain(Copied(Obtained(pool, t, c, a), a, vector[v].length_,
                       Elements(pool, vector[v])))
      BY <3>2, DataPlain
    <3>4. QED
      BY <3>1, <3>3, VectorPlain
  <2>4. QED
    BY <2>2, <2>3
<1>2. ASSUME NEW t \in Thread, NEW v \in Vector, NEW w \in Vector, Assign(t, v, w)
      PROVE  Plain(pool')
  <2> DEFINE back == Released(pool, vector[v])
             n == vector[w].length_
             e == Elements(pool, vector[w])
  <2>1. \/ pool' = pool
        \/ pool' = Copied(pool, vector[v].data_, n, e)
        \/ \E c, a : pool' = Copied(Obtained(back, t, c, a), a, n, e)
    BY <1>2 DEF Assign
  <2>2. Plain(back) /\ Plain(Copied(pool, vector[v].data_, n, e))
    BY VectorPlain, DataPlain
  <2> HIDE DEF back, e
  <2>3. ASSUME NEW c, NEW a PROVE Plain(Copied(Obtained(back, t, c, a), a, n, e))
    <3>1. Plain(Obtained(back, t, c, a))
      BY <2>2, VectorPlain
    <3>2. QED
      BY <3>1, DataPlain
  <2>4. QED
    BY <2>1, <2>2, <2>3
<1>3. ASSUME NEW t \in Thread, NEW v \in Vector, FreeVector(t, v)
      PROVE  Plain(pool')
  BY <1>3, VectorPlain DEF FreeVector
<1>4. ASSUME NEW t \in Thread, NEW u \in Thread, FreeAvailable(t, u)
      PROVE  Plain(pool')
  BY <1>4, FreeAvailablePlain DEF FreeAvailable
<1>5. ASSUME NEW v \in Vector, NEW i \in 1 .. MaxLength, NEW e \in Elem, Write(v, i, e)
      PROVE  Plain(pool')
  BY <1>5, DataPlain DEF Write
<1>6. CASE FreeAll
  BY <1>6, FreeAllPlain DEF FreeAll
<1>7. ASSUME NEW n \in 1 .. CPPAD_MAX_NUM_THREADS, ParallelSetup(n)
      PROVE  Plain(pool')
  BY <1>7, SetupPlain DEF ParallelSetup
<1>8. ASSUME UNCHANGED pool PROVE Plain(pool')
  BY <1>8
<1>9. QED
  BY <1>1, <1>2, <1>3, <1>4, <1>5, <1>6, <1>7, <1>8
  DEF Next, VectorStep, Erase, Swap, HoldMemory, EnterParallel, LeaveParallel, vars

(* The settings of the memory manager. *)
Settings ==
  /\ in_parallel \in BOOLEAN /\ hold_memory \in BOOLEAN
  /\ num_threads \in 1 .. CPPAD_MAX_NUM_THREADS

(* Everything keeps its type.  TypeOK is not inductive: that the counts    *)
(* are integers follows from what they count.                              *)
THEOREM TypeCorrect == Spec => []TypeOK
<1>1. Init => Plain(pool) /\ Settings
  <2>1. SUFFICES ASSUME Init PROVE Plain(pool) /\ Settings
    OBVIOUS
  <2>2. pool = [info |-> [t \in Thread |-> NoRecord], block |-> [a \in Addr |-> Free]]
    BY <2>1 DEF Init
  <2>3. \A t \in Thread : thread_info(pool, t) = NoInfo
    BY <2>2 DEF thread_info
  <2>4. IsInfo(NoInfo)
    BY NoInfoIs
  <2>5. Plain(pool)
    BY <2>2, <2>3, <2>4 DEF Plain
  <2>6. Settings
    <3>1. 1 \in 1 .. CPPAD_MAX_NUM_THREADS
      BY ThreadCapAssumption
    <3>2. in_parallel = FALSE /\ num_threads = 1 /\ hold_memory = FALSE
      BY <2>1 DEF Init
    <3>3. QED
      BY <3>1, <3>2 DEF Settings
  <2>7. QED
    BY <2>5, <2>6
<1>2. Plain(pool) /\ Settings /\ [Next]_vars => (Plain(pool) /\ Settings)'
  <2>1. SUFFICES ASSUME Plain(pool), Settings, [Next]_vars PROVE Plain(pool') /\ Settings'
    BY DEF Plain
  <2>2. Plain(pool')
    BY <2>1, StepPlain
  <2>3. Settings'
    BY <2>1
    DEF Settings, Next, VectorStep, Extend, Assign, FreeVector, FreeAvailable, Erase,
        Swap, Write, HoldMemory, FreeAll, ParallelSetup, EnterParallel, LeaveParallel, vars
  <2>4. QED
    BY <2>2, <2>3
<1>3. PodInv /\ Plain(pool) /\ Settings => TypeOK
  <2>1. SUFFICES ASSUME PodInv, Plain(pool), Settings PROVE TypeOK
    OBVIOUS
  <2>2. pool \in [info : [Thread -> {s \in Seq(Info) : Len(s) <= 1}],
                  block : [Addr -> Block \union {Free}]]
    BY <2>1, PoolTyped DEF PodInv, Pods
  <2>3. vector \in [Vector -> [length_ : Nat, capacity_ : Nat, data_ : Addr \union {Null}]]
    BY <2>1 DEF PodInv, Pods
  <2>4. QED
    BY <2>1, <2>2, <2>3 DEF TypeOK, Settings
<1>4. QED
  BY <1>1, <1>2, <1>3, InvariantKept, PTL DEF Spec
=============================================================================
