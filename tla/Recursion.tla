------------------------------ MODULE Recursion ------------------------------
(***************************************************************************)
(* Induction and recursion over data, for the functions the models define  *)
(* by recursion.  The theorems of the library take the property or the     *)
(* step as an operator; here both are sets and functions, which need no    *)
(* more than the first order: a property is the set of what has it.        *)
(***************************************************************************)
EXTENDS Integers, Sequences, FiniteSets, FiniteSetTheorems, WellFoundedInduction, TLAPS

(* A recursion goes on from d at next[d] until it is in Stop, and no set   *)
(* of arguments is one that it never leaves.                               *)
Terminates(D, Stop, next) ==
    /\ next \in [D -> D]
    /\ \A T \in SUBSET (D \ Stop) : T # {} => \E d \in T : next[d] \notin T

(* f is the function the recursion defines: base[d] where it stops, and     *)
(* otherwise step[d] applied to what it is at next[d].                     *)
Solves(f, D, Stop, next, V, base, step) ==
    /\ f \in [D -> V]
    /\ \A d \in D : /\ d \in Stop => f[d] = base[d]
                    /\ d \notin Stop => f[d] = step[d][f[next[d]]]

-----------------------------------------------------------------------------
(* The naturals. *)

(* A set of naturals has a least one. *)
LEMMA LeastNat ==
    ASSUME NEW S \in SUBSET Nat, S # {}
    PROVE  \E x \in S : \A y \in S : x <= y
<1> DEFINE UpTo(x) == {y \in S : y <= x}
           F == {UpTo(x) : x \in S}
<1>1. ASSUME NEW x \in S PROVE UpTo(x) \in SUBSET Nat /\ IsFiniteSet(UpTo(x))
  <2>1. UpTo(x) \in SUBSET Nat /\ x \in Nat OBVIOUS
  <2>2. \A y \in UpTo(x) : y <= x OBVIOUS
  <2> HIDE DEF UpTo
  <2>3. QED BY <2>1, <2>2, FS_BoundedSetOfNaturals
<1>2. PICK T \in F : \A U \in F : <<U, T>> \notin StrictSubsetOrdering(Nat)
  <2>1. F \subseteq FiniteSubsetsOf(Nat) /\ F # {}
    BY <1>1 DEF FiniteSubsetsOf
  <2> HIDE DEF F
  <2>2. IsWellFoundedOn(StrictSubsetOrdering(Nat), FiniteSubsetsOf(Nat))
    BY FS_StrictSubsetOrderingWellFounded
  <2>3. QED BY <2>1, <2>2, WFMin
<1>3. PICK x \in S : T = UpTo(x)
  BY <1>2
<1>4. ASSUME NEW y \in S PROVE x <= y
  <2>1. SUFFICES ASSUME y < x PROVE FALSE
    BY <1>3
  <2>2. UpTo(y) \subseteq UpTo(x)
    <3>1. ASSUME NEW z \in UpTo(y) PROVE z \in UpTo(x)
      <4>1. z \in S /\ z <= y /\ z \in Nat BY <3>1
      <4>2. z <= x BY <2>1, <4>1
      <4>3. QED BY <4>1, <4>2
    <3>2. QED BY <3>1
  <2>3. x \in UpTo(x) /\ x \notin UpTo(y)
    BY <2>1
  <2>4. <<UpTo(y), UpTo(x)>> \in StrictSubsetOrdering(Nat)
    BY <1>1, <2>2, <2>3 DEF StrictSubsetOrdering
  <2>5. UpTo(y) \in F OBVIOUS
  <2>6. QED BY <1>2, <1>3, <2>4, <2>5
<1>5. QED
  BY <1>4

(* Induction on the naturals: T is the set of those that have a property.  *)
LEMMA NaturalsIn ==
    ASSUME NEW T, 0 \in T, \A n \in Nat : n \in T => n + 1 \in T
    PROVE  \A n \in Nat : n \in T
<1> DEFINE Bad == {n \in Nat : n \notin T}
<1>1. SUFFICES ASSUME Bad # {} PROVE FALSE
  OBVIOUS
<1>2. PICK x \in Bad : \A y \in Bad : x <= y
  <2>1. Bad \in SUBSET Nat OBVIOUS
  <2> HIDE DEF Bad
  <2>2. QED BY <1>1, <2>1, LeastNat
<1>3. x \in Nat \ {0}
  BY <1>2
<1>4. x - 1 \in Nat /\ x - 1 \notin Bad
  BY <1>2, <1>3
<1>5. QED
  BY <1>2, <1>3, <1>4

-----------------------------------------------------------------------------
(* Which recursions terminate. *)

(* One that makes a natural number smaller. *)
LEMMA MeasureTerminates ==
    ASSUME NEW D, NEW Stop, NEW next \in [D -> D], NEW size \in [D -> Nat],
           \A d \in D \ Stop : size[next[d]] < size[d]
    PROVE  Terminates(D, Stop, next)
<1> SUFFICES ASSUME NEW T \in SUBSET (D \ Stop), T # {}
             PROVE  \E d \in T : next[d] \notin T
  BY DEF Terminates
<1> DEFINE Sizes == {size[d] : d \in T}
<1>1. Sizes \in SUBSET Nat /\ Sizes # {}
  OBVIOUS
<1> HIDE DEF Sizes
<1>2. PICK x \in Sizes : \A y \in Sizes : x <= y
  BY <1>1, LeastNat
<1>3. PICK d \in T : x = size[d]
  BY <1>2 DEF Sizes
<1>4. ASSUME next[d] \in T PROVE FALSE
  <2>1. size[next[d]] \in Sizes
    BY <1>4 DEF Sizes
  <2>2. size[d] <= size[next[d]]
    BY <1>2, <1>3, <2>1
  <2>3. size[next[d]] < size[d] /\ size[d] \in Nat /\ size[next[d]] \in Nat
    OBVIOUS
  <2>4. QED BY <2>2, <2>3
<1>5. QED
  BY <1>4

(* One that makes a number smaller, or keeps it and makes another smaller. *)
LEMMA PairTerminates ==
    ASSUME NEW D, NEW Stop, NEW next \in [D -> D],
           NEW size \in [D -> Nat], NEW rank \in [D -> Nat],
           \A d \in D \ Stop : \/ size[next[d]] < size[d]
                               \/ size[next[d]] = size[d] /\ rank[next[d]] < rank[d]
    PROVE  Terminates(D, Stop, next)
<1> SUFFICES ASSUME NEW T \in SUBSET (D \ Stop), T # {}
             PROVE  \E d \in T : next[d] \notin T
  BY DEF Terminates
<1> DEFINE Sizes == {size[d] : d \in T}
<1>1. Sizes \in SUBSET Nat /\ Sizes # {}
  OBVIOUS
<1> HIDE DEF Sizes
<1>2. PICK x \in Sizes : \A y \in Sizes : x <= y
  BY <1>1, LeastNat
<1> DEFINE Least == {d \in T : size[d] = x}
           Ranks == {rank[d] : d \in Least}
<1>3. Ranks \in SUBSET Nat /\ Ranks # {}
  <2>1. \E d \in T : size[d] = x
    BY <1>2 DEF Sizes
  <2>2. QED BY <2>1
<1> HIDE DEF Ranks
<1>4. PICK r \in Ranks : \A y \in Ranks : r <= y
  BY <1>3, LeastNat
<1>5. PICK d \in Least : r = rank[d]
  BY <1>4 DEF Ranks
<1>6. ASSUME next[d] \in T PROVE FALSE
  <2>0. d \in T /\ size[d] = x /\ size[d] \in Nat /\ size[next[d]] \in Nat
        /\ rank[d] \in Nat /\ rank[next[d]] \in Nat
    BY <1>5
  <2>1. size[next[d]] \in Sizes
    BY <1>6 DEF Sizes
  <2>2. size[d] <= size[next[d]]
    BY <1>2, <2>0, <2>1
  <2>3. size[next[d]] = size[d] /\ rank[next[d]] < rank[d]
    <3>1. \/ size[next[d]] < size[d]
          \/ size[next[d]] = size[d] /\ rank[next[d]] < rank[d]
      BY <2>0
    <3>2. QED BY <3>1, <2>0, <2>2
  <2>4. next[d] \in Least
    BY <1>6, <2>0, <2>3
  <2>5. rank[next[d]] \in Ranks
    BY <2>4 DEF Ranks
  <2>6. QED BY <1>4, <1>5, <2>0, <2>3, <2>5
<1>7. QED
  BY <1>5, <1>6

-----------------------------------------------------------------------------
(* What holds along a recursion, and that the recursion defines a function.*)

(* Induction along a recursion: what holds where it stops, and at d when   *)
(* it holds where d goes on, holds of all arguments.                       *)
LEMMA AlongRecursion ==
    ASSUME NEW D, NEW Stop, NEW next, Terminates(D, Stop, next),
           NEW T, \A d \in D : (d \in Stop \/ next[d] \in T) => d \in T
    PROVE  \A d \in D : d \in T
<1> DEFINE Bad == {d \in D : d \notin T}
<1>1. Bad \in SUBSET (D \ Stop)
  OBVIOUS
<1>2. SUFFICES ASSUME Bad # {} PROVE FALSE
  OBVIOUS
<1>3. PICK d \in Bad : next[d] \notin Bad
  BY <1>1, <1>2 DEF Terminates
<1>4. next[d] \in D
  BY <1>3 DEF Terminates
<1>5. QED
  BY <1>3, <1>4

(* A recursion that terminates defines a function.  On the sets closed     *)
(* under it on which there is one, it is the same, and every argument is   *)
(* in such a set.                                                          *)
LEMMA RecursionExists ==
    ASSUME NEW D, NEW Stop, NEW next, Terminates(D, Stop, next),
           NEW V, NEW base \in [D -> V], NEW step \in [D -> [V -> V]]
    PROVE  \E f : Solves(f, D, Stop, next, V, base, step)
<1> DEFINE Fits(S, g) ==
             \A d \in S : IF d \in Stop THEN g[d] = base[d]
                          ELSE next[d] \in S /\ g[d] = step[d][g[next[d]]]
           Att == {SS \in SUBSET D : \E g \in [SS -> V] : Fits(SS, g)}
<1>0. next \in [D -> D]
  BY DEF Terminates
<1>1. ASSUME NEW S1 \in SUBSET D, NEW S2 \in SUBSET D, NEW g1 \in [S1 -> V], NEW g2 \in [S2 -> V],
             Fits(S1, g1), Fits(S2, g2)
      PROVE  \A d \in D : d \in S1 \cap S2 => g1[d] = g2[d]
  <2> DEFINE T == {d \in D : d \in S1 \cap S2 => g1[d] = g2[d]}
  <2>1. ASSUME NEW d \in D, d \in Stop \/ next[d] \in T PROVE d \in T
    <3>1. SUFFICES ASSUME d \in S1, d \in S2 PROVE g1[d] = g2[d]
      OBVIOUS
    <3>2. CASE d \in Stop
      BY <3>1, <3>2, <1>1
    <3>3. CASE d \notin Stop
      BY <3>1, <3>3, <1>1, <2>1
    <3>4. QED BY <3>2, <3>3
  <2> HIDE DEF T
  <2>2. \A d \in D : d \in T
    BY <2>1, AlongRecursion
  <2>3. QED BY <2>2 DEF T
<1>2. \A d \in D : \E S \in Att : d \in S
  <2> DEFINE T == {d \in D : \E S \in Att : d \in S}
  <2>1. ASSUME NEW d \in D, d \in Stop \/ next[d] \in T PROVE d \in T
    <3>1. CASE d \in Stop
      <4> DEFINE g == [x \in {d} |-> base[d]]
      <4>1. g \in [{d} -> V] /\ Fits({d}, g)
        BY <3>1
      <4>2. {d} \in Att
        BY <4>1
      <4>3. QED BY <4>2
    <3>2. CASE d \notin Stop
      <4>1. PICK S \in Att : next[d] \in S
        BY <2>1, <3>2
      <4>2. PICK g \in [S -> V] : Fits(S, g)
        BY <4>1
      <4>3. CASE d \in S
        BY <4>3
      <4>4. CASE d \notin S
        <5> DEFINE g2 == [x \in S \cup {d} |-> IF x = d THEN step[d][g[next[d]]] ELSE g[x]]
        <5>0. g[next[d]] \in V
          BY <4>1, <4>2
        <5>1. step[d][g[next[d]]] \in V
          BY <5>0
        <5>2. g2 \in [S \cup {d} -> V]
          BY <5>1, <4>2
        <5>3. Fits(S \cup {d}, g2)
          <6> TAKE x \in S \cup {d}
          <6>1. CASE x = d
            BY <6>1, <3>2, <4>1, <4>4
          <6>2. CASE x # d /\ x \in Stop
            BY <6>2, <4>2
          <6>3. CASE x # d /\ x \notin Stop
            <7>1. next[x] \in S /\ g[x] = step[x][g[next[x]]] /\ next[x] # d
              BY <6>3, <4>2, <4>4
            <7>2. g2[next[x]] = g[next[x]] /\ g2[x] = g[x]
              BY <7>1, <6>3, <4>4
            <7> HIDE DEF g2
            <7>3. QED BY <7>1, <7>2, <6>3
          <6> HIDE DEF g2
          <6>4. QED BY <6>1, <6>2, <6>3
        <5>4. S \cup {d} \in SUBSET D
          OBVIOUS
        <5> HIDE DEF g2, Fits
        <5>5. S \cup {d} \in Att
          BY <5>2, <5>3, <5>4
        <5>6. QED BY <5>5
      <4>5. QED BY <4>3, <4>4
    <3>3. QED BY <3>1, <3>2
  <2> HIDE DEF T, Att
  <2>2. \A d \in D : d \in T
    BY <2>1, AlongRecursion
  <2>3. QED BY <2>2 DEF T
<1> DEFINE Val(d) == CHOOSE v \in V : \E S \in SUBSET D : d \in S /\ \E g \in [S -> V] : Fits(S, g) /\ g[d] = v
<1>3. ASSUME NEW S \in SUBSET D, NEW g \in [S -> V], Fits(S, g), NEW d \in S
      PROVE  Val(d) = g[d]
  <2>1. \E v \in V : \E R \in SUBSET D : d \in R /\ \E k \in [R -> V] : Fits(R, k) /\ k[d] = v
    BY <1>3
  <2>2. PICK R \in SUBSET D : d \in R /\ \E k \in [R -> V] : Fits(R, k) /\ k[d] = Val(d)
    BY <2>1
  <2>3. PICK k \in [R -> V] : Fits(R, k) /\ k[d] = Val(d)
    BY <2>2
  <2> HIDE DEF Val, Fits
  <2>4. QED BY <2>2, <2>3, <1>1, <1>3
<1> DEFINE f == [d \in D |-> Val(d)]
<1>4. ASSUME NEW d \in D
      PROVE  /\ Val(d) \in V
             /\ IF d \in Stop THEN Val(d) = base[d]
                ELSE Val(d) = step[d][Val(next[d])]
  <2>0. PICK S \in SUBSET D : d \in S /\ \E g \in [S -> V] : Fits(S, g)
    BY <1>2
  <2>1. PICK g \in [S -> V] : d \in S /\ Fits(S, g)
    BY <2>0
  <2> HIDE DEF Val, Fits
  <2>2. Val(d) = g[d]
    BY <2>1, <1>3
  <2>3. d \notin Stop => next[d] \in S
    BY <2>1 DEF Fits
  <2>4. d \notin Stop => Val(next[d]) = g[next[d]]
    BY <2>1, <2>3, <1>3
  <2>5. IF d \in Stop THEN g[d] = base[d] ELSE g[d] = step[d][g[next[d]]]
    BY <2>1 DEF Fits
  <2>6. QED BY <2>1, <2>2, <2>4, <2>5
<1> HIDE DEF Val
<1>5. f \in [D -> V]
  BY <1>4
<1>6. ASSUME NEW d \in D
      PROVE  /\ d \in Stop => f[d] = base[d]
             /\ d \notin Stop => f[d] = step[d][f[next[d]]]
  BY <1>0, <1>4
<1>7. Solves(f, D, Stop, next, V, base, step)
  <2> HIDE DEF f
  <2> DEFINE g == f
  <2>1. g \in [D -> V] /\ \A d \in D : d \in Stop => g[d] = base[d]
    BY <1>5, <1>6
  <2>2. \A d \in D : d \notin Stop => g[d] = step[d][g[next[d]]]
    BY <1>6
  <2>3. QED BY <2>1, <2>2, SMT DEF Solves
<1>8. QED
  BY <1>7

-----------------------------------------------------------------------------
(* Counting down to zero, as the functions over prefixes of a list do. *)

(* Induction up to n. *)
LEMMA CountInduction ==
    ASSUME NEW n \in Nat, NEW T, 0 \in T, \A i \in 1 .. n : i - 1 \in T => i \in T
    PROVE  \A i \in 0 .. n : i \in T
<1> DEFINE U == {i \in Nat : i <= n => i \in T}
<1>1. 0 \in U
  OBVIOUS
<1>2. ASSUME NEW i \in Nat, i \in U PROVE i + 1 \in U
  <2>1. SUFFICES ASSUME i + 1 <= n PROVE i + 1 \in T
    OBVIOUS
  <2>2. i + 1 \in 1 .. n /\ (i + 1) - 1 = i /\ i \in T
    BY <1>2, <2>1
  <2>3. QED BY <2>2
<1> HIDE DEF U
<1>3. \A i \in Nat : i \in U
  BY <1>1, <1>2, NaturalsIn
<1>4. QED
  BY <1>3 DEF U

(* f is computed entry by entry: start, and then step[i] of the one before.*)
CountsUp(f, n, V, start, step) ==
    /\ f \in [0 .. n -> V]
    /\ f[0] = start
    /\ \A i \in 1 .. n : f[i] = step[i][f[i - 1]]

(* There is such a function. *)
LEMMA CountRecursion ==
    ASSUME NEW n \in Nat, NEW V, NEW start \in V, NEW step \in [1 .. n -> [V -> V]]
    PROVE  \E f : CountsUp(f, n, V, start, step)
<1> DEFINE D == 0 .. n
           Stop == {0}
           next == [i \in D |-> IF i = 0 THEN 0 ELSE i - 1]
           size == [i \in D |-> i]
           base == [i \in D |-> start]
           go == [d \in D |-> IF d = 0 THEN [v \in V |-> start] ELSE step[d]]
<1>1. Terminates(D, Stop, next)
  <2>1. next \in [D -> D] /\ size \in [D -> Nat]
    OBVIOUS
  <2>2. \A d \in D \ {0} : size[next[d]] < size[d]
    OBVIOUS
  <2> HIDE DEF D, next, size
  <2>3. QED BY <2>1, <2>2, MeasureTerminates
<1>2. base \in [D -> V]
  OBVIOUS
<1>3. go \in [D -> [V -> V]]
  OBVIOUS
<1>4. \E f : Solves(f, D, Stop, next, V, base, go)
  <2> HIDE DEF D, Stop, next, base, go
  <2>1. QED BY <1>1, <1>2, <1>3, RecursionExists
<1>5. PICK f : Solves(f, D, Stop, next, V, base, go)
  BY <1>4
<1>6. f[0] = start
  BY <1>5 DEF Solves
<1>7. ASSUME NEW i \in 1 .. n PROVE f[i] = step[i][f[i - 1]]
  <2>1. next[i] = i - 1 /\ i - 1 \in D /\ i \in D /\ i \notin Stop
    OBVIOUS
  <2>2. f[i] = go[i][f[i - 1]]
    BY <1>5, <2>1 DEF Solves
  <2>3. go[i] = step[i]
    BY <2>1
  <2>4. QED BY <2>2, <2>3
<1>8. f \in [0 .. n -> V]
  BY <1>5 DEF Solves
<1>9. QED
  BY <1>6, <1>7, <1>8 DEF CountsUp

(* Induction on a list, from its end to its head. *)
LEMMA ListInduction ==
    ASSUME NEW R, NEW T, <<>> \in T, \A s \in Seq(R) : s # <<>> /\ Tail(s) \in T => s \in T
    PROVE  \A s \in Seq(R) : s \in T
<1> DEFINE D == Seq(R)
           Stop == {<<>>}
           next == [s \in D |-> IF s = <<>> THEN <<>> ELSE Tail(s)]
           size == [s \in D |-> Len(s)]
<1>1. next \in [D -> D] /\ size \in [D -> Nat]
  OBVIOUS
<1>2. \A s \in D \ Stop : size[next[s]] < size[s]
  OBVIOUS
<1>3. Terminates(D, Stop, next)
  <2> HIDE DEF D, Stop, next, size
  <2>1. QED BY <1>1, <1>2, MeasureTerminates
<1>4. \A s \in D : (s \in Stop \/ next[s] \in T) => s \in T
  OBVIOUS
<1>5. \A s \in D : s \in T
  <2> HIDE DEF D, Stop, next, size
  <2>1. QED BY <1>3, <1>4, AlongRecursion
<1> QED
  BY <1>5
=============================================================================
