-------------------------- MODULE CurriculumProofs --------------------------
(***************************************************************************)
(* Lemmas about the operators of Curriculum, Scheduler and Reports, for    *)
(* every graph that files can hold (WellFormed).  The walks are recursive  *)
(* functions; Recursion shows that such functions exist, and what they     *)
(* yield is proved by the sets of arguments for which it holds, which      *)
(* contain all of them.                                                    *)
(*                                                                         *)
(*   lists       concatenation, SubSeq, Only, Dedup                        *)
(*   overlay     MergedIs: the merged graph has the shipped concepts, and  *)
(*               which quizzes each has, in which order                    *)
(*   targets     what ExpandToAtoms and KahnOrder list                     *)
(*   walks       PostOrder goes through what the roots reach, each concept *)
(*               after all it rests on; the syllabus's own walk agrees     *)
(*   steps       what the actions of `next` and the syllabus are           *)
(*   tree        what grows until it is closed, and what the tree draws    *)
(***************************************************************************)
EXTENDS Reports, Recursion, SequenceTheorems

-----------------------------------------------------------------------------
(* Lists. *)

(* What is in a list is of its kind. *)
LEMMA InList ==
    ASSUME NEW R, NEW s \in Seq(R)
    PROVE  ToSet(s) \subseteq R /\ \A i \in DOMAIN s : s[i] \in R /\ s[i] \in ToSet(s)
BY DEF ToSet

LEMMA Joined ==
    ASSUME NEW R, NEW s \in Seq(R), NEW t \in Seq(R)
    PROVE  /\ s \o t \in Seq(R)
           /\ ToSet(s \o t) = ToSet(s) \cup ToSet(t)
           /\ Len(s \o t) = Len(s) + Len(t)
           /\ \A i \in DOMAIN s : (s \o t)[i] = s[i]
           /\ \A i \in DOMAIN t : (s \o t)[Len(s) + i] = t[i]
<1>1. /\ s \o t \in Seq(R)
      /\ Len(s \o t) = Len(s) + Len(t)
      /\ \A i \in DOMAIN s : (s \o t)[i] = s[i]
      /\ \A i \in DOMAIN t : (s \o t)[Len(s) + i] = t[i]
  OBVIOUS
<1>2. ASSUME NEW x \in ToSet(s \o t) PROVE x \in ToSet(s) \cup ToSet(t)
  <2>1. PICK i \in DOMAIN (s \o t) : x = (s \o t)[i]
    BY DEF ToSet
  <2>2. i \in 1 .. Len(s) + Len(t)
    BY <1>1
  <2>3. CASE i \in DOMAIN s
    BY <2>1, <2>3, <1>1 DEF ToSet
  <2>4. CASE i \notin DOMAIN s
    <3>1. i - Len(s) \in DOMAIN t /\ i = Len(s) + (i - Len(s))
      BY <2>2, <2>4
    <3>2. QED BY <3>1, <2>1, <1>1 DEF ToSet
  <2>5. QED BY <2>3, <2>4
<1>3. ASSUME NEW x \in ToSet(s) PROVE x \in ToSet(s \o t)
  <2>1. PICK i \in DOMAIN s : x = s[i] BY DEF ToSet
  <2>2. i \in DOMAIN (s \o t) BY <1>1
  <2>3. QED BY <2>1, <2>2, <1>1 DEF ToSet
<1>4. ASSUME NEW x \in ToSet(t) PROVE x \in ToSet(s \o t)
  <2>1. PICK i \in DOMAIN t : x = t[i] BY DEF ToSet
  <2>2. Len(s) + i \in DOMAIN (s \o t) BY <1>1
  <2>3. QED BY <2>1, <2>2, <1>1 DEF ToSet
<1>5. QED BY <1>1, <1>2, <1>3, <1>4

LEMMA Added ==
    ASSUME NEW R, NEW s \in Seq(R), NEW e \in R
    PROVE  /\ Append(s, e) \in Seq(R)
           /\ ToSet(Append(s, e)) = ToSet(s) \cup {e}
           /\ Len(Append(s, e)) = Len(s) + 1
           /\ \A i \in DOMAIN s : Append(s, e)[i] = s[i]
           /\ Append(s, e)[Len(s) + 1] = e
           /\ Append(s, e) # <<>> /\ Head(Append(s, e)) = IF s = <<>> THEN e ELSE Head(s)
BY DEF ToSet

LEMMA EmptyList ==
    /\ \A R : <<>> \in Seq(R)
    /\ ToSet(<<>>) = {} /\ Len(<<>>) = 0
    /\ \A R : \A s \in Seq(R) : ToSet(s) = {} => s = <<>>
<1>1. ASSUME NEW R, NEW s \in Seq(R), s # <<>> PROVE s[1] \in ToSet(s)
  BY <1>1 DEF ToSet
<1>2. QED BY <1>1 DEF ToSet

LEMMA Split ==
    ASSUME NEW R, NEW s \in Seq(R), s # <<>>
    PROVE  /\ Head(s) \in R /\ Tail(s) \in Seq(R)
           /\ s = <<Head(s)>> \o Tail(s)
           /\ Len(Tail(s)) = Len(s) - 1
           /\ ToSet(s) = {Head(s)} \cup ToSet(Tail(s))
<1>1. Head(s) \in R /\ Tail(s) \in Seq(R) /\ Len(Tail(s)) = Len(s) - 1
  OBVIOUS
<1>2. s = <<Head(s)>> \o Tail(s)
  <2>1. <<Head(s)>> \in Seq(R) /\ Len(<<Head(s)>>) = 1 /\ <<Head(s)>>[1] = s[1]
    BY <1>1
  <2>2. \A i \in 1 .. Len(s) - 1 : Tail(s)[i] = s[i + 1]
    OBVIOUS
  <2>3. Len(<<Head(s)>> \o Tail(s)) = Len(s) /\ <<Head(s)>> \o Tail(s) \in Seq(R)
    BY <2>1, <1>1
  <2>4. ASSUME NEW i \in 1 .. Len(s) PROVE (<<Head(s)>> \o Tail(s))[i] = s[i]
    BY <2>1, <2>2, <1>1
  <2>5. QED BY <2>3, <2>4
<1>3. ToSet(<<Head(s)>>) = {Head(s)} /\ <<Head(s)>> \in Seq(R)
  BY <1>1 DEF ToSet
<1>4. ToSet(<<Head(s)>> \o Tail(s)) = {Head(s)} \cup ToSet(Tail(s))
  <2>1. \A t, u \in Seq(R) : ToSet(t \o u) = ToSet(t) \cup ToSet(u)
    BY Joined
  <2>2. QED BY <2>1, <1>1, <1>3, Zenon
<1>5. ToSet(s) = {Head(s)} \cup ToSet(Tail(s))
  BY <1>2, <1>4, Zenon
<1>6. QED BY <1>1, <1>2, <1>5, Zenon

(* No entry twice. *)
Distinct(s) == \A i, j \in DOMAIN s : s[i] = s[j] => i = j

(* A list has finitely many entries, as many as places if each is there    *)
(* once.                                                                   *)
LEMMA ListFinite ==
    ASSUME NEW R, NEW s \in Seq(R)
    PROVE  /\ IsFiniteSet(ToSet(s))
           /\ Distinct(s) => Cardinality(ToSet(s)) = Len(s)
<1>1. s \in Surjection(1 .. Len(s), ToSet(s)) /\ Len(s) \in Nat /\ DOMAIN s = 1 .. Len(s)
  BY DEF Surjection, ToSet
<1>2. IsFiniteSet(1 .. Len(s)) /\ Cardinality(1 .. Len(s)) = Len(s)
  BY <1>1, FS_Interval
<1>3. IsFiniteSet(ToSet(s))
      /\ (s \in Injection(1 .. Len(s), ToSet(s)) => Cardinality(ToSet(s)) = Len(s))
  BY <1>1, <1>2, FS_Surjection
<1>4. Distinct(s) => s \in Injection(1 .. Len(s), ToSet(s))
  BY <1>1 DEF Distinct, Injection, Surjection, IsInjective
<1>5. QED BY <1>3, <1>4

(* What comes before a list without repetitions is not one of its entries. *)
LEMMA DistinctCons ==
    ASSUME NEW R, NEW s \in Seq(R), NEW x \in R, Distinct(s), x \notin ToSet(s)
    PROVE  /\ <<x>> \o s \in Seq(R)
           /\ Distinct(<<x>> \o s)
           /\ ToSet(<<x>> \o s) = {x} \cup ToSet(s)
<1>1. <<x>> \in Seq(R) /\ Len(<<x>>) = 1 /\ ToSet(<<x>>) = {x}
  BY DEF ToSet
<1>2. <<x>> \o s \in Seq(R) /\ ToSet(<<x>> \o s) = {x} \cup ToSet(s)
  <2>1. \A t, u \in Seq(R) : t \o u \in Seq(R) /\ ToSet(t \o u) = ToSet(t) \cup ToSet(u)
    BY Joined
  <2>2. QED BY <2>1, <1>1, Zenon
<1>3. Distinct(<<x>> \o s)
  <2>1. \A i \in DOMAIN s : s[i] # x
    BY DEF ToSet
  <2>2. QED BY <2>1 DEF Distinct
<1>4. QED BY <1>2, <1>3

(* The least of numbers is one of them. *)
LEMMA MinIs ==
    ASSUME NEW S \in SUBSET Nat, S # {}
    PROVE  Min(S) \in S /\ \A y \in S : Min(S) <= y
BY LeastNat DEF Min

LEMMA MaxIs ==
    ASSUME NEW n \in Nat, NEW S \in SUBSET (0 .. n), S # {}
    PROVE  Max(S) \in S /\ \A y \in S : y <= Max(S)
<1>1. PICK bounds : bounds = {b \in Nat : \A y \in S : y <= b}
  OBVIOUS
<1>2. bounds \in SUBSET Nat /\ n \in bounds
  BY <1>1
<1>3. PICK b \in bounds : \A c \in bounds : b <= c
  BY <1>2, LeastNat
<1>4. b \in S
  <2>1. SUFFICES ASSUME b \notin S PROVE FALSE
    OBVIOUS
  <2>2. \A y \in S : y <= b - 1
    BY <1>1, <1>3, <2>1
  <2>3. b - 1 \in bounds
    <3>1. PICK y \in S : y \in Nat
      <4>1. \A y \in 0 .. n : y \in Nat
        OBVIOUS
      <4>2. QED BY <4>1
    <3>2. y <= b - 1 /\ b \in Nat
      BY <1>1, <1>3, <2>2, <3>1
    <3>3. b - 1 \in Nat
      BY <3>1, <3>2
    <3>4. QED BY <1>1, <2>2, <3>3
  <2>4. QED BY <1>2, <1>3, <2>3
<1>5. \E x \in S : \A y \in S : x >= y
  BY <1>1, <1>2, <1>3, <1>4
<1>6. QED BY <1>5 DEF Max

(* The first entry of s that is in S. *)
FirstIn(s, S, i) == i \in DOMAIN s /\ s[i] \in S /\ \A j \in DOMAIN s : j < i => s[j] \notin S

(* out[n] is what `Only` keeps of the first n entries of s. *)
Keeps(out, R, s, S) ==
    /\ out \in [0 .. Len(s) -> Seq(R)]
    /\ out[0] = <<>>
    /\ \A n \in 1 .. Len(s) :
          out[n] = IF s[n] \in S THEN Append(out[n - 1], s[n]) ELSE out[n - 1]

LEMMA OnlySteps ==
    ASSUME NEW R, NEW s \in Seq(R), NEW S
    PROVE  \E out : Keeps(out, R, s, S) /\ Only(s, S) = out[Len(s)]
<1> DEFINE D == 0 .. Len(s)
           step == [n \in 1 .. Len(s) |->
                      [v \in Seq(R) |-> IF s[n] \in S THEN Append(v, s[n]) ELSE v]]
<1>1. Len(s) \in Nat /\ <<>> \in Seq(R)
  OBVIOUS
<1>2. step \in [1 .. Len(s) -> [Seq(R) -> Seq(R)]]
  OBVIOUS
<1>3. PICK f : CountsUp(f, Len(s), Seq(R), <<>>, step)
  <2> HIDE DEF step
  <2>1. QED BY <1>1, <1>2, CountRecursion
<1>4. /\ f \in [0 .. Len(s) -> Seq(R)] /\ f[0] = <<>>
      /\ \A n \in 1 .. Len(s) : f[n] = step[n][f[n - 1]]
  BY <1>3 DEF CountsUp
<1>5. ASSUME NEW n \in 1 .. Len(s)
      PROVE  f[n] = IF s[n] \in S THEN Append(f[n - 1], s[n]) ELSE f[n - 1]
  <2>1. n - 1 \in 0 .. Len(s)
    BY <1>1
  <2>2. f[n - 1] \in Seq(R)
    BY <2>1, <1>4
  <2>3. QED BY <2>2, <1>4
<1> HIDE DEF step
<1> DEFINE out[n \in 0 .. Len(s)] ==
             IF n = 0 THEN <<>>
             ELSE IF s[n] \in S THEN Append(out[n - 1], s[n]) ELSE out[n - 1]
<1>6. Only(s, S) = out[Len(s)]
  BY DEF Only
<1>7. \E g : g = [n \in 0 .. Len(s) |-> IF n = 0 THEN <<>>
                 ELSE IF s[n] \in S THEN Append(g[n - 1], s[n]) ELSE g[n - 1]]
  <2>1. DOMAIN f = 0 .. Len(s) /\ f = [n \in 0 .. Len(s) |-> f[n]]
    BY <1>4
  <2>2. \A n \in 0 .. Len(s) :
           f[n] = IF n = 0 THEN <<>>
                  ELSE IF s[n] \in S THEN Append(f[n - 1], s[n]) ELSE f[n - 1]
    <3> TAKE n \in 0 .. Len(s)
    <3>1. n = 0 \/ n \in 1 .. Len(s)
      BY <1>1
    <3>2. QED BY <3>1, <1>1, <1>4, <1>5
  <2>3. f = [n \in 0 .. Len(s) |-> IF n = 0 THEN <<>>
                 ELSE IF s[n] \in S THEN Append(f[n - 1], s[n]) ELSE f[n - 1]]
    BY <2>1, <2>2, Zenon
  <2>4. QED BY <2>3
<1>8. PICK g : /\ g = out
               /\ g = [n \in 0 .. Len(s) |-> IF n = 0 THEN <<>>
                     ELSE IF s[n] \in S THEN Append(g[n - 1], s[n]) ELSE g[n - 1]]
  BY <1>7, Zenon
<1> HIDE DEF out
<1>9. DOMAIN g = 0 .. Len(s) /\ g[0] = <<>>
  BY <1>8
<1>10. ASSUME NEW n \in 1 .. Len(s)
       PROVE  g[n] = IF s[n] \in S THEN Append(g[n - 1], s[n]) ELSE g[n - 1]
  <2>1. n \in 0 .. Len(s) /\ n # 0
    BY <1>1
  <2>2. QED BY <1>8, <2>1, Zenon
<1>11. \A n \in 0 .. Len(s) : g[n] \in Seq(R)
  <2> DEFINE T == {n \in 0 .. Len(s) : g[n] \in Seq(R)}
  <2>1. 0 \in T
    BY <1>1, <1>9
  <2>2. ASSUME NEW n \in 1 .. Len(s), n - 1 \in T PROVE n \in T
    <3>1. g[n - 1] \in Seq(R) /\ s[n] \in R
      BY <2>2
    <3>2. g[n] = g[n - 1] \/ g[n] = Append(g[n - 1], s[n])
      BY <1>10
    <3>3. \A v \in Seq(R), e \in R : Append(v, e) \in Seq(R)
      OBVIOUS
    <3>4. g[n] \in Seq(R)
      BY <3>1, <3>2, <3>3, Zenon
    <3>5. QED BY <3>4
  <2> HIDE DEF T
  <2>3. \A n \in 0 .. Len(s) : n \in T
    BY <1>1, <2>1, <2>2, CountInduction
  <2>4. QED BY <2>3 DEF T
<1>12. g \in [0 .. Len(s) -> Seq(R)]
  BY <1>8, <1>11
<1>13. Only(s, S) = g[Len(s)]
  BY <1>6, <1>8
<1>14. QED
  BY <1>9, <1>10, <1>12, <1>13 DEF Keeps

(* What `Only` keeps: the entries in S, from the first of them on. *)
LEMMA OnlyKeeps ==
    ASSUME NEW R, NEW s \in Seq(R), NEW S
    PROVE  /\ Only(s, S) \in Seq(R)
           /\ ToSet(Only(s, S)) = ToSet(s) \cap S
           /\ \A i : FirstIn(s, S, i) => Only(s, S) # <<>> /\ Head(Only(s, S)) = s[i]
<1>1. Len(s) \in Nat /\ DOMAIN s = 1 .. Len(s)
  OBVIOUS
<1>0. PICK out : Keeps(out, R, s, S) /\ Only(s, S) = out[Len(s)]
  BY OnlySteps
<1>2. /\ out \in [0 .. Len(s) -> Seq(R)]
      /\ out[0] = <<>>
      /\ \A n \in 1 .. Len(s) :
           out[n] = IF s[n] \in S THEN Append(out[n - 1], s[n]) ELSE out[n - 1]
  BY <1>0 DEF Keeps
<1> DEFINE before(n) == {s[j] : j \in 1 .. n}
           first(n, i) == i \in 1 .. n /\ s[i] \in S /\ \A j \in 1 .. Len(s) : j < i => s[j] \notin S
           T == {n \in 0 .. Len(s) :
                   /\ ToSet(out[n]) = before(n) \cap S
                   /\ \A i \in 1 .. n : first(n, i) => out[n] # <<>> /\ Head(out[n]) = s[i]}
<1>3. 0 \in T
  <2>1. out[0] = <<>> /\ before(0) = {}
    BY <1>2
  <2>2. QED BY <2>1, <1>1, EmptyList
<1>4. ASSUME NEW n \in 1 .. Len(s), n - 1 \in T PROVE n \in T
  <2>1. n \in 0 .. Len(s) /\ n - 1 \in 0 .. Len(s) /\ n - 1 \in Nat /\ n \in Nat
    BY <1>1
  <2>0. PICK was : was = out[n - 1]
    OBVIOUS
  <2>2. was \in Seq(R) /\ s[n] \in R
    <3>1. out[n - 1] \in Seq(R)
      BY <1>2, <2>1
    <3>2. s[n] \in R
      OBVIOUS
    <3>3. QED BY <3>1, <3>2, <2>0
  <2>3. ToSet(was) = before(n - 1) \cap S
    BY <1>4, <2>0
  <2>4. \A i \in 1 .. n - 1 : first(n - 1, i) => was # <<>> /\ Head(was) = s[i]
    BY <1>4, <2>0
  <2>5. before(n) = before(n - 1) \cup {s[n]}
    <3>1. 1 .. n = (1 .. n - 1) \cup {n}
      BY <2>1
    <3>2. QED BY <3>1
  <2>6. ASSUME NEW i \in 1 .. n, first(n, i), i # n
        PROVE  was # <<>> /\ Head(was) = s[i]
    <3>1. i \in 1 .. n - 1
      BY <2>1, <2>6
    <3>2. QED BY <3>1, <2>4, <2>6
  <2>7. s[n] \in S /\ first(n, n) => was = <<>>
    <3>1. SUFFICES ASSUME first(n, n) PROVE was = <<>>
      OBVIOUS
    <3>2. \A j \in 1 .. n - 1 : s[j] \notin S
      BY <3>1, <1>1, <2>1
    <3>3. ToSet(was) = {}
      BY <3>2, <2>3
    <3>4. QED BY <3>3, <2>2, EmptyList
  <2>8. CASE s[n] \notin S
    <3>1. out[n] = was
      BY <1>2, <2>0, <2>8
    <3>2. ToSet(out[n]) = before(n) \cap S
      BY <3>1, <2>3, <2>5, <2>8
    <3>3. ASSUME NEW i \in 1 .. n, first(n, i) PROVE out[n] # <<>> /\ Head(out[n]) = s[i]
      BY <3>1, <3>3, <2>6, <2>8
    <3>4. QED BY <2>1, <3>2, <3>3
  <2>9. CASE s[n] \in S
    <3>1. out[n] = Append(was, s[n])
      BY <1>2, <2>0, <2>9
    <3>2. /\ ToSet(out[n]) = ToSet(was) \cup {s[n]}
          /\ out[n] # <<>>
          /\ Head(out[n]) = IF was = <<>> THEN s[n] ELSE Head(was)
      BY <3>1, <2>2, Added
    <3>3. ToSet(out[n]) = before(n) \cap S
      BY <3>2, <2>3, <2>5, <2>9
    <3>4. ASSUME NEW i \in 1 .. n, first(n, i) PROVE Head(out[n]) = s[i]
      <4>1. CASE i = n
        BY <4>1, <3>2, <3>4, <2>7
      <4>2. CASE i # n
        BY <4>2, <3>2, <3>4, <2>6
      <4>3. QED BY <4>1, <4>2
    <3>5. QED BY <2>1, <3>2, <3>3, <3>4
  <2>10. QED BY <2>8, <2>9
<1>5. Len(s) \in T
  <2> HIDE DEF T
  <2>1. \A n \in 0 .. Len(s) : n \in T
    BY <1>1, <1>3, <1>4, CountInduction
  <2>2. QED BY <2>1, <1>1
<1>6. before(Len(s)) = ToSet(s)
  BY <1>1 DEF ToSet
<1> HIDE DEF before
<1>7. Only(s, S) \in Seq(R)
  BY <1>0, <1>1, <1>2
<1>8. ASSUME NEW i, FirstIn(s, S, i)
      PROVE  Only(s, S) # <<>> /\ Head(Only(s, S)) = s[i]
  BY <1>0, <1>1, <1>5, <1>8 DEF FirstIn
<1>9. QED
  BY <1>0, <1>5, <1>6, <1>7, <1>8

(* out[n] is what `Dedup` makes of the first n entries of s. *)
Dedups(out, R, s) ==
    /\ out \in [0 .. Len(s) -> Seq(R)]
    /\ out[0] = <<>>
    /\ \A n \in 1 .. Len(s) :
          out[n] = IF s[n] \in ToSet(out[n - 1]) THEN out[n - 1] ELSE Append(out[n - 1], s[n])

LEMMA DedupSteps ==
    ASSUME NEW R, NEW s \in Seq(R)
    PROVE  \E out : Dedups(out, R, s) /\ Dedup(s) = out[Len(s)]
<1> DEFINE D == 0 .. Len(s)
           step == [n \in 1 .. Len(s) |->
                      [v \in Seq(R) |-> IF Contains(v, s[n]) THEN v ELSE Append(v, s[n])]]
<1>1. Len(s) \in Nat /\ <<>> \in Seq(R)
  OBVIOUS
<1>2. step \in [1 .. Len(s) -> [Seq(R) -> Seq(R)]]
  OBVIOUS
<1>3. PICK f : CountsUp(f, Len(s), Seq(R), <<>>, step)
  <2> HIDE DEF step
  <2>1. QED BY <1>1, <1>2, CountRecursion
<1>4. /\ f \in [0 .. Len(s) -> Seq(R)] /\ f[0] = <<>>
      /\ \A n \in 1 .. Len(s) : f[n] = step[n][f[n - 1]]
  BY <1>3 DEF CountsUp
<1>5. ASSUME NEW n \in 1 .. Len(s)
      PROVE  f[n] = IF Contains(f[n - 1], s[n]) THEN f[n - 1] ELSE Append(f[n - 1], s[n])
  <2>1. n - 1 \in 0 .. Len(s)
    BY <1>1
  <2>2. f[n - 1] \in Seq(R)
    BY <2>1, <1>4
  <2>3. QED BY <2>2, <1>4
<1> HIDE DEF step
<1> DEFINE prefix[n \in 0 .. Len(s)] ==
             LET out == prefix[n - 1]
             IN  IF n = 0 THEN <<>>
                 ELSE IF Contains(out, s[n]) THEN out ELSE Append(out, s[n])
<1>6. Dedup(s) = prefix[Len(s)]
  BY DEF Dedup
<1>7. \E g : g = [n \in 0 .. Len(s) |-> IF n = 0 THEN <<>>
                 ELSE IF Contains(g[n - 1], s[n]) THEN g[n - 1] ELSE Append(g[n - 1], s[n])]
  <2>1. DOMAIN f = 0 .. Len(s) /\ f = [n \in 0 .. Len(s) |-> f[n]]
    BY <1>4
  <2>2. \A n \in 0 .. Len(s) :
           f[n] = IF n = 0 THEN <<>>
                  ELSE IF Contains(f[n - 1], s[n]) THEN f[n - 1] ELSE Append(f[n - 1], s[n])
    <3> TAKE n \in 0 .. Len(s)
    <3>1. n = 0 \/ n \in 1 .. Len(s)
      BY <1>1
    <3>2. QED BY <3>1, <1>1, <1>4, <1>5
  <2>3. f = [n \in 0 .. Len(s) |-> IF n = 0 THEN <<>>
                 ELSE IF Contains(f[n - 1], s[n]) THEN f[n - 1] ELSE Append(f[n - 1], s[n])]
    BY <2>1, <2>2, Zenon
  <2>4. QED BY <2>3
<1>8. PICK g : /\ g = prefix
               /\ g = [n \in 0 .. Len(s) |-> IF n = 0 THEN <<>>
                     ELSE IF Contains(g[n - 1], s[n]) THEN g[n - 1] ELSE Append(g[n - 1], s[n])]
  BY <1>7, Zenon
<1> HIDE DEF prefix
<1>9. DOMAIN g = 0 .. Len(s) /\ g[0] = <<>>
  BY <1>8
<1>10. ASSUME NEW n \in 1 .. Len(s)
       PROVE  g[n] = IF Contains(g[n - 1], s[n]) THEN g[n - 1] ELSE Append(g[n - 1], s[n])
  <2>1. n \in 0 .. Len(s) /\ n # 0
    BY <1>1
  <2>2. QED BY <1>8, <2>1, Zenon
<1>11. \A n \in 0 .. Len(s) : g[n] \in Seq(R)
  <2> DEFINE T == {n \in 0 .. Len(s) : g[n] \in Seq(R)}
  <2>1. 0 \in T
    BY <1>1, <1>9
  <2>2. ASSUME NEW n \in 1 .. Len(s), n - 1 \in T PROVE n \in T
    <3>1. g[n - 1] \in Seq(R) /\ s[n] \in R
      BY <2>2
    <3>2. g[n] = g[n - 1] \/ g[n] = Append(g[n - 1], s[n])
      BY <1>10
    <3>3. \A v \in Seq(R), e \in R : Append(v, e) \in Seq(R)
      OBVIOUS
    <3>4. g[n] \in Seq(R)
      BY <3>1, <3>2, <3>3, Zenon
    <3>5. QED BY <3>4
  <2> HIDE DEF T
  <2>3. \A n \in 0 .. Len(s) : n \in T
    BY <1>1, <2>1, <2>2, CountInduction
  <2>4. QED BY <2>3 DEF T
<1>12. g \in [0 .. Len(s) -> Seq(R)]
  BY <1>8, <1>11
<1>13. \A v \in Seq(R), e \in R : Contains(v, e) <=> e \in ToSet(v)
  BY DEF Contains, ToSet
<1>14. ASSUME NEW n \in 1 .. Len(s)
       PROVE  g[n] = IF s[n] \in ToSet(g[n - 1]) THEN g[n - 1] ELSE Append(g[n - 1], s[n])
  <2>1. n - 1 \in 0 .. Len(s) /\ s[n] \in R
    BY <1>1
  <2>2. g[n - 1] \in Seq(R)
    BY <2>1, <1>11
  <2>3. Contains(g[n - 1], s[n]) <=> s[n] \in ToSet(g[n - 1])
    BY <2>1, <2>2, <1>13
  <2>4. QED BY <2>3, <1>10, Zenon
<1>15. Dedup(s) = g[Len(s)]
  BY <1>6, <1>8
<1>16. QED
  BY <1>9, <1>14, <1>12, <1>15 DEF Dedups

(* `Dedup` keeps the set of entries and their order, and each once. *)
LEMMA DedupKeeps ==
    ASSUME NEW R, NEW s \in Seq(R)
    PROVE  /\ Dedup(s) \in Seq(R)
           /\ ToSet(Dedup(s)) = ToSet(s)
           /\ Distinct(Dedup(s))
<1>1. Len(s) \in Nat /\ DOMAIN s = 1 .. Len(s)
  OBVIOUS
<1>2. PICK out : Dedups(out, R, s) /\ Dedup(s) = out[Len(s)]
  BY DedupSteps
<1>3. /\ out \in [0 .. Len(s) -> Seq(R)]
      /\ out[0] = <<>>
      /\ \A n \in 1 .. Len(s) :
           out[n] = IF s[n] \in ToSet(out[n - 1]) THEN out[n - 1] ELSE Append(out[n - 1], s[n])
  BY <1>2 DEF Dedups
<1> DEFINE before(n) == {s[j] : j \in 1 .. n}
           T == {n \in 0 .. Len(s) : ToSet(out[n]) = before(n) /\ Distinct(out[n])}
<1>4. 0 \in T
  <2>1. out[0] = <<>> /\ before(0) = {} /\ Distinct(<<>>)
    BY <1>3 DEF Distinct
  <2>2. QED BY <2>1, <1>1, EmptyList
<1>5. ASSUME NEW n \in 1 .. Len(s), n - 1 \in T PROVE n \in T
  <2>1. n \in 0 .. Len(s) /\ n - 1 \in 0 .. Len(s) /\ n - 1 \in Nat /\ n \in Nat
    BY <1>1
  <2>2. PICK was : was = out[n - 1]
    OBVIOUS
  <2>3. was \in Seq(R) /\ s[n] \in R
    <3>1. out[n - 1] \in Seq(R)
      BY <1>3, <2>1
    <3>2. s[n] \in R
      OBVIOUS
    <3>3. QED BY <3>1, <3>2, <2>2
  <2>4. ToSet(was) = before(n - 1) /\ Distinct(was)
    BY <1>5, <2>2
  <2>5. before(n) = before(n - 1) \cup {s[n]}
    <3>1. 1 .. n = (1 .. n - 1) \cup {n}
      BY <2>1
    <3>2. QED BY <3>1
  <2> HIDE DEF before
  <2>6. CASE s[n] \in ToSet(was)
    <3>1. out[n] = was
      BY <1>3, <2>2, <2>6
    <3>2. QED BY <3>1, <2>1, <2>4, <2>5, <2>6
  <2>7. CASE s[n] \notin ToSet(was)
    <3>1. out[n] = Append(was, s[n])
      BY <1>3, <2>2, <2>7
    <3>2. ToSet(Append(was, s[n])) = ToSet(was) \cup {s[n]}
      BY <2>3, Added
    <3>3. Distinct(Append(was, s[n]))
      <4>1. \A i \in DOMAIN was : was[i] \in ToSet(was)
        BY DEF ToSet
      <4>2. QED BY <4>1, <2>3, <2>4, <2>7 DEF Distinct
    <3>4. QED BY <3>1, <3>2, <3>3, <2>1, <2>4, <2>5
  <2>8. QED BY <2>6, <2>7
<1>6. Len(s) \in T
  <2> HIDE DEF T
  <2>1. \A n \in 0 .. Len(s) : n \in T
    BY <1>1, <1>4, <1>5, CountInduction
  <2>2. QED BY <2>1, <1>1
<1>7. before(Len(s)) = ToSet(s)
  BY <1>1 DEF ToSet
<1> HIDE DEF before
<1>8. Dedup(s) \in Seq(R)
  BY <1>1, <1>2, <1>3
<1>9. QED
  BY <1>2, <1>6, <1>7, <1>8

(* A list without repetitions stays as it is. *)
LEMMA DedupSame ==
    ASSUME NEW R, NEW s \in Seq(R), Distinct(s)
    PROVE  Dedup(s) = s
<1>1. Len(s) \in Nat /\ DOMAIN s = 1 .. Len(s)
  OBVIOUS
<1>2. PICK out : Dedups(out, R, s) /\ Dedup(s) = out[Len(s)]
  BY DedupSteps
<1>3. /\ out \in [0 .. Len(s) -> Seq(R)]
      /\ out[0] = <<>>
      /\ \A n \in 1 .. Len(s) :
           out[n] = IF s[n] \in ToSet(out[n - 1]) THEN out[n - 1] ELSE Append(out[n - 1], s[n])
  BY <1>2 DEF Dedups
<1> DEFINE T == {n \in 0 .. Len(s) : Len(out[n]) = n /\ \A j \in 1 .. n : out[n][j] = s[j]}
<1>4. 0 \in T
  BY <1>1, <1>3
<1>5. ASSUME NEW n \in 1 .. Len(s), n - 1 \in T PROVE n \in T
  <2>1. n \in 0 .. Len(s) /\ n - 1 \in 0 .. Len(s) /\ n - 1 \in Nat /\ n \in Nat
    BY <1>1
  <2>2. PICK was : was = out[n - 1]
    OBVIOUS
  <2>3. was \in Seq(R) /\ s[n] \in R
    <3>1. out[n - 1] \in Seq(R)
      BY <1>3, <2>1
    <3>2. s[n] \in R
      OBVIOUS
    <3>3. QED BY <3>1, <3>2, <2>2
  <2>4. Len(was) = n - 1 /\ \A j \in 1 .. n - 1 : was[j] = s[j]
    BY <1>5, <2>2
  <2>5. ASSUME s[n] \in ToSet(was) PROVE FALSE
    <3>1. PICK j \in 1 .. n - 1 : s[n] = was[j]
      BY <2>3, <2>4, <2>5 DEF ToSet
    <3>2. s[n] = s[j] /\ j \in DOMAIN s /\ n \in DOMAIN s /\ j # n
      BY <3>1, <2>4, <1>1, <2>1
    <3>3. QED BY <3>2 DEF Distinct
  <2>6. out[n] = Append(was, s[n])
    BY <1>3, <2>2, <2>5
  <2>7. /\ Len(out[n]) = n
        /\ \A j \in 1 .. n - 1 : out[n][j] = was[j]
        /\ out[n][n] = s[n]
    BY <2>1, <2>3, <2>4, <2>6
  <2>8. \A j \in 1 .. n : out[n][j] = s[j]
    BY <2>1, <2>4, <2>7
  <2>9. QED BY <2>1, <2>7, <2>8
<1>6. Len(s) \in T
  <2> HIDE DEF T
  <2>1. \A n \in 0 .. Len(s) : n \in T
    BY <1>1, <1>4, <1>5, CountInduction
  <2>2. QED BY <2>1, <1>1
<1>7. Dedup(s) \in Seq(R)
  BY <1>1, <1>2, <1>3
<1>8. Len(Dedup(s)) = Len(s) /\ \A j \in 1 .. Len(s) : Dedup(s)[j] = s[j]
  BY <1>2, <1>6
<1> QED
  BY <1>7, <1>8

(* The first entry in S stays the first. *)
LEMMA DedupFirst ==
    ASSUME NEW R, NEW s \in Seq(R), NEW S, NEW i, FirstIn(s, S, i)
    PROVE  \E k : FirstIn(Dedup(s), S, k) /\ Dedup(s)[k] = s[i]
<1>1. Len(s) \in Nat /\ DOMAIN s = 1 .. Len(s) /\ i \in 1 .. Len(s)
  BY DEF FirstIn
<1>2. PICK out : Dedups(out, R, s) /\ Dedup(s) = out[Len(s)]
  BY DedupSteps
<1>3. /\ out \in [0 .. Len(s) -> Seq(R)]
      /\ out[0] = <<>>
      /\ \A n \in 1 .. Len(s) :
           out[n] = IF s[n] \in ToSet(out[n - 1]) THEN out[n - 1] ELSE Append(out[n - 1], s[n])
  BY <1>2 DEF Dedups
<1> DEFINE Found(n) == \E k : FirstIn(out[n], S, k) /\ out[n][k] = s[i]
           T == {n \in 0 .. Len(s) : IF n < i THEN ToSet(out[n]) \cap S = {} ELSE Found(n)}
<1>4. 0 \in T
  <2>1. out[0] = <<>> /\ 0 < i
    BY <1>1, <1>3
  <2>2. QED BY <2>1, <1>1, EmptyList
<1>5. ASSUME NEW n \in 1 .. Len(s), n - 1 \in T PROVE n \in T
  <2>1. n \in 0 .. Len(s) /\ n - 1 \in 0 .. Len(s) /\ n - 1 \in Nat /\ n \in Nat
    BY <1>1
  <2>2. PICK was : was = out[n - 1]
    OBVIOUS
  <2>3. was \in Seq(R) /\ s[n] \in R
    <3>1. out[n - 1] \in Seq(R)
      BY <1>3, <2>1
    <3>2. s[n] \in R
      OBVIOUS
    <3>3. QED BY <3>1, <3>2, <2>2
  <2>4. out[n] = IF s[n] \in ToSet(was) THEN was ELSE Append(was, s[n])
    BY <1>3, <2>2
  <2>5. /\ ToSet(Append(was, s[n])) = ToSet(was) \cup {s[n]}
        /\ Len(Append(was, s[n])) = Len(was) + 1
        /\ \A j \in DOMAIN was : Append(was, s[n])[j] = was[j]
        /\ Append(was, s[n])[Len(was) + 1] = s[n]
        /\ Append(was, s[n]) \in Seq(R)
    BY <2>3, Added
  <2>6. CASE n < i
    <3>1. s[n] \notin S
      BY <2>6, <1>1 DEF FirstIn
    <3>2. ToSet(was) \cap S = {}
      BY <1>1, <1>5, <2>1, <2>2, <2>6
    <3>3. ToSet(out[n]) \cap S = {}
      BY <3>1, <3>2, <2>4, <2>5
    <3>4. QED BY <3>3, <2>1, <2>6
  <2>7. CASE n = i
    <3>1. ToSet(was) \cap S = {} /\ s[n] \in S
      BY <1>1, <1>5, <2>1, <2>2, <2>7 DEF FirstIn
    <3>2. out[n] = Append(was, s[n])
      BY <3>1, <2>4
    <3>3. \A j \in DOMAIN was : was[j] \notin S
      BY <3>1 DEF ToSet
    <3>4. FirstIn(out[n], S, Len(was) + 1) /\ out[n][Len(was) + 1] = s[i]
      BY <3>1, <3>2, <3>3, <2>3, <2>5, <2>7 DEF FirstIn
    <3>5. Found(n)
      BY <3>4
    <3> HIDE DEF Found
    <3>6. QED BY <3>5, <2>1, <2>7, <1>1
  <2>8. CASE n > i
    <3>1. \E k : FirstIn(was, S, k) /\ was[k] = s[i]
      BY <1>1, <1>5, <2>1, <2>2, <2>8
    <3>2. PICK k : FirstIn(was, S, k) /\ was[k] = s[i]
      BY <3>1
    <3>3. FirstIn(Append(was, s[n]), S, k) /\ Append(was, s[n])[k] = s[i]
      BY <3>2, <2>3, <2>5 DEF FirstIn
    <3>4. Found(n)
      BY <3>2, <3>3, <2>4
    <3> HIDE DEF Found
    <3>5. QED BY <3>4, <2>1, <2>8, <1>1
  <2>9. QED BY <2>6, <2>7, <2>8, <1>1, <2>1
<1>6. Len(s) \in T
  <2> HIDE DEF T
  <2>1. \A n \in 0 .. Len(s) : n \in T
    BY <1>1, <1>4, <1>5, CountInduction
  <2>2. QED BY <2>1, <1>1
<1>7. Found(Len(s))
  BY <1>1, <1>6
<1>8. QED BY <1>2, <1>7

(* Joining lists is associative. *)
LEMMA JoinedTwice ==
    \A R : \A s, t, u \in Seq(R) : s \o (t \o u) = (s \o t) \o u
OBVIOUS

(* `Only` goes on entry by entry. *)
LEMMA OnlyAppend ==
    ASSUME NEW R, NEW s \in Seq(R), NEW e \in R, NEW S
    PROVE  Only(Append(s, e), S) = IF e \in S THEN Append(Only(s, S), e) ELSE Only(s, S)
<1>1. PICK t : t = Append(s, e)
  OBVIOUS
<1>2. /\ t \in Seq(R) /\ Len(t) = Len(s) + 1 /\ Len(s) \in Nat
      /\ t[Len(s) + 1] = e /\ \A i \in 1 .. Len(s) : t[i] = s[i]
  BY <1>1
<1>3. PICK out : Keeps(out, R, s, S) /\ Only(s, S) = out[Len(s)]
  BY OnlySteps
<1>4. PICK more : Keeps(more, R, t, S) /\ Only(t, S) = more[Len(t)]
  BY <1>2, OnlySteps
<1> DEFINE T == {n \in 0 .. Len(s) : more[n] = out[n]}
<1>5. 0 \in T
  BY <1>2, <1>3, <1>4 DEF Keeps
<1>6. ASSUME NEW n \in 1 .. Len(s), n - 1 \in T PROVE n \in T
  <2>1. more[n - 1] = out[n - 1] /\ t[n] = s[n] /\ n \in 1 .. Len(t) /\ n \in 0 .. Len(s)
    BY <1>2, <1>6
  <2>2. out[n] = IF s[n] \in S THEN Append(out[n - 1], s[n]) ELSE out[n - 1]
    BY <1>3 DEF Keeps
  <2>3. more[n] = IF t[n] \in S THEN Append(more[n - 1], t[n]) ELSE more[n - 1]
    BY <1>4, <2>1 DEF Keeps
  <2>4. more[n] = out[n]
    BY <2>1, <2>2, <2>3
  <2>5. QED BY <2>1, <2>4
<1>7. Len(s) \in T
  <2> HIDE DEF T
  <2>1. \A n \in 0 .. Len(s) : n \in T
    BY <1>2, <1>5, <1>6, CountInduction
  <2>2. QED BY <2>1, <1>2
<1>8. more[Len(s)] = Only(s, S)
  BY <1>3, <1>7
<1>9. more[Len(t)] = IF e \in S THEN Append(more[Len(s)], e) ELSE more[Len(s)]
  <2>1. Len(t) \in 1 .. Len(t) /\ Len(t) - 1 = Len(s) /\ t[Len(t)] = e
    BY <1>2
  <2>2. more[Len(t)] = IF t[Len(t)] \in S THEN Append(more[Len(t) - 1], t[Len(t)]) ELSE more[Len(t) - 1]
    BY <1>4, <2>1 DEF Keeps
  <2>3. QED BY <2>1, <2>2, Zenon
<1>10. QED BY <1>1, <1>4, <1>8, <1>9, Zenon

(* `Dedup` of two lists: that of the first, and of the second what the     *)
(* first does not have.                                                    *)
LEMMA DedupJoined ==
    ASSUME NEW R, NEW s \in Seq(R), NEW t \in Seq(R)
    PROVE  Dedup(s \o t) = Dedup(s) \o Only(Dedup(t), R \ ToSet(s))
<1> DEFINE S == R \ ToSet(s)
<1>1. PICK both : both = s \o t
  OBVIOUS
<1>2. /\ both \in Seq(R) /\ Len(both) = Len(s) + Len(t) /\ Len(s) \in Nat /\ Len(t) \in Nat
      /\ \A i \in 1 .. Len(s) : both[i] = s[i]
      /\ \A i \in 1 .. Len(t) : both[Len(s) + i] = t[i]
  BY <1>1
<1>3. PICK one : Dedups(one, R, s) /\ Dedup(s) = one[Len(s)]
  BY DedupSteps
<1>4. PICK two : Dedups(two, R, t) /\ Dedup(t) = two[Len(t)]
  BY DedupSteps
<1>5. PICK all : Dedups(all, R, both) /\ Dedup(both) = all[Len(both)]
  BY <1>2, DedupSteps
<1> DEFINE T == {n \in 0 .. Len(s) : all[n] = one[n]}
<1>6. 0 \in T
  BY <1>2, <1>3, <1>5 DEF Dedups
<1>7. ASSUME NEW n \in 1 .. Len(s), n - 1 \in T PROVE n \in T
  <2>1. all[n - 1] = one[n - 1] /\ both[n] = s[n] /\ n \in 1 .. Len(both) /\ n \in 0 .. Len(s)
    BY <1>2, <1>7
  <2>2. one[n] = IF s[n] \in ToSet(one[n - 1]) THEN one[n - 1] ELSE Append(one[n - 1], s[n])
    BY <1>3 DEF Dedups
  <2>3. all[n] = IF both[n] \in ToSet(all[n - 1]) THEN all[n - 1] ELSE Append(all[n - 1], both[n])
    BY <1>5, <2>1 DEF Dedups
  <2>4. all[n] = one[n]
    BY <2>1, <2>2, <2>3, Zenon
  <2>5. QED BY <2>1, <2>4
<1>8. all[Len(s)] = Dedup(s)
  <2> HIDE DEF T
  <2>1. \A n \in 0 .. Len(s) : n \in T
    BY <1>2, <1>6, <1>7, CountInduction
  <2>2. Len(s) \in T
    BY <2>1, <1>2
  <2>3. QED BY <2>2, <1>3 DEF T
<1> HIDE DEF T
<1>9. PICK first : first = Dedup(s)
  OBVIOUS
<1>10. first \in Seq(R) /\ ToSet(first) = ToSet(s)
  BY <1>9, DedupKeeps
<1> DEFINE U == {k \in 0 .. Len(t) : all[Len(s) + k] = first \o Only(two[k], S)}
<1> HIDE DEF S
<1>11. 0 \in U
  <2>1. two[0] = <<>>
    BY <1>4 DEF Dedups
  <2>2. <<>> \in Seq(R) /\ ToSet(<<>>) = {}
    BY EmptyList
  <2>3. Only(<<>>, S) \in Seq(R) /\ ToSet(Only(<<>>, S)) = {}
    <3>1. Only(<<>>, S) \in Seq(R) /\ ToSet(Only(<<>>, S)) = ToSet(<<>>) \cap S
      BY <2>2, OnlyKeeps
    <3>2. QED BY <2>2, <3>1
  <2>4. Only(<<>>, S) = <<>>
    BY <2>3, EmptyList
  <2>5. first \o <<>> = first
    BY <1>10
  <2>6. all[Len(s) + 0] = first \o Only(two[0], S)
    <3>1. Len(s) + 0 = Len(s)
      BY <1>2
    <3>2. QED BY <3>1, <1>8, <1>9, <2>1, <2>4, <2>5
  <2>7. 0 \in 0 .. Len(t)
    BY <1>2
  <2>8. QED BY <2>6, <2>7
<1>12. ASSUME NEW k \in 1 .. Len(t), k - 1 \in U PROVE k \in U
  <2>1. PICK was, kept : was = two[k - 1] /\ kept = Only(was, S)
    OBVIOUS
  <2>2. /\ k \in 0 .. Len(t) /\ k - 1 \in 0 .. Len(t) /\ Len(s) + k \in 1 .. Len(both)
        /\ both[Len(s) + k] = t[k] /\ t[k] \in R /\ (Len(s) + k) - 1 = Len(s) + (k - 1)
    BY <1>2
  <2>3. was \in Seq(R)
    BY <1>4, <2>1, <2>2 DEF Dedups
  <2>4. kept \in Seq(R) /\ ToSet(kept) = ToSet(was) \cap S
    BY <2>1, <2>3, OnlyKeeps
  <2>5. all[Len(s) + (k - 1)] = first \o kept
    BY <1>12, <2>1
  <2>6. ToSet(first \o kept) = ToSet(s) \cup (ToSet(was) \cap S)
    BY <1>10, <2>4, Joined
  <2>7. two[k] = IF t[k] \in ToSet(was) THEN was ELSE Append(was, t[k])
    BY <1>4, <2>1 DEF Dedups
  <2>8. all[Len(s) + k] = IF t[k] \in ToSet(first \o kept) THEN first \o kept
                          ELSE Append(first \o kept, t[k])
    <3>1. all[Len(s) + k] = IF both[Len(s) + k] \in ToSet(all[(Len(s) + k) - 1])
                            THEN all[(Len(s) + k) - 1]
                            ELSE Append(all[(Len(s) + k) - 1], both[Len(s) + k])
      BY <1>5, <2>2 DEF Dedups
    <3>2. QED BY <3>1, <2>2, <2>5, Zenon
  <2>9. Only(Append(was, t[k]), S) = IF t[k] \in S THEN Append(kept, t[k]) ELSE kept
    <3>1. PICK e : e = t[k]
      OBVIOUS
    <3>2. e \in R
      BY <2>2, <3>1
    <3>3. Only(Append(was, e), S) = IF e \in S THEN Append(Only(was, S), e) ELSE Only(was, S)
      BY <2>3, <3>2, OnlyAppend
    <3>4. QED BY <2>1, <3>1, <3>3
  <2>10. t[k] \in S <=> t[k] \notin ToSet(s)
    BY <2>2 DEF S
  <2>11. Append(first \o kept, t[k]) = first \o Append(kept, t[k])
    <3>1. first \in Seq(R) /\ kept \in Seq(R) /\ t[k] \in R
      BY <1>10, <2>2, <2>4
    <3>2. PICK e, joined : e = t[k] /\ joined = first \o kept
      OBVIOUS
    <3>3. e \in R /\ joined \in Seq(R) /\ <<e>> \in Seq(R)
      BY <3>1, <3>2
    <3>4. Append(joined, e) = joined \o <<e>> /\ Append(kept, e) = kept \o <<e>>
      BY <3>1, <3>3, AppendIsConcat
    <3>5. (first \o kept) \o <<e>> = first \o (kept \o <<e>>)
      <4>1. \A a, b, c \in Seq(R) : a \o (b \o c) = (a \o b) \o c
        BY JoinedTwice, SMTT(60)
      <4>2. QED BY <3>1, <3>3, <4>1, ZenonT(40)
    <3>6. QED BY <3>2, <3>4, <3>5, Zenon
  <2>12. all[Len(s) + k] = first \o Only(two[k], S)
    <3>1. CASE t[k] \in ToSet(was)
      <4>1. t[k] \in ToSet(first \o kept)
        BY <3>1, <2>6, <2>10
      <4>2. QED BY <3>1, <4>1, <2>1, <2>7, <2>8
    <3>2. CASE t[k] \notin ToSet(was) /\ t[k] \in ToSet(s)
      <4>1. t[k] \in ToSet(first \o kept)
        BY <3>2, <2>6
      <4>2. Only(two[k], S) = kept
        BY <3>2, <2>7, <2>9, <2>10
      <4>3. QED BY <4>1, <4>2, <2>8
    <3>3. CASE t[k] \notin ToSet(was) /\ t[k] \notin ToSet(s)
      <4>1. t[k] \notin ToSet(first \o kept)
        BY <3>3, <2>6
      <4>2. Only(two[k], S) = Append(kept, t[k])
        BY <3>3, <2>7, <2>9, <2>10
      <4>3. QED BY <4>1, <4>2, <2>8, <2>11
    <3>4. QED BY <3>1, <3>2, <3>3
  <2>13. QED BY <2>2, <2>12
<1>13. Len(t) \in U
  <2> HIDE DEF U
  <2>1. \A k \in 0 .. Len(t) : k \in U
    BY <1>2, <1>11, <1>12, CountInduction
  <2>2. QED BY <2>1, <1>2
<1>14. all[Len(s) + Len(t)] = first \o Only(two[Len(t)], S)
  BY <1>13
<1>15. QED BY <1>1, <1>2, <1>4, <1>5, <1>9, <1>14 DEF S

-----------------------------------------------------------------------------
(* From the ids a user names to atoms. *)

AtomsOf(g) == {a \in g.ids : IsAtom(g, a)}

(* What `AtomsUnder` goes on with. *)
Onward(g) ==
    [todo \in Seq(Id) |->
        IF todo = <<>> THEN <<>>
        ELSE IF Head(todo) \in g.ids \ AtomsOf(g) THEN g.children[Head(todo)] \o Tail(todo)
        ELSE Tail(todo)]

(* The child tree being finite, the expansion ends: an id, and so a list   *)
(* of ids, at the head of what is to do, goes away.                        *)
LEMMA ExpansionEnds ==
    ASSUME NEW g, WellFormed(g)
    PROVE  Terminates(Seq(Id), {<<>>}, Onward(g))
<1>1. Onward(g) \in [Seq(Id) -> Seq(Id)]
  BY DEF Onward, WellFormed, AtomsOf
<1> SUFFICES ASSUME NEW T \in SUBSET (Seq(Id) \ {<<>>}), \A d \in T : Onward(g)[d] \in T
             PROVE  T = {}
  BY <1>1 DEF Terminates
<1> DEFINE Goes(x) == \A rest \in Seq(Id) : <<x>> \o rest \in T => rest \in T
           AllGo(L) == \A rest \in Seq(Id) : L \o rest \in T => rest \in T
<1>2. ASSUME NEW L \in Seq(Id), \A x \in ToSet(L) : Goes(x) PROVE AllGo(L)
  <2> DEFINE P == {M \in Seq(Id) : (\A x \in ToSet(M) : Goes(x)) => AllGo(M)}
  <2>1. <<>> \in P
    <3>1. \A rest \in Seq(Id) : <<>> \o rest = rest
      OBVIOUS
    <3>2. QED BY <3>1
  <2>2. ASSUME NEW M \in Seq(Id), M # <<>>, Tail(M) \in P PROVE M \in P
    <3>1. SUFFICES ASSUME \A x \in ToSet(M) : Goes(x), NEW rest \in Seq(Id), M \o rest \in T
                   PROVE  rest \in T
      OBVIOUS
    <3>2. /\ Head(M) \in Id /\ Tail(M) \in Seq(Id)
          /\ M = <<Head(M)>> \o Tail(M)
          /\ ToSet(M) = {Head(M)} \cup ToSet(Tail(M))
      BY <2>2, Split
    <3>3. (<<Head(M)>> \o Tail(M)) \o rest = <<Head(M)>> \o (Tail(M) \o rest)
      BY <3>2
    <3>4. Tail(M) \o rest \in Seq(Id)
      BY <3>2
    <3>5. <<Head(M)>> \o (Tail(M) \o rest) \in T
      BY <3>1, <3>2, <3>3, Zenon
    <3>6. Goes(Head(M)) /\ \A x \in ToSet(Tail(M)) : Goes(x)
      BY <3>1, <3>2
    <3>7. Tail(M) \o rest \in T
      BY <3>4, <3>5, <3>6, Zenon
    <3>8. QED BY <3>6, <3>7, <2>2
  <2> HIDE DEF P
  <2>3. \A M \in Seq(Id) : M \in P
    BY <2>1, <2>2, ListInduction
  <2>4. L \in P
    BY <2>3
  <2>5. QED BY <2>4, <1>2 DEF P
<1>3. ASSUME NEW x \in Id, x \notin g.ids \ AtomsOf(g) PROVE Goes(x)
  <2> TAKE rest \in Seq(Id)
  <2>1. SUFFICES ASSUME <<x>> \o rest \in T PROVE rest \in T
    OBVIOUS
  <2>2. <<x>> \o rest \in Seq(Id) /\ <<x>> \o rest # <<>>
        /\ Head(<<x>> \o rest) = x /\ Tail(<<x>> \o rest) = rest
    BY SMTT(30)
  <2>3. Onward(g)[<<x>> \o rest] = rest
    BY <2>2, <1>3 DEF Onward
  <2>4. QED BY <2>1, <2>3
<1>4. \A x \in g.ids : Goes(x)
  <2> DEFINE Bad == {x \in g.ids : ~Goes(x)}
  <2>1. SUFFICES ASSUME Bad # {} PROVE FALSE
    OBVIOUS
  <2>2. \E id \in Bad : ToSet(g.children[id]) \cap Bad = {}
    <3>1. Bad \in SUBSET g.ids
      OBVIOUS
    <3> HIDE DEF Bad
    <3>2. QED BY <2>1, <3>1 DEF WellFormed
  <2>3. PICK id \in Bad : ToSet(g.children[id]) \cap Bad = {}
    BY <2>2
  <2>4. id \in Id /\ id \in g.ids /\ g.children[id] \in Seq(Id)
    BY DEF WellFormed
  <2>5. id \in g.ids \ AtomsOf(g)
    BY <1>3, <2>4
  <2>6. ASSUME NEW x \in ToSet(g.children[id]) PROVE Goes(x)
    <3>1. x \in Id
      BY <2>4, InList
    <3>2. CASE x \in g.ids
      BY <3>2, <2>3
    <3>3. CASE x \notin g.ids
      BY <3>1, <3>3, <1>3
    <3>4. QED BY <3>2, <3>3
  <2> HIDE DEF Goes
  <2>7. AllGo(g.children[id])
    BY <2>4, <2>6, <1>2
  <2>8. ASSUME NEW rest \in Seq(Id), <<id>> \o rest \in T PROVE rest \in T
    <3>1. <<id>> \o rest \in Seq(Id) /\ <<id>> \o rest # <<>>
          /\ Head(<<id>> \o rest) = id /\ Tail(<<id>> \o rest) = rest
      BY <2>4
    <3>2. Onward(g)[<<id>> \o rest] = g.children[id] \o rest
      BY <3>1, <2>5 DEF Onward
    <3>3. g.children[id] \o rest \in T
      BY <2>8, <3>2
    <3>4. QED BY <3>3, <2>7
  <2>9. Goes(id)
    BY <2>8 DEF Goes
  <2>10. QED BY <2>9 DEF Goes
<1>5. \A x \in Id : Goes(x)
  BY <1>3, <1>4
<1>6. ASSUME NEW L \in T PROVE FALSE
  <2>1. L \in Seq(Id) /\ \A x \in ToSet(L) : x \in Id
    BY InList
  <2>2. AllGo(L)
    <3> HIDE DEF Goes, AllGo
    <3>1. QED BY <2>1, <1>2, <1>5
  <2>3. L \o <<>> = L /\ <<>> \in Seq(Id)
    BY <2>1
  <2>4. <<>> \in T
    BY <2>2, <2>3
  <2>5. QED BY <2>4
<1> QED
  BY <1>6

(* under[c] is what `AtomsUnder` finds below the concepts c. *)
Unders(under, g) ==
    /\ under \in [Seq(Id) -> Seq(AtomsOf(g))]
    /\ under[<<>>] = <<>>
    /\ \A todo \in Seq(Id) : todo # <<>> =>
          under[todo] = IF Head(todo) \in AtomsOf(g) THEN <<Head(todo)>> \o under[Tail(todo)]
                        ELSE under[Onward(g)[todo]]

LEMMA UnderSteps ==
    ASSUME NEW g, WellFormed(g)
    PROVE  \E under : Unders(under, g) /\ \A c : AtomsUnder(g, c) = under[c]
<1> DEFINE A == AtomsOf(g)
           D == Seq(Id)
           Stop == {<<>>}
           base == [d \in D |-> <<>>]
           step == [d \in D |-> [v \in Seq(A) |->
                      IF d # <<>> /\ Head(d) \in A THEN <<Head(d)>> \o v ELSE v]]
<1>1. Terminates(D, Stop, Onward(g))
  BY ExpansionEnds
<1>2. base \in [D -> Seq(A)] /\ step \in [D -> [Seq(A) -> Seq(A)]]
  OBVIOUS
<1>3. PICK f : Solves(f, D, Stop, Onward(g), Seq(A), base, step)
  <2> HIDE DEF D, Stop, base, step, A
  <2>1. QED BY <1>1, <1>2, RecursionExists
<1>4. Onward(g) \in [D -> D]
  BY <1>1 DEF Terminates
<1>5. f \in [D -> Seq(A)] /\ f[<<>>] = <<>>
  <2>1. <<>> \in D /\ <<>> \in Stop
    OBVIOUS
  <2>2. f \in [D -> Seq(A)] /\ f[<<>>] = base[<<>>]
    BY <1>3, <2>1 DEF Solves
  <2>3. QED BY <2>1, <2>2
<1>6. ASSUME NEW d \in D, d # <<>>
      PROVE  f[d] = IF Head(d) \in A THEN <<Head(d)>> \o f[Tail(d)] ELSE f[Onward(g)[d]]
  <2>1. f[d] = step[d][f[Onward(g)[d]]]
    BY <1>3, <1>6 DEF Solves
  <2>2. Onward(g)[d] \in D
    BY <1>4
  <2>3. f[Onward(g)[d]] \in Seq(A)
    BY <2>2, <1>5
  <2>4. f[d] = IF Head(d) \in A THEN <<Head(d)>> \o f[Onward(g)[d]] ELSE f[Onward(g)[d]]
    BY <2>1, <2>3, <1>6
  <2>5. Head(d) \in A => Onward(g)[d] = Tail(d)
    BY <1>6 DEF Onward
  <2>6. QED BY <2>4, <2>5
<1>7. ASSUME NEW d \in D, d # <<>>
      PROVE  /\ Head(d) \notin g.ids => Onward(g)[d] = Tail(d)
             /\ IsAtom(g, Head(d)) <=> Head(d) \in A
             /\ Head(d) \in g.ids /\ ~IsAtom(g, Head(d)) =>
                  Onward(g)[d] = g.children[Head(d)] \o Tail(d)
  BY <1>7 DEF Onward, AtomsOf, IsAtom
<1> DEFINE under[todo \in Seq(Id)] ==
             IF todo = <<>> THEN <<>>
             ELSE IF Head(todo) \notin g.ids THEN under[Tail(todo)]
             ELSE IF IsAtom(g, Head(todo)) THEN <<Head(todo)>> \o under[Tail(todo)]
             ELSE under[g.children[Head(todo)] \o Tail(todo)]
<1>8. \A c : AtomsUnder(g, c) = under[c]
  BY DEF AtomsUnder
<1>9. \E h : h = [todo \in Seq(Id) |->
             IF todo = <<>> THEN <<>>
             ELSE IF Head(todo) \notin g.ids THEN h[Tail(todo)]
             ELSE IF IsAtom(g, Head(todo)) THEN <<Head(todo)>> \o h[Tail(todo)]
             ELSE h[g.children[Head(todo)] \o Tail(todo)]]
  <2>1. f = [todo \in Seq(Id) |-> f[todo]]
    BY <1>5
  <2>2. ASSUME NEW todo \in Seq(Id)
        PROVE  f[todo] = IF todo = <<>> THEN <<>>
                   ELSE IF Head(todo) \notin g.ids THEN f[Tail(todo)]
                   ELSE IF IsAtom(g, Head(todo)) THEN <<Head(todo)>> \o f[Tail(todo)]
                   ELSE f[g.children[Head(todo)] \o Tail(todo)]
    <3> HIDE DEF A, step
    <3>1. CASE todo = <<>>
      BY <3>1, <1>5
    <3>2. CASE todo # <<>>
      <4>1. f[todo] = IF Head(todo) \in A THEN <<Head(todo)>> \o f[Tail(todo)]
                      ELSE f[Onward(g)[todo]]
        BY <3>2, <1>6
      <4>2. Head(todo) \in A => Head(todo) \in g.ids
        BY DEF A, AtomsOf
      <4>3. QED BY <4>1, <4>2, <3>2, <1>7, Zenon
    <3>3. QED BY <3>1, <3>2
  <2>3. f = [todo \in Seq(Id) |->
             IF todo = <<>> THEN <<>>
             ELSE IF Head(todo) \notin g.ids THEN f[Tail(todo)]
             ELSE IF IsAtom(g, Head(todo)) THEN <<Head(todo)>> \o f[Tail(todo)]
             ELSE f[g.children[Head(todo)] \o Tail(todo)]]
    BY <2>1, <2>2, Zenon
  <2>4. QED BY <2>3
<1>10. PICK h : /\ h = under
                /\ h = [todo \in Seq(Id) |->
                     IF todo = <<>> THEN <<>>
                     ELSE IF Head(todo) \notin g.ids THEN h[Tail(todo)]
                     ELSE IF IsAtom(g, Head(todo)) THEN <<Head(todo)>> \o h[Tail(todo)]
                     ELSE h[g.children[Head(todo)] \o Tail(todo)]]
  BY <1>9, Zenon
<1> HIDE DEF under
<1>11. DOMAIN h = D /\ h[<<>>] = <<>>
  <2>1. <<>> \in Seq(Id)
    OBVIOUS
  <2>2. QED BY <1>10, <2>1, Zenon
<1>12. ASSUME NEW d \in D, d # <<>>
       PROVE  h[d] = IF Head(d) \in A THEN <<Head(d)>> \o h[Tail(d)] ELSE h[Onward(g)[d]]
  <2>1. h[d] = IF Head(d) \notin g.ids THEN h[Tail(d)]
               ELSE IF IsAtom(g, Head(d)) THEN <<Head(d)>> \o h[Tail(d)]
               ELSE h[g.children[Head(d)] \o Tail(d)]
    BY <1>10, <1>12, Zenon
  <2>2. Head(d) \in A => Head(d) \in g.ids
    BY DEF AtomsOf
  <2> HIDE DEF A
  <2>3. QED BY <2>1, <2>2, <1>12, <1>7, Zenon
<1>13. \A d \in D : h[d] \in Seq(A)
  <2> DEFINE T == {d \in D : h[d] \in Seq(A)}
  <2>1. ASSUME NEW d \in D, d \in Stop \/ Onward(g)[d] \in T PROVE d \in T
    <3>1. CASE d = <<>>
      <4>1. h[d] = <<>> /\ <<>> \in Seq(A)
        BY <3>1, <1>11
      <4>2. h[d] \in Seq(A)
        BY <4>1, Zenon
      <4>3. QED BY <4>2
    <3>2. CASE d # <<>>
      <4>1. Onward(g)[d] \in T
        BY <2>1, <3>2
      <4>2. h[Onward(g)[d]] \in Seq(A)
        BY <4>1
      <4>3. CASE Head(d) \in A
        <5>1. Onward(g)[d] = Tail(d)
          BY <4>3, <3>2 DEF Onward
        <5>2. h[d] = <<Head(d)>> \o h[Tail(d)] /\ h[Tail(d)] \in Seq(A)
          BY <5>1, <4>2, <4>3, <3>2, <1>12
        <5>3. \A v \in Seq(A), x \in A : <<x>> \o v \in Seq(A)
          OBVIOUS
        <5>4. h[d] \in Seq(A)
          BY <5>2, <5>3, <4>3
        <5>5. QED BY <5>4
      <4>4. CASE Head(d) \notin A
        <5>1. h[d] = h[Onward(g)[d]]
          BY <4>4, <3>2, <1>12
        <5>2. h[d] \in Seq(A)
          BY <5>1, <4>2, Zenon
        <5>3. QED BY <5>2
      <4>5. QED BY <4>3, <4>4
    <3>3. QED BY <3>1, <3>2
  <2> HIDE DEF T, D, Stop
  <2>2. \A d \in D : d \in T
    BY <1>1, <2>1, AlongRecursion
  <2>3. QED BY <2>2 DEF T
<1>14. h \in [D -> Seq(A)]
  BY <1>10, <1>13
<1>15. Unders(h, g)
  <2> HIDE DEF A
  <2>1. h \in [Seq(Id) -> Seq(A)] /\ h[<<>>] = <<>>
    BY <1>11, <1>14
  <2>2. QED BY <2>1, <1>12 DEF Unders, A
<1>16. QED BY <1>8, <1>10, <1>15

(* The atoms below concepts are atoms of the graph, and those below atoms  *)
(* are these.                                                              *)
LEMMA UnderAtoms ==
    ASSUME NEW g, WellFormed(g)
    PROVE  /\ \A c \in Seq(Id) : AtomsUnder(g, c) \in Seq(AtomsOf(g))
           /\ \A c \in Seq(AtomsOf(g)) : AtomsUnder(g, c) = c
<1>1. PICK under : Unders(under, g) /\ \A c : AtomsUnder(g, c) = under[c]
  BY UnderSteps
<1>2. under \in [Seq(Id) -> Seq(AtomsOf(g))]
  BY <1>1 DEF Unders
<1>3. AtomsOf(g) \subseteq Id
  BY DEF AtomsOf, WellFormed
<1> DEFINE T == {c \in Seq(AtomsOf(g)) : under[c] = c}
<1>4. <<>> \in T
  BY <1>1 DEF Unders
<1>5. ASSUME NEW c \in Seq(AtomsOf(g)), c # <<>>, Tail(c) \in T PROVE c \in T
  <2>1. c \in Seq(Id) /\ Head(c) \in AtomsOf(g)
    BY <1>3, <1>5
  <2>2. under[c] = <<Head(c)>> \o under[Tail(c)]
    BY <1>1, <1>5, <2>1 DEF Unders
  <2>3. under[Tail(c)] = Tail(c)
    BY <1>5
  <2>4. c = <<Head(c)>> \o Tail(c)
    BY <1>5, Split
  <2>5. under[c] = c
    BY <2>2, <2>3, <2>4, Zenon
  <2>6. QED BY <2>5
<1> HIDE DEF T
<1>6. \A c \in Seq(AtomsOf(g)) : c \in T
  BY <1>4, <1>5, ListInduction
<1>7. QED BY <1>1, <1>2, <1>6 DEF T

(* The atoms below two lists of concepts. *)
LEMMA UnderJoined ==
    ASSUME NEW g, WellFormed(g), NEW s \in Seq(Id), NEW t \in Seq(Id)
    PROVE  AtomsUnder(g, s \o t) = AtomsUnder(g, s) \o AtomsUnder(g, t)
<1>1. PICK under : Unders(under, g) /\ \A c : AtomsUnder(g, c) = under[c]
  BY UnderSteps
<1>2. under \in [Seq(Id) -> Seq(AtomsOf(g))] /\ under[<<>>] = <<>>
  BY <1>1 DEF Unders
<1>3. Terminates(Seq(Id), {<<>>}, Onward(g)) /\ Onward(g) \in [Seq(Id) -> Seq(Id)]
  BY ExpansionEnds DEF Terminates
<1> DEFINE T == {d \in Seq(Id) : under[d \o t] = under[d] \o under[t]}
<1>4. <<>> \in T
  <2>1. <<>> \o t = t /\ under[t] \in Seq(AtomsOf(g)) /\ <<>> \in Seq(Id)
    BY <1>2
  <2>2. <<>> \o under[t] = under[t]
    BY <2>1
  <2>3. under[<<>> \o t] = under[<<>>] \o under[t]
    BY <1>2, <2>1, <2>2
  <2>4. QED BY <2>1, <2>3
<1>5. ASSUME NEW d \in Seq(Id), d # <<>>, Onward(g)[d] \in T PROVE d \in T
  <2>1. /\ d \o t \in Seq(Id) /\ d \o t # <<>>
        /\ Head(d \o t) = Head(d) /\ Tail(d \o t) = Tail(d) \o t
        /\ Tail(d) \in Seq(Id) /\ Head(d) \in Id
    BY <1>5
  <2>2. CASE Head(d) \in AtomsOf(g)
    <3>1. Onward(g)[d] = Tail(d)
      BY <1>5, <2>2 DEF Onward
    <3>2. under[Tail(d) \o t] = under[Tail(d)] \o under[t]
      BY <1>5, <3>1
    <3>3. under[d] = <<Head(d)>> \o under[Tail(d)]
      BY <1>1, <1>5, <2>2 DEF Unders
    <3>4. under[d \o t] = <<Head(d)>> \o under[Tail(d) \o t]
      <4>1. under[d \o t] = <<Head(d \o t)>> \o under[Tail(d \o t)]
        BY <1>1, <2>1, <2>2 DEF Unders
      <4>2. QED BY <4>1, <2>1
    <3>5. under[Tail(d)] \in Seq(AtomsOf(g)) /\ under[t] \in Seq(AtomsOf(g))
      BY <1>2, <2>1
    <3>6. <<Head(d)>> \o (under[Tail(d)] \o under[t]) = (<<Head(d)>> \o under[Tail(d)]) \o under[t]
      <4>1. <<Head(d)>> \in Seq(AtomsOf(g))
        BY <2>2
      <4>2. \A a, b, c \in Seq(AtomsOf(g)) : a \o (b \o c) = (a \o b) \o c
        BY JoinedTwice, SMTT(60)
      <4>3. QED BY <3>5, <4>1, <4>2, Zenon
    <3>7. under[d \o t] = under[d] \o under[t]
      BY <3>2, <3>3, <3>4, <3>6, Zenon
    <3>8. QED BY <3>7
  <2>3. CASE Head(d) \notin AtomsOf(g)
    <3>1. Onward(g)[d \o t] = Onward(g)[d] \o t
      <4>1. CASE Head(d) \in g.ids
        <5>1. g.children[Head(d)] \in Seq(Id)
          BY <4>1 DEF WellFormed
        <5>2. Onward(g)[d \o t] = g.children[Head(d)] \o (Tail(d) \o t)
          BY <2>1, <2>3, <4>1 DEF Onward
        <5>3. Onward(g)[d] = g.children[Head(d)] \o Tail(d)
          BY <1>5, <2>3, <4>1 DEF Onward
        <5>4. g.children[Head(d)] \o (Tail(d) \o t) = (g.children[Head(d)] \o Tail(d)) \o t
          <6>1. \A a, b, c \in Seq(Id) : a \o (b \o c) = (a \o b) \o c
            BY JoinedTwice, SMTT(60)
          <6>2. Tail(d) \in Seq(Id)
            BY <2>1
          <6>3. QED BY <5>1, <6>1, <6>2, Zenon
        <5>5. QED BY <5>2, <5>3, <5>4
      <4>2. CASE Head(d) \notin g.ids
        BY <1>5, <2>1, <4>2 DEF Onward
      <4>3. QED BY <4>1, <4>2
    <3>2. under[Onward(g)[d] \o t] = under[Onward(g)[d]] \o under[t]
      BY <1>5
    <3>3. under[d] = under[Onward(g)[d]]
      BY <1>1, <1>5, <2>3 DEF Unders
    <3>4. under[d \o t] = under[Onward(g)[d \o t]]
      BY <1>1, <2>1, <2>3 DEF Unders
    <3>5. under[d \o t] = under[d] \o under[t]
      BY <3>1, <3>2, <3>3, <3>4, Zenon
    <3>6. QED BY <3>5
  <2>4. QED BY <2>2, <2>3
<1> HIDE DEF T
<1>6. \A d \in Seq(Id) : (d \in {<<>>} \/ Onward(g)[d] \in T) => d \in T
  BY <1>4, <1>5
<1>7. \A d \in Seq(Id) : d \in T
  BY <1>3, <1>6, AlongRecursion
<1>8. under[s \o t] = under[s] \o under[t]
  BY <1>7 DEF T
<1>9. AtomsUnder(g, s \o t) = under[s \o t] /\ AtomsUnder(g, s) = under[s] /\ AtomsUnder(g, t) = under[t]
  BY <1>1
<1>10. QED BY <1>8, <1>9

(* An expansion that succeeds lists atoms of the graph, each once; a list  *)
(* of atoms, each once, expands to itself.                                 *)
LEMMA ExpansionLists ==
    ASSUME NEW g, WellFormed(g), NEW ids \in Seq(Id)
    PROVE  /\ ExpandToAtoms(g, ids).err \in {"none", "unknown_id", "empty_cluster"}
           /\ ExpandToAtoms(g, ids).atoms \in Seq(AtomsOf(g))
           /\ Distinct(ExpandToAtoms(g, ids).atoms)
           /\ ids \in Seq(AtomsOf(g)) /\ Distinct(ids) =>
                ExpandToAtoms(g, ids) = [err |-> "none", atoms |-> ids]
<1> DEFINE listed(n) == Dedup(AtomsUnder(g, SubSeq(ids, 1, n)))
           unknown == {n \in DOMAIN ids : ids[n] \notin g.ids}
           empty == {n \in DOMAIN ids : /\ ids[n] \in g.ids
                                        /\ ~IsAtom(g, ids[n])
                                        /\ listed(n) = listed(n - 1)}
           failed(err) == [err |-> err, atoms |-> <<>>]
<1>1. ExpandToAtoms(g, ids) =
        IF unknown \cup empty = {} THEN [err |-> "none", atoms |-> listed(Len(ids))]
        ELSE IF Min(unknown \cup empty) \in unknown THEN failed("unknown_id")
        ELSE failed("empty_cluster")
  BY DEF ExpandToAtoms
<1>2. SubSeq(ids, 1, Len(ids)) = ids
  OBVIOUS
<1>3. listed(Len(ids)) = Dedup(AtomsUnder(g, ids))
  BY <1>2
<1>4. AtomsUnder(g, ids) \in Seq(AtomsOf(g))
  BY UnderAtoms
<1>5. listed(Len(ids)) \in Seq(AtomsOf(g)) /\ Distinct(listed(Len(ids)))
  BY <1>3, <1>4, DedupKeeps
<1>6. <<>> \in Seq(AtomsOf(g)) /\ Distinct(<<>>)
  BY DEF Distinct
<1>7. ASSUME ids \in Seq(AtomsOf(g)), Distinct(ids)
      PROVE  ExpandToAtoms(g, ids) = [err |-> "none", atoms |-> ids]
  <2>1. \A n \in DOMAIN ids : ids[n] \in g.ids /\ IsAtom(g, ids[n])
    BY <1>7, InList DEF AtomsOf
  <2>2. unknown \cup empty = {}
    BY <2>1
  <2>3. AtomsUnder(g, ids) = ids
    BY <1>7, UnderAtoms
  <2>4. Dedup(ids) = ids
    BY <1>7, DedupSame
  <2> HIDE DEF listed, unknown, empty
  <2>5. QED BY <1>1, <1>3, <2>2, <2>3, <2>4
<1> HIDE DEF listed, unknown, empty
<1>8. QED
  BY <1>1, <1>5, <1>6, <1>7

(* Kahn's loop, over any atoms and any prerequisites among them. *)
Ready(g, atoms, done) ==
    {a \in ToSet(atoms) \ done :
        (IF a \in g.ids THEN ToSet(g.prereqs[a]) \cap ToSet(atoms) ELSE {}) \subseteq done}

Settle(g, atoms) ==
    [done \in SUBSET Id |->
        IF Ready(g, atoms, done) = {} THEN done ELSE done \cup {Min(Ready(g, atoms, done))}]

Settled(g, atoms) == {done \in SUBSET Id : Ready(g, atoms, done) = {}}

(* The least ready atom is a ready atom. *)
LEMMA LeastReady ==
    ASSUME NEW g, NEW atoms \in Seq(Id), NEW done, Ready(g, atoms, done) # {}
    PROVE  Min(Ready(g, atoms, done)) \in ToSet(atoms) \ done
<1>1. Ready(g, atoms, done) \subseteq ToSet(atoms) \ done
  BY DEF Ready
<1>2. ToSet(atoms) \in SUBSET Nat
  BY InList, CurriculumAssumption
<1>3. Min(Ready(g, atoms, done)) \in Ready(g, atoms, done)
  BY <1>1, <1>2, MinIs
<1>4. QED BY <1>1, <1>3

LEMMA SettlingEnds ==
    ASSUME NEW g, NEW atoms \in Seq(Id)
    PROVE  Terminates(SUBSET Id, Settled(g, atoms), Settle(g, atoms))
<1> DEFINE size == [done \in SUBSET Id |-> Cardinality(ToSet(atoms) \ done)]
<1>1. ToSet(atoms) \subseteq Id
  BY InList
<1>2. Settle(g, atoms) \in [SUBSET Id -> SUBSET Id]
  <2>1. ASSUME NEW done \in SUBSET Id, Ready(g, atoms, done) # {}
        PROVE  done \cup {Min(Ready(g, atoms, done))} \in SUBSET Id
    BY <1>1, <2>1, LeastReady
  <2>2. QED BY <2>1 DEF Settle
<1>3. \A done \in SUBSET Id : IsFiniteSet(ToSet(atoms) \ done)
  BY ListFinite, FS_Difference
<1>4. size \in [SUBSET Id -> Nat]
  BY <1>3, FS_CardinalityType
<1>5. ASSUME NEW done \in SUBSET Id, Ready(g, atoms, done) # {}
      PROVE  Cardinality(ToSet(atoms) \ Settle(g, atoms)[done]) < Cardinality(ToSet(atoms) \ done)
  <2>1. PICK a : a = Min(Ready(g, atoms, done))
    OBVIOUS
  <2>2. a \in ToSet(atoms) \ done
    BY <1>5, <2>1, LeastReady
  <2>3. ToSet(atoms) \ Settle(g, atoms)[done] = (ToSet(atoms) \ done) \ {a}
    BY <1>5, <2>1 DEF Settle
  <2>4. PICK S : S = ToSet(atoms) \ done
    OBVIOUS
  <2>5. IsFiniteSet(S) /\ Cardinality(S) \in Nat
    BY <1>3, <2>4, FS_CardinalityType
  <2>6. Cardinality(S \ {a}) = Cardinality(S) - 1
    BY <2>2, <2>4, <2>5, FS_RemoveElement
  <2>7. ToSet(atoms) \ Settle(g, atoms)[done] = S \ {a}
    BY <2>3, <2>4
  <2>8. Cardinality(S \ {a}) < Cardinality(S)
    BY <2>5, <2>6
  <2>9. QED BY <2>4, <2>7, <2>8, Zenon
<1>6. \A done \in (SUBSET Id) \ Settled(g, atoms) : size[Settle(g, atoms)[done]] < size[done]
  <2> TAKE done \in (SUBSET Id) \ Settled(g, atoms)
  <2>1. Ready(g, atoms, done) # {} /\ done \in SUBSET Id /\ Settle(g, atoms)[done] \in SUBSET Id
    BY <1>2 DEF Settled
  <2>2. QED BY <2>1, <1>5
<1> HIDE DEF size
<1>7. QED BY <1>2, <1>4, <1>6, MeasureTerminates

(* order[done] is what `KahnOrder` puts after the atoms done. *)
Orders(order, g, atoms) ==
    /\ order \in [SUBSET Id -> Seq(ToSet(atoms))]
    /\ \A done \in SUBSET Id :
          order[done] = IF Ready(g, atoms, done) = {} THEN <<>>
                        ELSE <<Min(Ready(g, atoms, done))>> \o order[Settle(g, atoms)[done]]

LEMMA KahnSteps ==
    ASSUME NEW g, NEW atoms \in Seq(Id)
    PROVE  \E order : Orders(order, g, atoms) /\ KahnOrder(g, atoms) = order[{}]
<1> DEFINE A == ToSet(atoms)
           D == SUBSET Id
           base == [d \in D |-> <<>>]
           step == [d \in D |-> [v \in Seq(A) |->
                      IF Ready(g, atoms, d) = {} THEN v ELSE <<Min(Ready(g, atoms, d))>> \o v]]
<1>1. Terminates(D, Settled(g, atoms), Settle(g, atoms))
  BY SettlingEnds
<1>2. base \in [D -> Seq(A)] /\ step \in [D -> [Seq(A) -> Seq(A)]]
  <2>1. \A d \in D : Ready(g, atoms, d) # {} => Min(Ready(g, atoms, d)) \in A
    BY LeastReady
  <2> HIDE DEF A
  <2>2. QED BY <2>1
<1>3. PICK f : Solves(f, D, Settled(g, atoms), Settle(g, atoms), Seq(A), base, step)
  <2> HIDE DEF D, base, step, A
  <2>1. QED BY <1>1, <1>2, RecursionExists
<1>4. Settle(g, atoms) \in [D -> D]
  BY <1>1 DEF Terminates
<1>5. f \in [D -> Seq(A)]
  BY <1>3 DEF Solves
<1>6. ASSUME NEW d \in D
      PROVE  f[d] = IF Ready(g, atoms, d) = {} THEN <<>>
                    ELSE <<Min(Ready(g, atoms, d))>> \o f[Settle(g, atoms)[d]]
  <2>1. CASE Ready(g, atoms, d) = {}
    <3>1. d \in Settled(g, atoms)
      BY <2>1 DEF Settled
    <3>2. f[d] = base[d]
      BY <1>3, <3>1 DEF Solves
    <3>3. QED BY <3>2, <2>1
  <2>2. CASE Ready(g, atoms, d) # {}
    <3>1. d \notin Settled(g, atoms)
      BY <2>2 DEF Settled
    <3>2. f[d] = step[d][f[Settle(g, atoms)[d]]]
      BY <1>3, <3>1 DEF Solves
    <3>3. f[Settle(g, atoms)[d]] \in Seq(A)
      BY <1>4, <1>5
    <3>4. QED BY <3>2, <3>3, <2>2
  <2>3. QED BY <2>1, <2>2
<1> DEFINE prereqs(a) == IF a \in g.ids THEN ToSet(g.prereqs[a]) \cap ToSet(atoms) ELSE {}
           ready(done) == {a \in ToSet(atoms) \ done : prereqs(a) \subseteq done}
           order[done \in SUBSET Id] ==
             IF ready(done) = {} THEN <<>>
             ELSE <<Min(ready(done))>> \o order[done \cup {Min(ready(done))}]
<1>7. KahnOrder(g, atoms) = order[{}]
  BY DEF KahnOrder
<1>8. \A done : ready(done) = Ready(g, atoms, done)
  BY DEF Ready
<1>9. ASSUME NEW d \in D, ready(d) # {} PROVE Settle(g, atoms)[d] = d \cup {Min(ready(d))}
  BY <1>8, <1>9 DEF Settle
<1> HIDE DEF ready
<1>10. \E h : h = [done \in SUBSET Id |->
             IF ready(done) = {} THEN <<>>
             ELSE <<Min(ready(done))>> \o h[done \cup {Min(ready(done))}]]
  <2>1. f = [done \in SUBSET Id |-> f[done]]
    BY <1>5
  <2>2. \A done \in SUBSET Id :
           f[done] = IF ready(done) = {} THEN <<>>
                     ELSE <<Min(ready(done))>> \o f[done \cup {Min(ready(done))}]
    BY <1>6, <1>8, <1>9, Zenon
  <2>3. f = [done \in SUBSET Id |->
             IF ready(done) = {} THEN <<>>
             ELSE <<Min(ready(done))>> \o f[done \cup {Min(ready(done))}]]
    BY <2>1, <2>2, Zenon
  <2>4. QED BY <2>3
<1>11. PICK h : /\ h = order
                /\ h = [done \in SUBSET Id |->
                         IF ready(done) = {} THEN <<>>
                         ELSE <<Min(ready(done))>> \o h[done \cup {Min(ready(done))}]]
  BY <1>10, Zenon
<1> HIDE DEF order
<1>12. ASSUME NEW d \in D
       PROVE  h[d] = IF Ready(g, atoms, d) = {} THEN <<>>
                     ELSE <<Min(Ready(g, atoms, d))>> \o h[Settle(g, atoms)[d]]
  <2>1. h[d] = IF ready(d) = {} THEN <<>>
               ELSE <<Min(ready(d))>> \o h[d \cup {Min(ready(d))}]
    BY <1>11, Zenon
  <2>2. QED BY <2>1, <1>8, <1>9, Zenon
<1>13. \A d \in D : h[d] \in Seq(A)
  <2> DEFINE T == {d \in D : h[d] \in Seq(A)}
  <2>1. ASSUME NEW d \in D, d \in Settled(g, atoms) \/ Settle(g, atoms)[d] \in T PROVE d \in T
    <3>1. CASE Ready(g, atoms, d) = {}
      <4>1. h[d] = <<>>
        BY <3>1, <1>12, Zenon
      <4>2. <<>> \in Seq(A)
        OBVIOUS
      <4>3. h[d] \in Seq(A)
        BY <4>1, <4>2, Zenon
      <4>4. QED BY <4>3
    <3>2. CASE Ready(g, atoms, d) # {}
      <4>1. Settle(g, atoms)[d] \in T
        BY <2>1, <3>2 DEF Settled
      <4>2. h[Settle(g, atoms)[d]] \in Seq(A)
        BY <4>1
      <4>3. Min(Ready(g, atoms, d)) \in A
        BY <3>2, LeastReady
      <4>4. \A v \in Seq(A), x \in A : <<x>> \o v \in Seq(A)
        OBVIOUS
      <4>5. h[d] = <<Min(Ready(g, atoms, d))>> \o h[Settle(g, atoms)[d]]
        BY <3>2, <1>12
      <4>6. h[d] \in Seq(A)
        BY <4>2, <4>3, <4>4, <4>5, Zenon
      <4>7. QED BY <4>6
    <3>3. QED BY <3>1, <3>2
  <2> HIDE DEF T, D
  <2>2. \A d \in D : d \in T
    BY <1>1, <2>1, AlongRecursion
  <2>3. QED BY <2>2 DEF T
<1>14. h \in [D -> Seq(A)]
  BY <1>11, <1>13
<1>15. Orders(h, g, atoms)
  <2> HIDE DEF A
  <2>1. h \in [SUBSET Id -> Seq(A)]
    BY <1>14
  <2>2. QED BY <2>1, <1>12 DEF Orders, A
<1>16. QED BY <1>7, <1>11, <1>15

(* The order lists some of the atoms, each once. *)
LEMMA KahnLists ==
    ASSUME NEW g, NEW atoms \in Seq(Id)
    PROVE  KahnOrder(g, atoms) \in Seq(ToSet(atoms)) /\ Distinct(KahnOrder(g, atoms))
<1>1. PICK order : Orders(order, g, atoms) /\ KahnOrder(g, atoms) = order[{}]
  BY KahnSteps
<1>2. order \in [SUBSET Id -> Seq(ToSet(atoms))]
  BY <1>1 DEF Orders
<1> DEFINE T == {done \in SUBSET Id : Distinct(order[done]) /\ ToSet(order[done]) \cap done = {}}
<1>3. ASSUME NEW done \in SUBSET Id, done \in Settled(g, atoms) \/ Settle(g, atoms)[done] \in T
      PROVE  done \in T
  <2>1. CASE Ready(g, atoms, done) = {}
    <3>1. order[done] = <<>>
      BY <2>1, <1>1 DEF Orders
    <3>2. Distinct(<<>>) /\ ToSet(<<>>) = {}
      BY EmptyList DEF Distinct
    <3>3. QED BY <3>1, <3>2
  <2>2. CASE Ready(g, atoms, done) # {}
    <3>1. PICK a : a = Min(Ready(g, atoms, done))
      OBVIOUS
    <3>2. a \in ToSet(atoms) /\ a \notin done
      BY <2>2, <3>1, LeastReady
    <3>3. Settle(g, atoms)[done] = done \cup {a} /\ done \cup {a} \in T
      BY <1>3, <2>2, <3>1 DEF Settle, Settled
    <3>4. PICK rest : rest = order[done \cup {a}]
      OBVIOUS
    <3>5. rest \in Seq(ToSet(atoms)) /\ Distinct(rest) /\ ToSet(rest) \cap (done \cup {a}) = {}
      BY <3>3, <3>4, <1>2
    <3>6. order[done] = <<a>> \o rest
      BY <2>2, <3>1, <3>3, <3>4, <1>1 DEF Orders
    <3>7. Distinct(<<a>> \o rest) /\ ToSet(<<a>> \o rest) = {a} \cup ToSet(rest)
      BY <3>2, <3>5, DistinctCons
    <3>8. QED BY <3>2, <3>5, <3>6, <3>7
  <2>3. QED BY <2>1, <2>2
<1>4. Terminates(SUBSET Id, Settled(g, atoms), Settle(g, atoms))
  BY SettlingEnds
<1>5. \A done \in SUBSET Id : done \in T
  <2> HIDE DEF T
  <2>1. QED BY <1>3, <1>4, AlongRecursion
<1>6. {} \in SUBSET Id
  OBVIOUS
<1>7. QED BY <1>1, <1>2, <1>5, <1>6

(* What the order leaves out waits for one another. *)
LEMMA KahnStuck ==
    ASSUME NEW g, NEW atoms \in Seq(Id), Distinct(atoms),
           Len(KahnOrder(g, atoms)) # Len(atoms)
    PROVE  \E S \in SUBSET ToSet(atoms) :
              /\ S # {}
              /\ \A a \in S : a \in g.ids /\ ToSet(g.prereqs[a]) \cap S # {}
<1>1. PICK order : Orders(order, g, atoms) /\ KahnOrder(g, atoms) = order[{}]
  BY KahnSteps
<1>2. order \in [SUBSET Id -> Seq(ToSet(atoms))]
  BY <1>1 DEF Orders
<1> DEFINE T == {done \in SUBSET Id : Ready(g, atoms, done \cup ToSet(order[done])) = {}}
<1>3. ASSUME NEW done \in SUBSET Id, done \in Settled(g, atoms) \/ Settle(g, atoms)[done] \in T
      PROVE  done \in T
  <2>1. CASE Ready(g, atoms, done) = {}
    <3>1. order[done] = <<>>
      BY <2>1, <1>1 DEF Orders
    <3>2. done \cup ToSet(order[done]) = done
      BY <3>1, EmptyList
    <3>3. QED BY <2>1, <3>2
  <2>2. CASE Ready(g, atoms, done) # {}
    <3>1. PICK a : a = Min(Ready(g, atoms, done))
      OBVIOUS
    <3>2. a \in ToSet(atoms)
      BY <2>2, <3>1, LeastReady
    <3>3. Settle(g, atoms)[done] = done \cup {a} /\ done \cup {a} \in T
      BY <1>3, <2>2, <3>1 DEF Settle, Settled
    <3>4. PICK rest : rest = order[done \cup {a}]
      OBVIOUS
    <3>5. rest \in Seq(ToSet(atoms)) /\ Ready(g, atoms, done \cup {a} \cup ToSet(rest)) = {}
      BY <3>3, <3>4, <1>2
    <3>6. order[done] = <<a>> \o rest
      BY <2>2, <3>1, <3>3, <3>4, <1>1 DEF Orders
    <3>7. <<a>> \in Seq(ToSet(atoms)) /\ ToSet(<<a>>) = {a}
      BY <3>2 DEF ToSet
    <3>8. ToSet(<<a>> \o rest) = {a} \cup ToSet(rest)
      <4>1. PICK first : first = <<a>>
        OBVIOUS
      <4>2. first \in Seq(ToSet(atoms)) /\ ToSet(first) = {a}
        BY <3>7, <4>1
      <4>3. ToSet(first \o rest) = ToSet(first) \cup ToSet(rest)
        BY <3>5, <4>2, Joined
      <4>4. QED BY <4>1, <4>2, <4>3
    <3>9. done \cup ToSet(order[done]) = done \cup {a} \cup ToSet(rest)
      BY <3>6, <3>8
    <3>10. QED BY <3>5, <3>9
  <2>3. QED BY <2>1, <2>2
<1>4. Terminates(SUBSET Id, Settled(g, atoms), Settle(g, atoms))
  BY SettlingEnds
<1>5. \A done \in SUBSET Id : done \in T
  <2> HIDE DEF T
  <2>1. QED BY <1>3, <1>4, AlongRecursion
<1>6. {} \in SUBSET Id
  OBVIOUS
<1>7. PICK sorted : sorted = KahnOrder(g, atoms)
  OBVIOUS
<1>8. {} \cup ToSet(order[{}]) = ToSet(sorted)
  BY <1>1, <1>7
<1>9. Ready(g, atoms, ToSet(sorted)) = {}
  BY <1>5, <1>6, <1>8
<1>10. sorted \in Seq(ToSet(atoms)) /\ Distinct(sorted)
  BY <1>7, KahnLists
<1>11. ToSet(sorted) \subseteq ToSet(atoms)
  BY <1>10, InList
<1>12. PICK S : S = ToSet(atoms) \ ToSet(sorted)
  OBVIOUS
<1>13. S # {}
  <2>1. CASE S = {}
    <3>1. ToSet(atoms) = ToSet(sorted)
      BY <2>1, <1>11, <1>12
    <3>2. Cardinality(ToSet(atoms)) = Len(atoms)
      BY ListFinite
    <3>3. Cardinality(ToSet(sorted)) = Len(sorted)
      BY <1>10, ListFinite
    <3>4. QED BY <3>1, <3>2, <3>3, <1>7
  <2>2. QED BY <2>1
<1>14. ASSUME NEW a \in S PROVE a \in g.ids /\ ToSet(g.prereqs[a]) \cap S # {}
  <2>1. ~((IF a \in g.ids THEN ToSet(g.prereqs[a]) \cap ToSet(atoms) ELSE {}) \subseteq ToSet(sorted))
    BY <1>9, <1>12 DEF Ready
  <2>2. QED BY <2>1, <1>12
<1>15. QED BY <1>12, <1>13, <1>14

(* Targets that resolve are atoms of the graph, each once. *)
LEMMA TargetsListed ==
    ASSUME NEW g, WellFormed(g), NEW targets \in Seq(Id)
    PROVE  /\ ResolveTargets(g, targets).atoms \in Seq(AtomsOf(g))
           /\ Distinct(ResolveTargets(g, targets).atoms)
<1> DEFINE expanded == ExpandToAtoms(g, targets)
           sorted == KahnOrder(g, expanded.atoms)
<1>1. ResolveTargets(g, targets) =
        IF expanded.err # "none" THEN expanded
        ELSE IF Len(sorted) # Len(expanded.atoms) THEN [err |-> "cycle", atoms |-> <<>>]
        ELSE [err |-> "none", atoms |-> sorted]
  BY DEF ResolveTargets
<1>2. expanded.atoms \in Seq(AtomsOf(g)) /\ Distinct(expanded.atoms)
  BY ExpansionLists
<1>3. AtomsOf(g) \subseteq Id
  BY DEF AtomsOf, WellFormed
<1>4. expanded.atoms \in Seq(Id) /\ ToSet(expanded.atoms) \subseteq AtomsOf(g)
  BY <1>2, <1>3, InList
<1>5. sorted \in Seq(ToSet(expanded.atoms)) /\ Distinct(sorted)
  BY <1>4, KahnLists
<1> HIDE DEF expanded, sorted
<1>6. sorted \in Seq(AtomsOf(g))
  BY <1>4, <1>5
<1>7. <<>> \in Seq(AtomsOf(g)) /\ Distinct(<<>>)
  BY DEF Distinct
<1>8. QED BY <1>1, <1>2, <1>5, <1>6, <1>7

-----------------------------------------------------------------------------
(* What targets resolve to depends on the concepts and their links only:   *)
(* lessons and quizzes, and so the overlay, have no part in it.            *)
SameLinks(g, h) == g.ids = h.ids /\ g.prereqs = h.prereqs /\ g.children = h.children

LEMMA SameAtoms ==
    ASSUME NEW g, NEW h, SameLinks(g, h)
    PROVE  /\ \A id : IsAtom(g, id) <=> IsAtom(h, id)
           /\ AtomsOf(g) = AtomsOf(h)
           /\ Onward(g) = Onward(h)
<1>1. \A id : IsAtom(g, id) <=> IsAtom(h, id)
  BY DEF IsAtom, SameLinks
<1>2. AtomsOf(g) = AtomsOf(h)
  BY <1>1 DEF AtomsOf, SameLinks
<1>3. Onward(g) = Onward(h)
  BY <1>2 DEF Onward, SameLinks
<1>4. QED BY <1>1, <1>2, <1>3

LEMMA SameUnder ==
    ASSUME NEW g, WellFormed(g), NEW h, WellFormed(h), SameLinks(g, h), NEW ids \in Seq(Id)
    PROVE  AtomsUnder(g, ids) = AtomsUnder(h, ids)
<1>1. PICK u : Unders(u, g) /\ \A c : AtomsUnder(g, c) = u[c]
  BY UnderSteps
<1>2. PICK v : Unders(v, h) /\ \A c : AtomsUnder(h, c) = v[c]
  BY UnderSteps
<1>3. PICK next : next = Onward(g) /\ next = Onward(h)
  BY SameAtoms
<1>4. PICK A : A = AtomsOf(g) /\ A = AtomsOf(h)
  BY SameAtoms
<1> DEFINE T == {todo \in Seq(Id) : u[todo] = v[todo]}
<1>5. Terminates(Seq(Id), {<<>>}, next)
  BY <1>3, ExpansionEnds
<1>6. /\ u[<<>>] = <<>> /\ v[<<>>] = <<>>
      /\ \A todo \in Seq(Id) : todo # <<>> =>
            /\ u[todo] = IF Head(todo) \in A THEN <<Head(todo)>> \o u[Tail(todo)] ELSE u[next[todo]]
            /\ v[todo] = IF Head(todo) \in A THEN <<Head(todo)>> \o v[Tail(todo)] ELSE v[next[todo]]
  BY <1>1, <1>2, <1>3, <1>4 DEF Unders
<1>7. \A todo \in Seq(Id) : todo # <<>> /\ Head(todo) \in A => next[todo] = Tail(todo)
  BY <1>3, <1>4 DEF Onward
<1>8. ASSUME NEW todo \in Seq(Id), todo \in {<<>>} \/ next[todo] \in T PROVE todo \in T
  <2>1. CASE todo = <<>>
    BY <1>6, <2>1
  <2>2. CASE todo # <<>> /\ Head(todo) \in A
    <3>1. u[todo] = <<Head(todo)>> \o u[Tail(todo)] /\ v[todo] = <<Head(todo)>> \o v[Tail(todo)]
      BY <1>6, <2>2
    <3>2. u[Tail(todo)] = v[Tail(todo)]
      BY <1>7, <1>8, <2>2
    <3>3. QED BY <3>1, <3>2
  <2>3. CASE todo # <<>> /\ Head(todo) \notin A
    BY <1>6, <1>8, <2>3
  <2>4. QED BY <2>1, <2>2, <2>3
<1> HIDE DEF T
<1>9. \A todo \in Seq(Id) : todo \in T
  BY <1>5, <1>8, AlongRecursion
<1>10. ids \in T
  BY <1>9
<1>11. QED BY <1>1, <1>2, <1>10 DEF T

LEMMA SameKahn ==
    ASSUME NEW g, NEW h, SameLinks(g, h), NEW atoms \in Seq(Id)
    PROVE  KahnOrder(g, atoms) = KahnOrder(h, atoms)
<1>1. PICK u : Orders(u, g, atoms) /\ KahnOrder(g, atoms) = u[{}]
  BY KahnSteps
<1>2. PICK v : Orders(v, h, atoms) /\ KahnOrder(h, atoms) = v[{}]
  BY KahnSteps
<1>3. \A done : Ready(g, atoms, done) = Ready(h, atoms, done)
  BY DEF Ready, SameLinks
<1>4. PICK next : next = Settle(g, atoms) /\ next = Settle(h, atoms)
  BY <1>3 DEF Settle
<1> DEFINE T == {done \in SUBSET Id : u[done] = v[done]}
<1>5. Terminates(SUBSET Id, Settled(g, atoms), next)
  BY <1>4, SettlingEnds
<1>6. \A done \in SUBSET Id :
         /\ u[done] = IF Ready(g, atoms, done) = {} THEN <<>>
                      ELSE <<Min(Ready(g, atoms, done))>> \o u[next[done]]
         /\ v[done] = IF Ready(g, atoms, done) = {} THEN <<>>
                      ELSE <<Min(Ready(g, atoms, done))>> \o v[next[done]]
  BY <1>1, <1>2, <1>3, <1>4 DEF Orders
<1>7. ASSUME NEW done \in SUBSET Id, done \in Settled(g, atoms) \/ next[done] \in T
      PROVE  done \in T
  BY <1>6, <1>7 DEF Settled
<1> HIDE DEF T
<1>8. \A done \in SUBSET Id : done \in T
  BY <1>5, <1>7, AlongRecursion
<1>9. {} \in T
  BY <1>8
<1>10. QED BY <1>1, <1>2, <1>9 DEF T

Listed(g, ids, n) == Dedup(AtomsUnder(g, SubSeq(ids, 1, n)))
NotThere(g, ids) == {n \in DOMAIN ids : ids[n] \notin g.ids}
AddsNone(g, ids) ==
    {n \in DOMAIN ids : /\ ids[n] \in g.ids /\ ~IsAtom(g, ids[n])
                        /\ Listed(g, ids, n) = Listed(g, ids, n - 1)}

(* What the next id adds to the list of the expansion. *)
Adds(g, id, was) == Only(Dedup(AtomsUnder(g, <<id>>)), Id \ ToSet(was))
ListsMore(g, ids, n, was) == Listed(g, ids, n) = was \o Adds(g, ids[n], was)

LEMMA ListedNext ==
    ASSUME NEW g, WellFormed(g), NEW ids \in Seq(Id), NEW n \in 1 .. Len(ids),
           NEW was, was = Listed(g, ids, n - 1)
    PROVE  /\ was \in Seq(AtomsOf(g))
           /\ ListsMore(g, ids, n, was)
<1>1. PICK before, one : before = SubSeq(ids, 1, n - 1) /\ one = <<ids[n]>>
  OBVIOUS
<1>2. /\ before \in Seq(Id) /\ one \in Seq(Id) /\ SubSeq(ids, 1, n) = before \o one
  <2>1. n - 1 \in Nat /\ n - 1 <= Len(ids) /\ Len(ids) \in Nat /\ n \in Nat
    OBVIOUS
  <2>2. before \in Seq(Id) /\ one \in Seq(Id) /\ Len(before) = n - 1
    BY <1>1, <2>1
  <2>3. QED BY <1>1, <2>1, <2>2
<1>3. PICK s, t : s = AtomsUnder(g, before) /\ t = AtomsUnder(g, one)
  OBVIOUS
<1>4. s \in Seq(AtomsOf(g)) /\ t \in Seq(AtomsOf(g)) /\ AtomsOf(g) \subseteq Id
  BY <1>2, <1>3, UnderAtoms DEF AtomsOf, WellFormed
<1>5. AtomsUnder(g, SubSeq(ids, 1, n)) = s \o t
  BY <1>2, <1>3, UnderJoined
<1>6. was = Dedup(s)
  BY <1>1, <1>3 DEF Listed
<1>7. s \in Seq(Id) /\ t \in Seq(Id)
  BY <1>4
<1>8. Dedup(s \o t) = Dedup(s) \o Only(Dedup(t), Id \ ToSet(s))
  BY <1>7, DedupJoined
<1>9. Dedup(s) \in Seq(AtomsOf(g)) /\ ToSet(Dedup(s)) = ToSet(s)
  BY <1>4, DedupKeeps
<1>10. Listed(g, ids, n) = Dedup(s \o t)
  BY <1>5 DEF Listed
<1>11. QED BY <1>1, <1>3, <1>6, <1>8, <1>9, <1>10 DEF Adds, ListsMore

(* The first id that names nothing, or nothing new, decides. *)
LEMMA ExpansionIs ==
    ASSUME NEW g, NEW ids \in Seq(Id), NEW e, e = ExpandToAtoms(g, ids),
           NEW bad, bad = NotThere(g, ids) \cup AddsNone(g, ids)
    PROVE  /\ bad = {} => e = [err |-> "none", atoms |-> Listed(g, ids, Len(ids))]
           /\ \A n \in bad : (\A k \in 1 .. n - 1 : k \notin bad) =>
                 e.err = IF n \in NotThere(g, ids) THEN "unknown_id" ELSE "empty_cluster"
<1>1. /\ bad = {} => e = [err |-> "none", atoms |-> Listed(g, ids, Len(ids))]
      /\ bad # {} => e.err = IF Min(bad) \in NotThere(g, ids) THEN "unknown_id" ELSE "empty_cluster"
  <2> DEFINE listed(n) == Dedup(AtomsUnder(g, SubSeq(ids, 1, n)))
             unknown == {n \in DOMAIN ids : ids[n] \notin g.ids}
             empty == {n \in DOMAIN ids : /\ ids[n] \in g.ids
                                          /\ ~IsAtom(g, ids[n])
                                          /\ listed(n) = listed(n - 1)}
             failed(err) == [err |-> err, atoms |-> <<>>]
  <2>1. e = IF unknown \cup empty = {} THEN [err |-> "none", atoms |-> listed(Len(ids))]
            ELSE IF Min(unknown \cup empty) \in unknown THEN failed("unknown_id")
            ELSE failed("empty_cluster")
    BY DEF ExpandToAtoms
  <2>2. unknown = NotThere(g, ids) /\ empty = AddsNone(g, ids) /\ listed(Len(ids)) = Listed(g, ids, Len(ids))
    BY DEF NotThere, AddsNone, Listed
  <2> HIDE DEF listed, unknown, empty
  <2>3. QED BY <2>1, <2>2
<1>2. bad \in SUBSET Nat /\ \A n \in bad : n >= 1
  BY DEF NotThere, AddsNone
<1>3. ASSUME NEW n \in bad, \A k \in 1 .. n - 1 : k \notin bad PROVE Min(bad) = n
  <2>1. Min(bad) \in bad /\ Min(bad) <= n
    BY <1>2, <1>3, MinIs
  <2>2. QED BY <1>2, <1>3, <2>1
<1>4. QED BY <1>1, <1>3

LEMMA SameExpansion ==
    ASSUME NEW g, WellFormed(g), NEW h, WellFormed(h), SameLinks(g, h), NEW ids \in Seq(Id)
    PROVE  ExpandToAtoms(g, ids) = ExpandToAtoms(h, ids)
<1>1. \A n \in 0 .. Len(ids) : Listed(g, ids, n) = Listed(h, ids, n)
  <2> TAKE n \in 0 .. Len(ids)
  <2>1. PICK part \in Seq(Id) : part = SubSeq(ids, 1, n)
    <3>1. n \in Nat /\ n <= Len(ids) /\ \A i \in 1 .. n : ids[i] \in Id
      OBVIOUS
    <3>2. 1 \in Int /\ n \in Int
      BY <3>1
    <3>3. SubSeq(ids, 1, n) \in Seq(Id)
      BY ONLY <3>1, <3>2, SubSeqProperties
    <3>4. QED BY <3>3
  <2>2. AtomsUnder(g, part) = AtomsUnder(h, part)
    BY SameUnder
  <2>3. QED BY <2>1, <2>2 DEF Listed
<1>2. NotThere(g, ids) = NotThere(h, ids)
  BY DEF NotThere, SameLinks
<1>3. AddsNone(g, ids) = AddsNone(h, ids)
  <2>1. \A n \in DOMAIN ids : n \in 0 .. Len(ids) /\ n - 1 \in 0 .. Len(ids)
    OBVIOUS
  <2>2. \A n \in DOMAIN ids :
           Listed(g, ids, n) = Listed(g, ids, n - 1) <=> Listed(h, ids, n) = Listed(h, ids, n - 1)
    BY <1>1, <2>1
  <2>3. \A n \in DOMAIN ids : ids[n] \in g.ids /\ ~IsAtom(g, ids[n])
                                <=> ids[n] \in h.ids /\ ~IsAtom(h, ids[n])
    BY SameAtoms DEF SameLinks
  <2>4. QED BY <2>2, <2>3 DEF AddsNone
<1>4. Len(ids) \in 0 .. Len(ids)
  OBVIOUS
<1>5. \A k : ExpandToAtoms(k, ids) =
        IF NotThere(k, ids) \cup AddsNone(k, ids) = {} THEN [err |-> "none", atoms |-> Listed(k, ids, Len(ids))]
        ELSE IF Min(NotThere(k, ids) \cup AddsNone(k, ids)) \in NotThere(k, ids)
             THEN [err |-> "unknown_id", atoms |-> <<>>]
        ELSE [err |-> "empty_cluster", atoms |-> <<>>]
  BY DEF ExpandToAtoms, Listed, NotThere, AddsNone
<1>6. QED BY <1>1, <1>2, <1>3, <1>4, <1>5

LEMMA SameTargets ==
    ASSUME NEW g, WellFormed(g), NEW h, WellFormed(h), SameLinks(g, h), NEW ids \in Seq(Id)
    PROVE  ResolveTargets(g, ids) = ResolveTargets(h, ids)
<1>1. PICK expanded : expanded = ExpandToAtoms(g, ids) /\ expanded = ExpandToAtoms(h, ids)
  BY SameExpansion
<1>2. PICK atoms \in Seq(Id) : atoms = expanded.atoms
  <2>1. AtomsOf(g) \subseteq Id
    BY DEF AtomsOf, WellFormed
  <2>2. expanded.atoms \in Seq(AtomsOf(g))
    BY <1>1, ExpansionLists
  <2>3. QED BY <2>1, <2>2
<1>3. KahnOrder(g, atoms) = KahnOrder(h, atoms)
  BY SameKahn
<1>4. PICK sorted : sorted = KahnOrder(g, atoms) /\ sorted = KahnOrder(h, atoms)
  BY <1>3
<1>5. ResolveTargets(g, ids) = IF expanded.err # "none" THEN expanded
        ELSE IF Len(sorted) # Len(atoms) THEN [err |-> "cycle", atoms |-> <<>>]
        ELSE [err |-> "none", atoms |-> sorted]
  BY <1>1, <1>2, <1>4 DEF ResolveTargets
<1>6. ResolveTargets(h, ids) = IF expanded.err # "none" THEN expanded
        ELSE IF Len(sorted) # Len(atoms) THEN [err |-> "cycle", atoms |-> <<>>]
        ELSE [err |-> "none", atoms |-> sorted]
  BY <1>1, <1>2, <1>4 DEF ResolveTargets
<1>7. QED BY <1>5, <1>6

-----------------------------------------------------------------------------
(* What is below concepts. *)

(* The concepts directly below one. *)
Below(g, id) == IF id \in g.ids THEN ToSet(g.prereqs[id] \o g.children[id]) ELSE {}

(* What is reached from `roots` without going through `past`. *)
Around(g, past, S) == \A id \in S : Below(g, id) \ past \subseteq S
Beyond(g, roots, past) ==
    {id \in Id \ past : \A S \in SUBSET (Id \ past) :
                            roots \ past \subseteq S /\ Around(g, past, S) => id \in S}

Reach(g, roots) == Beyond(g, roots, {})

LEMMA BelowIds == ASSUME NEW g, WellFormed(g) PROVE \A id : Below(g, id) \subseteq Id
<1>1. ASSUME NEW id \in g.ids PROVE ToSet(g.prereqs[id] \o g.children[id]) \subseteq Id
  <2>1. g.prereqs[id] \in Seq(Id) /\ g.children[id] \in Seq(Id)
    BY DEF WellFormed
  <2>2. g.prereqs[id] \o g.children[id] \in Seq(Id)
    BY <2>1
  <2>3. QED BY <2>2, InList
<1>2. QED BY <1>1 DEF Below

(* It is around what is past, holds the roots, and is the least of those.  *)
LEMMA BeyondIs ==
    ASSUME NEW g, WellFormed(g), NEW roots \in SUBSET Id, NEW past
    PROVE  /\ Beyond(g, roots, past) \in SUBSET (Id \ past)
           /\ roots \ past \subseteq Beyond(g, roots, past)
           /\ Around(g, past, Beyond(g, roots, past))
           /\ \A S \in SUBSET (Id \ past) :
                 roots \ past \subseteq S /\ Around(g, past, S) => Beyond(g, roots, past) \subseteq S
<1>1. Beyond(g, roots, past) \in SUBSET (Id \ past)
  BY DEF Beyond
<1>2. roots \ past \subseteq Beyond(g, roots, past)
  BY DEF Beyond
<1>3. \A S \in SUBSET (Id \ past) :
         roots \ past \subseteq S /\ Around(g, past, S) => Beyond(g, roots, past) \subseteq S
  BY DEF Beyond
<1>4. ASSUME NEW id \in Beyond(g, roots, past), NEW x \in Below(g, id) \ past
      PROVE  x \in Beyond(g, roots, past)
  <2>1. x \in Id \ past
    BY BelowIds
  <2>2. ASSUME NEW S \in SUBSET (Id \ past), roots \ past \subseteq S, Around(g, past, S)
        PROVE  x \in S
    <3>1. id \in S
      BY <2>2, <1>3
    <3>2. QED BY <3>1, <2>2 DEF Around
  <2>3. QED BY <2>1, <2>2 DEF Beyond
<1>5. Around(g, past, Beyond(g, roots, past))
  BY <1>4 DEF Around
<1>6. QED BY <1>1, <1>2, <1>3, <1>5

(* Going to an id not past yet adds it and what is below it. *)
LEMMA BeyondEnter ==
    ASSUME NEW g, WellFormed(g), NEW roots \in SUBSET Id, NEW past \in SUBSET Id,
           NEW id \in Id \ past
    PROVE  Beyond(g, {id} \cup roots, past)
             = {id} \cup Beyond(g, Below(g, id) \cup roots, past \cup {id})
<1> DEFINE B == Beyond(g, {id} \cup roots, past)
           C == Beyond(g, Below(g, id) \cup roots, past \cup {id})
           more == {id} \cup roots
           less == Below(g, id) \cup roots
<1>1. more \in SUBSET Id /\ less \in SUBSET Id
  BY BelowIds
<1>2. /\ B \in SUBSET (Id \ past)
      /\ more \ past \subseteq B
      /\ Around(g, past, B)
      /\ \A S \in SUBSET (Id \ past) : more \ past \subseteq S /\ Around(g, past, S) => B \subseteq S
  <2> HIDE DEF more
  <2>1. QED BY <1>1, BeyondIs DEF more
<1>3. /\ C \in SUBSET (Id \ (past \cup {id}))
      /\ less \ (past \cup {id}) \subseteq C
      /\ Around(g, past \cup {id}, C)
      /\ \A S \in SUBSET (Id \ (past \cup {id})) :
            less \ (past \cup {id}) \subseteq S /\ Around(g, past \cup {id}, S) => C \subseteq S
  <2> DEFINE late == past \cup {id}
  <2> HIDE DEF less, late
  <2>1. /\ Beyond(g, less, late) \in SUBSET (Id \ late)
        /\ less \ late \subseteq Beyond(g, less, late)
        /\ Around(g, late, Beyond(g, less, late))
        /\ \A S \in SUBSET (Id \ late) :
              less \ late \subseteq S /\ Around(g, late, S) => Beyond(g, less, late) \subseteq S
    BY <1>1, BeyondIs
  <2>2. QED BY <2>1 DEF less, late
<1> HIDE DEF B, C
<1>4. B \subseteq {id} \cup C
  <2>1. {id} \cup C \in SUBSET (Id \ past)
    BY <1>3
  <2>2. Around(g, past, {id} \cup C)
    <3>1. ASSUME NEW x \in C PROVE Below(g, x) \ past \subseteq {id} \cup C
      BY <1>3 DEF Around
    <3>2. Below(g, id) \ past \subseteq {id} \cup C
      BY <1>3
    <3>3. QED BY <3>1, <3>2 DEF Around
  <2>3. more \ past \subseteq {id} \cup C
    BY <1>3
  <2>4. QED BY <1>2, <2>1, <2>2, <2>3
<1>5. id \in B
  BY <1>2
<1>6. C \subseteq B \ {id}
  <2>1. B \ {id} \in SUBSET (Id \ (past \cup {id}))
    BY <1>2
  <2>2. less \ (past \cup {id}) \subseteq B \ {id}
    BY <1>2, <1>5 DEF Around
  <2>3. Around(g, past \cup {id}, B \ {id})
    BY <1>2 DEF Around
  <2>4. QED BY <1>3, <2>1, <2>2, <2>3
<1>7. QED BY <1>4, <1>5, <1>6 DEF B, C

(* An id already past adds nothing. *)
LEMMA BeyondPast ==
    ASSUME NEW g, NEW roots, NEW past, NEW id \in past
    PROVE  Beyond(g, {id} \cup roots, past) = Beyond(g, roots, past)
<1>1. ({id} \cup roots) \ past = roots \ past
  OBVIOUS
<1>2. QED BY <1>1 DEF Beyond

(* The more is past the less is beyond; beyond nothing is nothing. *)
LEMMA BeyondLess ==
    ASSUME NEW g, WellFormed(g), NEW roots \in SUBSET Id, NEW past, NEW more, past \subseteq more
    PROVE  Beyond(g, roots, more) \subseteq Beyond(g, roots, past)
<1>1. PICK B : B = Beyond(g, roots, past)
  OBVIOUS
<1>2. B \in SUBSET (Id \ past) /\ roots \ past \subseteq B /\ Around(g, past, B)
  BY <1>1, BeyondIs
<1>3. B \ more \in SUBSET (Id \ more) /\ roots \ more \subseteq B \ more
  BY <1>2
<1>4. Around(g, more, B \ more)
  BY <1>2 DEF Around
<1>5. \A S \in SUBSET (Id \ more) :
         roots \ more \subseteq S /\ Around(g, more, S) => Beyond(g, roots, more) \subseteq S
  BY BeyondIs
<1>6. QED BY <1>1, <1>3, <1>4, <1>5

LEMMA BeyondNone ==
    ASSUME NEW g, WellFormed(g), NEW past
    PROVE  Beyond(g, {}, past) = {}
<1>1. {} \in SUBSET (Id \ past) /\ {} \ past \subseteq {} /\ Around(g, past, {})
  BY DEF Around
<1>2. \A S \in SUBSET (Id \ past) :
         {} \ past \subseteq S /\ Around(g, past, S) => Beyond(g, {}, past) \subseteq S
  BY BeyondIs
<1>3. QED BY <1>1, <1>2

(* Below what is reached is reached. *)
LEMMA ReachGrows ==
    ASSUME NEW g, WellFormed(g), NEW roots \in SUBSET Id
    PROVE  /\ Reach(g, roots) \in SUBSET Id
           /\ roots \subseteq Reach(g, roots)
           /\ \A id \in Reach(g, roots) : Below(g, id) \subseteq Reach(g, roots)
           /\ \A S \in SUBSET Id :
                 roots \subseteq S /\ (\A id \in S : Below(g, id) \subseteq S) => Reach(g, roots) \subseteq S
<1>1. /\ Beyond(g, roots, {}) \in SUBSET (Id \ {})
      /\ roots \ {} \subseteq Beyond(g, roots, {})
      /\ Around(g, {}, Beyond(g, roots, {}))
      /\ \A S \in SUBSET (Id \ {}) :
            roots \ {} \subseteq S /\ Around(g, {}, S) => Beyond(g, roots, {}) \subseteq S
  BY BeyondIs
<1>2. QED BY <1>1 DEF Reach, Around

(* `ReachableAtoms` goes on with what is directly below. *)
Widen(g) == [S \in SUBSET Id |-> S \cup UNION {Below(g, id) : id \in S}]
Wide(g) == {S \in SUBSET Id : \A id \in S : Below(g, id) \subseteq S}

LEMMA WideningEnds ==
    ASSUME NEW g, WellFormed(g)
    PROVE  Terminates(SUBSET Id, Wide(g), Widen(g))
<1> DEFINE lists == {Below(g, id) : id \in g.ids}
           all == UNION lists
           size == [S \in SUBSET Id |-> Cardinality(all \ S)]
<1>1. Widen(g) \in [SUBSET Id -> SUBSET Id]
  BY BelowIds DEF Widen
<1>2. IsFiniteSet(all)
  <2>1. IsFiniteSet(lists)
    <3>1. IsFiniteSet(g.ids)
      BY DEF WellFormed
    <3>2. [id \in g.ids |-> Below(g, id)] \in Surjection(g.ids, lists)
      BY DEF Surjection
    <3>3. QED BY <3>1, <3>2, FS_Surjection
  <2>2. ASSUME NEW id \in g.ids PROVE IsFiniteSet(Below(g, id))
    <3>1. g.prereqs[id] \o g.children[id] \in Seq(Id)
      BY DEF WellFormed
    <3>2. QED BY <3>1, ListFinite DEF Below
  <2>3. \A S \in lists : IsFiniteSet(S)
    BY <2>2
  <2> HIDE DEF lists
  <2>4. QED BY <2>1, <2>3, FS_UNION
<1>3. \A id : Below(g, id) \subseteq all
  BY DEF Below
<1> HIDE DEF all
<1>4. \A S \in SUBSET Id : IsFiniteSet(all \ S)
  BY <1>2, FS_Difference
<1>5. size \in [SUBSET Id -> Nat]
  BY <1>4, FS_CardinalityType
<1>6. ASSUME NEW S \in (SUBSET Id) \ Wide(g)
      PROVE  Cardinality(all \ Widen(g)[S]) < Cardinality(all \ S)
  <2>1. PICK W : W = Widen(g)[S]
    OBVIOUS
  <2>2. PICK id \in S : ~(Below(g, id) \subseteq S)
    BY <1>6 DEF Wide
  <2>3. PICK x \in Below(g, id) : x \notin S
    BY <2>2
  <2>4. W = S \cup UNION {Below(g, i) : i \in S}
    BY <2>1 DEF Widen
  <2>5. x \in W /\ x \in all /\ S \subseteq W
    BY <2>2, <2>3, <2>4, <1>3
  <2>6. all \ W \in SUBSET (all \ S) /\ all \ W # all \ S
    BY <2>3, <2>5
  <2>7. Cardinality(all \ W) <= Cardinality(all \ S) /\ Cardinality(all \ S) # Cardinality(all \ W)
    BY <2>6, <1>4, FS_Subset
  <2>8. W \in SUBSET Id
    BY <1>1, <2>1
  <2>9. Cardinality(all \ W) \in Nat /\ Cardinality(all \ S) \in Nat
    BY <1>4, <2>8, FS_CardinalityType
  <2>10. Cardinality(all \ W) < Cardinality(all \ S)
    BY <2>7, <2>9
  <2>11. QED BY <2>1, <2>10
<1>7. \A S \in (SUBSET Id) \ Wide(g) : size[Widen(g)[S]] < size[S]
  <2> TAKE S \in (SUBSET Id) \ Wide(g)
  <2>1. S \in SUBSET Id /\ Widen(g)[S] \in SUBSET Id
    BY <1>1
  <2>2. QED BY <2>1, <1>6
<1> HIDE DEF size
<1>8. QED BY <1>1, <1>5, <1>7, MeasureTerminates

(* `ReachableAtoms` finds the atoms among what is reached. *)
LEMMA ReachableIs ==
    ASSUME NEW g, WellFormed(g), NEW roots \in SUBSET Id
    PROVE  ReachableAtoms(g, roots) = Reach(g, roots) \cap AtomsOf(g)
<1> DEFINE D == SUBSET Id
           base == [S \in D |-> S]
           step == [S \in D |-> [W \in D |-> W]]
           below(S) == UNION {ToSet(g.prereqs[id] \o g.children[id]) : id \in S \cap g.ids}
           reach[S \in SUBSET Id] == IF below(S) \subseteq S THEN S ELSE reach[S \cup below(S)]
<1>1. ASSUME NEW S \in D
      PROVE  /\ below(S) \subseteq S <=> S \in Wide(g)
             /\ S \cup below(S) = Widen(g)[S]
  <2>1. below(S) = UNION {Below(g, id) : id \in S}
    BY DEF Below
  <2> HIDE DEF below
  <2>2. QED BY <2>1 DEF Wide, Widen
<1>2. ReachableAtoms(g, roots) = {id \in reach[roots] : IsAtom(g, id)}
  BY DEF ReachableAtoms
<1>3. Terminates(D, Wide(g), Widen(g))
  BY WideningEnds
<1>4. base \in [D -> D] /\ step \in [D -> [D -> D]]
  OBVIOUS
<1>5. PICK f : Solves(f, D, Wide(g), Widen(g), D, base, step)
  <2> HIDE DEF D, base, step
  <2>1. QED BY <1>3, <1>4, RecursionExists
<1>6. Widen(g) \in [D -> D]
  BY <1>3 DEF Terminates
<1>7. f \in [D -> D]
  BY <1>5 DEF Solves
<1>8. ASSUME NEW S \in D PROVE f[S] = IF S \in Wide(g) THEN S ELSE f[Widen(g)[S]]
  <2>1. CASE S \in Wide(g)
    <3>1. f[S] = base[S]
      BY <1>5, <2>1 DEF Solves
    <3>2. QED BY <3>1, <2>1
  <2>2. CASE S \notin Wide(g)
    <3>1. f[S] = step[S][f[Widen(g)[S]]]
      BY <1>5, <2>2 DEF Solves
    <3>2. f[Widen(g)[S]] \in D
      BY <1>6, <1>7
    <3>3. QED BY <3>1, <3>2, <2>2
  <2>3. QED BY <2>1, <2>2
<1> HIDE DEF below
<1>9. \E h : h = [S \in SUBSET Id |-> IF below(S) \subseteq S THEN S ELSE h[S \cup below(S)]]
  <2>1. f = [S \in SUBSET Id |-> f[S]]
    BY <1>7
  <2>2. \A S \in SUBSET Id : f[S] = IF below(S) \subseteq S THEN S ELSE f[S \cup below(S)]
    BY <1>1, <1>8, Zenon
  <2>3. f = [S \in SUBSET Id |-> IF below(S) \subseteq S THEN S ELSE f[S \cup below(S)]]
    BY <2>1, <2>2, Zenon
  <2>4. QED BY <2>3
<1>10. PICK h : /\ h = reach
                /\ h = [S \in SUBSET Id |-> IF below(S) \subseteq S THEN S ELSE h[S \cup below(S)]]
  BY <1>9, Zenon
<1> HIDE DEF reach
<1>11. ASSUME NEW S \in D PROVE h[S] = IF S \in Wide(g) THEN S ELSE h[Widen(g)[S]]
  <2>1. h[S] = IF below(S) \subseteq S THEN S ELSE h[S \cup below(S)]
    BY <1>10, Zenon
  <2>2. QED BY <2>1, <1>1, Zenon
<1> DEFINE T == {S \in D : h[S] = Reach(g, S)}
<1>12. ASSUME NEW S \in D, S \in Wide(g) \/ Widen(g)[S] \in T PROVE S \in T
  <2>1. /\ Reach(g, S) \in SUBSET Id
        /\ S \subseteq Reach(g, S)
        /\ \A id \in Reach(g, S) : Below(g, id) \subseteq Reach(g, S)
        /\ \A R \in SUBSET Id :
              S \subseteq R /\ (\A id \in R : Below(g, id) \subseteq R) => Reach(g, S) \subseteq R
    BY ReachGrows
  <2>2. CASE S \in Wide(g)
    <3>1. Reach(g, S) = S
      BY <2>1, <2>2 DEF Wide
    <3>2. h[S] = S
      BY <1>11, <2>2
    <3>3. QED BY <3>1, <3>2
  <2>3. CASE S \notin Wide(g)
    <3>1. PICK W \in D : W = Widen(g)[S]
      BY <1>6
    <3>2. h[S] = h[W] /\ h[W] = Reach(g, W)
      BY <1>11, <1>12, <2>3, <3>1
    <3>3. W = S \cup UNION {Below(g, id) : id \in S}
      BY <3>1 DEF Widen
    <3>4. /\ W \subseteq Reach(g, W)
          /\ Reach(g, W) \in SUBSET Id
          /\ \A id \in Reach(g, W) : Below(g, id) \subseteq Reach(g, W)
          /\ \A R \in SUBSET Id :
                W \subseteq R /\ (\A id \in R : Below(g, id) \subseteq R) => Reach(g, W) \subseteq R
      BY ReachGrows
    <3>5. W \subseteq Reach(g, S)
      BY <2>1, <3>3
    <3>6. Reach(g, W) = Reach(g, S)
      <4>1. Reach(g, W) \subseteq Reach(g, S)
        BY <2>1, <3>4, <3>5
      <4>2. S \subseteq Reach(g, W)
        BY <3>3, <3>4
      <4>3. Reach(g, S) \subseteq Reach(g, W)
        BY <2>1, <3>4, <4>2
      <4>4. QED BY <4>1, <4>3
    <3>7. QED BY <3>2, <3>6
  <2>4. QED BY <2>2, <2>3
<1> HIDE DEF T
<1>13. \A S \in D : S \in T
  <2> HIDE DEF D
  <2>1. QED BY <1>3, <1>12, AlongRecursion
<1>14. h[roots] = Reach(g, roots)
  BY <1>13 DEF T
<1>15. reach[roots] = Reach(g, roots)
  BY <1>10, <1>14, Zenon
<1>16. AtomsOf(g) = {id \in g.ids : IsAtom(g, id)} /\ \A id : IsAtom(g, id) => id \in g.ids
  BY DEF AtomsOf, IsAtom
<1>17. QED BY <1>2, <1>15, <1>16

-----------------------------------------------------------------------------
(* The depth-first walk. *)

Todo == Seq({"enter", "leave"} \X Id)
Enter(ids) == [i \in DOMAIN ids |-> <<"enter", ids[i]>>]
Leave(g, id) == IF IsAtom(g, id) THEN <<<<"leave", id>>>> ELSE <<>>
Opened(g, id) == Enter(g.prereqs[id] \o g.children[id]) \o Leave(g, id)

(* What `PostOrder` goes on with. *)
Go(g) ==
    [at \in Todo \X SUBSET Id |->
        IF at[1] = <<>> THEN at
        ELSE LET id == Head(at[1])[2] IN
             IF Head(at[1])[1] = "leave" THEN <<Tail(at[1]), at[2]>>
             ELSE IF id \in at[2] \/ id \notin g.ids THEN <<Tail(at[1]), at[2] \cup {id}>>
             ELSE <<Opened(g, id) \o Tail(at[1]), at[2] \cup {id}>>]

Walked == {at \in Todo \X SUBSET Id : at[1] = <<>>}

LEMMA Entered ==
    ASSUME NEW ids \in Seq(Id)
    PROVE  /\ Enter(ids) \in Todo
           /\ ToSet(Enter(ids)) = {<<"enter", id>> : id \in ToSet(ids)}
BY DEF Enter, Todo, ToSet

LEMMA OpenedIs ==
    ASSUME NEW g, WellFormed(g), NEW id \in g.ids
    PROVE  /\ Opened(g, id) \in Todo
           /\ ToSet(Opened(g, id)) = {<<"enter", x>> : x \in Below(g, id)}
                                      \cup (IF IsAtom(g, id) THEN {<<"leave", id>>} ELSE {})
<1>1. g.prereqs[id] \o g.children[id] \in Seq(Id) /\ id \in Id
  BY DEF WellFormed
<1>2. PICK ids \in Seq(Id) : ids = g.prereqs[id] \o g.children[id]
  BY <1>1
<1>3. Enter(ids) \in Todo /\ ToSet(Enter(ids)) = {<<"enter", x>> : x \in ToSet(ids)}
  BY Entered
<1>4. /\ Leave(g, id) \in Todo
      /\ ToSet(Leave(g, id)) = IF IsAtom(g, id) THEN {<<"leave", id>>} ELSE {}
  <2>1. <<>> \in Todo /\ ToSet(<<>>) = {}
    BY EmptyList DEF Todo
  <2>2. <<<<"leave", id>>>> \in Todo /\ ToSet(<<<<"leave", id>>>>) = {<<"leave", id>>}
    BY <1>1 DEF Todo, ToSet
  <2>3. QED BY <2>1, <2>2 DEF Leave
<1>5. \A s, t \in Todo : s \o t \in Todo /\ ToSet(s \o t) = ToSet(s) \cup ToSet(t)
  BY Joined DEF Todo
<1>6. Below(g, id) = ToSet(ids)
  BY <1>2 DEF Below
<1>7. Opened(g, id) = Enter(ids) \o Leave(g, id)
  BY <1>2 DEF Opened
<1>8. QED BY <1>3, <1>4, <1>5, <1>6, <1>7

(* The head of what is to do. *)
LEMMA TodoHead ==
    ASSUME NEW todo \in Todo, todo # <<>>
    PROVE  /\ Head(todo)[1] \in {"enter", "leave"} /\ Head(todo)[2] \in Id
           /\ Head(todo) = <<Head(todo)[1], Head(todo)[2]>>
           /\ Tail(todo) \in Todo /\ Len(Tail(todo)) = Len(todo) - 1
           /\ ToSet(todo) = {Head(todo)} \cup ToSet(Tail(todo))
<1>1. /\ Head(todo) \in {"enter", "leave"} \X Id
      /\ Tail(todo) \in Todo /\ Len(Tail(todo)) = Len(todo) - 1
      /\ ToSet(todo) = {Head(todo)} \cup ToSet(Tail(todo))
  BY Split DEF Todo
<1>2. QED BY <1>1

(* Where the walk goes from one place. *)
LEMMA GoesTo ==
    ASSUME NEW g, WellFormed(g), NEW todo \in Todo, NEW past \in SUBSET Id, todo # <<>>,
           NEW id, id = Head(todo)[2], NEW on, on = Go(g)[<<todo, past>>]
    PROVE  /\ on \in Todo \X SUBSET Id
           /\ Head(todo)[1] = "leave" => on = <<Tail(todo), past>>
           /\ Head(todo)[1] = "enter" /\ (id \in past \/ id \notin g.ids) =>
                 on = <<Tail(todo), past \cup {id}>>
           /\ Head(todo)[1] = "enter" /\ ~(id \in past \/ id \notin g.ids) =>
                 on = <<Opened(g, id) \o Tail(todo), past \cup {id}>>
<1>2. id \in Id /\ Tail(todo) \in Todo /\ Head(todo)[1] \in {"enter", "leave"}
  BY TodoHead
<1>3. <<todo, past>> \in Todo \X SUBSET Id
  OBVIOUS
<1>4. on = IF Head(todo)[1] = "leave" THEN <<Tail(todo), past>>
           ELSE IF id \in past \/ id \notin g.ids THEN <<Tail(todo), past \cup {id}>>
           ELSE <<Opened(g, id) \o Tail(todo), past \cup {id}>>
  BY <1>3 DEF Go
<1>5. id \in g.ids => Opened(g, id) \o Tail(todo) \in Todo
  <2>1. SUFFICES ASSUME id \in g.ids PROVE Opened(g, id) \o Tail(todo) \in Todo
    OBVIOUS
  <2>2. Opened(g, id) \in Todo
    BY <2>1, OpenedIs
  <2>3. QED BY <2>2, <1>2 DEF Todo
<1>6. past \cup {id} \in SUBSET Id
  BY <1>2
<1>7. on \in Todo \X SUBSET Id
  <2>0. PICK rest \in Todo : rest = Tail(todo)
    BY <1>2
  <2>1. CASE Head(todo)[1] = "leave"
    <3>1. on = <<rest, past>>
      BY <2>0, <2>1, <1>4
    <3>2. QED BY <3>1
  <2>2. CASE Head(todo)[1] # "leave" /\ (id \in past \/ id \notin g.ids)
    <3>1. on = <<rest, past \cup {id}>>
      BY <2>0, <2>2, <1>4
    <3>2. QED BY <3>1, <1>6
  <2>3. CASE Head(todo)[1] # "leave" /\ ~(id \in past \/ id \notin g.ids)
    <3>1. PICK s \in Todo : s = Opened(g, id) \o Tail(todo)
      BY <2>3, <1>5
    <3>2. on = <<s, past \cup {id}>>
      BY <2>3, <3>1, <1>4
    <3>3. QED BY <3>2, <1>6
  <2>4. QED BY <2>1, <2>2, <2>3
<1>8. QED BY <1>2, <1>4, <1>7

(* The walk ends: it enters a concept or has less to do. *)
LEMMA WalkEnds ==
    ASSUME NEW g, WellFormed(g)
    PROVE  Terminates(Todo \X SUBSET Id, Walked, Go(g))
<1> DEFINE D == Todo \X SUBSET Id
           size == [at \in D |-> Cardinality(g.ids \ at[2])]
           rank == [at \in D |-> Len(at[1])]
<1>1. \A at \in D : at[1] \in Todo /\ at[2] \in SUBSET Id /\ at = <<at[1], at[2]>>
  OBVIOUS
<1>2. \A past : IsFiniteSet(g.ids \ past) /\ Cardinality(g.ids \ past) \in Nat
  BY FS_Difference, FS_CardinalityType DEF WellFormed
<1>3. size \in [D -> Nat]
  BY <1>2
<1>4. rank \in [D -> Nat]
  BY DEF Todo
<1>5. Go(g) \in [D -> D]
  <2>1. ASSUME NEW at \in D PROVE Go(g)[at] \in D
    <3>1. PICK todo \in Todo : \E past \in SUBSET Id : at = <<todo, past>>
      BY <1>1
    <3>2. PICK past \in SUBSET Id : at = <<todo, past>>
      BY <3>1
    <3>3. CASE todo = <<>>
      BY <3>2, <3>3 DEF Go
    <3>4. CASE todo # <<>>
      <4>1. \E id, on : id = Head(todo)[2] /\ on = Go(g)[<<todo, past>>]
        OBVIOUS
      <4>2. QED BY <3>2, <3>4, <4>1, GoesTo
    <3>5. QED BY <3>3, <3>4
  <2>2. QED BY <2>1 DEF Go
<1>6. ASSUME NEW todo \in Todo, NEW past \in SUBSET Id, todo # <<>>, NEW on, on = Go(g)[<<todo, past>>]
      PROVE  \/ Cardinality(g.ids \ on[2]) < Cardinality(g.ids \ past)
             \/ Cardinality(g.ids \ on[2]) = Cardinality(g.ids \ past) /\ Len(on[1]) < Len(todo)
  <2>1. PICK id : id = Head(todo)[2]
    OBVIOUS
  <2>2. Tail(todo) \in Todo /\ Len(Tail(todo)) = Len(todo) - 1 /\ Len(todo) \in Nat
        /\ Head(todo)[1] \in {"enter", "leave"}
    BY <1>6, TodoHead DEF Todo
  <2>3. Len(Tail(todo)) < Len(todo)
    BY <2>2
  <2>4. CASE Head(todo)[1] = "leave"
    <3>1. on = <<Tail(todo), past>>
      BY <2>1, <2>4, <1>6, GoesTo
    <3>2. QED BY <3>1, <2>3
  <2>5. CASE Head(todo)[1] = "enter" /\ (id \in past \/ id \notin g.ids)
    <3>1. on = <<Tail(todo), past \cup {id}>>
      BY <2>1, <2>5, <1>6, GoesTo
    <3>2. g.ids \ (past \cup {id}) = g.ids \ past
      BY <2>5
    <3>3. QED BY <3>1, <3>2, <2>3
  <2>6. CASE Head(todo)[1] = "enter" /\ ~(id \in past \/ id \notin g.ids)
    <3>1. on = <<Opened(g, id) \o Tail(todo), past \cup {id}>>
      BY <2>1, <2>6, <1>6, GoesTo
    <3>2. PICK S : S = g.ids \ past
      OBVIOUS
    <3>3. IsFiniteSet(S) /\ Cardinality(S) \in Nat /\ id \in S
      BY <1>2, <2>6, <3>2
    <3>4. Cardinality(S \ {id}) = Cardinality(S) - 1
      BY <3>3, FS_RemoveElement
    <3>5. Cardinality(S \ {id}) < Cardinality(S)
      BY <3>3, <3>4
    <3>6. g.ids \ (past \cup {id}) = S \ {id}
      BY <3>2
    <3>7. QED BY <3>1, <3>2, <3>5, <3>6
  <2>7. QED BY <2>2, <2>4, <2>5, <2>6
<1>7. ASSUME NEW at \in D \ Walked
      PROVE  \/ size[Go(g)[at]] < size[at]
             \/ size[Go(g)[at]] = size[at] /\ rank[Go(g)[at]] < rank[at]
  <2>1. Go(g)[at] \in D /\ at \in D /\ at = <<at[1], at[2]>> /\ at[1] # <<>>
    BY <1>1, <1>5 DEF Walked
  <2>2. PICK on \in D : on = Go(g)[at]
    BY <2>1
  <2>3. \/ Cardinality(g.ids \ on[2]) < Cardinality(g.ids \ at[2])
        \/ Cardinality(g.ids \ on[2]) = Cardinality(g.ids \ at[2]) /\ Len(on[1]) < Len(at[1])
    BY <2>1, <2>2, <1>1, <1>6
  <2>4. size[on] = Cardinality(g.ids \ on[2]) /\ size[at] = Cardinality(g.ids \ at[2])
        /\ rank[on] = Len(on[1]) /\ rank[at] = Len(at[1])
    BY <2>1
  <2> HIDE DEF size, rank
  <2>5. QED BY <2>2, <2>3, <2>4
<1> HIDE DEF D, size, rank
<1>8. Terminates(D, Walked, Go(g))
  BY <1>3, <1>4, <1>5, <1>7, PairTerminates
<1>9. QED BY <1>8 DEF D

(* The function `PostOrder` computes by. *)
Walks(walk, g) ==
    /\ \A at \in Walked : walk[at] = <<>>
    /\ \A at \in (Todo \X SUBSET Id) \ Walked :
          walk[at] = IF Head(at[1])[1] = "leave" THEN <<Head(at[1])[2]>> \o walk[Go(g)[at]]
                     ELSE walk[Go(g)[at]]

LEMMA WalkSteps ==
    ASSUME NEW g, WellFormed(g)
    PROVE  \E walk : Walks(walk, g) /\ \A roots : PostOrder(g, roots) = walk[<<Enter(roots), {}>>]
<1> DEFINE D == Todo \X SUBSET Id
           base == [at \in D |-> <<>>]
           step == [at \in D |-> [v \in Seq(Id) |->
                      IF at[1] # <<>> /\ Head(at[1])[1] = "leave" THEN <<Head(at[1])[2]>> \o v ELSE v]]
<1>1. Terminates(D, Walked, Go(g))
  BY WalkEnds
<1>2. base \in [D -> Seq(Id)] /\ step \in [D -> [Seq(Id) -> Seq(Id)]]
  <2>1. ASSUME NEW at \in D, NEW v \in Seq(Id), at[1] # <<>>, Head(at[1])[1] = "leave"
        PROVE  <<Head(at[1])[2]>> \o v \in Seq(Id)
    <3>1. Head(at[1])[2] \in Id
      BY <2>1, TodoHead
    <3>2. QED BY <3>1
  <2>2. QED BY <2>1
<1>3. PICK f : Solves(f, D, Walked, Go(g), Seq(Id), base, step)
  <2> HIDE DEF D, base, step
  <2>1. QED BY <1>1, <1>2, RecursionExists
<1>4. Go(g) \in [D -> D] /\ f \in [D -> Seq(Id)]
  BY <1>1, <1>3 DEF Terminates, Solves
<1>5. ASSUME NEW at \in D, at[1] = <<>> PROVE f[at] = <<>>
  <2>1. at \in Walked
    BY <1>5 DEF Walked
  <2>2. f[at] = base[at]
    BY <1>3, <2>1 DEF Solves
  <2>3. QED BY <2>2
<1>6. ASSUME NEW at \in D, at[1] # <<>>
      PROVE  f[at] = IF Head(at[1])[1] = "leave" THEN <<Head(at[1])[2]>> \o f[Go(g)[at]]
                     ELSE f[Go(g)[at]]
  <2>1. at \notin Walked
    BY <1>6 DEF Walked
  <2>2. f[at] = step[at][f[Go(g)[at]]]
    BY <1>3, <2>1 DEF Solves
  <2>3. f[Go(g)[at]] \in Seq(Id)
    BY <1>4
  <2>4. QED BY <2>2, <2>3, <1>6
<1> DEFINE enter(ids) == [i \in DOMAIN ids |-> <<"enter", ids[i]>>]
           leave(id) == IF IsAtom(g, id) THEN <<<<"leave", id>>>> ELSE <<>>
           body(h, at) ==
             IF at[1] = <<>> THEN <<>>
             ELSE IF Head(at[1])[1] = "leave"
                  THEN <<Head(at[1])[2]>> \o h[<<Tail(at[1]), at[2]>>]
             ELSE IF Head(at[1])[2] \in at[2] \/ Head(at[1])[2] \notin g.ids
                  THEN h[<<Tail(at[1]), at[2] \cup {Head(at[1])[2]}>>]
             ELSE h[<<enter(g.prereqs[Head(at[1])[2]] \o g.children[Head(at[1])[2]])
                        \o leave(Head(at[1])[2]) \o Tail(at[1]),
                      at[2] \cup {Head(at[1])[2]}>>]
           walk[at \in Seq({"enter", "leave"} \X Id) \X SUBSET Id] == body(walk, at)
<1>7. \A roots : PostOrder(g, roots) = walk[<<Enter(roots), {}>>]
  BY DEF PostOrder, Enter
<1>8. ASSUME NEW at \in D, at[1] # <<>>, NEW id, id = Head(at[1])[2]
      PROVE  /\ Head(at[1])[1] = "leave" => Go(g)[at] = <<Tail(at[1]), at[2]>>
             /\ Head(at[1])[1] # "leave" /\ (id \in at[2] \/ id \notin g.ids) =>
                  Go(g)[at] = <<Tail(at[1]), at[2] \cup {id}>>
             /\ Head(at[1])[1] # "leave" /\ ~(id \in at[2] \/ id \notin g.ids) =>
                  Go(g)[at] = <<enter(g.prereqs[id] \o g.children[id]) \o leave(id) \o Tail(at[1]),
                                at[2] \cup {id}>>
  <2>1. Opened(g, id) = enter(g.prereqs[id] \o g.children[id]) \o leave(id)
    BY DEF Opened, Enter, Leave
  <2> HIDE DEF enter, leave
  <2>2. QED BY <2>1, <1>8 DEF Go
<1>9. ASSUME NEW h, NEW at \in D, at[1] # <<>>
      PROVE  body(h, at) = IF Head(at[1])[1] = "leave" THEN <<Head(at[1])[2]>> \o h[Go(g)[at]]
                           ELSE h[Go(g)[at]]
  <2>1. PICK id : id = Head(at[1])[2]
    BY SMTT(30)
  <2> HIDE DEF enter, leave
  <2>2. /\ Head(at[1])[1] = "leave" => Go(g)[at] = <<Tail(at[1]), at[2]>>
        /\ Head(at[1])[1] # "leave" /\ (id \in at[2] \/ id \notin g.ids) =>
             Go(g)[at] = <<Tail(at[1]), at[2] \cup {id}>>
        /\ Head(at[1])[1] # "leave" /\ ~(id \in at[2] \/ id \notin g.ids) =>
             Go(g)[at] = <<enter(g.prereqs[id] \o g.children[id]) \o leave(id) \o Tail(at[1]),
                           at[2] \cup {id}>>
    BY <1>8, <1>9, <2>1
  <2>3. body(h, at) = IF Head(at[1])[1] = "leave" THEN <<id>> \o h[<<Tail(at[1]), at[2]>>]
             ELSE IF id \in at[2] \/ id \notin g.ids THEN h[<<Tail(at[1]), at[2] \cup {id}>>]
             ELSE h[<<enter(g.prereqs[id] \o g.children[id]) \o leave(id) \o Tail(at[1]),
                      at[2] \cup {id}>>]
    BY <1>9, <2>1, Zenon
  <2> HIDE DEF body
  <2>4. QED BY <2>1, <2>2, <2>3, Zenon
<1> HIDE DEF enter, leave
<1>10. ASSUME NEW h, NEW at \in D, at[1] = <<>> PROVE body(h, at) = <<>>
  BY <1>10
<1> HIDE DEF body
<1>11. \E h : h = [at \in Seq({"enter", "leave"} \X Id) \X SUBSET Id |-> body(h, at)]
  <2>1. f = [at \in D |-> f[at]]
    BY <1>4
  <2>2. \A at \in D : f[at] = body(f, at)
    <3> HIDE DEF D
    <3>1. QED BY <1>5, <1>6, <1>9, <1>10, Zenon
  <2>3. f = [at \in D |-> body(f, at)]
    BY <2>1, <2>2, Zenon
  <2>4. QED BY <2>3 DEF Todo
<1>12. PICK h : /\ h = walk
                /\ h = [at \in Seq({"enter", "leave"} \X Id) \X SUBSET Id |-> body(h, at)]
  BY <1>11, Zenon
<1> HIDE DEF walk
<1>13. \A at \in D : h[at] = body(h, at)
  BY <1>12, Zenon DEF Todo
<1>14. Walks(h, g)
  <2>1. ASSUME NEW at \in Walked PROVE h[at] = <<>>
    BY <1>10, <1>13 DEF Walked
  <2>2. ASSUME NEW at \in D \ Walked
        PROVE  h[at] = IF Head(at[1])[1] = "leave" THEN <<Head(at[1])[2]>> \o h[Go(g)[at]]
                       ELSE h[Go(g)[at]]
    <3>1. at \in D /\ at[1] # <<>>
      BY DEF Walked
    <3> HIDE DEF D
    <3>2. QED BY <3>1, <1>9, <1>13, Zenon
  <2>3. QED BY <2>1, <2>2 DEF Walks
<1>15. QED BY <1>7, <1>12, <1>14

(* The walk, one entry of the list at a time. *)
Follows(walk, g, todo, past, id) ==
    /\ Head(todo)[1] = "leave" =>
         walk[<<todo, past>>] = <<id>> \o walk[<<Tail(todo), past>>]
    /\ Head(todo)[1] = "enter" /\ (id \in past \/ id \notin g.ids) =>
         walk[<<todo, past>>] = walk[<<Tail(todo), past \cup {id}>>]
    /\ Head(todo)[1] = "enter" /\ ~(id \in past \/ id \notin g.ids) =>
         walk[<<todo, past>>] = walk[<<Opened(g, id) \o Tail(todo), past \cup {id}>>]

LEMMA WalkGoes ==
    ASSUME NEW g, WellFormed(g), NEW walk, Walks(walk, g),
           NEW todo \in Todo, NEW past \in SUBSET Id, todo # <<>>,
           NEW id, id = Head(todo)[2]
    PROVE  Follows(walk, g, todo, past, id)
<1>1. PICK at : at = <<todo, past>>
  OBVIOUS
<1>2. at \in (Todo \X SUBSET Id) \ Walked /\ at[1] = todo
  BY <1>1 DEF Walked
<1>3. walk[at] = IF Head(todo)[1] = "leave" THEN <<id>> \o walk[Go(g)[at]] ELSE walk[Go(g)[at]]
  BY <1>2 DEF Walks
<1>4. PICK on : on = Go(g)[<<todo, past>>]
  OBVIOUS
<1>5. /\ Head(todo)[1] = "leave" => on = <<Tail(todo), past>>
      /\ Head(todo)[1] = "enter" /\ (id \in past \/ id \notin g.ids) =>
            on = <<Tail(todo), past \cup {id}>>
      /\ Head(todo)[1] = "enter" /\ ~(id \in past \/ id \notin g.ids) =>
            on = <<Opened(g, id) \o Tail(todo), past \cup {id}>>
  BY <1>4, GoesTo, SMTT(30)
<1>6. walk[at] = IF Head(todo)[1] = "leave" THEN <<id>> \o walk[on] ELSE walk[on]
  BY <1>1, <1>3, <1>4
<1>7. "leave" # "enter"
  OBVIOUS
<1>8. QED BY <1>1, <1>5, <1>6, <1>7, Zenon DEF Follows

(* What is still to be entered and left. *)
Enters(todo) == {id \in Id : <<"enter", id>> \in ToSet(todo)}
Leaves(todo) == {id \in Id : <<"leave", id>> \in ToSet(todo)}

LEMMA HeadGone ==
    ASSUME NEW todo \in Todo, todo # <<>>, NEW id, id = Head(todo)[2]
    PROVE  /\ Head(todo)[1] = "enter" => /\ Enters(todo) = {id} \cup Enters(Tail(todo))
                                         /\ Leaves(todo) = Leaves(Tail(todo))
           /\ Head(todo)[1] = "leave" => /\ Leaves(todo) = {id} \cup Leaves(Tail(todo))
                                         /\ Enters(todo) = Enters(Tail(todo))
<1>1. /\ id \in Id /\ Head(todo) = <<Head(todo)[1], id>>
      /\ ToSet(todo) = {Head(todo)} \cup ToSet(Tail(todo))
  BY TodoHead
<1>2. PICK s, h, k : s = ToSet(Tail(todo)) /\ h = Head(todo) /\ k = Head(todo)[1]
  OBVIOUS
<1>3. \A x : <<"enter", x>> = <<k, id>> <=> k = "enter" /\ x = id
  OBVIOUS
<1>4. \A x : <<"leave", x>> = <<k, id>> <=> k = "leave" /\ x = id
  OBVIOUS
<1>5. "leave" # "enter"
  OBVIOUS
<1>6. ToSet(todo) = {<<k, id>>} \cup s
  BY <1>1, <1>2
<1>7. \A x : <<"enter", x>> \in ToSet(todo) <=> (k = "enter" /\ x = id) \/ <<"enter", x>> \in s
  BY <1>3, <1>6
<1>8. \A x : <<"leave", x>> \in ToSet(todo) <=> (k = "leave" /\ x = id) \/ <<"leave", x>> \in s
  BY <1>4, <1>6
<1>9. QED BY <1>1, <1>2, <1>5, <1>7, <1>8 DEF Enters, Leaves

LEMMA OpenedLists ==
    ASSUME NEW g, WellFormed(g), NEW id \in g.ids, NEW rest \in Todo
    PROVE  /\ Enters(Opened(g, id) \o rest) = Below(g, id) \cup Enters(rest)
           /\ Leaves(Opened(g, id) \o rest) = ({id} \cap AtomsOf(g)) \cup Leaves(rest)
<1>1. /\ Opened(g, id) \in Todo
      /\ ToSet(Opened(g, id)) = {<<"enter", x>> : x \in Below(g, id)}
                                 \cup (IF IsAtom(g, id) THEN {<<"leave", id>>} ELSE {})
  BY OpenedIs
<1>2. \A s, t \in Todo : ToSet(s \o t) = ToSet(s) \cup ToSet(t)
  BY Joined DEF Todo
<1>3. PICK s : s = ToSet(Opened(g, id) \o rest)
  OBVIOUS
<1>4. s = ToSet(Opened(g, id)) \cup ToSet(rest)
  BY <1>1, <1>2, <1>3
<1>5. id \in AtomsOf(g) <=> IsAtom(g, id)
  BY DEF AtomsOf
<1>6. id \in Id /\ Below(g, id) \subseteq Id
  BY BelowIds DEF WellFormed
<1>7. \A x : <<"enter", x>> \in s <=> x \in Below(g, id) \/ <<"enter", x>> \in ToSet(rest)
  BY <1>1, <1>4
<1>8. \A x : <<"leave", x>> \in s <=> (IsAtom(g, id) /\ x = id) \/ <<"leave", x>> \in ToSet(rest)
  BY <1>1, <1>4
<1>9. QED BY <1>3, <1>5, <1>6, <1>7, <1>8 DEF Enters, Leaves

(* The walk yields what it was to leave, and the atoms beyond.  *)
LEMMA WalkYields ==
    ASSUME NEW g, WellFormed(g), NEW walk, Walks(walk, g)
    PROVE  \A at \in Todo \X SUBSET Id :
              /\ walk[at] \in Seq(Id)
              /\ ToSet(walk[at]) = Leaves(at[1]) \cup (Beyond(g, Enters(at[1]), at[2]) \cap AtomsOf(g))
<1> DEFINE D == Todo \X SUBSET Id
           Yields(todo, past, s) ==
              /\ s \in Seq(Id)
              /\ ToSet(s) = Leaves(todo) \cup (Beyond(g, Enters(todo), past) \cap AtomsOf(g))
           T == {at \in D : Yields(at[1], at[2], walk[at])}
<1>1. \A todo \in Todo, past \in SUBSET Id :
         <<todo, past>> \in T <=> Yields(todo, past, walk[<<todo, past>>])
  <2> HIDE DEF Yields
  <2>1. QED OBVIOUS
<1>2. ASSUME NEW past \in SUBSET Id PROVE Yields(<<>>, past, walk[<<<<>>, past>>])
  <2>1. <<>> \in Todo /\ ToSet(<<>>) = {} /\ <<>> \in Seq(Id)
    BY EmptyList DEF Todo
  <2>2. Enters(<<>>) = {} /\ Leaves(<<>>) = {}
    BY <2>1 DEF Enters, Leaves
  <2>3. Beyond(g, {}, past) = {}
    BY DEF Beyond, Around
  <2>4. <<<<>>, past>> \in Walked
    BY <2>1 DEF Walked
  <2>5. walk[<<<<>>, past>>] = <<>>
    BY <2>4, Zenon DEF Walks
  <2>6. QED BY <2>1, <2>2, <2>3, <2>5
<1>3. ASSUME NEW todo \in Todo, NEW past \in SUBSET Id, todo # <<>>, Go(g)[<<todo, past>>] \in T
      PROVE  Yields(todo, past, walk[<<todo, past>>])
  <2>1. PICK id : id = Head(todo)[2]
    OBVIOUS
  <2>2. PICK on : on = Go(g)[<<todo, past>>]
    OBVIOUS
  <2>3. /\ Head(todo)[1] \in {"enter", "leave"} /\ id \in Id /\ Tail(todo) \in Todo
    BY <1>3, <2>1, TodoHead
  <2>4. on \in T
    BY <1>3, <2>2
  <2>5. past \cup {id} \in SUBSET Id
    BY <2>3
  <2>10. Follows(walk, g, todo, past, id)
    BY <1>3, <2>1, WalkGoes
  <2>6. CASE Head(todo)[1] = "leave"
    <3>1. on = <<Tail(todo), past>>
      BY <1>3, <2>1, <2>2, <2>6, GoesTo
    <3>2. PICK s : s = walk[<<Tail(todo), past>>]
      OBVIOUS
    <3>3. Yields(Tail(todo), past, s)
      BY <3>1, <3>2, <2>3, <2>4, <1>1
    <3>4. walk[<<todo, past>>] = <<id>> \o s
      <4>1. walk[<<todo, past>>] = <<id>> \o walk[<<Tail(todo), past>>]
        BY <2>6, <2>10, Zenon DEF Follows
      <4>2. QED BY <3>2, <4>1
    <3>5. <<id>> \o s \in Seq(Id) /\ ToSet(<<id>> \o s) = {id} \cup ToSet(s)
      <4>1. <<id>> \in Seq(Id) /\ ToSet(<<id>>) = {id}
        BY <2>3 DEF ToSet
      <4>2. s \in Seq(Id)
        BY <3>3
      <4>3. PICK one \in Seq(Id) : one = <<id>>
        BY <4>1
      <4>4. one \o s \in Seq(Id) /\ ToSet(one \o s) = ToSet(one) \cup ToSet(s)
        BY <4>2, Joined
      <4>5. QED BY <4>1, <4>3, <4>4
    <3>6. Leaves(todo) = {id} \cup Leaves(Tail(todo)) /\ Enters(todo) = Enters(Tail(todo))
      BY <1>3, <2>1, <2>6, HeadGone
    <3>7. QED BY <3>3, <3>4, <3>5, <3>6
  <2>7. CASE Head(todo)[1] = "enter" /\ (id \in past \/ id \notin g.ids)
    <3>1. on = <<Tail(todo), past \cup {id}>>
      BY <1>3, <2>1, <2>2, <2>7, GoesTo
    <3>2. PICK s : s = walk[<<Tail(todo), past \cup {id}>>]
      OBVIOUS
    <3>3. Yields(Tail(todo), past \cup {id}, s)
      BY <3>1, <3>2, <2>3, <2>5, <2>4, <1>1
    <3>4. walk[<<todo, past>>] = s
      <4>1. walk[<<todo, past>>] = walk[<<Tail(todo), past \cup {id}>>]
        BY <2>7, <2>10, Zenon DEF Follows
      <4>2. QED BY <3>2, <4>1
    <3>5. Enters(todo) = {id} \cup Enters(Tail(todo)) /\ Leaves(todo) = Leaves(Tail(todo))
      BY <1>3, <2>1, <2>7, HeadGone
    <3>6. Beyond(g, Enters(todo), past) \cap AtomsOf(g)
            = Beyond(g, Enters(Tail(todo)), past \cup {id}) \cap AtomsOf(g)
      <4>1. CASE id \in past
        <5>1. past \cup {id} = past
          BY <4>1
        <5>2. Beyond(g, {id} \cup Enters(Tail(todo)), past) = Beyond(g, Enters(Tail(todo)), past)
          BY <4>1, BeyondPast
        <5>3. QED BY <5>1, <5>2, <3>5
      <4>2. CASE id \notin past
        <5>1. Below(g, id) = {} /\ id \notin AtomsOf(g)
          BY <4>2, <2>7 DEF Below, AtomsOf
        <5>2. PICK more \in SUBSET Id : more = Enters(Tail(todo))
          BY DEF Enters
        <5>3. Beyond(g, {id} \cup more, past)
                = {id} \cup Beyond(g, Below(g, id) \cup more, past \cup {id})
          BY <4>2, <2>3, BeyondEnter, SMTT(30)
        <5>4. Below(g, id) \cup more = more
          BY <5>1
        <5>5. QED BY <5>1, <5>2, <5>3, <5>4, <3>5
      <4>3. QED BY <4>1, <4>2
    <3>7. QED BY <3>3, <3>4, <3>5, <3>6
  <2>8. CASE Head(todo)[1] = "enter" /\ ~(id \in past \/ id \notin g.ids)
    <3>1. on = <<Opened(g, id) \o Tail(todo), past \cup {id}>>
      BY <1>3, <2>1, <2>2, <2>8, GoesTo, SMTT(30)
    <3>2. PICK s : s = walk[<<Opened(g, id) \o Tail(todo), past \cup {id}>>]
      OBVIOUS
    <3>3. Opened(g, id) \o Tail(todo) \in Todo
      <4>1. Opened(g, id) \in Todo
        BY <2>8, OpenedIs
      <4>2. QED BY <4>1, <2>3 DEF Todo
    <3>4. Yields(Opened(g, id) \o Tail(todo), past \cup {id}, s)
      <4> HIDE DEF Yields, T
      <4>1. QED BY <3>1, <3>2, <3>3, <2>5, <2>4, <1>1
    <3>5. walk[<<todo, past>>] = s
      <4>1. walk[<<todo, past>>] = walk[<<Opened(g, id) \o Tail(todo), past \cup {id}>>]
        BY <2>8, <2>10, Zenon DEF Follows
      <4>2. QED BY <3>2, <4>1
    <3>6. Enters(todo) = {id} \cup Enters(Tail(todo)) /\ Leaves(todo) = Leaves(Tail(todo))
      BY <1>3, <2>1, <2>8, HeadGone
    <3>7. /\ Enters(Opened(g, id) \o Tail(todo)) = Below(g, id) \cup Enters(Tail(todo))
          /\ Leaves(Opened(g, id) \o Tail(todo)) = ({id} \cap AtomsOf(g)) \cup Leaves(Tail(todo))
      BY <2>3, <2>8, OpenedLists
    <3>8. Beyond(g, {id} \cup Enters(Tail(todo)), past)
            = {id} \cup Beyond(g, Below(g, id) \cup Enters(Tail(todo)), past \cup {id})
      <4>1. PICK more \in SUBSET Id : more = Enters(Tail(todo))
        BY DEF Enters
      <4>2. Beyond(g, {id} \cup more, past)
              = {id} \cup Beyond(g, Below(g, id) \cup more, past \cup {id})
        BY <2>3, <2>8, BeyondEnter
      <4>3. QED BY <4>1, <4>2
    <3>9. s \in Seq(Id) /\ ToSet(s) = Leaves(Opened(g, id) \o Tail(todo))
              \cup (Beyond(g, Enters(Opened(g, id) \o Tail(todo)), past \cup {id}) \cap AtomsOf(g))
      BY <3>4
    <3>10. QED BY <3>5, <3>6, <3>7, <3>8, <3>9
  <2>9. QED BY <2>3, <2>6, <2>7, <2>8
<1>4. \A at \in D : (at \in Walked \/ Go(g)[at] \in T) => at \in T
  <2>1. ASSUME NEW at \in D, at \in Walked \/ Go(g)[at] \in T PROVE at \in T
    <3>1. PICK todo \in Todo, past \in SUBSET Id : at = <<todo, past>>
      OBVIOUS
    <3> HIDE DEF T, Yields
    <3>2. CASE todo = <<>>
      BY <3>1, <3>2, <1>1, <1>2
    <3>3. CASE todo # <<>>
      <4>1. Go(g)[<<todo, past>>] \in T
        BY <2>1, <3>1, <3>3 DEF Walked
      <4>2. QED BY <3>1, <3>3, <4>1, <1>1, <1>3
    <3>4. QED BY <3>2, <3>3
  <2>2. QED BY <2>1
<1>5. \A at \in D : at \in T
  <2> HIDE DEF T
  <2>1. QED BY <1>4, WalkEnds, AlongRecursion
<1>6. QED BY <1>5

(* The walk acts on the atoms reached from its roots and on nothing else.  *)
LEMMA WalkReaches ==
    ASSUME NEW g, WellFormed(g), NEW roots \in Seq(Id)
    PROVE  /\ PostOrder(g, roots) \in Seq(AtomsOf(g))
           /\ ToSet(PostOrder(g, roots)) = ReachableAtoms(g, ToSet(roots))
<1>1. PICK walk : Walks(walk, g) /\ \A r : PostOrder(g, r) = walk[<<Enter(r), {}>>]
  BY WalkSteps
<1>2. PICK s : s = PostOrder(g, roots)
  OBVIOUS
<1>3. Enter(roots) \in Todo /\ ToSet(Enter(roots)) = {<<"enter", id>> : id \in ToSet(roots)}
  BY Entered
<1>4. ToSet(roots) \subseteq Id
  BY InList
<1>5. Enters(Enter(roots)) = ToSet(roots) /\ Leaves(Enter(roots)) = {}
  <2>1. \A id : <<"enter", id>> \in ToSet(Enter(roots)) <=> id \in ToSet(roots)
    BY <1>3
  <2>2. \A id : <<"leave", id>> \notin ToSet(Enter(roots))
    BY <1>3
  <2>3. QED BY <2>1, <2>2, <1>4 DEF Enters, Leaves
<1>6. PICK at \in Todo \X SUBSET Id : at = <<Enter(roots), {}>>
  BY <1>3
<1>7. /\ s \in Seq(Id)
      /\ ToSet(s) = Leaves(Enter(roots)) \cup (Beyond(g, Enters(Enter(roots)), {}) \cap AtomsOf(g))
  <2>1. /\ walk[at] \in Seq(Id)
        /\ ToSet(walk[at]) = Leaves(at[1]) \cup (Beyond(g, Enters(at[1]), at[2]) \cap AtomsOf(g))
    BY <1>1, WalkYields
  <2>2. s = walk[at]
    BY <1>1, <1>2, <1>6
  <2>3. at[1] = Enter(roots) /\ at[2] = {}
    BY <1>6
  <2>4. QED BY <2>1, <2>2, <2>3
<1>8. ToSet(s) = Reach(g, ToSet(roots)) \cap AtomsOf(g)
  BY <1>5, <1>7 DEF Reach
<1>9. s \in Seq(AtomsOf(g))
  <2>1. \A i \in DOMAIN s : s[i] \in AtomsOf(g)
    BY <1>8 DEF ToSet
  <2>2. QED BY <2>1, <1>7
<1>10. ReachableAtoms(g, ToSet(roots)) = Reach(g, ToSet(roots)) \cap AtomsOf(g)
  BY <1>4, ReachableIs
<1>11. QED BY <1>2, <1>8, <1>9, <1>10

-----------------------------------------------------------------------------
(* The order of the walk.                                                  *)

(* No concept lies below itself. *)
Acyclic(g) == \A id \in g.ids : id \notin Reach(g, Below(g, id))

LEMMA ReachIn ==
    ASSUME NEW g, WellFormed(g), NEW S \in SUBSET Id, NEW v \in Reach(g, S)
    PROVE  Reach(g, {v}) \subseteq Reach(g, S)
<1>1. PICK R \in SUBSET Id : R = Reach(g, S) /\ \A id \in R : Below(g, id) \subseteq R
  BY ReachGrows
<1>2. PICK V \in SUBSET Id : V = {v}
  BY <1>1
<1>3. Reach(g, V) \subseteq R
  BY <1>1, <1>2, ReachGrows
<1>4. QED BY <1>1, <1>2, <1>3

(* Reaching is monotone, and depends on the concepts and links only. *)
LEMMA ReachMore ==
    ASSUME NEW g, NEW roots, NEW more, roots \subseteq more
    PROVE  Reach(g, roots) \subseteq Reach(g, more)
BY DEF Reach, Beyond

LEMMA SameReach ==
    ASSUME NEW g, NEW h, g.ids = h.ids, g.prereqs = h.prereqs, g.children = h.children
    PROVE  /\ \A id : Below(g, id) = Below(h, id)
           /\ \A roots : Reach(g, roots) = Reach(h, roots)
           /\ Acyclic(g) => Acyclic(h)
<1>1. \A id : Below(g, id) = Below(h, id)
  BY DEF Below
<1>2. \A S : Around(g, {}, S) <=> Around(h, {}, S)
  BY <1>1 DEF Around
<1>3. \A roots : Reach(g, roots) = Reach(h, roots)
  BY <1>2 DEF Reach, Beyond
<1>4. QED BY <1>1, <1>3 DEF Acyclic

(* What is done before the entry at k. *)
Before(todo, k) == {todo[j] : j \in 1 .. k - 1}

LEMMA BeforeTail ==
    ASSUME NEW todo \in Todo, todo # <<>>, NEW k \in DOMAIN Tail(todo)
    PROVE  /\ k + 1 \in DOMAIN todo /\ Tail(todo)[k] = todo[k + 1]
           /\ Before(todo, k + 1) = {Head(todo)} \cup Before(Tail(todo), k)
<1>1. /\ Len(Tail(todo)) = Len(todo) - 1 /\ Len(todo) \in Nat \ {0} /\ k \in 1 .. Len(todo) - 1
      /\ \A j \in 1 .. Len(todo) - 1 : Tail(todo)[j] = todo[j + 1]
      /\ Head(todo) = todo[1]
  BY DEF Todo
<1>2. ASSUME NEW j \in 1 .. k PROVE todo[j] \in {Head(todo)} \cup Before(Tail(todo), k)
  <2>1. CASE j = 1
    BY <2>1, <1>1
  <2>2. CASE j # 1
    <3>1. j - 1 \in 1 .. k - 1 /\ j - 1 \in 1 .. Len(todo) - 1 /\ (j - 1) + 1 = j
      BY <2>2, <1>1
    <3>2. todo[j] = Tail(todo)[j - 1]
      BY <3>1, <1>1
    <3>3. QED BY <3>1, <3>2 DEF Before
  <2>3. QED BY <2>1, <2>2
<1>3. ASSUME NEW j \in 1 .. k - 1 PROVE Tail(todo)[j] \in Before(todo, k + 1)
  <2>1. j \in 1 .. Len(todo) - 1 /\ j + 1 \in 1 .. (k + 1) - 1
    BY <1>1
  <2>2. Tail(todo)[j] = todo[j + 1]
    BY <2>1, <1>1
  <2>3. QED BY <2>1, <2>2 DEF Before
<1>4. Head(todo) \in Before(todo, k + 1)
  <2>1. 1 \in 1 .. (k + 1) - 1
    BY <1>1
  <2>2. QED BY <2>1, <1>1 DEF Before
<1>5. Before(todo, k + 1) = {todo[j] : j \in 1 .. k}
  BY <1>1 DEF Before
<1>6. Before(Tail(todo), k) = {Tail(todo)[j] : j \in 1 .. k - 1}
  BY DEF Before
<1>7. Before(todo, k + 1) = {Head(todo)} \cup Before(Tail(todo), k)
  BY <1>2, <1>3, <1>4, <1>5, <1>6
<1>8. QED BY <1>1, <1>7

LEMMA BeforeJoined ==
    ASSUME NEW s \in Todo, NEW t \in Todo, NEW k \in DOMAIN (s \o t)
    PROVE  \/ /\ k \in DOMAIN s /\ (s \o t)[k] = s[k]
              /\ Before(s \o t, k) = Before(s, k)
           \/ /\ k - Len(s) \in DOMAIN t /\ (s \o t)[k] = t[k - Len(s)]
              /\ Before(s \o t, k) = ToSet(s) \cup Before(t, k - Len(s))
<1>1. /\ Len(s) \in Nat /\ Len(t) \in Nat /\ DOMAIN s = 1 .. Len(s) /\ DOMAIN t = 1 .. Len(t)
      /\ k \in 1 .. Len(s) + Len(t)
      /\ \A i \in 1 .. Len(s) : (s \o t)[i] = s[i]
      /\ \A i \in 1 .. Len(t) : (s \o t)[Len(s) + i] = t[i]
  BY DEF Todo
<1>2. CASE k <= Len(s)
  <2>1. \A j \in 1 .. k - 1 : (s \o t)[j] = s[j]
    BY <1>1, <1>2
  <2>2. Before(s \o t, k) = Before(s, k)
    BY <2>1 DEF Before
  <2>3. QED BY <2>2, <1>1, <1>2
<1>3. CASE k > Len(s)
  <2>1. k - Len(s) \in 1 .. Len(t) /\ Len(s) + (k - Len(s)) = k
    BY <1>1, <1>3
  <2>2. (s \o t)[k] = t[k - Len(s)]
    BY <2>1, <1>1
  <2>3. ASSUME NEW j \in 1 .. k - 1 PROVE (s \o t)[j] \in ToSet(s) \cup Before(t, k - Len(s))
    <3>1. CASE j <= Len(s)
      <4>1. j \in 1 .. Len(s)
        BY <3>1
      <4>2. QED BY <4>1, <1>1 DEF ToSet
    <3>2. CASE j > Len(s)
      <4>1. j - Len(s) \in 1 .. (k - Len(s)) - 1 /\ j - Len(s) \in 1 .. Len(t)
            /\ Len(s) + (j - Len(s)) = j
        BY <3>2, <1>1
      <4>2. (s \o t)[j] = t[j - Len(s)]
        BY <4>1, <1>1
      <4>3. QED BY <4>1, <4>2 DEF Before
    <3>3. QED BY <3>1, <3>2, <1>1
  <2>4. ASSUME NEW x \in ToSet(s) PROVE x \in Before(s \o t, k)
    <3>1. PICK j \in 1 .. Len(s) : x = s[j]
      BY <1>1 DEF ToSet
    <3>2. j \in 1 .. k - 1 /\ x = (s \o t)[j]
      BY <3>1, <1>1, <1>3
    <3>3. QED BY <3>2 DEF Before
  <2>5. ASSUME NEW x \in Before(t, k - Len(s)) PROVE x \in Before(s \o t, k)
    <3>1. PICK j \in 1 .. (k - Len(s)) - 1 : x = t[j]
      BY DEF Before
    <3>2. j \in 1 .. Len(t) /\ Len(s) + j \in 1 .. k - 1
      BY <3>1, <2>1, <1>1
    <3>3. x = (s \o t)[Len(s) + j]
      BY <3>1, <3>2, <1>1
    <3>4. QED BY <3>2, <3>3 DEF Before
  <2>6. Before(s \o t, k) = {(s \o t)[j] : j \in 1 .. k - 1}
    BY DEF Before
  <2>7. Before(s \o t, k) = ToSet(s) \cup Before(t, k - Len(s))
    BY <2>3, <2>4, <2>5, <2>6
  <2>8. QED BY <2>1, <2>2, <2>7, <1>1
<1>4. QED BY <1>1, <1>2, <1>3

(* What is past is done with, but for what waits in B. *)
Behind(g, past, out, B, v) ==
    /\ \A y \in Below(g, v) : y \in past \/ <<"enter", y>> \in B
    /\ v \in AtomsOf(g) => v \in out \/ <<"leave", v>> \in B

(* At each entry, what is past is behind it, or leads to it; and what is   *)
(* below a concept is entered before it is left.                           *)
TidyAt(g, past, out, e, B) ==
    /\ \A v \in past : Behind(g, past, out, B, v) \/ e[2] \in Reach(g, {v})
    /\ e[1] = "leave" => \A y \in Below(g, e[2]) : y \in past \/ <<"enter", y>> \in B
Tidy(g, todo, past, out) ==
    \A k \in DOMAIN todo : TidyAt(g, past, out, todo[k], Before(todo, k))

(* An entry dealt with may be forgotten. *)
LEMMA TidyLess ==
    ASSUME NEW g, NEW past, NEW out, NEW e, NEW B, TidyAt(g, past, out, e, B),
           NEW past2, NEW out2, NEW B2, past \subseteq past2, out \subseteq out2,
           \A y : <<"enter", y>> \in B => y \in past2 \/ <<"enter", y>> \in B2,
           \A y : <<"leave", y>> \in B => y \in out2 \/ <<"leave", y>> \in B2,
           \A v \in past2 \ past : Behind(g, past2, out2, B2, v)
    PROVE  TidyAt(g, past2, out2, e, B2)
BY DEF TidyAt, Behind

LEMMA TidyTail ==
    ASSUME NEW g, WellFormed(g), NEW todo \in Todo, todo # <<>>, NEW id, id = Head(todo)[2],
           NEW past \in SUBSET Id, NEW out, Tidy(g, todo, past, out)
    PROVE  /\ Head(todo)[1] = "leave" => Tidy(g, Tail(todo), past, out \cup {id})
           /\ Head(todo)[1] = "enter" /\ (id \in past \/ id \notin g.ids) =>
                Tidy(g, Tail(todo), past \cup {id}, out)
<1>1. Head(todo) = <<Head(todo)[1], id>>
  BY TodoHead
<1>2. "leave" # "enter"
  OBVIOUS
<1>3. ASSUME NEW k \in DOMAIN Tail(todo), Head(todo)[1] = "leave"
      PROVE  TidyAt(g, past, out \cup {id}, Tail(todo)[k], Before(Tail(todo), k))
  <2>1. PICK B, e : B = Before(Tail(todo), k) /\ e = Tail(todo)[k]
    OBVIOUS
  <2>2. Before(todo, k + 1) = {<<"leave", id>>} \cup B /\ e = todo[k + 1] /\ k + 1 \in DOMAIN todo
    BY <1>1, <1>3, <2>1, BeforeTail
  <2>3. PICK A : A = {<<"leave", id>>} \cup B
    OBVIOUS
  <2>4. TidyAt(g, past, out, e, A)
    BY <2>2, <2>3 DEF Tidy
  <2>5. \A y : <<"enter", y>> \in A => <<"enter", y>> \in B
    BY <2>3, <1>2
  <2>6. \A y : <<"leave", y>> \in A => y = id \/ <<"leave", y>> \in B
    BY <2>3
  <2>7. PICK more : more = out \cup {id}
    OBVIOUS
  <2>8. TidyAt(g, past, more, e, B)
    <3>1. out \subseteq more /\ id \in more
      BY <2>7
    <3>2. QED BY <2>4, <2>5, <2>6, <3>1, TidyLess
  <2>9. QED BY <2>1, <2>7, <2>8
<1>4. ASSUME NEW k \in DOMAIN Tail(todo), Head(todo)[1] = "enter", id \in past \/ id \notin g.ids
      PROVE  TidyAt(g, past \cup {id}, out, Tail(todo)[k], Before(Tail(todo), k))
  <2>1. PICK B, e : B = Before(Tail(todo), k) /\ e = Tail(todo)[k]
    OBVIOUS
  <2>2. Before(todo, k + 1) = {<<"enter", id>>} \cup B /\ e = todo[k + 1] /\ k + 1 \in DOMAIN todo
    BY <1>1, <1>4, <2>1, BeforeTail
  <2>3. PICK A : A = {<<"enter", id>>} \cup B
    OBVIOUS
  <2>4. TidyAt(g, past, out, e, A)
    BY <2>2, <2>3 DEF Tidy
  <2>5. \A y : <<"enter", y>> \in A => y = id \/ <<"enter", y>> \in B
    BY <2>3
  <2>6. \A y : <<"leave", y>> \in A => <<"leave", y>> \in B
    BY <2>3, <1>2
  <2>7. PICK more : more = past \cup {id}
    OBVIOUS
  <2>8. past \subseteq more /\ id \in more
    BY <2>7
  <2>9. \A v \in more \ past : Behind(g, more, out, B, v)
    BY <1>4, <2>7 DEF Behind, Below, AtomsOf
  <2>10. TidyAt(g, more, out, e, B)
    BY <2>4, <2>5, <2>6, <2>8, <2>9, TidyLess
  <2>11. QED BY <2>1, <2>7, <2>10
<1>5. QED BY <1>3, <1>4 DEF Tidy

(* The list of what opening a concept adds. *)
LEMMA OpenedAt ==
    ASSUME NEW g, WellFormed(g), NEW id \in g.ids, NEW k \in DOMAIN Opened(g, id)
    PROVE  \/ \E y \in Below(g, id) : Opened(g, id)[k] = <<"enter", y>>
           \/ /\ Opened(g, id)[k] = <<"leave", id>>
              /\ \A y \in Below(g, id) : <<"enter", y>> \in Before(Opened(g, id), k)
<1>1. g.prereqs[id] \o g.children[id] \in Seq(Id)
  BY DEF WellFormed
<1>2. PICK ids \in Seq(Id) : ids = g.prereqs[id] \o g.children[id]
  BY <1>1
<1>3. PICK s \in Todo : s = Enter(ids)
  BY Entered
<1>4. s \in Todo /\ ToSet(s) = {<<"enter", x>> : x \in ToSet(ids)}
  BY <1>3, Entered
<1>5. Below(g, id) = ToSet(ids)
  BY <1>2 DEF Below
<1>6. PICK t : t = Leave(g, id)
  OBVIOUS
<1>7. t = <<>> \/ t = <<<<"leave", id>>>>
  BY <1>6 DEF Leave
<1>8. t \in Todo /\ \A i \in DOMAIN t : t[i] = <<"leave", id>>
  <2>1. PICK e \in {"enter", "leave"} \X Id : e = <<"leave", id>>
    BY DEF WellFormed
  <2>2. t = <<>> \/ t = <<e>>
    BY <2>1, <1>7
  <2>3. \A i \in DOMAIN t : t[i] = e
    BY <2>2
  <2>4. <<>> \in Todo /\ <<e>> \in Todo
    BY EmptyList DEF Todo
  <2>5. t \in Todo
    BY <2>2, <2>4
  <2>6. QED BY <2>1, <2>3, <2>5
<1>9. Opened(g, id) = s \o t
  BY <1>2, <1>3, <1>6 DEF Opened
<1>10. \/ k \in DOMAIN s /\ (s \o t)[k] = s[k]
       \/ /\ k - Len(s) \in DOMAIN t /\ (s \o t)[k] = t[k - Len(s)]
          /\ Before(s \o t, k) = ToSet(s) \cup Before(t, k - Len(s))
  BY <1>4, <1>8, <1>9, BeforeJoined
<1>11. CASE k \in DOMAIN s /\ (s \o t)[k] = s[k]
  <2>1. s[k] \in ToSet(s)
    BY <1>11 DEF ToSet
  <2>2. QED BY <2>1, <1>4, <1>5, <1>9, <1>11
<1>12. CASE /\ k - Len(s) \in DOMAIN t /\ (s \o t)[k] = t[k - Len(s)]
            /\ Before(s \o t, k) = ToSet(s) \cup Before(t, k - Len(s))
  BY <1>4, <1>5, <1>8, <1>9, <1>12
<1>13. QED BY <1>10, <1>11, <1>12

(* Opening a concept keeps the list tidy. *)
LEMMA TidyOpened ==
    ASSUME NEW g, WellFormed(g), NEW todo \in Todo, todo # <<>>, NEW id \in g.ids,
           Head(todo) = <<"enter", id>>,
           NEW past \in SUBSET Id, NEW out, Tidy(g, todo, past, out)
    PROVE  Tidy(g, Opened(g, id) \o Tail(todo), past \cup {id}, out)
<1>1. /\ Opened(g, id) \in Todo
      /\ ToSet(Opened(g, id)) = {<<"enter", x>> : x \in Below(g, id)}
                                 \cup (IF IsAtom(g, id) THEN {<<"leave", id>>} ELSE {})
  BY OpenedIs
<1>2. PICK new \in Todo : new = Opened(g, id)
  BY <1>1
<1>3. PICK rest \in Todo : rest = Tail(todo)
  BY TodoHead
<1>4. PICK more : more = past \cup {id}
  OBVIOUS
<1>5. "leave" # "enter" /\ id \in Id /\ past \subseteq more /\ id \in more
  BY <1>4 DEF WellFormed
<1>6. \A y \in Below(g, id) : <<"enter", y>> \in ToSet(new)
  BY <1>1, <1>2
<1>7. id \in AtomsOf(g) => <<"leave", id>> \in ToSet(new)
  BY <1>1, <1>2 DEF AtomsOf
<1>8. ASSUME NEW k \in DOMAIN (new \o rest)
      PROVE  TidyAt(g, more, out, (new \o rest)[k], Before(new \o rest, k))
  <2>1. PICK e, B : e = (new \o rest)[k] /\ B = Before(new \o rest, k)
    OBVIOUS
  <2>2. \/ k \in DOMAIN new /\ e = new[k] /\ B = Before(new, k)
        \/ /\ k - Len(new) \in DOMAIN rest /\ e = rest[k - Len(new)]
           /\ B = ToSet(new) \cup Before(rest, k - Len(new))
    BY <2>1, BeforeJoined
  <2>3. CASE k \in DOMAIN new /\ e = new[k] /\ B = Before(new, k)
    <3>1. /\ e[2] = id \/ e[2] \in Below(g, id)
          /\ e[1] = "leave" => e[2] = id /\ \A y \in Below(g, id) : <<"enter", y>> \in B
      <4>1. \/ \E y \in Below(g, id) : e = <<"enter", y>>
            \/ e = <<"leave", id>> /\ \A y \in Below(g, id) : <<"enter", y>> \in B
        BY <1>2, <2>3, OpenedAt
      <4>2. QED BY <4>1, <1>5
    <3>2. PICK one \in SUBSET Id : one = {id}
      BY <1>5
    <3>3. e[2] \in Reach(g, one)
      <4>1. one \subseteq Reach(g, one) /\ \A x \in Reach(g, one) : Below(g, x) \subseteq Reach(g, one)
        BY ReachGrows
      <4>2. QED BY <4>1, <3>1, <3>2
    <3>4. ASSUME NEW v \in past PROVE Behind(g, more, out, B, v) \/ e[2] \in Reach(g, {v})
      <4>1. 1 \in DOMAIN todo /\ todo[1] = <<"enter", id>>
        <5>1. Len(todo) \in Nat \ {0} /\ Head(todo) = todo[1]
          BY DEF Todo
        <5>2. QED BY <5>1
      <4>2. TidyAt(g, past, out, <<"enter", id>>, Before(todo, 1))
        BY <4>1 DEF Tidy
      <4>3. Before(todo, 1) = {}
        BY DEF Before
      <4>4. Behind(g, past, out, {}, v) \/ id \in Reach(g, {v})
        BY <4>2, <4>3 DEF TidyAt
      <4>5. CASE Behind(g, past, out, {}, v)
        BY <4>5, <1>5 DEF Behind
      <4>6. CASE id \in Reach(g, {v})
        <5>1. PICK V \in SUBSET Id : V = {v}
          OBVIOUS
        <5>2. Reach(g, {id}) \subseteq Reach(g, V)
          BY <5>1, <4>6, ReachIn
        <5>3. QED BY <5>1, <5>2, <3>2, <3>3
      <4>7. QED BY <4>4, <4>5, <4>6
    <3>5. e[2] \in Reach(g, {id})
      BY <3>2, <3>3
    <3>6. QED BY <2>1, <3>1, <3>4, <3>5, <1>4 DEF TidyAt
  <2>4. CASE /\ k - Len(new) \in DOMAIN rest /\ e = rest[k - Len(new)]
             /\ B = ToSet(new) \cup Before(rest, k - Len(new))
    <3>1. PICK j \in DOMAIN Tail(todo) : j = k - Len(new)
      BY <2>4, <1>3
    <3>2. /\ j + 1 \in DOMAIN todo /\ Tail(todo)[j] = todo[j + 1]
          /\ Before(todo, j + 1) = {Head(todo)} \cup Before(Tail(todo), j)
      BY BeforeTail
    <3>3. PICK A : A = Before(todo, j + 1)
      OBVIOUS
    <3>4. TidyAt(g, past, out, e, A)
      BY <1>3, <2>4, <3>1, <3>2, <3>3 DEF Tidy
    <3>5. A = {<<"enter", id>>} \cup Before(rest, j) /\ Before(rest, j) \subseteq B
      BY <1>3, <2>4, <3>1, <3>2, <3>3
    <3>6. \A y : <<"enter", y>> \in A => y \in more \/ <<"enter", y>> \in B
      BY <3>5, <1>5
    <3>7. \A y : <<"leave", y>> \in A => <<"leave", y>> \in B
      BY <3>5, <1>5
    <3>8. \A v \in more \ past : Behind(g, more, out, B, v)
      BY <1>4, <1>6, <1>7, <2>4 DEF Behind
    <3>9. TidyAt(g, more, out, e, B)
      BY <3>4, <3>6, <3>7, <3>8, <1>5, TidyLess
    <3>10. QED BY <2>1, <3>9
  <2>5. QED BY <2>2, <2>3, <2>4
<1>9. QED BY <1>2, <1>3, <1>4, <1>8 DEF Tidy

(* When a concept is left, all atoms below it are done. *)
LEMMA TidyHead ==
    ASSUME NEW g, WellFormed(g), Acyclic(g), NEW todo \in Todo, todo # <<>>,
           NEW id \in Id, Head(todo) = <<"leave", id>>,
           NEW past \in SUBSET Id, NEW out, Tidy(g, todo, past, out)
    PROVE  Reach(g, Below(g, id)) \cap AtomsOf(g) \subseteq out
<1>1. PICK below \in SUBSET Id : below = Below(g, id)
  BY BelowIds
<1>2. PICK R \in SUBSET Id : R = Reach(g, below)
  BY ReachGrows
<1>3. /\ below \subseteq R /\ \A v \in R : Below(g, v) \subseteq R
      /\ \A S \in SUBSET Id :
           below \subseteq S /\ (\A v \in S : Below(g, v) \subseteq S) => R \subseteq S
  BY <1>2, ReachGrows
<1>4. TidyAt(g, past, out, <<"leave", id>>, {})
  <2>1. 1 \in DOMAIN todo /\ todo[1] = <<"leave", id>>
    <3>1. Len(todo) \in Nat \ {0} /\ Head(todo) = todo[1]
      BY DEF Todo
    <3>2. QED BY <3>1
  <2>2. Before(todo, 1) = {}
    BY DEF Before
  <2>3. QED BY <2>1, <2>2 DEF Tidy
<1>5. below \subseteq past
  BY <1>1, <1>4 DEF TidyAt
<1>6. id \notin R
  <2>1. CASE id \in g.ids
    BY <2>1, <1>1, <1>2 DEF Acyclic
  <2>2. CASE id \notin g.ids
    <3>1. below = {}
      BY <2>2, <1>1 DEF Below
    <3>2. R \subseteq {}
      BY <3>1, <1>3
    <3>3. QED BY <3>2
  <2>3. QED BY <2>1, <2>2
<1>7. ASSUME NEW v \in R, v \in past PROVE Behind(g, past, out, {}, v)
  <2>1. Reach(g, {v}) \subseteq R
    BY <1>2, ReachIn
  <2>2. id \notin Reach(g, {v})
    BY <2>1, <1>6
  <2>3. QED BY <2>2, <1>4, <1>7 DEF TidyAt
<1>8. R \subseteq R \cap past
  <2>1. \A v \in R \cap past : Below(g, v) \subseteq R \cap past
    BY <1>3, <1>7 DEF Behind
  <2>2. below \subseteq R \cap past
    BY <1>3, <1>5
  <2>3. QED BY <2>1, <2>2, <1>3
<1>9. ASSUME NEW a \in R, a \in AtomsOf(g) PROVE a \in out
  <2>1. Behind(g, past, out, {}, a)
    BY <1>7, <1>8
  <2>2. QED BY <2>1, <1>9 DEF Behind
<1>10. QED BY <1>1, <1>2, <1>9

(* Everything an atom of s rests on is in out or comes before it. *)
InOrder(g, s, out) ==
    \A i \in DOMAIN s : \A b \in Reach(g, Below(g, s[i])) \cap AtomsOf(g) :
        b \in out \/ \E j \in 1 .. i - 1 : s[j] = b

LEMMA OrderLonger ==
    ASSUME NEW g, NEW s \in Seq(Id), NEW out, NEW id \in Id, InOrder(g, s, out \cup {id}),
           Reach(g, Below(g, id)) \cap AtomsOf(g) \subseteq out
    PROVE  InOrder(g, <<id>> \o s, out)
<1>1. PICK t \in Seq(Id) : t = <<id>> \o s
  <2>1. <<id>> \in Seq(Id)
    OBVIOUS
  <2>2. <<id>> \o s \in Seq(Id)
    BY <2>1
  <2>3. QED BY <2>2
<1>2. /\ Len(t) = Len(s) + 1 /\ Len(s) \in Nat /\ DOMAIN t = 1 .. Len(s) + 1 /\ DOMAIN s = 1 .. Len(s)
      /\ t[1] = id /\ \A i \in 1 .. Len(s) : t[i + 1] = s[i]
  BY <1>1
<1>3. ASSUME NEW i \in DOMAIN t, NEW b \in Reach(g, Below(g, t[i])) \cap AtomsOf(g), b \notin out
      PROVE  \E j \in 1 .. i - 1 : t[j] = b
  <2>1. i # 1
    BY <1>2, <1>3
  <2>2. PICK k \in 1 .. Len(s) : i = k + 1
    <3>1. i - 1 \in 1 .. Len(s) /\ i = (i - 1) + 1
      BY <1>2, <2>1
    <3>2. QED BY <3>1
  <2>3. t[i] = s[k]
    BY <1>2, <2>2
  <2>4. b \in out \cup {id} \/ \E j \in 1 .. k - 1 : s[j] = b
    BY <1>2, <1>3, <2>2, <2>3 DEF InOrder
  <2>5. CASE b = id
    <3>1. 1 \in 1 .. i - 1
      BY <2>2
    <3>2. QED BY <3>1, <2>5, <1>2
  <2>6. CASE b # id
    <3>1. PICK j \in 1 .. k - 1 : s[j] = b
      BY <2>4, <2>6, <1>3
    <3>2. j + 1 \in 1 .. i - 1 /\ t[j + 1] = b
      BY <3>1, <1>2, <2>2
    <3>3. QED BY <3>2
  <2>7. QED BY <2>5, <2>6
<1>4. InOrder(g, t, out)
  BY <1>3 DEF InOrder
<1>5. QED BY <1>1, <1>4

LEMMA WalkOrders ==
    ASSUME NEW g, WellFormed(g), Acyclic(g), NEW walk, Walks(walk, g)
    PROVE  \A at \in Todo \X SUBSET Id : \A out \in SUBSET Id :
              Tidy(g, at[1], at[2], out) => InOrder(g, walk[at], out)
<1> DEFINE D == Todo \X SUBSET Id
           Good(todo, past, s) == \A out \in SUBSET Id : Tidy(g, todo, past, out) => InOrder(g, s, out)
           T == {at \in D : Good(at[1], at[2], walk[at])}
<1>1. \A todo \in Todo, past \in SUBSET Id :
         <<todo, past>> \in T <=> Good(todo, past, walk[<<todo, past>>])
  <2> HIDE DEF Good
  <2>1. QED OBVIOUS
<1>2. ASSUME NEW past \in SUBSET Id PROVE Good(<<>>, past, walk[<<<<>>, past>>])
  <2>1. <<<<>>, past>> \in Walked
    BY EmptyList DEF Walked, Todo
  <2>2. walk[<<<<>>, past>>] = <<>>
    BY <2>1, Zenon DEF Walks
  <2>3. \A out : InOrder(g, <<>>, out)
    BY DEF InOrder
  <2>4. QED BY <2>2, <2>3
<1>3. ASSUME NEW todo \in Todo, NEW past \in SUBSET Id, todo # <<>>, Go(g)[<<todo, past>>] \in T
      PROVE  Good(todo, past, walk[<<todo, past>>])
  <2>1. PICK id : id = Head(todo)[2]
    OBVIOUS
  <2>2. PICK on : on = Go(g)[<<todo, past>>]
    OBVIOUS
  <2>3. /\ Head(todo)[1] \in {"enter", "leave"} /\ id \in Id /\ Tail(todo) \in Todo
        /\ Head(todo) = <<Head(todo)[1], id>>
    BY <1>3, <2>1, TodoHead
  <2>4. on \in T
    BY <1>3, <2>2
  <2>5. past \cup {id} \in SUBSET Id
    BY <2>3
  <2>6. Follows(walk, g, todo, past, id)
    BY <1>3, <2>1, WalkGoes
  <2>7. SUFFICES ASSUME NEW out \in SUBSET Id, Tidy(g, todo, past, out)
                 PROVE  InOrder(g, walk[<<todo, past>>], out)
    OBVIOUS
  <2>8. CASE Head(todo)[1] = "leave"
    <3>1. on = <<Tail(todo), past>>
      BY <1>3, <2>1, <2>2, <2>8, GoesTo
    <3>2. PICK s : s = walk[<<Tail(todo), past>>]
      OBVIOUS
    <3>3. Good(Tail(todo), past, s)
      <4> HIDE DEF Good, T
      <4>1. QED BY <3>1, <3>2, <2>3, <2>4, <1>1
    <3>4. walk[<<todo, past>>] = <<id>> \o s
      <4>1. walk[<<todo, past>>] = <<id>> \o walk[<<Tail(todo), past>>]
        BY <2>8, <2>6, Zenon DEF Follows
      <4>2. QED BY <3>2, <4>1
    <3>5. s \in Seq(Id)
      <4>1. PICK at \in D : at = <<Tail(todo), past>>
        BY <2>3
      <4>2. walk[at] \in Seq(Id)
        BY <4>1, WalkYields
      <4>3. QED BY <3>2, <4>1, <4>2
    <3>6. PICK more \in SUBSET Id : more = out \cup {id}
      BY <2>3
    <3>7. Tidy(g, Tail(todo), past, more)
      <4>1. Tidy(g, Tail(todo), past, out \cup {id})
        BY <1>3, <2>1, <2>7, <2>8, TidyTail
      <4>2. QED BY <3>6, <4>1
    <3>8. InOrder(g, s, out \cup {id})
      BY <3>3, <3>6, <3>7
    <3>9. Reach(g, Below(g, id)) \cap AtomsOf(g) \subseteq out
      BY <1>3, <2>3, <2>7, <2>8, TidyHead
    <3>10. InOrder(g, <<id>> \o s, out)
      BY <3>5, <3>8, <3>9, <2>3, OrderLonger
    <3>11. QED BY <3>4, <3>10
  <2>9. CASE Head(todo)[1] = "enter" /\ (id \in past \/ id \notin g.ids)
    <3>1. on = <<Tail(todo), past \cup {id}>>
      BY <1>3, <2>1, <2>2, <2>9, GoesTo
    <3>2. PICK s : s = walk[<<Tail(todo), past \cup {id}>>]
      OBVIOUS
    <3>3. Good(Tail(todo), past \cup {id}, s)
      <4> HIDE DEF Good, T
      <4>1. QED BY <3>1, <3>2, <2>3, <2>5, <2>4, <1>1
    <3>4. walk[<<todo, past>>] = s
      <4>1. walk[<<todo, past>>] = walk[<<Tail(todo), past \cup {id}>>]
        BY <2>9, <2>6, Zenon DEF Follows
      <4>2. QED BY <3>2, <4>1
    <3>5. Tidy(g, Tail(todo), past \cup {id}, out)
      BY <1>3, <2>1, <2>7, <2>9, TidyTail
    <3>6. QED BY <3>3, <3>4, <3>5
  <2>10. CASE Head(todo)[1] = "enter" /\ ~(id \in past \/ id \notin g.ids)
    <3>1. on = <<Opened(g, id) \o Tail(todo), past \cup {id}>>
      BY <1>3, <2>1, <2>2, <2>10, GoesTo, SMTT(30)
    <3>2. PICK s : s = walk[<<Opened(g, id) \o Tail(todo), past \cup {id}>>]
      OBVIOUS
    <3>3. Opened(g, id) \o Tail(todo) \in Todo
      <4>1. Opened(g, id) \in Todo
        BY <2>10, OpenedIs
      <4>2. QED BY <4>1, <2>3 DEF Todo
    <3>4. Good(Opened(g, id) \o Tail(todo), past \cup {id}, s)
      <4> HIDE DEF Good, T
      <4>1. QED BY <3>1, <3>2, <3>3, <2>5, <2>4, <1>1
    <3>5. walk[<<todo, past>>] = s
      <4>1. walk[<<todo, past>>] = walk[<<Opened(g, id) \o Tail(todo), past \cup {id}>>]
        BY <2>10, <2>6, Zenon DEF Follows
      <4>2. QED BY <3>2, <4>1
    <3>6. Head(todo) = <<"enter", id>>
      BY <2>3, <2>10
    <3>7. Tidy(g, Opened(g, id) \o Tail(todo), past \cup {id}, out)
      BY <1>3, <2>7, <2>10, <3>6, TidyOpened
    <3>8. QED BY <3>4, <3>5, <3>7
  <2>11. QED BY <2>3, <2>8, <2>9, <2>10
<1>4. \A at \in D : (at \in Walked \/ Go(g)[at] \in T) => at \in T
  <2>1. ASSUME NEW at \in D, at \in Walked \/ Go(g)[at] \in T PROVE at \in T
    <3>1. PICK todo \in Todo, past \in SUBSET Id : at = <<todo, past>>
      OBVIOUS
    <3> HIDE DEF T, Good
    <3>2. CASE todo = <<>>
      BY <3>1, <3>2, <1>1, <1>2
    <3>3. CASE todo # <<>>
      <4>1. Go(g)[<<todo, past>>] \in T
        BY <2>1, <3>1, <3>3 DEF Walked
      <4>2. QED BY <3>1, <3>3, <4>1, <1>1, <1>3
    <3>4. QED BY <3>2, <3>3
  <2>2. QED BY <2>1
<1>5. \A at \in D : at \in T
  <2> HIDE DEF T
  <2>1. QED BY <1>4, WalkEnds, AlongRecursion
<1>6. QED BY <1>5

(* The depth-first walk acts on an atom after all the atoms it rests on,   *)
(* in a graph without a cycle.                                             *)
LEMMA WalkInOrder ==
    ASSUME NEW g, WellFormed(g), Acyclic(g), NEW roots \in Seq(Id)
    PROVE  InOrder(g, PostOrder(g, roots), {})
<1>1. PICK walk : Walks(walk, g) /\ \A r : PostOrder(g, r) = walk[<<Enter(r), {}>>]
  BY WalkSteps
<1>2. Enter(roots) \in Todo /\ ToSet(Enter(roots)) = {<<"enter", id>> : id \in ToSet(roots)}
  BY Entered
<1>3. Tidy(g, Enter(roots), {}, {})
  <2>1. ASSUME NEW k \in DOMAIN Enter(roots) PROVE Enter(roots)[k][1] # "leave"
    BY DEF Enter
  <2>2. QED BY <2>1 DEF Tidy, TidyAt
<1>4. PICK at \in Todo \X SUBSET Id : at = <<Enter(roots), {}>>
  BY <1>2
<1>5. InOrder(g, walk[at], {})
  <2>1. at[1] = Enter(roots) /\ at[2] = {} /\ {} \in SUBSET Id
    BY <1>4
  <2>2. Tidy(g, at[1], at[2], {})
    BY <2>1, <1>3
  <2>3. QED BY <2>1, <2>2, <1>1, WalkOrders
<1>6. QED BY <1>1, <1>4, <1>5

-----------------------------------------------------------------------------
(* The graph under the overlay. *)

(* A finite set can be listed in the order of a numbering of its elements. *)
LEMMA SortedList ==
    ASSUME NEW U, NEW key \in [U -> Nat], \A x, y \in U : key[x] = key[y] => x = y,
           NEW S \in SUBSET U, IsFiniteSet(S)
    PROVE  \E list \in [1 .. Cardinality(S) -> S] :
              \A i, j \in DOMAIN list : i < j => key[list[i]] < key[list[j]]
<1> DEFINE Sorted(R, n) == \E list \in [1 .. n -> R] :
                              \A i, j \in 1 .. n : i < j => key[list[i]] < key[list[j]]
           T == {n \in Nat : \A R \in SUBSET U : IsFiniteSet(R) /\ Cardinality(R) = n => Sorted(R, n)}
<1>1. 0 \in T
  <2>1. ASSUME NEW R \in SUBSET U PROVE Sorted(R, 0)
    <3>1. PICK none : none = [i \in 1 .. 0 |-> 0]
      OBVIOUS
    <3>2. 1 .. 0 = {}
      OBVIOUS
    <3>3. none \in [1 .. 0 -> R]
      BY <3>1, <3>2
    <3>4. QED BY <3>2, <3>3
  <2>2. QED BY <2>1
<1>2. ASSUME NEW n \in Nat, n \in T PROVE n + 1 \in T
  <2>1. SUFFICES ASSUME NEW R \in SUBSET U, IsFiniteSet(R), Cardinality(R) = n + 1
                 PROVE  Sorted(R, n + 1)
    OBVIOUS
  <2>2. PICK least \in R : \A x \in R : key[least] <= key[x]
    <3> DEFINE Keys == {key[x] : x \in R}
    <3>1. R # {}
      BY <2>1, FS_EmptySet
    <3>2. Keys \in SUBSET Nat /\ Keys # {}
      BY <3>1
    <3> HIDE DEF Keys
    <3>3. PICK k \in Keys : \A y \in Keys : k <= y
      BY <3>2, LeastNat
    <3>4. QED BY <3>3 DEF Keys
  <2>3. PICK rest \in SUBSET U : rest = R \ {least}
    OBVIOUS
  <2>4. IsFiniteSet(rest) /\ Cardinality(rest) = n
    <3>1. IsFiniteSet(R \ {least}) /\ Cardinality(R \ {least}) = Cardinality(R) - 1
      BY <2>1, FS_RemoveElement
    <3>2. QED BY <2>1, <2>3, <3>1
  <2>5. Sorted(rest, n)
    BY <1>2, <2>4
  <2>6. PICK f \in [1 .. n -> rest] : \A i, j \in 1 .. n : i < j => key[f[i]] < key[f[j]]
    BY <2>5
  <2>7. \A i \in 1 .. n : key[least] < key[f[i]]
    <3>1. ASSUME NEW i \in 1 .. n PROVE key[least] < key[f[i]]
      <4>1. f[i] \in R /\ f[i] # least /\ f[i] \in U /\ least \in U
        BY <2>3, <2>6
      <4>2. key[least] <= key[f[i]] /\ key[least] # key[f[i]]
        BY <2>2, <4>1
      <4>3. key[least] \in Nat /\ key[f[i]] \in Nat
        BY <4>1
      <4>4. QED BY <4>2, <4>3
    <3>2. QED BY <3>1
  <2> DEFINE list == [i \in 1 .. n + 1 |-> IF i = 1 THEN least ELSE f[i - 1]]
  <2>8. list \in [1 .. n + 1 -> R]
    <3>1. ASSUME NEW i \in 1 .. n + 1 PROVE (IF i = 1 THEN least ELSE f[i - 1]) \in R
      <4>1. i # 1 => i - 1 \in 1 .. n
        OBVIOUS
      <4>2. QED BY <4>1, <2>3, <2>6
    <3>2. QED BY <3>1
  <2>9. ASSUME NEW i \in 1 .. n + 1, NEW j \in 1 .. n + 1, i < j PROVE key[list[i]] < key[list[j]]
    <3>1. j # 1 /\ j - 1 \in 1 .. n /\ list[j] = f[j - 1]
      BY <2>9
    <3>2. CASE i = 1
      <4>1. list[i] = least
        BY <3>2
      <4> HIDE DEF list
      <4>2. QED BY <3>1, <4>1, <2>7
    <3>3. CASE i # 1
      <4>1. i - 1 \in 1 .. n /\ i - 1 < j - 1 /\ list[i] = f[i - 1]
        BY <3>3, <2>9
      <4> HIDE DEF list
      <4>2. QED BY <3>1, <4>1, <2>6
    <3>4. QED BY <3>2, <3>3
  <2> HIDE DEF list
  <2>10. QED BY <2>8, <2>9
<1> HIDE DEF Sorted, T
<1>3. \A n \in Nat : n \in T
  BY <1>1, <1>2, NaturalsIn
<1>4. Sorted(S, Cardinality(S))
  <2>1. Cardinality(S) \in Nat
    BY FS_CardinalityType
  <2>2. QED BY <2>1, <1>3 DEF T
<1>5. PICK n \in Nat : n = Cardinality(S)
  BY FS_CardinalityType
<1>6. QED BY <1>4, <1>5 DEF Sorted

(* The order of text is one of numbers: "1", "10", .., "19", "2", .. *)
TextKey(n) == IF n < 10 THEN 100 * n ELSE 10 * n + 1

LEMMA LexIs ==
    ASSUME NEW m \in 1 .. 99, NEW n \in 1 .. 99
    PROVE  /\ LexBefore(m, n) <=> TextKey(m) < TextKey(n)
           /\ TextKey(m) \in Nat
           /\ TextKey(m) = TextKey(n) => m = n
BY DEF LexBefore, TextKey

(* The quizzes of an atom, and what an overlay says of quizzes. *)
QuizzesOf(id) == [id : {id} \X (1 .. MaxQuiz), difficulty : Difficulty]
Overlays == [QuizId -> Difficulty \cup {NoQuiz}]

TextOrder(new) == CHOOSE list \in [1 .. Cardinality(new) -> new] :
                     \A i, j \in DOMAIN list : i < j => LexBefore(list[i][2], list[j][2])
Entries(inOrder, overlay) ==
    [i \in DOMAIN inOrder |-> [id |-> inOrder[i], difficulty |-> overlay[inOrder[i]]]]

(* The authored quizzes of an atom can be put in the order of their ids. *)
LEMMA AuthoredList ==
    ASSUME NEW id \in Id, NEW overlay \in Overlays,
           NEW new \in SUBSET {quiz \in QuizId : AtomOf(quiz) = id /\ overlay[quiz] # NoQuiz},
           NEW inOrder, inOrder = TextOrder(new)
    PROVE  /\ inOrder \in Seq(new) /\ ToSet(inOrder) = new
           /\ \A i, j \in DOMAIN inOrder : i < j => LexBefore(inOrder[i][2], inOrder[j][2])
           /\ Entries(inOrder, overlay) \in Seq(QuizzesOf(id))
<1> DEFINE U == {id} \X (1 .. MaxQuiz)
           key == [quiz \in U |-> TextKey(quiz[2])]
<1>1. MaxQuiz \in 1 .. 99
  BY CurriculumAssumption
<1>2. new \in SUBSET U
  <2>1. ASSUME NEW quiz \in new PROVE quiz \in U
    <3>1. quiz \in Id \X (1 .. MaxQuiz) /\ quiz[1] = id
      BY DEF QuizId, AtomOf
    <3>2. QED BY <3>1
  <2>2. QED BY <2>1
<1>3. \A quiz \in U : quiz[2] \in 1 .. MaxQuiz /\ quiz[2] \in 1 .. 99 /\ quiz = <<id, quiz[2]>>
  <2>1. ASSUME NEW quiz \in U
        PROVE  quiz[2] \in 1 .. MaxQuiz /\ quiz = <<id, quiz[2]>>
    OBVIOUS
  <2>2. \A n \in 1 .. MaxQuiz : n \in 1 .. 99
    BY <1>1
  <2>3. QED BY <2>1, <2>2
<1>4. key \in [U -> Nat] /\ \A x, y \in U : key[x] = key[y] => x = y
  <2>1. \A quiz \in U : TextKey(quiz[2]) \in Nat
    BY <1>3, LexIs, ZenonT(40)
  <2>2. ASSUME NEW x \in U, NEW y \in U, key[x] = key[y] PROVE x = y
    <3>1. x[2] = y[2]
      BY <2>2, <1>3, LexIs
    <3>2. QED BY <3>1, <1>3
  <2>3. QED BY <2>1, <2>2, SMTT(30)
<1>5. IsFiniteSet(new)
  <2>1. IsFiniteSet(U)
    <3>1. IsFiniteSet({id})
      BY FS_Singleton
    <3>2. IsFiniteSet(1 .. MaxQuiz)
      <4>1. MaxQuiz \in Int /\ 1 \in Int
        BY <1>1
      <4>2. QED BY <4>1, FS_Interval
    <3>3. QED BY <3>1, <3>2, FS_Product
  <2> HIDE DEF U
  <2>2. QED BY <2>1, <1>2, FS_Subset
<1>6. \E list \in [1 .. Cardinality(new) -> new] :
         \A i, j \in DOMAIN list : i < j => key[list[i]] < key[list[j]]
  <2> HIDE DEF U, key
  <2>1. QED BY <1>2, <1>4, <1>5, SortedList
<1>7. \E list \in [1 .. Cardinality(new) -> new] :
         \A i, j \in DOMAIN list : i < j => LexBefore(list[i][2], list[j][2])
  <2>1. PICK list \in [1 .. Cardinality(new) -> new] :
              \A i, j \in DOMAIN list : i < j => key[list[i]] < key[list[j]]
    BY <1>6
  <2>2. ASSUME NEW i \in DOMAIN list, NEW j \in DOMAIN list, i < j
        PROVE  LexBefore(list[i][2], list[j][2])
    <3>1. list[i] \in U /\ list[j] \in U
      BY <1>2
    <3>2. key[list[i]] < key[list[j]]
      BY <2>1, <2>2
    <3>3. TextKey(list[i][2]) < TextKey(list[j][2])
      BY <3>1, <3>2
    <3>4. list[i][2] \in 1 .. 99 /\ list[j][2] \in 1 .. 99
      BY <3>1, <1>3
    <3>5. QED BY <3>3, <3>4, LexIs
  <2>3. QED BY <2>2
<1>8. /\ inOrder \in [1 .. Cardinality(new) -> new]
      /\ \A i, j \in DOMAIN inOrder : i < j => LexBefore(inOrder[i][2], inOrder[j][2])
  BY <1>7 DEF TextOrder
<1>9. Cardinality(new) \in Nat
  BY <1>5, FS_CardinalityType
<1>10. ASSUME NEW i \in DOMAIN inOrder
       PROVE  [id |-> inOrder[i], difficulty |-> overlay[inOrder[i]]] \in QuizzesOf(id)
  <2>1. inOrder[i] \in new
    BY <1>8
  <2>2. inOrder[i] \in {id} \X (1 .. MaxQuiz) /\ overlay[inOrder[i]] \in Difficulty
    BY <2>1, <1>2 DEF Overlays
  <2>3. QED BY <2>2 DEF QuizzesOf
<1>11. PICK n \in Nat : DOMAIN inOrder = 1 .. n
  BY <1>8, <1>9
<1>12. Entries(inOrder, overlay) \in Seq(QuizzesOf(id))
  <2>1. Entries(inOrder, overlay) \in [1 .. n -> QuizzesOf(id)]
    BY <1>10, <1>11 DEF Entries
  <2>2. QED BY <2>1
<1>13. inOrder \in Seq(new)
  BY <1>8, <1>9
<1>14. ASSUME NEW i \in DOMAIN inOrder, NEW j \in DOMAIN inOrder, i < j
       PROVE  inOrder[i] # inOrder[j]
  <2>1. inOrder[i] \in U /\ inOrder[j] \in U
    BY <1>2, <1>8
  <2>2. TextKey(inOrder[i][2]) < TextKey(inOrder[j][2])
    <3>1. inOrder[i][2] \in 1 .. 99 /\ inOrder[j][2] \in 1 .. 99
      BY <2>1, <1>3
    <3>2. LexBefore(inOrder[i][2], inOrder[j][2])
      BY <1>8, <1>14, SMTT(30)
    <3>3. QED BY <3>1, <3>2, LexIs
  <2>3. TextKey(inOrder[i][2]) \in Nat
    BY <2>1, <1>3, LexIs
  <2>4. QED BY <2>2, <2>3
<1>15. ToSet(inOrder) = new
  <2>1. PICK D : D = 1 .. Cardinality(new)
    OBVIOUS
  <2>2. \A i, j \in D : inOrder[i] = inOrder[j] => i = j
    BY <1>8, <1>9, <1>14, <2>1
  <2>3. inOrder \in Injection(D, new)
    BY <1>8, <2>1, <2>2 DEF Injection, IsInjective
  <2>4. Cardinality(D) = Cardinality(new)
    BY <1>9, <2>1, FS_Interval
  <2>5. inOrder \in Surjection(D, new)
    BY <1>5, <2>3, <2>4, FS_Injection
  <2>6. \A quiz \in new : \E i \in DOMAIN inOrder : inOrder[i] = quiz
    BY <1>8, <2>1, <2>5 DEF Surjection
  <2>7. QED BY <1>8, <2>6 DEF ToSet
<1>16. QED BY <1>8, <1>12, <1>13, <1>15

(* The quizzes of an atom before the tombstones: those shipped, under      *)
(* their amendments, then those authored.                                  *)
Amended(overlay, quiz) ==
    IF overlay[quiz.id] = NoQuiz THEN quiz ELSE [quiz EXCEPT !.difficulty = overlay[quiz.id]]
ShippedList(g, overlay, id) == [i \in DOMAIN g.quizzes[id] |-> Amended(overlay, g.quizzes[id][i])]
NewRows(g, overlay, id) ==
    {quiz \in QuizId : /\ AtomOf(quiz) = id /\ overlay[quiz] # NoQuiz
                       /\ quiz \notin QuizIdsOf(g, id)}
NewList(g, overlay, id) == Entries(TextOrder(NewRows(g, overlay, id)), overlay)
Present(removed) == [id : QuizId \ removed, difficulty : Difficulty]

Merges(g, overlay, removed, m, id) ==
    /\ ShippedList(g, overlay, id) \in Seq(QuizzesOf(id))
    /\ NewList(g, overlay, id) \in Seq(QuizzesOf(id))
    /\ m.quizzes[id] = Only(ShippedList(g, overlay, id) \o NewList(g, overlay, id), Present(removed))

AllMerge(g, overlay, removed, m) == \A id \in g.ids : Merges(g, overlay, removed, m, id)

LEMMA ListsMerged ==
    ASSUME NEW g, WellFormed(g), NEW overlay \in Overlays, NEW id \in g.ids
    PROVE  /\ ShippedList(g, overlay, id) \in Seq(QuizzesOf(id))
           /\ NewList(g, overlay, id) \in Seq(QuizzesOf(id))
<1>1. ShippedList(g, overlay, id) \in Seq(QuizzesOf(id))
  <2>1. PICK s \in Seq(QuizzesOf(id)) : s = g.quizzes[id]
    BY DEF WellFormed, QuizzesOf
  <2>2. ASSUME NEW i \in DOMAIN s PROVE Amended(overlay, s[i]) \in QuizzesOf(id)
    <3>1. s[i] \in QuizzesOf(id)
      OBVIOUS
    <3>2. s[i].id \in QuizId
      BY <3>1 DEF QuizzesOf, QuizId, WellFormed
    <3>3. overlay[s[i].id] \in Difficulty \cup {NoQuiz}
      BY <3>2 DEF Overlays
    <3>4. QED BY <3>1, <3>3 DEF QuizzesOf, Amended
  <2>3. DOMAIN s = 1 .. Len(s) /\ Len(s) \in Nat
    OBVIOUS
  <2>4. [i \in DOMAIN s |-> Amended(overlay, s[i])] \in Seq(QuizzesOf(id))
    BY <2>2, <2>3
  <2>5. QED BY <2>1, <2>4 DEF ShippedList
<1>2. NewList(g, overlay, id) \in Seq(QuizzesOf(id))
  <2>1. PICK new : new = NewRows(g, overlay, id)
    OBVIOUS
  <2>2. id \in Id /\ new \in SUBSET {quiz \in QuizId : AtomOf(quiz) = id /\ overlay[quiz] # NoQuiz}
    BY <2>1 DEF WellFormed, NewRows
  <2>3. PICK inOrder : inOrder = TextOrder(new)
    OBVIOUS
  <2>4. Entries(inOrder, overlay) \in Seq(QuizzesOf(id))
    BY <2>2, <2>3, AuthoredList
  <2>5. QED BY <2>1, <2>3, <2>4 DEF NewList
<1>3. QED BY <1>1, <1>2

(* The overlay changes lessons and quizzes only; the quizzes of an atom    *)
(* stay its own.                                                           *)
LEMMA MergedIs ==
    ASSUME NEW g, WellFormed(g), NEW lessons, NEW overlay \in Overlays, NEW removed,
           NEW m, m = WithOverlay(g, lessons, overlay, removed)
    PROVE  /\ m.ids = g.ids /\ m.prereqs = g.prereqs /\ m.children = g.children
           /\ m.lesson = g.lesson \cup (lessons \cap g.ids)
           /\ WellFormed(m)
<1> DEFINE quizzes == [id \in g.ids |-> Only(ShippedList(g, overlay, id) \o NewList(g, overlay, id),
                                             Present(removed))]
<1>1. m = [g EXCEPT !.lesson = @ \cup (lessons \cap g.ids), !.quizzes = quizzes]
  BY DEF WithOverlay, ShippedList, Amended, NewList, NewRows, Entries, TextOrder, Present
<1>2. ASSUME NEW id \in g.ids PROVE quizzes[id] \in Seq(QuizzesOf(id))
  <2>1. PICK s \in Seq(QuizzesOf(id)) : s = ShippedList(g, overlay, id) \o NewList(g, overlay, id)
    <3>1. \A u, v \in Seq(QuizzesOf(id)) : u \o v \in Seq(QuizzesOf(id))
      BY Joined
    <3>2. QED BY <3>1, ListsMerged, Zenon
  <2>2. Only(s, Present(removed)) \in Seq(QuizzesOf(id))
    BY OnlyKeeps
  <2>3. QED BY <2>1, <2>2
<1> HIDE DEF quizzes
<1>5. DOMAIN g = {"ids", "areas", "prereqs", "children", "lesson", "quizzes"}
  BY DEF WellFormed
<1>6. /\ m.ids = g.ids /\ m.areas = g.areas
      /\ m.prereqs = g.prereqs /\ m.children = g.children
      /\ m.lesson = g.lesson \cup (lessons \cap g.ids)
      /\ m.quizzes = quizzes
      /\ DOMAIN m = DOMAIN g
  BY <1>1, <1>5
<1>7. WellFormed(m)
  BY <1>2, <1>6 DEF WellFormed, QuizzesOf
<1>8. QED BY <1>6, <1>7

LEMMA MergedAreas ==
    ASSUME NEW g, WellFormed(g), NEW lessons, NEW overlay, NEW removed,
           NEW m, m = WithOverlay(g, lessons, overlay, removed)
    PROVE  m.areas = g.areas
<1>1. DOMAIN g = {"ids", "areas", "prereqs", "children", "lesson", "quizzes"}
  BY DEF WellFormed
<1>2. PICK quizzes : m = [g EXCEPT !.lesson = @ \cup (lessons \cap g.ids), !.quizzes = quizzes]
  BY DEF WithOverlay
<1>3. QED BY <1>1, <1>2

LEMMA MergedLists ==
    ASSUME NEW g, WellFormed(g), NEW lessons, NEW overlay \in Overlays, NEW removed,
           NEW m, m = WithOverlay(g, lessons, overlay, removed)
    PROVE  AllMerge(g, overlay, removed, m)
<1> DEFINE quizzes == [id \in g.ids |-> Only(ShippedList(g, overlay, id) \o NewList(g, overlay, id),
                                             Present(removed))]
<1>1. m = [g EXCEPT !.lesson = @ \cup (lessons \cap g.ids), !.quizzes = quizzes]
  BY DEF WithOverlay, ShippedList, Amended, NewList, NewRows, Entries, TextOrder, Present
<1>2. \A id \in g.ids : quizzes[id]
         = Only(ShippedList(g, overlay, id) \o NewList(g, overlay, id), Present(removed))
  OBVIOUS
<1> HIDE DEF quizzes
<1>3. m.quizzes = quizzes
  BY <1>1 DEF WellFormed
<1>4. QED BY <1>2, <1>3, ListsMerged DEF AllMerge, Merges

(* A quiz is live when it was shipped or authored and not deleted. *)
LEMMA LiveIs ==
    ASSUME NEW g, WellFormed(g), NEW overlay \in Overlays, NEW removed, NEW m,
           NEW id \in g.ids, Merges(g, overlay, removed, m, id), NEW quiz \in QuizId
    PROVE  quiz \in QuizIdsOf(m, id)
             <=> /\ AtomOf(quiz) = id /\ quiz \notin removed
                 /\ quiz \in QuizIdsOf(g, id) \/ overlay[quiz] # NoQuiz
<1>1. PICK s \in Seq(QuizzesOf(id)) : s = ShippedList(g, overlay, id)
  BY ListsMerged
<1>2. PICK new : new = NewRows(g, overlay, id)
  OBVIOUS
<1>3. PICK inOrder : inOrder = TextOrder(new)
  OBVIOUS
<1>4. id \in Id /\ new \in SUBSET {q \in QuizId : AtomOf(q) = id /\ overlay[q] # NoQuiz}
  BY <1>2 DEF WellFormed, NewRows
<1>5. inOrder \in Seq(new) /\ ToSet(inOrder) = new
  BY <1>3, <1>4, AuthoredList
<1>6. PICK t \in Seq(QuizzesOf(id)) : t = Entries(inOrder, overlay) /\ t = NewList(g, overlay, id)
  BY <1>2, <1>3, ListsMerged DEF NewList
<1>7. m.quizzes[id] = Only(s \o t, Present(removed))
  BY <1>1, <1>6 DEF Merges
<1>8. ToSet(m.quizzes[id]) = (ToSet(s) \cup ToSet(t)) \cap Present(removed)
  <2>1. s \o t \in Seq(QuizzesOf(id)) /\ ToSet(s \o t) = ToSet(s) \cup ToSet(t)
    BY Joined
  <2>2. PICK l \in Seq(QuizzesOf(id)) : l = s \o t
    BY <2>1
  <2>3. ToSet(Only(l, Present(removed))) = ToSet(l) \cap Present(removed)
    BY OnlyKeeps
  <2>4. QED BY <1>7, <2>1, <2>2, <2>3
<1>9. \A e \in QuizzesOf(id) : e \in Present(removed) <=> e.id \notin removed
  BY <1>4 DEF QuizzesOf, Present, QuizId
<1>10. \A e \in ToSet(s) \cup ToSet(t) : e \in QuizzesOf(id) /\ AtomOf(e.id) = id
  <2>1. ToSet(s) \cup ToSet(t) \subseteq QuizzesOf(id)
    BY InList
  <2>2. QED BY <2>1 DEF QuizzesOf, AtomOf
<1>11. (\E e \in ToSet(s) : e.id = quiz) <=> quiz \in QuizIdsOf(g, id)
  <2>1. PICK z \in Seq(QuizzesOf(id)) : z = g.quizzes[id]
    BY DEF WellFormed, QuizzesOf
  <2>2. DOMAIN s = DOMAIN z /\ \A i \in DOMAIN z : s[i] = Amended(overlay, z[i])
    BY <1>1, <2>1 DEF ShippedList
  <2>3. \A i \in DOMAIN z : s[i].id = z[i].id
    <3>1. ASSUME NEW e \in QuizzesOf(id) PROVE Amended(overlay, e).id = e.id
      BY DEF Amended, QuizzesOf
    <3>2. QED BY <2>2, <3>1
  <2>4. quiz \in QuizIdsOf(g, id) <=> \E i \in DOMAIN z : z[i].id = quiz
    BY <2>1 DEF QuizIdsOf, ToSet
  <2>5. (\E e \in ToSet(s) : e.id = quiz) <=> \E i \in DOMAIN s : s[i].id = quiz
    BY DEF ToSet
  <2>6. QED BY <2>2, <2>3, <2>4, <2>5
<1>12. (\E e \in ToSet(t) : e.id = quiz) <=> quiz \in new
  <2>1. DOMAIN t = DOMAIN inOrder /\ \A i \in DOMAIN inOrder : t[i].id = inOrder[i]
    BY <1>6 DEF Entries
  <2>2. (\E e \in ToSet(t) : e.id = quiz) <=> \E i \in DOMAIN t : t[i].id = quiz
    BY DEF ToSet
  <2>3. quiz \in ToSet(inOrder) <=> \E i \in DOMAIN inOrder : inOrder[i] = quiz
    BY DEF ToSet
  <2>4. QED BY <1>5, <2>1, <2>2, <2>3
<1>13. quiz \in QuizIdsOf(m, id)
         <=> \E e \in ToSet(s) \cup ToSet(t) : e.id = quiz /\ e.id \notin removed
  <2>1. quiz \in QuizIdsOf(m, id) <=> \E e \in ToSet(m.quizzes[id]) : e.id = quiz
    BY DEF QuizIdsOf
  <2>2. QED BY <1>8, <1>9, <1>10, <2>1
<1>14. quiz \in new <=> /\ AtomOf(quiz) = id /\ overlay[quiz] # NoQuiz
                        /\ quiz \notin QuizIdsOf(g, id)
  BY <1>2 DEF NewRows
<1>15. quiz \in QuizIdsOf(g, id) => AtomOf(quiz) = id
  BY <1>10, <1>11
<1>16. QED BY <1>11, <1>12, <1>13, <1>14, <1>15

-----------------------------------------------------------------------------
(* What `next` decides. *)

(* The quiz in a slot is a quiz of the atom. *)
LEMMA SlotIs ==
    ASSUME NEW g, WellFormed(g), NEW a \in g.ids, NEW d, SlotOf(g, a, d) # NoQuiz
    PROVE  Live(g, SlotOf(g, a, d)) /\ AtomOf(SlotOf(g, a, d)) = a
<1>1. PICK quizzes \in Seq(QuizzesOf(a)) : quizzes = g.quizzes[a]
  BY DEF WellFormed, QuizzesOf
<1>2. PICK holders : holders = {i \in DOMAIN quizzes : quizzes[i].difficulty = d}
  OBVIOUS
<1>3. SlotOf(g, a, d) = IF holders = {} THEN NoQuiz ELSE quizzes[Min(holders)].id
  BY <1>1, <1>2 DEF SlotOf
<1>4. holders # {} /\ holders \in SUBSET Nat
  BY <1>2, <1>3
<1>5. Min(holders) \in holders
  BY <1>4, MinIs
<1>6. PICK i \in DOMAIN quizzes : i = Min(holders)
  BY <1>2, <1>5
<1>7. SlotOf(g, a, d) = quizzes[i].id
  BY <1>3, <1>4, <1>6
<1>8. quizzes[i].id \in {a} \X (1 .. MaxQuiz) /\ quizzes[i] \in ToSet(quizzes)
  <2>1. quizzes[i] \in QuizzesOf(a)
    BY <1>6
  <2>2. quizzes[i].id \in {a} \X (1 .. MaxQuiz)
    BY <2>1 DEF QuizzesOf
  <2>3. quizzes[i] \in ToSet(quizzes)
    BY <1>6 DEF ToSet
  <2>4. QED BY <2>2, <2>3
<1>9. quizzes[i].id \in QuizIdsOf(g, a)
  BY <1>1, <1>8 DEF QuizIdsOf
<1>10. AtomOf(quizzes[i].id) = a
  BY <1>8 DEF AtomOf
<1>11. QED BY <1>7, <1>9, <1>10 DEF Live

(* Of the entries kept, the first of a kind is the first of that kind. *)
LEMMA OnlyFirst ==
    ASSUME NEW R, NEW s \in Seq(R), NEW S, NEW K \in SUBSET S, NEW i, FirstIn(s, K, i)
    PROVE  \E k : FirstIn(Only(s, S), K, k) /\ Only(s, S)[k] = s[i]
<1>1. Len(s) \in Nat /\ DOMAIN s = 1 .. Len(s)
  OBVIOUS
<1>2. PICK out : Keeps(out, R, s, S) /\ Only(s, S) = out[Len(s)]
  BY OnlySteps
<1>3. /\ out \in [0 .. Len(s) -> Seq(R)]
      /\ out[0] = <<>>
      /\ \A n \in 1 .. Len(s) :
           out[n] = IF s[n] \in S THEN Append(out[n - 1], s[n]) ELSE out[n - 1]
  BY <1>2 DEF Keeps
<1>4. i \in 1 .. Len(s) /\ s[i] \in K /\ \A j \in 1 .. Len(s) : j < i => s[j] \notin K
  BY <1>1 DEF FirstIn
<1> DEFINE T == {n \in 0 .. Len(s) :
                   /\ n < i => \A k \in DOMAIN out[n] : out[n][k] \notin K
                   /\ i <= n => \E k : FirstIn(out[n], K, k) /\ out[n][k] = s[i]}
<1>5. 0 \in T
  <2>1. out[0] = <<>> /\ ~(i <= 0)
    BY <1>1, <1>3, <1>4
  <2>2. DOMAIN out[0] = {}
    BY <2>1
  <2>3. QED BY <1>1, <2>1, <2>2
<1>6. ASSUME NEW n \in 1 .. Len(s), n - 1 \in T PROVE n \in T
  <2>1. n \in 0 .. Len(s) /\ n - 1 \in 0 .. Len(s) /\ n - 1 \in Nat /\ n \in Nat /\ i \in Nat
    BY <1>1, <1>4
  <2>2. PICK was \in Seq(R) : was = out[n - 1]
    BY <1>3, <2>1
  <2>3. PICK e \in R : e = s[n]
    OBVIOUS
  <2>4. /\ n - 1 < i => \A k \in DOMAIN was : was[k] \notin K
        /\ i <= n - 1 => \E k : FirstIn(was, K, k) /\ was[k] = s[i]
    BY <1>6, <2>2
  <2>5. CASE e \notin S
    <3>1. out[n] = was /\ n # i
      BY <1>3, <1>4, <2>2, <2>3, <2>5
    <3>2. QED BY <2>1, <2>4, <3>1
  <2>6. CASE e \in S
    <3>1. PICK o : o = out[n] /\ o = Append(was, e)
      BY <1>3, <2>2, <2>3, <2>6
    <3>2. /\ DOMAIN o = 1 .. Len(was) + 1 /\ DOMAIN was = 1 .. Len(was) /\ Len(was) \in Nat
          /\ \A k \in DOMAIN was : o[k] = was[k]
          /\ o[Len(was) + 1] = e
      BY <3>1
    <3>3. ASSUME n < i PROVE \A k \in DOMAIN o : o[k] \notin K
      <4>1. e \notin K
        BY <1>4, <2>3, <3>3
      <4>2. \A k \in DOMAIN was : was[k] \notin K
        BY <2>1, <2>4, <3>3
      <4>3. QED BY <3>2, <4>1, <4>2
    <3>4. ASSUME i = n PROVE FirstIn(o, K, Len(was) + 1) /\ o[Len(was) + 1] = s[i]
      <4>1. e \in K
        BY <1>4, <2>3, <3>4
      <4>2. \A k \in DOMAIN was : was[k] \notin K
        BY <2>1, <2>4, <3>4
      <4>3. QED BY <2>3, <3>2, <3>4, <4>1, <4>2 DEF FirstIn
    <3>5. ASSUME i <= n - 1 PROVE \E k : FirstIn(o, K, k) /\ o[k] = s[i]
      <4>1. PICK k : FirstIn(was, K, k) /\ was[k] = s[i]
        BY <2>4, <3>5
      <4>2. FirstIn(o, K, k) /\ o[k] = s[i]
        BY <3>2, <4>1 DEF FirstIn
      <4>3. QED BY <4>2
    <3>6. n < i \/ i = n \/ i <= n - 1
      BY <2>1
    <3>7. (n < i => ~(i <= n)) /\ (i <= n => ~(n < i))
      BY <2>1
    <3>8. QED BY <2>1, <3>1, <3>3, <3>4, <3>5, <3>6, <3>7
  <2>7. QED BY <2>5, <2>6
<1> HIDE DEF T
<1>7. \A n \in 0 .. Len(s) : n \in T
  BY <1>1, <1>5, <1>6, CountInduction
<1>8. Len(s) \in T
  BY <1>1, <1>7
<1>9. i <= Len(s)
  BY <1>4
<1>10. QED BY <1>2, <1>8, <1>9 DEF T

LEMMA FirstOrNone ==
    ASSUME NEW R, NEW s \in Seq(R), NEW K
    PROVE  (\E i : FirstIn(s, K, i)) \/ (\A i \in DOMAIN s : s[i] \notin K)
<1>1. PICK hits \in SUBSET Nat : hits = {i \in DOMAIN s : s[i] \in K}
  <2>1. DOMAIN s \subseteq Nat
    OBVIOUS
  <2>2. QED BY <2>1
<1>2. CASE hits = {}
  BY <1>1, <1>2
<1>3. CASE hits # {}
  <2>1. PICK i \in hits : \A j \in hits : i <= j
    BY <1>3, LeastNat
  <2>2. FirstIn(s, K, i)
    BY <1>1, <2>1 DEF FirstIn
  <2>3. QED BY <2>2
<1>4. QED BY <1>2, <1>3

(* The entries of one difficulty that no tombstone hides. *)
Holding(removed, d) == {e \in Present(removed) : e.difficulty = d}

(* A slot is held by the first of its difficulty in the list before the    *)
(* tombstones that none of them hides.                                     *)
HeldIn(m, a, l, removed, d) ==
    /\ \A i : FirstIn(l, Holding(removed, d), i) => SlotOf(m, a, d) = l[i].id
    /\ SlotOf(m, a, d) # NoQuiz => \E i : FirstIn(l, Holding(removed, d), i)

LEMMA SlotFirst ==
    ASSUME NEW m, NEW a, NEW l \in Seq(QuizzesOf(a)), NEW removed, NEW d,
           m.quizzes[a] = Only(l, Present(removed))
    PROVE  HeldIn(m, a, l, removed, d)
<1>1. PICK z \in Seq(QuizzesOf(a)) : z = m.quizzes[a] /\ z = Only(l, Present(removed))
  BY OnlyKeeps
<1>2. ToSet(z) = ToSet(l) \cap Present(removed)
  BY <1>1, OnlyKeeps
<1>3. PICK holders \in SUBSET Nat : holders = {k \in DOMAIN z : z[k].difficulty = d}
  <2>1. DOMAIN z \subseteq Nat
    OBVIOUS
  <2>2. QED BY <2>1
<1>4. SlotOf(m, a, d) = IF holders = {} THEN NoQuiz ELSE z[Min(holders)].id
  BY <1>1, <1>3 DEF SlotOf
<1>5. \A k \in DOMAIN z : z[k] \in Holding(removed, d) <=> z[k].difficulty = d
  BY <1>2 DEF Holding, ToSet
<1>6. ASSUME NEW i, FirstIn(l, Holding(removed, d), i) PROVE SlotOf(m, a, d) = l[i].id
  <2>1. Holding(removed, d) \in SUBSET Present(removed)
    BY DEF Holding
  <2>2. PICK k : FirstIn(z, Holding(removed, d), k) /\ z[k] = l[i]
    BY <1>1, <1>6, <2>1, OnlyFirst
  <2>3. k \in holders /\ \A j \in holders : ~(j < k)
    BY <1>3, <1>5, <2>2 DEF FirstIn
  <2>4. Min(holders) \in holders /\ \A j \in holders : Min(holders) <= j
    BY <2>3, MinIs
  <2>5. Min(holders) = k
    <3>1. PICK least : least = Min(holders)
      OBVIOUS
    <3>2. least \in Nat /\ k \in Nat /\ least <= k /\ ~(least < k)
      BY <2>3, <2>4, <3>1
    <3>3. least = k
      BY <3>2
    <3>4. QED BY <3>1, <3>3
  <2>6. QED BY <1>4, <2>2, <2>3, <2>5
<1>7. ASSUME SlotOf(m, a, d) # NoQuiz PROVE \E i : FirstIn(l, Holding(removed, d), i)
  <2>1. PICK k \in holders : TRUE
    BY <1>4, <1>7
  <2>2. z[k] \in Holding(removed, d) /\ z[k] \in ToSet(l)
    BY <1>2, <1>3, <1>5, <2>1 DEF ToSet
  <2>3. PICK j \in DOMAIN l : l[j] \in Holding(removed, d)
    BY <2>2 DEF ToSet
  <2>4. QED BY <2>3, FirstOrNone
<1>8. QED BY <1>6, <1>7 DEF HeldIn

(* The quizzes of an atom before the tombstones, in the order of the merge. *)
MergeOrder(g, overlay, id) == ShippedList(g, overlay, id) \o NewList(g, overlay, id)

Ordered(g, overlay, id, z, inOrder, l) ==
    /\ l \in Seq(QuizzesOf(id)) /\ DOMAIN l = 1 .. Len(z) + Len(inOrder)
    /\ Len(z) \in Nat /\ DOMAIN z = 1 .. Len(z)
    /\ \A i \in DOMAIN z : /\ z[i] \in QuizzesOf(id) /\ z[i].id \in QuizIdsOf(g, id)
                           /\ l[i] = Amended(overlay, z[i])
    /\ inOrder \in Seq(NewRows(g, overlay, id))
    /\ ToSet(inOrder) = NewRows(g, overlay, id)
    /\ \A k \in DOMAIN inOrder :
          l[Len(z) + k] = [id |-> inOrder[k], difficulty |-> overlay[inOrder[k]]]
    /\ \A i, j \in DOMAIN inOrder : i < j => LexBefore(inOrder[i][2], inOrder[j][2])

LEMMA MergeOrderIs ==
    ASSUME NEW g, WellFormed(g), NEW overlay \in Overlays, NEW id \in g.ids,
           NEW z, z = g.quizzes[id], NEW inOrder, inOrder = TextOrder(NewRows(g, overlay, id)),
           NEW list, list = MergeOrder(g, overlay, id)
    PROVE  Ordered(g, overlay, id, z, inOrder, list)
<1>1. PICK new : new = NewRows(g, overlay, id)
  OBVIOUS
<1>2. id \in Id /\ new \in SUBSET {q \in QuizId : AtomOf(q) = id /\ overlay[q] # NoQuiz}
  BY <1>1 DEF WellFormed, NewRows
<1>3. /\ inOrder \in Seq(new) /\ ToSet(inOrder) = new
      /\ \A i, j \in DOMAIN inOrder : i < j => LexBefore(inOrder[i][2], inOrder[j][2])
  BY <1>1, <1>2, AuthoredList
<1>4. PICK s \in Seq(QuizzesOf(id)) : s = ShippedList(g, overlay, id)
  BY ListsMerged
<1>5. PICK t \in Seq(QuizzesOf(id)) : t = NewList(g, overlay, id)
  BY ListsMerged
<1>6. PICK l : l = MergeOrder(g, overlay, id) /\ l = s \o t
  BY <1>4, <1>5 DEF MergeOrder
<1>7. /\ l \in Seq(QuizzesOf(id)) /\ Len(l) = Len(s) + Len(t)
      /\ \A i \in DOMAIN s : l[i] = s[i]
      /\ \A i \in DOMAIN t : l[Len(s) + i] = t[i]
  BY <1>6, Joined
<1>8. z \in Seq(QuizzesOf(id))
  BY DEF WellFormed, QuizzesOf
<1>9. DOMAIN s = DOMAIN z /\ \A i \in DOMAIN z : s[i] = Amended(overlay, z[i])
  BY <1>4 DEF ShippedList
<1>10. Len(s) = Len(z) /\ DOMAIN z = 1 .. Len(z) /\ Len(z) \in Nat
  BY <1>8, <1>9
<1>11. /\ DOMAIN t = DOMAIN inOrder
       /\ \A k \in DOMAIN inOrder : t[k] = [id |-> inOrder[k], difficulty |-> overlay[inOrder[k]]]
  BY <1>1, <1>5 DEF NewList, Entries
<1>12. Len(t) = Len(inOrder)
  BY <1>3, <1>11
<1>13. \A i \in DOMAIN z : z[i] \in QuizzesOf(id) /\ z[i].id \in QuizIdsOf(g, id)
  BY <1>8 DEF QuizIdsOf, ToSet
<1>14. DOMAIN l = 1 .. Len(z) + Len(inOrder)
  BY <1>7, <1>10, <1>12
<1>15. \A i \in DOMAIN z : l[i] = Amended(overlay, z[i])
  BY <1>7, <1>9
<1>16. \A k \in DOMAIN inOrder : l[Len(z) + k] = [id |-> inOrder[k], difficulty |-> overlay[inOrder[k]]]
  BY <1>7, <1>10, <1>11
<1>17. l = list
  BY <1>6
<1>18. QED BY <1>1, <1>3, <1>7, <1>10, <1>13, <1>14, <1>15, <1>16, <1>17 DEF Ordered

(* Edits that leave the quizzes an atom has alone and only add quizzes of  *)
(* higher numbers: what may happen to the atom without an edit of its own. *)
OnlyAdds(m, a, overlay, removed, overlay2, removed2) ==
    /\ removed \subseteq removed2
    /\ \A q \in QuizIdsOf(m, a) : overlay2[q] = overlay[q] /\ q \notin removed2
    /\ \A q \in QuizId : overlay[q] # NoQuiz => overlay2[q] # NoQuiz
    /\ \A q \in QuizId : AtomOf(q) = a /\ overlay2[q] # overlay[q] =>
          q \in removed2 \/ \A r \in QuizIdsOf(m, a) : r[2] < q[2]

(* A quiz is added with an id that goes before that of an authored quiz of *)
(* its difficulty: "q10" before "q2".                                      *)
Displaced(g, m, a, overlay, overlay2) ==
    \E q \in QuizIdsOf(m, a) \ QuizIdsOf(g, a) :
       \E n \in q[2] + 1 .. MaxQuiz :
          /\ LexBefore(n, q[2])
          /\ overlay[<<a, n>>] = NoQuiz /\ overlay2[<<a, n>>] = overlay[q]

(* What is added takes no slot over, unless its id goes before.            *)
LEMMA SlotKept ==
    ASSUME NEW g, WellFormed(g), NEW a \in g.ids,
           NEW overlay \in Overlays, NEW removed, NEW m, Merges(g, overlay, removed, m, a),
           NEW overlay2 \in Overlays, NEW removed2, NEW m2, Merges(g, overlay2, removed2, m2, a),
           OnlyAdds(m, a, overlay, removed, overlay2, removed2),
           ~Displaced(g, m, a, overlay, overlay2),
           NEW d, SlotOf(m, a, d) # NoQuiz
    PROVE  SlotOf(m2, a, d) = SlotOf(m, a, d)
<1>1. PICK z, inOrder, inOrder2 : /\ z = g.quizzes[a]
                                  /\ inOrder = TextOrder(NewRows(g, overlay, a))
                                  /\ inOrder2 = TextOrder(NewRows(g, overlay2, a))
  OBVIOUS
<1>2. PICK new, new2 : new = NewRows(g, overlay, a) /\ new2 = NewRows(g, overlay2, a)
  OBVIOUS
<1>3. PICK l : l = MergeOrder(g, overlay, a)
  OBVIOUS
<1>4. PICK l2 : l2 = MergeOrder(g, overlay2, a)
  OBVIOUS
<1>5. /\ l \in Seq(QuizzesOf(a)) /\ DOMAIN l = 1 .. Len(z) + Len(inOrder)
      /\ Len(z) \in Nat /\ DOMAIN z = 1 .. Len(z)
      /\ \A i \in DOMAIN z : z[i] \in QuizzesOf(a) /\ z[i].id \in QuizIdsOf(g, a) /\ l[i] = Amended(overlay, z[i])
      /\ inOrder \in Seq(new) /\ ToSet(inOrder) = new
      /\ \A k \in DOMAIN inOrder : l[Len(z) + k] = [id |-> inOrder[k], difficulty |-> overlay[inOrder[k]]]
      /\ \A i, j \in DOMAIN inOrder : i < j => LexBefore(inOrder[i][2], inOrder[j][2])
  <2>1. Ordered(g, overlay, a, z, inOrder, l)
    BY <1>1, <1>3, MergeOrderIs
  <2>2. QED BY <1>2, <2>1 DEF Ordered
<1>6. /\ l2 \in Seq(QuizzesOf(a)) /\ DOMAIN l2 = 1 .. Len(z) + Len(inOrder2)
      /\ \A i \in DOMAIN z : l2[i] = Amended(overlay2, z[i])
      /\ inOrder2 \in Seq(new2) /\ ToSet(inOrder2) = new2
      /\ \A k \in DOMAIN inOrder2 : l2[Len(z) + k] = [id |-> inOrder2[k], difficulty |-> overlay2[inOrder2[k]]]
      /\ \A i, j \in DOMAIN inOrder2 : i < j => LexBefore(inOrder2[i][2], inOrder2[j][2])
  <2>1. Ordered(g, overlay2, a, z, inOrder2, l2)
    BY <1>1, <1>4, MergeOrderIs
  <2>2. QED BY <1>2, <2>1 DEF Ordered
<1>7. /\ m.quizzes[a] = Only(l, Present(removed))
      /\ m2.quizzes[a] = Only(l2, Present(removed2))
  BY <1>3, <1>4 DEF Merges, MergeOrder
<1>0. MaxQuiz \in 1 .. 99
  BY CurriculumAssumption
<1>held. HeldIn(m, a, l, removed, d) /\ HeldIn(m2, a, l2, removed2, d)
  BY <1>5, <1>6, <1>7, SlotFirst
<1>8. PICK i : FirstIn(l, Holding(removed, d), i)
  BY <1>held DEF HeldIn
<1>9. SlotOf(m, a, d) = l[i].id
  BY <1>8, <1>held DEF HeldIn
<1>10. \A q \in QuizId : q \in QuizIdsOf(m, a)
          <=> AtomOf(q) = a /\ q \notin removed /\ (q \in QuizIdsOf(g, a) \/ overlay[q] # NoQuiz)
  BY LiveIs
<1>11. a \in Id /\ \A e \in QuizzesOf(a) : e.id \in QuizId /\ AtomOf(e.id) = a /\ e.difficulty \in Difficulty
  BY DEF WellFormed, QuizzesOf, QuizId, AtomOf
<1>12. \A e \in QuizzesOf(a) :
          /\ e \in Holding(removed, d) <=> e.id \notin removed /\ e.difficulty = d
          /\ e \in Holding(removed2, d) <=> e.id \notin removed2 /\ e.difficulty = d
  <2>1. ASSUME NEW e \in QuizzesOf(a), NEW hidden
        PROVE  e \in Holding(hidden, d) <=> e.id \notin hidden /\ e.difficulty = d
    <3>1. e \in [id : {a} \X (1 .. MaxQuiz), difficulty : Difficulty]
      BY DEF QuizzesOf
    <3>2. e = [id |-> e.id, difficulty |-> e.difficulty]
      BY <3>1
    <3>3. e \in Present(hidden) <=> e.id \notin hidden
      BY <1>11, <3>2 DEF Present
    <3>4. QED BY <3>3 DEF Holding
  <2>2. QED BY <2>1
<1>13. \A k \in DOMAIN inOrder : /\ inOrder[k] \in new /\ inOrder[k] \in QuizId /\ AtomOf(inOrder[k]) = a
                                 /\ overlay[inOrder[k]] # NoQuiz
  BY <1>2, <1>5 DEF NewRows
<1>14. \A k \in DOMAIN inOrder2 : /\ inOrder2[k] \in QuizId /\ AtomOf(inOrder2[k]) = a
                                  /\ overlay2[inOrder2[k]] # NoQuiz
                                  /\ inOrder2[k] \notin QuizIdsOf(g, a)
  <2>1. \A k \in DOMAIN inOrder2 : inOrder2[k] \in new2
    BY <1>6
  <2>2. QED BY <1>2, <2>1 DEF NewRows
<1>15. /\ removed \subseteq removed2
       /\ \A q \in QuizIdsOf(m, a) : overlay2[q] = overlay[q] /\ q \notin removed2
       /\ \A q \in QuizId : overlay[q] # NoQuiz => overlay2[q] # NoQuiz
       /\ \A q \in QuizId : AtomOf(q) = a /\ overlay2[q] # overlay[q] =>
             q \in removed2 \/ \A r \in QuizIdsOf(m, a) : r[2] < q[2]
  BY DEF OnlyAdds
<1>16. ASSUME NEW j \in DOMAIN z
       PROVE  /\ l2[j] \in Holding(removed2, d) <=> l[j] \in Holding(removed, d)
              /\ l[j] \in Holding(removed, d) => l2[j].id = l[j].id
  <2>1. PICK e \in QuizzesOf(a) : e = z[j] /\ e.id \in QuizIdsOf(g, a)
    BY <1>5
  <2>2. PICK x \in QuizzesOf(a) : x = l[j] /\ x = Amended(overlay, e)
    <3>1. j \in DOMAIN l
      BY <1>5
    <3>2. l[j] \in QuizzesOf(a)
      BY <1>5, <3>1
    <3>3. QED BY <1>5, <2>1, <3>2
  <2>3. PICK y \in QuizzesOf(a) : y = l2[j] /\ y = Amended(overlay2, e)
    <3>1. j \in DOMAIN l2
      BY <1>5, <1>6
    <3>2. l2[j] \in QuizzesOf(a)
      BY <1>6, <3>1
    <3>3. QED BY <1>6, <2>1, <3>2
  <2>4. x.id = e.id /\ y.id = e.id
    <3>1. e \in [id : {a} \X (1 .. MaxQuiz), difficulty : Difficulty]
      BY DEF QuizzesOf
    <3>2. QED BY <2>2, <2>3, <3>1 DEF Amended
  <2>5. e.id \in removed => e.id \in removed2
    BY <1>15
  <2>6. e.id \notin removed => overlay2[e.id] = overlay[e.id] /\ e.id \notin removed2
    BY <1>10, <1>11, <1>15, <2>1
  <2>7. e.id \notin removed => x = y
    BY <2>2, <2>3, <2>6 DEF Amended
  <2>8. QED BY <1>12, <2>2, <2>3, <2>4, <2>5, <2>6, <2>7
<1>17. i \in DOMAIN l /\ l[i] \in Holding(removed, d) /\ \A j \in DOMAIN l : j < i => l[j] \notin Holding(removed, d)
  BY <1>8 DEF FirstIn
<1>18. CASE i \in DOMAIN z
  <2>1. l2[i] \in Holding(removed2, d) /\ l2[i].id = l[i].id /\ i \in DOMAIN l2
    BY <1>5, <1>6, <1>16, <1>17, <1>18
  <2>2. ASSUME NEW j \in DOMAIN l2, j < i PROVE l2[j] \notin Holding(removed2, d)
    <3>1. j \in DOMAIN z /\ j \in DOMAIN l
      BY <1>5, <1>6, <1>18, <2>2
    <3>2. QED BY <1>16, <1>17, <2>2, <3>1
  <2>3. FirstIn(l2, Holding(removed2, d), i)
    BY <2>1, <2>2 DEF FirstIn
  <2>4. SlotOf(m2, a, d) = l2[i].id
    BY <1>held, <2>3 DEF HeldIn
  <2>5. QED BY <1>9, <2>1, <2>4
<1>19. CASE i \notin DOMAIN z
  <2>1. Len(inOrder) \in Nat /\ DOMAIN inOrder = 1 .. Len(inOrder)
        /\ Len(inOrder2) \in Nat /\ DOMAIN inOrder2 = 1 .. Len(inOrder2)
    BY <1>5, <1>6
  <2>2. PICK k \in DOMAIN inOrder : i = Len(z) + k
    <3>1. i - Len(z) \in 1 .. Len(inOrder) /\ i = Len(z) + (i - Len(z))
      BY <1>5, <1>17, <1>19, <2>1
    <3>2. QED BY <2>1, <3>1
  <2>3. PICK q \in QuizId : /\ q = inOrder[k] /\ q \in new /\ AtomOf(q) = a /\ overlay[q] # NoQuiz
                            /\ q \notin QuizIdsOf(g, a)
    BY <1>2, <1>13 DEF NewRows
  <2>4. l[i] = [id |-> q, difficulty |-> overlay[q]] /\ l[i] \in QuizzesOf(a)
    BY <1>5, <1>17, <2>2, <2>3
  <2>5. q \notin removed /\ overlay[q] = d
    BY <1>12, <1>17, <2>4
  <2>6. q \in QuizIdsOf(m, a) /\ overlay2[q] = overlay[q] /\ q \notin removed2
    BY <1>10, <1>15, <2>3, <2>5
  <2>7. q \in new2
    BY <1>2, <2>3, <2>6 DEF NewRows
  <2>8. PICK k2 \in DOMAIN inOrder2 : inOrder2[k2] = q
    BY <1>6, <2>7 DEF ToSet
  <2>9. PICK i2 : i2 = Len(z) + k2
    OBVIOUS
  <2>10. i2 \in DOMAIN l2 /\ l2[i2] = l[i] /\ l2[i2].id = q
    BY <1>5, <1>6, <2>1, <2>4, <2>6, <2>8, <2>9
  <2>11. l2[i2] \in Holding(removed2, d)
    BY <1>12, <2>4, <2>5, <2>6, <2>10
  <2>12. ASSUME NEW j \in DOMAIN z PROVE l2[j] \notin Holding(removed2, d)
    <3>1. j \in DOMAIN l /\ j < i
      BY <1>5, <2>1, <2>2
    <3>2. QED BY <1>16, <1>17, <3>1
  <2>13. ASSUME NEW j2 \in DOMAIN inOrder2, j2 < k2
         PROVE  l2[Len(z) + j2] \notin Holding(removed2, d)
    <3>1. PICK r \in QuizId : /\ r = inOrder2[j2] /\ AtomOf(r) = a /\ overlay2[r] # NoQuiz
                              /\ r \notin QuizIdsOf(g, a)
      BY <1>14
    <3>2. r[2] \in 1 .. MaxQuiz /\ q[2] \in 1 .. MaxQuiz
      BY DEF QuizId
    <3>3. LexBefore(r[2], q[2])
      BY <1>6, <2>8, <2>13, <3>1
    <3>4. l2[Len(z) + j2] = [id |-> r, difficulty |-> overlay2[r]]
      BY <1>6, <3>1
    <3>5. l2[Len(z) + j2] \in QuizzesOf(a)
      <4>1. Len(z) + j2 \in DOMAIN l2
        BY <1>5, <1>6, <2>1
      <4>2. QED BY <1>6, <4>1
    <3>6. SUFFICES ASSUME r \notin removed2, overlay2[r] = d PROVE FALSE
      BY <1>12, <3>4, <3>5
    <3>7. overlay2[r] = overlay[r]
      <4>1. SUFFICES ASSUME overlay2[r] # overlay[r] PROVE FALSE
        OBVIOUS
      <4>2. q[2] < r[2]
        BY <1>15, <2>6, <3>1, <3>6, <4>1
      <4>3. overlay[r] = NoQuiz
        <5>1. r \notin QuizIdsOf(m, a) /\ r \notin removed
          BY <1>15, <3>6, <4>1
        <5>2. QED BY <1>10, <3>1, <5>1
      <4>4. r = <<a, r[2]>> /\ r[2] \in q[2] + 1 .. MaxQuiz
        <5>1. r = <<a, r[2]>>
          BY <3>1 DEF QuizId, AtomOf
        <5>2. r[2] \in q[2] + 1 .. MaxQuiz
          BY <1>0, <3>2, <4>2
        <5>3. QED BY <5>1, <5>2
      <4>5. overlay2[r] = overlay[q]
        BY <2>5, <3>6
      <4>6. Displaced(g, m, a, overlay, overlay2)
        <5>1. PICK n \in q[2] + 1 .. MaxQuiz : n = r[2] /\ r = <<a, n>>
          BY <4>4
        <5>2. LexBefore(n, q[2]) /\ overlay[<<a, n>>] = NoQuiz /\ overlay2[<<a, n>>] = overlay[q]
          BY <3>3, <4>3, <4>5, <5>1
        <5>3. QED BY <2>3, <2>6, <5>2, Zenon DEF Displaced
      <4>7. QED BY <4>6
    <3>8. r \in new
      BY <1>2, <3>1, <3>7 DEF NewRows
    <3>9. PICK j \in DOMAIN inOrder : inOrder[j] = r
      BY <1>5, <3>8 DEF ToSet
    <3>10. j < k
      <4>1. SUFFICES ASSUME ~(j < k) PROVE FALSE
        OBVIOUS
      <4>2. j = k \/ k < j
        BY <2>1, <4>1
      <4>3. r[2] \in 1 .. 99 /\ q[2] \in 1 .. 99 /\ ~LexBefore(q[2], r[2]) /\ r # q
        <5>1. r[2] \in 1 .. 99 /\ q[2] \in 1 .. 99
          <6>1. \A n \in 1 .. MaxQuiz : n \in 1 .. 99
            BY ONLY <1>0
          <6>2. QED BY <3>2, <6>1, Zenon
        <5>2. TextKey(r[2]) < TextKey(q[2]) /\ TextKey(r[2]) \in Nat /\ TextKey(q[2]) \in Nat
          BY ONLY <3>3, <5>1, LexIs
        <5>3. ~(TextKey(q[2]) < TextKey(r[2])) /\ TextKey(r[2]) # TextKey(q[2])
          BY <5>2
        <5>4. ~LexBefore(q[2], r[2])
          BY <5>1, <5>3, LexIs
        <5>5. QED BY <5>1, <5>3, <5>4
      <4>4. k < j => LexBefore(q[2], r[2])
        BY <1>5, <2>3, <3>9
      <4>5. QED BY <2>3, <3>9, <4>2, <4>3, <4>4
    <3>11. l[Len(z) + j] = [id |-> r, difficulty |-> overlay[r]] /\ l[Len(z) + j] = l2[Len(z) + j2]
      BY <1>5, <3>4, <3>7, <3>9
    <3>12. Len(z) + j \in DOMAIN l /\ Len(z) + j < i
      BY <1>5, <2>1, <2>2, <3>10
    <3>13. l[Len(z) + j] \notin Holding(removed, d)
      BY <1>17, <3>12
    <3>14. r \in removed
      BY <1>12, <3>4, <3>5, <3>6, <3>7, <3>11, <3>13
    <3>15. QED BY <1>15, <3>6, <3>14
  <2>14. ASSUME NEW j \in DOMAIN l2, j < i2 PROVE l2[j] \notin Holding(removed2, d)
    <3>1. CASE j \in DOMAIN z
      BY <2>12, <3>1
    <3>2. CASE j \notin DOMAIN z
      <4>1. PICK j2 : j2 = j - Len(z)
        OBVIOUS
      <4>2. j2 \in DOMAIN inOrder2 /\ j = Len(z) + j2 /\ j2 < k2
        BY <1>5, <1>6, <2>1, <2>9, <2>14, <3>2, <4>1, SMTT(30)
      <4>3. QED BY <2>13, <4>2
    <3>3. QED BY <3>1, <3>2
  <2>15. FirstIn(l2, Holding(removed2, d), i2)
    BY <2>10, <2>11, <2>14 DEF FirstIn
  <2>16. SlotOf(m2, a, d) = l2[i2].id
    BY <1>held, <2>15 DEF HeldIn
  <2>17. QED BY <1>9, <2>10, <2>16
<1>20. QED BY <1>18, <1>19

(* The overlay leaves the links alone. *)
LEMMA MergedLinks ==
    ASSUME NEW g, WellFormed(g), NEW lessons, NEW overlay \in Overlays, NEW removed,
           NEW m, m = WithOverlay(g, lessons, overlay, removed)
    PROVE  WellFormed(m) /\ SameLinks(m, g)
<1>1. /\ m.ids = g.ids /\ m.prereqs = g.prereqs /\ m.children = g.children
      /\ WellFormed(m)
  BY MergedIs
<1>2. QED BY <1>1 DEF SameLinks

(* The atoms of a route are a matter of the links alone. *)
LEMMA SameRoute ==
    ASSUME NEW g, WellFormed(g), NEW h, WellFormed(h), SameLinks(g, h),
           NEW strategy, NEW targets \in Seq(Id), NEW sub
    PROVE  ToSet(Route(g, strategy, targets, sub)) = ToSet(Route(h, strategy, targets, sub))
<1>1. CASE strategy # "bottom_up"
  BY <1>1 DEF Route
<1>2. CASE strategy = "bottom_up"
  <2>1. PICK roots \in SUBSET Id : roots = ToSet(targets)
    BY InList
  <2>2. /\ ToSet(PostOrder(g, targets)) = ReachableAtoms(g, roots)
        /\ ToSet(PostOrder(h, targets)) = ReachableAtoms(h, roots)
    BY <2>1, WalkReaches
  <2>3. ReachableAtoms(g, roots) = Reach(g, roots) \cap AtomsOf(g)
    BY ReachableIs
  <2>4. ReachableAtoms(h, roots) = Reach(h, roots) \cap AtomsOf(h)
    BY ReachableIs
  <2>5. AtomsOf(g) = AtomsOf(h)
    BY SameAtoms
  <2>6. Reach(g, roots) = Reach(h, roots)
    BY SameReach DEF SameLinks
  <2>7. ToSet(PostOrder(g, targets)) = ToSet(PostOrder(h, targets))
    BY <2>2, <2>3, <2>4, <2>5, <2>6
  <2>8. QED BY <1>2, <2>7 DEF Route
<1>3. QED BY <1>1, <1>2

(* The step on one atom. *)
Steps(g, taught, correct, a, steps) ==
    /\ steps = {} <=> a \notin g.ids \/ (AtomComplete(g, correct, a) /\ a \in taught)
    /\ \A x \in steps : /\ x # Done /\ x.atom = a /\ x.kind # "done"
                        /\ x.kind = "present_quiz" => Live(g, x.quiz)
                        /\ x.kind = "present_lesson" => a \in g.lesson
                        /\ x.kind = "create_quiz" =>
                              a \in g.lesson /\ a \in taught /\ x.difficulty \in Difficulty

LEMMA StepsAre ==
    ASSUME NEW g, WellFormed(g), NEW taught, NEW correct, NEW a
    PROVE  Steps(g, taught, correct, a, AtomAction(g, taught, correct, a))
<1>1. PICK steps, d : /\ steps = AtomAction(g, taught, correct, a)
                      /\ d = Difficulties[Min(OpenSlots(g, correct, a))]
  OBVIOUS
<1>2. steps = IF a \notin g.ids THEN {}
              ELSE IF a \notin g.lesson THEN {CreateLesson(a)}
              ELSE IF a \notin taught THEN {PresentLesson(a)}
              ELSE IF OpenSlots(g, correct, a) = {} THEN {}
              ELSE IF SlotOf(g, a, d) = NoQuiz THEN {CreateQuiz(a, d)}
              ELSE {PresentQuiz(SlotOf(g, a, d))}
  BY <1>1 DEF AtomAction
<1>3. steps = {} <=> a \notin g.ids \/ (AtomComplete(g, correct, a) /\ a \in taught)
  BY <1>2 DEF AtomComplete
<1>4. ASSUME NEW x \in steps
      PROVE  /\ x # Done /\ x.atom = a /\ x.kind # "done"
             /\ x.kind = "present_quiz" => Live(g, x.quiz)
             /\ x.kind = "present_lesson" => a \in g.lesson
             /\ x.kind = "create_quiz" =>
                   a \in g.lesson /\ a \in taught /\ x.difficulty \in Difficulty
  <2>1. \/ x = CreateLesson(a) \/ (a \in g.lesson /\ x = PresentLesson(a))
        \/ /\ OpenSlots(g, correct, a) # {}
           /\ a \in g.lesson /\ a \in taught /\ x = CreateQuiz(a, d)
        \/ a \in g.ids /\ SlotOf(g, a, d) # NoQuiz /\ x = PresentQuiz(SlotOf(g, a, d))
    BY <1>2
  <2>2. CASE \/ x = CreateLesson(a) \/ (a \in g.lesson /\ x = PresentLesson(a))
             \/ /\ OpenSlots(g, correct, a) # {}
                /\ a \in g.lesson /\ a \in taught /\ x = CreateQuiz(a, d)
    <3>1. ASSUME OpenSlots(g, correct, a) # {} PROVE d \in Difficulty
      <4>1. PICK open \in SUBSET Nat : open = OpenSlots(g, correct, a)
        <5>1. DOMAIN Difficulties \subseteq Nat
          BY CurriculumAssumption
        <5>2. QED BY <5>1 DEF OpenSlots
      <4>2. PICK i \in open : i = Min(open)
        BY <3>1, <4>1, MinIs
      <4>3. i \in DOMAIN Difficulties
        BY <4>1, <4>2 DEF OpenSlots
      <4>4. Difficulties[i] \in Difficulty
        BY <4>3, CurriculumAssumption
      <4>5. QED BY <1>1, <4>1, <4>2, <4>4
    <3>2. QED BY <2>2, <3>1 DEF CreateLesson, PresentLesson, CreateQuiz, Done
  <2>3. CASE a \in g.ids /\ SlotOf(g, a, d) # NoQuiz /\ x = PresentQuiz(SlotOf(g, a, d))
    <3>1. Live(g, SlotOf(g, a, d)) /\ AtomOf(SlotOf(g, a, d)) = a
      BY <2>3, SlotIs
    <3>2. QED BY <2>3, <3>1 DEF PresentQuiz, Done
  <2>4. QED BY <2>1, <2>2, <2>3
<1>5. QED BY <1>1, <1>3, <1>4 DEF Steps

(* The step on a route is the one on its first atom with one. *)
StepOf(g, taught, correct, route, x) ==
    \/ x = Done /\ \A i \in DOMAIN route : AtomAction(g, taught, correct, route[i]) = {}
    \/ \E i \in DOMAIN route :
          /\ x \in AtomAction(g, taught, correct, route[i])
          /\ \A j \in DOMAIN route : j < i => AtomAction(g, taught, correct, route[j]) = {}

LEMMA NewSteps ==
    ASSUME NEW g, NEW taught, NEW correct, NEW R, NEW route \in Seq(R)
    PROVE  /\ \A x \in NewAction(g, taught, correct, route) : StepOf(g, taught, correct, route, x)
           /\ (\A i \in DOMAIN route : AtomAction(g, taught, correct, route[i]) = {})
                => NewAction(g, taught, correct, route) = {Done}
<1>1. PICK open : open = {i \in DOMAIN route : AtomAction(g, taught, correct, route[i]) # {}}
  OBVIOUS
<1>2. PICK steps : steps = NewAction(g, taught, correct, route)
  OBVIOUS
<1>3. steps = IF open = {} THEN {Done} ELSE AtomAction(g, taught, correct, route[Min(open)])
  BY <1>1, <1>2 DEF NewAction
<1>4. CASE open = {}
  BY <1>1, <1>2, <1>3, <1>4 DEF StepOf
<1>5. CASE open # {}
  <2>1. open \in SUBSET Nat
    BY <1>1
  <2>2. PICK i \in open : i = Min(open) /\ \A j \in open : i <= j
    BY <2>1, <1>5, MinIs
  <2>3. steps = AtomAction(g, taught, correct, route[i])
    BY <1>3, <1>5, <2>2
  <2>4. ASSUME NEW j \in DOMAIN route, j < i PROVE AtomAction(g, taught, correct, route[j]) = {}
    <3>1. j \notin open
      <4>1. i \in Nat /\ j \in Nat
        BY <2>1
      <4>2. QED BY <2>2, <2>4, <4>1
    <3>2. QED BY <3>1, <1>1
  <2>5. i \in DOMAIN route /\ AtomAction(g, taught, correct, route[i]) # {}
    BY <1>1
  <2>6. QED BY <1>2, <2>3, <2>4, <2>5 DEF StepOf
<1>6. QED BY <1>4, <1>5

(* Without due cards, `next` is about new material. *)
LEMMA NewOnly ==
    ASSUME NEW g, NEW taught, NEW correct, NEW route, NEW cards, NEW due
    PROVE  NextActions(g, taught, correct, route, cards, due, "new")
             = NewAction(g, taught, correct, route)
BY DEF NextActions

(* Whatever `next` returns is a due quiz that is live, or new, or done. *)
LEMMA NextSteps ==
    ASSUME NEW g, NEW taught, NEW correct, NEW route, NEW cards, NEW due, NEW mode,
           NEW x \in NextActions(g, taught, correct, route, cards, due, mode)
    PROVE  \/ \E q \in cards : Live(g, q) /\ x = PresentQuiz(q)
           \/ x = Done
           \/ x \in NewAction(g, taught, correct, route)
<1>1. PICK served : served = IF mode = "new" THEN {NoQuiz} ELSE FirstDue(g, cards, due)
  OBVIOUS
<1>2. \A q \in served \ {NoQuiz} : q \in cards /\ Live(g, q)
  BY <1>1 DEF FirstDue
<1>3. PICK onward : onward = IF mode = "due" THEN {Done} ELSE NewAction(g, taught, correct, route)
  OBVIOUS
<1>4. x \in {PresentQuiz(q) : q \in served \ {NoQuiz}} \/ x \in onward
  BY <1>1, <1>3 DEF NextActions
<1>5. QED BY <1>2, <1>3, <1>4

(* With a live card due, and no card whose atom left the graph, `next`     *)
(* presents one of the live cards due first.                               *)
LEMMA DueFirst ==
    ASSUME NEW g, NEW taught, NEW correct, NEW route, NEW cards, NEW due,
           \A q \in cards : AtomOf(q) \in g.ids, NoQuiz \notin cards,
           \E q \in cards : Live(g, q),
           NEW x \in NextActions(g, taught, correct, route, cards, due, "default")
    PROVE  \E q \in cards : /\ Live(g, q) /\ x = PresentQuiz(q)
                            /\ \A r \in cards : Live(g, r) => due[q] <= due[r]
<1>1. PICK stops : stops = {q \in cards : Live(g, q) \/ AtomOf(q) \notin g.ids}
  OBVIOUS
<1>2. stops = {q \in cards : Live(g, q)} /\ stops # {}
  BY <1>1
<1>3. PICK first : first = {q \in stops : \A r \in stops : due[q] <= due[r]}
  OBVIOUS
<1>4. FirstDue(g, cards, due) = {IF Live(g, q) THEN q ELSE NoQuiz : q \in first}
  BY <1>1, <1>2, <1>3 DEF FirstDue
<1>5. PICK served : served = FirstDue(g, cards, due)
  OBVIOUS
<1>6. served = first
  BY <1>2, <1>3, <1>4, <1>5
<1>7. NoQuiz \notin served
  BY <1>2, <1>3, <1>6
<1>8. x \in {PresentQuiz(q) : q \in served \ {NoQuiz}}
  BY <1>5, <1>7 DEF NextActions
<1>9. QED BY <1>2, <1>3, <1>6, <1>8

(* The function `CollectUntaught` computes by. *)
Out(taught, id) == IF id \in taught THEN <<>> ELSE <<id>>

Collects(walk, g, taught) ==
    /\ \A at \in Walked : walk[at] = <<>>
    /\ \A at \in (Todo \X SUBSET Id) \ Walked :
          walk[at] = IF Head(at[1])[1] = "leave" THEN Out(taught, Head(at[1])[2]) \o walk[Go(g)[at]]
                     ELSE walk[Go(g)[at]]

LEMMA CollectSteps ==
    ASSUME NEW g, WellFormed(g), NEW taught
    PROVE  \E walk : /\ Collects(walk, g, taught)
                     /\ \A roots : CollectUntaught(g, taught, roots) = walk[<<Enter(roots), {}>>]
<1> DEFINE D == Todo \X SUBSET Id
           base == [at \in D |-> <<>>]
           step == [at \in D |-> [v \in Seq(Id) |->
                      IF at[1] # <<>> /\ Head(at[1])[1] = "leave" THEN Out(taught, Head(at[1])[2]) \o v ELSE v]]
<1>1. Terminates(D, Walked, Go(g))
  BY WalkEnds
<1>2. base \in [D -> Seq(Id)] /\ step \in [D -> [Seq(Id) -> Seq(Id)]]
  <2>1. ASSUME NEW at \in D, NEW v \in Seq(Id), at[1] # <<>>, Head(at[1])[1] = "leave"
        PROVE  Out(taught, Head(at[1])[2]) \o v \in Seq(Id)
    <3>1. Head(at[1])[2] \in Id
      BY <2>1, TodoHead
    <3>2. Out(taught, Head(at[1])[2]) \in Seq(Id)
      BY <3>1 DEF Out
    <3>3. QED BY <3>2, Joined
  <2>2. QED BY <2>1
<1>3. PICK f : Solves(f, D, Walked, Go(g), Seq(Id), base, step)
  <2> HIDE DEF D, base, step
  <2>1. QED BY <1>1, <1>2, RecursionExists
<1>4. Go(g) \in [D -> D] /\ f \in [D -> Seq(Id)]
  BY <1>1, <1>3 DEF Terminates, Solves
<1>5. ASSUME NEW at \in D, at[1] = <<>> PROVE f[at] = <<>>
  <2>1. at \in Walked
    BY <1>5 DEF Walked
  <2>2. f[at] = base[at]
    BY <1>3, <2>1 DEF Solves
  <2>3. QED BY <2>2
<1>6. ASSUME NEW at \in D, at[1] # <<>>
      PROVE  f[at] = IF Head(at[1])[1] = "leave" THEN Out(taught, Head(at[1])[2]) \o f[Go(g)[at]]
                     ELSE f[Go(g)[at]]
  <2>1. at \notin Walked
    BY <1>6 DEF Walked
  <2>2. f[at] = step[at][f[Go(g)[at]]]
    BY <1>3, <2>1 DEF Solves
  <2>3. f[Go(g)[at]] \in Seq(Id)
    BY <1>4
  <2>4. QED BY <2>2, <2>3, <1>6
<1> DEFINE enter(ids) == [i \in DOMAIN ids |-> <<"enter", ids[i]>>]
           leave(id) == IF IsAtom(g, id) THEN <<<<"leave", id>>>> ELSE <<>>
           body(h, at) ==
             IF at[1] = <<>> THEN <<>>
             ELSE IF Head(at[1])[1] = "leave"
                  THEN Out(taught, Head(at[1])[2]) \o h[<<Tail(at[1]), at[2]>>]
             ELSE IF Head(at[1])[2] \in at[2] \/ Head(at[1])[2] \notin g.ids
                  THEN h[<<Tail(at[1]), at[2] \cup {Head(at[1])[2]}>>]
             ELSE h[<<enter(g.prereqs[Head(at[1])[2]] \o g.children[Head(at[1])[2]])
                        \o leave(Head(at[1])[2]) \o Tail(at[1]),
                      at[2] \cup {Head(at[1])[2]}>>]
           walk[at \in Seq({"enter", "leave"} \X Id) \X SUBSET Id] == body(walk, at)
<1>7. \A roots : CollectUntaught(g, taught, roots) = walk[<<Enter(roots), {}>>]
  BY DEF CollectUntaught, Enter, Out
<1>8. ASSUME NEW at \in D, at[1] # <<>>, NEW id, id = Head(at[1])[2]
      PROVE  /\ Head(at[1])[1] = "leave" => Go(g)[at] = <<Tail(at[1]), at[2]>>
             /\ Head(at[1])[1] # "leave" /\ (id \in at[2] \/ id \notin g.ids) =>
                  Go(g)[at] = <<Tail(at[1]), at[2] \cup {id}>>
             /\ Head(at[1])[1] # "leave" /\ ~(id \in at[2] \/ id \notin g.ids) =>
                  Go(g)[at] = <<enter(g.prereqs[id] \o g.children[id]) \o leave(id) \o Tail(at[1]),
                                at[2] \cup {id}>>
  <2>1. Opened(g, id) = enter(g.prereqs[id] \o g.children[id]) \o leave(id)
    BY DEF Opened, Enter, Leave
  <2> HIDE DEF enter, leave
  <2>2. QED BY <2>1, <1>8 DEF Go
<1>9. ASSUME NEW h, NEW at \in D, at[1] # <<>>
      PROVE  body(h, at) = IF Head(at[1])[1] = "leave" THEN Out(taught, Head(at[1])[2]) \o h[Go(g)[at]]
                           ELSE h[Go(g)[at]]
  <2>1. PICK id : id = Head(at[1])[2]
    BY SMTT(30)
  <2> HIDE DEF enter, leave
  <2>2. /\ Head(at[1])[1] = "leave" => Go(g)[at] = <<Tail(at[1]), at[2]>>
        /\ Head(at[1])[1] # "leave" /\ (id \in at[2] \/ id \notin g.ids) =>
             Go(g)[at] = <<Tail(at[1]), at[2] \cup {id}>>
        /\ Head(at[1])[1] # "leave" /\ ~(id \in at[2] \/ id \notin g.ids) =>
             Go(g)[at] = <<enter(g.prereqs[id] \o g.children[id]) \o leave(id) \o Tail(at[1]),
                           at[2] \cup {id}>>
    BY <1>8, <1>9, <2>1
  <2>3. body(h, at) = IF Head(at[1])[1] = "leave" THEN Out(taught, id) \o h[<<Tail(at[1]), at[2]>>]
             ELSE IF id \in at[2] \/ id \notin g.ids THEN h[<<Tail(at[1]), at[2] \cup {id}>>]
             ELSE h[<<enter(g.prereqs[id] \o g.children[id]) \o leave(id) \o Tail(at[1]),
                      at[2] \cup {id}>>]
    BY <1>9, <2>1, Zenon
  <2> HIDE DEF body
  <2>4. QED BY <2>1, <2>2, <2>3, Zenon
<1> HIDE DEF enter, leave
<1>10. ASSUME NEW h, NEW at \in D, at[1] = <<>> PROVE body(h, at) = <<>>
  BY <1>10
<1> HIDE DEF body
<1>11. \E h : h = [at \in Seq({"enter", "leave"} \X Id) \X SUBSET Id |-> body(h, at)]
  <2>1. f = [at \in D |-> f[at]]
    BY <1>4
  <2>2. \A at \in D : f[at] = body(f, at)
    <3> HIDE DEF D
    <3>1. QED BY <1>5, <1>6, <1>9, <1>10, Zenon
  <2>3. f = [at \in D |-> body(f, at)]
    BY <2>1, <2>2, Zenon
  <2>4. QED BY <2>3 DEF Todo
<1>12. PICK h : /\ h = walk
                /\ h = [at \in Seq({"enter", "leave"} \X Id) \X SUBSET Id |-> body(h, at)]
  BY <1>11, Zenon
<1> HIDE DEF walk
<1>13. \A at \in D : h[at] = body(h, at)
  BY <1>12, Zenon DEF Todo
<1>14. Collects(h, g, taught)
  <2>1. ASSUME NEW at \in Walked PROVE h[at] = <<>>
    BY <1>10, <1>13 DEF Walked
  <2>2. ASSUME NEW at \in D \ Walked
        PROVE  h[at] = IF Head(at[1])[1] = "leave" THEN Out(taught, Head(at[1])[2]) \o h[Go(g)[at]]
                       ELSE h[Go(g)[at]]
    <3>1. at \in D /\ at[1] # <<>>
      BY DEF Walked
    <3> HIDE DEF D
    <3>2. QED BY <3>1, <1>9, <1>13, Zenon
  <2>3. QED BY <2>1, <2>2 DEF Collects
<1>15. QED BY <1>7, <1>12, <1>14

(* u lists the entries of s that are not taught: none, or first the first. *)
Predicts(s, u, taught) ==
    /\ s \in Seq(Id) /\ u \in Seq(Id)
    /\ ToSet(s) \subseteq taught => u = <<>>
    /\ \A i : FirstIn(s, Id \ taught, i) => u # <<>> /\ Head(u) = s[i]

LEMMA PredictsNext ==
    ASSUME NEW s, NEW u, NEW taught, Predicts(s, u, taught), NEW id \in Id
    PROVE  Predicts(<<id>> \o s, Out(taught, id) \o u, taught)
<1>1. s \in Seq(Id) /\ u \in Seq(Id)
  BY DEF Predicts
<1>2. PICK t : t = <<id>> \o s
  OBVIOUS
<1>3. /\ t \in Seq(Id) /\ Len(t) = Len(s) + 1 /\ t[1] = id
      /\ \A i \in DOMAIN s : t[i + 1] = s[i]
      /\ DOMAIN t = 1 .. Len(s) + 1 /\ DOMAIN s = 1 .. Len(s) /\ Len(s) \in Nat
  BY <1>1, <1>2
<1>4. ToSet(t) = {id} \cup ToSet(s)
  <2>1. PICK one : one = <<id>>
    OBVIOUS
  <2>2. one \in Seq(Id) /\ ToSet(one) = {id}
    BY <2>1 DEF ToSet
  <2>3. ToSet(one \o s) = ToSet(one) \cup ToSet(s)
    BY <1>1, <2>2, Joined
  <2>4. QED BY <1>2, <2>1, <2>2, <2>3
<1>5. CASE id \in taught
  <2>1. Out(taught, id) \o u = u
    <3>1. <<>> \o u = u
      BY <1>1
    <3>2. QED BY <1>5, <3>1 DEF Out
  <2>2. ASSUME NEW i, FirstIn(t, Id \ taught, i) PROVE u # <<>> /\ Head(u) = t[i]
    <3>1. i \in 1 .. Len(s) + 1 /\ i # 1
      BY <1>3, <1>5, <2>2 DEF FirstIn
    <3>2. PICK k \in 1 .. Len(s) : i = k + 1
      <4>1. i - 1 \in 1 .. Len(s) /\ i = (i - 1) + 1
        BY <1>3, <3>1
      <4>2. QED BY <4>1
    <3>3. FirstIn(s, Id \ taught, k)
      <4>1. s[k] \in Id \ taught /\ t[i] = s[k]
        BY <1>3, <2>2, <3>2 DEF FirstIn
      <4>2. ASSUME NEW j \in DOMAIN s, j < k PROVE s[j] \notin Id \ taught
        <5>1. j + 1 \in DOMAIN t /\ j + 1 < i /\ t[j + 1] = s[j]
          BY <1>3, <3>2, <4>2
        <5>2. QED BY <2>2, <5>1 DEF FirstIn
      <4>3. QED BY <1>3, <3>2, <4>1, <4>2 DEF FirstIn
    <3>4. t[i] = s[k]
      BY <1>3, <3>2
    <3>5. QED BY <3>3, <3>4 DEF Predicts
  <2>3. ToSet(t) \subseteq taught => u = <<>>
    BY <1>4 DEF Predicts
  <2>4. QED BY <1>1, <1>2, <1>3, <2>1, <2>2, <2>3 DEF Predicts
<1>6. CASE id \notin taught
  <2>1. PICK v : v = Out(taught, id) \o u
    OBVIOUS
  <2>2. v = <<id>> \o u
    BY <1>6, <2>1 DEF Out
  <2>3. v \in Seq(Id) /\ v # <<>> /\ Head(v) = id
    BY <1>1, <2>2
  <2>4. ASSUME NEW i, FirstIn(t, Id \ taught, i) PROVE t[i] = id
    <3>1. i = 1
      BY <1>3, <1>6, <2>4 DEF FirstIn
    <3>2. QED BY <1>3, <3>1
  <2>5. ~(ToSet(t) \subseteq taught)
    BY <1>4, <1>6
  <2>6. QED BY <1>2, <1>3, <2>1, <2>3, <2>4, <2>5 DEF Predicts
<1>7. QED BY <1>5, <1>6

(* The two walks go the same way. *)
LEMMA WalksAgree ==
    ASSUME NEW g, WellFormed(g), NEW taught, NEW roots \in Seq(Id)
    PROVE  Predicts(PostOrder(g, roots), CollectUntaught(g, taught, roots), taught)
<1>1. PICK walk : Walks(walk, g) /\ \A r : PostOrder(g, r) = walk[<<Enter(r), {}>>]
  BY WalkSteps
<1>2. PICK collect : /\ Collects(collect, g, taught)
                     /\ \A r : CollectUntaught(g, taught, r) = collect[<<Enter(r), {}>>]
  BY CollectSteps
<1> DEFINE D == Todo \X SUBSET Id
           T == {at \in D : Predicts(walk[at], collect[at], taught)}
<1>3. ASSUME NEW at \in D, at \in Walked \/ Go(g)[at] \in T PROVE at \in T
  <2>1. CASE at \in Walked
    <3>1. walk[at] = <<>> /\ collect[at] = <<>>
      BY <1>1, <1>2, <2>1 DEF Walks, Collects
    <3>2. Predicts(<<>>, <<>>, taught)
      BY EmptyList DEF Predicts, FirstIn
    <3>3. QED BY <3>1, <3>2
  <2>2. CASE at \notin Walked
    <3>1. Go(g)[at] \in T
      BY <1>3, <2>2
    <3>2. PICK s, u, id : s = walk[Go(g)[at]] /\ u = collect[Go(g)[at]] /\ id = Head(at[1])[2]
      OBVIOUS
    <3>3. Predicts(s, u, taught)
      BY <3>1, <3>2
    <3>4. id \in Id
      <4>1. at[1] \in Todo /\ at[1] # <<>>
        BY <2>2 DEF Walked
      <4>2. QED BY <3>2, <4>1, TodoHead
    <3>5. Predicts(<<id>> \o s, Out(taught, id) \o u, taught)
      BY <3>3, <3>4, PredictsNext
    <3>6. /\ walk[at] = IF Head(at[1])[1] = "leave" THEN <<id>> \o s ELSE s
          /\ collect[at] = IF Head(at[1])[1] = "leave" THEN Out(taught, id) \o u ELSE u
      BY <1>1, <1>2, <2>2, <3>2, Zenon DEF Walks, Collects
    <3>7. QED BY <3>3, <3>5, <3>6
  <2>3. QED BY <2>1, <2>2
<1>4. \A at \in D : at \in T
  <2> HIDE DEF T
  <2>1. QED BY <1>3, WalkEnds, AlongRecursion
<1>5. <<Enter(roots), {}>> \in D
  BY Entered
<1>6. QED BY <1>1, <1>2, <1>4, <1>5

(* The roadmap starts with the first atom of the route not taught yet: it is *)
(* empty when there is none.                                                 *)
Heralds(g, taught, route, next) ==
    /\ ToSet(route) \subseteq taught => next = <<>>
    /\ \A i : FirstIn(route, AtomsOf(g) \ taught, i) => next # <<>> /\ Head(next) = route[i]

(* The syllabus starts with the first atom of the route not taught yet. *)
LEMMA UpcomingStarts ==
    ASSUME NEW g, WellFormed(g), NEW taught, NEW strategy, NEW targets \in Seq(AtomsOf(g)),
           NEW sub \in Seq(AtomsOf(g)), NEW route \in Seq(AtomsOf(g)),
           route = Route(g, strategy, targets, sub),
           NEW next, next = Upcoming(g, taught, strategy, targets, sub)
    PROVE  Heralds(g, taught, route, next)
<1>1. CASE strategy = "bottom_up"
  <2>1. AtomsOf(g) \subseteq Id
    BY DEF AtomsOf, WellFormed
  <2>2. Predicts(route, next, taught)
    <3>1. targets \in Seq(Id)
      BY <2>1
    <3>2. route = PostOrder(g, targets) /\ next = CollectUntaught(g, taught, targets)
      BY <1>1 DEF Route, Upcoming
    <3>3. QED BY <3>1, <3>2, WalksAgree
  <2>3. ASSUME NEW i, FirstIn(route, AtomsOf(g) \ taught, i) PROVE FirstIn(route, Id \ taught, i)
    <3>1. \A j \in DOMAIN route : route[j] \in AtomsOf(g)
      OBVIOUS
    <3>2. QED BY <2>1, <2>3, <3>1 DEF FirstIn
  <2>4. QED BY <2>2, <2>3 DEF Predicts, Heralds
<1>2. CASE strategy # "bottom_up"
  <2>1. PICK new : new = {a \in g.ids : IsAtom(g, a) /\ a \notin taught}
    OBVIOUS
  <2>2. new = AtomsOf(g) \ taught
    BY <2>1 DEF AtomsOf
  <2>3. route = sub \o targets
    BY <1>2 DEF Route
  <2>4. PICK once \in Seq(AtomsOf(g)) : once = Dedup(route) /\ ToSet(once) = ToSet(route)
    BY DedupKeeps
  <2>5. next = Only(once, new)
    BY <1>2, <2>1, <2>3, <2>4 DEF Upcoming
  <2>6. /\ Only(once, new) \in Seq(AtomsOf(g))
        /\ ToSet(Only(once, new)) = ToSet(once) \cap new
        /\ \A k : FirstIn(once, new, k) => Only(once, new) # <<>> /\ Head(Only(once, new)) = once[k]
    BY OnlyKeeps
  <2>7. ASSUME ToSet(route) \subseteq taught PROVE Only(once, new) = <<>>
    <3>1. ToSet(Only(once, new)) = {}
      BY <2>2, <2>4, <2>6, <2>7
    <3>2. QED BY <3>1, <2>6, EmptyList
  <2>8. ASSUME NEW i, FirstIn(route, new, i)
        PROVE  Only(once, new) # <<>> /\ Head(Only(once, new)) = route[i]
    <3>1. PICK k : FirstIn(once, new, k) /\ once[k] = route[i]
      BY <2>4, <2>8, DedupFirst
    <3>2. QED BY <3>1, <2>6
  <2>9. QED BY <2>2, <2>5, <2>7, <2>8 DEF Heralds
<1>3. QED BY <1>1, <1>2

(* The reports count to the whole just when all is taught and learned. *)
LEMMA CountersFull ==
    ASSUME NEW g, WellFormed(g), NEW taught, NEW correct, NEW targets \in Seq(AtomsOf(g)),
           Distinct(targets),
           NEW s, s = Counters(g, taught, correct, targets),
           NEW all, all = ReachableAtoms(g, ToSet(targets))
    PROVE  /\ (s.taught = s.reachable /\ s.finished = s.reachable)
                <=> \A a \in all : a \in taught /\ AtomComplete(g, correct, a)
           /\ (\A a \in ToSet(targets) : AtomComplete(g, correct, a)) /\ s.total > 0
                => s.percent = 100
           /\ ToSet(targets) \subseteq all
<1>1. ToSet(targets) \subseteq AtomsOf(g) /\ AtomsOf(g) \subseteq g.ids /\ g.ids \subseteq Id
  BY InList DEF AtomsOf, WellFormed
<1>2. PICK roots \in SUBSET Id : roots = ToSet(targets)
  BY <1>1
<1>3. all = Reach(g, roots) \cap AtomsOf(g) /\ roots \subseteq Reach(g, roots)
  BY <1>2, ReachableIs, ReachGrows
<1>4. IsFiniteSet(all)
  <2>1. all \subseteq g.ids /\ IsFiniteSet(g.ids)
    BY <1>1, <1>3 DEF WellFormed
  <2>2. QED BY <2>1, FS_Subset
<1>5. PICK complete : complete = {a \in all : AtomComplete(g, correct, a)}
  OBVIOUS
<1>6. /\ s.taught = Cardinality(all \cap taught)
      /\ s.reachable = Cardinality(all)
      /\ s.finished = Cardinality(complete)
      /\ s.total = Len(targets)
      /\ s.percent = IF targets = <<>> THEN 0
                     ELSE (Cardinality(complete \cap ToSet(targets)) * 100) \div Len(targets)
  BY <1>5 DEF Counters
<1>7. \A S \in SUBSET all : Cardinality(S) = Cardinality(all) <=> S = all
  BY <1>4, FS_Subset
<1>8. (s.taught = s.reachable /\ s.finished = s.reachable)
        <=> \A a \in all : a \in taught /\ AtomComplete(g, correct, a)
  <2>1. all \cap taught \in SUBSET all /\ complete \in SUBSET all
    BY <1>5
  <2>2. s.taught = s.reachable <=> all \cap taught = all
    BY <2>1, <1>6, <1>7
  <2>3. s.finished = s.reachable <=> complete = all
    BY <2>1, <1>6, <1>7
  <2>4. QED BY <2>2, <2>3, <1>5
<1>9. ToSet(targets) \subseteq all
  BY <1>1, <1>2, <1>3
<1>10. ASSUME \A a \in ToSet(targets) : AtomComplete(g, correct, a), s.total > 0
       PROVE  s.percent = 100
  <2>1. complete \cap ToSet(targets) = ToSet(targets)
    BY <1>5, <1>9, <1>10
  <2>2. Cardinality(ToSet(targets)) = Len(targets)
    BY ListFinite
  <2>3. PICK n \in Nat \ {0} : n = Len(targets)
    BY <1>6, <1>10
  <2>4. targets # <<>>
    BY <2>3
  <2>5. s.percent = (n * 100) \div n
    BY <1>6, <2>1, <2>2, <2>3, <2>4
  <2>6. (n * 100) \div n = 100
    OBVIOUS
  <2>7. QED BY <2>5, <2>6
<1>11. QED BY <1>8, <1>9, <1>10
-----------------------------------------------------------------------------
(* Growing a set of ids until it no longer grows.                          *)

(* What `up` adds to a set comes from a finite one. *)
Grows(up, all) ==
    /\ up \in [SUBSET Id -> SUBSET Id]
    /\ \A S \in SUBSET Id : S \subseteq up[S] /\ up[S] \subseteq S \cup all

Grown(up) == {S \in SUBSET Id : up[S] = S}

(* The recursion that grows a set. *)
Growing(h, up) == h = [S \in SUBSET Id |-> IF up[S] = S THEN S ELSE h[up[S]]]

LEMMA GrowthEnds ==
    ASSUME NEW up, NEW all, IsFiniteSet(all), Grows(up, all)
    PROVE  Terminates(SUBSET Id, Grown(up), up)
<1> DEFINE size == [S \in SUBSET Id |-> Cardinality(all \ S)]
<1>1. up \in [SUBSET Id -> SUBSET Id]
  BY DEF Grows
<1>2. \A S \in SUBSET Id : IsFiniteSet(all \ S)
  BY FS_Difference
<1>3. size \in [SUBSET Id -> Nat]
  BY <1>2, FS_CardinalityType
<1>4. ASSUME NEW S \in (SUBSET Id) \ Grown(up)
      PROVE  Cardinality(all \ up[S]) < Cardinality(all \ S)
  <2>1. PICK W \in SUBSET Id : W = up[S]
    BY <1>1
  <2>2. S \subseteq W /\ W \subseteq S \cup all /\ W # S
    BY <1>4, <2>1 DEF Grown, Grows
  <2>3. all \ W \in SUBSET (all \ S) /\ all \ W # all \ S
    BY <2>2
  <2>4. Cardinality(all \ W) <= Cardinality(all \ S) /\ Cardinality(all \ S) # Cardinality(all \ W)
    BY <2>3, <1>2, FS_Subset
  <2>5. Cardinality(all \ W) \in Nat /\ Cardinality(all \ S) \in Nat
    BY <1>2, FS_CardinalityType
  <2>6. QED BY <2>1, <2>4, <2>5
<1>5. \A S \in (SUBSET Id) \ Grown(up) : size[up[S]] < size[S]
  <2> TAKE S \in (SUBSET Id) \ Grown(up)
  <2>1. S \in SUBSET Id /\ up[S] \in SUBSET Id
    BY <1>1
  <2>2. QED BY <2>1, <1>4
<1> HIDE DEF size
<1>6. QED BY <1>1, <1>3, <1>5, MeasureTerminates

LEMMA GrowthExists ==
    ASSUME NEW up, NEW all, IsFiniteSet(all), Grows(up, all)
    PROVE  \E h : Growing(h, up)
<1> DEFINE D == SUBSET Id
           base == [S \in D |-> S]
           step == [S \in D |-> [W \in D |-> W]]
<1>1. Terminates(D, Grown(up), up)
  BY GrowthEnds
<1>2. base \in [D -> D] /\ step \in [D -> [D -> D]]
  OBVIOUS
<1>3. PICK f : Solves(f, D, Grown(up), up, D, base, step)
  <2> HIDE DEF D, base, step
  <2>1. QED BY <1>1, <1>2, RecursionExists
<1>4. f \in [D -> D] /\ up \in [D -> D]
  BY <1>1, <1>3 DEF Solves, Terminates
<1>5. ASSUME NEW S \in D PROVE f[S] = IF up[S] = S THEN S ELSE f[up[S]]
  <2>1. CASE S \in Grown(up)
    <3>1. f[S] = base[S]
      BY <1>3, <2>1 DEF Solves
    <3>2. QED BY <3>1, <2>1 DEF Grown
  <2>2. CASE S \notin Grown(up)
    <3>1. f[S] = step[S][f[up[S]]]
      BY <1>3, <2>2 DEF Solves
    <3>2. f[up[S]] \in D
      BY <1>4
    <3>3. QED BY <3>1, <3>2, <2>2 DEF Grown
  <2>3. QED BY <2>1, <2>2
<1>6. f = [S \in D |-> f[S]]
  BY <1>4
<1>7. f = [S \in D |-> IF up[S] = S THEN S ELSE f[up[S]]]
  BY <1>5, <1>6, Zenon
<1>8. Growing(f, up)
  BY <1>7 DEF Growing
<1>9. QED BY <1>8

(* What it grows to is the least set around the first that no longer grows.*)
Limit(up, S, L) ==
    /\ L \in SUBSET Id /\ S \subseteq L /\ up[L] = L
    /\ \A R \in SUBSET Id : S \subseteq R /\ (\A W \in SUBSET R : up[W] \subseteq R) => L \subseteq R

LEMMA GrowthIs ==
    ASSUME NEW up, NEW all, IsFiniteSet(all), Grows(up, all),
           NEW h, Growing(h, up), NEW S \in SUBSET Id
    PROVE  Limit(up, S, h[S])
<1> DEFINE T == {W \in SUBSET Id : Limit(up, W, h[W])}
<1>1. Terminates(SUBSET Id, Grown(up), up)
  BY GrowthEnds
<1>2. ASSUME NEW W \in SUBSET Id PROVE h[W] = IF up[W] = W THEN W ELSE h[up[W]]
  BY Zenon DEF Growing
<1>3. ASSUME NEW W \in SUBSET Id, W \in Grown(up) \/ up[W] \in T PROVE W \in T
  <2>1. CASE up[W] = W
    <3>1. h[W] = W
      BY <1>2, <2>1
    <3>2. Limit(up, W, W)
      BY <2>1 DEF Limit
    <3>3. QED BY <3>1, <3>2
  <2>2. CASE up[W] # W
    <3>1. PICK V \in SUBSET Id : V = up[W]
      BY DEF Grows
    <3>2. h[W] = h[V] /\ Limit(up, V, h[V]) /\ W \subseteq V
      BY <1>2, <1>3, <2>2, <3>1 DEF Grown, Grows
    <3>3. PICK L : L = h[V]
      OBVIOUS
    <3>4. ASSUME NEW R \in SUBSET Id, W \subseteq R, \A U \in SUBSET R : up[U] \subseteq R
          PROVE  L \subseteq R
      <4>1. V \subseteq R
        BY <3>1, <3>4
      <4>2. QED BY <3>2, <3>3, <3>4, <4>1 DEF Limit
    <3>5. Limit(up, W, L)
      BY <3>2, <3>3, <3>4 DEF Limit
    <3>6. QED BY <3>2, <3>3, <3>5
  <2>3. QED BY <2>1, <2>2
<1> HIDE DEF T
<1>4. \A W \in SUBSET Id : W \in T
  BY <1>1, <1>3, AlongRecursion
<1>5. QED BY <1>4 DEF T

-----------------------------------------------------------------------------
(* Ids as lists of segments.                                               *)

LEMMA PrefixIs ==
    ASSUME NEW s \in Seq(Int), NEW t \in Seq(Int)
    PROVE  IsPrefix(s, t) <=> Len(s) <= Len(t) /\ \A i \in 1 .. Len(s) : s[i] = t[i]
<1>1. CASE Len(s) <= Len(t)
  <2>1. PICK u : u = SubSeq(s, 1, Len(s))
    OBVIOUS
  <2>2. PICK v : v = SubSeq(t, 1, Len(s))
    OBVIOUS
  <2>3. u \in Seq(Int) /\ Len(u) = Len(s) /\ \A i \in 1 .. Len(s) : u[i] = s[i]
    BY <2>1
  <2>4. v \in Seq(Int) /\ Len(v) = Len(s) /\ \A i \in 1 .. Len(s) : v[i] = t[i]
    BY <1>1, <2>2
  <2>5. u = v <=> \A i \in 1 .. Len(s) : u[i] = v[i]
    BY <2>3, <2>4, SeqEqual
  <2>6. IsPrefix(s, t) <=> u = v
    BY <1>1, <2>1, <2>2 DEF IsPrefix
  <2>7. QED BY <1>1, <2>3, <2>4, <2>5, <2>6
<1>2. CASE ~(Len(s) <= Len(t))
  BY <1>2 DEF IsPrefix
<1>3. QED BY <1>1, <1>2

(* What the segments of ids tell of each other. *)
Extends(a, c) == IsPrefix(Segments[c], Segments[a])

LEMMA IdSegments ==
    /\ \A a \in Id : Extends(a, a)
    /\ \A a \in Id : Len(Segments[a]) \in Nat \ {0}
    /\ \A a, c \in Id : Extends(a, c) => Len(Segments[c]) <= Len(Segments[a])
    /\ \A a, c \in Id : Extends(a, c) =>
          \/ a = c
          \/ Len(Segments[c]) < Len(Segments[a]) /\ IsStrictPrefix(Segments[c], Segments[a])
    /\ \A a, b, c \in Id : Extends(a, b) /\ Extends(b, c) => Extends(a, c)
    /\ \A a, b, c \in Id : Extends(a, b) /\ Extends(a, c) =>
          (Len(Segments[c]) <= Len(Segments[b]) => Extends(b, c))
    /\ \A c, d \in Id : Front(Segments[d]) = Segments[c] =>
          Extends(d, c) /\ Len(Segments[d]) = Len(Segments[c]) + 1
<1>1. /\ \A a \in Id : Segments[a] \in Seq(Int) /\ Segments[a] # <<>>
      /\ \A a, c \in Id : Segments[a] = Segments[c] => a = c
  BY SegmentsAssumption
<1>2. \A a \in Id : Len(Segments[a]) \in Nat \ {0}
  BY <1>1
<1>3. ASSUME NEW a \in Id, NEW c \in Id
      PROVE  Extends(a, c) <=> /\ Len(Segments[c]) <= Len(Segments[a])
                               /\ \A i \in 1 .. Len(Segments[c]) : Segments[c][i] = Segments[a][i]
  BY <1>1, PrefixIs DEF Extends
<1>4. ASSUME NEW a \in Id, NEW c \in Id, Extends(a, c), a # c
      PROVE  Len(Segments[c]) < Len(Segments[a]) /\ IsStrictPrefix(Segments[c], Segments[a])
  <2>1. Segments[a] # Segments[c]
    BY <1>1, <1>4
  <2>2. Len(Segments[c]) # Len(Segments[a])
    <3>1. SUFFICES ASSUME Len(Segments[c]) = Len(Segments[a]) PROVE FALSE
      OBVIOUS
    <3>2. \A i \in 1 .. Len(Segments[c]) : Segments[c][i] = Segments[a][i]
      BY <1>3, <1>4
    <3>3. PICK s \in Seq(Int), t \in Seq(Int) : s = Segments[c] /\ t = Segments[a]
      BY <1>1
    <3>4. s = t
      BY <3>1, <3>2, <3>3, SeqEqual
    <3>5. QED BY <2>1, <3>3, <3>4
  <2>3. QED BY <1>2, <1>3, <1>4, <2>1, <2>2 DEF IsStrictPrefix, Extends
<1>5. ASSUME NEW a \in Id, NEW b \in Id, NEW c \in Id, Extends(a, b), Extends(b, c)
      PROVE  Extends(a, c)
  BY <1>2, <1>3, <1>5
<1>6. ASSUME NEW a \in Id, NEW b \in Id, NEW c \in Id, Extends(a, b), Extends(a, c),
             Len(Segments[c]) <= Len(Segments[b])
      PROVE  Extends(b, c)
  BY <1>2, <1>3, <1>6
<1>7. ASSUME NEW c \in Id, NEW d \in Id, Front(Segments[d]) = Segments[c]
      PROVE  Extends(d, c) /\ Len(Segments[d]) = Len(Segments[c]) + 1
  <2>1. PICK s \in Seq(Int), t \in Seq(Int) :
              s = Segments[c] /\ t = Segments[d] /\ s # <<>> /\ t # <<>>
    BY <1>1
  <2>2. s = SubSeq(t, 1, Len(t) - 1)
    BY <1>7, <2>1 DEF Front
  <2>3. Len(s) = Len(t) - 1 /\ \A i \in 1 .. Len(s) : s[i] = t[i]
    BY <2>1, <2>2
  <2>4. QED
    <3>1. Len(s) \in Nat /\ Len(t) \in Nat /\ Len(s) <= Len(t) /\ Len(t) = Len(s) + 1
      BY <2>1, <2>3
    <3>2. IsPrefix(s, t)
      BY <2>1, <2>3, <3>1, PrefixIs
    <3>3. Extends(d, c)
      BY <2>1, <3>2, Zenon DEF Extends
    <3>4. QED BY <2>1, <3>1, <3>3
<1>8. \A a \in Id : Extends(a, a)
  BY <1>2, <1>3
<1>9. \A a, c \in Id : Extends(a, c) =>
         \/ a = c
         \/ Len(Segments[c]) < Len(Segments[a]) /\ IsStrictPrefix(Segments[c], Segments[a])
  BY <1>4, Zenon
<1>10. \A a, b, c \in Id : Extends(a, b) /\ Extends(b, c) => Extends(a, c)
  BY <1>5, Zenon
<1>11. \A a, b, c \in Id : Extends(a, b) /\ Extends(a, c) =>
          (Len(Segments[c]) <= Len(Segments[b]) => Extends(b, c))
  BY <1>6, Zenon
<1>12. \A c, d \in Id : Front(Segments[d]) = Segments[c] =>
          Extends(d, c) /\ Len(Segments[d]) = Len(Segments[c]) + 1
  BY <1>7, Zenon
<1>13. \A a, c \in Id : Extends(a, c) => Len(Segments[c]) <= Len(Segments[a])
  BY <1>3, Zenon
<1>14. QED BY <1>2, <1>8, <1>9, <1>10, <1>11, <1>12, <1>13, Zenon

-----------------------------------------------------------------------------
(* What is below a concept.                                                *)

Found(g, id) == ToSet(AtomsUnder(g, <<id>>))

LEMMA FoundIn ==
    ASSUME NEW g, WellFormed(g)
    PROVE  \A s \in Seq(Id) : ToSet(AtomsUnder(g, s)) = UNION {Found(g, d) : d \in ToSet(s)}
<1> DEFINE all(s) == UNION {Found(g, d) : d \in ToSet(s)}
           T == {s \in Seq(Id) : ToSet(AtomsUnder(g, s)) = all(s)}
<1>1. PICK under : Unders(under, g) /\ \A c : AtomsUnder(g, c) = under[c]
  BY UnderSteps
<1>2. <<>> \in T
  <2>1. AtomsUnder(g, <<>>) = <<>>
    BY <1>1 DEF Unders
  <2>2. QED BY <2>1, EmptyList
<1>3. ASSUME NEW h \in Id, NEW r \in Seq(Id), NEW one \in Seq(Id), one = <<h>>
      PROVE  /\ ToSet(AtomsUnder(g, one \o r)) = Found(g, h) \cup ToSet(AtomsUnder(g, r))
             /\ ToSet(one \o r) = {h} \cup ToSet(r)
  <2>1. PICK u \in Seq(AtomsOf(g)) : u = AtomsUnder(g, one)
    BY UnderAtoms
  <2>2. PICK v \in Seq(AtomsOf(g)) : v = AtomsUnder(g, r)
    BY UnderAtoms
  <2>3. AtomsUnder(g, one \o r) = u \o v
    BY <2>1, <2>2, UnderJoined
  <2>4. ToSet(u \o v) = ToSet(u) \cup ToSet(v)
    BY Joined
  <2>5. Found(g, h) = ToSet(u)
    BY <1>3, <2>1, Zenon DEF Found
  <2>6. ToSet(one) = {h}
    BY <1>3 DEF ToSet
  <2>7. ToSet(one \o r) = ToSet(one) \cup ToSet(r)
    BY Joined
  <2>8. QED BY <2>2, <2>3, <2>4, <2>5, <2>6, <2>7, Zenon
<1>4. ASSUME NEW s \in Seq(Id), s # <<>>, Tail(s) \in T PROVE s \in T
  <2>1. PICK h \in Id, r \in Seq(Id) : h = Head(s) /\ r = Tail(s) /\ s = <<h>> \o r
    BY <1>4, Split
  <2>2. <<h>> \in Seq(Id)
    OBVIOUS
  <2>3. PICK one \in Seq(Id) : one = <<h>>
    BY <2>2, Zenon
  <2>4. /\ ToSet(AtomsUnder(g, s)) = Found(g, h) \cup ToSet(AtomsUnder(g, r))
        /\ ToSet(s) = {h} \cup ToSet(r)
    <3>1. s = one \o r
      BY <2>1, <2>3
    <3>2. /\ ToSet(AtomsUnder(g, one \o r)) = Found(g, h) \cup ToSet(AtomsUnder(g, r))
          /\ ToSet(one \o r) = {h} \cup ToSet(r)
      BY <1>3, <2>3, ZenonT(40)
    <3>3. QED BY <3>1, <3>2, Zenon
  <2>5. ToSet(AtomsUnder(g, r)) = all(r)
    BY <1>4, <2>1
  <2>6. all(s) = Found(g, h) \cup all(r)
    BY <2>4
  <2>7. QED BY <2>4, <2>5, <2>6
<1> HIDE DEF T
<1>5. \A s \in Seq(Id) : s \in T
  BY <1>2, <1>4, ListInduction
<1>6. QED BY <1>5 DEF T

LEMMA FoundIs ==
    ASSUME NEW g, WellFormed(g), NEW id \in Id
    PROVE  /\ id \notin g.ids => Found(g, id) = {}
           /\ id \in AtomsOf(g) => Found(g, id) = {id}
           /\ id \in g.ids \ AtomsOf(g) =>
                 Found(g, id) = UNION {Found(g, d) : d \in ToSet(g.children[id])}
<1>1. PICK under : Unders(under, g) /\ \A c : AtomsUnder(g, c) = under[c]
  BY UnderSteps
<1>2. PICK one \in Seq(Id) : /\ one = <<id>> /\ one # <<>> /\ Head(one) = id /\ Tail(one) = <<>>
  <2>1. <<id>> \in Seq(Id) /\ <<id>> # <<>> /\ Head(<<id>>) = id /\ Tail(<<id>>) = <<>>
    OBVIOUS
  <2>2. QED BY <2>1
<1>3. under[<<>>] = <<>>
  BY <1>1 DEF Unders
<1>4. Found(g, id) = ToSet(under[one])
  BY <1>1, <1>2 DEF Found
<1>5. ASSUME id \notin g.ids PROVE Found(g, id) = {}
  <2>1. Onward(g)[one] = <<>> /\ id \notin AtomsOf(g)
    BY <1>2, <1>5 DEF Onward, AtomsOf
  <2>2. under[one] = <<>>
    BY <1>1, <1>2, <1>3, <2>1 DEF Unders
  <2>3. QED BY <1>4, <2>2, EmptyList
<1>6. ASSUME id \in AtomsOf(g) PROVE Found(g, id) = {id}
  <2>1. one \in Seq(AtomsOf(g))
    BY <1>2, <1>6
  <2>2. AtomsUnder(g, one) = one
    BY <2>1, UnderAtoms
  <2>3. ToSet(one) = {id}
    BY <1>2 DEF ToSet
  <2>4. QED BY <1>2, <2>2, <2>3 DEF Found
<1>7. \A s \in Seq(Id) : ToSet(AtomsUnder(g, s)) = UNION {Found(g, d) : d \in ToSet(s)}
  BY FoundIn
<1>8. ASSUME id \in g.ids \ AtomsOf(g)
      PROVE  Found(g, id) = UNION {Found(g, d) : d \in ToSet(g.children[id])}
  <2>1. PICK s \in Seq(Id) : s = g.children[id]
    BY <1>8 DEF WellFormed
  <2>2. Onward(g)[one] = s
    <3>1. Onward(g)[one] = s \o <<>>
      BY <1>2, <1>8, <2>1 DEF Onward
    <3>2. QED BY <3>1
  <2>3. under[one] = under[s]
    BY <1>1, <1>2, <1>8, <2>2 DEF Unders
  <2>4. Found(g, id) = ToSet(AtomsUnder(g, s))
    BY <1>1, <1>4, <2>3
  <2>5. QED BY <1>7, <2>1, <2>4
<1>9. QED BY <1>5, <1>6, <1>8

(* Induction along the nesting, from the atoms up. *)
LEMMA NestingInduction ==
    ASSUME NEW g, WellFormed(g), NEW T,
           \A c \in g.ids : (\A d \in ToSet(g.children[c]) \cap g.ids : d \in T) => c \in T
    PROVE  g.ids \subseteq T
<1>1. SUFFICES ASSUME g.ids \ T # {} PROVE FALSE
  OBVIOUS
<1>2. PICK c \in g.ids \ T : ToSet(g.children[c]) \cap (g.ids \ T) = {}
  BY <1>1 DEF WellFormed
<1>3. QED BY <1>2

(* What a step down the nesting does where ids spell it out. *)
LEMMA ChildOf ==
    ASSUME NEW g, WellFormed(g), IdsNest(g), NEW c \in g.ids \ g.areas, c \notin AtomsOf(g),
           NEW a \in Found(g, c)
    PROVE  \E d \in ToSet(g.children[c]) \cap (g.ids \ g.areas) :
              /\ a \in Found(g, d) /\ Extends(d, c)
              /\ Len(Segments[d]) = Len(Segments[c]) + 1
<1>1. c \in Id /\ g.children[c] \in Seq(Id)
  BY DEF WellFormed
<1>2. PICK d \in ToSet(g.children[c]) : a \in Found(g, d)
  BY <1>1, FoundIs
<1>3. d \in Id
  BY <1>1, InList
<1>4. d \in g.ids
  BY <1>2, <1>3, FoundIs
<1>5. Extends(d, c) /\ Len(Segments[d]) = Len(Segments[c]) + 1
  <2>1. Front(Segments[d]) = Segments[c]
    BY DEF IdsNest
  <2>2. QED BY <1>1, <1>3, <2>1, IdSegments
<1>6. d \notin g.areas
  <2>1. d \in g.areas => Len(Segments[d]) = 1
    BY DEF IdsNest
  <2>2. QED BY <1>1, <1>5, <2>1, IdSegments
<1>7. QED BY <1>2, <1>4, <1>5, <1>6

(* An atom below a concept starts with its segments. *)
LEMMA UnderExtends ==
    ASSUME NEW g, WellFormed(g), IdsNest(g), NEW c \in g.ids \ g.areas, NEW a \in Found(g, c)
    PROVE  Extends(a, c)
<1> DEFINE T == {x \in g.ids : x \notin g.areas => \A y \in Found(g, x) : Extends(y, x)}
<1>1. ASSUME NEW x \in g.ids, \A d \in ToSet(g.children[x]) \cap g.ids : d \in T PROVE x \in T
  <2>1. SUFFICES ASSUME x \notin g.areas, NEW y \in Found(g, x) PROVE Extends(y, x)
    OBVIOUS
  <2>2. x \in Id
    BY DEF WellFormed
  <2>3. CASE x \in AtomsOf(g)
    BY <2>1, <2>2, <2>3, FoundIs, IdSegments
  <2>4. CASE x \notin AtomsOf(g)
    <3>1. PICK d \in ToSet(g.children[x]) \cap (g.ids \ g.areas) :
                y \in Found(g, d) /\ Extends(d, x)
      BY <2>1, <2>4, ChildOf
    <3>2. Extends(y, d)
      BY <1>1, <3>1
    <3>3. d \in Id /\ y \in Id
      <4>1. AtomsUnder(g, <<d>>) \in Seq(AtomsOf(g)) /\ AtomsOf(g) \subseteq Id /\ d \in Id
        <5>1. d \in Id /\ AtomsOf(g) \subseteq Id
          BY DEF WellFormed, AtomsOf
        <5>2. <<d>> \in Seq(Id)
          BY <5>1
        <5>3. QED BY <5>1, <5>2, UnderAtoms
      <4>2. QED BY <3>1, <4>1, InList DEF Found
    <3>4. QED BY <2>2, <3>1, <3>2, <3>3, IdSegments
  <2>5. QED BY <2>3, <2>4
<1> HIDE DEF T
<1>2. g.ids \subseteq T
  BY <1>1, NestingInduction
<1>3. QED BY <1>2 DEF T

-----------------------------------------------------------------------------
(* The tree.                                                               *)

Inside(g, S) == UNION {ToSet(g.children[id]) : id \in S}
Nested(g, S, spine) == Inside(g, S) \cap spine

(* The spine has the atoms and every concept whose id goes before theirs.  *)
LEMMA SpineIs ==
    ASSUME NEW g, WellFormed(g), NEW atoms \in SUBSET g.ids,
           NEW spine, spine = Spine(g, atoms)
    PROVE  /\ atoms \subseteq spine /\ spine \subseteq g.ids
           /\ \A c \in g.ids : \A a \in atoms : Extends(a, c) => c \in spine
           /\ \A c \in spine \ atoms : \E a \in atoms : c # a /\ Extends(a, c)
<1>1. g.ids \subseteq Id
  BY DEF WellFormed
<1>2. ASSUME NEW c \in g.ids, NEW a \in atoms, Extends(a, c) PROVE c \in spine
  <2>1. c = a \/ IsStrictPrefix(Segments[c], Segments[a])
    BY <1>1, <1>2, IdSegments
  <2>2. QED BY <2>1 DEF Spine
<1>3. ASSUME NEW c \in spine \ atoms PROVE \E a \in atoms : c # a /\ Extends(a, c)
  BY <1>3 DEF Spine, IsStrictPrefix, Extends
<1>4. atoms \subseteq spine /\ spine \subseteq g.ids
  BY DEF Spine
<1>5. QED BY <1>2, <1>3, <1>4

(* What is drawn is the least set with the top level on the spine and the  *)
(* children on the spine of what is in it.                                 *)
LEMMA DrawnIs ==
    ASSUME NEW g, WellFormed(g), NEW targets,
           NEW spine \in SUBSET g.ids, spine = Spine(g, ReachableAtoms(g, ToSet(targets))),
           NEW drawn, drawn = Drawn(g, targets)
    PROVE  /\ drawn \subseteq spine
           /\ TopLevel(g) \cap spine \subseteq drawn
           /\ Nested(g, drawn, spine) \subseteq drawn
           /\ \A R \in SUBSET g.ids :
                 /\ TopLevel(g) \cap spine \subseteq R
                 /\ \A W \in SUBSET R : Nested(g, W, spine) \subseteq R
                 => drawn \subseteq R
<1> DEFINE below(S) == (UNION {ToSet(g.children[id]) : id \in S}) \cap spine
           draw[S \in SUBSET Id] == IF below(S) \subseteq S THEN S ELSE draw[S \cup below(S)]
<1>1. Drawn(g, targets) = draw[TopLevel(g) \cap spine]
  BY DEF Drawn
<1>2. \A S : below(S) = Nested(g, S, spine)
  <2>1. ASSUME NEW S PROVE below(S) = Nested(g, S, spine)
    <3>1. below(S) = Inside(g, S) \cap spine
      BY DEF Inside
    <3> HIDE DEF below
    <3>2. QED BY <3>1 DEF Nested
  <2> HIDE DEF below
  <2>2. QED BY <2>1
<1>3. PICK lower : lower = [S \in SUBSET Id |-> S \cup Nested(g, S, spine)]
  OBVIOUS
<1>4. \A S \in SUBSET Id : lower[S] = S \cup below(S) /\ (lower[S] = S <=> below(S) \subseteq S)
  BY <1>2, <1>3
<1>5. g.ids \subseteq Id /\ IsFiniteSet(g.ids)
  BY DEF WellFormed
<1>6. \A S : Nested(g, S, spine) \subseteq spine
  BY DEF Nested
<1> HIDE DEF below
<1>7. Grows(lower, g.ids)
  <2>1. \A S \in SUBSET Id : lower[S] \in SUBSET Id
    BY <1>3, <1>5, <1>6
  <2>2. lower \in [SUBSET Id -> SUBSET Id]
    BY <1>3, <2>1
  <2>3. \A S \in SUBSET Id : S \subseteq lower[S] /\ lower[S] \subseteq S \cup g.ids
    BY <1>3, <1>6
  <2>4. QED BY <2>2, <2>3 DEF Grows
<1>8. PICK f : Growing(f, lower)
  BY <1>5, <1>7, GrowthExists
<1>9. \E h : h = [S \in SUBSET Id |-> IF below(S) \subseteq S THEN S ELSE h[S \cup below(S)]]
  <2>1. \A S \in SUBSET Id : f[S] = IF lower[S] = S THEN S ELSE f[lower[S]]
    BY <1>8, Zenon DEF Growing
  <2>2. \A S \in SUBSET Id : f[S] = IF below(S) \subseteq S THEN S ELSE f[S \cup below(S)]
    <3> TAKE S \in SUBSET Id
    <3>1. PICK W : W = S \cup below(S)
      OBVIOUS
    <3>2. lower[S] = W /\ (W = S <=> below(S) \subseteq S)
      BY <1>4, <3>1
    <3>3. QED BY <2>1, <3>1, <3>2
  <2>3. f = [S \in SUBSET Id |-> f[S]]
    BY <1>8, Zenon DEF Growing
  <2>4. f = [S \in SUBSET Id |-> IF below(S) \subseteq S THEN S ELSE f[S \cup below(S)]]
    BY <2>2, <2>3, Zenon
  <2>5. QED BY <2>4
<1>10. PICK h : /\ h = draw
                /\ h = [S \in SUBSET Id |-> IF below(S) \subseteq S THEN S ELSE h[S \cup below(S)]]
  BY <1>9, Zenon
<1> HIDE DEF draw
<1>11. Growing(h, lower)
  <2>1. \A S \in SUBSET Id : h[S] = IF below(S) \subseteq S THEN S ELSE h[S \cup below(S)]
    BY <1>10, Zenon
  <2>2. \A S \in SUBSET Id : h[S] = IF lower[S] = S THEN S ELSE h[lower[S]]
    <3> TAKE S \in SUBSET Id
    <3>1. PICK W : W = S \cup below(S)
      OBVIOUS
    <3>2. lower[S] = W /\ (W = S <=> below(S) \subseteq S)
      BY <1>4, <3>1
    <3>3. QED BY <2>1, <3>1, <3>2
  <2>3. h = [S \in SUBSET Id |-> h[S]]
    BY <1>10, Zenon
  <2>4. h = [S \in SUBSET Id |-> IF lower[S] = S THEN S ELSE h[lower[S]]]
    BY <2>2, <2>3, Zenon
  <2>5. QED BY <2>4 DEF Growing
<1>12. PICK first \in SUBSET Id : first = TopLevel(g) \cap spine
  BY <1>5
<1>13. PICK L : L = h[first]
  OBVIOUS
<1>14. Limit(lower, first, L)
  BY <1>5, <1>7, <1>11, <1>13, GrowthIs
<1>15. L \in SUBSET Id /\ first \subseteq L /\ Nested(g, L, spine) \subseteq L
  BY <1>3, <1>14 DEF Limit
<1>16. ASSUME NEW R \in SUBSET g.ids, first \subseteq R,
              \A W \in SUBSET R : Nested(g, W, spine) \subseteq R
       PROVE  L \subseteq R
  <2>1. R \in SUBSET Id /\ \A W \in SUBSET R : lower[W] \subseteq R
    BY <1>3, <1>5, <1>16
  <2>2. QED BY <1>14, <1>16, <2>1 DEF Limit
<1>17. L \subseteq spine
  <2>1. first \subseteq spine /\ \A W \in SUBSET spine : Nested(g, W, spine) \subseteq spine
    BY <1>6, <1>12
  <2>2. QED BY <1>16, <2>1
<1>18. L = drawn
  BY <1>1, <1>10, <1>12, <1>13, Zenon
<1>19. QED BY <1>12, <1>15, <1>16, <1>17, <1>18

(* An atom is below a concept of two segments, where drawing begins.       *)
Rooted(g, a) == \E c \in g.ids : Len(Segments[c]) = 2 /\ Contains(AtomsUnder(g, <<c>>), a)

LEMMA RootedIs ==
    ASSUME NEW g, WellFormed(g), IdsNest(g), NEW a
    PROVE  /\ \A c \in TopLevel(g) : c \in g.ids \ g.areas /\ Len(Segments[c]) = 2
           /\ Rooted(g, a) <=> \E c \in TopLevel(g) : a \in Found(g, c)
<1>1. \A c \in g.ids : Len(Segments[c]) = 2 => c \notin g.areas /\ c \in TopLevel(g)
  BY DEF IdsNest, TopLevel
<1>2. \A c \in TopLevel(g) : c \in g.ids /\ Len(Segments[c]) = 2
  BY DEF TopLevel
<1>3. ASSUME NEW c \in g.ids PROVE Contains(AtomsUnder(g, <<c>>), a) <=> a \in Found(g, c)
  <2>1. <<c>> \in Seq(Id)
    BY DEF WellFormed
  <2>2. PICK s \in Seq(AtomsOf(g)) : s = AtomsUnder(g, <<c>>)
    BY <2>1, UnderAtoms
  <2>3. Contains(s, a) <=> a \in ToSet(s)
    BY DEF Contains, ToSet
  <2>4. QED BY <2>2, <2>3 DEF Found
<1>4. QED BY <1>1, <1>2, <1>3 DEF Rooted

(* From a concept drawn to an atom of the spine that is below it. *)
LEMMA DrawnDown ==
    ASSUME NEW g, WellFormed(g), IdsNest(g), NEW drawn, NEW spine,
           Nested(g, drawn, spine) \subseteq drawn, NEW a \in AtomsOf(g),
           \A c \in g.ids : Extends(a, c) => c \in spine
    PROVE  \A c \in g.ids \ g.areas : a \in Found(g, c) /\ c \in drawn => a \in drawn
<1> DEFINE T == {c \in g.ids : c \notin g.areas /\ a \in Found(g, c) /\ c \in drawn => a \in drawn}
<1>1. ASSUME NEW c \in g.ids, \A d \in ToSet(g.children[c]) \cap g.ids : d \in T PROVE c \in T
  <2>1. SUFFICES ASSUME c \notin g.areas, a \in Found(g, c), c \in drawn PROVE a \in drawn
    OBVIOUS
  <2>2. c \in Id
    BY DEF WellFormed
  <2>3. CASE c \in AtomsOf(g)
    BY <2>1, <2>2, <2>3, FoundIs
  <2>4. CASE c \notin AtomsOf(g)
    <3>1. PICK d \in ToSet(g.children[c]) \cap (g.ids \ g.areas) : a \in Found(g, d)
      BY <2>1, <2>4, ChildOf
    <3>2. d \in spine
      BY <3>1, UnderExtends
    <3>3. d \in Inside(g, drawn)
      BY <2>1, <3>1, Zenon DEF Inside
    <3>4. d \in drawn
      BY <3>2, <3>3 DEF Nested
    <3>5. QED BY <1>1, <3>1, <3>4
  <2>5. QED BY <2>3, <2>4
<1> HIDE DEF T
<1>2. g.ids \subseteq T
  BY <1>1, NestingInduction
<1>3. QED BY <1>2 DEF T

(* What lies by its id between a concept and an atom below it is nested    *)
(* between the two.                                                        *)
LEMMA Between ==
    ASSUME NEW g, WellFormed(g), IdsNest(g), NEW a \in AtomsOf(g), NEW x \in g.ids,
           Extends(a, x)
    PROVE  \A c \in g.ids \ g.areas : a \in Found(g, c) /\ Extends(x, c) => a \in Found(g, x)
<1> DEFINE T == {c \in g.ids : c \notin g.areas /\ a \in Found(g, c) /\ Extends(x, c) => a \in Found(g, x)}
<1>1. g.ids \subseteq Id /\ a \in Id /\ x \in Id
  BY DEF WellFormed, AtomsOf
<1>2. ASSUME NEW c \in g.ids, \A d \in ToSet(g.children[c]) \cap g.ids : d \in T PROVE c \in T
  <2>1. SUFFICES ASSUME c \notin g.areas, a \in Found(g, c), Extends(x, c), c # x
                 PROVE  a \in Found(g, x)
    OBVIOUS
  <2>2. c \in Id /\ Len(Segments[c]) < Len(Segments[x])
    BY <1>1, <2>1, IdSegments
  <2>3. c \notin AtomsOf(g)
    <3>1. SUFFICES ASSUME c \in AtomsOf(g) PROVE FALSE
      OBVIOUS
    <3>2. a = c
      BY <2>1, <2>2, <3>1, FoundIs
    <3>3. Len(Segments[x]) <= Len(Segments[a])
      BY <1>1, IdSegments
    <3>4. QED BY <1>1, <2>2, <3>2, <3>3, IdSegments
  <2>4. PICK d \in ToSet(g.children[c]) \cap (g.ids \ g.areas) :
              a \in Found(g, d) /\ Len(Segments[d]) = Len(Segments[c]) + 1
    BY <2>1, <2>3, ChildOf
  <2>5. Extends(a, d)
    BY <2>4, UnderExtends
  <2>6. Len(Segments[d]) <= Len(Segments[x])
    BY <1>1, <2>2, <2>4, IdSegments
  <2>7. Extends(x, d)
    BY <1>1, <2>4, <2>5, <2>6, IdSegments
  <2>8. QED BY <1>2, <2>4, <2>7
<1> HIDE DEF T
<1>3. g.ids \subseteq T
  BY <1>2, NestingInduction
<1>4. QED BY <1>3 DEF T

(* Where ids spell out the nesting, the tree of a path draws the atoms the *)
(* path reaches that are below a concept of two segments.                  *)
LEMMA AtomsDrawn ==
    ASSUME NEW g, WellFormed(g), IdsNest(g), NEW targets \in Seq(Id),
           NEW reach, reach = ReachableAtoms(g, ToSet(targets)),
           NEW drawn, drawn = {id \in Drawn(g, targets) : IsAtom(g, id)}
    PROVE  /\ \A a \in reach : a \in drawn <=> Rooted(g, a)
           /\ (\A a \in reach : Rooted(g, a)) => drawn = reach
<1>1. PICK roots \in SUBSET Id : roots = ToSet(targets)
  BY InList
<1>2. reach \subseteq AtomsOf(g) /\ AtomsOf(g) \subseteq g.ids /\ g.ids \subseteq Id
  <2>1. ReachableAtoms(g, roots) = Reach(g, roots) \cap AtomsOf(g)
    BY ReachableIs
  <2>2. AtomsOf(g) \subseteq g.ids
    BY DEF AtomsOf
  <2>3. g.ids \subseteq Id
    BY DEF WellFormed
  <2>4. QED BY <1>1, <2>1, <2>2, <2>3
<1>3. PICK spine : spine = Spine(g, reach)
  OBVIOUS
<1>4. /\ reach \subseteq spine /\ spine \subseteq g.ids
      /\ \A c \in g.ids : \A a \in reach : Extends(a, c) => c \in spine
      /\ \A c \in spine \ reach : \E a \in reach : c # a /\ Extends(a, c)
  BY <1>2, <1>3, SpineIs
<1>5. PICK L : L = Drawn(g, targets)
  OBVIOUS
<1>6. /\ L \subseteq spine /\ TopLevel(g) \cap spine \subseteq L
      /\ Nested(g, L, spine) \subseteq L
      /\ \A R \in SUBSET g.ids :
            /\ TopLevel(g) \cap spine \subseteq R
            /\ \A W \in SUBSET R : Nested(g, W, spine) \subseteq R
            => L \subseteq R
  BY <1>3, <1>4, <1>5, DrawnIs
<1>7. drawn = L \cap AtomsOf(g)
  BY <1>4, <1>5, <1>6 DEF AtomsOf
<1>8. \A c \in TopLevel(g) : c \in g.ids \ g.areas /\ Len(Segments[c]) = 2
  BY RootedIs
<1>9. \A a : Rooted(g, a) <=> \E c \in TopLevel(g) : a \in Found(g, c)
  BY RootedIs
<1>10. ASSUME NEW a \in reach, Rooted(g, a) PROVE a \in drawn
  <2>1. PICK c \in TopLevel(g) : a \in Found(g, c)
    BY <1>9, <1>10
  <2>2. c \in g.ids \ g.areas
    BY <1>8
  <2>3. Extends(a, c)
    BY <2>1, <2>2, UnderExtends
  <2>4. c \in L
    BY <1>4, <1>6, <2>2, <2>3
  <2>5. a \in L
    <3>1. a \in AtomsOf(g) /\ \A x \in g.ids : Extends(a, x) => x \in spine
      BY <1>2, <1>4
    <3>2. QED BY <1>6, <2>1, <2>2, <2>4, <3>1, DrawnDown
  <2>6. QED BY <1>2, <1>7, <2>5
<1>11. \A a \in drawn : Rooted(g, a)
  <2> DEFINE R == {x \in g.ids : \E c \in TopLevel(g) : Found(g, x) \subseteq Found(g, c)}
  <2>1. TopLevel(g) \cap spine \subseteq R
    BY <1>8
  <2>2. ASSUME NEW W \in SUBSET R, NEW d \in Nested(g, W, spine) PROVE d \in R
    <3>1. PICK x \in W : d \in ToSet(g.children[x]) /\ d \in spine
      BY <2>2 DEF Nested, Inside
    <3>2. PICK c \in TopLevel(g) : Found(g, x) \subseteq Found(g, c)
      BY <3>1
    <3>3. x \in g.ids /\ x \in Id /\ x \notin AtomsOf(g)
      <4>1. x \in g.ids /\ x \in Id
        BY <1>2, <3>1
      <4>2. g.children[x] # <<>>
        BY <3>1, EmptyList
      <4>3. QED BY <4>1, <4>2 DEF AtomsOf, IsAtom
    <3>4. Found(g, x) = UNION {Found(g, e) : e \in ToSet(g.children[x])}
      BY <3>3, FoundIs
    <3>5. Found(g, d) \subseteq Found(g, c)
      BY <3>1, <3>2, <3>4
    <3>6. d \in g.ids
      BY <1>4, <3>1
    <3>7. QED BY <3>5, <3>6
  <2>3. L \subseteq R
    <3>1. R \in SUBSET g.ids /\ \A W \in SUBSET R : Nested(g, W, spine) \subseteq R
      BY <2>2
    <3> HIDE DEF R
    <3>2. QED BY <1>6, <2>1, <3>1
  <2>4. ASSUME NEW a \in drawn PROVE Rooted(g, a)
    <3>1. a \in AtomsOf(g) /\ a \in Id
      BY <1>2, <1>7, <2>4
    <3>2. PICK c \in TopLevel(g) : Found(g, a) \subseteq Found(g, c)
      BY <1>7, <2>3, <2>4
    <3>3. a \in Found(g, a)
      BY <3>1, FoundIs
    <3>4. QED BY <1>9, <3>2, <3>3
  <2>5. QED BY <2>4
<1>12. ASSUME \A a \in reach : Rooted(g, a), NEW x \in drawn PROVE x \in reach
  <2>1. SUFFICES ASSUME x \notin reach PROVE FALSE
    OBVIOUS
  <2>2. x \in AtomsOf(g) /\ x \in g.ids /\ x \in Id /\ x \in spine
    BY <1>2, <1>6, <1>7
  <2>3. PICK a \in reach : x # a /\ Extends(a, x)
    BY <1>4, <2>1, <2>2
  <2>4. PICK c \in TopLevel(g) : a \in Found(g, c)
    BY <1>9, <1>12
  <2>5. PICK b \in TopLevel(g) : x \in Found(g, b)
    BY <1>9, <1>11
  <2>6. /\ a \in Id /\ b \in Id /\ c \in Id
        /\ b \in g.ids \ g.areas /\ c \in g.ids \ g.areas
        /\ Len(Segments[b]) = 2 /\ Len(Segments[c]) = 2
    BY <1>2, <1>8
  <2>7. Extends(a, c) /\ Extends(x, b)
    BY <2>4, <2>5, <2>6, UnderExtends
  <2>8. Extends(x, c)
    <3>1. Len(Segments[b]) <= Len(Segments[x])
      BY <2>2, <2>6, <2>7, IdSegments
    <3>2. Extends(a, x) /\ Extends(a, c) /\ Len(Segments[c]) <= Len(Segments[x])
      BY <2>3, <2>6, <2>7, <3>1, Zenon
    <3>3. QED BY <2>2, <2>6, <3>2, IdSegments
  <2>9. a \in Found(g, x)
    BY <1>2, <2>2, <2>3, <2>4, <2>6, <2>8, Between
  <2>10. a = x
    BY <2>2, <2>9, FoundIs
  <2>11. QED BY <2>3, <2>10
<1>13. QED BY <1>10, <1>11, <1>12
=============================================================================
