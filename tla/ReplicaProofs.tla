--------------------------- MODULE ReplicaProofs ---------------------------
(***************************************************************************)
(* Whatever the devices, tables and migrations are and whatever fails: no  *)
(* acknowledged row is destroyed, every conflict has a cause, and every    *)
(* migration is applied once and in order.                                 *)
(***************************************************************************)
EXTENDS Replica, FiniteSetTheorems, WellFoundedInduction, TLAPS

-----------------------------------------------------------------------------
(* Greatest elements. *)

(* A finite nonempty set of naturals has a greatest element: a smallest    *)
(* set without one would have one, with or without any of its elements.    *)
LEMMA FiniteHasMax ==
    ASSUME NEW S \in SUBSET Nat, IsFiniteSet(S), S # {}
    PROVE  \E x \in S : \A y \in S : x >= y
<1> DEFINE HasMax(T) == \E x \in T : \A y \in T : x >= y
           Bad == {T \in FiniteSubsetsOf(Nat) : T # {} /\ ~HasMax(T)}
<1> SUFFICES ASSUME Bad # {} PROVE FALSE
  BY DEF FiniteSubsetsOf
<1>1. PICK T \in Bad : \A U \in Bad : <<U, T>> \notin StrictSubsetOrdering(Nat)
  <2> HIDE DEF HasMax
  <2>1. Bad \subseteq FiniteSubsetsOf(Nat)
    OBVIOUS
  <2> HIDE DEF Bad
  <2>2. IsWellFoundedOn(StrictSubsetOrdering(Nat), FiniteSubsetsOf(Nat))
    BY FS_StrictSubsetOrderingWellFounded
  <2> QED
    BY <2>1, <2>2, WFMin
<1>2. T \in SUBSET Nat /\ IsFiniteSet(T) /\ T # {} /\ ~HasMax(T)
  BY DEF FiniteSubsetsOf
<1>3. PICK x \in T : TRUE
  BY <1>2
<1> DEFINE U == T \ {x}
<1>4. IsFiniteSet(U) /\ U \subseteq T /\ U # T /\ U \in SUBSET Nat
  BY <1>2, <1>3, FS_RemoveElement
<1>5. <<U, T>> \in StrictSubsetOrdering(Nat)
  BY <1>2, <1>4 DEF StrictSubsetOrdering
<1>6. U = {} \/ HasMax(U)
  <2> HIDE DEF HasMax
  <2> QED BY <1>1, <1>4, <1>5 DEF FiniteSubsetsOf
<1>7. CASE U = {}
  <2>1. T = {x} /\ x \in Nat
    BY <1>2, <1>3, <1>7
  <2> QED
    BY <2>1, <1>2
<1>8. CASE HasMax(U)
  <2>1. PICK m \in U : \A y \in U : m >= y
    BY <1>8
  <2>2. \A y \in T : y = x \/ y \in U
    OBVIOUS
  <2>3. m \in Nat /\ x \in Nat /\ m \in T /\ T \subseteq Nat
    BY <2>1, <1>2, <1>3
  <2>4. CASE m >= x
    <3>1. \A y \in T : m >= y
      BY <2>1, <2>2, <2>4
    <3> QED
      BY <3>1, <2>3, <1>2
  <2>5. CASE x >= m
    <3>1. \A y \in T : x >= y
      BY <2>1, <2>2, <2>3, <2>5
    <3> QED
      BY <3>1, <1>2, <1>3
  <2> QED
    BY <2>3, <2>4, <2>5
<1> QED
  BY <1>6, <1>7, <1>8

(* What Max returns. *)
LEMMA MaxFacts ==
    ASSUME NEW S \in SUBSET Nat, IsFiniteSet(S), S # {}
    PROVE  Max(S) \in S /\ \A y \in S : Max(S) >= y
BY FiniteHasMax DEF Max

(* The values of a function on a finite set are finitely many. *)
LEMMA FiniteImage ==
    ASSUME NEW D, IsFiniteSet(D), NEW f, DOMAIN f = D
    PROVE  IsFiniteSet({f[x] : x \in D})
<1> DEFINE T == {f[x] : x \in D}
           g == [x \in D |-> f[x]]
<1>1. g \in Surjection(D, T)
  BY DEF Surjection
<1> QED
  BY <1>1, FS_Surjection

-----------------------------------------------------------------------------
(* Sequences of frames. *)

(* The databases the argument is about: well formed, with finitely many    *)
(* rows, and with every migration later than those before it.              *)
Ordered(l) ==
    \A i, j \in DOMAIN l :
        i < j /\ l[i].version > 0 /\ l[j].version > 0 => l[i].version < l[j].version

Logs == {l \in Seq(Frame) : Ordered(l) /\ \A i \in DOMAIN l : IsFiniteSet(l[i].rows)}

(* The length, domain and elements of a sequence. *)
LEMMA SeqFacts ==
    ASSUME NEW S, NEW q \in Seq(S)
    PROVE  /\ Len(q) \in Nat
           /\ DOMAIN q = 1 .. Len(q)
           /\ \A n \in DOMAIN q : q[n] \in S
  OBVIOUS

(* Append keeps the elements and adds one index. *)
LEMMA AppendFacts ==
    ASSUME NEW S, NEW q \in Seq(S), NEW e \in S
    PROVE  /\ Append(q, e) \in Seq(S)
           /\ DOMAIN Append(q, e) = DOMAIN q \cup {Len(q) + 1}
           /\ Append(q, e)[Len(q) + 1] = e
           /\ \A n \in DOMAIN q : Append(q, e)[n] = q[n] /\ n < Len(q) + 1
  OBVIOUS

(* A prefix, index by index. *)
LEMMA PrefixFacts ==
    ASSUME NEW S, NEW q \in Seq(S), NEW r \in Seq(S)
    PROVE  IsPrefix(q, r) <=>
              Len(q) <= Len(r) /\ \A n \in 1 .. Len(q) : q[n] = r[n]
<1>1. ASSUME IsPrefix(q, r)
      PROVE  Len(q) <= Len(r) /\ \A n \in 1 .. Len(q) : q[n] = r[n]
  <2>1. Len(q) <= Len(r) /\ SubSeq(q, 1, Len(q)) = SubSeq(r, 1, Len(q))
    BY <1>1 DEF IsPrefix
  <2>2. \A n \in 1 .. Len(q) : SubSeq(q, 1, Len(q))[n] = q[n] /\ SubSeq(r, 1, Len(q))[n] = r[n]
    BY <2>1
  <2> QED
    BY <2>1, <2>2
<1>2. ASSUME Len(q) <= Len(r), \A n \in 1 .. Len(q) : q[n] = r[n]
      PROVE  IsPrefix(q, r)
  <2>1. SubSeq(q, 1, Len(q)) = [n \in 1 .. Len(q) |-> q[n]]
    OBVIOUS
  <2>2. SubSeq(r, 1, Len(q)) = [n \in 1 .. Len(q) |-> r[n]]
    BY <1>2
  <2> QED
    BY <1>2, <2>1, <2>2 DEF IsPrefix
<1> QED
  BY <1>1, <1>2

(* Beginnings and extensions of a sequence. *)
LEMMA PrefixOfSelf ==
    ASSUME NEW S, NEW q \in Seq(S)
    PROVE  IsPrefix(q, q)
BY PrefixFacts

(* What begins a sequence begins its extensions. *)
LEMMA PrefixOfAppend ==
    ASSUME NEW S, NEW q \in Seq(S), NEW r \in Seq(S), NEW e \in S, IsPrefix(q, r)
    PROVE  IsPrefix(q, Append(r, e))
<1> DEFINE a == Append(r, e)
<1>1. a \in Seq(S) /\ Len(a) = Len(r) + 1 /\ Len(r) \in Nat /\ Len(q) \in Nat
  OBVIOUS
<1>2. \A n \in 1 .. Len(r) : a[n] = r[n]
  OBVIOUS
<1>3. Len(q) <= Len(r) /\ \A n \in 1 .. Len(q) : q[n] = r[n]
  BY PrefixFacts
<1> HIDE DEF a
<1>4. Len(q) <= Len(a) /\ \A n \in 1 .. Len(q) : q[n] = a[n]
  BY <1>1, <1>2, <1>3
<1>5. IsPrefix(q, a)
  BY <1>1, <1>4, PrefixFacts
<1> QED
  BY <1>5 DEF a

(* The first elements of a sequence are a beginning of it. *)
LEMMA PrefixOfWhole ==
    ASSUME NEW S, NEW q \in Seq(S), NEW n \in 0 .. Len(q)
    PROVE  /\ SubSeq(q, 1, n) \in Seq(S)
           /\ IsPrefix(SubSeq(q, 1, n), q)
           /\ DOMAIN SubSeq(q, 1, n) \subseteq DOMAIN q
           /\ \A i \in DOMAIN SubSeq(q, 1, n) : SubSeq(q, 1, n)[i] = q[i]
<1> DEFINE b == SubSeq(q, 1, n)
<1>1. b = [i \in 1 .. n |-> q[i]] /\ b \in Seq(S) /\ Len(b) = n /\ n <= Len(q)
  OBVIOUS
<1> HIDE DEF b
<1>2. IsPrefix(b, q)
  BY <1>1, PrefixFacts
<1> QED
  BY <1>1, <1>2 DEF b

-----------------------------------------------------------------------------
(* What databases hold. *)

(* The schema version is the greatest version of a frame. *)
LEMMA VersionFacts ==
    ASSUME NEW l \in Logs
    PROVE  /\ Version(l) \in 0 .. Latest
           /\ \A i \in DOMAIN l : l[i].version <= Version(l)
<1> DEFINE V == {l[i].version : i \in DOMAIN l}
           f == [i \in DOMAIN l |-> l[i].version]
<1>1. l \in Seq(Frame) /\ DOMAIN l = 1 .. Len(l) /\ Len(l) \in Nat
  BY SeqFacts DEF Logs
<1>2. IsFiniteSet(DOMAIN l)
  BY <1>1, FS_Interval
<1>3. IsFiniteSet({f[i] : i \in DOMAIN l})
  BY <1>2, FiniteImage
<1>4. V = {f[i] : i \in DOMAIN l}
  OBVIOUS
<1>5. \A i \in DOMAIN l : l[i].version \in 0 .. Latest
  <2>1. \A i \in DOMAIN l : l[i] \in Frame
    BY <1>1, SeqFacts
  <2> QED
    BY <2>1 DEF Frame
<1>6. Latest \in Nat
  BY ReplicaAssumption
<1>7. {0} \cup V \in SUBSET Nat /\ {0} \cup V # {} /\ IsFiniteSet({0} \cup V)
  <2>1. V \subseteq Nat
    BY <1>5, <1>6
  <2>2. IsFiniteSet(V) /\ IsFiniteSet({0})
    BY <1>3, <1>4, FS_Singleton
  <2> HIDE DEF V
  <2>3. IsFiniteSet({0} \cup V)
    BY <2>2, FS_Union
  <2> QED
    BY <2>1, <2>3
<1> HIDE DEF V
<1>8. Max({0} \cup V) \in {0} \cup V /\ \A y \in {0} \cup V : Max({0} \cup V) >= y
  BY <1>7, MaxFacts
<1> QED
  BY <1>5, <1>6, <1>8 DEF V, Version

(* What is appended is added to the rows. *)
LEMMA RowsOfAppend ==
    ASSUME NEW l \in Seq(Frame), NEW e \in Frame
    PROVE  RowsOf(Append(l, e)) = RowsOf(l) \cup e.rows
<1> DEFINE a == Append(l, e)
<1>1. /\ DOMAIN a = DOMAIN l \cup {Len(l) + 1} /\ a[Len(l) + 1] = e
      /\ \A n \in DOMAIN l : a[n] = l[n]
  BY AppendFacts
<1> HIDE DEF a
<1>2. RowsOf(a) = RowsOf(l) \cup e.rows
  BY <1>1 DEF RowsOf
<1> QED
  BY <1>2 DEF a

(* An extension of a database has all its rows. *)
LEMMA RowsOfPrefix ==
    ASSUME NEW l \in Seq(Frame), NEW r \in Seq(Frame), IsPrefix(l, r)
    PROVE  RowsOf(l) \subseteq RowsOf(r)
<1>1. /\ Len(l) <= Len(r) /\ \A n \in 1 .. Len(l) : l[n] = r[n]
      /\ DOMAIN l = 1 .. Len(l) /\ DOMAIN r = 1 .. Len(r)
      /\ Len(l) \in Nat /\ Len(r) \in Nat
  BY PrefixFacts, SeqFacts
<1>2. \A i \in DOMAIN l : i \in DOMAIN r /\ l[i] = r[i]
  BY <1>1
<1> QED
  BY <1>2 DEF RowsOf

(* The rows are finitely many. *)
LEMMA RowsOfFacts ==
    ASSUME NEW l \in Logs
    PROVE  RowsOf(l) \in SUBSET Row /\ IsFiniteSet(RowsOf(l))
<1> DEFINE R == {l[i].rows : i \in DOMAIN l}
           f == [i \in DOMAIN l |-> l[i].rows]
<1>1. l \in Seq(Frame) /\ DOMAIN l = 1 .. Len(l) /\ Len(l) \in Nat
  BY SeqFacts DEF Logs
<1>2. IsFiniteSet({f[i] : i \in DOMAIN l})
  <2>1. IsFiniteSet(DOMAIN l)
    BY <1>1, FS_Interval
  <2> QED
    BY <2>1, FiniteImage
<1>3. R = {f[i] : i \in DOMAIN l}
  OBVIOUS
<1>4. \A T \in R : IsFiniteSet(T)
  BY DEF Logs
<1>5. IsFiniteSet(UNION R)
  BY <1>2, <1>3, <1>4, FS_UNION
<1>6. \A i \in DOMAIN l : l[i].rows \in SUBSET Row
  <2>1. \A i \in DOMAIN l : l[i] \in Frame
    BY <1>1, SeqFacts
  <2> QED
    BY <2>1 DEF Frame
<1> QED
  BY <1>5, <1>6 DEF RowsOf

(* The key of a new row is a number. *)
LEMMA NextKeyFacts ==
    ASSUME NEW l \in Logs, NEW t \in Table
    PROVE  NextKey(l, t) \in Nat
<1> DEFINE rows == {r \in RowsOf(l) : r.table = t}
           K == {r.key : r \in rows}
           f == [r \in rows |-> r.key]
<1>1. rows \subseteq Row /\ IsFiniteSet(rows)
  BY RowsOfFacts, FS_Subset
<1>2. IsFiniteSet({f[r] : r \in rows})
  <2> HIDE DEF rows
  <2> QED BY <1>1, FiniteImage
<1>3. K = {f[r] : r \in rows}
  OBVIOUS
<1>4. \A r \in rows : r.key \in Nat
  BY <1>1 DEF Row
<1>5. {0} \cup K \in SUBSET Nat /\ {0} \cup K # {} /\ IsFiniteSet({0} \cup K)
  <2>1. K \subseteq Nat
    BY <1>4
  <2>2. IsFiniteSet(K) /\ IsFiniteSet({0})
    BY <1>2, <1>3, FS_Singleton
  <2> HIDE DEF K
  <2>3. IsFiniteSet({0} \cup K)
    BY <2>2, FS_Union
  <2> QED
    BY <2>1, <2>3
<1> HIDE DEF K
<1>6. Max({0} \cup K) \in Nat
  BY <1>5, MaxFacts
<1> QED
  BY <1>6 DEF K, NextKey

-----------------------------------------------------------------------------
(* What the actions make of a database is again one of Logs. *)

(* A new database is empty. *)
LEMMA EmptyLog == <<>> \in Logs /\ RowsOf(<<>>) = {}
BY DEF Logs, Ordered, RowsOf

(* A transaction that writes rows may follow any other. *)
LEMMA LogAppendRows ==
    ASSUME NEW l \in Logs, NEW R \in SUBSET Row, IsFiniteSet(R)
    PROVE  Append(l, Written(R)) \in Logs /\ Written(R) \in Frame
<1> DEFINE e == Written(R)
           a == Append(l, e)
<1>1. l \in Seq(Frame) /\ e \in Frame /\ e.version = 0 /\ e.rows = R
  BY ReplicaAssumption DEF Logs, Written, Frame
<1> HIDE DEF e
<1>2. /\ a \in Seq(Frame) /\ DOMAIN a = DOMAIN l \cup {Len(l) + 1} /\ a[Len(l) + 1] = e
      /\ \A n \in DOMAIN l : a[n] = l[n] /\ n < Len(l) + 1
  BY <1>1, AppendFacts
<1>3. Ordered(l) /\ \A i \in DOMAIN l : IsFiniteSet(l[i].rows)
  BY DEF Logs
<1>4. DOMAIN l \subseteq Nat /\ Len(l) \in Nat
  BY <1>1, SeqFacts
<1> HIDE DEF a
<1>5. Ordered(a)
  BY <1>1, <1>2, <1>3, <1>4 DEF Ordered
<1>6. \A i \in DOMAIN a : IsFiniteSet(a[i].rows)
  BY <1>1, <1>2, <1>3
<1>7. a \in Logs
  BY <1>2, <1>5, <1>6 DEF Logs
<1> QED
  BY <1>1, <1>7 DEF a, e

(* The next migration, and only the next, keeps the order of migrations. *)
LEMMA LogAppendMigration ==
    ASSUME NEW l \in Logs, Version(l) < Latest
    PROVE  /\ Append(l, Migration(Version(l) + 1)) \in Logs
           /\ Migration(Version(l) + 1) \in Frame
<1> DEFINE e == Migration(Version(l) + 1)
           a == Append(l, e)
<1>1. Version(l) \in 0 .. Latest /\ \A i \in DOMAIN l : l[i].version <= Version(l)
  BY VersionFacts
<1>2. /\ l \in Seq(Frame) /\ e \in Frame /\ e.version = Version(l) + 1
      /\ IsFiniteSet(e.rows)
  BY <1>1, ReplicaAssumption, FS_EmptySet DEF Logs, Migration, Frame
<1> HIDE DEF e
<1>3. /\ a \in Seq(Frame) /\ DOMAIN a = DOMAIN l \cup {Len(l) + 1} /\ a[Len(l) + 1] = e
      /\ \A n \in DOMAIN l : a[n] = l[n] /\ n < Len(l) + 1
  BY <1>2, AppendFacts
<1>4. Ordered(l) /\ \A i \in DOMAIN l : IsFiniteSet(l[i].rows)
  BY DEF Logs
<1>5. DOMAIN l \subseteq Nat /\ Len(l) \in Nat /\ \A i \in DOMAIN l : l[i].version \in Nat
  <2>1. \A i \in DOMAIN l : l[i] \in Frame
    BY <1>2, SeqFacts
  <2> QED
    BY <1>2, <2>1, SeqFacts, ReplicaAssumption DEF Frame
<1> HIDE DEF a
<1>6. Ordered(a)
  BY <1>1, <1>2, <1>3, <1>4, <1>5 DEF Ordered
<1>7. \A i \in DOMAIN a : IsFiniteSet(a[i].rows)
  BY <1>2, <1>3, <1>4
<1>8. a \in Logs
  BY <1>3, <1>6, <1>7 DEF Logs
<1> QED
  BY <1>2, <1>8 DEF a, e

(* What a sync that is cut off has stored of a database is a database. *)
LEMMA LogBeginning ==
    ASSUME NEW l \in Logs, NEW n \in 0 .. Len(l)
    PROVE  SubSeq(l, 1, n) \in Logs
<1> DEFINE b == SubSeq(l, 1, n)
<1>1. l \in Seq(Frame)
  BY DEF Logs
<1>2. b \in Seq(Frame) /\ DOMAIN b \subseteq DOMAIN l /\ \A i \in DOMAIN b : b[i] = l[i]
  BY <1>1, PrefixOfWhole
<1> HIDE DEF b
<1>3. b \in Logs
  BY <1>2 DEF Logs, Ordered
<1> QED
  BY <1>3 DEF b

-----------------------------------------------------------------------------
(* The inductive invariant. *)

Upgrading == {"renamed", "filling", "copying", "copied"}
Writing == {"migrating", "ready", "running", "pushing"}

SettingsOK ==
    /\ configured \in [Device -> BOOLEAN]
    /\ shipped \in [Device -> 1 .. Latest]

ProcessOK ==
    /\ pc \in [Device -> Phase]
    /\ copied \in [Device -> SUBSET Table]
    /\ pending \in [Device -> BOOLEAN]
    /\ \A d \in Device :
          /\ pc[d] \in Upgrading => saved[d]
          /\ pc[d] \notin {"off", "renamed"} => kind[d] # "none"

DataOK ==
    /\ kind \in [Device -> {"none", "plain", "unmarked", "replica"}]
    /\ log \in [Device -> Logs]
    /\ synced \in [Device -> Nat]
    /\ saved \in [Device -> BOOLEAN]
    /\ backup \in [Device -> Logs]
    /\ remote \in Logs
    /\ acked \in [Device -> SUBSET Row]
    /\ raced \in [Device -> BOOLEAN]
    /\ \A d \in Device :
          /\ IsFiniteSet(acked[d])
          /\ kind[d] = "none" => log[d] = <<>>
          /\ ~saved[d] => backup[d] = <<>>

(* A device that nothing overtook and that is about to write, or has       *)
(* something to push, has all of the remote database in its own.           *)
Ahead(d) ==
    IsReplica(d) /\ ~saved[d] /\ ~raced[d] /\ (Unpushed(d) \/ pc[d] \in Writing)
        => IsPrefix(remote, log[d])

IInv ==
    /\ SettingsOK /\ ProcessOK /\ DataOK /\ NothingDestroyed
    /\ \A d \in Device : Ahead(d)

(* The invariant holds before the first command. *)
LEMMA InitInv == Init => IInv
<1> SUFFICES ASSUME Init PROVE IInv
  OBVIOUS
<1>1. SettingsOK
  BY ReplicaAssumption DEF Init, SettingsOK
<1>2. ProcessOK
  BY DEF Init, ProcessOK, Phase, Upgrading
<1>3. DataOK
  BY EmptyLog, FS_EmptySet DEF Init, DataOK
<1>4. NothingDestroyed
  BY DEF Init, NothingDestroyed
<1>5. \A d \in Device : Ahead(d)
  BY DEF Init, Ahead, IsReplica
<1> QED
  BY <1>1, <1>2, <1>3, <1>4, <1>5 DEF IInv

(* What the process of d may do besides its effect on the data: it enters  *)
(* phase q, which is an upgrading one only with a backup, and one beyond   *)
(* the first ones only with a file.                                        *)
Moves(d, q) ==
    /\ pc' = [pc EXCEPT ![d] = q]
    /\ q \in Phase
    /\ q \in Upgrading => saved'[d]
    /\ q \notin {"off", "renamed"} => kind'[d] # "none"
    /\ copied' \in [Device -> SUBSET Table]
    /\ pending' \in [Device -> BOOLEAN]

(* The process of one device moves on, the others stay where they are. *)
LEMMA ProcessStep ==
    ASSUME IInv, NEW d \in Device, NEW q, Moves(d, q),
           \A x \in Device \ {d} : saved'[x] = saved[x] /\ kind'[x] = kind[x]
    PROVE  ProcessOK' /\ pc'[d] = q /\ \A x \in Device \ {d} : pc'[x] = pc[x]
BY DEF IInv, ProcessOK, Moves

-----------------------------------------------------------------------------
(* The effects of the actions on the data. *)

(* Nothing of another device but its race changes, and that only ends      *)
(* when the remote database stays or the device is off with all pushed.    *)
LEMMA OthersAhead ==
    ASSUME IInv, NEW d \in Device, NEW x \in Device \ {d},
           UNCHANGED <<kind[x], log[x], synced[x], saved[x], pc[x]>>,
           \/ remote' = remote /\ raced'[x] = raced[x]
           \/ raced' = Races(d)
           \/ raced' = [Races(d) EXCEPT ![d] = FALSE]
    PROVE  Ahead(x)'
<1>1. Ahead(x) /\ pc[x] \in Phase
  BY DEF IInv, ProcessOK
<1>2. CASE remote' = remote /\ raced'[x] = raced[x]
  BY <1>1, <1>2 DEF Ahead, IsReplica, Unpushed
<1>3. CASE raced' = Races(d) \/ raced' = [Races(d) EXCEPT ![d] = FALSE]
  <2>1. raced'[x] = (raced[x] \/ (remote' # remote /\ (pc[x] # "off" \/ Unpushed(x))))
    BY <1>3 DEF Races
  <2> QED
    BY <1>1, <2>1 DEF Ahead, IsReplica, Unpushed, Writing
<1> QED
  BY <1>2, <1>3

(* A sync that succeeds. *)
LEMMA SyncDoneInv ==
    ASSUME IInv, NEW d \in Device, NEW q, SyncDone(d), Moves(d, q),
           SettingsOK', UNCHANGED <<oldFile, acked>>
    PROVE  IInv'
<1> DEFINE L == Level(d)
<1>1. log[d] \in Logs /\ remote \in Logs /\ log[d] \in Seq(Frame) /\ remote \in Seq(Frame)
  BY DEF IInv, DataOK, Logs
<1>2. L \in Logs /\ L \in Seq(Frame) /\ Len(L) \in Nat
  BY <1>1, SeqFacts DEF Level
<1>3. IsPrefix(log[d], L)
  BY <1>1, PrefixOfSelf DEF Level
<1> HIDE DEF L
<1>4. /\ log' = [log EXCEPT ![d] = L] /\ remote' = L
      /\ synced' = [synced EXCEPT ![d] = Len(L)]
      /\ kind' = [kind EXCEPT ![d] = "replica"]
      /\ raced' = [Races(d) EXCEPT ![d] = FALSE]
  BY DEF SyncDone, L
<1>5. \A x \in Device \ {d} : UNCHANGED <<kind[x], log[x], synced[x], saved[x], pc[x]>>
  BY <1>4, ProcessStep DEF oldFile, IInv, DataOK
<1>6. ProcessOK'
  BY <1>5, ProcessStep
<1>7. raced' \in [Device -> BOOLEAN]
  BY <1>4 DEF Races, IInv, DataOK
<1>8. DataOK'
  BY <1>2, <1>4, <1>7 DEF IInv, DataOK, oldFile
<1>9. NothingDestroyed'
  <2>1. RowsOf(log[d]) \subseteq RowsOf(log'[d])
    BY <1>1, <1>2, <1>3, <1>4, RowsOfPrefix DEF IInv, DataOK
  <2>2. \A x \in Device \ {d} : log'[x] = log[x]
    BY <1>5
  <2> QED
    BY <2>1, <2>2 DEF NothingDestroyed, IInv, oldFile
<1>10. Ahead(d)'
  BY <1>2, <1>4, PrefixOfSelf DEF Ahead, IInv, DataOK
<1>11. \A x \in Device \ {d} : Ahead(x)'
  BY <1>4, <1>5, OthersAhead
<1> QED
  BY <1>6, <1>8, <1>9, <1>10, <1>11 DEF IInv

(* A sync that does not. *)
LEMMA SyncCutInv ==
    ASSUME IInv, NEW d \in Device, NEW q, SyncCut(d), Moves(d, q),
           q \in Writing => pc[d] \in Writing \/ saved[d],
           SettingsOK', UNCHANGED <<oldFile, acked>>
    PROVE  IInv'
<1>1. log[d] \in Logs /\ remote \in Logs /\ log[d] \in Seq(Frame) /\ remote \in Seq(Frame)
  BY DEF IInv, DataOK, Logs
<1>2. /\ remote' \in Logs
      /\ remote' = remote \/ IsPrefix(remote', log[d])
  <2>1. CASE remote' = remote
    BY <1>1, <2>1
  <2>2. CASE \E n \in Len(remote) .. Len(log[d]) : remote' = SubSeq(log[d], 1, n)
    <3>1. PICK n \in Len(remote) .. Len(log[d]) : remote' = SubSeq(log[d], 1, n)
      BY <2>2
    <3>2. n \in 0 .. Len(log[d])
      BY <1>1, <3>1, SeqFacts
    <3> QED
      BY <1>1, <3>1, <3>2, LogBeginning, PrefixOfWhole
  <2> QED
    BY <2>1, <2>2 DEF SyncCut
<1>3. UNCHANGED <<kind, log, synced, saved, backup, acked>> /\ raced' = Races(d)
  BY DEF SyncCut, file, oldFile
<1>4. ProcessOK' /\ pc'[d] = q /\ \A x \in Device \ {d} : pc'[x] = pc[x]
  BY <1>3, ProcessStep
<1>5. DataOK' /\ raced'[d] = raced[d]
  BY <1>2, <1>3 DEF Races, IInv, DataOK
<1>6. NothingDestroyed'
  BY <1>3 DEF NothingDestroyed, IInv
<1>7. Ahead(d)'
  <2>1. Ahead(d)
    BY DEF IInv
  <2> QED
    BY <1>2, <1>3, <1>4, <1>5, <2>1 DEF Ahead, IsReplica, Unpushed
<1>8. \A x \in Device \ {d} : Ahead(x)'
  BY <1>3, <1>4, OthersAhead
<1> QED
  BY <1>4, <1>5, <1>6, <1>7, <1>8 DEF IInv

(* A transaction is committed in a database that is open for writing.      *)
LEMMA AppendInv ==
    ASSUME IInv, NEW d \in Device, NEW q, NEW e \in Frame, NEW R \in SUBSET e.rows,
           Append(log[d], e) \in Logs, IsFiniteSet(R), R \subseteq Row,
           log' = [log EXCEPT ![d] = Append(@, e)],
           acked' = [acked EXCEPT ![d] = @ \cup R],
           pc[d] \in Writing \/ saved[d], kind[d] # "none", Moves(d, q),
           SettingsOK', UNCHANGED <<kind, synced, oldFile, remote, raced>>
    PROVE  IInv'
<1>1. log[d] \in Seq(Frame) /\ remote \in Seq(Frame) /\ log \in [Device -> Logs]
  BY DEF IInv, DataOK, Logs
<1>2. \A x \in Device \ {d} : UNCHANGED <<kind[x], log[x], synced[x], saved[x], pc[x]>>
  BY <1>1, ProcessStep DEF oldFile
<1>3. ProcessOK' /\ log'[d] = Append(log[d], e)
  BY <1>1, <1>2, ProcessStep
<1>4. IsFiniteSet(acked[d] \cup R)
  BY FS_Union DEF IInv, DataOK
<1>5. DataOK'
  BY <1>4 DEF IInv, DataOK, oldFile
<1>6. NothingDestroyed'
  <2>1. RowsOf(log'[d]) = RowsOf(log[d]) \cup e.rows
    BY <1>1, <1>3, RowsOfAppend
  <2>2. acked'[d] = acked[d] \cup R /\ \A x \in Device \ {d} : acked'[x] = acked[x]
    BY DEF IInv, DataOK
  <2> QED
    BY <1>2, <2>1, <2>2 DEF NothingDestroyed, IInv, oldFile
<1>7. Ahead(d)'
  <2>1. Ahead(d)
    BY DEF IInv
  <2>2. IsPrefix(remote, log[d]) => IsPrefix(remote, log'[d])
    BY <1>1, <1>3, PrefixOfAppend
  <2> QED
    BY <2>1, <2>2 DEF Ahead, IsReplica, oldFile
<1>8. \A x \in Device \ {d} : Ahead(x)'
  BY <1>2, OthersAhead
<1> QED
  BY <1>3, <1>5, <1>6, <1>7, <1>8 DEF IInv

(* Only the process changes, or a race ends.                               *)
LEMMA KeepInv ==
    ASSUME IInv, NEW d \in Device, NEW q, Moves(d, q),
           q \in Writing => pc[d] \in Writing \/ saved[d],
           raced' = raced
              \/ (q = "off" /\ raced' = [raced EXCEPT ![d] = @ /\ Unpushed(d)]),
           SettingsOK', UNCHANGED <<file, oldFile, remote, acked>>
    PROVE  IInv'
<1>1. UNCHANGED <<kind, log, synced, saved, backup, remote, acked>>
  BY DEF file, oldFile
<1>2. ProcessOK' /\ pc'[d] = q /\ \A x \in Device \ {d} : pc'[x] = pc[x]
  BY <1>1, ProcessStep
<1>3. Unpushed(d) \in BOOLEAN
  BY DEF Unpushed, IsReplica
<1>4. raced' \in [Device -> BOOLEAN] /\ \A x \in Device \ {d} : raced'[x] = raced[x]
  BY <1>3 DEF IInv, DataOK
<1>5. DataOK'
  BY <1>1, <1>4 DEF IInv, DataOK
<1>6. NothingDestroyed'
  BY <1>1 DEF NothingDestroyed, IInv
<1>7. Ahead(d)'
  <2>1. Ahead(d)
    BY DEF IInv
  <2>2. raced'[d] = raced[d] \/ (q = "off" /\ ~Unpushed(d))
    BY DEF IInv, DataOK
  <2> QED
    BY <1>1, <1>2, <2>1, <2>2 DEF Ahead, IsReplica, Unpushed, Writing
<1>8. \A x \in Device \ {d} : Ahead(x)'
  BY <1>1, <1>2, <1>4, OthersAhead
<1> QED
  BY <1>2, <1>5, <1>6, <1>7, <1>8 DEF IInv

-----------------------------------------------------------------------------
(* Every action keeps the invariant. *)

(* No step but Configure and Install touches the settings. *)
LEMMA SettingsStep == IInv /\ [Next]_vars => SettingsOK'
<1> SUFFICES ASSUME IInv, [Next]_vars PROVE SettingsOK'
  OBVIOUS
<1>1. CASE UNCHANGED settings
  BY <1>1 DEF settings, SettingsOK, IInv
<1>2. ASSUME NEW d \in Device, Configure(d) PROVE SettingsOK'
  BY <1>2 DEF Configure, SettingsOK, IInv
<1>3. ASSUME NEW d \in Device, Install(d) PROVE SettingsOK'
  BY <1>3, ReplicaAssumption DEF Install, SettingsOK, IInv
<1>4. CASE Next
  BY <1>1, <1>2, <1>3, <1>4
  DEF Next, OpenPlain, OpenReplica, PullFirst, PullFails, Rename, BuildUpgraded,
      PrepareSchema, Migrate, Migrated, CopyTable, CopyFails, CopyEnds, PushUpgrade, Start, Write, DetachedSync,
      TickDone, TickCut, Shutdown, Finish, Stop
<1> QED
  BY <1>1, <1>4 DEF vars

(* A file is built, from nothing or from the remote database, or opened. *)
LEMMA BuildInv ==
    ASSUME IInv, NEW d \in Device, Build(d), SettingsOK',
           \/ OpenReplica(d)
           \/ BuildUpgraded(d)
    PROVE  IInv'
<1>1. log[d] \in Logs /\ remote \in Logs /\ remote \in Seq(Frame) /\ Len(remote) \in Nat
  BY SeqFacts DEF IInv, DataOK, Logs
<1>2. UNCHANGED <<saved, backup, remote, acked, raced, copied, pending>>
  BY DEF OpenReplica, BuildUpgraded, oldFile, beyond, tasks
<1>3. PICK q \in {"opened", "filling"} :
         pc' = [pc EXCEPT ![d] = q] /\ (q = "filling" => saved[d])
  BY DEF OpenReplica, BuildUpgraded, Goto, At, IInv, ProcessOK, Upgrading
<1>4. PICK k \in {"none", "plain", "unmarked", "replica"}, l \in Logs, n \in Nat :
         /\ kind' = [kind EXCEPT ![d] = k]
         /\ log' = [log EXCEPT ![d] = l]
         /\ synced' = [synced EXCEPT ![d] = n]
         /\ k # "none"
         /\ kind[d] = "none" => Len(l) = n
         /\ kind[d] # "none" => k = kind[d] /\ l = log[d] /\ n = synced[d]
  <2>1. CASE kind[d] = "none"
    BY <1>1, <2>1, EmptyLog DEF Build
  <2>2. CASE kind[d] # "none"
    <3>1. kind' = [kind EXCEPT ![d] = kind[d]] /\ log' = [log EXCEPT ![d] = log[d]]
          /\ synced' = [synced EXCEPT ![d] = synced[d]]
      BY <2>2 DEF Build, file, IInv, DataOK
    <3> QED
      BY <1>1, <2>2, <3>1 DEF IInv, DataOK
  <2> QED
    BY <2>1, <2>2
<1>5. \A x \in Device \ {d} : UNCHANGED <<kind[x], log[x], synced[x], saved[x], pc[x]>>
  BY <1>2, <1>3, <1>4 DEF IInv, DataOK, ProcessOK
<1>6. kind'[d] = k /\ log'[d] = l /\ synced'[d] = n
  BY <1>4 DEF IInv, DataOK
<1>7. Moves(d, q)
  BY <1>2, <1>3, <1>4, <1>6 DEF Moves, Phase, Upgrading, IInv, ProcessOK
<1>8. ProcessOK' /\ pc'[d] = q
  BY <1>5, <1>7, ProcessStep
<1>9. DataOK'
  BY <1>2, <1>4 DEF IInv, DataOK
<1>10. NothingDestroyed'
  <2>1. RowsOf(log[d]) \subseteq RowsOf(log'[d])
    <3>1. kind[d] = "none" => RowsOf(log[d]) = {}
      BY EmptyLog DEF IInv, DataOK
    <3> QED
      BY <1>4, <1>6, <3>1
  <2> QED
    BY <1>2, <1>5, <2>1 DEF NothingDestroyed, IInv
<1>11. Ahead(d)'
  <2>1. Ahead(d) /\ n \in Nat
    BY DEF IInv
  <2>2. ~(n > n)
    BY <2>1
  <2>3. q \notin Writing
    BY <1>3 DEF Writing
  <2>4. CASE kind[d] = "none"
    <3>1. ~Unpushed(d)'
      BY <1>4, <1>6, <2>2, <2>4 DEF Unpushed
    <3> QED
      BY <1>8, <2>3, <3>1 DEF Ahead
  <2>5. CASE kind[d] # "none"
    <3>1. kind'[d] = kind[d] /\ log'[d] = log[d] /\ synced'[d] = synced[d]
      BY <1>4, <1>6, <2>5
    <3> QED
      BY <1>2, <1>8, <2>1, <2>3, <3>1 DEF Ahead, IsReplica, Unpushed
  <2> QED
    BY <2>4, <2>5
<1>12. \A x \in Device \ {d} : Ahead(x)'
  BY <1>2, <1>5, OthersAhead
<1> QED
  BY <1>8, <1>9, <1>10, <1>11, <1>12 DEF IInv

(* The old file becomes the backup. *)
LEMMA RenameInv ==
    ASSUME IInv, NEW d \in Device, Rename(d), SettingsOK'
    PROVE  IInv'
<1>1. /\ saved' = [saved EXCEPT ![d] = TRUE] /\ backup' = [backup EXCEPT ![d] = log[d]]
      /\ kind' = [kind EXCEPT ![d] = "none"] /\ log' = [log EXCEPT ![d] = <<>>]
      /\ synced' = [synced EXCEPT ![d] = 0] /\ pc' = [pc EXCEPT ![d] = "renamed"]
      /\ UNCHANGED <<copied, pending, remote, acked, raced>> /\ ~saved[d]
  BY DEF Rename, Goto, tasks, beyond
<1>2. ProcessOK'
  <2>1. Moves(d, "renamed")
    BY <1>1 DEF Moves, Phase, IInv, ProcessOK, DataOK
  <2> QED
    BY <1>1, <2>1, ProcessStep DEF IInv, DataOK
<1>3. DataOK'
  BY <1>1, EmptyLog DEF IInv, DataOK
<1>4. NothingDestroyed'
  <2>1. backup[d] = <<>> /\ RowsOf(backup[d]) = {}
    BY <1>1, EmptyLog DEF IInv, DataOK
  <2>2. backup'[d] = log[d]
    BY <1>1 DEF IInv, DataOK
  <2>3. \A x \in Device \ {d} : log'[x] = log[x] /\ backup'[x] = backup[x]
    BY <1>1 DEF IInv, DataOK
  <2> QED
    BY <1>1, <2>1, <2>2, <2>3 DEF NothingDestroyed, IInv
<1>5. Ahead(d)'
  BY <1>1 DEF Ahead, IInv, DataOK
<1>6. \A x \in Device \ {d} : Ahead(x)'
  <2>1. \A x \in Device \ {d} : UNCHANGED <<kind[x], log[x], synced[x], saved[x], pc[x]>>
    BY <1>1 DEF IInv, DataOK, ProcessOK
  <2> QED
    BY <1>1, <2>1, OthersAhead
<1> QED
  BY <1>2, <1>3, <1>4, <1>5, <1>6 DEF IInv

(* A plain file is opened, or a new one made. *)
LEMMA OpenPlainInv ==
    ASSUME IInv, NEW d \in Device, OpenPlain(d), SettingsOK'
    PROVE  IInv'
<1>1. /\ kind' = [kind EXCEPT ![d] = "plain"] /\ pc' = [pc EXCEPT ![d] = "migrating"]
      /\ UNCHANGED <<log, synced, saved, backup, copied, pending, remote, acked, raced>>
  BY DEF OpenPlain, Goto, oldFile, tasks, beyond
<1>2. ProcessOK'
  <2>1. Moves(d, "migrating")
    BY <1>1 DEF Moves, Phase, Upgrading, IInv, ProcessOK, DataOK
  <2> QED
    BY <1>1, <2>1, ProcessStep DEF IInv, DataOK
<1>3. DataOK'
  BY <1>1 DEF IInv, DataOK
<1>4. NothingDestroyed'
  BY <1>1 DEF NothingDestroyed, IInv
<1>5. Ahead(d)'
  BY <1>1 DEF Ahead, IsReplica, IInv, DataOK
<1>6. \A x \in Device \ {d} : Ahead(x)'
  <2>1. \A x \in Device \ {d} : UNCHANGED <<kind[x], log[x], synced[x], saved[x], pc[x]>>
    BY <1>1 DEF IInv, DataOK, ProcessOK
  <2> QED
    BY <1>1, <2>1, OthersAhead
<1> QED
  BY <1>2, <1>3, <1>4, <1>5, <1>6 DEF IInv

(* A sync for good measure, successful, cut off, or none at all. *)
LEMMA MaybeSyncInv ==
    ASSUME IInv, NEW d \in Device, NEW q, MaybeSync(d), Moves(d, q),
           q \in Writing => pc[d] \in Writing \/ saved[d],
           SettingsOK', UNCHANGED <<oldFile, acked>>
    PROVE  IInv'
<1>1. CASE SyncDone(d)
  BY <1>1, SyncDoneInv
<1>2. CASE SyncCut(d)
  BY <1>2, SyncCutInv
<1>3. CASE NoSync
  BY <1>3, KeepInv DEF NoSync
<1> QED
  BY <1>1, <1>2, <1>3 DEF MaybeSync

(* The actions that sync keep the invariant ... *)
LEMMA SyncActionsInv ==
    ASSUME IInv, NEW d \in Device, SettingsOK',
           \/ PullFirst(d) \/ PullFails(d) \/ PushUpgrade(d) \/ Start(d)
           \/ DetachedSync(d) \/ TickDone(d) \/ TickCut(d) \/ Finish(d)
    PROVE  IInv'
<1>1. /\ pc \in [Device -> Phase] /\ copied \in [Device -> SUBSET Table]
      /\ pending \in [Device -> BOOLEAN] /\ kind \in [Device -> {"none", "plain", "unmarked", "replica"}]
      /\ pc[d] \in Upgrading => saved[d]
      /\ pc[d] \notin {"off", "renamed"} => kind[d] # "none"
  BY DEF IInv, ProcessOK, DataOK
<1>2. \A k \in {"none", "plain", "unmarked", "replica"} :
         /\ SyncDone(d) => kind'[d] = "replica"
         /\ SyncCut(d) \/ NoSync => kind'[d] = kind[d]
  BY <1>1 DEF SyncDone, SyncCut, NoSync, file
<1>3. MaybeSync(d) => kind'[d] = "replica" \/ kind'[d] = kind[d]
  BY <1>2 DEF MaybeSync
<1>4. pc = [pc EXCEPT ![d] = pc[d]]
  BY <1>1
<1>5. CASE PullFirst(d)
  <2>1. Moves(d, "migrating") /\ SyncDone(d) /\ UNCHANGED <<oldFile, acked>>
    BY <1>1, <1>2, <1>5 DEF PullFirst, Goto, Moves, Phase, Upgrading, tasks
  <2> QED
    BY <2>1, SyncDoneInv
<1>6. CASE PullFails(d)
  <2>1. Moves(d, "off") /\ SyncCut(d) /\ UNCHANGED <<oldFile, acked>>
    BY <1>1, <1>6 DEF PullFails, Goto, Moves, Phase, Upgrading, tasks
  <2> QED
    BY <2>1, SyncCutInv DEF Writing
<1>7. CASE PushUpgrade(d)
  <2>1. Moves(d, "ready") /\ MaybeSync(d) /\ UNCHANGED <<oldFile, acked>> /\ saved[d]
    BY <1>1, <1>3, <1>7 DEF PushUpgrade, At, Goto, Moves, Phase, Upgrading, tasks
  <2> QED
    BY <2>1, MaybeSyncInv
<1>8. CASE Start(d)
  <2>1. /\ Moves(d, "running") /\ MaybeSync(d) /\ UNCHANGED <<oldFile, acked>>
        /\ pc[d] \in Writing
    BY <1>1, <1>3, <1>8 DEF Start, At, Goto, Moves, Phase, Upgrading, Writing, tasks
  <2> QED
    BY <2>1, MaybeSyncInv
<1>9. CASE DetachedSync(d)
  <2>1. /\ Moves(d, pc[d]) /\ MaybeSync(d) /\ UNCHANGED <<oldFile, acked>>
        /\ pc[d] \in Writing
    BY <1>1, <1>3, <1>4, <1>9 DEF DetachedSync, Moves, Upgrading, Writing
  <2> QED
    BY <2>1, MaybeSyncInv
<1>10. CASE TickDone(d)
  <2>1. Moves(d, pc[d]) /\ SyncDone(d) /\ UNCHANGED <<oldFile, acked>>
    BY <1>1, <1>2, <1>4, <1>10 DEF TickDone, Serving, Moves, Upgrading, tasks
  <2> QED
    BY <2>1, SyncDoneInv
<1>11. CASE TickCut(d)
  <2>1. Moves(d, pc[d]) /\ SyncCut(d) /\ UNCHANGED <<oldFile, acked>> /\ pc[d] \in Writing
    BY <1>1, <1>2, <1>4, <1>11 DEF TickCut, Serving, Moves, Upgrading, Writing, tasks
  <2> QED
    BY <2>1, SyncCutInv
<1>12. CASE Finish(d)
  <2>1. Moves(d, "off") /\ MaybeSync(d) /\ UNCHANGED <<oldFile, acked>>
    BY <1>1, <1>12 DEF Finish, Goto, Moves, Phase, Upgrading
  <2> QED
    BY <2>1, MaybeSyncInv DEF Writing
<1> QED
  BY <1>5, <1>6, <1>7, <1>8, <1>9, <1>10, <1>11, <1>12

(* ... those that write to the file ... *)
LEMMA WritingActionsInv ==
    ASSUME IInv, NEW d \in Device, SettingsOK',
           \/ PrepareSchema(d)
           \/ Migrate(d)
           \/ \E t \in Table : CopyTable(d, t) \/ Write(d, t)
    PROVE  IInv'
<1>1. /\ pc \in [Device -> Phase] /\ copied \in [Device -> SUBSET Table]
      /\ pending \in [Device -> BOOLEAN] /\ log \in [Device -> Logs]
      /\ acked \in [Device -> SUBSET Row] /\ IsFiniteSet(acked[d])
      /\ pc[d] \in Upgrading => saved[d]
      /\ pc[d] \notin {"off", "renamed"} => kind[d] # "none"
      /\ log[d] \in Logs /\ backup[d] \in Logs
  BY DEF IInv, ProcessOK, DataOK
<1>2. pc = [pc EXCEPT ![d] = pc[d]] /\ acked = [acked EXCEPT ![d] = @ \cup {}]
  BY <1>1
<1>3. CASE Migrate(d)
  <2> DEFINE e == Migration(Version(log[d]) + 1)
  <2>1. Version(log[d]) < Latest
    BY <1>1, <1>3, VersionFacts, ReplicaAssumption DEF Migrate, IInv, SettingsOK
  <2>2. Append(log[d], e) \in Logs /\ e \in Frame
    BY <1>1, <2>1, LogAppendMigration
  <2> HIDE DEF e
  <2>3. /\ log' = [log EXCEPT ![d] = Append(@, e)]
        /\ UNCHANGED <<pc, kind, synced, oldFile, tasks, remote, acked, raced>>
        /\ pc[d] \in {"migrating", "filling"}
    BY <1>3 DEF Migrate, beyond, e
  <2>4. Moves(d, pc[d]) /\ (pc[d] \in Writing \/ saved[d]) /\ kind[d] # "none"
    BY <1>1, <1>2, <2>3 DEF Moves, Upgrading, Writing, tasks, oldFile
  <2>5. {} \in SUBSET e.rows /\ IsFiniteSet({}) /\ {} \subseteq Row
    BY FS_EmptySet
  <2>6. acked' = [acked EXCEPT ![d] = @ \cup {}]
    BY <1>2, <2>3
  <2> QED
    BY <2>2, <2>3, <2>4, <2>5, <2>6, AppendInv
<1>4. ASSUME NEW t \in Table, CopyTable(d, t) PROVE IInv'
  <2> DEFINE fresh == {r \in RowsOf(backup[d]) : r.table = t /\ ~Taken(log[d], r)}
             e == Written(fresh)
  <2>1. fresh \in SUBSET Row /\ IsFiniteSet(fresh)
    BY <1>1, RowsOfFacts, FS_Subset
  <2>2. Append(log[d], e) \in Logs /\ e \in Frame
    <3> HIDE DEF fresh
    <3> QED BY <1>1, <2>1, LogAppendRows
  <2>3. /\ log' = IF fresh = {} THEN log ELSE [log EXCEPT ![d] = Append(@, e)]
        /\ copied' = [copied EXCEPT ![d] = @ \cup {t}]
        /\ UNCHANGED <<pc, kind, synced, oldFile, pending, remote, acked, raced>>
        /\ pc[d] = "copying"
    BY <1>4 DEF CopyTable, beyond, At
  <2> HIDE DEF fresh, e
  <2>4. Moves(d, pc[d]) /\ saved[d] /\ kind[d] # "none"
    BY <1>1, <1>2, <2>3 DEF Moves, Upgrading, oldFile
  <2>5. CASE fresh = {}
    BY <2>3, <2>4, <2>5, KeepInv DEF file
  <2>6. CASE fresh # {}
    <3>1. {} \in SUBSET e.rows /\ IsFiniteSet({}) /\ {} \subseteq Row
      BY FS_EmptySet
    <3>2. acked' = [acked EXCEPT ![d] = @ \cup {}]
      BY <1>2, <2>3
    <3> QED
      BY <2>2, <2>3, <2>4, <2>6, <3>1, <3>2, AppendInv
  <2> QED
    BY <2>5, <2>6
<1>5. ASSUME NEW t \in Table, Write(d, t) PROVE IInv'
  <2> DEFINE row == [table |-> t, key |-> NextKey(log[d], t), by |-> d,
                     nth |-> Cardinality(acked[d]) + 1]
             e == Written({row})
  <2>1. row \in Row
    <3>1. NextKey(log[d], t) \in Nat
      BY <1>1, NextKeyFacts
    <3>2. Cardinality(acked[d]) + 1 \in 1 .. MaxWrites
      BY <1>1, <1>5, FS_CardinalityType, ReplicaAssumption DEF Write
    <3> QED
      BY <3>1, <3>2 DEF Row
  <2>2. /\ log' = [log EXCEPT ![d] = Append(@, e)]
        /\ acked' = [acked EXCEPT ![d] = @ \cup {row}]
        /\ UNCHANGED <<kind, synced, oldFile, copied, remote, raced>>
        /\ pc[d] = "running"
        /\ \/ pending' = [pending EXCEPT ![d] = TRUE] /\ pc' = [pc EXCEPT ![d] = "running"]
           \/ UNCHANGED pending /\ pc' = [pc EXCEPT ![d] = "pushing"]
    BY <1>2, <1>5 DEF Write, At, Goto
  <2> HIDE DEF row
  <2>3. {row} \in SUBSET Row /\ IsFiniteSet({row})
    BY <2>1, FS_Singleton
  <2>4. Append(log[d], e) \in Logs /\ e \in Frame /\ e.rows = {row}
    BY <1>1, <2>3, LogAppendRows DEF Written
  <2> HIDE DEF e
  <2>5. PICK q \in {"running", "pushing"} : Moves(d, q)
    BY <1>1, <2>2 DEF Moves, Phase, Upgrading
  <2>6. pc[d] \in Writing /\ kind[d] # "none"
    BY <1>1, <2>2 DEF Writing
  <2>7. {row} \in SUBSET e.rows
    BY <2>4
  <2> QED
    BY <2>2, <2>3, <2>4, <2>5, <2>6, <2>7, AppendInv
<1>6. CASE PrepareSchema(d)
  <2> DEFINE e == Written({})
  <2>1. {} \in SUBSET Row /\ IsFiniteSet({})
    BY FS_EmptySet
  <2>2. Append(log[d], e) \in Logs /\ e \in Frame
    BY <1>1, <2>1, LogAppendRows
  <2> HIDE DEF e
  <2>3. /\ log' = [log EXCEPT ![d] = Append(@, e)]
        /\ UNCHANGED <<pc, kind, synced, oldFile, tasks, remote, acked, raced>>
        /\ pc[d] \in {"migrating", "filling"}
    BY <1>6 DEF PrepareSchema, beyond, e
  <2>4. Moves(d, pc[d]) /\ (pc[d] \in Writing \/ saved[d]) /\ kind[d] # "none"
    BY <1>1, <1>2, <2>3 DEF Moves, Upgrading, Writing, tasks, oldFile
  <2>5. {} \in SUBSET e.rows /\ {} \subseteq Row
    OBVIOUS
  <2>6. acked' = [acked EXCEPT ![d] = @ \cup {}]
    BY <1>2, <2>3
  <2> QED
    BY <2>1, <2>2, <2>3, <2>4, <2>5, <2>6, AppendInv
<1> QED
  BY <1>3, <1>4, <1>5, <1>6

(* ... and those that only move the process or the settings. *)
LEMMA ProcessActionsInv ==
    ASSUME IInv, NEW d \in Device, SettingsOK',
           \/ Migrated(d) \/ CopyEnds(d) \/ Shutdown(d) \/ Stop(d)
           \/ Configure(d) \/ Install(d)
           \/ \E t \in Table : CopyFails(d, t)
    PROVE  IInv'
<1>1. /\ pc \in [Device -> Phase] /\ copied \in [Device -> SUBSET Table]
      /\ pending \in [Device -> BOOLEAN]
      /\ pc[d] \in Upgrading => saved[d]
      /\ pc[d] \notin {"off", "renamed"} => kind[d] # "none"
  BY DEF IInv, ProcessOK
<1>2. pc = [pc EXCEPT ![d] = pc[d]]
  BY <1>1
<1>3. CASE Migrated(d)
  <2>1. PICK q \in {"copying", "ready"} :
           /\ Moves(d, q)
           /\ q \in Writing => pc[d] \in Writing \/ saved[d]
           /\ UNCHANGED <<file, oldFile, remote, acked, raced>>
    BY <1>1, <1>3
    DEF Migrated, At, Goto, Moves, Phase, Upgrading, Writing, tasks, beyond, file, oldFile
  <2> QED
    BY <2>1, KeepInv
<1>4. CASE CopyEnds(d)
  <2>1. Moves(d, "copied") /\ UNCHANGED <<file, oldFile, remote, acked, raced>> /\ saved[d]
    BY <1>1, <1>4 DEF CopyEnds, At, Goto, Moves, Phase, Upgrading, beyond, file, oldFile
  <2> QED
    BY <2>1, KeepInv
<1>5. CASE Shutdown(d)
  <2>1. /\ Moves(d, "pushing") /\ UNCHANGED <<file, oldFile, remote, acked, raced>>
        /\ pc[d] \in Writing
    BY <1>1, <1>5
    DEF Shutdown, At, Goto, Moves, Phase, Upgrading, Writing, tasks, beyond, file, oldFile
  <2> QED
    BY <2>1, KeepInv
<1>6. CASE Stop(d) \/ \E t \in Table : CopyFails(d, t)
  <2>1. Exit(d) /\ UNCHANGED <<file, oldFile, remote, acked>>
    BY <1>6 DEF Stop, CopyFails
  <2>2. Moves(d, "off") /\ raced' = [raced EXCEPT ![d] = @ /\ Unpushed(d)]
    BY <1>1, <2>1 DEF Exit, Goto, Moves, Phase, Upgrading
  <2> QED
    BY <2>1, <2>2, KeepInv DEF Writing
<1>7. CASE Configure(d) \/ Install(d)
  <2>1. /\ Moves(d, pc[d]) /\ UNCHANGED <<file, oldFile, remote, acked, raced>>
        /\ pc[d] = "off"
    BY <1>1, <1>2, <1>7
    DEF Configure, Install, At, Moves, Upgrading, tasks, beyond
  <2> QED
    BY <2>1, KeepInv DEF Writing
<1> QED
  BY <1>3, <1>4, <1>5, <1>6, <1>7

(* So does every step. *)
LEMMA StepInv == IInv /\ [Next]_vars => IInv'
<1> SUFFICES ASSUME IInv, [Next]_vars PROVE IInv'
  OBVIOUS
<1>1. SettingsOK'
  BY SettingsStep
<1>2. ASSUME NEW d \in Device, OpenReplica(d) \/ BuildUpgraded(d) PROVE IInv'
  <2>1. Build(d)
    BY <1>2 DEF OpenReplica, BuildUpgraded
  <2> QED
    BY <1>1, <1>2, <2>1, BuildInv
<1>3. CASE Next
  BY <1>1, <1>2, <1>3, OpenPlainInv, RenameInv, SyncActionsInv, WritingActionsInv,
     ProcessActionsInv DEF Next
<1>4. CASE UNCHANGED vars
  <2>1. UNCHANGED <<pc, configured, shipped, kind, log, synced, saved, backup, copied,
                    pending, remote, acked, raced>>
    BY <1>4 DEF vars, settings, file, oldFile, tasks, beyond
  <2>2. ProcessOK' /\ DataOK' /\ NothingDestroyed'
    BY <2>1 DEF IInv, ProcessOK, DataOK, NothingDestroyed
  <2>3. ASSUME NEW d \in Device PROVE Ahead(d)'
    BY <2>1 DEF IInv, Ahead, IsReplica, Unpushed
  <2> QED
    BY <1>1, <2>2, <2>3 DEF IInv
<1> QED
  BY <1>3, <1>4

-----------------------------------------------------------------------------
(* The theorems. *)

(* The inductive invariant of the file, its backup and the remote database. *)
THEOREM Invariance == Spec => []IInv
<1> QED
  BY InitInv, StepInv, PTL DEF Spec

(* The state is always well formed, for any number of devices, tables and  *)
(* migrations.                                                             *)
THEOREM ReplicaTypeCorrect == Spec => []ReplicaTypeOK
<1>1. IInv => ReplicaTypeOK
  <2>1. Logs \subseteq Seq(Frame)
    BY DEF Logs
  <2> QED
    BY <2>1 DEF IInv, SettingsOK, ProcessOK, DataOK, ReplicaTypeOK
<1> QED
  BY <1>1, Invariance, PTL

(* No crash, refused sync or failed upgrade destroys an acknowledged row.  *)
THEOREM RowsKept == Spec => []NothingDestroyed
<1>1. IInv => NothingDestroyed
  BY DEF IInv
<1> QED
  BY <1>1, Invariance, PTL

(* The pull before the first write prevents every conflict that no other   *)
(* device and no upgrade has caused.                                       *)
THEOREM ConflictsHaveCause == Spec => []ConflictsExplained
<1>1. IInv => ConflictsExplained
  BY DEF IInv, Ahead, ConflictsExplained, Diverged, Unpushed, Comparable
<1> QED
  BY <1>1, Invariance, PTL

(* No database ever has a migration twice, or out of order.                *)
THEOREM SchemaApplied == Spec => []SchemaOnce
<1>1. IInv => SchemaOnce
  <2>1. \A l \in Logs : Ordered(l)
    BY DEF Logs
  <2> QED
    BY <2>1 DEF IInv, DataOK, SchemaOnce, Ordered
<1> QED
  BY <1>1, Invariance, PTL
=============================================================================
