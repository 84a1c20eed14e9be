-------------------------- MODULE GraphCheckProofs --------------------------
(***************************************************************************)
(* For every set of files `mt graph check` is right, and what it passes    *)
(* can be used.  In three parts:                                           *)
(*                                                                         *)
(*   The search of `detect_cycles`: its gray ids are its open calls        *)
(*   (GrayIsStack), every cycle it reports is one, and when there is one   *)
(*   it reports some (CyclesFound).  The proof rests on what the search    *)
(*   leaves behind: as long as no cycle was found, the black ids lead to   *)
(*   black ids only, and no set of black ids is knotted.                   *)
(*                                                                         *)
(*   The loading: what `Graph::load` makes of the files is a graph whose   *)
(*   nesting ends (LoadedWellFormed), whatever the check said of them.     *)
(*                                                                         *)
(*   The report: without issues the files are loaded as they are           *)
(*   (CleanMeansUsable), and the orphan rule, which climbs from an atom    *)
(*   through its clusters, agrees with the expansion, which descends       *)
(*   (OrphansMirrorExpansion).                                             *)
(***************************************************************************)
EXTENDS TargetResolution, CurriculumProofs

Colored(shade) == {id \in DOMAIN color : color[id] = shade}

(* The open calls and the colors are of the right shape. *)
SearchType ==
    /\ files \in Files
    /\ adj \in [KnownIds -> Seq(Id)]
    /\ color \in [KnownIds -> {"white", "gray", "black"}]
    /\ frames \in Seq([node : KnownIds, next : Nat \ {0}])
    /\ \A k \in DOMAIN frames : frames[k].next <= Len(adj[frames[k].node]) + 1

(* GrayIsStack, by positions: the gray ids are those on the stack, each    *)
(* once, and each call was made for the neighbour its caller looks at.     *)
StackOfGray ==
    /\ \A k \in DOMAIN frames : color[frames[k].node] = "gray"
    /\ \A id \in Colored("gray") : \E k \in DOMAIN frames : frames[k].node = id
    /\ \A j, k \in DOMAIN frames : frames[j].node = frames[k].node => j = k
    /\ \A k \in DOMAIN frames : k + 1 \in DOMAIN frames =>
          /\ frames[k].next > 1
          /\ frames[k + 1].node = adj[frames[k].node][frames[k].next - 1]

(* Nothing but black ids below a black id, nor below the neighbours an     *)
(* open call has done with.                                                *)
BlackClosed ==
    /\ \A id \in Colored("black") : \A j \in DOMAIN adj[id] :
          adj[id][j] \in DOMAIN color => color[adj[id][j]] = "black"
    /\ \A k \in DOMAIN frames : \A j \in 1 .. frames[k].next - 1 :
          LET n == adj[frames[k].node][j]
          IN  n \in DOMAIN color =>
                 \/ color[n] = "black"
                 \/ k + 1 \in DOMAIN frames /\ frames[k + 1].node = n
    /\ \A S \in SUBSET Colored("black") : ~Knotted(S)

IsCycle(c) ==
    /\ Len(c) > 1 /\ Head(c) = Last(c)
    /\ \A k \in 1 .. Len(c) - 1 : Contains(adj[c[k]], c[k + 1])

SearchInv ==
    /\ phase \in {"walk", "cycles", "checked", "loaded"}
    /\ phase = "walk" => files \in Files /\ frames = <<>> /\ cycles = {}
    /\ phase # "walk" => SearchType
    /\ phase = "cycles" => StackOfGray
    /\ phase = "cycles" /\ cycles = {} => BlackClosed
    /\ \A c \in cycles : IsCycle(c)
    /\ phase = "checked" => ((\E S \in SUBSET DOMAIN adj : Knotted(S)) => cycles # {})

-----------------------------------------------------------------------------

(* What the files hold, entry by entry. *)
LEMMA NodesAre ==
    ASSUME NEW f \in Files
    PROVE  /\ Len(f.nodes) \in Nat /\ DOMAIN f.nodes = 1 .. Len(f.nodes)
           /\ \A i \in DOMAIN f.nodes :
                 /\ f.nodes[i].id \in Id
                 /\ f.nodes[i].parent \in Nat
                 /\ f.nodes[i].area \in DOMAIN f.areas
                 /\ f.nodes[i].prereqs \in Seq(Id)
<1> DEFINE R == [id : Id, parent : Nat, area : DOMAIN f.areas, prereqs : Seq(Id), terminal : BOOLEAN]
<1>1. f.nodes \in Seq(R)
  BY GraphCheckAssumption
<1>2. \A r \in R : r.id \in Id /\ r.parent \in Nat /\ r.area \in DOMAIN f.areas /\ r.prereqs \in Seq(Id)
  OBVIOUS
<1> HIDE DEF R
<1>3. \A i \in DOMAIN f.nodes : f.nodes[i] \in R
  BY <1>1
<1>4. Len(f.nodes) \in Nat /\ DOMAIN f.nodes = 1 .. Len(f.nodes)
  BY <1>1
<1>5. QED BY <1>2, <1>3, <1>4

(* The prerequisites an id has in the files.                               *)
Listing(f, id) == {n \in DOMAIN f.nodes : n \in ReadIn(f) /\ f.nodes[n].id = id}
LEMMA EdgesAre ==
    ASSUME NEW f \in Files, NEW id
    PROVE  /\ EdgesOf(f, id) \in Seq(Id)
           /\ ToSet(EdgesOf(f, id)) = UNION {ToSet(f.nodes[n].prereqs) : n \in Listing(f, id)}
<1> DEFINE N == Len(f.nodes)
           In == Listing(f, id)
           below(n) == UNION {ToSet(f.nodes[k].prereqs) : k \in {j \in In : j <= n}}
           step == [n \in 1 .. N |-> [v \in Seq(Id) |-> IF n \in In THEN v \o f.nodes[n].prereqs ELSE v]]
<1>1. /\ N \in Nat /\ DOMAIN f.nodes = 1 .. N /\ <<>> \in Seq(Id)
      /\ \A n \in 1 .. N : f.nodes[n].prereqs \in Seq(Id)
  BY NodesAre
<1>2. \A n \in 1 .. N : n \in In <=> n \in ReadIn(f) /\ f.nodes[n].id = id
  BY <1>1 DEF Listing
<1>3. In \subseteq 1 .. N
  BY <1>1 DEF Listing
<1>0. N \in Nat
  BY <1>1
<1> HIDE DEF N, In
<1>4. step \in [1 .. N -> [Seq(Id) -> Seq(Id)]]
  BY <1>1
<1>5. PICK f0 : CountsUp(f0, N, Seq(Id), <<>>, step)
  <2> HIDE DEF step
  <2>1. QED BY <1>1, <1>4, CountRecursion
<1>6. /\ f0 \in [0 .. N -> Seq(Id)] /\ f0[0] = <<>>
      /\ \A n \in 1 .. N : f0[n] = step[n][f0[n - 1]]
  BY <1>5 DEF CountsUp
<1>7. ASSUME NEW n \in 1 .. N
      PROVE  f0[n] = IF n \in In THEN f0[n - 1] \o f.nodes[n].prereqs ELSE f0[n - 1]
  <2>1. n - 1 \in 0 .. N
    BY <1>1
  <2>2. f0[n - 1] \in Seq(Id)
    BY <2>1, <1>6
  <2>3. QED BY <2>2, <1>6
<1> HIDE DEF step
<1> DEFINE upTo[n \in 0 .. Len(f.nodes)] ==
             IF n = 0 THEN <<>>
             ELSE IF n \in ReadIn(f) /\ f.nodes[n].id = id THEN upTo[n - 1] \o f.nodes[n].prereqs
             ELSE upTo[n - 1]
<1>8. EdgesOf(f, id) = upTo[N]
  BY DEF EdgesOf, N
<1>9. \E h : h = [n \in 0 .. Len(f.nodes) |->
             IF n = 0 THEN <<>>
             ELSE IF n \in ReadIn(f) /\ f.nodes[n].id = id THEN h[n - 1] \o f.nodes[n].prereqs
             ELSE h[n - 1]]
  <2>1. f0 = [n \in 0 .. N |-> f0[n]]
    BY <1>6
  <2>2. \A n \in 0 .. N :
           f0[n] = IF n = 0 THEN <<>>
             ELSE IF n \in ReadIn(f) /\ f.nodes[n].id = id THEN f0[n - 1] \o f.nodes[n].prereqs
             ELSE f0[n - 1]
    <3> TAKE n \in 0 .. N
    <3>1. n = 0 \/ n \in 1 .. N
      BY <1>1
    <3>2. QED BY <3>1, <1>1, <1>2, <1>6, <1>7
  <2>3. f0 = [n \in 0 .. N |->
             IF n = 0 THEN <<>>
             ELSE IF n \in ReadIn(f) /\ f.nodes[n].id = id THEN f0[n - 1] \o f.nodes[n].prereqs
             ELSE f0[n - 1]]
    BY <2>1, <2>2, Zenon
  <2>4. QED BY <2>3 DEF N
<1>10. PICK h : /\ h = upTo
                /\ h = [n \in 0 .. Len(f.nodes) |->
                     IF n = 0 THEN <<>>
                     ELSE IF n \in ReadIn(f) /\ f.nodes[n].id = id THEN h[n - 1] \o f.nodes[n].prereqs
                     ELSE h[n - 1]]
  BY <1>9, Zenon
<1> HIDE DEF upTo
<1>11. h[0] = <<>>
  <2>1. 0 \in 0 .. Len(f.nodes)
    BY <1>1 DEF N
  <2>2. QED BY <1>10, <2>1, Zenon
<1>12. ASSUME NEW n \in 1 .. N
       PROVE  h[n] = IF n \in In THEN h[n - 1] \o f.nodes[n].prereqs ELSE h[n - 1]
  <2>1. n \in 0 .. Len(f.nodes) /\ n # 0
    BY <1>1 DEF N
  <2>2. h[n] = IF n \in ReadIn(f) /\ f.nodes[n].id = id THEN h[n - 1] \o f.nodes[n].prereqs
               ELSE h[n - 1]
    BY <1>10, <2>1, Zenon
  <2>3. QED BY <2>2, <1>2, Zenon
<1> DEFINE T == {n \in 0 .. N : h[n] \in Seq(Id) /\ ToSet(h[n]) = below(n)}
<1>13. 0 \in T
  <2>1. \A j \in In : ~(j <= 0)
    BY <1>0, <1>3
  <2>2. below(0) = {}
    BY <2>1
  <2>3. h[0] \in Seq(Id) /\ ToSet(h[0]) = {}
    BY <1>1, <1>11, EmptyList
  <2>4. 0 \in 0 .. N
    BY <1>0
  <2>5. h[0] \in Seq(Id) /\ ToSet(h[0]) = below(0)
    BY <2>2, <2>3
  <2> HIDE DEF below
  <2>6. QED BY <2>4, <2>5
<1>14. ASSUME NEW n \in 1 .. N, n - 1 \in T PROVE n \in T
  <2>1. PICK was : was = h[n - 1]
    OBVIOUS
  <2>2. was \in Seq(Id) /\ ToSet(was) = below(n - 1) /\ n \in 0 .. N
    BY <1>14, <2>1
  <2>3. CASE n \in In
    <3>1. \A j \in In : j <= n <=> j <= n - 1 \/ j = n
      BY <1>0, <1>3, <2>3
    <3>2. below(n) = below(n - 1) \cup ToSet(f.nodes[n].prereqs)
      BY <2>3, <3>1
    <3>3. h[n] = was \o f.nodes[n].prereqs
      BY <1>12, <2>1, <2>3
    <3>4. f.nodes[n].prereqs \in Seq(Id)
      BY <1>1
    <3> HIDE DEF below
    <3>5. /\ was \o f.nodes[n].prereqs \in Seq(Id)
          /\ ToSet(was \o f.nodes[n].prereqs) = ToSet(was) \cup ToSet(f.nodes[n].prereqs)
      BY <2>2, <3>4, Joined
    <3>6. QED BY <2>2, <3>2, <3>3, <3>5
  <2>4. CASE n \notin In
    <3>1. \A j \in In : j <= n <=> j <= n - 1
      BY <1>0, <1>3, <2>4
    <3>2. below(n) = below(n - 1)
      BY <3>1
    <3>3. h[n] = was
      BY <1>12, <2>1, <2>4
    <3>4. QED BY <2>2, <3>2, <3>3
  <2>5. QED BY <2>3, <2>4
<1>15. N \in T
  <2> HIDE DEF T
  <2>1. \A n \in 0 .. N : n \in T
    BY <1>1, <1>13, <1>14, CountInduction
  <2>2. QED BY <2>1, <1>1
<1>16. below(N) = UNION {ToSet(f.nodes[n].prereqs) : n \in In}
  <2>1. \A j \in In : j <= N
    BY <1>0, <1>3
  <2>2. QED BY <2>1
<1>17. EdgesOf(f, id) = h[N]
  BY <1>8, <1>10
<1> HIDE DEF below
<1>18. QED
  BY <1>15, <1>16, <1>17 DEF In

LEMMA EdgesType ==
    ASSUME NEW f \in Files
    PROVE  IdsIn(f) \subseteq Id /\ EdgesIn(f) \in [IdsIn(f) -> Seq(Id)]
<1>1. IdsIn(f) \subseteq Id
  BY NodesAre DEF IdsIn, ReadIn
<1>2. QED BY <1>1, EdgesAre DEF EdgesIn

-----------------------------------------------------------------------------

(* The files on disk. *)
LEMMA FilesAre ==
    ASSUME files \in Files
    PROVE  /\ Len(Nodes) \in Nat /\ DOMAIN Nodes = 1 .. Len(Nodes)
           /\ \A i \in DOMAIN Nodes :
                 /\ Nodes[i].id \in Id /\ Nodes[i].parent \in Nat
                 /\ Nodes[i].area \in DOMAIN files.areas /\ Nodes[i].prereqs \in Seq(Id)
BY NodesAre DEF Nodes

(* They come area by area, each concept after the one it is in. *)
LEMMA FileOrder ==
    ASSUME files \in Files
    PROVE  /\ \A i \in DOMAIN Nodes :
                 /\ Nodes[i].parent < i
                 /\ Nodes[i].parent # 0 => Nodes[Nodes[i].parent].area = Nodes[i].area
           /\ \A i, j \in DOMAIN Nodes : i < j => Nodes[i].area <= Nodes[j].area
BY GraphCheckAssumption DEF Nodes

(* What the loading goes by: the positions where an id stands in the files *)
(* and the areas it is the prefix of.                                      *)
NodesOf(id) == {i \in DOMAIN Nodes : Nodes[i].id = id}
AreasOf(id) == {a \in DOMAIN files.areas : files.areas[a].prefix = id}
LoadedIds == KnownIds \cup {files.areas[a].prefix : a \in DOMAIN files.areas}
FromNode(id) == NodesOf(id) # {} /\ \A a \in AreasOf(id) : a <= Nodes[Max(NodesOf(id))].area
RootsIn(a) == {j \in DOMAIN Nodes : Nodes[j].area = a /\ Nodes[j].parent = 0}
Within(i) == {j \in DOMAIN Nodes : Nodes[j].parent = i}

AllReadable == \A a \in DOMAIN files.areas : files.areas[a].header # "unreadable"

LEMMA LoadedIs ==
    Loaded = [ids |-> LoadedIds,
              areas |-> {files.areas[a].prefix : a \in DOMAIN files.areas},
              prereqs |-> [id \in LoadedIds |->
                  IF FromNode(id) THEN Nodes[Max(NodesOf(id))].prereqs ELSE <<>>],
              children |-> [id \in LoadedIds |->
                  IF FromNode(id) THEN IdsOf(Only(Positions, Within(Max(NodesOf(id)))))
                  ELSE IdsOf(Only(Positions, RootsIn(Max(AreasOf(id)))))],
              lesson |-> {},
              quizzes |-> [id \in LoadedIds |-> <<>>]]
BY DEF Loaded, LoadedIds, FromNode, NodesOf, AreasOf, RootsIn, Within, ChildrenOf

(* The ids at some of the positions, in file order. *)
LEMMA IdsListed ==
    ASSUME files \in Files, NEW S \in SUBSET DOMAIN Nodes, NEW list, list = IdsOf(Only(Positions, S))
    PROVE  /\ list \in Seq(Id)
           /\ ToSet(list) = {Nodes[j].id : j \in S}
           /\ list = <<>> <=> S = {}
<1>1. /\ Len(Nodes) \in Nat /\ DOMAIN Nodes = 1 .. Len(Nodes)
      /\ \A i \in DOMAIN Nodes : Nodes[i].id \in Id
  BY FilesAre
<1>2. Positions \in Seq(DOMAIN Nodes) /\ ToSet(Positions) = DOMAIN Nodes
  BY <1>1 DEF Positions, ToSet
<1>3. PICK at : at = Only(Positions, S)
  OBVIOUS
<1>4. at \in Seq(DOMAIN Nodes) /\ ToSet(at) = S
  BY <1>2, <1>3, OnlyKeeps
<1>5. DOMAIN at = 1 .. Len(at) /\ Len(at) \in Nat /\ \A k \in DOMAIN at : at[k] \in DOMAIN Nodes
  BY <1>4
<1>6. list = [k \in DOMAIN at |-> Nodes[at[k]].id]
  BY <1>3 DEF IdsOf
<1>7. list \in Seq(Id)
  BY <1>1, <1>5, <1>6
<1>8. ToSet(list) = {Nodes[j].id : j \in S}
  BY <1>4, <1>6 DEF ToSet
<1>9. list = <<>> <=> S = {}
  BY <1>7, <1>8, EmptyList, ZenonT(40)
<1>10. QED BY <1>7, <1>8, <1>9

(* Where an id of the loaded graph comes from. *)
LEMMA IdFrom ==
    ASSUME files \in Files, AllReadable, NEW id \in LoadedIds
    PROVE  /\ FromNode(id) => /\ Max(NodesOf(id)) \in DOMAIN Nodes
                              /\ Nodes[Max(NodesOf(id))].id = id
                              /\ \A j \in NodesOf(id) : j <= Max(NodesOf(id))
                              /\ \A a \in AreasOf(id) : a <= Nodes[Max(NodesOf(id))].area
           /\ ~FromNode(id) => /\ Max(AreasOf(id)) \in DOMAIN files.areas
                               /\ \A j \in NodesOf(id) : Nodes[j].area < Max(AreasOf(id))
<1>1. /\ Len(Nodes) \in Nat /\ DOMAIN Nodes = 1 .. Len(Nodes)
      /\ \A i \in DOMAIN Nodes : Nodes[i].area \in DOMAIN files.areas
  BY FilesAre
<1>2. DOMAIN files.areas = 1 .. Len(files.areas) /\ Len(files.areas) \in Nat
  BY GraphCheckAssumption
<1>3. NodesOf(id) \in SUBSET (0 .. Len(Nodes)) /\ AreasOf(id) \in SUBSET (0 .. Len(files.areas))
  BY <1>1, <1>2 DEF NodesOf, AreasOf
<1>4. NodesOf(id) # {} => Max(NodesOf(id)) \in NodesOf(id) /\ \A j \in NodesOf(id) : j <= Max(NodesOf(id))
  BY <1>1, <1>3, MaxIs
<1>5. AreasOf(id) # {} => Max(AreasOf(id)) \in AreasOf(id) /\ \A a \in AreasOf(id) : a <= Max(AreasOf(id))
  BY <1>2, <1>3, MaxIs
<1>6. CASE FromNode(id)
  BY <1>4, <1>6 DEF FromNode, NodesOf
<1>7. CASE ~FromNode(id)
  <2>1. NodesOf(id) = {} => AreasOf(id) # {}
    BY DEF LoadedIds, NodesOf, AreasOf, KnownIds, IdsIn, ReadIn, Nodes
  <2>2. NodesOf(id) # {} => \E a \in AreasOf(id) : ~(a <= Nodes[Max(NodesOf(id))].area)
    BY <1>7 DEF FromNode
  <2>3. Max(AreasOf(id)) \in AreasOf(id) /\ \A a \in AreasOf(id) : a <= Max(AreasOf(id))
    BY <1>5, <2>1, <2>2
  <2>4. ASSUME NEW j \in NodesOf(id) PROVE Nodes[j].area < Max(AreasOf(id))
    <3>1. PICK last \in NodesOf(id) : last = Max(NodesOf(id)) /\ j <= last
      BY <1>4, <2>4
    <3>2. PICK a \in AreasOf(id) : ~(a <= Nodes[last].area)
      BY <2>2, <3>1
    <3>3. j \in DOMAIN Nodes /\ last \in DOMAIN Nodes
      BY DEF NodesOf
    <3>4. Nodes[j].area <= Nodes[last].area
      BY <1>1, <1>2, <3>1, <3>3, FileOrder
    <3>5. /\ a \in Nat /\ Nodes[last].area \in Nat /\ Nodes[j].area \in Nat
          /\ Max(AreasOf(id)) \in Nat /\ a <= Max(AreasOf(id))
      BY <1>1, <1>2, <2>3, <3>3 DEF AreasOf
    <3>6. QED BY <3>2, <3>4, <3>5
  <2>5. QED BY <1>7, <2>3, <2>4 DEF AreasOf
<1>8. QED BY <1>6, <1>7

(* The rank of an id: the area it comes from and its place in it. *)
Area(id) == IF FromNode(id) THEN Nodes[Max(NodesOf(id))].area ELSE Max(AreasOf(id))
Place(id) == IF FromNode(id) THEN Max(NodesOf(id)) ELSE 0

LEMMA RankIs ==
    ASSUME files \in Files, AllReadable, NEW id \in LoadedIds
    PROVE  Area(id) \in 0 .. Len(files.areas) /\ Place(id) \in 0 .. Len(Nodes)
<1>1. /\ Len(Nodes) \in Nat /\ DOMAIN Nodes = 1 .. Len(Nodes)
      /\ \A i \in DOMAIN Nodes : Nodes[i].area \in DOMAIN files.areas
  BY FilesAre
<1>2. DOMAIN files.areas = 1 .. Len(files.areas) /\ Len(files.areas) \in Nat
  BY GraphCheckAssumption
<1>3. FromNode(id) => Max(NodesOf(id)) \in DOMAIN Nodes
  BY IdFrom
<1>4. ~FromNode(id) => Max(AreasOf(id)) \in DOMAIN files.areas
  BY IdFrom
<1>5. QED BY <1>1, <1>2, <1>3, <1>4 DEF Area, Place

(* A child comes later in the files than what it is a child of. *)
LEMMA ChildLater ==
    ASSUME files \in Files, AllReadable, NEW id \in LoadedIds,
           NEW c \in ToSet(Loaded.children[id])
    PROVE  /\ c \in LoadedIds
           /\ Area(id) < Area(c) \/ (Area(id) = Area(c) /\ Place(id) < Place(c))
<1>1. /\ Len(Nodes) \in Nat /\ DOMAIN Nodes = 1 .. Len(Nodes)
      /\ \A i \in DOMAIN Nodes : Nodes[i].area \in DOMAIN files.areas /\ Nodes[i].parent \in Nat
  BY FilesAre
<1>2. DOMAIN files.areas = 1 .. Len(files.areas) /\ Len(files.areas) \in Nat
  BY GraphCheckAssumption
<1>3. PICK j \in DOMAIN Nodes :
         /\ Nodes[j].id = c
         /\ FromNode(id) => Nodes[j].parent = Max(NodesOf(id))
         /\ ~FromNode(id) => Nodes[j].area = Max(AreasOf(id))
  <2>1. CASE FromNode(id)
    <3>1. Loaded.children[id] = IdsOf(Only(Positions, Within(Max(NodesOf(id)))))
      BY <2>1, LoadedIs
    <3>2. Within(Max(NodesOf(id))) \in SUBSET DOMAIN Nodes
      BY DEF Within
    <3>3. ToSet(Loaded.children[id]) = {Nodes[k].id : k \in Within(Max(NodesOf(id)))}
      BY <3>1, <3>2, IdsListed
    <3>4. QED BY <2>1, <3>3 DEF Within
  <2>2. CASE ~FromNode(id)
    <3>1. Loaded.children[id] = IdsOf(Only(Positions, RootsIn(Max(AreasOf(id)))))
      BY <2>2, LoadedIs
    <3>2. RootsIn(Max(AreasOf(id))) \in SUBSET DOMAIN Nodes
      BY DEF RootsIn
    <3>3. ToSet(Loaded.children[id]) = {Nodes[k].id : k \in RootsIn(Max(AreasOf(id)))}
      BY <3>1, <3>2, IdsListed
    <3>4. QED BY <2>2, <3>3 DEF RootsIn
  <2>3. QED BY <2>1, <2>2
<1>4. c \in LoadedIds
  BY <1>1, <1>3 DEF LoadedIds, KnownIds, IdsIn, ReadIn, AllReadable, Nodes
<1>5. j \in NodesOf(c)
  BY <1>3 DEF NodesOf
<1>6. Area(id) <= Nodes[j].area /\ (Area(id) = Nodes[j].area => Place(id) < j)
  <2>1. CASE FromNode(id)
    <3>1. Max(NodesOf(id)) \in DOMAIN Nodes /\ Nodes[j].parent = Max(NodesOf(id))
      BY <1>3, <2>1, IdFrom
    <3>2. Nodes[j].parent < j /\ Nodes[j].area = Nodes[Nodes[j].parent].area
      <4>1. Nodes[j].parent # 0
        BY <1>1, <3>1
      <4>2. QED BY <4>1, FileOrder
    <3>3. Nodes[j].area \in Nat /\ j \in Nat
      BY <1>1, <1>2
    <3>4. QED BY <2>1, <3>1, <3>2, <3>3 DEF Area, Place
  <2>2. CASE ~FromNode(id)
    BY <1>1, <1>2, <1>3, <2>2 DEF Area, Place
  <2>3. QED BY <2>1, <2>2
<1>7. Nodes[j].area < Area(c) \/ (Nodes[j].area <= Area(c) /\ j <= Place(c))
  <2>1. CASE FromNode(c)
    <3>1. PICK last \in DOMAIN Nodes : last = Max(NodesOf(c)) /\ j <= last
      BY <1>4, <1>5, <2>1, IdFrom
    <3>2. Nodes[j].area <= Nodes[last].area
      BY <1>1, <1>2, <3>1, FileOrder
    <3>3. QED BY <2>1, <3>1, <3>2 DEF Area, Place
  <2>2. CASE ~FromNode(c)
    BY <1>4, <1>5, <2>2, IdFrom DEF Area
  <2>3. QED BY <2>1, <2>2
<1>8. /\ Area(id) \in Nat /\ Area(c) \in Nat /\ Place(id) \in Nat /\ Place(c) \in Nat
      /\ Nodes[j].area \in Nat /\ j \in Nat
  BY <1>1, <1>2, <1>4, RankIs
<1>9. QED BY <1>4, <1>6, <1>7, <1>8

(* Files that can be read make a graph as the algorithms need it: nesting  *)
(* is that of the files, even where ids are used more than once.           *)
LEMMA LoadedWellFormed ==
    ASSUME files \in Files, AllReadable
    PROVE  WellFormed(Loaded)
<1>1. /\ Len(Nodes) \in Nat /\ DOMAIN Nodes = 1 .. Len(Nodes)
      /\ \A i \in DOMAIN Nodes : Nodes[i].id \in Id /\ Nodes[i].prereqs \in Seq(Id)
  BY FilesAre
<1>2. DOMAIN files.areas = 1 .. Len(files.areas) /\ Len(files.areas) \in Nat
  BY GraphCheckAssumption
<1>3. \A a \in DOMAIN files.areas : files.areas[a].prefix \in Id
  <2> DEFINE R == [prefix : Id, stated : Id, header : {"ok", "bad", "unreadable"}]
  <2>1. files.areas \in Seq(R)
    BY GraphCheckAssumption
  <2>2. \A r \in R : r.prefix \in Id
    OBVIOUS
  <2> HIDE DEF R
  <2>3. QED BY <2>1, <2>2
<1>4. LoadedIds \subseteq Id /\ IsFiniteSet(LoadedIds)
  <2> DEFINE P == {files.areas[a].prefix : a \in DOMAIN files.areas}
             K == {Nodes[i].id : i \in Read}
  <2>1. LoadedIds = K \cup P
    BY DEF LoadedIds, KnownIds, IdsIn, Read, Nodes
  <2>2. Read \subseteq DOMAIN Nodes
    BY DEF Read, ReadIn, Nodes
  <2>3. K \subseteq Id /\ P \subseteq Id
    BY <1>1, <1>3, <2>2
  <2>4. PICK ids, prefixes : /\ ids = [i \in DOMAIN Nodes |-> Nodes[i].id]
                             /\ prefixes = [a \in DOMAIN files.areas |-> files.areas[a].prefix]
    OBVIOUS
  <2>5. ids \in Seq(Id) /\ prefixes \in Seq(Id) /\ K \subseteq ToSet(ids) /\ P = ToSet(prefixes)
    <3>1. ids \in Seq(Id) /\ prefixes \in Seq(Id)
      BY <1>1, <1>2, <1>3, <2>4
    <3>2. K \subseteq ToSet(ids)
      BY <2>2, <2>4 DEF ToSet
    <3>3. P = ToSet(prefixes)
      BY <2>4 DEF ToSet
    <3>4. QED BY <3>1, <3>2, <3>3
  <2>6. IsFiniteSet(K) /\ IsFiniteSet(P)
    BY <2>5, ListFinite, FS_Subset
  <2> HIDE DEF K, P
  <2>7. IsFiniteSet(K \cup P)
    BY <2>6, FS_Union
  <2>8. QED BY <2>1, <2>3, <2>7
<1>5. ASSUME NEW id \in LoadedIds
      PROVE  Loaded.prereqs[id] \in Seq(Id) /\ Loaded.children[id] \in Seq(Id)
  <2>1. CASE FromNode(id)
    <3>1. /\ Loaded.prereqs[id] = Nodes[Max(NodesOf(id))].prereqs
          /\ Loaded.children[id] = IdsOf(Only(Positions, Within(Max(NodesOf(id)))))
      BY <2>1, LoadedIs
    <3>2. Within(Max(NodesOf(id))) \in SUBSET DOMAIN Nodes
      BY DEF Within
    <3>3. Max(NodesOf(id)) \in DOMAIN Nodes
      BY <2>1, IdFrom
    <3>4. QED BY <1>1, <3>1, <3>2, <3>3, IdsListed
  <2>2. CASE ~FromNode(id)
    <3>1. /\ Loaded.prereqs[id] = <<>>
          /\ Loaded.children[id] = IdsOf(Only(Positions, RootsIn(Max(AreasOf(id)))))
      BY <2>2, LoadedIs
    <3>2. RootsIn(Max(AreasOf(id))) \in SUBSET DOMAIN Nodes
      BY DEF RootsIn
    <3>3. <<>> \in Seq(Id)
      OBVIOUS
    <3>4. QED BY <3>1, <3>2, <3>3, IdsListed
  <2>3. QED BY <2>1, <2>2
<1>6. ASSUME NEW S \in SUBSET LoadedIds, S # {}
      PROVE  \E id \in S : ToSet(Loaded.children[id]) \cap S = {}
  <2> DEFINE areas == {Area(id) : id \in S}
             late == {id \in S : Area(id) = Max(areas)}
             places == {Place(id) : id \in late}
  <2>1. \A id \in S : Area(id) \in 0 .. Len(files.areas) /\ Place(id) \in 0 .. Len(Nodes)
    BY RankIs
  <2>2. Max(areas) \in areas /\ \A a \in areas : a <= Max(areas)
    <3>1. areas \in SUBSET (0 .. Len(files.areas)) /\ areas # {}
      BY <1>6, <2>1
    <3> HIDE DEF areas
    <3>2. QED BY <1>2, <3>1, MaxIs
  <2>3. late # {} /\ late \subseteq S
    BY <2>2
  <2>4. Max(places) \in places /\ \A p \in places : p <= Max(places)
    <3>1. places \in SUBSET (0 .. Len(Nodes)) /\ places # {}
      BY <2>1, <2>3
    <3> HIDE DEF places
    <3>2. QED BY <1>1, <3>1, MaxIs
  <2>5. PICK id \in late : Place(id) = Max(places)
    BY <2>4
  <2>6. id \in S /\ Area(id) = Max(areas)
    OBVIOUS
  <2>7. ASSUME NEW c \in ToSet(Loaded.children[id]) \cap S PROVE FALSE
    <3>1. Area(id) < Area(c) \/ (Area(id) = Area(c) /\ Place(id) < Place(c))
      BY <2>6, ChildLater
    <3>2. Area(c) <= Area(id)
      BY <2>2, <2>6
    <3>3. /\ Area(c) \in Nat /\ Area(id) \in Nat /\ Place(c) \in Nat /\ Place(id) \in Nat
      BY <1>1, <1>2, <2>1, <2>6
    <3>4. Area(c) = Area(id) /\ Place(id) < Place(c)
      BY <3>1, <3>2, <3>3
    <3>5. c \in late
      BY <3>4, <2>6
    <3>6. Place(c) <= Place(id)
      BY <2>4, <2>5, <3>5
    <3>7. QED BY <3>3, <3>4, <3>6
  <2>8. QED BY <2>6, <2>7
<1>7. /\ DOMAIN Loaded = {"ids", "areas", "prereqs", "children", "lesson", "quizzes"}
      /\ Loaded.ids = LoadedIds /\ Loaded.areas \subseteq LoadedIds
      /\ \A id \in LoadedIds : Loaded.quizzes[id] = <<>>
  BY LoadedIs DEF LoadedIds
<1>8. PICK g : g = Loaded
  OBVIOUS
<1>9. \A id \in g.ids : g.quizzes[id] \in Seq([id : {id} \X (1 .. MaxQuiz), difficulty : Difficulty])
  <2>1. \A R : <<>> \in Seq(R)
    OBVIOUS
  <2>2. QED BY <1>7, <1>8, <2>1
<1>10. WellFormed(g)
  <2>1. g.ids \subseteq Id /\ IsFiniteSet(g.ids) /\ g.areas \subseteq g.ids
    BY <1>4, <1>7, <1>8
  <2>2. \A id \in g.ids : g.prereqs[id] \in Seq(Id) /\ g.children[id] \in Seq(Id)
    BY <1>5, <1>7, <1>8
  <2>3. \A S \in SUBSET g.ids : S # {} => \E id \in S : ToSet(g.children[id]) \cap S = {}
    BY <1>6, <1>7, <1>8
  <2>4. DOMAIN g = {"ids", "areas", "prereqs", "children", "lesson", "quizzes"}
    BY <1>7, <1>8
  <2>5. QED BY <1>9, <2>1, <2>2, <2>3, <2>4 DEF WellFormed
<1>11. QED BY <1>8, <1>10

-----------------------------------------------------------------------------

(* The files are read and the search is about to begin. *)
LEMMA SearchInit == ResInit => SearchInv
<1> SUFFICES ASSUME ResInit PROVE SearchInv
    OBVIOUS
<1> QED
    BY DEF ResInit, GCInit, SearchInv

(* Before the first call everything is white and nothing is black. *)
LEMMA WalkStep == SearchInv /\ WalkFiles => SearchInv'
<1> SUFFICES ASSUME SearchInv, WalkFiles PROVE SearchInv'
    OBVIOUS
<1>1. files \in Files /\ frames = <<>> /\ cycles = {}
    BY DEF SearchInv, WalkFiles
<1>2. /\ adj' \in [KnownIds -> Seq(Id)]
      /\ color' = [id \in KnownIds |-> "white"]
      /\ frames' = <<>> /\ cycles' = {} /\ files' = files /\ KnownIds' = KnownIds
      /\ phase' = "cycles"
    BY <1>1, EdgesType DEF WalkFiles, KnownIds
<1>3. SearchType'
    BY <1>1, <1>2 DEF SearchType
<1>4. Colored("gray")' = {} /\ Colored("black")' = {}
    BY <1>2 DEF Colored
<1>5. StackOfGray'
    BY <1>2, <1>4 DEF StackOfGray
<1>6. BlackClosed'
    BY <1>2, <1>4 DEF BlackClosed, Knotted
<1> QED
    BY <1>2, <1>3, <1>5, <1>6 DEF SearchInv

(* A search from an id not seen yet: one open call that has done nothing.  *)
LEMMA StartStep == SearchInv /\ StartSearch => SearchInv'
<1> SUFFICES ASSUME SearchInv, StartSearch PROVE SearchInv'
    OBVIOUS
<1>1. phase = "cycles" /\ SearchType /\ StackOfGray /\ (cycles = {} => BlackClosed)
    BY DEF SearchInv, StartSearch
<1>2. PICK id \in DOMAIN color : /\ color[id] = "white"
                                 /\ frames' = <<[node |-> id, next |-> 1]>>
                                 /\ color' = [color EXCEPT ![id] = "gray"]
    BY DEF StartSearch
<1>3. UNCHANGED <<files, phase, issues, adj, cycles>> /\ frames = <<>> /\ KnownIds' = KnownIds
    BY DEF StartSearch, KnownIds
<1>4. id \in KnownIds /\ DOMAIN color = KnownIds /\ DOMAIN adj = KnownIds
    BY <1>1 DEF SearchType
<1>5. /\ DOMAIN frames' = {1} /\ frames'[1] = [node |-> id, next |-> 1]
      /\ frames' \in Seq([node : KnownIds, next : Nat \ {0}])
    BY <1>2, <1>4
<1>6. adj[id] \in Seq(Id) /\ Len(adj[id]) \in Nat
    BY <1>1, <1>4 DEF SearchType
<1>7. color' \in [KnownIds -> {"white", "gray", "black"}]
    BY <1>1, <1>2 DEF SearchType
<1>8. SearchType'
    BY <1>1, <1>3, <1>5, <1>6, <1>7 DEF SearchType
<1>9. Colored("gray") = {}
    BY <1>1, <1>3 DEF StackOfGray
<1>10. Colored("gray")' = {id} /\ Colored("black")' = Colored("black")
    BY <1>1, <1>2, <1>9 DEF Colored, SearchType
<1>11. StackOfGray'
    BY <1>2, <1>4, <1>5, <1>7, <1>10 DEF StackOfGray, Colored
<1>12. cycles = {} => BlackClosed'
  <2> SUFFICES ASSUME cycles = {} PROVE BlackClosed'
      OBVIOUS
  <2>1. BlackClosed
      BY <1>1
  <2>2. ASSUME NEW b \in Colored("black")', NEW j \in DOMAIN adj'[b],
               adj'[b][j] \in DOMAIN color'
        PROVE  color'[adj'[b][j]] = "black"
    <3>1. color[adj[b][j]] = "black"
        BY <2>1, <2>2, <1>3, <1>7, <1>10, <1>1 DEF BlackClosed, SearchType
    <3> QED
        BY <3>1, <1>2, <1>3, <1>4, <2>2
  <2>3. \A k \in DOMAIN frames' : 1 .. frames'[k].next - 1 = {}
      BY <1>5
  <2>4. \A S \in SUBSET Colored("black")' : ~Knotted(S)'
      BY <2>1, <1>3, <1>10 DEF BlackClosed, Knotted
  <2> QED
      BY <2>2, <2>3, <2>4 DEF BlackClosed
<1> QED
    BY <1>1, <1>3, <1>8, <1>11, <1>12 DEF SearchInv, IsCycle

(* A sequence without its last element. *)
LEMMA FrontOf ==
    ASSUME NEW S, NEW s \in Seq(S), s # <<>>
    PROVE  /\ Front(s) \in Seq(S) /\ DOMAIN Front(s) = 1 .. Len(s) - 1
           /\ \A k \in 1 .. Len(s) - 1 : Front(s)[k] = s[k]
BY DEF Front

(* An element of a sequence over S is in S. *)
LEMMA ElementOf == ASSUME NEW S, NEW s \in Seq(S), NEW i \in DOMAIN s PROVE s[i] \in S
OBVIOUS

(* What a call that goes on to its next neighbour n leaves of the stack.   *)
LEMMA AdvancedFrames ==
    ASSUME SearchType, frames # <<>>, Top.next <= Len(adj[Top.node])
    PROVE  /\ Len(frames) \in DOMAIN frames /\ Len(frames) \in Nat \ {0}
           /\ DOMAIN frames = 1 .. Len(frames)
           /\ Top = frames[Len(frames)] /\ Top.node \in KnownIds /\ Top.next \in Nat \ {0}
           /\ Top.next \in DOMAIN adj[Top.node]
           /\ Advanced \in Seq([node : KnownIds, next : Nat \ {0}])
           /\ DOMAIN Advanced = DOMAIN frames /\ Len(Advanced) = Len(frames)
           /\ \A k \in DOMAIN frames :
                 /\ Advanced[k].node = frames[k].node
                 /\ k < Len(frames) => Advanced[k] = frames[k]
                 /\ Advanced[k].next <= Len(adj[Advanced[k].node]) + 1
           /\ Advanced[Len(frames)].next = Top.next + 1
<1>1. frames \in Seq([node : KnownIds, next : Nat \ {0}])
    BY DEF SearchType
<1>2. /\ Len(frames) \in DOMAIN frames /\ Len(frames) \in Nat \ {0}
      /\ DOMAIN frames = 1 .. Len(frames)
    BY <1>1
<1>0. Top = frames[Len(frames)]
    BY DEF Top, Last
<1>a. frames[Len(frames)] \in [node : KnownIds, next : Nat \ {0}]
    BY <1>1, <1>2, ElementOf
<1>3. Top = frames[Len(frames)] /\ Top.node \in KnownIds /\ Top.next \in Nat \ {0}
    BY <1>0, <1>a
<1>4. adj[Top.node] \in Seq(Id)
    BY <1>3 DEF SearchType
<1>5. Top.next \in DOMAIN adj[Top.node]
    BY <1>3, <1>4
<1>6. [Top EXCEPT !.next = Top.next + 1] \in [node : KnownIds, next : Nat \ {0}]
    BY <1>0, <1>a, <1>3
<1>7. Advanced = [frames EXCEPT ![Len(frames)] = [Top EXCEPT !.next = Top.next + 1]]
    BY <1>1, <1>2, <1>3 DEF Advanced
<1>8. Advanced \in Seq([node : KnownIds, next : Nat \ {0}])
    BY <1>1, <1>2, <1>6, <1>7
<1>9. DOMAIN Advanced = DOMAIN frames /\ Len(Advanced) = Len(frames)
    BY <1>1, <1>2, <1>7, <1>8
<1>10. /\ Advanced[Len(frames)].next = Top.next + 1
       /\ Advanced[Len(frames)].node = Top.node
    BY <1>2, <1>3, <1>7, <1>1
<1>11. ASSUME NEW k \in DOMAIN frames
       PROVE  /\ Advanced[k].node = frames[k].node
              /\ k < Len(frames) => Advanced[k] = frames[k]
              /\ Advanced[k].next <= Len(adj[Advanced[k].node]) + 1
  <2>1. CASE k = Len(frames)
      BY <2>1, <1>3, <1>4, <1>10, <1>2
  <2>2. CASE k # Len(frames)
      BY <2>2, <1>7, <1>2 DEF SearchType
  <2> QED
      BY <2>1, <2>2
<1> QED
    BY <1>2, <1>3, <1>5, <1>8, <1>9, <1>10, <1>11

(* What the three cases of a neighbour share.                              *)
Visiting == SearchInv /\ VisitNeighbor
Neighbor == adj[Top.node][Top.next]

(* The check is in its search, and the invariant gives what it says there. *)
LEMMA VisitFacts ==
    ASSUME Visiting
    PROVE  /\ phase = "cycles" /\ SearchType /\ StackOfGray /\ (cycles = {} => BlackClosed)
           /\ frames # <<>> /\ Top.next <= Len(adj[Top.node])
           /\ UNCHANGED <<files, phase, issues, adj, graph, targets>> /\ KnownIds' = KnownIds
           /\ DOMAIN color = KnownIds /\ DOMAIN adj = KnownIds
BY DEF Visiting, SearchInv, VisitNeighbor, KnownIds, SearchType

(* A call that has done with a neighbour leaves the open calls as they are. *)
LEMMA AdvancedStack ==
    ASSUME Visiting, frames' = Advanced, color' = color
    PROVE  StackOfGray'
<1>1. /\ SearchType /\ StackOfGray /\ adj' = adj
      /\ frames # <<>> /\ Top.next <= Len(adj[Top.node])
    BY VisitFacts
<1>2. /\ DOMAIN frames = 1 .. Len(frames) /\ Len(frames) \in Nat \ {0}
      /\ DOMAIN Advanced = DOMAIN frames
      /\ \A k \in DOMAIN frames :
            /\ Advanced[k].node = frames[k].node
            /\ k < Len(frames) => Advanced[k] = frames[k]
    BY <1>1, AdvancedFrames
<1>3. /\ DOMAIN frames' = DOMAIN frames
      /\ \A k \in DOMAIN frames : frames'[k].node = frames[k].node
    BY <1>2
<1>4. Colored("gray")' = Colored("gray")
    BY DEF Colored
<1>5. /\ \A k \in DOMAIN frames : color[frames[k].node] = "gray"
      /\ \A id \in Colored("gray") : \E k \in DOMAIN frames : frames[k].node = id
      /\ \A j, k \in DOMAIN frames : frames[j].node = frames[k].node => j = k
    BY <1>1 DEF StackOfGray
<1>6. \A k \in DOMAIN frames' : color'[frames'[k].node] = "gray"
    BY <1>3, <1>5
<1>7. ASSUME NEW id \in Colored("gray")'
      PROVE  \E k \in DOMAIN frames' : frames'[k].node = id
  <2>1. PICK k \in DOMAIN frames : frames[k].node = id
      BY <1>4, <1>5
  <2> QED
      BY <2>1, <1>3
<1>8. ASSUME NEW j \in DOMAIN frames', NEW k \in DOMAIN frames',
             frames'[j].node = frames'[k].node
      PROVE  j = k
    BY <1>3, <1>5, <1>8
<1>9. ASSUME NEW k \in DOMAIN frames', k + 1 \in DOMAIN frames'
      PROVE  /\ frames'[k].next > 1
             /\ frames'[k + 1].node = adj'[frames'[k].node][frames'[k].next - 1]
  <2>1. k \in DOMAIN frames /\ k + 1 \in DOMAIN frames
      BY <1>3, <1>9
  <2>2. k < Len(frames)
      BY <2>1, <1>2
  <2>3. frames'[k] = frames[k] /\ frames'[k + 1].node = frames[k + 1].node
      BY <2>1, <2>2, <1>2, <1>3
  <2> QED
      BY <2>1, <2>3, <1>1 DEF StackOfGray
<1> QED
    BY <1>6, <1>7, <1>8, <1>9 DEF StackOfGray

(* A black neighbour, or one no file defines, is passed over.              *)
LEMMA VisitDone ==
    ASSUME Visiting, Neighbor \in DOMAIN color => color[Neighbor] = "black"
    PROVE  SearchInv'
<1>1. /\ phase = "cycles" /\ SearchType /\ StackOfGray /\ (cycles = {} => BlackClosed)
      /\ frames # <<>> /\ Top.next <= Len(adj[Top.node])
      /\ UNCHANGED <<files, phase, issues, adj, graph, targets>> /\ KnownIds' = KnownIds
      /\ DOMAIN color = KnownIds /\ DOMAIN adj = KnownIds
    BY VisitFacts
<1>2. frames' = Advanced /\ color' = color /\ cycles' = cycles
    BY DEF Visiting, VisitNeighbor, Neighbor
<1>3. /\ Len(frames) \in DOMAIN frames /\ Len(frames) \in Nat \ {0}
      /\ DOMAIN frames = 1 .. Len(frames)
      /\ Top = frames[Len(frames)] /\ Top.node \in KnownIds /\ Top.next \in Nat \ {0}
      /\ Top.next \in DOMAIN adj[Top.node]
      /\ Advanced \in Seq([node : KnownIds, next : Nat \ {0}])
      /\ DOMAIN Advanced = DOMAIN frames /\ Len(Advanced) = Len(frames)
      /\ \A k \in DOMAIN frames :
            /\ Advanced[k].node = frames[k].node
            /\ k < Len(frames) => Advanced[k] = frames[k]
            /\ Advanced[k].next <= Len(adj[Advanced[k].node]) + 1
      /\ Advanced[Len(frames)].next = Top.next + 1
    BY <1>1, AdvancedFrames
<1>4. SearchType'
    BY <1>1, <1>2, <1>3 DEF SearchType
<1>5. Colored("gray")' = Colored("gray") /\ Colored("black")' = Colored("black")
    BY <1>2 DEF Colored
<1>6. StackOfGray'
    BY <1>2, AdvancedStack
<1>7. cycles = {} => BlackClosed'
  <2> SUFFICES ASSUME cycles = {} PROVE BlackClosed'
      OBVIOUS
  <2>1. BlackClosed
      BY <1>1
  <2>2. ASSUME NEW k \in DOMAIN frames', NEW j \in 1 .. frames'[k].next - 1,
               adj'[frames'[k].node][j] \in DOMAIN color'
        PROVE  \/ color'[adj'[frames'[k].node][j]] = "black"
               \/ k + 1 \in DOMAIN frames' /\ frames'[k + 1].node = adj'[frames'[k].node][j]
    <3>1. k \in DOMAIN frames /\ frames'[k].node = frames[k].node
        BY <1>2, <1>3
    <3>2. CASE k < Len(frames)
      <4>1. /\ frames'[k] = frames[k] /\ k + 1 \in DOMAIN frames
            /\ frames'[k + 1].node = frames[k + 1].node
          BY <3>1, <3>2, <1>2, <1>3
      <4>2. /\ adj[frames[k].node][j] \in DOMAIN color
            /\ j \in 1 .. frames[k].next - 1
          BY <4>1, <2>2, <1>1, <1>2
      <4>3. \/ color[adj[frames[k].node][j]] = "black"
            \/ frames[k + 1].node = adj[frames[k].node][j]
          BY <4>2, <3>1, <2>1 DEF BlackClosed
      <4> QED
          BY <4>1, <4>3, <1>1, <1>2, <1>3
    <3>3. CASE k = Len(frames) /\ j = Top.next
        BY <3>1, <3>3, <2>2, <1>1, <1>2, <1>3 DEF Neighbor
    <3>4. CASE k = Len(frames) /\ j # Top.next
      <4>1. /\ j \in 1 .. frames[k].next - 1
            /\ k + 1 \notin DOMAIN frames
          BY <3>4, <2>2, <1>2, <1>3
      <4>2. adj[frames[k].node][j] \in DOMAIN color
          BY <3>1, <2>2, <1>1, <1>2
      <4>3. color[adj[frames[k].node][j]] = "black"
          BY <4>1, <4>2, <3>1, <2>1 DEF BlackClosed
      <4> QED
          BY <4>3, <3>1, <1>1, <1>2
    <3> QED
        BY <3>1, <3>2, <3>3, <3>4, <1>3
  <2>3. \A b \in Colored("black")' : \A j \in DOMAIN adj'[b] :
           adj'[b][j] \in DOMAIN color' => color'[adj'[b][j]] = "black"
      BY <2>1, <1>1, <1>2, <1>5 DEF BlackClosed
  <2>4. \A S \in SUBSET Colored("black")' : ~Knotted(S)'
      BY <2>1, <1>1, <1>5 DEF BlackClosed, Knotted
  <2> QED
      BY <2>2, <2>3, <2>4 DEF BlackClosed
<1> QED
    BY <1>1, <1>2, <1>4, <1>6, <1>7, SMTT(30) DEF SearchInv, IsCycle, Visiting

(* A white neighbour is searched: it becomes gray and its call is on top.  *)
LEMMA VisitWhite ==
    ASSUME Visiting, Neighbor \in DOMAIN color, color[Neighbor] = "white"
    PROVE  SearchInv'
<1>1. /\ phase = "cycles" /\ SearchType /\ StackOfGray /\ (cycles = {} => BlackClosed)
      /\ frames # <<>> /\ Top.next <= Len(adj[Top.node])
      /\ UNCHANGED <<files, phase, issues, adj, graph, targets>> /\ KnownIds' = KnownIds
      /\ DOMAIN color = KnownIds /\ DOMAIN adj = KnownIds
    BY VisitFacts
<1> DEFINE n == Neighbor
           L == Len(frames)
           call == [node |-> n, next |-> 1]
<1>2. /\ frames' = Append(Advanced, call) /\ cycles' = cycles
      /\ color' = [color EXCEPT ![n] = "gray"]
    BY DEF Visiting, VisitNeighbor, Neighbor
<1>3. /\ L \in DOMAIN frames /\ L \in Nat \ {0}
      /\ DOMAIN frames = 1 .. L
      /\ Top = frames[L] /\ Top.node \in KnownIds /\ Top.next \in Nat \ {0}
      /\ Top.next \in DOMAIN adj[Top.node]
      /\ Advanced \in Seq([node : KnownIds, next : Nat \ {0}])
      /\ DOMAIN Advanced = DOMAIN frames /\ Len(Advanced) = L
      /\ \A k \in DOMAIN frames :
            /\ Advanced[k].node = frames[k].node
            /\ k < L => Advanced[k] = frames[k]
            /\ Advanced[k].next <= Len(adj[Advanced[k].node]) + 1
      /\ Advanced[L].next = Top.next + 1
    BY <1>1, AdvancedFrames
<1>4. n \in KnownIds /\ call \in [node : KnownIds, next : Nat \ {0}] /\ adj[n] \in Seq(Id)
    BY <1>1 DEF SearchType
<1>5. /\ frames' \in Seq([node : KnownIds, next : Nat \ {0}])
      /\ DOMAIN frames' = 1 .. L + 1
      /\ frames'[L + 1] = call
      /\ \A k \in 1 .. L : frames'[k] = Advanced[k]
    BY <1>2, <1>3, <1>4
<1> HIDE DEF n, L
<1>6. ASSUME NEW k \in 1 .. L
      PROVE  /\ k \in DOMAIN frames /\ k \in DOMAIN frames' /\ k + 1 \in DOMAIN frames'
             /\ frames'[k].node = frames[k].node
             /\ k < L => frames'[k] = frames[k] /\ k + 1 \in 1 .. L
             /\ k = L => frames'[k].next = Top.next + 1 /\ frames'[k].node = Top.node
  <2>1. /\ L \in Nat \ {0} /\ DOMAIN frames = 1 .. L /\ DOMAIN frames' = 1 .. L + 1
        /\ frames'[k] = Advanced[k]
      BY <1>3, <1>5
  <2>2. /\ k \in DOMAIN frames /\ k \in DOMAIN frames' /\ k + 1 \in DOMAIN frames'
        /\ k < L => k + 1 \in 1 .. L
      BY <2>1
  <2>3. /\ frames'[k].node = frames[k].node
        /\ k < L => frames'[k] = frames[k]
      BY <2>1, <2>2, <1>3
  <2>4. k = L => frames'[k].next = Top.next + 1 /\ frames'[k].node = Top.node
    <3> SUFFICES ASSUME k = L PROVE frames'[k].next = Top.next + 1 /\ frames'[k].node = Top.node
        OBVIOUS
    <3>1. frames'[k].next = Top.next + 1
        BY <2>1, <1>3
    <3>2. frames'[k].node = Top.node
        BY <2>3, <1>3
    <3> QED
        BY <3>1, <3>2
  <2> QED
      BY <2>2, <2>3, <2>4
<1>7. color' \in [KnownIds -> {"white", "gray", "black"}]
    BY <1>1, <1>2 DEF SearchType
<1>8. SearchType'
  <2>1. \A k \in DOMAIN frames' : frames'[k].next <= Len(adj[frames'[k].node]) + 1
    <3>1. frames'[L + 1].next <= Len(adj[frames'[L + 1].node]) + 1
      <4>1. Len(adj[n]) \in Nat
          BY <1>4
      <4>2. frames'[L + 1].next = 1 /\ frames'[L + 1].node = n
          BY <1>5
      <4> QED
          BY <4>1, <4>2
    <3>2. \A k \in 1 .. L : frames'[k].next <= Len(adj[frames'[k].node]) + 1
      <4>1. \A k \in 1 .. L : Advanced[k].next <= Len(adj[Advanced[k].node]) + 1
          BY <1>3
      <4> QED
          BY <4>1, <1>5
    <3>3. \A k \in DOMAIN frames' : k = L + 1 \/ k \in 1 .. L
      <4>1. L \in Nat /\ DOMAIN frames' = 1 .. L + 1
          BY <1>3, <1>5
      <4> QED
          BY <4>1
    <3> QED
        BY <3>1, <3>2, <3>3
  <2> QED
      BY <2>1, <1>1, <1>5, <1>7 DEF SearchType
<1>9. /\ Colored("gray")' = Colored("gray") \cup {n}
      /\ Colored("black")' = Colored("black")
      /\ \A id \in KnownIds : id # n => color'[id] = color[id]
      /\ color'[n] = "gray" /\ color[n] = "white"
  <2>1. /\ color[n] = "white" /\ n \in DOMAIN color
        /\ color' = [color EXCEPT ![n] = "gray"]
      BY <1>2, <1>1, <1>4 DEF n
  <2> QED
      BY <2>1, <1>1 DEF Colored
<1>10. StackOfGray'
  <2>1. \A k \in 1 .. L : frames[k].node \in KnownIds /\ color[frames[k].node] = "gray"
    <3>1. \A k \in 1 .. L : k \in DOMAIN frames
        BY <1>6
    <3>2. frames \in Seq([node : KnownIds, next : Nat \ {0}])
        BY <1>1 DEF SearchType
    <3>3. \A k \in DOMAIN frames : frames[k] \in [node : KnownIds, next : Nat \ {0}]
        BY <3>2, ElementOf
    <3> QED
        BY <3>1, <3>3, <1>1 DEF StackOfGray
  <2>0. \A k \in DOMAIN frames' : k = L + 1 \/ k \in 1 .. L
    <3>1. L \in Nat /\ DOMAIN frames' = 1 .. L + 1
        BY <1>3, <1>5
    <3> QED
        BY <3>1
  <2>2. \A k \in DOMAIN frames' : color'[frames'[k].node] = "gray"
    <3>1. \A k \in 1 .. L : color'[frames'[k].node] = "gray"
        BY <2>1, <1>6, <1>9
    <3>2. color'[frames'[L + 1].node] = "gray"
        BY <1>5, <1>9
    <3> QED
        BY <2>0, <3>1, <3>2
  <2>3. ASSUME NEW id \in Colored("gray")'
        PROVE  \E k \in DOMAIN frames' : frames'[k].node = id
    <3>1. CASE id = n
        BY <3>1, <1>3, <1>5
    <3>2. CASE id \in Colored("gray")
      <4>1. PICK k \in DOMAIN frames : frames[k].node = id
          BY <3>2, <1>1 DEF StackOfGray
      <4> QED
          BY <4>1, <1>3, <1>6
    <3> QED
        BY <3>1, <3>2, <1>9
  <2>4. ASSUME NEW j \in DOMAIN frames', NEW k \in DOMAIN frames',
               frames'[j].node = frames'[k].node
        PROVE  j = k
    <3>1. \A i \in 1 .. L : frames[i].node # n
        BY <2>1, <1>9
    <3>2. CASE j \in 1 .. L /\ k \in 1 .. L
      <4>1. frames[j].node = frames[k].node /\ j \in DOMAIN frames /\ k \in DOMAIN frames
          BY <3>2, <2>4, <1>6
      <4> QED
          BY <4>1, <1>1 DEF StackOfGray
    <3>3. CASE j = L + 1 \/ k = L + 1
      <4>1. frames'[L + 1].node = n
          BY <1>5
      <4>2. \A i \in 1 .. L : frames'[i].node # n
          BY <3>1, <1>6
      <4> QED
          BY <4>1, <4>2, <3>3, <2>4, <2>0
    <3> QED
        BY <3>2, <3>3, <2>0
  <2>5. ASSUME NEW k \in DOMAIN frames', k + 1 \in DOMAIN frames'
        PROVE  /\ frames'[k].next > 1
               /\ frames'[k + 1].node = adj'[frames'[k].node][frames'[k].next - 1]
    <3>1. k \in 1 .. L
        BY <2>5, <1>3, <1>5
    <3>2. CASE k = L
      <4>1. /\ frames'[k].next = Top.next + 1 /\ frames'[k].node = Top.node
            /\ frames'[k + 1].node = n /\ Top.next \in Nat \ {0}
          BY <3>1, <3>2, <1>3, <1>5, <1>6
      <4>2. frames'[k].next > 1 /\ frames'[k].next - 1 = Top.next
          BY <4>1
      <4> QED
          BY <4>1, <4>2, <1>1 DEF n, Neighbor
    <3>3. CASE k < L
      <4>1. /\ frames'[k] = frames[k] /\ k \in DOMAIN frames /\ k + 1 \in DOMAIN frames
            /\ frames'[k + 1].node = frames[k + 1].node
          BY <3>1, <3>3, <1>6
      <4> QED
          BY <4>1, <1>1 DEF StackOfGray
    <3> QED
        BY <3>1, <3>2, <3>3, <1>3
  <2> QED
      BY <2>2, <2>3, <2>4, <2>5 DEF StackOfGray
<1>11. cycles = {} => BlackClosed'
  <2> SUFFICES ASSUME cycles = {} PROVE BlackClosed'
      OBVIOUS
  <2>1. BlackClosed
      BY <1>1
  <2>2. \A id \in KnownIds : color[id] = "black" => color'[id] = "black"
      BY <1>9
  <2>3. \A b \in Colored("black")' : \A j \in DOMAIN adj'[b] :
           adj'[b][j] \in DOMAIN color' => color'[adj'[b][j]] = "black"
      BY <2>1, <2>2, <1>1, <1>7, <1>9 DEF BlackClosed
  <2>4. ASSUME NEW k \in DOMAIN frames', NEW j \in 1 .. frames'[k].next - 1,
               adj'[frames'[k].node][j] \in DOMAIN color'
        PROVE  \/ color'[adj'[frames'[k].node][j]] = "black"
               \/ k + 1 \in DOMAIN frames' /\ frames'[k + 1].node = adj'[frames'[k].node][j]
    <3>1. CASE k = L + 1
        BY <3>1, <2>4, <1>5
    <3>2. CASE k \in 1 .. L /\ k < L
      <4>1. /\ frames'[k] = frames[k] /\ k \in DOMAIN frames /\ k + 1 \in 1 .. L
            /\ k + 1 \in DOMAIN frames' /\ frames'[k + 1].node = frames[k + 1].node
          BY <3>2, <1>6
      <4>2. /\ adj[frames[k].node][j] \in KnownIds
            /\ j \in 1 .. frames[k].next - 1
          BY <4>1, <2>4, <1>1, <1>7
      <4>3. \/ color[adj[frames[k].node][j]] = "black"
            \/ frames[k + 1].node = adj[frames[k].node][j]
          BY <4>1, <4>2, <2>1, <1>1 DEF BlackClosed
      <4> QED
          BY <4>1, <4>2, <4>3, <2>2, <1>1
    <3>3. CASE k = L /\ j = Top.next
        BY <3>3, <1>1, <1>3, <1>5, <1>6 DEF n, Neighbor
    <3>4. CASE k = L /\ j # Top.next
      <4>1. /\ j \in 1 .. frames[L].next - 1
            /\ adj[frames[L].node][j] \in KnownIds
          BY <3>4, <2>4, <1>1, <1>3, <1>6, <1>7, SMTT(30)
      <4>2. color[adj[frames[L].node][j]] = "black"
          BY <4>1, <2>1, <1>1, <1>3 DEF BlackClosed
      <4> QED
          BY <4>1, <4>2, <2>2, <3>4, <1>1, <1>3, <1>6, SMTT(30)
    <3> QED
        BY <3>1, <3>2, <3>3, <3>4, <1>3, <1>5
  <2>5. \A S \in SUBSET Colored("black")' : ~Knotted(S)'
      BY <2>1, <1>1, <1>9 DEF BlackClosed, Knotted
  <2> QED
      BY <2>3, <2>4, <2>5 DEF BlackClosed
<1> QED
    BY <1>1, <1>2, <1>8, <1>10, <1>11 DEF SearchInv, IsCycle, Visiting

(* A gray neighbour closes a cycle: the calls above its own lead from it   *)
(* to the top of the stack.                                                *)
LEMMA VisitGray ==
    ASSUME Visiting, Neighbor \in DOMAIN color, color[Neighbor] = "gray"
    PROVE  SearchInv'
<1>1. /\ phase = "cycles" /\ SearchType /\ StackOfGray /\ (cycles = {} => BlackClosed)
      /\ frames # <<>> /\ Top.next <= Len(adj[Top.node])
      /\ UNCHANGED <<files, phase, issues, adj, graph, targets>> /\ KnownIds' = KnownIds
      /\ DOMAIN color = KnownIds /\ DOMAIN adj = KnownIds
    BY VisitFacts
<1> DEFINE n == Neighbor
           L == Len(frames)
           start == CHOOSE k \in DOMAIN frames : frames[k].node = n
           c == Append(SubSeq(OnStack, start, L), n)
<1>2. /\ frames' = Advanced /\ color' = color
      /\ cycles' = cycles \cup {c}
    BY DEF Visiting, VisitNeighbor, Neighbor
<1>3. /\ L \in DOMAIN frames /\ L \in Nat \ {0}
      /\ DOMAIN frames = 1 .. L
      /\ Top = frames[L] /\ Top.node \in KnownIds /\ Top.next \in Nat \ {0}
      /\ Top.next \in DOMAIN adj[Top.node]
      /\ Advanced \in Seq([node : KnownIds, next : Nat \ {0}])
      /\ DOMAIN Advanced = DOMAIN frames /\ Len(Advanced) = L
      /\ \A k \in DOMAIN frames :
            /\ Advanced[k].node = frames[k].node
            /\ k < L => Advanced[k] = frames[k]
            /\ Advanced[k].next <= Len(adj[Advanced[k].node]) + 1
      /\ Advanced[L].next = Top.next + 1
    BY <1>1, AdvancedFrames
<1> HIDE DEF n, L
<1>4. SearchType'
    BY <1>1, <1>2, <1>3 DEF SearchType
<1>5. Colored("gray")' = Colored("gray")
    BY <1>2 DEF Colored
<1>6. StackOfGray'
    BY <1>2, AdvancedStack
<1>7. start \in 1 .. L /\ frames[start].node = n
  <2>1. n \in Colored("gray")
      BY DEF Colored, n
  <2>2. \E k \in DOMAIN frames : frames[k].node = n
      BY <2>1, <1>1 DEF StackOfGray
  <2> QED
      BY <2>2, <1>3
<1> HIDE DEF start
<1> DEFINE M == L - start + 1
<1>8. /\ M \in Nat \ {0} /\ c \in Seq(KnownIds) /\ Len(c) = M + 1 /\ c[M + 1] = n
      /\ \A k \in 1 .. M : start + k - 1 \in 1 .. L /\ c[k] = frames[start + k - 1].node
  <2>1. OnStack \in Seq(KnownIds) /\ Len(OnStack) = L
    <3>1. frames \in Seq([node : KnownIds, next : Nat \ {0}])
        BY <1>1 DEF SearchType
    <3>2. \A k \in DOMAIN frames : frames[k] \in [node : KnownIds, next : Nat \ {0}]
        BY <3>1, ElementOf
    <3>3. \A k \in 1 .. L : frames[k].node \in KnownIds
        BY <3>2, <1>3
    <3>4. OnStack = [k \in 1 .. L |-> frames[k].node] /\ L \in Nat
        BY <1>3 DEF OnStack
    <3>5. OnStack \in [1 .. L -> KnownIds]
        BY <3>3, <3>4
    <3> QED
        BY <3>4, <3>5
  <2>2. \A k \in 1 .. L : OnStack[k] = frames[k].node
      BY <1>3 DEF OnStack
  <2>3. M \in Nat \ {0}
      BY <1>3, <1>7
  <2>4. /\ SubSeq(OnStack, start, L) \in Seq(KnownIds)
        /\ Len(SubSeq(OnStack, start, L)) = M
        /\ \A k \in 1 .. M : SubSeq(OnStack, start, L)[k] = OnStack[start + k - 1]
      BY <2>1, <1>3, <1>7
  <2>5. \A k \in 1 .. M : start + k - 1 \in 1 .. L
      BY <1>3, <1>7
  <2>6. n \in KnownIds
      BY <1>1 DEF n
  <2> QED
      BY <2>2, <2>3, <2>4, <2>5, <2>6
<1> HIDE DEF c
<1>9. IsCycle(c)
  <2>1. Len(c) > 1 /\ Head(c) = Last(c)
    <3>1. c[1] = n
      <4>1. 1 \in 1 .. M /\ start + 1 - 1 = start
          BY <1>7, <1>8, <1>3
      <4> QED
          BY <4>1, <1>7, <1>8
    <3>2. Head(c) = c[1] /\ Last(c) = c[M + 1] /\ Len(c) > 1
        BY <1>8 DEF Last
    <3> QED
        BY <3>1, <3>2, <1>8
  <2>2. ASSUME NEW k \in 1 .. M PROVE Contains(adj[c[k]], c[k + 1])
    <3>1. CASE k = M
      <4>1. c[k] = Top.node /\ c[k + 1] = n
          BY <3>1, <1>3, <1>7, <1>8, SMTT(30)
      <4>2. n = adj[Top.node][Top.next] /\ Top.next \in 1 .. Len(adj[Top.node])
          BY <1>1, <1>3 DEF n, Neighbor
      <4> QED
          BY <4>1, <4>2 DEF Contains
    <3>2. CASE k # M
      <4> DEFINE m == start + k - 1
      <4>1. /\ m \in DOMAIN frames /\ m + 1 \in DOMAIN frames
            /\ c[k] = frames[m].node /\ c[k + 1] = frames[m + 1].node
        <5>1. k \in 1 .. M /\ k + 1 \in 1 .. M /\ start + (k + 1) - 1 = m + 1
            BY <3>2, <1>7, <1>8, <1>3
        <5> QED
            BY <5>1, <1>8, <1>3
      <4> HIDE DEF m
      <4>2. /\ frames[m].next > 1
            /\ frames[m + 1].node = adj[frames[m].node][frames[m].next - 1]
          BY <4>1, <1>1 DEF StackOfGray
      <4>3. /\ frames[m].next \in Nat /\ frames[m].next <= Len(adj[frames[m].node]) + 1
            /\ adj[frames[m].node] \in Seq(Id)
        <5>1. frames \in Seq([node : KnownIds, next : Nat \ {0}])
            BY <1>1 DEF SearchType
        <5>2. frames[m] \in [node : KnownIds, next : Nat \ {0}]
            BY <5>1, <4>1, ElementOf
        <5> QED
            BY <5>2, <4>1, <1>1 DEF SearchType
      <4>4. frames[m].next - 1 \in 1 .. Len(adj[frames[m].node])
          BY <4>2, <4>3
      <4> QED
          BY <4>1, <4>2, <4>4 DEF Contains
    <3> QED
        BY <3>1, <3>2
  <2>3. 1 .. Len(c) - 1 = 1 .. M
      BY <1>8
  <2> QED
      BY <2>1, <2>2, <2>3 DEF IsCycle
<1>10. cycles' # {}
    BY <1>2
<1> QED
  <2>1. \A d \in cycles' : IsCycle(d)
      BY <1>2, <1>9 DEF Visiting, SearchInv
  <2>2. \A d \in cycles' : IsCycle(d)'
      BY <2>1, <1>1 DEF IsCycle
  <2> QED
      BY <2>2, <1>1, <1>2, <1>4, <1>6, <1>10 DEF SearchInv

(* A neighbour has one of the three colors, or no file defines it. *)
LEMMA VisitStep == SearchInv /\ VisitNeighbor => SearchInv'
<1> SUFFICES ASSUME Visiting PROVE SearchInv'
    BY DEF Visiting
<1>1. SearchType
    BY VisitFacts
<1>2. Neighbor \in DOMAIN color => color[Neighbor] \in {"white", "gray", "black"}
    BY <1>1 DEF SearchType
<1> QED
    BY <1>2, VisitDone, VisitWhite, VisitGray

(* A call that has done with all its neighbours returns: its id leads to   *)
(* black ids only, hence to no knot.                                       *)
LEMMA LeaveStep == SearchInv /\ LeaveNode => SearchInv'
<1> SUFFICES ASSUME SearchInv, LeaveNode PROVE SearchInv'
    OBVIOUS
<1>1. /\ phase = "cycles" /\ SearchType /\ StackOfGray /\ (cycles = {} => BlackClosed)
      /\ UNCHANGED <<files, phase, issues, adj, cycles, graph, targets>> /\ KnownIds' = KnownIds
      /\ DOMAIN color = KnownIds /\ DOMAIN adj = KnownIds
    BY DEF SearchInv, LeaveNode, SearchType, KnownIds
<1> DEFINE L == Len(frames)
           b == Top.node
<1>2. /\ frames # <<>> /\ Top.next > Len(adj[b])
      /\ color' = [color EXCEPT ![b] = "black"] /\ frames' = Front(frames)
    BY DEF LeaveNode
<1>3. frames \in Seq([node : KnownIds, next : Nat \ {0}])
    BY <1>1 DEF SearchType
<1>4. /\ L \in Nat \ {0} /\ DOMAIN frames = 1 .. L /\ Top = frames[L]
      /\ frames[L] \in [node : KnownIds, next : Nat \ {0}]
  <2>1. L \in Nat \ {0} /\ DOMAIN frames = 1 .. L
      BY <1>2, <1>3
  <2>2. Top = frames[L]
      BY DEF Top, Last
  <2>3. L \in DOMAIN frames
      BY <2>1
  <2> QED
      BY <2>1, <2>2, <2>3, <1>3, ElementOf
<1>5. /\ frames' \in Seq([node : KnownIds, next : Nat \ {0}])
      /\ DOMAIN frames' = 1 .. L - 1
      /\ \A k \in 1 .. L - 1 : frames'[k] = frames[k]
    BY <1>2, <1>3, FrontOf
<1>6. /\ b \in KnownIds /\ color[b] = "gray" /\ adj[b] \in Seq(Id)
      /\ 1 .. Len(adj[b]) \subseteq 1 .. frames[L].next - 1
  <2>1. b \in KnownIds /\ color[b] = "gray" /\ adj[b] \in Seq(Id)
      BY <1>1, <1>4 DEF StackOfGray, SearchType
  <2>2. Len(adj[b]) \in Nat /\ frames[L].next \in Nat /\ frames[L].next > Len(adj[b])
      BY <2>1, <1>2, <1>4
  <2> QED
      BY <2>1, <2>2
<1> HIDE DEF L, b
<1>7. /\ color' \in [KnownIds -> {"white", "gray", "black"}]
      /\ Colored("gray")' = Colored("gray") \ {b}
      /\ Colored("black")' = Colored("black") \cup {b}
      /\ \A id \in KnownIds : color[id] = "black" => color'[id] = "black"
      /\ \A id \in KnownIds : id # b => color'[id] = color[id]
      /\ color'[b] = "black"
  <2>1. color \in [KnownIds -> {"white", "gray", "black"}]
      BY <1>1 DEF SearchType
  <2> QED
      BY <2>1, <1>2, <1>6 DEF Colored
<1>8. SearchType'
  <2>1. \A k \in DOMAIN frames' : frames'[k].next <= Len(adj[frames'[k].node]) + 1
    <3>1. \A k \in DOMAIN frames' : k \in DOMAIN frames /\ frames'[k] = frames[k]
        BY <1>4, <1>5
    <3> QED
        BY <3>1, <1>1 DEF SearchType
  <2> QED
      BY <2>1, <1>1, <1>5, <1>7 DEF SearchType
<1>9. /\ \A k \in DOMAIN frames' : /\ k \in DOMAIN frames /\ frames'[k] = frames[k]
                                   /\ k + 1 \in DOMAIN frames
      /\ \A k \in DOMAIN frames : k \in DOMAIN frames' \/ k = L
    BY <1>4, <1>5
<1>10. \A k \in DOMAIN frames : frames[k].node = b => k = L
  <2>1. frames[L].node = b /\ L \in DOMAIN frames
      BY <1>4 DEF b
  <2> QED
      BY <2>1, <1>1 DEF StackOfGray
<1>11. StackOfGray'
  <2>1. \A k \in DOMAIN frames' : color'[frames'[k].node] = "gray"
    <3>1. \A k \in DOMAIN frames' : k # L
        BY <1>4, <1>5
    <3>2. \A k \in DOMAIN frames' :
             frames[k].node # b /\ color[frames[k].node] = "gray" /\ frames[k].node \in KnownIds
      <4>1. \A k \in DOMAIN frames : frames[k] \in [node : KnownIds, next : Nat \ {0}]
          BY <1>3, ElementOf
      <4> QED
          BY <4>1, <3>1, <1>1, <1>9, <1>10 DEF StackOfGray
    <3> QED
        BY <3>2, <1>7, <1>9
  <2>2. ASSUME NEW id \in Colored("gray")'
        PROVE  \E k \in DOMAIN frames' : frames'[k].node = id
    <3>1. id \in Colored("gray") /\ id # b
        BY <1>7
    <3>2. PICK k \in DOMAIN frames : frames[k].node = id
        BY <3>1, <1>1 DEF StackOfGray
    <3>3. k # L
        BY <3>1, <3>2, <1>4 DEF b
    <3> QED
        BY <3>2, <3>3, <1>9
  <2>3. \A j, k \in DOMAIN frames' : frames'[j].node = frames'[k].node => j = k
      BY <1>1, <1>9 DEF StackOfGray
  <2>4. \A k \in DOMAIN frames' : k + 1 \in DOMAIN frames' =>
           /\ frames'[k].next > 1
           /\ frames'[k + 1].node = adj'[frames'[k].node][frames'[k].next - 1]
      BY <1>1, <1>9 DEF StackOfGray
  <2> QED
      BY <2>1, <2>2, <2>3, <2>4 DEF StackOfGray
<1>12. cycles = {} => BlackClosed'
  <2> SUFFICES ASSUME cycles = {} PROVE BlackClosed'
      OBVIOUS
  <2>1. BlackClosed
      BY <1>1
  <2>2. ASSUME NEW j \in DOMAIN adj[b], adj[b][j] \in KnownIds
        PROVE  color[adj[b][j]] = "black"
    <3>1. j \in 1 .. frames[L].next - 1 /\ L \in DOMAIN frames /\ L + 1 \notin DOMAIN frames
        BY <2>2, <1>4, <1>6
    <3>2. frames[L].node = b
        BY <1>4 DEF b
    <3> QED
        BY <3>1, <3>2, <2>1, <2>2, <1>1 DEF BlackClosed
  <2>3. ASSUME NEW id \in Colored("black"), NEW j \in DOMAIN adj[id], adj[id][j] \in KnownIds
        PROVE  color[adj[id][j]] = "black"
      BY <2>1, <2>3, <1>1 DEF BlackClosed
  <2>4. \A id \in Colored("black")' : \A j \in DOMAIN adj'[id] :
           adj'[id][j] \in DOMAIN color' => color'[adj'[id][j]] = "black"
      BY <2>2, <2>3, <1>1, <1>7
  <2>5. ASSUME NEW k \in DOMAIN frames', NEW j \in 1 .. frames'[k].next - 1,
               adj'[frames'[k].node][j] \in DOMAIN color'
        PROVE  \/ color'[adj'[frames'[k].node][j]] = "black"
               \/ k + 1 \in DOMAIN frames' /\ frames'[k + 1].node = adj'[frames'[k].node][j]
    <3>1. /\ k \in DOMAIN frames /\ frames'[k] = frames[k] /\ k + 1 \in DOMAIN frames
          /\ j \in 1 .. frames[k].next - 1
          /\ adj[frames[k].node][j] \in KnownIds
        BY <2>5, <1>1, <1>7, <1>9
    <3>2. \/ color[adj[frames[k].node][j]] = "black"
          \/ frames[k + 1].node = adj[frames[k].node][j]
        BY <3>1, <2>1, <1>1 DEF BlackClosed
    <3>3. CASE color[adj[frames[k].node][j]] = "black"
        BY <3>1, <3>3, <1>1, <1>7
    <3>4. CASE frames[k + 1].node = adj[frames[k].node][j] /\ k + 1 = L
      <4>1. adj[frames[k].node][j] = b
          BY <3>4, <1>4 DEF b
      <4> QED
          BY <4>1, <3>1, <1>1, <1>7
    <3>5. CASE frames[k + 1].node = adj[frames[k].node][j] /\ k + 1 # L
        BY <3>1, <3>5, <1>1, <1>9
    <3> QED
        BY <3>2, <3>3, <3>4, <3>5
  <2>6. ASSUME NEW S \in SUBSET Colored("black")', Knotted(S)
        PROVE  FALSE
    <3>1. \A id \in S : \E p \in S : color[p] = "black" /\ p \in ToSet(adj[id])
      <4> SUFFICES ASSUME NEW id \in S
                   PROVE  \E p \in S : color[p] = "black" /\ p \in ToSet(adj[id])
          OBVIOUS
      <4>1. PICK p \in S : p \in ToSet(adj[id])
          BY <2>6 DEF Knotted
      <4>2. PICK j \in DOMAIN adj[id] : adj[id][j] = p
          BY <4>1 DEF ToSet
      <4>3. p \in KnownIds /\ (id = b \/ id \in Colored("black"))
          BY <1>1, <1>6, <1>7, <4>1 DEF Colored
      <4> QED
          BY <4>1, <4>2, <4>3, <2>2, <2>3
    <3>2. b \notin {p \in S : color[p] = "black"}
        BY <1>6
    <3>3. S \ {b} \subseteq Colored("black")
        BY <1>7
    <3>4. Knotted(S \ {b})
        BY <3>1, <3>2, <2>6 DEF Knotted
    <3> QED
        BY <3>3, <3>4, <2>1 DEF BlackClosed
  <2>7. \A S \in SUBSET Colored("black")' : ~Knotted(S)'
      BY <2>6, <1>1 DEF Knotted
  <2> QED
      BY <2>4, <2>5, <2>7 DEF BlackClosed
<1> QED
    BY <1>1, <1>8, <1>11, <1>12 DEF SearchInv, IsCycle

(* The search ends when nothing is left white: all ids are black then.     *)
LEMMA FinishCheckStep == SearchInv /\ FinishCheck => SearchInv'
<1> SUFFICES ASSUME SearchInv, FinishCheck PROVE SearchInv'
    OBVIOUS
<1>1. /\ phase = "cycles" /\ SearchType /\ StackOfGray /\ (cycles = {} => BlackClosed)
      /\ UNCHANGED <<files, adj, color, frames, cycles>> /\ KnownIds' = KnownIds
      /\ phase' = "checked" /\ frames = <<>>
      /\ \A id \in DOMAIN color : color[id] # "white"
      /\ DOMAIN color = KnownIds /\ DOMAIN adj = KnownIds
    BY DEF SearchInv, FinishCheck, SearchType, KnownIds
<1>2. SearchType'
    BY <1>1 DEF SearchType
<1>3. Colored("gray") = {}
    BY <1>1 DEF StackOfGray
<1>4. DOMAIN adj \subseteq Colored("black")
    BY <1>1, <1>3 DEF SearchType, Colored
<1>5. (\E S \in SUBSET DOMAIN adj : Knotted(S)) => cycles # {}
    BY <1>1, <1>4 DEF BlackClosed
<1>6. (\E S \in SUBSET DOMAIN adj' : Knotted(S)') => cycles' # {}
    BY <1>1, <1>5 DEF Knotted
<1> QED
    BY <1>1, <1>2, <1>6 DEF SearchInv, IsCycle, Knotted

(* What follows the check leaves what it found alone.                      *)
LEMMA LoadStep == SearchInv /\ LoadGraph => SearchInv'
BY DEF SearchInv, LoadGraph, SearchType, KnownIds, IsCycle

(* Nor does the resolution touch it. *)
LEMMA ResolutionStep == SearchInv /\ UNCHANGED gcVars => SearchInv'
<1> SUFFICES ASSUME SearchInv, UNCHANGED gcVars PROVE SearchInv'
    OBVIOUS
<1>1. /\ files' = files /\ phase' = phase /\ adj' = adj /\ color' = color
      /\ frames' = frames /\ cycles' = cycles /\ KnownIds' = KnownIds
    BY DEF gcVars, KnownIds
<1>2. SearchType => SearchType'
    BY <1>1 DEF SearchType
<1>3. StackOfGray => StackOfGray'
    BY <1>1 DEF StackOfGray, Colored
<1>4. BlackClosed => BlackClosed'
    BY <1>1 DEF BlackClosed, Colored, Knotted
<1>5. \A c \in cycles' : IsCycle(c)'
    BY <1>1 DEF SearchInv, IsCycle
<1>6. (\E S \in SUBSET DOMAIN adj' : Knotted(S)') => (\E S \in SUBSET DOMAIN adj : Knotted(S))
    BY <1>1 DEF Knotted
<1> QED
    BY <1>1, <1>2, <1>3, <1>4, <1>5, <1>6 DEF SearchInv

-----------------------------------------------------------------------------

(* SearchInv is inductive: every step of the check keeps it, and those of  *)
(* the resolution do not touch what it is about.                           *)
THEOREM SearchInvariance == ResSpec => []SearchInv
<1>1. SearchInv /\ [ResNext]_resVars => SearchInv'
  <2> SUFFICES ASSUME SearchInv, [ResNext]_resVars PROVE SearchInv'
      OBVIOUS
  <2>1. CASE CheckNext
      BY <2>1, WalkStep, StartStep, VisitStep, LeaveStep, FinishCheckStep DEF CheckNext
  <2>2. CASE LoadGraph
      BY <2>2, LoadStep
  <2>3. CASE UNCHANGED gcVars
      BY <2>3, ResolutionStep
  <2> QED
      BY <2>1, <2>2, <2>3 DEF ResNext, Check, StartExpansion, ExpandId, StartSort, PopFrontier,
         FinishSort, StartReach, PopConcept, FinishReach, resVars
<1> QED
    BY <1>1, SearchInit, PTL DEF ResSpec

(* For all files, the gray ids are those of the open calls, each once and  *)
(* each called for the neighbour its caller looks at.                      *)
THEOREM StackIsPath == ResSpec => []GrayIsStack
<1>1. SearchInv => GrayIsStack
  <2> SUFFICES ASSUME SearchInv, phase = "cycles"
               PROVE  /\ {id \in DOMAIN color : color[id] = "gray"} = ToSet(OnStack)
                      /\ IsInjective(OnStack)
                      /\ \A k \in 2 .. Len(frames) :
                            frames[k].node = adj[frames[k - 1].node][frames[k - 1].next - 1]
      BY DEF GrayIsStack
  <2>1. SearchType /\ StackOfGray
      BY DEF SearchInv
  <2>2. \A k \in DOMAIN frames : frames[k].node \in DOMAIN color
    <3>1. \A k \in DOMAIN frames : frames[k] \in [node : KnownIds, next : Nat \ {0}]
        BY <2>1, ElementOf DEF SearchType
    <3> QED
        BY <3>1, <2>1 DEF SearchType
  <2>3. {id \in DOMAIN color : color[id] = "gray"} = ToSet(OnStack)
      BY <2>1, <2>2 DEF StackOfGray, Colored, ToSet, OnStack
  <2>4. IsInjective(OnStack)
      BY <2>1 DEF StackOfGray, IsInjective, OnStack
  <2>5. ASSUME NEW k \in 2 .. Len(frames)
        PROVE  frames[k].node = adj[frames[k - 1].node][frames[k - 1].next - 1]
    <3>1. k - 1 \in DOMAIN frames /\ (k - 1) + 1 \in DOMAIN frames /\ (k - 1) + 1 = k
        BY <2>1, SMTT(30) DEF SearchType
    <3> QED
        BY <3>1, <2>1 DEF StackOfGray
  <2> QED
      BY <2>3, <2>4, <2>5
<1> QED
    BY <1>1, SearchInvariance, PTL

(* For all files, `mt graph check` reports only cycles of prerequisites,   *)
(* and reports one whenever some ids wait for one another.                 *)
THEOREM CheckIsExact == ResSpec => []CyclesFound
<1>1. SearchInv => CyclesFound
    BY SMTT(30) DEF SearchInv, CyclesFound, IsCycle
<1> QED
    BY <1>1, SearchInvariance, PTL

-----------------------------------------------------------------------------
(* Loading. *)

LoadInv ==
    /\ files \in Files
    /\ outcome # "waiting" => phase = "loaded"
    /\ phase = "loaded" => WellFormed(graph) /\ targets \in Seq(Id)

(* The check changes neither the graph nor the outcome. *)
LEMMA CheckKeeps ==
    ASSUME Check
    PROVE  /\ phase # "loaded" /\ phase' # "loaded" /\ files' = files
           /\ UNCHANGED <<graph, targets, sortVars, stack, reached, outcome>>
BY DEF Check, CheckNext, WalkFiles, StartSearch, VisitNeighbor, LeaveNode, FinishCheck

(* Nor do the loops change what was loaded. *)
ResolveNext ==
    \/ ExpandId \/ StartSort \/ PopFrontier \/ FinishSort
    \/ StartReach \/ PopConcept \/ FinishReach

LEMMA LoopKeeps ==
    ASSUME ResolveNext
    PROVE  UNCHANGED gcVars /\ outcome # "waiting" /\ outcome' # "waiting"
BY DEF ResolveNext, ExpandId, StartSort, PopFrontier, FinishSort, StartReach, PopConcept, FinishReach

(* What a step is. *)
LEMMA StepIs ==
    ResNext <=> Check \/ StartExpansion \/ ResolveNext
BY DEF ResNext, ResolveNext

(* The files make a well-formed graph (LoadedWellFormed), and it stays.    *)
THEOREM LoadInvariance == ResSpec => []LoadInv
<1>1. ResInit => LoadInv
  BY DEF ResInit, GCInit, LoadInv
<1>2. LoadInv /\ [ResNext]_resVars => LoadInv'
  <2> SUFFICES ASSUME LoadInv, [ResNext]_resVars PROVE LoadInv'
    OBVIOUS
  <2>1. CASE Check
    BY <2>1, CheckKeeps DEF LoadInv
  <2>2. CASE StartExpansion
    <3>1. /\ phase # "loaded" /\ phase' = "loaded" /\ files' = files /\ AllReadable
          /\ graph' = Loaded /\ targets' \in TargetLists
      BY <2>2 DEF StartExpansion, LoadGraph, AllReadable
    <3>2. files \in Files
      BY DEF LoadInv
    <3>3. WellFormed(Loaded)
      BY <3>1, <3>2, LoadedWellFormed
    <3>4. PICK g : g = Loaded
      OBVIOUS
    <3>5. WellFormed(g) /\ graph' = g
      BY <3>1, <3>3, <3>4
    <3>6. targets' \in Seq(Id)
      BY <3>1, GraphCheckAssumption
    <3>7. QED BY <3>1, <3>2, <3>5, <3>6 DEF LoadInv
  <2>3. CASE ResolveNext \/ UNCHANGED resVars
    <3>1. UNCHANGED gcVars /\ (outcome' # "waiting" => outcome # "waiting")
      BY <2>3, LoopKeeps DEF resVars
    <3>2. phase' = phase /\ files' = files /\ graph' = graph /\ targets' = targets
      BY <3>1 DEF gcVars
    <3>3. QED BY <3>1, <3>2 DEF LoadInv
  <2>4. QED BY <2>1, <2>2, <2>3, StepIs
<1>3. QED BY <1>1, <1>2, PTL DEF ResSpec
-----------------------------------------------------------------------------
(* The report.                                                             *)

Reported(kind) == \E issue \in issues : issue.kind = kind

CycleIssues == {[kind |-> "cycle", node |-> Head(c)] : c \in cycles}
OrphanIssues == {[kind |-> "orphan", node |-> Nodes[i].id] : i \in Orphans}

(* What the report holds at each stage, and what was loaded after it.      *)
ReportInv ==
    /\ files \in Files
    /\ phase # "walk" => adj = EdgesIn(files)
    /\ phase = "cycles" => issues = WalkIssues
    /\ phase \in {"checked", "loaded"} =>
          /\ issues = WalkIssues \cup CycleIssues \cup OrphanIssues
          /\ (\E S \in SUBSET DOMAIN adj : Knotted(S)) => cycles # {}
    /\ phase = "loaded" => graph = Loaded /\ AllReadable /\ targets \in Seq(Id)

(* What the rules say and what is loaded depends on the files.             *)
LEMMA SameFiles ==
    ASSUME files' = files
    PROVE  /\ Nodes' = Nodes /\ Read' = Read /\ KnownIds' = KnownIds /\ Positions' = Positions
           /\ WalkIssues' = WalkIssues
           /\ Loaded' = Loaded /\ AllReadable' = AllReadable
<1>1. Nodes' = Nodes /\ Read' = Read /\ KnownIds' = KnownIds /\ Positions' = Positions
  BY DEF Nodes, Read, KnownIds, Positions
<1>2. /\ \A i : BadPrefix(i)' = BadPrefix(i)
      /\ \A i : BadSegment(i)' = BadSegment(i)
      /\ \A i : BadNesting(i)' = BadNesting(i)
      /\ \A i : Duplicate(i)' = Duplicate(i)
      /\ \A i : Unresolved(i)' = Unresolved(i)
  BY <1>1 DEF BadPrefix, BadSegment, BadNesting, Duplicate, Unresolved
<1>3. WalkIssues' = WalkIssues
  BY <1>1, <1>2 DEF WalkIssues
<1>4. Loaded' = Loaded /\ AllReadable' = AllReadable
  BY <1>1 DEF Loaded, AllReadable, ChildrenOf, IdsOf
<1>5. QED BY <1>1, <1>3, <1>4

(* The rest of the report depends on the edges and the cycles as well.     *)
LEMMA SameReport ==
    ASSUME files' = files, adj' = adj, cycles' = cycles
    PROVE  /\ CycleIssues' = CycleIssues
           /\ OrphanIssues' = OrphanIssues
           /\ \A S : Knotted(S)' <=> Knotted(S)
<1>1. Nodes' = Nodes /\ Read' = Read /\ Positions' = Positions
  BY SameFiles
<1>2. /\ \A i : IsLeaf(i)' = IsLeaf(i)
      /\ \A i : Lineage(i)' = Lineage(i)
  BY <1>1 DEF IsLeaf, ChildrenOf, Lineage
<1>3. Orphans' = Orphans
  BY <1>1, <1>2 DEF Orphans
<1>4. QED BY <1>1, <1>3 DEF CycleIssues, OrphanIssues, Knotted

(* The report is what the rules say of the files, plus the cycles found.   *)
THEOREM ReportInvariance == ResSpec => []ReportInv
<1>1. ResInit => ReportInv
  BY DEF ResInit, GCInit, ReportInv
<1>2. ReportInv /\ SearchInv' /\ [ResNext]_resVars => ReportInv'
  <2> SUFFICES ASSUME ReportInv, SearchInv', [ResNext]_resVars PROVE ReportInv'
    OBVIOUS
  <2>1. CASE WalkFiles
    <3>1. /\ phase' = "cycles" /\ files' = files /\ issues' = WalkIssues
          /\ adj' = EdgesIn(files) /\ files \in Files
      BY <2>1 DEF WalkFiles, ReportInv
    <3>2. WalkIssues' = WalkIssues
      BY <3>1, SameFiles
    <3>3. QED BY <3>1, <3>2 DEF ReportInv
  <2>2. CASE StartSearch \/ VisitNeighbor \/ LeaveNode
    <3>1. /\ phase = "cycles" /\ phase' = "cycles" /\ files' = files /\ issues' = issues
          /\ adj' = adj
      BY <2>2 DEF StartSearch, VisitNeighbor, LeaveNode
    <3>2. files \in Files /\ adj = EdgesIn(files) /\ issues = WalkIssues
      BY <3>1 DEF ReportInv
    <3>3. WalkIssues' = WalkIssues
      BY <3>1, SameFiles
    <3>4. QED BY <3>1, <3>2, <3>3, SMTT(30) DEF ReportInv
  <2>3. CASE FinishCheck
    <3>1. /\ phase = "cycles" /\ phase' = "checked"
          /\ UNCHANGED <<files, adj, cycles>>
          /\ issues' = issues \cup CycleIssues \cup OrphanIssues
      BY <2>3 DEF FinishCheck, CycleIssues, OrphanIssues
    <3>2. files \in Files /\ adj = EdgesIn(files) /\ issues = WalkIssues
      BY <3>1 DEF ReportInv
    <3>3. /\ WalkIssues' = WalkIssues
          /\ CycleIssues' = CycleIssues
          /\ OrphanIssues' = OrphanIssues
      BY <3>1, SameFiles, SameReport
    <3>4. ((\E S \in SUBSET DOMAIN adj : Knotted(S)) => cycles # {})'
      BY <3>1 DEF SearchInv
    <3>5. QED BY <3>1, <3>2, <3>3, <3>4 DEF ReportInv
  <2>4. CASE StartExpansion
    <3>1. /\ phase = "checked" /\ phase' = "loaded" /\ AllReadable
          /\ UNCHANGED <<files, issues, adj, cycles>>
          /\ graph' = Loaded /\ targets' \in TargetLists
      BY <2>4 DEF StartExpansion, LoadGraph, AllReadable
    <3>2. /\ files \in Files /\ adj = EdgesIn(files)
          /\ issues = WalkIssues \cup CycleIssues \cup OrphanIssues
          /\ (\E S \in SUBSET DOMAIN adj : Knotted(S)) => cycles # {}
      BY <3>1 DEF ReportInv
    <3>3. /\ WalkIssues' = WalkIssues
          /\ CycleIssues' = CycleIssues
          /\ OrphanIssues' = OrphanIssues
          /\ \A S : Knotted(S)' <=> Knotted(S)
      BY <3>1, SameFiles, SameReport
    <3>4. Loaded' = Loaded /\ AllReadable' = AllReadable
      BY <3>1, SameFiles
    <3>5. targets' \in Seq(Id)
      BY <3>1, GraphCheckAssumption
    <3>6. issues' = WalkIssues' \cup CycleIssues' \cup OrphanIssues'
      BY <3>1, <3>2, <3>3
    <3>7. ((\E S \in SUBSET DOMAIN adj : Knotted(S)) => cycles # {})'
      BY <3>1, <3>2, <3>3
    <3>8. PICK g : g = Loaded
      OBVIOUS
    <3>9. graph' = g /\ Loaded' = g
      BY <3>1, <3>4, <3>8
    <3>10. QED BY <3>1, <3>2, <3>4, <3>5, <3>6, <3>7, <3>9 DEF ReportInv
  <2>5. CASE ResolveNext \/ UNCHANGED resVars
    <3>1. UNCHANGED gcVars
      BY <2>5, LoopKeeps DEF resVars
    <3>2. UNCHANGED <<files, phase, issues, adj, cycles, graph, targets>>
      BY <3>1 DEF gcVars
    <3>3. /\ WalkIssues' = WalkIssues
          /\ CycleIssues' = CycleIssues
          /\ OrphanIssues' = OrphanIssues
          /\ \A S : Knotted(S)' <=> Knotted(S)
      BY <3>2, SameFiles, SameReport
    <3>4. Loaded' = Loaded /\ AllReadable' = AllReadable
      BY <3>2, SameFiles
    <3>5. QED BY <3>2, <3>3, <3>4 DEF ReportInv
  <2>6. QED BY <2>1, <2>2, <2>3, <2>4, <2>5, StepIs DEF Check, CheckNext
<1>3. QED BY <1>1, <1>2, SearchInvariance, PTL DEF ResSpec

-----------------------------------------------------------------------------
(* Files that keep the rules.                                              *)

(* Every area has a prefix of its own, a single number.                    *)
AreasNamed ==
    \A f \in Files : \A a, b \in DOMAIN f.areas :
        /\ Len(Segments[f.areas[a].prefix]) = 1
        /\ f.areas[a].prefix = f.areas[b].prefix => a = b

RulesKept ==
    /\ Read = DOMAIN Nodes
    /\ \A a \in DOMAIN files.areas : files.areas[a].stated = files.areas[a].prefix
    /\ \A i \in DOMAIN Nodes : ~BadPrefix(i) /\ ~BadNesting(i) /\ ~Duplicate(i) /\ ~Unresolved(i)

(* A report of nothing but cycles and orphans says that they are kept. *)
LEMMA RulesAre ==
    ASSUME ReportInv, phase = "loaded",
           \A issue \in issues : issue.kind \in {"orphan", "cycle"}
    PROVE  RulesKept
<1>1. /\ files \in Files /\ AllReadable
      /\ issues = WalkIssues \cup CycleIssues \cup OrphanIssues
  BY DEF ReportInv
<1>2. \A issue \in WalkIssues : issue.kind \in {"orphan", "cycle"}
  BY <1>1
<1>3. Read = DOMAIN Nodes
  BY <1>1, FilesAre DEF AllReadable, Read, ReadIn, Nodes
<1>4. ASSUME NEW a \in DOMAIN files.areas PROVE files.areas[a].stated = files.areas[a].prefix
  <2>1. files.areas[a] \in ToSet(files.areas)
    BY DEF ToSet
  <2>2. CASE BadHeader(files.areas[a])
    <3>1. [kind |-> "area", node |-> files.areas[a].prefix] \in WalkIssues
      BY <2>1, <2>2 DEF WalkIssues
    <3>2. QED BY <3>1, <1>2
  <2>3. QED BY <2>2 DEF BadHeader
<1>5. ASSUME NEW i \in DOMAIN Nodes PROVE ~BadPrefix(i) /\ ~BadNesting(i)
  <2>1. CASE BadPrefix(i) \/ BadNesting(i)
    <3>1. [kind |-> "id", node |-> Nodes[i].id] \in WalkIssues
      BY <1>3, <2>1 DEF WalkIssues
    <3>2. QED BY <3>1, <1>2
  <2>2. QED BY <2>1
<1>6. ASSUME NEW i \in DOMAIN Nodes PROVE ~Duplicate(i)
  <2>1. CASE Duplicate(i)
    <3>1. [kind |-> "duplicate", node |-> Nodes[i].id] \in WalkIssues
      BY <1>3, <2>1 DEF WalkIssues
    <3>2. QED BY <3>1, <1>2
  <2>2. QED BY <2>1
<1>7. ASSUME NEW i \in DOMAIN Nodes PROVE ~Unresolved(i)
  <2>1. CASE Unresolved(i)
    <3>1. [kind |-> "unknown", node |-> Nodes[i].id] \in WalkIssues
      BY <1>3, <2>1 DEF WalkIssues
    <3>2. QED BY <3>1, <1>2
  <2>2. QED BY <2>1
<1>8. QED BY <1>3, <1>4, <1>5, <1>6, <1>7 DEF RulesKept

(* Then every concept is loaded as it stands in its file: no other has its *)
(* id, and no area after its own is named by it.                           *)
LEMMA EachLoaded ==
    ASSUME AreasNamed, files \in Files, RulesKept, NEW i \in DOMAIN Nodes, NEW id, id = Nodes[i].id
    PROVE  /\ id \in LoadedIds /\ id \in KnownIds /\ FromNode(id)
           /\ NodesOf(id) = {i} /\ Max(NodesOf(id)) = i
<1>1. /\ Len(Nodes) \in Nat /\ DOMAIN Nodes = 1 .. Len(Nodes)
      /\ \A j \in DOMAIN Nodes : Nodes[j].id \in Id /\ Nodes[j].area \in DOMAIN files.areas
  BY FilesAre
<1>2. /\ DOMAIN files.areas = 1 .. Len(files.areas) /\ Len(files.areas) \in Nat
      /\ \A a \in DOMAIN files.areas : files.areas[a].prefix \in Id
  <2> DEFINE R == [prefix : Id, stated : Id, header : {"ok", "bad", "unreadable"}]
  <2>1. files.areas \in Seq(R)
    BY GraphCheckAssumption
  <2>2. \A r \in R : r.prefix \in Id
    OBVIOUS
  <2> HIDE DEF R
  <2>3. /\ DOMAIN files.areas = 1 .. Len(files.areas) /\ Len(files.areas) \in Nat
        /\ \A a \in DOMAIN files.areas : files.areas[a] \in R
    BY <2>1
  <2>4. QED BY <2>2, <2>3
<1>3. NodesOf(id) = {i}
  <2>1. ASSUME NEW j \in NodesOf(id) PROVE j = i
    <3>1. j \in DOMAIN Nodes /\ Nodes[j].id = Nodes[i].id
      BY DEF NodesOf
    <3>2. ~Duplicate(i) /\ ~Duplicate(j) /\ i \in Read /\ j \in Read
      BY <3>1 DEF RulesKept
    <3>3. ~(j < i) /\ ~(i < j)
      BY <3>1, <3>2 DEF Duplicate
    <3>4. QED BY <1>1, <3>1, <3>3
  <2>2. i \in NodesOf(id)
    BY DEF NodesOf
  <2>3. QED BY <2>1, <2>2
<1>4. Max(NodesOf(id)) = i
  <2>1. {i} \in SUBSET (0 .. Len(Nodes)) /\ {i} # {}
    BY <1>1
  <2>2. Max({i}) \in {i}
    BY <1>1, <2>1, MaxIs
  <2>3. QED BY <2>2, <1>3
<1>5. id \in KnownIds
  BY DEF KnownIds, IdsIn, RulesKept, Read, Nodes
<1>6. ASSUME NEW a \in AreasOf(id) PROVE a <= Nodes[i].area
  <2>1. PICK b \in DOMAIN files.areas : b = Nodes[i].area
    BY <1>1
  <2>2. a \in DOMAIN files.areas /\ files.areas[a].prefix = id
    BY DEF AreasOf
  <2>3. Segments[files.areas[b].prefix] = <<Head(Segments[id])>>
    BY <2>1 DEF RulesKept, BadPrefix
  <2>4. Segments[id] \in Seq(Int) /\ Len(Segments[id]) = 1
    BY <2>2, <1>1, SegmentsAssumption DEF AreasNamed
  <2>5. Segments[files.areas[b].prefix] = Segments[id]
    BY <2>3, <2>4
  <2>8. files.areas[b].prefix = id
    BY <2>5, <1>1, <1>2, SegmentsAssumption
  <2>9. a = b
    BY <2>2, <2>8 DEF AreasNamed
  <2>10. QED BY <1>2, <2>1, <2>9
<1>7. FromNode(id)
  BY <1>3, <1>4, <1>6 DEF FromNode
<1>8. QED BY <1>3, <1>4, <1>5, <1>7 DEF LoadedIds

LEMMA LinksLoaded ==
    ASSUME AreasNamed, files \in Files, RulesKept, NEW i \in DOMAIN Nodes, NEW id, id = Nodes[i].id
    PROVE  /\ Loaded.prereqs[id] = Nodes[i].prereqs
           /\ Loaded.children[id] = IdsOf(ChildrenOf(i))
<1>1. id \in LoadedIds /\ FromNode(id) /\ Max(NodesOf(id)) = i
  BY EachLoaded
<1>2. Loaded.prereqs[id] = Nodes[i].prereqs
  BY <1>1, LoadedIs
<1>3. ChildrenOf(i) = Only(Positions, Within(i))
  BY DEF ChildrenOf, Within
<1>4. Loaded.children[id] = IdsOf(Only(Positions, Within(Max(NodesOf(id)))))
  BY <1>1, LoadedIs
<1>5. QED BY <1>1, <1>2, <1>3, <1>4

(* And its id adds one segment to that of the cluster it is in, and begins *)
(* with the prefix of its area.                                            *)
LEMMA NestsLoaded ==
    ASSUME AreasNamed, files \in Files, RulesKept, NEW g, g = Loaded
    PROVE  IdsNest(g)
<1>1. /\ \A i \in DOMAIN Nodes : Nodes[i].area \in DOMAIN files.areas
      /\ g.ids = LoadedIds /\ g.areas = {files.areas[a].prefix : a \in DOMAIN files.areas}
  BY FilesAre, LoadedIs
<1>2. \A area \in g.areas : Len(Segments[area]) = 1
  BY <1>1 DEF AreasNamed
<1>3. ASSUME NEW c \in g.ids \ g.areas
      PROVE  /\ \E area \in g.areas : Segments[area] = <<Head(Segments[c])>>
             /\ \A d \in ToSet(g.children[c]) : Front(Segments[d]) = Segments[c]
  <2>1. PICK i \in DOMAIN Nodes : c = Nodes[i].id
    BY <1>1, <1>3 DEF LoadedIds, KnownIds, IdsIn, RulesKept, Read, Nodes
  <2>2. PICK a \in DOMAIN files.areas : a = Nodes[i].area
    BY <1>1
  <2>3. Segments[files.areas[a].prefix] = <<Head(Segments[c])>>
    BY <2>1, <2>2 DEF RulesKept, BadPrefix
  <2>4. g.children[c] = IdsOf(Only(Positions, Within(i)))
    BY <2>1, LinksLoaded DEF ChildrenOf, Within
  <2>5. ToSet(g.children[c]) = {Nodes[j].id : j \in Within(i)}
    BY <2>4, IdsListed DEF Within
  <2>6. ASSUME NEW j \in Within(i) PROVE Front(Segments[Nodes[j].id]) = Segments[c]
    <3>1. j \in DOMAIN Nodes /\ Nodes[j].parent = i /\ i # 0
      BY FilesAre DEF Within
    <3>2. QED BY <2>1, <3>1 DEF RulesKept, BadNesting
  <2>7. QED BY <1>1, <2>2, <2>3, <2>5, <2>6
<1>4. QED BY <1>2, <1>3 DEF IdsNest

(* Prerequisites in the loaded graph are prerequisites in the files. *)
LEMMA PrereqsLoaded ==
    ASSUME files \in Files, AllReadable, NEW id \in LoadedIds, Loaded.prereqs[id] # <<>>
    PROVE  /\ id \in KnownIds
           /\ \E i \in DOMAIN Nodes : Nodes[i].id = id /\ Loaded.prereqs[id] = Nodes[i].prereqs
           /\ ToSet(Loaded.prereqs[id]) \subseteq ToSet(EdgesIn(files)[id])
<1>1. FromNode(id) /\ Loaded.prereqs[id] = Nodes[Max(NodesOf(id))].prereqs
  BY LoadedIs
<1>2. PICK i \in DOMAIN Nodes : i = Max(NodesOf(id)) /\ Nodes[i].id = id
  BY <1>1, IdFrom
<1>3. i \in ReadIn(files)
  BY <1>2, FilesAre DEF AllReadable, ReadIn, Nodes
<1>4. id \in KnownIds /\ i \in Listing(files, id)
  BY <1>2, <1>3 DEF KnownIds, IdsIn, Listing, Nodes
<1>5. ToSet(Nodes[i].prereqs) \subseteq ToSet(EdgesOf(files, id))
  BY <1>4, EdgesAre DEF Nodes
<1>6. EdgesIn(files)[id] = EdgesOf(files, id)
  BY <1>4 DEF EdgesIn, KnownIds
<1>7. QED BY <1>1, <1>2, <1>4, <1>5, <1>6

(* Atoms that do not come out of the order wait for one another. *)
LEMMA StuckIsKnotted ==
    ASSUME ReportInv, phase = "loaded", ResolveTargets(graph, targets).err = "cycle"
    PROVE  \E S \in SUBSET DOMAIN adj : Knotted(S)
<1>1. /\ files \in Files /\ AllReadable /\ graph = Loaded /\ targets \in Seq(Id)
      /\ adj = EdgesIn(files)
  BY DEF ReportInv
<1>2. WellFormed(Loaded)
  BY <1>1, LoadedWellFormed
<1>3. PICK g : g = Loaded
  OBVIOUS
<1>4. WellFormed(g) /\ graph = g
  BY <1>1, <1>2, <1>3
<1>5. PICK e : e = ExpandToAtoms(g, targets)
  OBVIOUS
<1>6. /\ e.err \in {"none", "unknown_id", "empty_cluster"}
      /\ e.atoms \in Seq(AtomsOf(g)) /\ Distinct(e.atoms)
  BY <1>1, <1>4, <1>5, ExpansionLists
<1>7. PICK sorted : sorted = KahnOrder(g, e.atoms)
  OBVIOUS
<1>8. ResolveTargets(g, targets) =
        IF e.err # "none" THEN e
        ELSE IF Len(sorted) # Len(e.atoms) THEN [err |-> "cycle", atoms |-> <<>>]
        ELSE [err |-> "none", atoms |-> sorted]
  BY <1>5, <1>7 DEF ResolveTargets
<1>9. Len(sorted) # Len(e.atoms)
  BY <1>4, <1>6, <1>8
<1>10. e.atoms \in Seq(Id)
  BY <1>4, <1>6 DEF AtomsOf, WellFormed
<1>11. PICK S \in SUBSET ToSet(e.atoms) :
          /\ S # {}
          /\ \A a \in S : a \in g.ids /\ ToSet(g.prereqs[a]) \cap S # {}
  BY <1>6, <1>7, <1>9, <1>10, KahnStuck
<1>12. g.ids = LoadedIds
  BY <1>3, LoadedIs
<1>13. ASSUME NEW a \in S PROVE a \in KnownIds /\ \E p \in ToSet(adj[a]) : p \in S
  <2>1. a \in LoadedIds /\ ToSet(g.prereqs[a]) \cap S # {}
    BY <1>11, <1>12
  <2>2. g.prereqs[a] # <<>>
    BY <2>1, EmptyList
  <2>3. a \in KnownIds /\ ToSet(g.prereqs[a]) \subseteq ToSet(adj[a])
    BY <1>1, <1>3, <2>1, <2>2, PrereqsLoaded
  <2>4. QED BY <2>1, <2>3
<1>14. DOMAIN adj = KnownIds
  BY <1>1 DEF EdgesIn, KnownIds
<1>15. Knotted(S) /\ S \subseteq DOMAIN adj
  BY <1>11, <1>13, <1>14 DEF Knotted
<1>16. QED BY <1>15

(* When the report names no cycle, whatever else it names, no choice of    *)
(* targets makes a path that cannot be resolved for one.                   *)
CyclesAreReported ==
    phase = "loaded" /\ ~Reported("cycle") => ResolveTargets(graph, targets).err # "cycle"

THEOREM NoOtherCycles == ResSpec => []CyclesAreReported
<1>1. ASSUME ReportInv, phase = "loaded", ~Reported("cycle"),
             ResolveTargets(graph, targets).err = "cycle"
      PROVE  FALSE
  <2>1. cycles # {} /\ issues = WalkIssues \cup CycleIssues \cup OrphanIssues
    BY <1>1, StuckIsKnotted DEF ReportInv
  <2>2. PICK c \in cycles : TRUE
    BY <2>1
  <2>3. [kind |-> "cycle", node |-> Head(c)] \in issues
    BY <2>1, <2>2 DEF CycleIssues
  <2>4. QED BY <1>1, <2>3 DEF Reported
<1>2. ReportInv => CyclesAreReported
  BY <1>1 DEF CyclesAreReported
<1>3. QED BY <1>2, ReportInvariance, PTL

(* What passes the check can be used, whatever the files: they load as     *)
(* they are, everything in them resolves and no targets are in a cycle.    *)
THEOREM CleanIsUsable == AreasNamed => (ResSpec => []CleanMeansUsable)
<1> SUFFICES ASSUME AreasNamed PROVE ResSpec => []CleanMeansUsable
  OBVIOUS
<1>1. ASSUME ReportInv, CyclesAreReported, phase = "loaded", issues = {}
      PROVE  /\ \A i \in DOMAIN Nodes :
                    /\ graph.prereqs[Nodes[i].id] = Nodes[i].prereqs
                    /\ graph.children[Nodes[i].id] = IdsOf(ChildrenOf(i))
             /\ \A id \in graph.ids : ToSet(graph.prereqs[id]) \subseteq graph.ids
             /\ IdsNest(graph)
             /\ ResolveTargets(graph, targets).err # "cycle"
  <2>1. files \in Files /\ AllReadable /\ graph = Loaded
    BY <1>1 DEF ReportInv
  <2>2. RulesKept
    BY <1>1, RulesAre
  <2>3. PICK g : g = Loaded
    OBVIOUS
  <2>4. ASSUME NEW i \in DOMAIN Nodes
        PROVE  /\ g.prereqs[Nodes[i].id] = Nodes[i].prereqs
               /\ g.children[Nodes[i].id] = IdsOf(ChildrenOf(i))
    BY <2>1, <2>2, <2>3, LinksLoaded
  <2>5. g.ids = LoadedIds
    BY <2>3, LoadedIs
  <2>6. ASSUME NEW id \in g.ids PROVE ToSet(g.prereqs[id]) \subseteq g.ids
    <3>1. CASE g.prereqs[id] = <<>>
      BY <3>1, EmptyList
    <3>2. CASE g.prereqs[id] # <<>>
      <4>1. PICK i \in DOMAIN Nodes : g.prereqs[id] = Nodes[i].prereqs
        BY <2>1, <2>3, <2>5, <3>2, PrereqsLoaded
      <4>2. ~Unresolved(i)
        BY <2>2 DEF RulesKept
      <4>3. QED BY <2>5, <4>1, <4>2 DEF Unresolved, LoadedIds
    <3>3. QED BY <3>1, <3>2
  <2>7. ResolveTargets(graph, targets).err # "cycle"
    BY <1>1 DEF CyclesAreReported, Reported
  <2>8. graph = g
    BY <2>1, <2>3
  <2>9. IdsNest(g)
    BY <2>1, <2>2, <2>3, NestsLoaded
  <2>10. QED BY <2>4, <2>6, <2>7, <2>8, <2>9
<1>2. ReportInv /\ CyclesAreReported => CleanMeansUsable
  BY <1>1 DEF CleanMeansUsable
<1>3. QED BY <1>2, ReportInvariance, NoOtherCycles, PTL

-----------------------------------------------------------------------------
(* Orphans.                                                                *)

(* up[i] is what `Lineage` collects: i and the clusters it is in. *)
Climbs(up) ==
    /\ up \in [0 .. Len(Nodes) -> SUBSET DOMAIN Nodes]
    /\ up[0] = {}
    /\ \A j \in DOMAIN Nodes : up[j] = {j} \cup up[Nodes[j].parent]

LEMMA LineageSteps ==
    ASSUME files \in Files
    PROVE  \E up : Climbs(up) /\ \A i : Lineage(i) = up[i]
<1> DEFINE N == Len(Nodes)
           D == 0 .. N
           V == SUBSET DOMAIN Nodes
           next == [j \in D |-> IF j = 0 THEN 0 ELSE Nodes[j].parent]
           base == [j \in D |-> {}]
           step == [j \in D |-> [v \in V |-> IF j = 0 THEN v ELSE {j} \cup v]]
<1>1. /\ N \in Nat /\ DOMAIN Nodes = 1 .. N
      /\ \A j \in DOMAIN Nodes : Nodes[j].parent \in Nat /\ Nodes[j].parent < j
  BY FilesAre, FileOrder
<1>2. next \in [D -> D]
  BY <1>1
<1>3. Terminates(D, {0}, next)
  <2>1. PICK size : size = [j \in D |-> j]
    OBVIOUS
  <2>2. size \in [D -> Nat]
    BY <1>1, <2>1
  <2>3. \A d \in D \ {0} : size[next[d]] < size[d]
    BY <1>1, <1>2, <2>1
  <2> HIDE DEF D, next
  <2>4. QED BY <1>2, <2>2, <2>3, MeasureTerminates
<1>4. base \in [D -> V] /\ step \in [D -> [V -> V]]
  BY <1>1
<1>5. PICK f : Solves(f, D, {0}, next, V, base, step)
  <2> HIDE DEF D, V, next, base, step
  <2>1. QED BY <1>3, <1>4, RecursionExists
<1>6. f \in [D -> V] /\ f[0] = {}
  <2>1. 0 \in D
    BY <1>1
  <2>2. f \in [D -> V] /\ f[0] = base[0]
    BY <1>5, <2>1 DEF Solves
  <2>3. QED BY <2>1, <2>2
<1>7. ASSUME NEW j \in D, j # 0 PROVE f[j] = {j} \cup f[Nodes[j].parent]
  <2>1. f[j] = step[j][f[next[j]]]
    BY <1>5, <1>7 DEF Solves
  <2>2. next[j] = Nodes[j].parent /\ next[j] \in D
    BY <1>2, <1>7
  <2>3. f[next[j]] \in V
    BY <2>2, <1>6
  <2>4. QED BY <2>1, <2>2, <2>3, <1>7
<1> DEFINE up[j \in 0 .. Len(Nodes)] == IF j = 0 THEN {} ELSE {j} \cup up[Nodes[j].parent]
<1>8. \A i : Lineage(i) = up[i]
  BY DEF Lineage
<1>9. \E h : h = [j \in 0 .. Len(Nodes) |-> IF j = 0 THEN {} ELSE {j} \cup h[Nodes[j].parent]]
  <2>1. f = [j \in D |-> f[j]]
    BY <1>6
  <2>2. \A j \in D : f[j] = IF j = 0 THEN {} ELSE {j} \cup f[Nodes[j].parent]
    BY <1>6, <1>7
  <2>3. f = [j \in D |-> IF j = 0 THEN {} ELSE {j} \cup f[Nodes[j].parent]]
    BY <2>1, <2>2, Zenon
  <2>4. QED BY <2>3
<1>10. PICK h : /\ h = up
                /\ h = [j \in 0 .. Len(Nodes) |-> IF j = 0 THEN {} ELSE {j} \cup h[Nodes[j].parent]]
  BY <1>9, Zenon
<1> HIDE DEF up
<1>11. h[0] = {} /\ \A j \in DOMAIN Nodes : h[j] = {j} \cup h[Nodes[j].parent]
  <2>1. \A j \in 0 .. Len(Nodes) : h[j] = IF j = 0 THEN {} ELSE {j} \cup h[Nodes[j].parent]
    BY <1>10, Zenon
  <2>2. 0 \in 0 .. Len(Nodes) /\ \A j \in DOMAIN Nodes : j \in 0 .. Len(Nodes) /\ j # 0
    BY <1>1
  <2>3. h[0] = {}
    BY <2>1, <2>2, Zenon
  <2>4. \A j \in DOMAIN Nodes : h[j] = {j} \cup h[Nodes[j].parent]
    BY <2>1, <2>2, Zenon
  <2>5. QED BY <2>3, <2>4
<1>12. h = f
  <2>1. h = [j \in D |-> h[j]]
    <3>1. \A j \in 0 .. Len(Nodes) : h[j] = IF j = 0 THEN {} ELSE {j} \cup h[Nodes[j].parent]
      BY <1>10, Zenon
    <3>2. QED BY <3>1, <1>10, Zenon
  <2> DEFINE T == {j \in D : h[j] = f[j]}
  <2>2. ASSUME NEW j \in D, j \in {0} \/ next[j] \in T PROVE j \in T
    <3>1. CASE j = 0
      BY <3>1, <1>6, <1>11
    <3>2. CASE j # 0
      <4>1. j \in DOMAIN Nodes /\ next[j] = Nodes[j].parent /\ next[j] \in T
        BY <3>2, <2>2, <1>1
      <4>2. h[j] = {j} \cup h[Nodes[j].parent] /\ f[j] = {j} \cup f[Nodes[j].parent]
        BY <4>1, <3>2, <1>7, <1>11
      <4>3. QED BY <4>1, <4>2
    <3>3. QED BY <3>1, <3>2
  <2>3. \A j \in D : j \in T
    <3> HIDE DEF T, D, next
    <3>1. QED BY <2>2, <1>3, AlongRecursion
  <2>4. \A j \in D : h[j] = f[j]
    BY <2>3
  <2>5. f = [j \in D |-> f[j]]
    BY <1>6
  <2>6. QED BY <2>1, <2>4, <2>5, Zenon
<1>13. \A i : Lineage(i) = h[i]
  BY <1>8, <1>10
<1>14. Climbs(h)
  BY <1>6, <1>11, <1>12 DEF Climbs
<1>15. QED BY <1>13, <1>14

(* A concept is in its lineage with the clusters of all that are in it,    *)
(* each of them, but for the concept, because of one inside it.            *)
LineageOf(i, L) ==
    /\ L \subseteq DOMAIN Nodes /\ i \in L
    /\ \A j \in L : Nodes[j].parent # 0 => Nodes[j].parent \in L
    /\ \A j \in L : j # i => \E c \in L : Nodes[c].parent = j

LEMMA LineageIs ==
    ASSUME files \in Files
    PROVE  \A i \in DOMAIN Nodes : LineageOf(i, Lineage(i))
<1>1. PICK up : Climbs(up) /\ \A i : Lineage(i) = up[i]
  BY LineageSteps
<1>2. /\ Len(Nodes) \in Nat /\ DOMAIN Nodes = 1 .. Len(Nodes)
      /\ \A j \in DOMAIN Nodes : Nodes[j].parent \in Nat /\ Nodes[j].parent < j
  BY FilesAre, FileOrder
<1> DEFINE T == {n \in Nat : \A i \in DOMAIN Nodes : i <= n => LineageOf(i, up[i])}
<1>3. 0 \in T
  BY <1>2
<1>4. ASSUME NEW n \in Nat, n \in T PROVE n + 1 \in T
  <2>1. ASSUME NEW i \in DOMAIN Nodes, i <= n + 1 PROVE LineageOf(i, up[i])
    <3>1. CASE i <= n
      BY <3>1, <1>4
    <3>2. CASE i = n + 1
      <4>1. PICK p \in Nat : p = Nodes[i].parent /\ p < i
        BY <1>2
      <4>2. up[i] = {i} \cup up[p]
        BY <4>1, <1>1 DEF Climbs
      <4>3. CASE p = 0
        <5>1. up[i] = {i}
          BY <4>2, <4>3, <1>1 DEF Climbs
        <5>2. QED BY <5>1, <4>1, <4>3 DEF LineageOf
      <4>4. CASE p # 0
        <5>1. p \in DOMAIN Nodes /\ p <= n
          BY <4>1, <4>4, <3>2, <1>2
        <5>2. LineageOf(p, up[p])
          BY <5>1, <1>4
        <5>3. up[i] \subseteq DOMAIN Nodes /\ i \in up[i]
          BY <4>2, <5>2 DEF LineageOf
        <5>4. \A j \in up[i] : Nodes[j].parent # 0 => Nodes[j].parent \in up[i]
          BY <4>1, <4>2, <5>2 DEF LineageOf
        <5>5. ASSUME NEW j \in up[i], j # i PROVE \E c \in up[i] : Nodes[c].parent = j
          <6>1. CASE j = p
            BY <6>1, <4>1, <4>2
          <6>2. CASE j # p
            BY <6>2, <5>5, <4>2, <5>2 DEF LineageOf
          <6>3. QED BY <6>1, <6>2
        <5>6. QED BY <5>3, <5>4, <5>5 DEF LineageOf
      <4>5. QED BY <4>3, <4>4
    <3>3. i \in Nat
      BY <1>2
    <3>4. QED BY <2>1, <3>1, <3>2, <3>3
  <2>2. QED BY <2>1
<1>5. \A n \in Nat : n \in T
  <2> HIDE DEF T
  <2>1. QED BY <1>3, <1>4, NaturalsIn
<1>6. ASSUME NEW i \in DOMAIN Nodes PROVE LineageOf(i, Lineage(i))
  <2>1. i \in Nat /\ i \in T
    BY <1>2, <1>5
  <2>2. LineageOf(i, up[i])
    BY <2>1
  <2>3. QED BY <2>2, <1>1
<1>7. QED BY <1>6

(* Concepts have ids of their own when the rules are kept, *)
LEMMA IdsDiffer ==
    ASSUME AreasNamed, files \in Files, RulesKept
    PROVE  \A i, j \in DOMAIN Nodes : Nodes[i].id = Nodes[j].id => i = j
<1>1. ASSUME NEW i \in DOMAIN Nodes, NEW j \in DOMAIN Nodes, Nodes[i].id = Nodes[j].id
      PROVE  i = j
  <2>1. NodesOf(Nodes[i].id) = {i} /\ NodesOf(Nodes[j].id) = {j}
    BY EachLoaded
  <2>2. QED BY <1>1, <2>1
<1>2. QED BY <1>1

(* and the clusters are those with something inside. *)
LEMMA LeafIs ==
    ASSUME AreasNamed, files \in Files, AllReadable, RulesKept, NEW k \in DOMAIN Nodes,
           NEW g, g = Loaded, NEW h, h = Nodes[k].id
    PROVE  /\ h \in g.ids
           /\ g.children[h] \in Seq(Id)
           /\ ToSet(g.children[h]) = {Nodes[c].id : c \in Within(k)}
           /\ h \in AtomsOf(g) <=> Within(k) = {}
           /\ IsLeaf(k) <=> Within(k) = {}
<1>1. Within(k) \in SUBSET DOMAIN Nodes /\ ChildrenOf(k) = Only(Positions, Within(k))
  BY DEF Within, ChildrenOf
<1>2. g.children[h] = IdsOf(ChildrenOf(k)) /\ h \in LoadedIds
  BY LinksLoaded, EachLoaded
<1>3. g.ids = LoadedIds
  BY LoadedIs
<1>4. PICK list : list = IdsOf(Only(Positions, Within(k)))
  OBVIOUS
<1>5. /\ list \in Seq(Id)
      /\ ToSet(list) = {Nodes[j].id : j \in Within(k)}
      /\ list = <<>> <=> Within(k) = {}
  BY <1>1, <1>4, IdsListed
<1>6. g.children[h] = list
  BY <1>1, <1>2, <1>4
<1>7. h \in AtomsOf(g) <=> list = <<>>
  BY <1>2, <1>3, <1>6 DEF AtomsOf, IsAtom
<1>8. IsLeaf(k) <=> Within(k) = {}
  <2>1. Positions \in Seq(DOMAIN Nodes) /\ ToSet(Positions) = DOMAIN Nodes
    BY FilesAre DEF Positions, ToSet
  <2>2. PICK at : at = Only(Positions, Within(k))
    OBVIOUS
  <2>3. at \in Seq(DOMAIN Nodes) /\ ToSet(at) = Within(k)
    BY <1>1, <2>1, <2>2, OnlyKeeps
  <2>4. at = <<>> <=> Within(k) = {}
    BY <2>3, EmptyList
  <2>5. QED BY <1>1, <2>2, <2>4 DEF IsLeaf
<1>9. QED BY <1>2, <1>3, <1>5, <1>6, <1>7, <1>8

(* An atom is found below some concepts just when one of them is the atom  *)
(* or a cluster it is in.                                                  *)
Covers(under, i, todo) ==
    Nodes[i].id \in ToSet(under[todo]) <=> \E j \in Lineage(i) : Nodes[j].id \in ToSet(todo)

LEMMA ExpandsDown ==
    ASSUME AreasNamed, files \in Files, AllReadable, RulesKept,
           NEW g, g = Loaded, WellFormed(g), NEW i \in DOMAIN Nodes, IsLeaf(i)
    PROVE  \A c \in Seq(Id) : ToSet(c) \subseteq KnownIds =>
              (Nodes[i].id \in ToSet(AtomsUnder(g, c))
                 <=> \E j \in Lineage(i) : Nodes[j].id \in ToSet(c))
<1>1. PICK under : Unders(under, g) /\ \A c : AtomsUnder(g, c) = under[c]
  BY UnderSteps
<1>2. under \in [Seq(Id) -> Seq(AtomsOf(g))] /\ under[<<>>] = <<>>
  BY <1>1 DEF Unders
<1>3. LineageOf(i, Lineage(i))
  BY LineageIs
<1>4. PICK L : L = Lineage(i)
  OBVIOUS
<1>5. /\ L \subseteq DOMAIN Nodes /\ i \in L
      /\ \A j \in L : Nodes[j].parent # 0 => Nodes[j].parent \in L
      /\ \A j \in L : j # i => \E c \in L : Nodes[c].parent = j
  BY <1>3, <1>4 DEF LineageOf
<1>6. /\ DOMAIN Nodes = 1 .. Len(Nodes)
      /\ \A j, k \in DOMAIN Nodes : Nodes[j].id = Nodes[k].id => j = k
  BY IdsDiffer, FilesAre
<1>7. Within(i) = {}
  BY LeafIs
<1> DEFINE T == {todo \in Seq(Id) : ToSet(todo) \subseteq KnownIds => Covers(under, i, todo)}
<1>8. ASSUME NEW todo \in Seq(Id), todo \in {<<>>} \/ Onward(g)[todo] \in T
      PROVE  todo \in T
  <2>1. CASE todo = <<>>
    <3>1. ToSet(todo) = {} /\ ToSet(under[todo]) = {}
      BY <2>1, <1>2, EmptyList
    <3>2. QED BY <3>1 DEF Covers
  <2>2. CASE todo # <<>> /\ ToSet(todo) \subseteq KnownIds
    <3>1. PICK h, more : h = Head(todo) /\ more = Tail(todo)
      OBVIOUS
    <3>2. h \in Id /\ more \in Seq(Id) /\ ToSet(todo) = {h} \cup ToSet(more)
      BY <2>2, <3>1, Split
    <3>3. PICK k \in DOMAIN Nodes : h = Nodes[k].id
      BY <2>2, <3>2 DEF KnownIds, IdsIn, ReadIn, Nodes
    <3>4. /\ h \in g.ids
          /\ g.children[h] \in Seq(Id)
          /\ ToSet(g.children[h]) = {Nodes[c].id : c \in Within(k)}
          /\ h \in AtomsOf(g) <=> Within(k) = {}
      BY <3>3, LeafIs
    <3>5. \A j \in L : Nodes[j].id = h <=> j = k
      BY <1>5, <1>6, <3>3
    <3>6. Nodes[i].id = h <=> i = k
      BY <1>6, <3>3
    <3>7. \A c : c \in Within(k) <=> c \in DOMAIN Nodes /\ Nodes[c].parent = k
      BY DEF Within
    <3>8. CASE Within(k) = {}
      <4>1. Onward(g)[todo] = more /\ under[todo] = <<h>> \o under[more]
        BY <2>2, <3>1, <3>4, <3>8, <1>1 DEF Onward, Unders
      <4>2. Covers(under, i, more)
        BY <1>8, <2>2, <3>2, <4>1
      <4>3. PICK found \in Seq(AtomsOf(g)) : found = under[more]
        BY <3>2, <1>2
      <4>4. PICK first \in Seq(AtomsOf(g)) : first = <<h>> /\ ToSet(first) = {h}
        <5>1. <<h>> \in Seq(AtomsOf(g)) /\ ToSet(<<h>>) = {h}
          BY <3>4, <3>8 DEF ToSet
        <5>2. QED BY <5>1
      <4>5. ToSet(first \o found) = {h} \cup ToSet(found)
        <5>1. ToSet(first \o found) = ToSet(first) \cup ToSet(found)
          BY Joined
        <5>2. QED BY <4>4, <5>1
      <4>6. ToSet(under[todo]) = {h} \cup ToSet(under[more])
        BY <4>1, <4>3, <4>4, <4>5
      <4>7. k \in L <=> k = i
        BY <1>5, <3>7, <3>8
      <4>8. QED BY <1>4, <1>5, <3>2, <3>5, <3>6, <4>2, <4>6, <4>7 DEF Covers
    <3>9. CASE Within(k) # {}
      <4>1. PICK on : on = g.children[h] \o more
        OBVIOUS
      <4>2. on \in Seq(Id) /\ ToSet(on) = {Nodes[c].id : c \in Within(k)} \cup ToSet(more)
        BY <4>1, <3>2, <3>4, Joined
      <4>3. Onward(g)[todo] = on /\ under[todo] = under[on]
        <5>1. Onward(g)[todo] = on
          BY <2>2, <3>1, <3>4, <3>9, <4>1 DEF Onward
        <5>2. under[todo] = under[Onward(g)[todo]]
          BY <2>2, <3>1, <3>4, <3>9, <1>1 DEF Unders
        <5>3. QED BY <5>1, <5>2
      <4>4. ToSet(on) \subseteq KnownIds
        <5>1. \A c \in Within(k) : Nodes[c].id \in KnownIds
          BY <3>7, EachLoaded
        <5>2. QED BY <5>1, <4>2, <2>2, <3>2
      <4>5. Covers(under, i, on)
        BY <1>8, <2>2, <4>3, <4>4
      <4>6. k # i
        BY <3>9, <1>7
      <4>7. k \in L <=> \E c \in Within(k) : c \in L
        <5>1. k # 0
          BY <1>6
        <5>2. QED BY <5>1, <4>6, <1>5, <3>7
      <4>8. (\E j \in L : Nodes[j].id \in {Nodes[c].id : c \in Within(k)}) <=> k \in L
        BY <4>7, <1>5, <1>6, <3>7
      <4>9. (\E j \in L : Nodes[j].id \in ToSet(on)) <=> (\E j \in L : Nodes[j].id \in ToSet(todo))
        BY <4>2, <4>8, <3>2, <3>5
      <4>10. QED BY <4>3, <4>5, <4>9, <1>4 DEF Covers
    <3>10. QED BY <3>8, <3>9
  <2>3. QED BY <2>1, <2>2
<1>9. Terminates(Seq(Id), {<<>>}, Onward(g))
  BY ExpansionEnds
<1>10. \A todo \in Seq(Id) : todo \in T
  <2> HIDE DEF T
  <2>1. QED BY <1>8, <1>9, AlongRecursion
<1>11. ASSUME NEW c \in Seq(Id), ToSet(c) \subseteq KnownIds
       PROVE  Nodes[i].id \in ToSet(AtomsUnder(g, c))
                 <=> \E j \in Lineage(i) : Nodes[j].id \in ToSet(c)
  <2>1. Covers(under, i, c)
    BY <1>10, <1>11
  <2>2. AtomsUnder(g, c) = under[c]
    BY <1>1
  <2>3. QED BY <2>1, <2>2 DEF Covers
<1>12. QED BY <1>11

(* What the orphan rule counts as referenced. *)
Referenced == UNION {ToSet(adj[id]) : id \in DOMAIN adj}

(* Some prerequisite list leads to the atom just when the atom or one of   *)
(* its clusters is referenced.                                             *)
LEMMA LedTo ==
    ASSUME AreasNamed, ReportInv, phase = "loaded", RulesKept,
           NEW g, g = Loaded, WellFormed(g), NEW i \in DOMAIN Nodes, IsLeaf(i)
    PROVE  (\E id \in g.ids : Nodes[i].id \in ToSet(AtomsUnder(g, g.prereqs[id])))
              <=> \E j \in Lineage(i) : Nodes[j].id \in Referenced
<1>1. files \in Files /\ AllReadable /\ adj = EdgesIn(files) /\ g.ids = LoadedIds
  BY LoadedIs DEF ReportInv
<1>2. DOMAIN adj = KnownIds
  BY <1>1 DEF EdgesIn, KnownIds
<1>3. \A id \in g.ids : g.prereqs[id] \in Seq(Id)
  BY DEF WellFormed
<1>4. \A n \in DOMAIN Nodes : ToSet(Nodes[n].prereqs) \subseteq KnownIds
  BY DEF RulesKept, Unresolved
<1>5. ASSUME NEW id \in g.ids, Nodes[i].id \in ToSet(AtomsUnder(g, g.prereqs[id]))
      PROVE  \E j \in Lineage(i) : Nodes[j].id \in Referenced
  <2>1. CASE g.prereqs[id] = <<>>
    <3>1. <<>> \in Seq(Id) /\ ToSet(<<>>) = {}
      BY EmptyList
    <3>2. ~(Nodes[i].id \in ToSet(AtomsUnder(g, <<>>)))
      BY <3>1, <1>1, ExpandsDown
    <3>3. QED BY <3>2, <2>1, <1>5
  <2>2. CASE g.prereqs[id] # <<>>
    <3>1. /\ id \in KnownIds
          /\ \E n \in DOMAIN Nodes : Nodes[n].id = id /\ g.prereqs[id] = Nodes[n].prereqs
          /\ ToSet(g.prereqs[id]) \subseteq ToSet(adj[id])
      BY <1>1, <2>2, PrereqsLoaded
    <3>2. g.prereqs[id] \in Seq(Id) /\ ToSet(g.prereqs[id]) \subseteq KnownIds
      BY <3>1, <1>3, <1>4
    <3>3. PICK j \in Lineage(i) : Nodes[j].id \in ToSet(g.prereqs[id])
      BY <3>2, <1>1, <1>5, ExpandsDown
    <3>4. QED BY <3>1, <3>3, <1>2 DEF Referenced
  <2>3. QED BY <2>1, <2>2
<1>6. ASSUME NEW j \in Lineage(i), Nodes[j].id \in Referenced
      PROVE  \E id \in g.ids : Nodes[i].id \in ToSet(AtomsUnder(g, g.prereqs[id]))
  <2>1. PICK id \in KnownIds : Nodes[j].id \in ToSet(adj[id])
    BY <1>2, <1>6 DEF Referenced
  <2>2. adj[id] = EdgesOf(files, id)
    BY <1>1, <2>1 DEF EdgesIn, KnownIds
  <2>3. PICK n \in Listing(files, id) : Nodes[j].id \in ToSet(files.nodes[n].prereqs)
    BY <1>1, <2>1, <2>2, EdgesAre
  <2>4. n \in DOMAIN Nodes /\ id = Nodes[n].id /\ Nodes[j].id \in ToSet(Nodes[n].prereqs)
    BY <2>3 DEF Listing, Nodes
  <2>5. g.prereqs[id] = Nodes[n].prereqs /\ id \in g.ids
    BY <1>1, <2>4, LinksLoaded, EachLoaded
  <2>6. g.prereqs[id] \in Seq(Id) /\ ToSet(g.prereqs[id]) \subseteq KnownIds
    BY <2>4, <2>5, <1>3, <1>4
  <2>7. Nodes[i].id \in ToSet(AtomsUnder(g, g.prereqs[id]))
    BY <2>4, <2>5, <2>6, <1>1, ExpandsDown
  <2>8. QED BY <2>5, <2>7
<1>7. QED BY <1>5, <1>6

(* The orphan report is that of the orphans. *)
LEMMA OrphanReported ==
    ASSUME AreasNamed, ReportInv, phase = "loaded", RulesKept, NEW i \in DOMAIN Nodes, IsLeaf(i)
    PROVE  [kind |-> "orphan", node |-> Nodes[i].id] \in issues
              <=> ~Nodes[i].terminal /\ ~(\E j \in Lineage(i) : Nodes[j].id \in Referenced)
<1>1. files \in Files /\ issues = WalkIssues \cup CycleIssues \cup OrphanIssues
  BY DEF ReportInv
<1>2. PICK issue : issue = [kind |-> "orphan", node |-> Nodes[i].id]
  OBVIOUS
<1>3. issue.kind = "orphan"
  BY <1>2
<1>4. issue \notin WalkIssues /\ issue \notin CycleIssues
  <2>1. \A x \in WalkIssues : x.kind # "orphan"
    BY DEF WalkIssues
  <2>2. \A x \in CycleIssues : x.kind # "orphan"
    BY DEF CycleIssues
  <2>3. QED BY <1>3, <2>1, <2>2
<1>5. issue \in OrphanIssues <=> i \in Orphans
  <2>1. Orphans \subseteq DOMAIN Nodes
    BY DEF Orphans, RulesKept
  <2>2. \A k \in Orphans : Nodes[k].id = Nodes[i].id => k = i
    BY <2>1, <1>1, IdsDiffer
  <2>3. QED BY <2>2, <1>2 DEF OrphanIssues
<1>6. i \in Orphans <=> ~Nodes[i].terminal /\ ~(\E j \in Lineage(i) : Nodes[j].id \in Referenced)
  BY DEF Orphans, Referenced, RulesKept
<1>7. QED BY <1>1, <1>2, <1>4, <1>5, <1>6

(* Whatever the files, when nothing else is wrong with them than cycles,   *)
(* `mt graph check` calls an atom an orphan just when no expansion of      *)
(* prerequisites comes upon it.                                            *)
THEOREM OrphansAreExact == AreasNamed => (ResSpec => []OrphansMirrorExpansion)
<1> SUFFICES ASSUME AreasNamed PROVE ResSpec => []OrphansMirrorExpansion
  OBVIOUS
<1>1. ASSUME ReportInv, phase = "loaded",
             \A issue \in issues : issue.kind \in {"orphan", "cycle"},
             NEW i \in DOMAIN Nodes, IsLeaf(i)
      PROVE  [kind |-> "orphan", node |-> Nodes[i].id] \in issues <=>
                /\ ~Nodes[i].terminal
                /\ \A id \in graph.ids :
                      ~Contains(AtomsUnder(graph, graph.prereqs[id]), Nodes[i].id)
  <2>1. files \in Files /\ AllReadable /\ graph = Loaded
    BY <1>1 DEF ReportInv
  <2>2. RulesKept
    BY <1>1, RulesAre
  <2>3. WellFormed(Loaded)
    BY <2>1, LoadedWellFormed
  <2>4. PICK g : g = Loaded
    OBVIOUS
  <2>5. WellFormed(g) /\ graph = g
    BY <2>1, <2>3, <2>4
  <2>6. ASSUME NEW id \in g.ids
        PROVE  Contains(AtomsUnder(g, g.prereqs[id]), Nodes[i].id)
                 <=> Nodes[i].id \in ToSet(AtomsUnder(g, g.prereqs[id]))
    <3>1. g.prereqs[id] \in Seq(Id)
      BY <2>5 DEF WellFormed
    <3>2. PICK found \in Seq(AtomsOf(g)) : found = AtomsUnder(g, g.prereqs[id])
      BY <2>5, <3>1, UnderAtoms
    <3>3. DOMAIN found = 1 .. Len(found)
      BY <3>2
    <3>4. QED BY <3>2, <3>3 DEF Contains, ToSet
  <2>7. (\E id \in g.ids : Nodes[i].id \in ToSet(AtomsUnder(g, g.prereqs[id])))
           <=> \E j \in Lineage(i) : Nodes[j].id \in Referenced
    BY <1>1, <2>2, <2>4, <2>5, LedTo
  <2>8. [kind |-> "orphan", node |-> Nodes[i].id] \in issues
           <=> ~Nodes[i].terminal /\ ~(\E j \in Lineage(i) : Nodes[j].id \in Referenced)
    BY <1>1, <2>2, OrphanReported
  <2>9. QED BY <2>5, <2>6, <2>7, <2>8
<1>2. ReportInv => OrphansMirrorExpansion
  BY <1>1 DEF OrphansMirrorExpansion
<1>3. QED BY <1>2, ReportInvariance, PTL

=============================================================================
