---------------------------- MODULE MCTargetResolution ----------------------------
(***************************************************************************)
(* Area 1 holds the cluster 2 of the atom 3 and the cluster 4 of the atom  *)
(* 5; area 6 holds the terminal atom 7.  Prerequisites are drawn from a    *)
(* few lists, the area 6 and the missing id 8 among them.  In Flat every   *)
(* one of the three atoms 2, 8 and 7 may need every other.                 *)
(***************************************************************************)
EXTENDS TargetResolution

MCId == 1 .. 9
MCDifficulties == <<"easy">>

(* 9 has a segment that is no positive integer. *)
MCSegments ==
    <<<<1>>, <<1, 1>>, <<1, 1, 1>>, <<1, 1, 2>>, <<1, 1, 2, 1>>, <<2>>, <<2, 1>>,
      <<2, 2>>, <<1, 1, 0>>>>

Node(id, parent, area, prereqs) ==
    [id |-> id, parent |-> parent, area |-> area, prereqs |-> prereqs, terminal |-> id = 7]

Concepts(p2, p3, p4, p5, p7) ==
    <<Node(2, 0, 1, p2), Node(3, 1, 1, p3), Node(4, 1, 1, p4), Node(5, 3, 1, p5),
      Node(7, 0, 2, p7)>>

Area(prefix, header) == [prefix |-> prefix, stated |-> prefix, header |-> header]
Areas == <<Area(1, "ok"), Area(6, "ok")>>

Nested ==
    [areas : {Areas},
     nodes : {Concepts(p2, p3, p4, p5, p7) :
                p2 \in {<<>>, <<7>>, <<4>>}, p3 \in {<<>>, <<5>>, <<4>>, <<3>>},
                p4 \in {<<>>, <<2>>, <<7, 3>>}, p5 \in {<<>>, <<3>>, <<7>>, <<6>>},
                p7 \in {<<>>, <<3, 5>>, <<2>>, <<4, 8>>}}]

(* One rule broken each: a file missing, one of another slug or prefix, an *)
(* id used twice (next to each other or in two areas), a segment that is   *)
(* not a number, an id that skips a level, one of another area.            *)
Broken ==
    LET plain == Concepts(<<>>, <<>>, <<>>, <<3>>, <<2>>)
        with(areas, nodes) == [areas |-> areas, nodes |-> nodes]
    IN  {with(<<Area(1, "ok"), Area(6, "unreadable")>>, plain),
         with(<<Area(1, "bad"), Area(6, "ok")>>, plain),
         with(<<Area(1, "ok"), [Area(6, "ok") EXCEPT !.stated = 1]>>, plain),
         with(Areas, Append(plain, Node(7, 0, 2, <<>>))),
         with(Areas, Append(plain, Node(3, 0, 2, <<5>>))),
         with(Areas, SubSeq(plain, 1, 4) \o <<Node(7, 0, 2, <<4>>), Node(7, 5, 2, <<3>>)>>),
         with(Areas, [plain EXCEPT ![2] = Node(9, 1, 1, <<>>)]),
         with(Areas, [plain EXCEPT ![2] = Node(5, 1, 1, <<>>), ![4] = Node(3, 3, 1, <<>>)]),
         with(Areas, SubSeq(plain, 1, 4) \o <<Node(8, 0, 1, <<>>), plain[5]>>)}

(* Self-loops, cycles, a prerequisite listed twice, a missing one.         *)
FlatPrereqs == {<<>>, <<2>>, <<7>>, <<8>>, <<9, 2>>, <<8, 8>>, <<2, 7>>, <<7, 8>>, <<6>>}
Flat ==
    [areas : {Areas},
     nodes : {<<Node(2, 0, 1, p2), Node(8, 0, 2, p8), Node(7, 0, 2, p7)>> :
                p2 \in FlatPrereqs, p8 \in FlatPrereqs, p7 \in FlatPrereqs}]

MCFiles == Nested \cup Broken \cup Flat
MCTargetLists ==
    {<<7>>, <<2, 7>>, <<5, 3>>, <<6, 4>>, <<1, 6>>, <<8, 2, 7>>, <<2, 6>>, <<7, 7, 6>>, <<3, 9>>}
=============================================================================
