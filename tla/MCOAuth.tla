------------------------------ MODULE MCOAuth ------------------------------
(***************************************************************************)
(* Two registrations; the first may start two logins, and the clients may  *)
(* also ask with the verifier of another login or with a redirect URI that *)
(* is not registered.  Every lifetime is zero: what is issued at one tick  *)
(* has expired at the next.                                                *)
(***************************************************************************)
EXTENDS OAuth, TLC

CONSTANTS c1, c2, uri, other, x, y, s1, s2

MCClient == {c1, c2}
Query(client, to, challenge) == [client |-> client, uri |-> to, challenge |-> challenge]
MCQueries == {Query(c1, uri, x), Query(c1, uri, y), Query(c2, uri, x), Query(c1, other, x)}
MCSlot == {s1, s2}
SlotSymmetry == Permutations(MCSlot)
MCRedirects == [c \in MCClient |-> {uri}]
=============================================================================
