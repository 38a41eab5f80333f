---------------------------- MODULE MCRtspServer ----------------------------
(* RtspServer with two or three clients and two or three slots.  A run whose *)
(* clients are well behaved names the one session id and the unicast         *)
(* transport; the others have every transport, two ids and a missing header. *)
EXTENDS RtspServer, TLC
CONSTANTS c1, c2, c3
TwoClients == {c1, c2}
ThreeClients == {c1, c2, c3}
TwoSymmetry == Permutations(TwoClients)
ThreeSymmetry == Permutations(ThreeClients)
OneId == {1}
AnyHeader == {1, 2, NoHeader}
AnyTransport == TransportKinds
OnlyUnicast == {"unicast"}
=============================================================================
