------------------------------ MODULE MCContacts ------------------------------
(* Contacts that nothing tells apart. *)
EXTENDS Contacts, TLC
CONSTANTS alice, bob
Symmetry == Permutations(Peer)
=============================================================================
