------------------------------- MODULE MCRelay -------------------------------
(* Instances of Relay for TLC: client a has two connections that overlap    *)
(* and client b, with one or two of its own, watches it.                    *)
EXTENDS RelayRefinement, TLC

CONSTANTS c1, c2, c3, c4, a, b

MCOwner == [c \in Conn |-> IF c \in {c1, c2} THEN a ELSE b]

\* b watches a; or each watches the other.
OneWay  == (a :> {}) @@ (b :> {{a}})
BothWays == (a :> {{b}}) @@ (b :> {{a}})

\* Nobody falls silent; only a does.
NobodyQuiet == (a :> 0) @@ (b :> 0)
PeerQuiet   == (a :> 2) @@ (b :> 0)

ConnSymmetry == Permutations({c1, c2}) \cup Permutations({c3, c4} \cap Conn)
=============================================================================
