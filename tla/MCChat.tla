-------------------------------- MODULE MCChat --------------------------------
(* Two contacts, which nothing tells apart. *)
EXTENDS Chat
CONSTANTS alice, bob
Symmetry == Permutations(Peer)

\* The last gesture is for chats that are not full; the first row has the first ts.
Bounded ==
    /\ gestures + saved < MaxGestures + MaxMsgs
    /\ saved > 0 => stamp[1] = 1
=============================================================================
