--------------------------- MODULE RelayRefinement ---------------------------
(***************************************************************************)
(* The relay implements Directory twice over: once with the relation read  *)
(* from my_subs, once with the relation read from subscribers_of.          *)
(***************************************************************************)
EXTENDS Relay

\* Connections that have not been in the hub and may still get there.
Unregistered == {c \in Conn : pc[c] \in {"free"} \cup Handshaking}
Members      == {c \in Conn : Alive(c)}
Expired      == {c \in Conn : aborted[c]}

ForwardPairs == {p \in Client \X Client : p[2] \in my_subs[p[1]]}
ReversePairs == {p \in Client \X Client : p[1] \in subscribers_of[p[2]]}

Forward == INSTANCE Directory
             WITH fresh <- Unregistered, members <- Members, expired <- Expired,
                  session <- by_id, watching <- ForwardPairs

Reverse == INSTANCE Directory
             WITH fresh <- Unregistered, members <- Members, expired <- Expired,
                  session <- by_id, watching <- ReversePairs

(* Every step of the relay is a step of the directory or leaves it alone:  *)
(* sessions are entered once, only live connections change what their      *)
(* client watches, and the index that cleanup works from is emptied by     *)
(* every departure but that of an aborted task.                            *)
ForwardSpec == Forward!Spec

(* The same for the index that presence broadcasts are sent by: a client   *)
(* that left the orderly way is sent nothing more.                         *)
ReverseSpec == Reverse!Spec
=============================================================================
