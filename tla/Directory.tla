------------------------------ MODULE Directory ------------------------------
(***************************************************************************)
(* What the relay promises to be: a directory of at most one session per   *)
(* client and one relation that says who watches whom.  A connection is    *)
(* entered once, watches on behalf of its client while it is a member, and *)
(* leaves once, taking the client's subscriptions along; only a connection *)
(* that has expired may leave without.  There are no tasks, locks or       *)
(* indexes.  Relay implements it, with the forward subscription index for  *)
(* the relation and with the reverse one.                                  *)
(***************************************************************************)
CONSTANTS Client, Conn, None, Owner

VARIABLES
    fresh,    \* the connections that may still be entered
    members,  \* the connections that were entered and have not left
    expired,  \* the connections that timed out
    session,  \* the connection a client is reached through, or None
    watching  \* the pairs <<i, x>> such that i watches x

dirVars == <<fresh, members, expired, session, watching>>

Init ==
    /\ fresh = Conn
    /\ members = {}
    /\ expired = {}
    /\ session = [i \in Client |-> None]
    /\ watching = {}

Register(c) ==
    /\ c \in fresh
    /\ fresh' = fresh \ {c}
    /\ members' = members \cup {c}
    /\ session' = [session EXCEPT ![Owner[c]] = c]
    /\ UNCHANGED <<expired, watching>>

\* A handshake that came to nothing.
Abandon(c) ==
    /\ c \in fresh
    /\ fresh' = fresh \ {c}
    /\ UNCHANGED <<members, expired, session, watching>>

\* The client's session goes too, even if another connection registered it.
Leave(c) ==
    /\ c \in members
    /\ members' = members \ {c}
    /\ session' = [session EXCEPT ![Owner[c]] = None]
    /\ watching' = {p \in watching : p[1] # Owner[c]}
    /\ UNCHANGED <<fresh, expired>>

Expire(i) ==
    /\ session[i] \in members
    /\ expired' = expired \cup {session[i]}
    /\ session' = [session EXCEPT ![i] = None]
    /\ UNCHANGED <<fresh, members, watching>>

\* An expired connection is forgotten: its client's subscriptions stay.
Lapse(c) ==
    /\ c \in members \cap expired
    /\ members' = members \ {c}
    /\ UNCHANGED <<fresh, expired, session, watching>>

Watch(c, xs) ==
    /\ c \in members
    /\ watching' = watching \cup ({Owner[c]} \X xs)
    /\ UNCHANGED <<fresh, members, expired, session>>

Unwatch(c, xs) ==
    /\ c \in members
    /\ watching' = watching \ ({Owner[c]} \X xs)
    /\ UNCHANGED <<fresh, members, expired, session>>

Next ==
    \/ \E c \in Conn : Register(c) \/ Abandon(c) \/ Leave(c) \/ Lapse(c)
    \/ \E i \in Client : Expire(i)
    \/ \E c \in Conn, xs \in SUBSET Client : Watch(c, xs) \/ Unwatch(c, xs)

Spec == Init /\ [][Next]_dirVars
=============================================================================
