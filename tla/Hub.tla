--------------------------------- MODULE Hub ---------------------------------
(***************************************************************************)
(* The connection registry of the relay (server/src/hub.rs, HubState): who *)
(* is connected, and who watches whose presence.  Every operation below is *)
(* one critical section's worth of work on the maps; the tasks that take   *)
(* the lock around them are in module Relay.                               *)
(*                                                                         *)
(* A client's routing id is the prefix of its X25519 key                   *)
(* (derive_client_id), so one CONSTANT, Client, stands for both: by_id and *)
(* my_subs are keyed by the id, online_xs and subscribers_of by the key.   *)
(* A ClientSession is identified with the connection it belongs to.        *)
(***************************************************************************)
EXTENDS FiniteSets

CONSTANTS
    Client,     \* identities: X25519 public keys and the ids cut from them
    Conn,       \* connections the relay accepts, each with a task of its own
    None        \* no session

ASSUME NoneAssumption == None \notin Conn /\ None \notin Client

VARIABLES
    by_id,          \* the session registered for a client, or None
    online_xs,      \* the keys answered with "online"
    subscribers_of, \* the clients watching a key; {} where the map has no entry
    my_subs         \* the keys a client watches; {} where the map has no entry

sessionVars == <<by_id, online_xs>>
subVars     == <<subscribers_of, my_subs>>
hubVars     == <<by_id, online_xs, subscribers_of, my_subs>>

HubTypeOK ==
    /\ by_id \in [Client -> Conn \cup {None}]
    /\ online_xs \in SUBSET Client
    /\ subscribers_of \in [Client -> SUBSET Client]
    /\ my_subs \in [Client -> SUBSET Client]

HubInit ==
    /\ by_id = [i \in Client |-> None]
    /\ online_xs = {}
    /\ subscribers_of = [x \in Client |-> {}]
    /\ my_subs = [i \in Client |-> {}]

-----------------------------------------------------------------------------
contains(i) == by_id[i] # None

is_x_online(x) == x \in online_xs

\* Mutants: operations that get one map wrong.
insert_KeyForSession(i, c) ==
    /\ online_xs' = online_xs \cup {i}
    /\ by_id' = [by_id EXCEPT ![i] = i]

remove_all_ForwardOnly(me) ==
    /\ my_subs' = [my_subs EXCEPT ![me] = {}]
    /\ UNCHANGED subscribers_of

\* HashMap::insert: whatever session was registered for the id is replaced.
insert(i, c) ==
    /\ online_xs' = online_xs \cup {i}
    /\ by_id' = [by_id EXCEPT ![i] = c]

\* Removes the session only; the subscriptions of the client stay.
remove(i) ==
    /\ by_id' = [by_id EXCEPT ![i] = None]
    /\ online_xs' = IF contains(i) THEN online_xs \ {i} ELSE online_xs

\* add_subscription for every key of a SUBSCRIBE body.
add_subscriptions(me, xs) ==
    /\ subscribers_of' = [x \in Client |->
                            IF x \in xs THEN subscribers_of[x] \cup {me}
                                        ELSE subscribers_of[x]]
    /\ my_subs' = [my_subs EXCEPT ![me] = @ \cup xs]

\* remove_subscription for every key of an UNSUBSCRIBE body.
remove_subscriptions(me, xs) ==
    /\ subscribers_of' = [x \in Client |->
                            IF x \in xs THEN subscribers_of[x] \ {me}
                                        ELSE subscribers_of[x]]
    /\ my_subs' = [my_subs EXCEPT ![me] = @ \ xs]

\* The forward index says which entries of the reverse index to clean.
remove_all_subscriptions(me) ==
    /\ subscribers_of' = [x \in Client |->
                            IF x \in my_subs[me] THEN subscribers_of[x] \ {me}
                                                 ELSE subscribers_of[x]]
    /\ my_subs' = [my_subs EXCEPT ![me] = {}]

\* The sessions a presence frame about x goes to, as of now.
subscribers_targets(x) ==
    {by_id[i] : i \in {s \in subscribers_of[x] : contains(s)}}

-----------------------------------------------------------------------------
(* The two subscription indexes never disagree: a client is listed under a *)
(* key exactly when the key is listed under the client.                    *)
SubIndexMirror ==
    \A i, x \in Client : i \in subscribers_of[x] <=> x \in my_subs[i]

(* "Is X online?" answers exactly for the registered clients.              *)
OnlineIndex == online_xs = {i \in Client : contains(i)}
=============================================================================
