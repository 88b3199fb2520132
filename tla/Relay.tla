-------------------------------- MODULE Relay --------------------------------
(***************************************************************************)
(* The relay's tasks around the registry: one task per connection          *)
(* (server/src/handlers_ws.rs, connection_task) and the heartbeat          *)
(* (server/src/hub.rs, spawn_heartbeat), interleaved at every .await.      *)
(*                                                                         *)
(* A critical section under the hub's RwLock contains no await in the      *)
(* connection tasks, so it is one action.  The heartbeat is the exception: *)
(* it closes sockets while it holds the write lock, so the lock is a state *)
(* here (Locked) and every other critical section waits for it.            *)
(*                                                                         *)
(* AbortHandle::abort ends a task at its next suspension, not at once: a   *)
(* poll that is running finishes what it can without suspending.  So an    *)
(* aborted task may take any number of its steps before Die takes it.      *)
(*                                                                         *)
(* Frames that read the registry and write only to sockets (routing,       *)
(* INTRODUCE, WAKE, PUSH_REGISTER) refresh the session and do nothing else *)
(* that this module can see: they are ReadKeepalive here.                  *)
(***************************************************************************)
EXTENDS Hub, Naturals

CONSTANTS
    Owner,     \* the client that opens a connection
    SubLists,  \* the key lists a client puts in SUBSCRIBE and UNSUBSCRIBE
    MaxQuiet   \* how silent a client may get: 1, a ping falls due; 2, it expires

ASSUME OwnerAssumption == Owner \in [Conn -> Client]
ASSUME SubListsAssumption == SubLists \in [Client -> SUBSET (SUBSET Client)]
ASSUME MaxQuietAssumption == MaxQuiet \in [Client -> {0, 1, 2}]

VARIABLES
    pc,       \* where a connection's task is
    open,     \* the connection still takes frames in both directions
    aborted,  \* the heartbeat has aborted the task
    quiet,    \* of a client's session, 0: heard of lately; 1: due a ping;
              \* 2: past the timeout
    keys,     \* the keys of the frame a connection's task is handling
    targets,  \* the sockets its broadcast has yet to write to
    hb,       \* the heartbeat: its phase and the two lists of its snapshot
    view,     \* history: the last presence frame written about a key
    asked     \* history: whether the connection subscribed to a key, and
              \* its client has not unsubscribed since

taskVars == <<pc, open, aborted, keys, targets>>
vars == <<hubVars, taskVars, quiet, hb, view, asked>>

Handshaking == {"handshake", "reply_error", "reply_ok", "insert"}
Established == {"online_snapshot", "online_send", "loop", "decode_sub",
                "decode_unsub", "subscribe", "unsubscribe", "subscribe_reply"}
Closing     == {"cleanup"}
Departing   == {"offline_snapshot", "offline_send"}
Ended       == {"done", "dead"}
PC == {"free"} \cup Handshaking \cup Established \cup Closing \cup Departing
        \cup Ended

Phases == {"idle", "ping", "drop"}

TypeOK ==
    /\ HubTypeOK
    /\ pc \in [Conn -> PC]
    /\ open \in [Conn -> BOOLEAN]
    /\ aborted \in [Conn -> BOOLEAN]
    /\ quiet \in [Client -> {0, 1, 2}]
    /\ keys \in [Conn -> SUBSET Client]
    /\ targets \in [Conn -> SUBSET Conn]
    /\ hb \in [phase : Phases, drop : SUBSET Client, ping : SUBSET Client]
    /\ view \in [Conn -> [Client -> {"none", "on", "off"}]]
    /\ asked \in [Conn -> [Client -> {"no", "yes", "left"}]]

Idle == [phase |-> "idle", drop |-> {}, ping |-> {}]

Init ==
    /\ HubInit
    /\ pc = [c \in Conn |-> "free"]
    /\ open = [c \in Conn |-> FALSE]
    /\ aborted = [c \in Conn |-> FALSE]
    /\ quiet = [i \in Client |-> 0]
    /\ keys = [c \in Conn |-> {}]
    /\ targets = [c \in Conn |-> {}]
    /\ hb = Idle
    /\ view = [c \in Conn |-> [x \in Client |-> "none"]]
    /\ asked = [c \in Conn |-> [x \in Client |-> "no"]]

-----------------------------------------------------------------------------
(* Helpers *)

\* The write lock is held across the closes of the drop phase.
Locked == hb.phase = "drop"

Goto(c, label) == pc' = [pc EXCEPT ![c] = label]

\* hub.touch(id): refreshes whatever session is registered for the id.
touch(i) == quiet' = [quiet EXCEPT ![i] = 0]

\* What a client that still reads its socket knows after a presence frame.
Told(c, xs, word) ==
    view' = IF open[c]
              THEN [view EXCEPT ![c] = [x \in Client |->
                                          IF x \in xs THEN word ELSE @[x]]]
              ELSE view

-----------------------------------------------------------------------------
(* Mutants: steps with one thing forgotten or mistaken *)

InsertSession_Unannounced(c) ==
    /\ pc[c] = "insert"
    /\ ~Locked
    /\ insert(Owner[c], c)
    /\ quiet' = [quiet EXCEPT ![Owner[c]] = 0]
    /\ Goto(c, "loop")
    /\ UNCHANGED <<subVars, open, aborted, keys, targets, hb, view, asked>>

SubscribeReply_Negated(c) ==
    /\ pc[c] = "subscribe_reply"
    /\ Told(c, keys[c], "off")
    /\ keys' = [keys EXCEPT ![c] = {}]
    /\ Goto(c, "loop")
    /\ UNCHANGED <<hubVars, open, aborted, targets, quiet, hb, asked>>

Cleanup_KeepsSession(c) ==
    /\ pc[c] = "cleanup"
    /\ ~Locked
    /\ remove_all_subscriptions(Owner[c])
    /\ Goto(c, "offline_snapshot")
    /\ UNCHANGED <<sessionVars, open, aborted, quiet, keys, targets, hb, view, asked>>

Cleanup_KeepsSubscriptions(c) ==
    /\ pc[c] = "cleanup"
    /\ ~Locked
    /\ remove(Owner[c])
    /\ quiet' = [quiet EXCEPT ![Owner[c]] = 0]
    /\ Goto(c, "offline_snapshot")
    /\ UNCHANGED <<subVars, open, aborted, keys, targets, hb, view, asked>>

\* The ping interval is tested before the timeout.
HeartbeatSnapshot_PingsTheDead ==
    LET due == {i \in Client : contains(i) /\ quiet[i] > 0}
    IN  /\ hb.phase = "idle"
        /\ due # {}
        /\ hb' = [phase |-> "ping", drop |-> {}, ping |-> due]
        /\ UNCHANGED <<hubVars, taskVars, quiet, view, asked>>

HeartbeatDone_KeepsLock ==
    /\ hb.phase = "drop"
    /\ hb.drop = {}
    /\ quiet' = [i \in Client |->
                   IF i \in hb.ping /\ quiet[i] = 1 THEN 0 ELSE quiet[i]]
    /\ UNCHANGED <<hubVars, taskVars, hb, view, asked>>

-----------------------------------------------------------------------------
(* perform_handshake *)

Accept(c) ==
    /\ pc[c] = "free"
    /\ Goto(c, "handshake")
    /\ open' = [open EXCEPT ![c] = TRUE]
    /\ UNCHANGED <<hubVars, aborted, quiet, keys, targets, hb, view, asked>>

\* The first frame is missing, malformed, or does not verify.
BadHandshake(c) ==
    /\ pc[c] = "handshake"
    /\ Goto(c, "done")
    /\ open' = [open EXCEPT ![c] = FALSE]
    /\ UNCHANGED <<hubVars, aborted, quiet, keys, targets, hb, view, asked>>

BadVersion(c) ==
    /\ pc[c] = "handshake"
    /\ Goto(c, "reply_error")
    /\ UNCHANGED <<hubVars, open, aborted, quiet, keys, targets, hb, view, asked>>

\* The collision check, in a read section of its own.
CheckCollision(c) ==
    /\ pc[c] = "handshake"
    /\ ~Locked
    /\ Goto(c, IF contains(Owner[c]) THEN "reply_error" ELSE "reply_ok")
    /\ UNCHANGED <<hubVars, open, aborted, quiet, keys, targets, hb, view, asked>>

SendError(c) ==
    /\ pc[c] = "reply_error"
    /\ Goto(c, "done")
    /\ open' = [open EXCEPT ![c] = FALSE]
    /\ UNCHANGED <<hubVars, aborted, quiet, keys, targets, hb, view, asked>>

\* HANDSHAKE_OK is on the wire before the session is in the hub.  The send
\* fails, and the task ends, once the socket is known to be gone.
SendOk(c) ==
    /\ pc[c] = "reply_ok"
    /\ \/ Goto(c, "insert")
       \/ ~open[c] /\ Goto(c, "done")
    /\ UNCHANGED <<hubVars, open, aborted, quiet, keys, targets, hb, view, asked>>

InsertSession(c) ==
    /\ pc[c] = "insert"
    /\ ~Locked
    /\ insert(Owner[c], c)
    /\ quiet' = [quiet EXCEPT ![Owner[c]] = 0]
    /\ Goto(c, "online_snapshot")
    /\ UNCHANGED <<subVars, open, aborted, keys, targets, hb, view, asked>>

-----------------------------------------------------------------------------
(* broadcast_presence, before the loop and after it *)

Snapshot(c, from, to) ==
    /\ pc[c] = from
    /\ ~Locked
    /\ targets' = [targets EXCEPT ![c] = subscribers_targets(Owner[c])]
    /\ Goto(c, to)
    /\ UNCHANGED <<hubVars, open, aborted, keys, quiet, hb, view, asked>>

Send(c, at, word) ==
    /\ pc[c] = at
    /\ \E t \in targets[c] :
          /\ targets' = [targets EXCEPT ![c] = @ \ {t}]
          /\ Told(t, {Owner[c]}, word)
    /\ UNCHANGED <<hubVars, pc, open, aborted, keys, quiet, hb, asked>>

SendsDone(c, at, to) ==
    /\ pc[c] = at
    /\ targets[c] = {}
    /\ Goto(c, to)
    /\ UNCHANGED <<hubVars, open, aborted, keys, targets, quiet, hb, view, asked>>

OnlineSnapshot(c)  == Snapshot(c, "online_snapshot", "online_send")
OnlineSend(c)      == Send(c, "online_send", "on")
OnlineDone(c)      == SendsDone(c, "online_send", "loop")
OfflineSnapshot(c) == Snapshot(c, "offline_snapshot", "offline_send")
OfflineSend(c)     == Send(c, "offline_send", "off")
OfflineDone(c)     == SendsDone(c, "offline_send", "done")

-----------------------------------------------------------------------------
(* The loop of connection_task.  A frame a client sent before it vanished  *)
(* may be read after; nothing tells that from reading it before, so frames *)
(* are read while the connection is open.                                  *)

\* Ping, Pong, a text "pong", or a frame the registry is only read for.
ReadKeepalive(c) ==
    /\ pc[c] = "loop"
    /\ open[c]
    /\ ~Locked
    /\ touch(Owner[c])
    /\ UNCHANGED <<hubVars, taskVars, hb, view, asked>>

ReadServerBound(c, xs, to) ==
    /\ pc[c] = "loop"
    /\ open[c]
    /\ ~Locked
    /\ touch(Owner[c])
    /\ keys' = [keys EXCEPT ![c] = xs]
    /\ Goto(c, to)
    /\ UNCHANGED <<hubVars, open, aborted, targets, hb, view, asked>>

ReadSubscribe(c, xs)   == ReadServerBound(c, xs, "decode_sub")
ReadUnsubscribe(c, xs) == ReadServerBound(c, xs, "decode_unsub")

\* handle_server_bound: a sender no longer in the hub is ignored.
Decode(c, at, to) ==
    /\ pc[c] = at
    /\ ~Locked
    /\ IF contains(Owner[c])
         THEN Goto(c, to) /\ UNCHANGED keys
         ELSE Goto(c, "loop") /\ keys' = [keys EXCEPT ![c] = {}]
    /\ UNCHANGED <<hubVars, open, aborted, targets, quiet, hb, view, asked>>

DecodeSubscribe(c)   == Decode(c, "decode_sub", "subscribe")
DecodeUnsubscribe(c) == Decode(c, "decode_unsub", "unsubscribe")

\* All keys are added in one write section; which of them are online is read
\* in the same section.
ApplySubscribe(c) ==
    LET already_online == keys[c] \cap online_xs IN
    /\ pc[c] = "subscribe"
    /\ ~Locked
    /\ add_subscriptions(Owner[c], keys[c])
    /\ keys' = [keys EXCEPT ![c] = already_online]
    /\ Goto(c, IF already_online = {} THEN "loop" ELSE "subscribe_reply")
    /\ asked' = [asked EXCEPT ![c] = [x \in Client |->
                    IF x \in keys[c] /\ @[x] = "no" THEN "yes" ELSE @[x]]]
    /\ UNCHANGED <<sessionVars, open, aborted, targets, quiet, hb, view>>

SubscribeReply(c) ==
    /\ pc[c] = "subscribe_reply"
    /\ Told(c, keys[c], "on")
    /\ keys' = [keys EXCEPT ![c] = {}]
    /\ Goto(c, "loop")
    /\ UNCHANGED <<hubVars, open, aborted, targets, quiet, hb, asked>>

ApplyUnsubscribe(c) ==
    /\ pc[c] = "unsubscribe"
    /\ ~Locked
    /\ remove_subscriptions(Owner[c], keys[c])
    /\ keys' = [keys EXCEPT ![c] = {}]
    /\ Goto(c, "loop")
    /\ asked' = [d \in Conn |-> [x \in Client |->
                    IF /\ Owner[d] = Owner[c] /\ x \in keys[c]
                       /\ asked[d][x] = "yes"
                      THEN "left" ELSE asked[d][x]]]
    /\ UNCHANGED <<sessionVars, open, aborted, targets, quiet, hb, view>>

\* The stream ended: the peer vanished, closed, or broke the protocol.
LeaveLoop(c) ==
    /\ pc[c] = "loop"
    /\ ~open[c]
    /\ Goto(c, "cleanup")
    /\ UNCHANGED <<hubVars, open, aborted, quiet, keys, targets, hb, view, asked>>

\* The session is removed by id, whichever connection registered it.
Cleanup(c) ==
    /\ pc[c] = "cleanup"
    /\ ~Locked
    /\ remove(Owner[c])
    /\ remove_all_subscriptions(Owner[c])
    /\ quiet' = [quiet EXCEPT ![Owner[c]] = 0]
    /\ Goto(c, "offline_snapshot")
    /\ UNCHANGED <<open, aborted, keys, targets, hb, view, asked>>

\* An aborted task is dropped: none of the code after its await runs.
Die(c) ==
    /\ aborted[c]
    /\ pc[c] \notin Ended
    /\ Goto(c, "dead")
    /\ keys' = [keys EXCEPT ![c] = {}]
    /\ targets' = [targets EXCEPT ![c] = {}]
    /\ UNCHANGED <<hubVars, open, aborted, quiet, hb, view, asked>>

-----------------------------------------------------------------------------
(* spawn_heartbeat: one tick is the snapshot, the pings, the drops *)

HeartbeatSnapshot ==
    LET expired == {i \in Client : contains(i) /\ quiet[i] = 2}
        due     == {i \in Client : contains(i) /\ quiet[i] = 1}
    IN  /\ hb.phase = "idle"
        /\ expired \cup due # {}
        /\ hb' = [phase |-> "ping", drop |-> expired, ping |-> due]
        /\ UNCHANGED <<hubVars, taskVars, quiet, view, asked>>

\* The pings are over; the write lock is taken and stays taken.
HeartbeatLock ==
    /\ hb.phase = "ping"
    /\ hb' = [hb EXCEPT !.phase = "drop"]
    /\ UNCHANGED <<hubVars, taskVars, quiet, view, asked>>

\* Whatever session the id has by now is removed, its task aborted and its
\* socket closed.  The subscriptions stay and nobody is told.
HeartbeatDrop(i) ==
    /\ hb.phase = "drop"
    /\ i \in hb.drop
    /\ hb' = [hb EXCEPT !.drop = @ \ {i}]
    /\ remove(i)
    /\ IF contains(i)
         THEN /\ aborted' = [aborted EXCEPT ![by_id[i]] = TRUE]
              /\ open' = [open EXCEPT ![by_id[i]] = FALSE]
         ELSE UNCHANGED <<aborted, open>>
    /\ quiet' = [quiet EXCEPT ![i] = 0]
    /\ UNCHANGED <<subVars, pc, keys, targets, view, asked>>

\* last_ping = now for the pinged ids; an expired session stays expired.
HeartbeatDone ==
    /\ hb.phase = "drop"
    /\ hb.drop = {}
    /\ hb' = Idle
    /\ quiet' = [i \in Client |->
                   IF i \in hb.ping /\ quiet[i] = 1 THEN 0 ELSE quiet[i]]
    /\ UNCHANGED <<hubVars, taskVars, view, asked>>

-----------------------------------------------------------------------------
(* The environment *)

\* The peer closes its socket, or is found gone.
Vanish(c) ==
    /\ pc[c] \notin {"free"} \cup Ended
    /\ open[c]
    /\ open' = [open EXCEPT ![c] = FALSE]
    /\ UNCHANGED <<hubVars, pc, aborted, keys, targets, quiet, hb, view, asked>>

\* Time passes without a frame from a registered session.
Silence(i) ==
    /\ contains(i)
    /\ quiet[i] < MaxQuiet[i]
    /\ quiet' = [quiet EXCEPT ![i] = @ + 1]
    /\ UNCHANGED <<hubVars, taskVars, hb, view, asked>>

-----------------------------------------------------------------------------
\* What a task does on its own, once the client's frames are read.
TaskStep(c) ==
    \/ CheckCollision(c) \/ SendError(c) \/ SendOk(c) \/ InsertSession(c)
    \/ OnlineSnapshot(c) \/ OnlineSend(c) \/ OnlineDone(c)
    \/ DecodeSubscribe(c) \/ ApplySubscribe(c) \/ SubscribeReply(c)
    \/ DecodeUnsubscribe(c) \/ ApplyUnsubscribe(c)
    \/ LeaveLoop(c) \/ Cleanup(c)
    \/ OfflineSnapshot(c) \/ OfflineSend(c) \/ OfflineDone(c)
    \/ Die(c)

Frame(c) ==
    \/ BadHandshake(c) \/ BadVersion(c)
    \/ ReadKeepalive(c)
    \/ \E xs \in SubLists[Owner[c]] : ReadSubscribe(c, xs) \/ ReadUnsubscribe(c, xs)

Heartbeat ==
    \/ HeartbeatSnapshot \/ HeartbeatLock \/ HeartbeatDone
    \/ \E i \in Client : HeartbeatDrop(i)

Next ==
    \/ \E c \in Conn : TaskStep(c) \/ Accept(c) \/ Frame(c) \/ Vanish(c)
    \/ \E i \in Client : Silence(i)
    \/ Heartbeat

Spec == Init /\ [][Next]_vars

\* The executors run every task that is ready and the interval timer ticks
\* for ever; tokio's RwLock queues its waiters first come first served, so a
\* task whose section is free again and again gets it (hence SF).  Clients
\* owe nothing.
Fairness ==
    /\ \A c \in Conn : SF_vars(TaskStep(c))
    /\ WF_vars(Heartbeat)

FairSpec == Spec /\ Fairness
-----------------------------------------------------------------------------
(* Properties *)

Alive(c) == pc[c] \in Established \cup Closing

\* c is the connection its client is reached through.
Registered(c) == by_id[Owner[c]] = c

(* The hub never holds a session whose task has ended, and files it under  *)
(* the client that made it: whatever the order of two connections of one   *)
(* client, their cleanups and the heartbeat, a registered session is read. *)
NoDeadSession ==
    \A i \in Client : contains(i) => Alive(by_id[i]) /\ Owner[by_id[i]] = i

(* A task the heartbeat aborted is out of the hub for good: nothing it may *)
(* still do before it is dropped files its session again.                  *)
AbortedGone ==
    \A c \in Conn : aborted[c] => pc[c] \notin {"free"} \cup Handshaking
                                /\ \A i \in Client : by_id[i] # c

(* A subscriber misses no arrival: a client whose connection subscribed to *)
(* x while x was connecting hears about x from the reply or from the       *)
(* broadcast, whichever of apply_subscribe and InsertSession was first.    *)
NoMissedOnline ==
    \A c \in Conn, x \in Client :
       (/\ Registered(c) /\ open[c] /\ asked[c][x] = "yes"
        /\ pc[c] # "subscribe_reply"
        /\ contains(x)
        /\ pc[by_id[x]] \notin {"online_snapshot", "online_send"})
       => view[c][x] # "none"

\* x has used one connection only.
OneConnection(x) ==
    \A d, e \in Conn :
       (Owner[d] = x /\ Owner[e] = x /\ pc[d] # "free" /\ pc[e] # "free") => d = e

\* No task of x has presence frames left to write, nor c a reply.
Settled(c, x) ==
    /\ pc[c] # "subscribe_reply"
    /\ \A d \in Conn : Owner[d] = x =>
          pc[d] \notin Departing \cup {"online_snapshot", "online_send"}

(* For a peer that connects once, what a subscriber was told last is "on"  *)
(* while the peer is online: neither the reply nor the broadcast can leave *)
(* it with a stale "off".                                                  *)
ArrivalKnown ==
    \A c \in Conn, x \in Client :
       (/\ Registered(c) /\ open[c] /\ asked[c][x] = "yes"
        /\ OneConnection(x) /\ Settled(c, x) /\ is_x_online(x))
       => view[c][x] = "on"

(* A registered session that stays silent past the timeout is eventually   *)
(* dropped, or heard of again: no client is locked out by its own corpse.  *)
SilentReaped ==
    \A i \in Client, c \in Conn :
       (by_id[i] = c /\ quiet[i] = 2) ~> (by_id[i] # c \/ quiet[i] # 2)

(* A connection that is gone is eventually finished with: its task ends,   *)
(* whatever the heartbeat and the other tasks hold.                        *)
GoneFinishes ==
    \A c \in Conn : (pc[c] # "free" /\ ~open[c] /\ pc[c] # "handshake")
                       ~> pc[c] \in Ended
=============================================================================
