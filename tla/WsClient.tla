------------------------------ MODULE WsClient ------------------------------
(***************************************************************************)
(* The browser client's connection to the relay: web/ws_client.js, the     *)
(* handshake state of the WASM session it shares between sockets           *)
(* (wasm/src/lib.rs), and the events of web/app.js that reconnect it.      *)
(*                                                                         *)
(* All of it runs on one thread; what interleaves are the callbacks of the *)
(* sockets, some of them replaced long ago, the retry timer, the watchdog  *)
(* and the user.  The relay is reduced to what concerns one client: the    *)
(* task of each of its sockets, and which of them the hub holds under the  *)
(* client's id.  The check for a session, the insert and the removal by id *)
(* are steps of their own, as the code has them (module Relay has the      *)
(* rest).  The backoff's length is left out: a timer that is armed fires   *)
(* at some time.                                                           *)
(***************************************************************************)
EXTENDS Naturals, Sequences, FiniteSets

CONSTANTS
    Socket,     \* WebSocket objects; one that both ends forgot is used again
    None,
    MaxFaults,  \* bound: failed connects, drops, paths gone deaf
    MaxNudges   \* bound: events of the user that reconnect

ASSUME NoneAssumption == None \notin Socket
ASSUME BoundsAssumption == MaxFaults \in Nat /\ MaxNudges \in Nat

VARIABLES
    \* the page
    ws,             \* this.ws
    sock,           \* a socket's readyState; "none" once its close event is over
    hooked,         \* its onclose and onmessage are still attached
    timer,          \* _reconnectTimer is armed
    closedManually,
    keys,           \* the session holds routing keys
    handshake_done, \* the session's flag, whichever socket it was set for
    appPingSeen,
    hidden,         \* document.hidden
    \* the other end
    srv,            \* the relay's task of a socket
    holder,         \* the socket whose session the hub holds
    doomed,         \* the heartbeat has the client's id on its list to drop
    inbox,          \* frames on their way to the page
    deaf,           \* nothing passes this socket any more, unnoticed
    \* history and bounds
    overlapped,     \* a call was accepted while this.ws was closing
    faults, nudges

page   == <<ws, sock, hooked, timer, closedManually, hidden>>
sess   == <<keys, handshake_done>>
relay  == <<srv, holder, doomed>>
wire   == <<relay, inbox, deaf>>
bounds == <<faults, nudges>>
vars   == <<page, sess, appPingSeen, wire, overlapped, bounds>>

InboxBound == 2

TypeOK ==
    /\ ws \in Socket \cup {None}
    /\ sock \in [Socket -> {"none", "connecting", "open", "closing"}]
    /\ hooked \in [Socket -> BOOLEAN]
    /\ timer \in BOOLEAN /\ closedManually \in BOOLEAN
    /\ keys \in BOOLEAN /\ handshake_done \in BOOLEAN
    /\ appPingSeen \in BOOLEAN /\ hidden \in BOOLEAN
    /\ srv \in [Socket -> {"none", "hello", "accepted", "live", "refused"}]
    /\ holder \in Socket \cup {None} /\ doomed \in BOOLEAN
    /\ inbox \in [Socket -> Seq({"ok", "in_use", "frame"})]
    /\ \A s \in Socket : Len(inbox[s]) <= InboxBound
    /\ deaf \in [Socket -> BOOLEAN]
    /\ overlapped \in BOOLEAN
    /\ faults \in 0..MaxFaults /\ nudges \in 0..MaxNudges

\* connect() has been called: the first socket is on its way.
Init ==
    \E first \in Socket :
       /\ ws = first
       /\ sock = [s \in Socket |-> IF s = first THEN "connecting" ELSE "none"]
       /\ hooked = [s \in Socket |-> s = first]
       /\ timer = FALSE /\ closedManually = FALSE
       /\ keys = FALSE /\ handshake_done = FALSE
       /\ appPingSeen = FALSE /\ hidden = FALSE
       /\ srv = [s \in Socket |-> "none"] /\ holder = None /\ doomed = FALSE
       /\ inbox = [s \in Socket |-> <<>>]
       /\ deaf = [s \in Socket |-> FALSE]
       /\ overlapped = FALSE
       /\ faults = 0 /\ nudges = 0

-----------------------------------------------------------------------------
(* Helpers *)

Fresh == {s \in Socket : sock[s] = "none" /\ srv[s] = "none"}

\* _open, given what the other sockets have become.
Open(sockets, hooks) ==
    \E s \in Fresh :
       /\ ws' = s
       /\ sock' = [sockets EXCEPT ![s] = "connecting"]
       /\ hooked' = [hooks EXCEPT ![s] = TRUE]
       /\ inbox' = [inbox EXCEPT ![s] = <<>>]
       /\ deaf' = [deaf EXCEPT ![s] = FALSE]

isConnected == ws # None /\ sock[ws] = "open" /\ handshake_done

\* The refusals ws_client looks for in the reason.  The reasons finishHandshake
\* writes are "ID_IN_USE ...", "BAD_VERSION ..." and "error_code=0x..": none
\* of them holds "cmd=0xff".
FatalReason(frame) == FALSE

-----------------------------------------------------------------------------
(* Callbacks of a socket *)

\* onopen: the handshake resets the shared session, whoever was using it.
Opened_KeepsFlag(s) ==
    /\ sock[s] = "connecting"
    /\ sock' = [sock EXCEPT ![s] = "open"]
    /\ srv' = [srv EXCEPT ![s] = "hello"]
    /\ keys' = TRUE
    /\ UNCHANGED <<holder, doomed, handshake_done, ws, hooked, timer, closedManually, hidden,
                   appPingSeen, inbox, deaf, overlapped, bounds>>

Opened(s) ==
    /\ sock[s] = "connecting"
    /\ sock' = [sock EXCEPT ![s] = "open"]
    /\ srv' = [srv EXCEPT ![s] = "hello"]
    /\ keys' = TRUE
    /\ handshake_done' = FALSE
    /\ UNCHANGED <<holder, doomed, ws, hooked, timer, closedManually, hidden,
                   appPingSeen, inbox, deaf, overlapped, bounds>>

\* onmessage while the session is not established: finishHandshake takes any
\* frame for the handshake's reply.
HandshakeReply(s) ==
    LET accepted == Head(inbox[s]) = "ok" /\ keys IN
    /\ ~handshake_done
    /\ handshake_done' = accepted
    /\ keys' = accepted
    /\ sock' = IF accepted THEN sock ELSE [sock EXCEPT ![s] = "closing"]
    /\ closedManually' = (closedManually
                            \/ (~accepted /\ FatalReason(Head(inbox[s]))))

\* onmessage of an established session changes nothing here.
Frame ==
    /\ handshake_done
    /\ UNCHANGED <<handshake_done, keys, sock, closedManually>>

Message(s) ==
    /\ sock[s] = "open" /\ hooked[s] /\ ~deaf[s]
    /\ inbox[s] # <<>>
    /\ inbox' = [inbox EXCEPT ![s] = Tail(@)]
    /\ HandshakeReply(s) \/ Frame
    /\ UNCHANGED <<ws, hooked, timer, hidden, appPingSeen, relay, deaf, overlapped,
                   bounds>>

\* The relay's plain-text keepalive.
Ping(s) ==
    /\ holder = s /\ ~deaf[s]
    /\ sock[s] = "open" /\ hooked[s]
    /\ ~appPingSeen
    /\ appPingSeen' = TRUE
    /\ UNCHANGED <<page, sess, wire, overlapped, bounds>>

\* onclose forgets this.ws, whichever socket that is by now.
onclose_NoRetry(s) ==
    /\ sock' = [sock EXCEPT ![s] = "none"]
    /\ hooked' = [hooked EXCEPT ![s] = FALSE]
    /\ inbox' = [inbox EXCEPT ![s] = <<>>]
    /\ ws' = IF hooked[s] THEN None ELSE ws
    /\ UNCHANGED <<timer, closedManually, hidden, sess, appPingSeen, relay, deaf, overlapped>>

onclose_KeepsSocket(s) ==
    /\ sock' = [sock EXCEPT ![s] = "closed"]
    /\ hooked' = [hooked EXCEPT ![s] = FALSE]
    /\ timer' = (timer \/ ~closedManually)
    /\ UNCHANGED <<ws, inbox, closedManually, hidden, sess, appPingSeen, relay, deaf,
                   overlapped>>

onclose(s) ==
    /\ sock' = [sock EXCEPT ![s] = "none"]
    /\ hooked' = [hooked EXCEPT ![s] = FALSE]
    /\ inbox' = [inbox EXCEPT ![s] = <<>>]
    /\ IF hooked[s]
         THEN ws' = None /\ timer' = (timer \/ ~closedManually)
         ELSE UNCHANGED <<ws, timer>>
    /\ UNCHANGED <<closedManually, hidden, sess, appPingSeen, relay, deaf, overlapped>>

CloseEvent(s) == sock[s] = "closing" /\ onclose(s) /\ UNCHANGED bounds

-----------------------------------------------------------------------------
(* Timers and events of the page *)

RetryTimer ==
    /\ timer
    /\ timer' = FALSE
    /\ IF closedManually
         THEN UNCHANGED <<ws, sock, hooked, inbox, deaf>>
         ELSE Open(sock, hooked)
    /\ UNCHANGED <<closedManually, hidden, sess, appPingSeen, relay, overlapped, bounds>>

\* forceReconnect: the old socket loses its callbacks, so it cannot disturb
\* the new one.
forceReconnect_KeepsCallbacks ==
    LET old == {s \in {ws} \ {None} : sock[s] # "none"} IN
    /\ Open([s \in Socket |-> IF s \in old THEN "closing" ELSE sock[s]], hooked)
    /\ timer' = FALSE
    /\ closedManually' = FALSE
    /\ UNCHANGED <<sess, appPingSeen, relay, overlapped>>

forceReconnect ==
    LET old == {s \in {ws} \ {None} : sock[s] # "none"} IN
    /\ Open([s \in Socket |-> IF s \in old THEN "closing" ELSE sock[s]],
            [s \in Socket |-> hooked[s] /\ s \notin old])
    /\ timer' = FALSE
    /\ closedManually' = FALSE
    /\ UNCHANGED <<sess, appPingSeen, relay, overlapped>>

\* wakeConnection, on focus, online, resume.  A channel heard of lately is left
\* alone; one that seems stale is replaced, deaf or not: the page may have slept.
wakeConnection ==
    \/ forceReconnect
    \/ /\ isConnected
       /\ UNCHANGED <<ws, sock, hooked, timer, closedManually, sess, appPingSeen,
                      wire, overlapped>>

Wake ==
    /\ nudges < MaxNudges
    /\ nudges' = nudges + 1
    /\ wakeConnection
    /\ UNCHANGED <<hidden, faults>>

Hide ==
    /\ ~hidden /\ nudges < MaxNudges
    /\ hidden' = TRUE
    /\ UNCHANGED <<ws, sock, hooked, timer, closedManually, sess, appPingSeen,
                   wire, overlapped, bounds>>

\* visibilitychange
Show ==
    /\ hidden /\ nudges < MaxNudges
    /\ hidden' = FALSE
    /\ nudges' = nudges + 1
    /\ wakeConnection
    /\ UNCHANGED faults

\* The relay sends nothing that reaches the page over its socket: the path is
\* dead, or the session was removed by the cleanup of another socket.
Unheard == deaf[ws] \/ (srv[ws] = "live" /\ holder # ws)

\* The passive staleness watchdog: 50 s without a frame, when the relay sends
\* a ping every 20 s.
Watchdog ==
    /\ appPingSeen /\ ~hidden
    /\ isConnected /\ Unheard
    /\ forceReconnect
    /\ UNCHANGED <<hidden, bounds>>

Answer_KeepsTimer ==
    /\ nudges < MaxNudges
    /\ ~isConnected
    /\ nudges' = nudges + 1
    /\ overlapped' = (overlapped \/ (ws # None /\ sock[ws] = "closing"))
    /\ closedManually' = FALSE
    /\ IF ws # None /\ sock[ws] \in {"connecting", "open"}
         THEN UNCHANGED <<ws, sock, hooked, inbox, deaf>>
         ELSE Open(sock, hooked)
    /\ UNCHANGED <<hidden, timer, sess, appPingSeen, relay, faults>>

\* ensureConnected, before a call is accepted: reconnectNow leaves a connect
\* in flight alone, but not a socket that is still closing.
Answer ==
    /\ nudges < MaxNudges
    /\ ~isConnected
    /\ nudges' = nudges + 1
    /\ overlapped' = (overlapped \/ (ws # None /\ sock[ws] = "closing"))
    /\ closedManually' = FALSE
    /\ IF ws # None /\ sock[ws] \in {"connecting", "open"}
         THEN UNCHANGED <<ws, sock, hooked, inbox, deaf, timer>>
         ELSE Open(sock, hooked) /\ timer' = FALSE
    /\ UNCHANGED <<hidden, sess, appPingSeen, relay, faults>>

-----------------------------------------------------------------------------
(* The relay and the network, as a client sees them *)

\* perform_handshake: is there a session?  The reply goes out ...
RelayAnswers(s) ==
    /\ srv[s] = "hello" /\ ~deaf[s]
    /\ srv' = [srv EXCEPT ![s] = IF holder = None THEN "accepted" ELSE "refused"]
    /\ inbox' = [inbox EXCEPT ![s] = Append(@, IF holder = None THEN "ok" ELSE "in_use")]
    /\ UNCHANGED <<holder, doomed, page, sess, appPingSeen, deaf, overlapped, bounds>>

\* ... and then the session into the hub, over another one if there is by now.
RelayInserts(s) ==
    /\ srv[s] = "accepted"
    /\ srv' = [srv EXCEPT ![s] = "live"]
    /\ holder' = s
    /\ UNCHANGED <<doomed, inbox, deaf, page, sess, appPingSeen, overlapped, bounds>>

\* A presence frame, or one of a peer.
RelayFrame(s) ==
    /\ holder = s /\ ~deaf[s] /\ sock[s] = "open"
    /\ Len(inbox[s]) < InboxBound
    /\ inbox' = [inbox EXCEPT ![s] = Append(@, "frame")]
    /\ UNCHANGED <<page, sess, appPingSeen, relay, deaf, overlapped, bounds>>

\* The task of a socket ends: refused, or it hears that the socket is gone.
\* One that got as far as its loop removes the client's session by id,
\* whichever socket that is of.
RelayEnds(s) ==
    /\ srv[s] # "none"
    /\ deaf[s] \/ srv[s] = "refused" \/ sock[s] \in {"none", "closing"}
    /\ srv' = [srv EXCEPT ![s] = "none"]
    /\ holder' = IF srv[s] = "live" THEN None ELSE holder
    /\ UNCHANGED <<doomed, page, sess, appPingSeen, inbox, deaf, overlapped, bounds>>

\* The heartbeat finds the client silent ...
HeartbeatSnapshot ==
    /\ holder # None /\ deaf[holder] /\ ~doomed
    /\ doomed' = TRUE
    /\ UNCHANGED <<srv, holder, inbox, deaf, page, sess, appPingSeen, overlapped, bounds>>

\* ... and drops whatever session the id has by then, with its task.
HeartbeatDrop ==
    /\ doomed
    /\ doomed' = FALSE /\ holder' = None
    /\ srv' = [s \in Socket |-> IF s = holder THEN "none" ELSE srv[s]]
    /\ UNCHANGED <<inbox, deaf, page, sess, appPingSeen, overlapped, bounds>>

\* The page's end learns that the relay closed, after all it had to read.
RelayCloses(s) ==
    /\ sock[s] = "open" /\ srv[s] = "none"
    /\ ~deaf[s] /\ inbox[s] = <<>>
    /\ sock' = [sock EXCEPT ![s] = "closing"]
    /\ UNCHANGED <<ws, hooked, timer, closedManually, hidden, sess, appPingSeen,
                   wire, overlapped, bounds>>

\* A connect that fails, or a connection that breaks and both ends notice: the
\* socket is CLOSED and its event fired in one task.
Breaks(s) ==
    /\ faults < MaxFaults
    /\ sock[s] \in {"connecting", "open"}
    /\ onclose(s)
    /\ faults' = faults + 1
    /\ UNCHANGED nudges

\* A NAT drops the path: neither end is told.
GoesDeaf(s) ==
    /\ faults < MaxFaults
    /\ sock[s] = "open" /\ srv[s] \in {"hello", "accepted", "live"} /\ ~deaf[s]
    /\ deaf' = [deaf EXCEPT ![s] = TRUE]
    /\ faults' = faults + 1
    /\ UNCHANGED <<page, sess, appPingSeen, relay, inbox, overlapped, nudges>>

-----------------------------------------------------------------------------
PageStep(s) == Opened(s) \/ Message(s) \/ CloseEvent(s) \/ Ping(s)
RelayStep(s) == RelayAnswers(s) \/ RelayInserts(s) \/ RelayEnds(s) \/ RelayCloses(s)

Next ==
    \/ \E s \in Socket : \/ PageStep(s) \/ RelayStep(s) \/ RelayFrame(s)
                         \/ Breaks(s) \/ GoesDeaf(s)
    \/ RetryTimer \/ Watchdog
    \/ HeartbeatSnapshot \/ HeartbeatDrop
    \/ Wake \/ Hide \/ Show \/ Answer

Spec == Init /\ [][Next]_vars

\* The close of a replaced socket reaches the relay before the next socket,
\* which the page opened after it, is even connected.
ClosesInTime(s) == ws # None /\ sock[ws] = "connecting" /\ RelayEnds(s)

\* Callbacks and timers of the page run, the relay serves and reaps, and a dead
\* path is noticed in the end; the network breaks, and the user acts, finitely
\* often (the bounds).  A close may be overtaken by the next connection, but
\* not for ever (SF).
Fairness ==
    /\ \A s \in Socket : /\ WF_vars(Opened(s)) /\ WF_vars(Message(s))
                         /\ WF_vars(CloseEvent(s)) /\ WF_vars(Ping(s))
                         /\ WF_vars(RelayAnswers(s)) /\ WF_vars(RelayInserts(s))
                         /\ WF_vars(RelayEnds(s)) /\ SF_vars(ClosesInTime(s))
                         /\ WF_vars(RelayCloses(s))
    /\ WF_vars(RetryTimer) /\ WF_vars(Watchdog)
    /\ WF_vars(HeartbeatSnapshot) /\ WF_vars(HeartbeatDrop)

FairSpec == Spec /\ Fairness
-----------------------------------------------------------------------------
(* Properties *)

(* The page never has two sockets whose callbacks act on it: a socket that *)
(* still has them is the one the client sends on - unless a call was       *)
(* accepted while the socket was closing (which may leave two).            *)
OneSocket ==
    ~overlapped => \A s \in Socket : hooked[s] /\ sock[s] # "none" => s = ws

(* A retry is pending only while there is no socket: it cannot open a      *)
(* second one next to a connection that is being made or works.            *)
RetryOnlyWhenDown == timer => ws = None

(* The session's flag belongs to the socket in use: the client never takes *)
(* itself for connected on a socket whose handshake was not answered.      *)
ConnectedIsAnswered == ~overlapped /\ isConnected => srv[ws] # "hello"

Served == isConnected /\ srv[ws] = "live" /\ holder = ws /\ ~deaf[ws]

\* Nothing comes, and nobody is looking: the watchdog waits for a first ping
\* and for the page to be visible.
Unwatched ==
    ws # None /\ sock[ws] = "open" /\ Unheard
       /\ (~appPingSeen \/ hidden \/ ~handshake_done)

(* Once the network and the user leave it alone the client gets connected  *)
(* and stays so, and the relay has the session of the socket it uses,      *)
(* whatever happened before: refused while the relay still held its last   *)
(* session, replaced in the middle of a handshake, deaf, or its session    *)
(* removed by the cleanup of its previous socket.  The exceptions: nobody  *)
(* watches a socket that hears nothing (Unwatched), or a call was accepted *)
(* while the socket was closing.                                           *)
ComesBack == <>[](Served \/ Unwatched \/ overlapped)
=============================================================================
