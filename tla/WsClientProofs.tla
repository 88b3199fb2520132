--------------------------- MODULE WsClientProofs ---------------------------
(***************************************************************************)
(* Theorems about WsClient, for any number of sockets, faults and events.  *)
(* The client keeps one socket until a call is accepted while it closes;   *)
(* the retry timer stays in its place even then.  The handshake's flag is  *)
(* the current socket's because every socket starts by clearing it and     *)
(* hears nothing before the relay has answered.                            *)
(***************************************************************************)
EXTENDS WsClient, TLAPS

USE DEF relay

\* What the steps preserve of the types.
Types ==
    /\ ws \in Socket \cup {None}
    /\ sock \in [Socket -> {"none", "connecting", "open", "closing"}]
    /\ hooked \in [Socket -> BOOLEAN]
    /\ timer \in BOOLEAN
    /\ closedManually \in BOOLEAN
    /\ handshake_done \in BOOLEAN
    /\ srv \in [Socket -> {"none", "hello", "accepted", "live", "refused"}]
    /\ inbox \in [Socket -> Seq({"ok", "in_use", "frame"})]

\* The relay writes to a socket only after it has answered its handshake.
Unanswered ==
    \A s \in Socket :
       /\ sock[s] = "connecting" => srv[s] = "none" /\ inbox[s] = <<>>
       /\ srv[s] = "hello" => inbox[s] = <<>>

\* The hub holds the session of a task that is past its handshake.
Held ==
    /\ holder \in Socket \cup {None}
    /\ holder # None => srv[holder] = "live"

LEMMA TypesInit == Init => Types
<1> SUFFICES ASSUME Init PROVE Types OBVIOUS
<1>1. PICK first \in Socket :
        /\ ws = first
        /\ sock = [s \in Socket |-> IF s = first THEN "connecting" ELSE "none"]
        /\ hooked = [s \in Socket |-> s = first]
        /\ timer = FALSE /\ closedManually = FALSE
        /\ keys = FALSE /\ handshake_done = FALSE
        /\ srv = [s \in Socket |-> "none"]
        /\ inbox = [s \in Socket |-> <<>>]
  BY DEF Init
<1>2. hooked \in [Socket -> BOOLEAN]
  BY <1>1
<1>3. inbox \in [Socket -> Seq({"ok", "in_use", "frame"})]
  BY <1>1
<1>4. sock \in [Socket -> {"none", "connecting", "open", "closing"}]
  BY <1>1
<1> QED BY <1>1, <1>2, <1>3, <1>4 DEF Types

LEMMA OpenTypes ==
    ASSUME NEW sockets \in [Socket -> {"none", "connecting", "open", "closing"}],
           NEW hooks \in [Socket -> BOOLEAN], Types, Open(sockets, hooks)
    PROVE  /\ ws' \in Socket \cup {None}
           /\ sock' \in [Socket -> {"none", "connecting", "open", "closing"}]
           /\ hooked' \in [Socket -> BOOLEAN]
           /\ inbox' \in [Socket -> Seq({"ok", "in_use", "frame"})]
BY DEF Open, Fresh, Types

LEMMA ForceTypes == Types /\ forceReconnect => Types'
<1> SUFFICES ASSUME Types, forceReconnect PROVE Types' OBVIOUS
<1> DEFINE old == {s \in {ws} \ {None} : sock[s] # "none"}
<1> DEFINE sockets == [s \in Socket |-> IF s \in old THEN "closing" ELSE sock[s]]
<1> DEFINE hooks == [s \in Socket |-> hooked[s] /\ s \notin old]
<1>1. sockets \in [Socket -> {"none", "connecting", "open", "closing"}] /\ hooks \in [Socket -> BOOLEAN]
  BY DEF Types
<1>2. Open(sockets, hooks) /\ timer' = FALSE /\ closedManually' = FALSE
      /\ UNCHANGED <<sess, srv>>
  BY DEF forceReconnect
<1>3. /\ ws' \in Socket \cup {None}
      /\ sock' \in [Socket -> {"none", "connecting", "open", "closing"}]
      /\ hooked' \in [Socket -> BOOLEAN]
      /\ inbox' \in [Socket -> Seq({"ok", "in_use", "frame"})]
  BY <1>1, <1>2, OpenTypes
<1> QED BY <1>2, <1>3 DEF Types, sess

LEMMA TypesStep == Types /\ [Next]_vars => Types'
<1> SUFFICES ASSUME Types, [Next]_vars PROVE Types' OBVIOUS
<1>1. ASSUME NEW s \in Socket, Opened(s) PROVE Types'
  BY <1>1 DEF Opened, Types
<1>2. ASSUME NEW s \in Socket, Message(s) PROVE Types'
  <2>1. inbox' \in [Socket -> Seq({"ok", "in_use", "frame"})]
    BY <1>2 DEF Message, Types
  <2>2. HandshakeReply(s) \/ Frame
    BY <1>2 DEF Message
  <2>3. CASE HandshakeReply(s)
    BY <1>2, <2>1, <2>3 DEF Message, HandshakeReply, FatalReason, Types
  <2>4. CASE Frame
    BY <1>2, <2>1, <2>4 DEF Message, Frame, Types
  <2> QED BY <2>2, <2>3, <2>4
<1>3. ASSUME NEW s \in Socket, onclose(s) PROVE Types'
  BY <1>3 DEF onclose, Types, sess
<1>4. ASSUME NEW s \in Socket, CloseEvent(s) \/ Breaks(s) PROVE Types'
  BY <1>3, <1>4 DEF CloseEvent, Breaks
<1>5. ASSUME NEW s \in Socket, Ping(s) PROVE Types'
  BY <1>5 DEF Ping, Types, page, sess, wire
<1>6. ASSUME NEW s \in Socket, RelayAnswers(s) \/ RelayInserts(s) PROVE Types'
  <2>1. CASE RelayAnswers(s)
    <3>1. PICK word \in {"ok", "in_use"}, next \in {"accepted", "refused"} :
             /\ srv' = [srv EXCEPT ![s] = next]
             /\ inbox' = [inbox EXCEPT ![s] = Append(@, word)]
      BY <2>1 DEF RelayAnswers
    <3>2. UNCHANGED <<page, sess>>
      BY <2>1 DEF RelayAnswers
    <3> QED BY <3>1, <3>2 DEF Types, page, sess
  <2>2. CASE RelayInserts(s)
    BY <2>2 DEF RelayInserts, Types, page, sess
  <2> QED BY <1>6, <2>1, <2>2
<1>14. ASSUME HeartbeatSnapshot \/ HeartbeatDrop PROVE Types'
  BY <1>14 DEF HeartbeatSnapshot, HeartbeatDrop, Types, page, sess
<1>7. ASSUME NEW s \in Socket, RelayEnds(s) \/ RelayCloses(s) PROVE Types'
  BY <1>7 DEF RelayEnds, RelayCloses, Types, page, sess, wire
<1>8. ASSUME NEW s \in Socket, RelayFrame(s) \/ GoesDeaf(s) PROVE Types'
  <2>1. CASE RelayFrame(s)
    BY <2>1 DEF RelayFrame, Types, page, sess
  <2>2. CASE GoesDeaf(s)
    BY <2>2 DEF GoesDeaf, Types, page, sess
  <2> QED BY <1>8, <2>1, <2>2
<1>9. ASSUME RetryTimer PROVE Types'
  <2>1. /\ ws' \in Socket \cup {None}
        /\ sock' \in [Socket -> {"none", "connecting", "open", "closing"}]
        /\ hooked' \in [Socket -> BOOLEAN]
        /\ inbox' \in [Socket -> Seq({"ok", "in_use", "frame"})]
    BY <1>9, OpenTypes DEF RetryTimer, Types
  <2> QED BY <1>9, <2>1 DEF RetryTimer, Types, sess
<1>10. ASSUME Watchdog \/ Wake \/ Show PROVE Types'
  BY <1>10, ForceTypes DEF Watchdog, Wake, Show, wakeConnection, Types, sess, wire
<1>11. ASSUME Hide PROVE Types'
  BY <1>11 DEF Hide, Types, sess, wire
<1>12. ASSUME Answer PROVE Types'
  <2>1. /\ ws' \in Socket \cup {None}
        /\ sock' \in [Socket -> {"none", "connecting", "open", "closing"}]
        /\ hooked' \in [Socket -> BOOLEAN]
        /\ inbox' \in [Socket -> Seq({"ok", "in_use", "frame"})]
        /\ timer' \in BOOLEAN
    BY <1>12, OpenTypes DEF Answer, Types
  <2> QED BY <1>12, <2>1 DEF Answer, Types, sess
<1>13. ASSUME UNCHANGED vars PROVE Types'
  BY <1>13 DEF vars, page, sess, wire, Types
<1> QED
  BY <1>1, <1>2, <1>4, <1>5, <1>6, <1>7, <1>8, <1>9, <1>10, <1>11, <1>12, <1>13, <1>14
  DEF Next, PageStep, RelayStep

LEMMA HeldStep == Types /\ Unanswered /\ Held /\ [Next]_vars => Held'
<1> SUFFICES ASSUME Types, Unanswered, Held, [Next]_vars PROVE Held' OBVIOUS
<1> USE NoneAssumption
<1>1. ASSUME NEW s \in Socket, Opened(s) PROVE Held'
  BY <1>1 DEF Opened, Types, Unanswered, Held
<1>2. ASSUME NEW s \in Socket, RelayAnswers(s) \/ RelayInserts(s) \/ RelayEnds(s) PROVE Held'
  BY <1>2 DEF RelayAnswers, RelayInserts, RelayEnds, Types, Held
<1>3. ASSUME HeartbeatSnapshot \/ HeartbeatDrop PROVE Held'
  BY <1>3 DEF HeartbeatSnapshot, HeartbeatDrop, Held
<1>4. CASE UNCHANGED relay
  BY <1>4 DEF Held
<1>5. ASSUME NEW s \in Socket,
             \/ Message(s) \/ CloseEvent(s) \/ Ping(s) \/ RelayCloses(s) \/ RelayFrame(s)
             \/ Breaks(s) \/ GoesDeaf(s)
      PROVE  UNCHANGED relay
  BY <1>5 DEF Message, CloseEvent, onclose, Ping, RelayCloses, RelayFrame, Breaks, GoesDeaf, wire
<1>6. ASSUME RetryTimer \/ Watchdog \/ Wake \/ Hide \/ Show \/ Answer PROVE UNCHANGED relay
  BY <1>6 DEF RetryTimer, Watchdog, Wake, Hide, Show, Answer, wakeConnection, forceReconnect, wire
<1>7. ASSUME UNCHANGED vars PROVE UNCHANGED relay
  BY <1>7 DEF vars, wire
<1> QED
  BY <1>1, <1>2, <1>3, <1>4, <1>5, <1>6, <1>7 DEF Next, PageStep, RelayStep

-----------------------------------------------------------------------------
LEMMA RetryStep == Types /\ RetryOnlyWhenDown /\ [Next]_vars => RetryOnlyWhenDown'
<1> SUFFICES ASSUME Types, RetryOnlyWhenDown, [Next]_vars PROVE RetryOnlyWhenDown'
  OBVIOUS
<1> USE DEF RetryOnlyWhenDown
<1>1. ASSUME NEW s \in Socket, Opened(s) PROVE RetryOnlyWhenDown'
  BY <1>1 DEF Opened
<1>2. ASSUME NEW s \in Socket, Message(s) PROVE RetryOnlyWhenDown'
  BY <1>2 DEF Message
<1>3. ASSUME NEW s \in Socket, CloseEvent(s) \/ Breaks(s) PROVE RetryOnlyWhenDown'
  BY <1>3 DEF CloseEvent, Breaks, onclose
<1>4. ASSUME NEW s \in Socket,
             \/ Ping(s) \/ RelayAnswers(s) \/ RelayInserts(s) \/ RelayEnds(s)
             \/ RelayFrame(s) \/ GoesDeaf(s)
      PROVE  RetryOnlyWhenDown'
  BY <1>4 DEF Ping, RelayAnswers, RelayInserts, RelayEnds, RelayFrame, GoesDeaf, page
<1>11. ASSUME HeartbeatSnapshot \/ HeartbeatDrop PROVE RetryOnlyWhenDown'
  BY <1>11 DEF HeartbeatSnapshot, HeartbeatDrop, page
<1>5. ASSUME NEW s \in Socket, RelayCloses(s) PROVE RetryOnlyWhenDown'
  BY <1>5 DEF RelayCloses
<1>6. ASSUME RetryTimer PROVE RetryOnlyWhenDown'
  BY <1>6 DEF RetryTimer
<1>7. ASSUME Watchdog \/ Wake \/ Show PROVE RetryOnlyWhenDown'
  BY <1>7 DEF Watchdog, Wake, Show, wakeConnection, forceReconnect
<1>8. ASSUME Hide PROVE RetryOnlyWhenDown'
  BY <1>8 DEF Hide
<1>9. ASSUME Answer PROVE RetryOnlyWhenDown'
  BY <1>9 DEF Answer
<1>10. ASSUME UNCHANGED vars PROVE RetryOnlyWhenDown'
  BY <1>10 DEF vars, page
<1> QED
  BY <1>1, <1>2, <1>3, <1>4, <1>5, <1>6, <1>7, <1>8, <1>9, <1>10, <1>11
  DEF Next, PageStep, RelayStep

(* A retry is pending only while there is no socket, whether or not the    *)
(* user may answer calls: every way of opening one disarms the timer, and  *)
(* onclose, which arms it, forgets the socket.                             *)
THEOREM RetryAlone == Spec => []RetryOnlyWhenDown
<1>1. Init => Types /\ RetryOnlyWhenDown
  BY TypesInit DEF Init, RetryOnlyWhenDown
<1>2. (Types /\ RetryOnlyWhenDown) /\ [Next]_vars => (Types /\ RetryOnlyWhenDown)'
  BY TypesStep, RetryStep
<1> QED BY <1>1, <1>2, PTL DEF Spec

-----------------------------------------------------------------------------
\* The inductive invariant behind the single socket.
Solo == Types /\ RetryOnlyWhenDown /\ OneSocket

LEMMA ForceSolo == Solo /\ forceReconnect => OneSocket'
<1> SUFFICES ASSUME Solo, forceReconnect, ~overlapped',
                    NEW t \in Socket, hooked'[t], sock'[t] # "none"
             PROVE  t = ws'
  BY DEF OneSocket
<1> DEFINE old == {s \in {ws} \ {None} : sock[s] # "none"}
<1>1. PICK s \in Fresh :
        /\ ws' = s
        /\ sock' = [[u \in Socket |-> IF u \in old THEN "closing" ELSE sock[u]]
                      EXCEPT ![s] = "connecting"]
        /\ hooked' = [[u \in Socket |-> hooked[u] /\ u \notin old] EXCEPT ![s] = TRUE]
  BY DEF forceReconnect, Open
<1>2. SUFFICES ASSUME t # s PROVE FALSE
  BY <1>1
<1>3. hooked[t] /\ t \notin old
  BY <1>1, <1>2 DEF Fresh
<1>4. sock[t] # "none"
  BY <1>1, <1>2, <1>3 DEF Fresh
<1>5. ~overlapped
  BY DEF forceReconnect
<1>6. t = ws
  BY <1>3, <1>4, <1>5 DEF Solo, OneSocket
<1> QED BY <1>3, <1>4, <1>6, NoneAssumption

\* A socket opened when no other acts on the page.
LEMMA OpenSolo ==
    ASSUME Types, Open(sock, hooked),
           \A t \in Socket : hooked[t] => sock[t] = "none"
    PROVE  \A t \in Socket : hooked'[t] /\ sock'[t] # "none" => t = ws'
BY DEF Open, Fresh, Types

LEMMA SoloStep == Solo /\ [Next]_vars => OneSocket'
<1> SUFFICES ASSUME Solo, [Next]_vars, ~overlapped'
             PROVE  \A t \in Socket : hooked'[t] /\ sock'[t] # "none" => t = ws'
  BY DEF OneSocket
<1> DEFINE Single == \A t \in Socket : hooked[t] /\ sock[t] # "none" => t = ws
<1>0. Types /\ RetryOnlyWhenDown /\ (~overlapped => Single)
  BY DEF Solo, OneSocket
<1>1. ASSUME NEW s \in Socket, Opened(s) PROVE Single'
  BY <1>0, <1>1 DEF Opened, Types
<1>2. ASSUME NEW s \in Socket, Message(s) PROVE Single'
  <2>1. sock' = sock \/ (sock' = [sock EXCEPT ![s] = "closing"] /\ sock[s] = "open")
    BY <1>2 DEF Message, HandshakeReply, Frame
  <2>2. \A t \in Socket : sock'[t] # "none" => sock[t] # "none"
    BY <1>0, <2>1 DEF Types
  <2> QED BY <1>0, <1>2, <2>2 DEF Message
<1>3. ASSUME NEW s \in Socket, CloseEvent(s) \/ Breaks(s) PROVE Single'
  <2>1. onclose(s) /\ sock[s] # "none"
    BY <1>3 DEF CloseEvent, Breaks
  <2>2. sock' = [sock EXCEPT ![s] = "none"] /\ hooked' = [hooked EXCEPT ![s] = FALSE]
    BY <2>1 DEF onclose
  <2>3. Single
    BY <1>0, <2>1 DEF onclose
  <2>4. ASSUME NEW t \in Socket, hooked'[t], sock'[t] # "none" PROVE t = ws'
    <3>1. t # s /\ hooked[t] /\ sock[t] # "none"
      BY <1>0, <2>2, <2>4 DEF Types
    <3>2. t = ws
      BY <2>3, <3>1
    <3>3. ~hooked[s]
      BY <2>1, <2>3, <3>1, <3>2
    <3> QED BY <2>1, <3>2, <3>3 DEF onclose
  <2> QED BY <2>4
<1>4. ASSUME NEW s \in Socket,
             \/ Ping(s) \/ RelayAnswers(s) \/ RelayInserts(s) \/ RelayEnds(s)
             \/ RelayFrame(s) \/ GoesDeaf(s)
      PROVE  Single'
  BY <1>0, <1>4 DEF Ping, RelayAnswers, RelayInserts, RelayEnds, RelayFrame, GoesDeaf, page
<1>11. ASSUME HeartbeatSnapshot \/ HeartbeatDrop PROVE Single'
  BY <1>0, <1>11 DEF HeartbeatSnapshot, HeartbeatDrop, page
<1>5. ASSUME NEW s \in Socket, RelayCloses(s) PROVE Single'
  BY <1>0, <1>5 DEF RelayCloses, Types
<1>6. ASSUME RetryTimer PROVE Single'
  <2>1. ws = None /\ Single
    BY <1>0, <1>6 DEF RetryTimer, RetryOnlyWhenDown
  <2>2. \A t \in Socket : hooked[t] => sock[t] = "none"
    BY <2>1, NoneAssumption
  <2>3. CASE Open(sock, hooked)
    BY <1>0, <2>2, <2>3, OpenSolo
  <2>4. CASE UNCHANGED <<ws, sock, hooked>>
    BY <2>1, <2>4
  <2> QED BY <1>6, <2>3, <2>4 DEF RetryTimer
<1>7. ASSUME Watchdog \/ Wake \/ Show PROVE Single'
  <2>1. CASE forceReconnect
    BY <2>1, ForceSolo DEF OneSocket
  <2>2. CASE UNCHANGED <<ws, sock, hooked, overlapped>>
    BY <1>0, <2>2
  <2> QED BY <1>7, <2>1, <2>2 DEF Watchdog, Wake, Show, wakeConnection
<1>8. ASSUME Hide PROVE Single'
  BY <1>0, <1>8 DEF Hide
<1>9. ASSUME Answer PROVE Single'
  <2>1. Single /\ (ws = None \/ sock[ws] # "closing")
    BY <1>0, <1>9 DEF Answer
  <2>2. CASE ws # None /\ sock[ws] \in {"connecting", "open"}
    BY <1>9, <2>1, <2>2 DEF Answer
  <2>3. CASE ~(ws # None /\ sock[ws] \in {"connecting", "open"})
    <3>1. \A t \in Socket : hooked[t] => sock[t] = "none"
      BY <1>0, <2>1, <2>3, NoneAssumption DEF Types
    <3>2. Open(sock, hooked)
      BY <1>9, <2>3 DEF Answer
    <3> QED BY <1>0, <3>1, <3>2, OpenSolo
  <2> QED BY <2>2, <2>3
<1>10. ASSUME UNCHANGED vars PROVE Single'
  BY <1>0, <1>10 DEF vars, page
<1> QED
  BY <1>1, <1>2, <1>3, <1>4, <1>5, <1>6, <1>7, <1>8, <1>9, <1>10, <1>11
  DEF Next, PageStep, RelayStep

LEMMA SoloInit == Init => Solo
<1> SUFFICES ASSUME Init PROVE Solo OBVIOUS
<1>1. OneSocket /\ RetryOnlyWhenDown
  BY DEF Init, OneSocket, RetryOnlyWhenDown
<1> QED BY <1>1, TypesInit DEF Solo

(* The client has one socket whose callbacks act on it, and it is this.ws, *)
(* until a call is accepted while that socket is closing.                  *)
THEOREM SocketsAreOne == Spec => []OneSocket
<1>1. Init => Solo
  BY SoloInit
<1>2. Solo /\ [Next]_vars => Solo'
  BY TypesStep, RetryStep, SoloStep DEF Solo
<1>3. Solo => OneSocket
  BY DEF Solo
<1> QED BY <1>1, <1>2, <1>3, PTL DEF Spec

-----------------------------------------------------------------------------
\* The page has heard of the socket in use only after the relay answered it.
Answered == Solo /\ Unanswered /\ Held /\ ConnectedIsAnswered

LEMMA OpenUnanswered ==
    ASSUME NEW sockets \in [Socket -> {"none", "connecting", "open", "closing"}],
           NEW hooks \in [Socket -> BOOLEAN], Types, Unanswered,
           \A s \in Socket : sockets[s] = "connecting" => sock[s] = "connecting",
           Open(sockets, hooks), UNCHANGED srv
    PROVE  Unanswered' /\ ConnectedIsAnswered'
<1>1. PICK s \in Fresh :
        /\ ws' = s
        /\ sock' = [sockets EXCEPT ![s] = "connecting"]
        /\ inbox' = [inbox EXCEPT ![s] = <<>>]
  BY DEF Open
<1>2. ~isConnected'
  BY <1>1 DEF isConnected, Fresh
<1>3. Unanswered'
  BY <1>1 DEF Unanswered, Fresh, Types
<1> QED BY <1>2, <1>3 DEF ConnectedIsAnswered

LEMMA ForceUnanswered ==
    Types /\ Unanswered /\ forceReconnect => Unanswered' /\ ConnectedIsAnswered'
<1> SUFFICES ASSUME Types, Unanswered, forceReconnect
             PROVE  Unanswered' /\ ConnectedIsAnswered'
  OBVIOUS
<1> DEFINE old == {s \in {ws} \ {None} : sock[s] # "none"}
<1> DEFINE sockets == [s \in Socket |-> IF s \in old THEN "closing" ELSE sock[s]]
<1> DEFINE hooks == [s \in Socket |-> hooked[s] /\ s \notin old]
<1>1. sockets \in [Socket -> {"none", "connecting", "open", "closing"}] /\ hooks \in [Socket -> BOOLEAN]
  BY DEF Types
<1>2. \A s \in Socket : sockets[s] = "connecting" => sock[s] = "connecting"
  OBVIOUS
<1>3. Open(sockets, hooks) /\ UNCHANGED srv
  BY DEF forceReconnect
<1> QED BY <1>1, <1>2, <1>3, OpenUnanswered

LEMMA AnsweredStep ==
    Answered /\ [Next]_vars => Unanswered' /\ ConnectedIsAnswered'
<1> SUFFICES ASSUME Answered, [Next]_vars
             PROVE  Unanswered' /\ ConnectedIsAnswered'
  OBVIOUS
<1> DEFINE Goal == Unanswered /\ ConnectedIsAnswered
<1>0. Solo /\ Types /\ Unanswered /\ Held /\ ConnectedIsAnswered
  BY DEF Answered, Solo
<1>1. ASSUME NEW s \in Socket, Opened(s) PROVE Goal'
  <2>1. Unanswered'
    BY <1>0, <1>1 DEF Opened, Unanswered, Types
  <2>2. ~isConnected'
    BY <1>1 DEF Opened, isConnected
  <2> QED BY <2>1, <2>2 DEF ConnectedIsAnswered
<1>2. ASSUME NEW s \in Socket, Message(s) PROVE Goal'
  <2>1. ~overlapped => ws = s /\ srv[s] # "hello"
    BY <1>0, <1>2 DEF Message, Solo, OneSocket, Unanswered
  <2>2. sock' = sock \/ sock' = [sock EXCEPT ![s] = "closing"]
    BY <1>2 DEF Message, HandshakeReply, Frame
  <2>3. \A t \in Socket : sock'[t] = "connecting" => sock[t] = "connecting"
    BY <1>0, <2>2 DEF Types
  <2>4. Unanswered'
    <3>1. \A t \in Socket : inbox[t] = <<>> => inbox'[t] = <<>>
      BY <1>0, <1>2 DEF Message, Types
    <3> QED BY <1>0, <1>2, <2>3, <3>1 DEF Message, Unanswered
  <2>5. ConnectedIsAnswered'
    BY <1>2, <2>1 DEF Message, ConnectedIsAnswered
  <2> QED BY <2>4, <2>5
<1>3. ASSUME NEW s \in Socket, CloseEvent(s) \/ Breaks(s) PROVE Goal'
  <2>1. onclose(s)
    BY <1>3 DEF CloseEvent, Breaks
  <2>2. Unanswered'
    BY <1>0, <2>1 DEF onclose, Unanswered, Types
  <2>3. ConnectedIsAnswered'
    BY <1>0, <2>1, NoneAssumption DEF onclose, ConnectedIsAnswered, isConnected, Types, sess
  <2> QED BY <2>2, <2>3
<1>4. ASSUME NEW s \in Socket, Ping(s) \/ GoesDeaf(s) PROVE Goal'
  BY <1>0, <1>4 DEF Ping, GoesDeaf, page, sess, wire, Unanswered, ConnectedIsAnswered, isConnected
<1>5. ASSUME NEW s \in Socket, RelayAnswers(s) PROVE Goal'
  <2>1. \A t \in Socket : srv'[t] = "hello" => srv[t] = "hello" /\ t # s
    BY <1>0, <1>5 DEF RelayAnswers, Types
  <2>2. \A t \in Socket : t # s => inbox'[t] = inbox[t] /\ srv'[t] = srv[t]
    BY <1>0, <1>5 DEF RelayAnswers, Types
  <2>3. sock[s] # "connecting"
    BY <1>0, <1>5 DEF RelayAnswers, Unanswered
  <2>4. UNCHANGED <<ws, sock, handshake_done, overlapped>>
    BY <1>5 DEF RelayAnswers, page, sess
  <2>5. Unanswered'
    BY <1>0, <2>1, <2>2, <2>3, <2>4 DEF Unanswered
  <2>6. ConnectedIsAnswered'
    BY <1>0, <2>1, <2>4 DEF ConnectedIsAnswered, isConnected, Types
  <2> QED BY <2>5, <2>6
<1>6. ASSUME (\E s \in Socket : RelayInserts(s) \/ RelayEnds(s))
                 \/ HeartbeatSnapshot \/ HeartbeatDrop
      PROVE  Goal'
  <2>1. \A t \in Socket : srv'[t] = "hello" => srv[t] = "hello"
    BY <1>0, <1>6 DEF RelayInserts, RelayEnds, HeartbeatSnapshot, HeartbeatDrop, Types
  <2>3. \A t \in Socket : srv[t] = "none" => srv'[t] = "none"
    BY <1>0, <1>6 DEF RelayInserts, RelayEnds, HeartbeatSnapshot, HeartbeatDrop, Types
  <2>2. UNCHANGED <<ws, sock, handshake_done, inbox, overlapped>>
    BY <1>6 DEF RelayInserts, RelayEnds, HeartbeatSnapshot, HeartbeatDrop, page, sess
  <2> QED BY <1>0, <2>1, <2>2, <2>3 DEF Unanswered, ConnectedIsAnswered, isConnected, Types
<1>7. ASSUME NEW s \in Socket, RelayFrame(s) PROVE Goal'
  <2>1. sock[s] = "open" /\ srv[s] # "hello" /\ UNCHANGED <<ws, sock, srv, handshake_done, overlapped>>
    BY <1>0, <1>7, NoneAssumption DEF RelayFrame, page, sess, Held
  <2>2. \A t \in Socket : t # s => inbox'[t] = inbox[t]
    BY <1>0, <1>7 DEF RelayFrame, Types
  <2> QED BY <1>0, <2>1, <2>2 DEF Unanswered, ConnectedIsAnswered, isConnected
<1>8. ASSUME NEW s \in Socket, RelayCloses(s) PROVE Goal'
  BY <1>0, <1>8 DEF RelayCloses, wire, sess, Unanswered, ConnectedIsAnswered, isConnected, Types
<1>9. ASSUME RetryTimer PROVE Goal'
  <2>1. UNCHANGED <<srv, sess, overlapped>>
    BY <1>9 DEF RetryTimer
  <2>2. CASE Open(sock, hooked)
    BY <1>0, <2>1, <2>2, OpenUnanswered DEF Types
  <2>3. CASE UNCHANGED <<ws, sock, hooked, inbox, deaf>>
    BY <1>0, <2>1, <2>3 DEF sess, Unanswered, ConnectedIsAnswered, isConnected
  <2> QED BY <1>9, <2>2, <2>3 DEF RetryTimer
<1>10. ASSUME Watchdog \/ Wake \/ Show PROVE Goal'
  <2>1. CASE forceReconnect
    BY <1>0, <2>1, ForceUnanswered
  <2>2. CASE UNCHANGED <<ws, sock, sess, wire, overlapped>>
    BY <1>0, <2>2 DEF sess, wire, Unanswered, ConnectedIsAnswered, isConnected
  <2> QED BY <1>10, <2>1, <2>2 DEF Watchdog, Wake, Show, wakeConnection
<1>11. ASSUME Hide PROVE Goal'
  BY <1>0, <1>11 DEF Hide, sess, wire, Unanswered, ConnectedIsAnswered, isConnected
<1>12. ASSUME Answer PROVE Goal'
  <2>1. UNCHANGED <<srv, sess>> /\ (overlapped => overlapped')
    BY <1>12 DEF Answer
  <2>2. CASE Open(sock, hooked)
    BY <1>0, <2>1, <2>2, OpenUnanswered DEF Types
  <2>3. CASE UNCHANGED <<ws, sock, hooked, inbox, deaf, timer>>
    BY <1>0, <2>1, <2>3 DEF sess, Unanswered, ConnectedIsAnswered, isConnected
  <2> QED BY <1>12, <2>2, <2>3 DEF Answer
<1>13. ASSUME UNCHANGED vars PROVE Goal'
  BY <1>0, <1>13 DEF vars, page, sess, wire, Unanswered, ConnectedIsAnswered, isConnected
<1> QED
  BY <1>1, <1>2, <1>3, <1>4, <1>5, <1>6, <1>7, <1>8, <1>9, <1>10, <1>11, <1>12, <1>13
  DEF Next, PageStep, RelayStep

(* The client never takes itself for connected on a socket whose handshake *)
(* the relay has not answered, although one flag serves every socket it    *)
(* has had (until a call is accepted while its socket is closing).         *)
THEOREM ConnectionsAnswered == Spec => []ConnectedIsAnswered
<1>1. Init => Answered
  <2> SUFFICES ASSUME Init PROVE Answered OBVIOUS
  <2>1. Unanswered
    BY DEF Init, Unanswered
  <2>2. ConnectedIsAnswered
    BY DEF Init, ConnectedIsAnswered, isConnected
  <2>3. Held
    BY DEF Init, Held
  <2> QED BY <2>1, <2>2, <2>3, SoloInit DEF Answered
<1>2. Answered /\ [Next]_vars => Answered'
  BY TypesStep, RetryStep, SoloStep, HeldStep, AnsweredStep DEF Answered, Solo
<1>3. Answered => ConnectedIsAnswered
  BY DEF Answered
<1> QED BY <1>1, <1>2, <1>3, PTL DEF Spec

-----------------------------------------------------------------------------
(* Types in full: the bound on a socket's inbox holds because the relay's  *)
(* answer is the first thing in it.                                        *)

Rest ==
    /\ keys \in BOOLEAN /\ appPingSeen \in BOOLEAN /\ hidden \in BOOLEAN
    /\ overlapped \in BOOLEAN /\ doomed \in BOOLEAN
    /\ faults \in 0..MaxFaults /\ nudges \in 0..MaxNudges

Inboxes ==
    /\ Unanswered
    /\ deaf \in [Socket -> BOOLEAN]
    /\ \A s \in Socket : Len(inbox[s]) <= InboxBound

LEMMA RestStep == Types /\ Rest /\ [Next]_vars => Rest'
<1> SUFFICES ASSUME Types, Rest, [Next]_vars PROVE Rest' OBVIOUS
<1> USE BoundsAssumption DEF Rest, page, sess, wire, bounds
<1>1. ASSUME NEW s \in Socket, PageStep(s) \/ Breaks(s) PROVE Rest'
  <2>1. CASE Opened(s)
    BY <2>1 DEF Opened
  <2>2. CASE Message(s)
    <3>1. HandshakeReply(s) \/ Frame
      BY <2>2 DEF Message
    <3>2. keys' \in BOOLEAN
      BY <3>1 DEF HandshakeReply, Frame
    <3>. QED BY <2>2, <3>2 DEF Message
  <2>3. CASE CloseEvent(s) \/ Breaks(s)
    BY <2>3 DEF CloseEvent, Breaks, onclose
  <2>4. CASE Ping(s)
    BY <2>4 DEF Ping
  <2>. QED BY <1>1, <2>1, <2>2, <2>3, <2>4 DEF PageStep
<1>2. ASSUME NEW s \in Socket, RelayStep(s) \/ RelayFrame(s) \/ GoesDeaf(s) PROVE Rest'
  BY <1>2 DEF RelayStep, RelayAnswers, RelayInserts, RelayEnds, RelayCloses, RelayFrame, GoesDeaf
<1>8. ASSUME HeartbeatSnapshot \/ HeartbeatDrop PROVE Rest'
  BY <1>8 DEF HeartbeatSnapshot, HeartbeatDrop
<1>3. CASE RetryTimer
  BY <1>3 DEF RetryTimer
<1>4. CASE Watchdog \/ Wake \/ Show
  <2>1. UNCHANGED <<keys, appPingSeen, overlapped, doomed>>
    <3>1. forceReconnect => UNCHANGED <<keys, appPingSeen, overlapped, doomed>>
      BY DEF forceReconnect
    <3>. QED BY <1>4, <3>1 DEF Watchdog, Wake, Show, wakeConnection
  <2>2. hidden' \in BOOLEAN /\ faults' = faults
    BY <1>4 DEF Watchdog, Wake, Show
  <2>3. nudges' \in 0..MaxNudges
    BY <1>4 DEF Watchdog, Wake, Show
  <2>. QED BY <2>1, <2>2, <2>3
<1>5. CASE Hide
  BY <1>5 DEF Hide
<1>6. CASE Answer
  <2>1. overlapped' \in BOOLEAN
    BY <1>6 DEF Answer
  <2>. QED BY <1>6, <2>1 DEF Answer
<1>7. CASE UNCHANGED vars
  BY <1>7 DEF vars
<1>. QED BY <1>1, <1>2, <1>3, <1>4, <1>5, <1>6, <1>7, <1>8 DEF Next

LEMMA OpenInboxes ==
    ASSUME NEW sockets \in [Socket -> {"none", "connecting", "open", "closing"}],
           NEW hooks \in [Socket -> BOOLEAN], Types, Inboxes,
           \A s \in Socket : sockets[s] = "connecting" => sock[s] = "connecting",
           Open(sockets, hooks), UNCHANGED srv
    PROVE  Inboxes'
<1>1. Unanswered'
  BY OpenUnanswered DEF Inboxes
<1>2. deaf' \in [Socket -> BOOLEAN]
  BY DEF Open, Inboxes
<1>3. \A s \in Socket : Len(inbox'[s]) <= InboxBound
  <2>1. Len(<<>>) <= InboxBound
    BY DEF InboxBound
  <2>. QED BY <2>1 DEF Open, Inboxes, Types
<1>. QED BY <1>1, <1>2, <1>3 DEF Inboxes

LEMMA ForceInboxes == Types /\ Inboxes /\ forceReconnect => Inboxes'
<1> SUFFICES ASSUME Types, Inboxes, forceReconnect PROVE Inboxes' OBVIOUS
<1> DEFINE old == {s \in {ws} \ {None} : sock[s] # "none"}
<1> DEFINE sockets == [s \in Socket |-> IF s \in old THEN "closing" ELSE sock[s]]
<1> DEFINE hooks == [s \in Socket |-> hooked[s] /\ s \notin old]
<1>1. sockets \in [Socket -> {"none", "connecting", "open", "closing"}] /\ hooks \in [Socket -> BOOLEAN]
  BY DEF Types
<1>2. \A s \in Socket : sockets[s] = "connecting" => sock[s] = "connecting"
  OBVIOUS
<1>3. Open(sockets, hooks) /\ UNCHANGED srv
  BY DEF forceReconnect
<1> QED BY <1>1, <1>2, <1>3, OpenInboxes

LEMMA InboxesStep == Types /\ Held /\ Inboxes /\ [Next]_vars => Inboxes'
<1> SUFFICES ASSUME Types, Held, Inboxes, [Next]_vars PROVE Inboxes' OBVIOUS
<1>0. \A s \in Socket : inbox[s] \in Seq({"ok", "in_use", "frame"}) /\ Len(inbox[s]) \in Nat
  BY DEF Types
<1>1. ASSUME NEW s \in Socket, Opened(s) PROVE Inboxes'
  BY <1>1 DEF Opened, Inboxes, Unanswered, Types
<1>2. ASSUME NEW s \in Socket, Message(s) PROVE Inboxes'
  <2>1. /\ inbox' = [inbox EXCEPT ![s] = Tail(@)] /\ inbox[s] # <<>>
        /\ srv' = srv /\ deaf' = deaf /\ sock[s] = "open"
    BY <1>2 DEF Message
  <2>2. \A x \in Socket : sock'[x] = "connecting" => sock[x] = "connecting"
    BY <1>2 DEF Message, HandshakeReply, Frame, Types
  <2>3. Len(Tail(inbox[s])) <= InboxBound
    BY <1>0, <2>1 DEF Inboxes, InboxBound
  <2>4. \A x \in Socket : Len(inbox'[x]) <= InboxBound
    BY <2>1, <2>3 DEF Inboxes, Types
  <2>5. Unanswered'
    BY <2>1, <2>2 DEF Inboxes, Unanswered, Types
  <2>. QED BY <2>1, <2>4, <2>5 DEF Inboxes
<1>3. ASSUME NEW s \in Socket, CloseEvent(s) \/ Breaks(s) PROVE Inboxes'
  <2>1. onclose(s) /\ Len(<<>>) <= InboxBound
    BY <1>3 DEF CloseEvent, Breaks, InboxBound
  <2>. QED BY <2>1 DEF onclose, Inboxes, Unanswered, Types
<1>4. ASSUME NEW s \in Socket, Ping(s) PROVE Inboxes'
  BY <1>4 DEF Ping, Inboxes, Unanswered, page, wire
<1>5. ASSUME NEW s \in Socket, RelayAnswers(s) PROVE Inboxes'
  <2>1. PICK x \in {"ok", "in_use"} : inbox' = [inbox EXCEPT ![s] = Append(@, x)]
    BY <1>5 DEF RelayAnswers
  <2>2. inbox[s] = <<>>
    BY <1>5 DEF RelayAnswers, Inboxes, Unanswered
  <2>3. Len(Append(inbox[s], x)) <= InboxBound
    BY <2>2 DEF InboxBound
  <2>4. \A y \in Socket : Len(inbox'[y]) <= InboxBound
    BY <2>1, <2>3 DEF Inboxes, Types
  <2>5. srv'[s] # "hello" /\ sock[s] # "connecting"
    BY <1>5 DEF RelayAnswers, Types, Inboxes, Unanswered
  <2>6. \A y \in Socket \ {s} : inbox'[y] = inbox[y] /\ srv'[y] = srv[y]
    BY <1>5, <2>1 DEF RelayAnswers, Types
  <2>7. sock' = sock /\ deaf' = deaf
    BY <1>5 DEF RelayAnswers, page
  <2>8. Unanswered'
    BY <2>5, <2>6, <2>7 DEF Inboxes, Unanswered
  <2>. QED BY <2>4, <2>7, <2>8 DEF Inboxes
<1>6. ASSUME (\E s \in Socket : RelayInserts(s) \/ RelayEnds(s) \/ RelayCloses(s))
                 \/ HeartbeatSnapshot \/ HeartbeatDrop
      PROVE  Inboxes'
  BY <1>6 DEF RelayInserts, RelayEnds, RelayCloses, HeartbeatSnapshot, HeartbeatDrop, Inboxes,
              Unanswered, Types, page, wire
<1>7. ASSUME NEW s \in Socket, RelayFrame(s) PROVE Inboxes'
  <2>1. Len(Append(inbox[s], "frame")) <= InboxBound
    BY <1>0, <1>7 DEF RelayFrame, InboxBound
  <2>2. \A y \in Socket : Len(inbox'[y]) <= InboxBound
    BY <1>7, <2>1 DEF RelayFrame, Inboxes, Types
  <2>3. Unanswered'
    BY <1>7, NoneAssumption DEF RelayFrame, Inboxes, Unanswered, Held, Types, page
  <2>. QED BY <1>7, <2>2, <2>3 DEF RelayFrame, Inboxes
<1>8. ASSUME NEW s \in Socket, GoesDeaf(s) PROVE Inboxes'
  BY <1>8 DEF GoesDeaf, Inboxes, Unanswered, page
<1>9. CASE RetryTimer
  <2>1. CASE closedManually
    BY <1>9, <2>1 DEF RetryTimer, Inboxes, Unanswered
  <2>2. CASE ~closedManually
    BY <1>9, <2>2, OpenInboxes DEF RetryTimer, Types
  <2>. QED BY <2>1, <2>2
<1>10. CASE Watchdog \/ Wake \/ Show
  <2>1. CASE forceReconnect
    BY <2>1, ForceInboxes
  <2>2. CASE UNCHANGED <<sock, wire>>
    BY <2>2 DEF wire, Inboxes, Unanswered
  <2>. QED BY <1>10, <2>1, <2>2 DEF Watchdog, Wake, Show, wakeConnection
<1>11. CASE Hide
  BY <1>11 DEF Hide, wire, Inboxes, Unanswered
<1>12. CASE Answer
  <2>1. CASE Open(sock, hooked)
    BY <1>12, <2>1, OpenInboxes DEF Answer, Types
  <2>2. CASE UNCHANGED <<sock, inbox, deaf>>
    BY <1>12, <2>2 DEF Answer, Inboxes, Unanswered
  <2>. QED BY <1>12, <2>1, <2>2 DEF Answer
<1>13. CASE UNCHANGED vars
  BY <1>13 DEF vars, page, wire, Inboxes, Unanswered
<1>. QED
  BY <1>1, <1>2, <1>3, <1>4, <1>5, <1>6, <1>7, <1>8, <1>9, <1>10, <1>11, <1>12, <1>13
  DEF Next, PageStep, RelayStep

(* Whatever connects, breaks or goes deaf, each socket and flag keeps its  *)
(* range, and a socket's inbox its bound.                                  *)
THEOREM WsClientTyped == Spec => []TypeOK
<1>1. Init => Types /\ Rest /\ Held /\ Inboxes
  <2> SUFFICES ASSUME Init PROVE Rest /\ Held /\ Inboxes
    BY TypesInit
  <2>1. Rest
    <3>1. /\ keys = FALSE /\ appPingSeen = FALSE /\ hidden = FALSE
          /\ overlapped = FALSE /\ doomed = FALSE
      <4>1. PICK first \in Socket :
               /\ keys = FALSE /\ appPingSeen = FALSE /\ hidden = FALSE
               /\ overlapped = FALSE /\ doomed = FALSE
        BY DEF Init
      <4>. QED BY <4>1
    <3>2. faults = 0 /\ nudges = 0
      BY DEF Init
    <3>3. faults \in 0..MaxFaults /\ nudges \in 0..MaxNudges
      BY <3>2, BoundsAssumption
    <3>. QED BY <3>1, <3>3 DEF Rest
  <2>2. deaf \in [Socket -> BOOLEAN] /\ inbox = [s \in Socket |-> <<>>]
    BY DEF Init
  <2>3. Unanswered
    BY DEF Init, Unanswered
  <2>4. Held
    BY DEF Init, Held
  <2>. QED BY <2>1, <2>2, <2>3, <2>4 DEF Inboxes, InboxBound
<1>2. Types /\ Rest /\ Held /\ Inboxes /\ [Next]_vars => (Types /\ Rest /\ Held /\ Inboxes)'
  BY TypesStep, RestStep, HeldStep, InboxesStep DEF Inboxes
<1>3. Types /\ Rest /\ Held /\ Inboxes => TypeOK
  BY DEF Types, Rest, Held, Inboxes, TypeOK
<1> QED BY <1>1, <1>2, <1>3, PTL DEF Spec
=============================================================================
