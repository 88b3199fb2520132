----------------------------- MODULE RelayProofs -----------------------------
(***************************************************************************)
(* What is proved of the relay for every set of clients and connections,   *)
(* every assignment of connections to clients and every key list.          *)
(***************************************************************************)
EXTENDS RelayRefinement, TLAPS

(* Every label a task is sent to is one of PC.                             *)
LEMMA Labels ==
    /\ "free" \in PC /\ "handshake" \in PC /\ "reply_error" \in PC
    /\ "reply_ok" \in PC /\ "insert" \in PC /\ "online_snapshot" \in PC
    /\ "online_send" \in PC /\ "loop" \in PC /\ "decode_sub" \in PC
    /\ "decode_unsub" \in PC /\ "subscribe" \in PC /\ "unsubscribe" \in PC
    /\ "subscribe_reply" \in PC /\ "cleanup" \in PC
    /\ "offline_snapshot" \in PC /\ "offline_send" \in PC
    /\ "done" \in PC /\ "dead" \in PC
  BY DEF PC, Handshaking, Established, Closing, Departing, Ended

(* Type correctness: every variable of the relay stays in its range.       *)
LEMMA TypeStep == TypeOK /\ [Next]_vars => TypeOK'
<1> SUFFICES ASSUME TypeOK, [Next]_vars PROVE TypeOK'
  OBVIOUS
<1> USE OwnerAssumption, Labels
    DEF TypeOK, HubTypeOK, Goto, hubVars, taskVars, sessionVars, subVars
<1>1. ASSUME NEW c \in Conn, Accept(c) PROVE TypeOK'
  BY <1>1 DEF Accept
<1>2. ASSUME NEW c \in Conn, BadHandshake(c) PROVE TypeOK'
  BY <1>2 DEF BadHandshake
<1>3. ASSUME NEW c \in Conn, BadVersion(c) PROVE TypeOK'
  BY <1>3 DEF BadVersion
<1>4. ASSUME NEW c \in Conn, CheckCollision(c) PROVE TypeOK'
  BY <1>4 DEF CheckCollision
<1>5. ASSUME NEW c \in Conn, SendError(c) PROVE TypeOK'
  BY <1>5 DEF SendError
<1>6. ASSUME NEW c \in Conn, SendOk(c) PROVE TypeOK'
  <2>1. pc' \in [Conn -> PC]
    BY <1>6 DEF SendOk
  <2>. QED BY <1>6, <2>1 DEF SendOk
<1>7. ASSUME NEW c \in Conn, InsertSession(c) PROVE TypeOK'
  <2>1. /\ by_id' \in [Client -> Conn \cup {None}]
        /\ online_xs' \in SUBSET Client
    BY <1>7 DEF InsertSession, insert
  <2>2. quiet' \in [Client -> {0, 1, 2}]
    BY <1>7 DEF InsertSession
  <2>. QED BY <1>7, <2>1, <2>2 DEF InsertSession
<1>8. ASSUME NEW c \in Conn, NEW from \in PC, NEW to \in PC, Snapshot(c, from, to)
      PROVE  TypeOK'
  <2>1. subscribers_targets(Owner[c]) \in SUBSET Conn
    BY DEF subscribers_targets, contains
  <2>2. targets' \in [Conn -> SUBSET Conn]
    BY <1>8, <2>1 DEF Snapshot
  <2>. QED BY <1>8, <2>2 DEF Snapshot
<1>9. ASSUME NEW c \in Conn, NEW at \in PC, NEW word \in {"on", "off"}, Send(c, at, word)
      PROVE  TypeOK'
  <2>1. PICK t \in targets[c] : /\ targets' = [targets EXCEPT ![c] = @ \ {t}]
                                /\ Told(t, {Owner[c]}, word)
    BY <1>9 DEF Send
  <2>2. view' \in [Conn -> [Client -> {"none", "on", "off"}]]
    BY <2>1 DEF Told
  <2>3. targets' \in [Conn -> SUBSET Conn]
    BY <2>1
  <2>. QED BY <1>9, <2>2, <2>3 DEF Send
<1>10. ASSUME NEW c \in Conn, NEW at \in PC, NEW to \in PC, SendsDone(c, at, to)
       PROVE  TypeOK'
  BY <1>10 DEF SendsDone
<1>11. ASSUME NEW c \in Conn, ReadKeepalive(c) PROVE TypeOK'
  BY <1>11 DEF ReadKeepalive, touch
<1>12. ASSUME NEW c \in Conn, NEW xs \in SubLists[Owner[c]], NEW to \in PC,
              ReadServerBound(c, xs, to)
       PROVE  TypeOK'
  <2>1. xs \in SUBSET Client
    BY SubListsAssumption
  <2>2. quiet' \in [Client -> {0, 1, 2}]
    BY <1>12 DEF ReadServerBound, touch
  <2>3. keys' \in [Conn -> SUBSET Client]
    BY <1>12, <2>1 DEF ReadServerBound
  <2>. QED BY <1>12, <2>2, <2>3 DEF ReadServerBound
<1>13. ASSUME NEW c \in Conn, NEW at \in PC, NEW to \in PC, Decode(c, at, to)
       PROVE  TypeOK'
  <2>1. pc' \in [Conn -> PC] /\ keys' \in [Conn -> SUBSET Client]
    BY <1>13 DEF Decode
  <2>. QED BY <1>13, <2>1 DEF Decode
<1>14. ASSUME NEW c \in Conn, ApplySubscribe(c) PROVE TypeOK'
  <2>1. /\ subscribers_of' \in [Client -> SUBSET Client]
        /\ my_subs' \in [Client -> SUBSET Client]
    BY <1>14 DEF ApplySubscribe, add_subscriptions
  <2>2. asked' \in [Conn -> [Client -> {"no", "yes", "left"}]]
    BY <1>14 DEF ApplySubscribe
  <2>3. pc' \in [Conn -> PC] /\ keys' \in [Conn -> SUBSET Client]
    BY <1>14 DEF ApplySubscribe
  <2>. QED BY <1>14, <2>1, <2>2, <2>3 DEF ApplySubscribe
<1>15. ASSUME NEW c \in Conn, SubscribeReply(c) PROVE TypeOK'
  <2>1. view' \in [Conn -> [Client -> {"none", "on", "off"}]]
    BY <1>15 DEF SubscribeReply, Told
  <2>. QED BY <1>15, <2>1 DEF SubscribeReply
<1>16. ASSUME NEW c \in Conn, ApplyUnsubscribe(c) PROVE TypeOK'
  <2>1. /\ subscribers_of' \in [Client -> SUBSET Client]
        /\ my_subs' \in [Client -> SUBSET Client]
    BY <1>16 DEF ApplyUnsubscribe, remove_subscriptions
  <2>2. asked' \in [Conn -> [Client -> {"no", "yes", "left"}]]
    BY <1>16 DEF ApplyUnsubscribe
  <2>. QED BY <1>16, <2>1, <2>2 DEF ApplyUnsubscribe
<1>17. ASSUME NEW c \in Conn, LeaveLoop(c) PROVE TypeOK'
  BY <1>17 DEF LeaveLoop
<1>18. ASSUME NEW c \in Conn, Cleanup(c) PROVE TypeOK'
  <2>1. /\ subscribers_of' \in [Client -> SUBSET Client]
        /\ my_subs' \in [Client -> SUBSET Client]
    BY <1>18 DEF Cleanup, remove_all_subscriptions
  <2>2. /\ by_id' \in [Client -> Conn \cup {None}]
        /\ online_xs' \in SUBSET Client
    BY <1>18 DEF Cleanup, remove
  <2>3. quiet' \in [Client -> {0, 1, 2}]
    BY <1>18 DEF Cleanup
  <2>. QED BY <1>18, <2>1, <2>2, <2>3 DEF Cleanup
<1>19. ASSUME NEW c \in Conn, Die(c) PROVE TypeOK'
  BY <1>19 DEF Die
<1>20. ASSUME NEW c \in Conn, Vanish(c) PROVE TypeOK'
  BY <1>20 DEF Vanish
<1>21. ASSUME NEW i \in Client, Silence(i) PROVE TypeOK'
  <2>1. quiet' \in [Client -> {0, 1, 2}]
    <3>1. MaxQuiet[i] \in {0, 1, 2} /\ quiet[i] \in {0, 1, 2}
      BY MaxQuietAssumption
    <3>2. quiet[i] + 1 \in {0, 1, 2}
      BY <1>21, <3>1 DEF Silence
    <3>. QED BY <1>21, <3>2 DEF Silence
  <2>. QED BY <1>21, <2>1 DEF Silence
<1>22. ASSUME HeartbeatSnapshot PROVE TypeOK'
  BY <1>22 DEF HeartbeatSnapshot, Phases
<1>23. ASSUME HeartbeatLock PROVE TypeOK'
  BY <1>23 DEF HeartbeatLock, Phases
<1>24. ASSUME NEW i \in Client, HeartbeatDrop(i) PROVE TypeOK'
  <2>1. /\ by_id' \in [Client -> Conn \cup {None}]
        /\ online_xs' \in SUBSET Client
    BY <1>24 DEF HeartbeatDrop, remove
  <2>2. /\ aborted' \in [Conn -> BOOLEAN]
        /\ open' \in [Conn -> BOOLEAN]
    BY <1>24 DEF HeartbeatDrop, contains
  <2>3. /\ quiet' \in [Client -> {0, 1, 2}]
        /\ hb' \in [phase : Phases, drop : SUBSET Client, ping : SUBSET Client]
    BY <1>24 DEF HeartbeatDrop
  <2>. QED BY <1>24, <2>1, <2>2, <2>3 DEF HeartbeatDrop
<1>25. ASSUME HeartbeatDone PROVE TypeOK'
  <2>1. /\ quiet' \in [Client -> {0, 1, 2}]
        /\ hb' \in [phase : Phases, drop : SUBSET Client, ping : SUBSET Client]
    BY <1>25 DEF HeartbeatDone, Idle, Phases
  <2>. QED BY <1>25, <2>1 DEF HeartbeatDone
<1>26. CASE UNCHANGED vars
  BY <1>26 DEF vars
<1>. QED
  BY <1>1, <1>2, <1>3, <1>4, <1>5, <1>6, <1>7, <1>8, <1>9, <1>10, <1>11, <1>12,
     <1>13, <1>14, <1>15, <1>16, <1>17, <1>18, <1>19, <1>20, <1>21, <1>22, <1>23,
     <1>24, <1>25, <1>26
     DEF Next, TaskStep, Frame, Heartbeat, OnlineSnapshot, OfflineSnapshot,
         OnlineSend, OfflineSend, OnlineDone, OfflineDone, ReadSubscribe,
         ReadUnsubscribe, DecodeSubscribe, DecodeUnsubscribe

(* Every variable of the relay keeps its type: a task is at one of the     *)
(* places the code has, and a registered session is a connection.          *)
THEOREM TypeCorrect == Spec => []TypeOK
<1>1. Init => TypeOK
  BY DEF Init, HubInit, TypeOK, HubTypeOK, PC, Idle, Phases
<1>. QED BY <1>1, TypeStep, PTL DEF Spec

-----------------------------------------------------------------------------
(* The two subscription indexes agree, whatever the tasks do: the only     *)
(* steps that touch them are the three registry operations, and each keeps *)
(* them mirror images.                                                     *)
LEMMA MirrorStep == TypeOK /\ SubIndexMirror /\ [Next]_vars => SubIndexMirror'
<1> SUFFICES ASSUME TypeOK, SubIndexMirror, [Next]_vars PROVE SubIndexMirror'
  OBVIOUS
<1> USE OwnerAssumption DEF SubIndexMirror, subVars
<1>1. ASSUME NEW c \in Conn, ApplySubscribe(c) PROVE SubIndexMirror'
  BY <1>1 DEF ApplySubscribe, add_subscriptions, TypeOK, HubTypeOK
<1>2. ASSUME NEW c \in Conn, ApplyUnsubscribe(c) PROVE SubIndexMirror'
  BY <1>2 DEF ApplyUnsubscribe, remove_subscriptions, TypeOK, HubTypeOK
<1>3. ASSUME NEW c \in Conn, Cleanup(c) PROVE SubIndexMirror'
  BY <1>3 DEF Cleanup, remove_all_subscriptions, TypeOK, HubTypeOK
<1>4. CASE UNCHANGED subVars
  BY <1>4
<1>5. \/ \E c \in Conn : ApplySubscribe(c) \/ ApplyUnsubscribe(c) \/ Cleanup(c)
      \/ UNCHANGED subVars
  BY DEF Next, TaskStep, Frame, Heartbeat, OnlineSnapshot, OfflineSnapshot,
         OnlineSend, OfflineSend, OnlineDone, OfflineDone, ReadSubscribe,
         ReadUnsubscribe, DecodeSubscribe, DecodeUnsubscribe, Accept, BadHandshake,
         BadVersion, CheckCollision, SendError, SendOk, InsertSession, Snapshot,
         Send, SendsDone, ReadKeepalive, ReadServerBound, Decode, SubscribeReply,
         LeaveLoop, Die, Vanish, Silence, HeartbeatSnapshot, HeartbeatLock,
         HeartbeatDrop, HeartbeatDone, vars, hubVars
<1>. QED BY <1>1, <1>2, <1>3, <1>4, <1>5

(* A client is listed under a key exactly when the key is listed under the *)
(* client, for any number of clients and connections.                      *)
THEOREM IndexesMirror == Spec => []SubIndexMirror
<1>1. Init => SubIndexMirror
  BY DEF Init, HubInit, SubIndexMirror
<1>. QED BY <1>1, MirrorStep, TypeCorrect, PTL DEF Spec

-----------------------------------------------------------------------------
(* The registry of sessions.  That a registered session's task is alive is *)
(* inductive only together with AbortedGone (Die ends any aborted task)    *)
(* and with what online_xs holds.                                          *)
SessionInv == OnlineIndex /\ NoDeadSession /\ AbortedGone

LEMMA SessionStep == TypeOK /\ SessionInv /\ [Next]_vars => SessionInv'
<1> SUFFICES ASSUME TypeOK, SessionInv, [Next]_vars PROVE SessionInv'
  OBVIOUS
<1> USE OwnerAssumption, NoneAssumption DEF sessionVars, taskVars, hubVars
<1>0. /\ pc \in [Conn -> PC]
      /\ by_id \in [Client -> Conn \cup {None}]
      /\ online_xs \in SUBSET Client
      /\ aborted \in [Conn -> BOOLEAN]
  BY DEF TypeOK, HubTypeOK
<1>1. ASSUME NEW c \in Conn, InsertSession(c) PROVE SessionInv'
  <2> USE <1>0, <1>1 DEF InsertSession, insert, Goto, contains
  <2>1. OnlineIndex'
    BY DEF SessionInv, OnlineIndex
  <2>2. \A i \in Client : by_id[i] # c
    BY DEF SessionInv, NoDeadSession, Alive, Established, Closing
  <2>3. NoDeadSession'
    <3>1. SUFFICES ASSUME NEW i \in Client, NEW d \in Conn, by_id'[i] = d
                   PROVE  pc'[d] \in Established \cup Closing /\ Owner[d] = i
      BY DEF NoDeadSession, Alive
    <3>2. CASE i = Owner[c]
      BY <3>1, <3>2 DEF Established
    <3>3. CASE i # Owner[c]
      BY <2>2, <3>1, <3>3 DEF SessionInv, NoDeadSession, Alive
    <3>. QED BY <3>2, <3>3
  <2>4. AbortedGone'
    BY DEF SessionInv, AbortedGone, Handshaking
  <2>. QED BY <2>1, <2>3, <2>4 DEF SessionInv
<1>2. ASSUME NEW c \in Conn, Cleanup(c) PROVE SessionInv'
  <2> USE <1>0, <1>2 DEF Cleanup, remove, Goto, contains
  <2>1. OnlineIndex'
    BY DEF SessionInv, OnlineIndex
  <2>2. \A i \in Client : by_id'[i] # c
    BY DEF SessionInv, NoDeadSession
  <2>3. NoDeadSession'
    BY <2>2 DEF SessionInv, NoDeadSession, Alive
  <2>4. AbortedGone'
    BY DEF SessionInv, AbortedGone, Handshaking
  <2>. QED BY <2>1, <2>3, <2>4 DEF SessionInv
<1>3. ASSUME NEW i \in Client, HeartbeatDrop(i) PROVE SessionInv'
  <2> USE <1>0, <1>3 DEF HeartbeatDrop, remove, contains
  <2>1. OnlineIndex'
    BY DEF SessionInv, OnlineIndex
  <2>2. NoDeadSession'
    BY DEF SessionInv, NoDeadSession, Alive
  <2>3. AbortedGone'
    BY DEF SessionInv, NoDeadSession, AbortedGone, Alive, Handshaking, Established,
           Closing
  <2>. QED BY <2>1, <2>2, <2>3 DEF SessionInv
<1>4. ASSUME NEW c \in Conn, NEW from, NEW to,
             pc[c] = from, Goto(c, to), UNCHANGED <<by_id, online_xs, aborted>>,
             \/ from \notin Established \cup Closing
             \/ aborted[c]
             \/ to \in Established \cup Closing,
             from \in {"free"} \cup Handshaking \/ to \notin {"free"} \cup Handshaking
      PROVE  SessionInv'
  <2>1. OnlineIndex'
    BY <1>4 DEF SessionInv, OnlineIndex, contains
  <2>2. NoDeadSession'
    BY <1>0, <1>4 DEF SessionInv, NoDeadSession, AbortedGone, Alive, contains, Goto
  <2>3. AbortedGone'
    BY <1>0, <1>4 DEF SessionInv, AbortedGone, Goto
  <2>. QED BY <2>1, <2>2, <2>3 DEF SessionInv
<1>5. CASE UNCHANGED <<by_id, online_xs, aborted, pc>>
  BY <1>5 DEF SessionInv, OnlineIndex, NoDeadSession, AbortedGone, Alive, contains
<1>6. ASSUME NEW c \in Conn,
             \/ Accept(c) \/ BadHandshake(c) \/ BadVersion(c) \/ CheckCollision(c)
             \/ SendError(c) \/ SendOk(c)
      PROVE  SessionInv'
  <2>1. PICK from, to : /\ pc[c] = from /\ Goto(c, to)
                        /\ from \in {"free"} \cup Handshaking
                        /\ UNCHANGED <<by_id, online_xs, aborted>>
    BY <1>6, Zenon DEF Accept, BadHandshake, BadVersion, CheckCollision, SendError,
                       SendOk, Handshaking
  <2>2. from \notin Established \cup Closing
    BY <2>1 DEF Handshaking, Established, Closing
  <2>. QED BY <1>4, <2>1, <2>2
<1>7. ASSUME NEW c \in Conn,
             \/ OfflineSnapshot(c) \/ OfflineDone(c) \/ Die(c)
      PROVE  SessionInv'
  <2>1. /\ UNCHANGED <<by_id, online_xs, aborted>>
        /\ \/ pc[c] = "offline_snapshot" /\ Goto(c, "offline_send")
           \/ pc[c] = "offline_send" /\ Goto(c, "done")
           \/ aborted[c] /\ Goto(c, "dead")
    BY <1>7 DEF OfflineSnapshot, OfflineDone, Die, Snapshot, SendsDone
  <2>. QED BY <1>4, <2>1 DEF Handshaking, Established, Closing
<1>8. ASSUME NEW c \in Conn, NEW xs,
             \/ OnlineSnapshot(c) \/ OnlineDone(c)
             \/ ReadSubscribe(c, xs) \/ ReadUnsubscribe(c, xs) \/ DecodeSubscribe(c)
             \/ DecodeUnsubscribe(c) \/ SubscribeReply(c) \/ LeaveLoop(c)
             \/ ApplySubscribe(c) \/ ApplyUnsubscribe(c)
      PROVE  SessionInv'
  <2>1. \E to \in Established \cup Closing :
           Goto(c, to) /\ UNCHANGED <<by_id, online_xs, aborted>>
    BY <1>8 DEF OnlineSnapshot, Snapshot, OnlineDone, SendsDone, ReadSubscribe,
          ReadUnsubscribe, ReadServerBound, DecodeSubscribe, DecodeUnsubscribe,
          Decode, SubscribeReply, LeaveLoop, ApplySubscribe, ApplyUnsubscribe,
          Established, Closing
  <2>2. \A to \in Established \cup Closing : to \notin {"free"} \cup Handshaking
    BY DEF Established, Closing, Handshaking
  <2>. QED BY <1>4, <2>1, <2>2
<1>9. ASSUME NEW c \in Conn,
             \/ OnlineSend(c) \/ OfflineSend(c) \/ ReadKeepalive(c) \/ Vanish(c)
      PROVE  SessionInv'
  BY <1>5, <1>9 DEF OnlineSend, OfflineSend, Send, ReadKeepalive, Vanish
<1>10. ASSUME HeartbeatSnapshot \/ HeartbeatLock \/ HeartbeatDone \/ UNCHANGED vars
       PROVE  SessionInv'
  BY <1>5, <1>10 DEF HeartbeatSnapshot, HeartbeatLock, HeartbeatDone, vars
<1>11. ASSUME NEW i \in Client, Silence(i) PROVE SessionInv'
  BY <1>5, <1>11 DEF Silence
<1>. QED
  BY <1>1, <1>2, <1>3, <1>6, <1>7, <1>8, <1>9, <1>10, <1>11
     DEF Next, TaskStep, Frame, Heartbeat

(* "Online" is answered exactly for the registered clients, a registered   *)
(* session is one whose task reads it, and what the heartbeat aborted      *)
(* stays out of the hub.                                                   *)
THEOREM SessionsAlive == Spec => [](OnlineIndex /\ NoDeadSession /\ AbortedGone)
<1>1. Init => SessionInv
  BY DEF Init, HubInit, SessionInv, OnlineIndex, NoDeadSession, AbortedGone, contains
<1>. QED BY <1>1, SessionStep, TypeCorrect, PTL DEF Spec, SessionInv

-----------------------------------------------------------------------------
(* The relay implements the directory.  Registration, departure, expiry    *)
(* and the two subscription commands are the directory's steps; everything *)
(* else leaves the mapped state alone.                                     *)
LEMMA PairsAgree == TypeOK /\ SubIndexMirror => ReversePairs = ForwardPairs
  BY DEF SubIndexMirror, ReversePairs, ForwardPairs

\* How a task's move is seen by the directory: by the part it leaves and the
\* part it enters.
Entering == {"free"} \cup Handshaking
Living   == Established \cup Closing

LEMMA Apart == Entering \cap Living = {} /\ Ended \cap (Entering \cup Living) = {}
               /\ Departing \cap (Entering \cup Living) = {}
  BY DEF Entering, Living, Handshaking, Established, Closing, Ended, Departing

LEMMA Moves ==
    ASSUME TypeOK, NEW c \in Conn, NEW to, Goto(c, to)
    PROVE  /\ Unregistered' = IF to \in Entering THEN Unregistered \cup {c}
                                                 ELSE Unregistered \ {c}
           /\ Members' = IF to \in Living THEN Members \cup {c} ELSE Members \ {c}
           /\ c \in Unregistered <=> pc[c] \in Entering
           /\ c \in Members <=> pc[c] \in Living
<1>. pc \in [Conn -> PC]
  BY DEF TypeOK
<1>. QED BY DEF Goto, Unregistered, Members, Alive, Entering, Living

LEMMA ForwardStep ==
    TypeOK /\ SessionInv /\ [Next]_vars => [Forward!Next]_(Forward!dirVars)
<1> SUFFICES ASSUME TypeOK, SessionInv, [Next]_vars
             PROVE  \/ Forward!Next
                    \/ UNCHANGED <<Unregistered, Members, Expired, by_id, ForwardPairs>>
  BY DEF Forward!dirVars
<1> USE OwnerAssumption DEF sessionVars, taskVars, hubVars, subVars
<1>0. /\ pc \in [Conn -> PC]
      /\ aborted \in [Conn -> BOOLEAN]
      /\ by_id \in [Client -> Conn \cup {None}]
      /\ my_subs \in [Client -> SUBSET Client]
      /\ keys \in [Conn -> SUBSET Client]
  BY DEF TypeOK, HubTypeOK
<1>1. ASSUME NEW c \in Conn, InsertSession(c) PROVE Forward!Next
  <2>1. /\ c \in Unregistered /\ Unregistered' = Unregistered \ {c}
        /\ Members' = Members \cup {c}
    BY <1>1, Moves, Apart DEF InsertSession, Entering, Living, Handshaking, Established
  <2>2. UNCHANGED <<Expired, ForwardPairs>>
    BY <1>1 DEF InsertSession, ForwardPairs, Expired
  <2>3. Forward!Register(c)
    BY <1>1, <2>1, <2>2 DEF Forward!Register, InsertSession, insert
  <2>. QED BY <2>3 DEF Forward!Next
<1>2. ASSUME NEW c \in Conn, pc[c] \in Entering, Goto(c, "done"),
             UNCHANGED <<by_id, my_subs, aborted>>
      PROVE  Forward!Next
  <2>1. /\ c \in Unregistered /\ Unregistered' = Unregistered \ {c}
        /\ UNCHANGED Members
    BY <1>2, Moves, Apart DEF Ended
  <2>2. Forward!Abandon(c)
    BY <1>2, <2>1 DEF Forward!Abandon, ForwardPairs, Expired
  <2>. QED BY <2>2 DEF Forward!Next
<1>3. ASSUME NEW c \in Conn, NEW to, Goto(c, to),
             pc[c] \in Entering <=> to \in Entering,
             pc[c] \in Living <=> to \in Living
      PROVE  UNCHANGED <<Unregistered, Members>>
  BY <1>3, Moves
<1>4. ASSUME NEW c \in Conn, Cleanup(c) PROVE Forward!Next
  <2>1. /\ UNCHANGED <<Unregistered, Expired>>
        /\ c \in Members /\ Members' = Members \ {c}
    BY <1>4, Moves, Apart
       DEF Cleanup, Entering, Living, Handshaking, Closing, Departing, Expired
  <2>2. ForwardPairs' = {p \in ForwardPairs : p[1] # Owner[c]}
    BY <1>0, <1>4 DEF Cleanup, remove_all_subscriptions, ForwardPairs
  <2>3. Forward!Leave(c)
    BY <1>4, <2>1, <2>2 DEF Forward!Leave, Cleanup, remove
  <2>. QED BY <2>3 DEF Forward!Next
<1>5. ASSUME NEW i \in Client, HeartbeatDrop(i)
      PROVE  \/ Forward!Next
             \/ UNCHANGED <<Unregistered, Members, Expired, by_id, ForwardPairs>>
  <2>1. UNCHANGED <<Unregistered, Members, ForwardPairs>>
    BY <1>5 DEF HeartbeatDrop, Unregistered, Members, Alive, ForwardPairs
  <2>2. CASE contains(i)
    <3>1. by_id[i] \in Members /\ by_id[i] \in Conn
      BY <1>0, <2>2 DEF contains, Members, SessionInv, NoDeadSession
    <3>2. aborted' = [aborted EXCEPT ![by_id[i]] = TRUE]
      BY <1>5, <2>2 DEF HeartbeatDrop
    <3>3. Expired' = Expired \cup {by_id[i]}
      BY <1>0, <3>1, <3>2 DEF Expired
    <3>4. Forward!Expire(i)
      BY <1>5, <2>1, <3>1, <3>3 DEF Forward!Expire, HeartbeatDrop, remove
    <3>. QED BY <3>4 DEF Forward!Next
  <2>3. CASE ~contains(i)
    <3>1. UNCHANGED <<aborted, by_id>>
      BY <1>0, <1>5, <2>3 DEF HeartbeatDrop, remove, contains
    <3>. QED BY <2>1, <3>1 DEF Expired
  <2>. QED BY <2>2, <2>3
<1>6. ASSUME NEW c \in Conn, ApplySubscribe(c) PROVE Forward!Next
  <2>1. UNCHANGED <<Unregistered, Members, Expired>> /\ c \in Members
    <3>1. pc[c] \in Living /\ \E to \in Living : Goto(c, to)
      BY <1>6 DEF ApplySubscribe, Living, Established
    <3>. QED BY <1>3, <1>6, <3>1, Apart DEF ApplySubscribe, Members, Alive, Living, Expired
  <2>2. ForwardPairs' = ForwardPairs \cup ({Owner[c]} \X keys[c])
    BY <1>0, <1>6 DEF ApplySubscribe, add_subscriptions, ForwardPairs
  <2>3. Forward!Watch(c, keys[c])
    BY <1>6, <2>1, <2>2 DEF Forward!Watch, ApplySubscribe
  <2>. QED BY <1>0, <2>3 DEF Forward!Next
<1>7. ASSUME NEW c \in Conn, ApplyUnsubscribe(c) PROVE Forward!Next
  <2>1. UNCHANGED <<Unregistered, Members, Expired>> /\ c \in Members
    <3>1. pc[c] \in Living /\ \E to \in Living : Goto(c, to)
      BY <1>7 DEF ApplyUnsubscribe, Living, Established
    <3>. QED BY <1>3, <1>7, <3>1, Apart DEF ApplyUnsubscribe, Members, Alive, Living, Expired
  <2>2. ForwardPairs' = ForwardPairs \ ({Owner[c]} \X keys[c])
    BY <1>0, <1>7 DEF ApplyUnsubscribe, remove_subscriptions, ForwardPairs
  <2>3. Forward!Unwatch(c, keys[c])
    BY <1>7, <2>1, <2>2 DEF Forward!Unwatch, ApplyUnsubscribe
  <2>. QED BY <1>0, <2>3 DEF Forward!Next
<1>8. ASSUME NEW c \in Conn, BadHandshake(c) \/ SendError(c) PROVE Forward!Next
  BY <1>2, <1>8 DEF BadHandshake, SendError, Entering, Handshaking
<1>9. ASSUME NEW c \in Conn, SendOk(c)
      PROVE  \/ Forward!Next
             \/ UNCHANGED <<Unregistered, Members, Expired, by_id, ForwardPairs>>
  <2>1. CASE Goto(c, "insert")
    <3>1. UNCHANGED <<Unregistered, Members>>
      BY <1>3, <1>9, <2>1, Apart DEF SendOk, Entering, Handshaking
    <3>. QED BY <1>9, <3>1 DEF SendOk, ForwardPairs, Expired
  <2>2. CASE Goto(c, "done")
    BY <1>2, <1>9, <2>2 DEF SendOk, Entering, Handshaking
  <2>. QED BY <1>9, <2>1, <2>2 DEF SendOk
<1>10. ASSUME NEW c \in Conn, Die(c)
       PROVE  \/ Forward!Next
              \/ UNCHANGED <<Unregistered, Members, Expired, by_id, ForwardPairs>>
  <2>1. /\ UNCHANGED <<Unregistered, Expired>>
        /\ c \in Expired
        /\ Members' = Members \ {c}
    BY <1>10, Moves, Apart
       DEF Die, SessionInv, AbortedGone, Entering, Ended, Expired
  <2>2. UNCHANGED <<by_id, ForwardPairs>>
    BY <1>10 DEF Die, ForwardPairs
  <2>3. CASE c \in Members
    <3>1. Forward!Lapse(c)
      BY <2>1, <2>2, <2>3 DEF Forward!Lapse
    <3>. QED BY <3>1 DEF Forward!Next
  <2>4. CASE c \notin Members
    BY <2>1, <2>2, <2>4
  <2>. QED BY <2>3, <2>4
<1>11. ASSUME NEW c \in Conn, NEW xs,
              \/ Accept(c) \/ BadVersion(c) \/ CheckCollision(c)
              \/ OnlineSnapshot(c) \/ OnlineDone(c)
              \/ OfflineSnapshot(c) \/ OfflineDone(c)
              \/ ReadSubscribe(c, xs) \/ ReadUnsubscribe(c, xs)
              \/ DecodeSubscribe(c) \/ DecodeUnsubscribe(c)
              \/ SubscribeReply(c) \/ LeaveLoop(c)
       PROVE  UNCHANGED <<Unregistered, Members, Expired, by_id, ForwardPairs>>
  <2>1. UNCHANGED <<aborted, by_id, my_subs>>
    BY <1>11 DEF Accept, BadVersion, CheckCollision, OnlineSnapshot,
          OfflineSnapshot, Snapshot, OnlineDone, OfflineDone, SendsDone,
          ReadSubscribe, ReadUnsubscribe, ReadServerBound, DecodeSubscribe,
          DecodeUnsubscribe, Decode, SubscribeReply, LeaveLoop
  <2>2. \E to : /\ Goto(c, to)
                /\ pc[c] \in Entering <=> to \in Entering
                /\ pc[c] \in Living <=> to \in Living
    <3> USE DEF Entering, Living, Handshaking, Established, Closing
    <3>1. CASE Accept(c) \/ BadVersion(c) \/ CheckCollision(c)
      BY <3>1 DEF Accept, BadVersion, CheckCollision
    <3>2. CASE \/ OnlineSnapshot(c) \/ OnlineDone(c)
               \/ OfflineSnapshot(c) \/ OfflineDone(c)
      BY <3>2 DEF OnlineSnapshot, OfflineSnapshot, Snapshot, OnlineDone,
            OfflineDone, SendsDone
    <3>3. CASE \/ ReadSubscribe(c, xs) \/ ReadUnsubscribe(c, xs)
               \/ DecodeSubscribe(c) \/ DecodeUnsubscribe(c)
               \/ SubscribeReply(c) \/ LeaveLoop(c)
      BY <3>3 DEF ReadSubscribe, ReadUnsubscribe, ReadServerBound, DecodeSubscribe,
            DecodeUnsubscribe, Decode, SubscribeReply, LeaveLoop
    <3>. QED BY <1>11, <3>1, <3>2, <3>3
  <2>. QED BY <1>3, <2>1, <2>2 DEF ForwardPairs, Expired
<1>12. CASE UNCHANGED <<pc, aborted, by_id, my_subs>>
  BY <1>12 DEF Unregistered, Members, Alive, Expired, ForwardPairs
<1>13. ASSUME NEW c \in Conn,
              \/ OnlineSend(c) \/ OfflineSend(c) \/ ReadKeepalive(c) \/ Vanish(c)
       PROVE  UNCHANGED <<pc, aborted, by_id, my_subs>>
  BY <1>13 DEF OnlineSend, OfflineSend, Send, ReadKeepalive, Vanish
<1>14. ASSUME NEW i \in Client, Silence(i)
       PROVE  UNCHANGED <<pc, aborted, by_id, my_subs>>
  BY <1>14 DEF Silence
<1>15. ASSUME HeartbeatSnapshot \/ HeartbeatLock \/ HeartbeatDone \/ UNCHANGED vars
       PROVE  UNCHANGED <<pc, aborted, by_id, my_subs>>
  BY <1>15 DEF HeartbeatSnapshot, HeartbeatLock, HeartbeatDone, vars
<1>. QED
  BY <1>1, <1>4, <1>5, <1>6, <1>7, <1>8, <1>9, <1>10, <1>11, <1>12, <1>13, <1>14,
     <1>15
     DEF Next, TaskStep, Frame, Heartbeat

(* The relay implements the directory that keeps who watches whom in the   *)
(* index cleanup works from (ForwardStep is the step of the simulation).   *)
THEOREM ImplementsForward == Spec => ForwardSpec
<1>1. Init => Forward!Init
  BY DEF Init, HubInit, Forward!Init, Unregistered, Members, Alive, Expired,
       Established, Closing, ForwardPairs
<1>. QED
  BY <1>1, ForwardStep, TypeCorrect, SessionsAlive, PTL
     DEF Spec, ForwardSpec, Forward!Spec, SessionInv

(* The same with the relation read from the index broadcasts go by: the    *)
(* indexes agree in both states of every step, so the step is the same.    *)
THEOREM ImplementsReverse == Spec => ReverseSpec
<1>1. Init => Reverse!Init
  BY DEF Init, HubInit, Reverse!Init, Unregistered, Members, Alive, Expired,
       Established, Closing, ReversePairs
<1>2. ASSUME TypeOK, SubIndexMirror, TypeOK', SubIndexMirror',
             [Forward!Next]_(Forward!dirVars)
      PROVE  [Reverse!Next]_(Reverse!dirVars)
  <2>1. ReversePairs = ForwardPairs /\ ReversePairs' = ForwardPairs'
    BY <1>2, PairsAgree DEF SubIndexMirror, ReversePairs, ForwardPairs
  <2>. QED
    BY <1>2, <2>1 DEF Forward!Next, Forward!dirVars, Reverse!Next, Reverse!dirVars,
          Forward!Register, Forward!Abandon, Forward!Leave, Forward!Expire,
          Forward!Lapse, Forward!Watch, Forward!Unwatch, Reverse!Register,
          Reverse!Abandon, Reverse!Leave, Reverse!Expire, Reverse!Lapse,
          Reverse!Watch, Reverse!Unwatch
<1>. QED
  BY <1>1, <1>2, ForwardStep, TypeCorrect, SessionsAlive, IndexesMirror, PTL
     DEF Spec, ReverseSpec, Reverse!Spec, SessionInv

-----------------------------------------------------------------------------
(* Presence.  A connection that watches x either was told of x or is about *)
(* to be: by the broadcast of x's session, or by the reply it is writing.  *)
Watching(c, x) == Registered(c) /\ asked[c][x] = "yes"

Coming(c, x) ==
    \/ pc[by_id[x]] = "online_snapshot"
    \/ pc[by_id[x]] = "online_send" /\ c \in targets[by_id[x]]
    \/ pc[c] = "subscribe_reply" /\ x \in keys[c]

Gone == Departing \cup Ended

\* Only a session that was in the hub has subscribed.
AskedInside ==
    \A c \in Conn, x \in Client : asked[c][x] # "no" => pc[c] \notin Entering

\* While it is registered, what it asked for is in the index broadcasts go by.
Listed ==
    \A c \in Conn, x \in Client : Watching(c, x) => Owner[c] \in subscribers_of[x]

ToldOrComing ==
    \A c \in Conn, x \in Client :
       Watching(c, x) /\ open[c] /\ contains(x) /\ view[c][x] = "none" => Coming(c, x)

\* "off" is written by a session of x that is over.
OffFromGone ==
    \A c \in Conn, x \in Client :
       view[c][x] = "off" => \E d \in Conn : Owner[d] = x /\ pc[d] \in Gone

PresenceInv == AskedInside /\ Listed /\ ToldOrComing /\ OffFromGone

(* A task moves one way: it does not return to the handshake, and once it  *)
(* has left the hub it does not come back.                                 *)
LEMMA TaskMoves ==
    ASSUME TypeOK, [Next]_vars, NEW c \in Conn
    PROVE  /\ pc[c] \notin Entering => pc'[c] \notin Entering
           /\ pc[c] \in Gone => pc'[c] \in Gone
<1> USE DEF Gone, Entering, Handshaking, Departing, Ended
<1>0. pc \in [Conn -> PC]
  BY DEF TypeOK
<1>1. ASSUME NEW d \in Conn, NEW to, Goto(d, to),
             pc[d] \notin Entering => to \notin Entering,
             pc[d] \in Gone => to \in Gone
      PROVE  /\ pc[c] \notin Entering => pc'[c] \notin Entering
             /\ pc[c] \in Gone => pc'[c] \in Gone
  BY <1>0, <1>1 DEF Goto
<1>2. ASSUME NEW d \in Conn,
             \/ Accept(d) \/ BadHandshake(d) \/ BadVersion(d) \/ CheckCollision(d)
             \/ SendError(d) \/ SendOk(d) \/ InsertSession(d)
      PROVE  \E to : /\ Goto(d, to)
                     /\ pc[d] \notin Entering => to \notin Entering
                     /\ pc[d] \in Gone => to \in Gone
  BY <1>2 DEF Accept, BadHandshake, BadVersion, CheckCollision, SendError, SendOk,
              InsertSession
<1>3. ASSUME NEW d \in Conn, NEW xs,
             \/ OnlineSnapshot(d) \/ OnlineDone(d) \/ ReadSubscribe(d, xs)
             \/ ReadUnsubscribe(d, xs) \/ DecodeSubscribe(d) \/ DecodeUnsubscribe(d)
             \/ ApplySubscribe(d) \/ SubscribeReply(d) \/ ApplyUnsubscribe(d)
      PROVE  \E to : /\ Goto(d, to)
                     /\ pc[d] \notin Entering => to \notin Entering
                     /\ pc[d] \in Gone => to \in Gone
  BY <1>3 DEF OnlineSnapshot, Snapshot, OnlineDone, SendsDone, ReadSubscribe,
              ReadUnsubscribe, ReadServerBound, DecodeSubscribe, DecodeUnsubscribe,
              Decode, ApplySubscribe, SubscribeReply, ApplyUnsubscribe
<1>4. ASSUME NEW d \in Conn,
             \/ LeaveLoop(d) \/ Cleanup(d) \/ OfflineSnapshot(d) \/ OfflineDone(d)
             \/ Die(d)
      PROVE  \E to : /\ Goto(d, to)
                     /\ pc[d] \notin Entering => to \notin Entering
                     /\ pc[d] \in Gone => to \in Gone
  BY <1>4 DEF LeaveLoop, Cleanup, OfflineSnapshot, Snapshot, OfflineDone, SendsDone,
              Die
<1>5. ASSUME NEW d \in Conn,
             \/ OnlineSend(d) \/ OfflineSend(d) \/ ReadKeepalive(d) \/ Vanish(d)
      PROVE  UNCHANGED pc
  BY <1>5 DEF OnlineSend, OfflineSend, Send, ReadKeepalive, taskVars, Vanish
<1>6. ASSUME \/ \E i \in Client : Silence(i) \/ HeartbeatDrop(i)
             \/ HeartbeatSnapshot \/ HeartbeatLock \/ HeartbeatDone
             \/ UNCHANGED vars
      PROVE  UNCHANGED pc
  BY <1>6 DEF Silence, HeartbeatDrop, HeartbeatSnapshot, HeartbeatLock,
              HeartbeatDone, vars, taskVars
<1>. QED
  BY <1>1, <1>2, <1>3, <1>4, <1>5, <1>6 DEF Next, TaskStep, Frame, Heartbeat

(* The steps that touch the registry, or what a client asked for.          *)
LEMMA HubSteps ==
    ASSUME [Next]_vars
    PROVE  \/ \E c \in Conn : \/ InsertSession(c) \/ Cleanup(c)
                             \/ ApplySubscribe(c) \/ ApplyUnsubscribe(c)
           \/ \E i \in Client : HeartbeatDrop(i)
           \/ UNCHANGED <<hubVars, asked>>
BY DEF Next, TaskStep, Frame, Heartbeat, OnlineSnapshot, OfflineSnapshot,
       OnlineSend, OfflineSend, OnlineDone, OfflineDone, ReadSubscribe,
       ReadUnsubscribe, DecodeSubscribe, DecodeUnsubscribe, Accept, BadHandshake,
       BadVersion, CheckCollision, SendError, SendOk, Snapshot, Send, SendsDone,
       ReadKeepalive, ReadServerBound, Decode, SubscribeReply, LeaveLoop,
       Die, Vanish, Silence, HeartbeatSnapshot, HeartbeatLock, HeartbeatDone, vars

(* The steps that write presence frames.                                   *)
LEMMA TellingSteps ==
    ASSUME [Next]_vars
    PROVE  \/ \E c \in Conn : OnlineSend(c) \/ OfflineSend(c) \/ SubscribeReply(c)
           \/ UNCHANGED view
BY DEF Next, TaskStep, Frame, Heartbeat, OnlineSnapshot, OfflineSnapshot,
       OnlineDone, OfflineDone, ReadSubscribe,
       ReadUnsubscribe, DecodeSubscribe, DecodeUnsubscribe, Accept, BadHandshake,
       BadVersion, CheckCollision, SendError, SendOk, InsertSession,
       Snapshot, Send, SendsDone,
       ReadKeepalive, ReadServerBound, Decode, LeaveLoop,
       ApplySubscribe, ApplyUnsubscribe, Cleanup, HeartbeatDrop, Die, Vanish, Silence, HeartbeatSnapshot, HeartbeatLock, HeartbeatDone, vars

(* Only Accept opens a connection; others close one or leave them alone.   *)
LEMMA OpenSteps ==
    ASSUME [Next]_vars
    PROVE  \/ \E c \in Conn : Accept(c) \/ open' = [open EXCEPT ![c] = FALSE]
           \/ \E i \in Client : HeartbeatDrop(i)
           \/ UNCHANGED open
BY DEF Next, TaskStep, Frame, Heartbeat, OnlineSnapshot, OfflineSnapshot,
       OnlineSend, OfflineSend, OnlineDone, OfflineDone, ReadSubscribe,
       ReadUnsubscribe, DecodeSubscribe, DecodeUnsubscribe, BadHandshake,
       BadVersion, CheckCollision, SendError, SendOk, InsertSession, Snapshot, Send,
       SendsDone, ReadKeepalive, ReadServerBound, Decode, ApplySubscribe,
       ApplyUnsubscribe, SubscribeReply, LeaveLoop, Cleanup, Die, Vanish, Silence,
       HeartbeatSnapshot, HeartbeatLock, HeartbeatDone, taskVars, vars

(* A subscription is recorded by a session that is in its loop.            *)
LEMMA AskedInsideStep == TypeOK /\ AskedInside /\ [Next]_vars => AskedInside'
<1> SUFFICES ASSUME TypeOK, AskedInside, [Next]_vars PROVE AskedInside'
  OBVIOUS
<1>1. ASSUME NEW c \in Conn, NEW x \in Client, asked'[c][x] # "no", asked[c][x] = "no"
      PROVE  pc[c] \notin Entering
  <2>1. CASE \E d \in Conn : ApplySubscribe(d)
    BY <1>1, <2>1 DEF ApplySubscribe, TypeOK, Entering, Handshaking
  <2>2. CASE \E d \in Conn : ApplyUnsubscribe(d)
    BY <1>1, <2>2 DEF ApplyUnsubscribe, TypeOK
  <2>3. \/ \E d \in Conn : ApplySubscribe(d) \/ ApplyUnsubscribe(d)
        \/ UNCHANGED asked
    BY HubSteps DEF InsertSession, Cleanup, HeartbeatDrop
  <2>. QED BY <1>1, <2>1, <2>2, <2>3
<1>. QED BY <1>1, TaskMoves DEF AskedInside

(* What a registered connection asked for stays in the index: only its own *)
(* client's UNSUBSCRIBE and cleanups take it out, and the one is recorded, *)
(* the other ends the registration.                                        *)
LEMMA ListedStep ==
    TypeOK /\ SessionInv /\ AskedInside /\ Listed /\ [Next]_vars => Listed'
<1> SUFFICES ASSUME TypeOK, SessionInv, AskedInside, Listed, [Next]_vars,
                    NEW c \in Conn, NEW x \in Client, Watching(c, x)'
             PROVE  (Owner[c] \in subscribers_of[x])'
  BY DEF Listed
<1> USE OwnerAssumption, NoneAssumption DEF Watching, Registered
<1>0. /\ by_id \in [Client -> Conn \cup {None}]
      /\ subscribers_of \in [Client -> SUBSET Client]
      /\ my_subs \in [Client -> SUBSET Client]
      /\ asked \in [Conn -> [Client -> {"no", "yes", "left"}]]
      /\ keys \in [Conn -> SUBSET Client]
  BY DEF TypeOK, HubTypeOK
<1>1. ASSUME NEW d \in Conn, ApplySubscribe(d) PROVE (Owner[c] \in subscribers_of[x])'
  <2>1. /\ by_id' = by_id
        /\ subscribers_of[x] \subseteq subscribers_of'[x]
    BY <1>0, <1>1 DEF ApplySubscribe, add_subscriptions, sessionVars
  <2>2. CASE asked[c][x] = "yes"
    BY <2>1, <2>2 DEF Listed
  <2>3. CASE asked[c][x] # "yes"
    <3>1. c = d /\ x \in keys[d]
      BY <1>0, <1>1, <2>3 DEF ApplySubscribe
    <3>. QED BY <1>0, <1>1, <3>1 DEF ApplySubscribe, add_subscriptions
  <2>. QED BY <2>2, <2>3
<1>2. ASSUME NEW d \in Conn, ApplyUnsubscribe(d)
      PROVE  (Owner[c] \in subscribers_of[x])'
  <2>1. /\ by_id' = by_id /\ asked[c][x] = "yes"
        /\ ~(Owner[c] = Owner[d] /\ x \in keys[d])
    BY <1>0, <1>2 DEF ApplyUnsubscribe, sessionVars
  <2>2. Owner[c] \in subscribers_of[x]
    BY <2>1 DEF Listed
  <2>. QED
    BY <1>0, <1>2, <2>1, <2>2 DEF ApplyUnsubscribe, remove_subscriptions
<1>3. ASSUME NEW d \in Conn, Cleanup(d) PROVE (Owner[c] \in subscribers_of[x])'
  <2>1. by_id' = [by_id EXCEPT ![Owner[d]] = None] /\ asked' = asked
    BY <1>3 DEF Cleanup, remove
  <2>2. Owner[c] # Owner[d] /\ Owner[c] \in subscribers_of[x]
    BY <1>0, <2>1 DEF Listed
  <2>. QED BY <1>0, <1>3, <2>2 DEF Cleanup, remove_all_subscriptions
<1>4. ASSUME NEW i \in Client, HeartbeatDrop(i)
      PROVE  (Owner[c] \in subscribers_of[x])'
  BY <1>0, <1>4 DEF HeartbeatDrop, remove, Listed, subVars
<1>5. ASSUME NEW d \in Conn, InsertSession(d) PROVE (Owner[c] \in subscribers_of[x])'
  <2>1. /\ UNCHANGED <<subVars, asked>>
        /\ by_id' = [by_id EXCEPT ![Owner[d]] = d]
        /\ pc[d] \in Entering
    BY <1>5 DEF InsertSession, insert, Entering, Handshaking
  <2>2. c # d
    BY <2>1 DEF AskedInside
  <2>. QED BY <1>0, <2>1, <2>2 DEF Listed, subVars
<1>6. CASE UNCHANGED <<hubVars, asked>>
  BY <1>6 DEF hubVars, Listed
<1>. QED
  BY <1>1, <1>2, <1>3, <1>4, <1>5, <1>6, HubSteps

(* "off" is written only by a session that has left the hub.               *)
LEMMA OffFromGoneStep == TypeOK /\ OffFromGone /\ [Next]_vars => OffFromGone'
<1> SUFFICES ASSUME TypeOK, OffFromGone, [Next]_vars,
                    NEW c \in Conn, NEW x \in Client, view'[c][x] = "off"
             PROVE  \E d \in Conn : Owner[d] = x /\ pc'[d] \in Gone
  BY DEF OffFromGone
<1>1. CASE view[c][x] = "off"
  BY <1>1, TaskMoves DEF OffFromGone
<1>2. CASE view[c][x] # "off"
  <2>1. PICK d \in Conn : OfflineSend(d) /\ Owner[d] = x
    <3>1. ASSUME NEW d \in Conn, NEW xs, Told(d, xs, "on") PROVE FALSE
      BY <1>2, <3>1 DEF Told, TypeOK
    <3>2. ASSUME NEW d \in Conn, OfflineSend(d) PROVE Owner[d] = x
      <4>1. PICK t \in targets[d] : Told(t, {Owner[d]}, "off")
        BY <3>2 DEF OfflineSend, Send
      <4>. QED BY <1>2, <4>1 DEF Told, TypeOK
    <3>3. ASSUME NEW d \in Conn, OnlineSend(d) \/ SubscribeReply(d) PROVE FALSE
      BY <3>1, <3>3 DEF OnlineSend, Send, SubscribeReply, TypeOK
    <3>. QED BY <1>2, <3>2, <3>3, TellingSteps
  <2>2. pc[d] \in Gone
    BY <2>1 DEF OfflineSend, Send, Gone, Departing
  <2>. QED BY <2>1, <2>2, TaskMoves
<1>. QED BY <1>1, <1>2

(* Whoever watches an online x and was not told of it is in the snapshot x *)
(* is about to take or has taken, or in the reply being written.           *)
LEMMA ToldOrComingStep ==
    TypeOK /\ SessionInv /\ AskedInside /\ Listed /\ ToldOrComing /\ [Next]_vars
       => ToldOrComing'
<1> SUFFICES ASSUME TypeOK, SessionInv, AskedInside, Listed, ToldOrComing, [Next]_vars,
                    NEW c \in Conn, NEW x \in Client,
                    by_id'[Owner[c]] = c, asked'[c][x] = "yes", open'[c],
                    by_id'[x] # None, view'[c][x] = "none"
             PROVE  Coming(c, x)'
  BY DEF ToldOrComing, Watching, Registered, contains
<1> USE OwnerAssumption, NoneAssumption
<1> DEFINE Before == /\ by_id[Owner[c]] = c /\ asked[c][x] = "yes" /\ open[c]
                     /\ by_id[x] # None /\ view[c][x] = "none"
           Speaking == {"online_snapshot", "online_send", "subscribe_reply"}
<1>0. /\ pc \in [Conn -> PC]
      /\ by_id \in [Client -> Conn \cup {None}]
      /\ asked \in [Conn -> [Client -> {"no", "yes", "left"}]]
      /\ keys \in [Conn -> SUBSET Client]
      /\ targets \in [Conn -> SUBSET Conn]
      /\ open \in [Conn -> BOOLEAN]
      /\ view \in [Conn -> [Client -> {"none", "on", "off"}]]
  BY DEF TypeOK, HubTypeOK
<1>1. Before => /\ Coming(c, x)
                /\ by_id[x] \in Conn /\ Owner[by_id[x]] = x
                /\ Alive(by_id[x])
  BY <1>0 DEF ToldOrComing, Watching, Registered, contains, SessionInv, NoDeadSession
<1>2. ASSUME NEW e \in Conn, Before, by_id'[x] = by_id[x],
             pc[e] \notin Speaking \/ (e # c /\ e # by_id[x]),
             \A f \in Conn \ {e} : /\ pc'[f] = pc[f] /\ keys'[f] = keys[f]
                                  /\ targets'[f] = targets[f]
      PROVE  Coming(c, x)'
  BY <1>1, <1>2 DEF Coming
<1>3. view[c][x] = "none"
  <2>1. ASSUME NEW d \in Conn, NEW xs, NEW word \in {"on", "off"}, Told(d, xs, word)
        PROVE  view[c][x] = "none"
    BY <1>0, <2>1 DEF Told
  <2>2. ASSUME NEW d \in Conn, OnlineSend(d) \/ OfflineSend(d) \/ SubscribeReply(d)
        PROVE  view[c][x] = "none"
    BY <1>0, <2>1, <2>2 DEF OnlineSend, OfflineSend, Send, SubscribeReply
  <2>. QED BY <2>2, TellingSteps
<1>4. ASSUME NEW e \in Conn, ApplySubscribe(e) PROVE Coming(c, x)'
  <2>1. UNCHANGED <<by_id, open>>
    BY <1>4 DEF ApplySubscribe, sessionVars
  <2>2. CASE asked[c][x] = "yes"
    <3>1. \A f \in Conn \ {e} : /\ pc'[f] = pc[f] /\ keys'[f] = keys[f]
                               /\ targets'[f] = targets[f]
      BY <1>0, <1>4 DEF ApplySubscribe, Goto
    <3>. QED BY <1>2, <1>3, <1>4, <2>1, <2>2, <3>1 DEF ApplySubscribe
  <2>3. CASE asked[c][x] # "yes"
    <3>1. c = e /\ x \in keys[c]
      BY <1>0, <1>4, <2>3 DEF ApplySubscribe
    <3>2. x \in online_xs
      BY <2>1 DEF SessionInv, OnlineIndex, contains
    <3>3. keys' = [keys EXCEPT ![c] = keys[c] \cap online_xs]
      BY <1>4, <3>1 DEF ApplySubscribe
    <3>4. x \in keys'[c]
      BY <1>0, <3>1, <3>2, <3>3
    <3>5. pc' = [pc EXCEPT ![c] = "subscribe_reply"]
      BY <1>4, <3>1, <3>2 DEF ApplySubscribe, Goto
    <3>. QED BY <1>0, <3>4, <3>5 DEF Coming
  <2>. QED BY <2>2, <2>3
<1>5. ASSUME NEW e \in Conn, ApplyUnsubscribe(e) PROVE Coming(c, x)'
  <2>1. /\ UNCHANGED <<by_id, open>> /\ asked[c][x] = "yes"
        /\ \A f \in Conn \ {e} : /\ pc'[f] = pc[f] /\ keys'[f] = keys[f]
                                /\ targets'[f] = targets[f]
    BY <1>0, <1>5 DEF ApplyUnsubscribe, Goto, sessionVars
  <2>. QED BY <1>2, <1>3, <1>5, <2>1 DEF ApplyUnsubscribe
<1>6. ASSUME NEW e \in Conn, InsertSession(e) PROVE Coming(c, x)'
  <2>1. /\ by_id' = [by_id EXCEPT ![Owner[e]] = e] /\ UNCHANGED <<open, asked>>
        /\ pc[e] = "insert" /\ pc' = [pc EXCEPT ![e] = "online_snapshot"]
        /\ UNCHANGED <<keys, targets>>
    BY <1>6 DEF InsertSession, insert, Goto
  <2>2. c # e
    BY <2>1 DEF AskedInside, Entering, Handshaking
  <2>3. CASE x = Owner[e]
    BY <1>0, <2>1, <2>3 DEF Coming
  <2>4. CASE x # Owner[e]
    BY <1>0, <1>2, <1>3, <2>1, <2>2, <2>4
  <2>. QED BY <2>3, <2>4
<1>7. ASSUME NEW e \in Conn, Cleanup(e) PROVE Coming(c, x)'
  <2>1. /\ by_id' = [by_id EXCEPT ![Owner[e]] = None] /\ UNCHANGED <<open, asked>>
        /\ pc[e] = "cleanup" /\ pc' = [pc EXCEPT ![e] = "offline_snapshot"]
        /\ UNCHANGED <<keys, targets>>
    BY <1>7 DEF Cleanup, remove, Goto
  <2>. QED BY <1>0, <1>2, <1>3, <2>1
<1>8. ASSUME NEW i \in Client, HeartbeatDrop(i) PROVE Coming(c, x)'
  <2>1. /\ by_id' = [by_id EXCEPT ![i] = None] /\ UNCHANGED <<asked, pc, keys, targets>>
    BY <1>8 DEF HeartbeatDrop, remove
  <2>2. open[c]
    BY <1>0, <1>8 DEF HeartbeatDrop, contains
  <2>. QED BY <1>0, <1>1, <1>3, <2>1, <2>2 DEF Coming
<1>9. CASE UNCHANGED <<hubVars, asked>>
  <2>1. by_id' = by_id /\ asked' = asked
    BY <1>9 DEF hubVars
  <2>2. ASSUME NEW e \in Conn, Accept(e) PROVE Coming(c, x)'
    <3>1. c # e
      BY <2>1, <2>2 DEF Accept, AskedInside, Entering
    <3>2. open[c]
      BY <1>0, <2>2, <3>1 DEF Accept
    <3>. QED BY <1>0, <1>2, <1>3, <2>1, <2>2, <3>2 DEF Accept, Goto
  <2>3. ASSUME NEW e \in Conn, Before,
               \/ BadHandshake(e) \/ BadVersion(e) \/ CheckCollision(e)
               \/ SendError(e) \/ SendOk(e)
        PROVE  Coming(c, x)'
    BY <1>0, <1>2, <2>1, <2>3
       DEF BadHandshake, BadVersion, CheckCollision, SendError, SendOk, Goto
  <2>4. ASSUME NEW e \in Conn, NEW xs, Before,
               \/ ReadSubscribe(e, xs) \/ ReadUnsubscribe(e, xs) \/ DecodeSubscribe(e)
               \/ DecodeUnsubscribe(e) \/ LeaveLoop(e) \/ OfflineSnapshot(e)
        PROVE  Coming(c, x)'
    BY <1>0, <1>2, <2>1, <2>4
       DEF ReadSubscribe, ReadUnsubscribe, ReadServerBound, DecodeSubscribe,
           DecodeUnsubscribe, Decode, LeaveLoop, OfflineSnapshot, Snapshot, Goto
  <2>5. ASSUME NEW e \in Conn, Before, OfflineSend(e) \/ OfflineDone(e)
        PROVE  Coming(c, x)'
    BY <1>0, <1>2, <2>1, <2>5 DEF OfflineSend, Send, OfflineDone, SendsDone, Goto
  <2>6. ASSUME NEW e \in Conn, Before, Die(e) PROVE Coming(c, x)'
    <3>1. e # c /\ e # by_id[x]
      BY <2>6 DEF Die, SessionInv, AbortedGone
    <3>. QED BY <1>0, <1>2, <2>1, <2>6, <3>1 DEF Die, Goto
  <2>7. ASSUME NEW e \in Conn, Before, OnlineSnapshot(e) PROVE Coming(c, x)'
    <3>1. pc' = [pc EXCEPT ![e] = "online_send"] /\ keys' = keys
          /\ targets' = [targets EXCEPT ![e] = subscribers_targets(Owner[e])]
          /\ pc[e] = "online_snapshot"
      BY <2>7 DEF OnlineSnapshot, Snapshot, Goto
    <3>2. CASE e = by_id[x]
      <4>1. Owner[e] = x /\ Owner[c] \in subscribers_of[x]
        BY <1>1, <2>7, <3>2 DEF Listed, Watching, Registered
      <4>2. by_id[Owner[c]] \in subscribers_targets(x)
        BY <1>0, <2>7, <4>1 DEF subscribers_targets, contains
      <4>. QED BY <1>0, <2>1, <2>7, <3>1, <3>2, <4>1, <4>2 DEF Coming
    <3>3. CASE e # by_id[x]
      BY <1>0, <1>1, <2>1, <2>7, <3>1, <3>3 DEF Coming
    <3>. QED BY <3>2, <3>3
  <2>8. ASSUME NEW e \in Conn, Before, OnlineSend(e) PROVE Coming(c, x)'
    <3>1. PICK t \in targets[e] : /\ targets' = [targets EXCEPT ![e] = @ \ {t}]
                                  /\ Told(t, {Owner[e]}, "on")
      BY <2>8 DEF OnlineSend, Send
    <3>2. UNCHANGED <<pc, keys, open>>
      BY <2>8 DEF OnlineSend, Send
    <3>3. e = by_id[x] => t # c
      BY <1>0, <1>1, <2>8, <3>1 DEF Told
    <3>. QED BY <1>0, <1>1, <2>1, <2>8, <3>1, <3>2, <3>3 DEF Coming
  <2>9. ASSUME NEW e \in Conn, Before, OnlineDone(e) PROVE Coming(c, x)'
    <3>1. /\ pc[e] = "online_send" /\ targets[e] = {}
          /\ pc' = [pc EXCEPT ![e] = "loop"] /\ UNCHANGED <<keys, targets>>
      BY <2>9 DEF OnlineDone, SendsDone, Goto
    <3>. QED BY <1>0, <1>1, <2>1, <2>9, <3>1 DEF Coming
  <2>10. ASSUME NEW e \in Conn, Before, SubscribeReply(e) PROVE Coming(c, x)'
    <3>1. /\ pc[e] = "subscribe_reply" /\ pc' = [pc EXCEPT ![e] = "loop"]
          /\ keys' = [keys EXCEPT ![e] = {}] /\ targets' = targets
          /\ Told(e, keys[e], "on")
      BY <2>10 DEF SubscribeReply, Goto
    <3>2. e = c => x \notin keys[c]
      BY <1>0, <2>10, <3>1 DEF Told
    <3>. QED BY <1>0, <1>1, <2>1, <2>10, <3>1, <3>2 DEF Coming
  <2>11. ASSUME Before, UNCHANGED <<pc, keys, targets>> PROVE Coming(c, x)'
    BY <1>1, <2>1, <2>11 DEF Coming
  <2>12. \/ Before
         \/ \E e \in Conn : Accept(e)
         \/ \E i \in Client : HeartbeatDrop(i)
    BY <1>0, <1>3, <2>1, OpenSteps
  <2>13. ASSUME \/ \E e \in Conn : ReadKeepalive(e) \/ Vanish(e)
                \/ \E i \in Client : Silence(i)
                \/ HeartbeatSnapshot \/ HeartbeatLock \/ HeartbeatDone
                \/ UNCHANGED vars
         PROVE  UNCHANGED <<pc, keys, targets>>
    BY <2>13 DEF ReadKeepalive, Vanish, Silence, HeartbeatSnapshot, HeartbeatLock,
                 HeartbeatDone, taskVars, vars
  <2>. QED
    BY <1>4, <1>5, <1>6, <1>7, <1>8, <2>2, <2>3, <2>4, <2>5, <2>6, <2>7, <2>8, <2>9,
       <2>10, <2>11, <2>12, <2>13 DEF Next, TaskStep, Frame, Heartbeat
<1>. QED BY <1>4, <1>5, <1>6, <1>7, <1>8, <1>9, HubSteps

(* The two go together: a reply is computed in the section that enters the *)
(* subscription, a snapshot in one that follows the session's entry, so    *)
(* whichever of the two is second sees the other.                          *)
LEMMA PresenceTold == Spec => [](NoMissedOnline /\ ArrivalKnown)
<1>1. Init => PresenceInv
  BY DEF Init, PresenceInv, AskedInside, Listed, ToldOrComing, OffFromGone, Watching
<1>2. TypeOK /\ SessionInv /\ PresenceInv /\ [Next]_vars => PresenceInv'
  BY AskedInsideStep, ListedStep, ToldOrComingStep, OffFromGoneStep DEF PresenceInv
<1>3. TypeOK /\ SessionInv /\ PresenceInv => NoMissedOnline
  BY DEF PresenceInv, ToldOrComing, NoMissedOnline, Watching, Coming
<1>4. TypeOK /\ SessionInv /\ PresenceInv => ArrivalKnown
  <2> SUFFICES ASSUME TypeOK, SessionInv, PresenceInv, NEW c \in Conn, NEW x \in Client,
                      Registered(c), open[c], asked[c][x] = "yes",
                      OneConnection(x), Settled(c, x), is_x_online(x)
               PROVE  view[c][x] = "on"
    BY DEF ArrivalKnown
  <2>1. /\ contains(x) /\ by_id[x] \in Conn /\ Owner[by_id[x]] = x
        /\ pc[by_id[x]] \in Established \cup Closing
    BY DEF SessionInv, OnlineIndex, NoDeadSession, Alive, is_x_online, contains,
           TypeOK, HubTypeOK
  <2>2. view[c][x] # "none"
    BY <2>1 DEF PresenceInv, ToldOrComing, Watching, Coming, Settled
  <2>3. view[c][x] # "off"
    <3>1. SUFFICES ASSUME NEW d \in Conn, Owner[d] = x, pc[d] \in Gone PROVE FALSE
      BY DEF PresenceInv, OffFromGone
    <3>2. by_id[x] = d
      BY <2>1, <3>1 DEF OneConnection, Gone, Departing, Ended, Established, Closing
    <3>. QED BY <2>1, <3>1, <3>2 DEF Gone, Departing, Ended, Established, Closing
  <2>. QED BY <2>2, <2>3 DEF TypeOK
<1>. QED
  BY <1>1, <1>2, <1>3, <1>4, TypeCorrect, SessionsAlive, PTL DEF Spec, SessionInv

(* A subscriber misses no arrival: of a peer that is in the hub, and whose *)
(* connection has told everybody, it was told, by the reply to its         *)
(* SUBSCRIBE or by the peer's broadcast (handlers_ws.rs:347, 478).         *)
THEOREM ArrivalsTold == Spec => []NoMissedOnline
<1>. QED BY PresenceTold, PTL

(* Of a peer with one connection, what the subscriber heard last is true.  *)
THEOREM ArrivalsKnown == Spec => []ArrivalKnown
<1>. QED BY PresenceTold, PTL
=============================================================================
