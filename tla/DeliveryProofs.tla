--------------------------- MODULE DeliveryProofs ---------------------------
(***************************************************************************)
(* Theorems about Delivery, for any messages, any number of functions      *)
(* under way, copies and faults.  The outbox is emptied by two kinds of    *)
(* function only, and each carries its reason with it from the frame or    *)
(* the click that started it: the recipient has stored the message, or     *)
(* another contact, left a copy by mistake, has; or the user has deleted   *)
(* it.  None of these ever ceases to hold.                                 *)
(***************************************************************************)
EXTENDS Delivery, TLAPS

Copies == [Msg -> {"none", "left", "held"}]

\* The shape of what the reasons are read from.
Shape ==
    /\ messages \in [Msg -> {"none", "pending", "sent", "delivered", "read"}]
    /\ at \in [Task -> Steps]
    /\ on \in [Task -> Msg \cup {None}]
    /\ elsewhere \in Copies

\* Who acknowledges a message has it.
Held == stored \cup Misdelivered

AckReason  == \A m \in Msg, s \in {"delivered", "read"} : <<m, s>> \in acks => m \in Held
DropReason ==
    \A k \in Task : at[k] \in {"put_delivered", "put_read", "drop"} => on[k] \in Held
DeleteReason ==
    \A k \in Task : at[k] \in {"del_message", "del_outbox"} => on[k] \in deleted

Reasons == Shape /\ AckReason /\ DropReason /\ DeleteReason
Inv == Reasons /\ OutboxHolds /\ TicksHonest

\* A task has a message exactly when it is neither idle nor between two
\* messages of its list.
Busy ==
    /\ todo \in [Task -> SUBSET Msg]
    /\ \A k \in Task : on[k] = None <=> at[k] \in {"idle", "flush"}
    /\ outbox \in SUBSET Msg /\ queued \in SUBSET Msg /\ deleted \in SUBSET Msg

LEMMA InvInit == Init => Inv
BY DEF Init, Inv, Reasons, Shape, Steps, AckReason, DropReason, DeleteReason,
       OutboxHolds, TicksHonest, Copies, Held, Misdelivered

-----------------------------------------------------------------------------
(* Copies in other hands: once held, always held.                          *)

LEMMA HeldSame == ASSUME UNCHANGED <<stored, elsewhere>> PROVE Held' = Held
BY DEF Held, Misdelivered

LEMMA HeldLeft ==
    ASSUME elsewhere \in Copies, NEW m \in Msg, LeaveElsewhere(m), UNCHANGED stored
    PROVE  Held' = Held /\ elsewhere' \in Copies
BY DEF Held, Misdelivered, LeaveElsewhere, Copies

-----------------------------------------------------------------------------
(* A task's step: at and on change at one task.                            *)

LEMMA GotoReasons ==
    ASSUME Reasons, NEW k \in Task, NEW step \in Steps, NEW m \in Msg \cup {None},
           Goto(k, step, m),
           Held \in SUBSET Held', deleted \in SUBSET deleted',
           step \in {"put_delivered", "put_read", "drop"} => m \in Held',
           step \in {"del_message", "del_outbox"} => m \in deleted'
    PROVE  /\ at' \in [Task -> Steps] /\ on' \in [Task -> Msg \cup {None}]
           /\ DropReason' /\ DeleteReason'
BY DEF Reasons, Shape, DropReason, DeleteReason, Goto

\* What a step leaves alone when it touches no row, no task and no ack.
LEMMA QuietStep ==
    ASSUME Inv, UNCHANGED <<tasks, messages>>,
           outbox \in SUBSET outbox', Held \in SUBSET Held', UNCHANGED history,
           elsewhere' \in Copies,
           \A m \in Msg, s \in {"delivered", "read"} :
              <<m, s>> \in acks' => <<m, s>> \in acks \/ m \in Held'
    PROVE  Inv'
BY DEF Inv, Reasons, Shape, AckReason, DropReason, DeleteReason, OutboxHolds, TicksHonest,
       Held, tasks, history

\* What a step of task k needs, when it writes no "delivered" or "read".
LEMMA TaskStep ==
    ASSUME Inv, NEW k \in Task, NEW step \in Steps, NEW m \in Msg \cup {None},
           Goto(k, step, m),
           step \in {"put_delivered", "put_read", "drop"} => m \in Held,
           step \in {"del_message", "del_outbox"} => m \in deleted',
           messages' \in [Msg -> {"none", "pending", "sent", "delivered", "read"}],
           \A n \in Msg : messages'[n] \in {"delivered", "read"} => n \in Held,
           UNCHANGED Held, acks' \in SUBSET acks,
           deleted \in SUBSET deleted',
           elsewhere' \in Copies, OutboxHolds'
    PROVE  Inv'
<1>1. /\ at' \in [Task -> Steps] /\ on' \in [Task -> Msg \cup {None}]
      /\ DropReason' /\ DeleteReason'
  BY GotoReasons DEF Inv
<1>2. AckReason'
  BY DEF Inv, Reasons, AckReason
<1> QED BY <1>1, <1>2 DEF Inv, Reasons, Shape, TicksHonest, Held

-----------------------------------------------------------------------------
LEMMA EventStep == ASSUME Inv, NEW k \in Task, Event(k) PROVE Inv'
<1>0. UNCHANGED <<stored, elsewhere>> /\ Held' = Held /\ elsewhere' \in Copies
  BY HeldSame DEF Event, PeerOnline, OtherOnline, Compose, Delete, OnAck, remote, other,
                  Inv, Reasons, Shape
<1>1. CASE PeerOnline(k) \/ OtherOnline(k)
  <2>0. UNCHANGED <<messages, outbox, acks, queued, deleted>>
    BY <1>1 DEF PeerOnline, OtherOnline, db, wire, history
  <2>1. CASE UNCHANGED tasks
    BY <1>0, <2>0, <2>1, QuietStep DEF history
  <2>2. CASE Goto(k, "flush", None)
    <3>1. OutboxHolds'
      BY <1>0, <2>0 DEF Inv, OutboxHolds, Held
    <3> QED BY <1>0, <2>0, <2>2, <3>1, TaskStep DEF Steps, Inv, Reasons, Shape, TicksHonest, Held
  <2> QED BY <1>1, <2>1, <2>2 DEF PeerOnline, OtherOnline
<1>2. ASSUME NEW m \in Msg, Compose(k, m) PROVE Inv'
  <2>1. OutboxHolds'
    BY <1>0, <1>2 DEF Compose, history, Inv, OutboxHolds, Held
  <2>2. messages' \in [Msg -> {"none", "pending", "sent", "delivered", "read"}]
        /\ \A n \in Msg : messages'[n] \in {"delivered", "read"} => n \in Held
    BY <1>2 DEF Compose, Status, Inv, Reasons, Shape, TicksHonest, Held
  <2> QED BY <1>0, <1>2, <2>1, <2>2, TaskStep DEF Compose, history, wire, Steps
<1>3. ASSUME NEW m \in Msg, Delete(k, m) PROVE Inv'
  <2>1. OutboxHolds'
    BY <1>0, <1>3 DEF Delete, db, Inv, OutboxHolds, Held
  <2>2. messages' \in [Msg -> {"none", "pending", "sent", "delivered", "read"}]
        /\ \A n \in Msg : messages'[n] \in {"delivered", "read"} => n \in Held
    BY <1>3 DEF Delete, db, Inv, Reasons, Shape, TicksHonest, Held
  <2> QED BY <1>0, <1>3, <2>1, <2>2, TaskStep DEF Delete, wire, Steps
<1>4. ASSUME NEW m \in Msg, NEW s \in {"delivered", "read"}, OnAck(k, m, s) PROVE Inv'
  <2>1. m \in Held /\ UNCHANGED <<messages, outbox, queued, deleted>>
        /\ acks' \in SUBSET acks
    BY <1>4 DEF OnAck, Inv, Reasons, AckReason, db, history
  <2>2. CASE messages[m] # "none"
    <3>1. OutboxHolds'
      BY <1>0, <2>1 DEF Inv, OutboxHolds, Held
    <3>2. PICK step \in {"put_delivered", "put_read"} : Goto(k, step, m)
      BY <1>4, <2>2 DEF OnAck
    <3> QED BY <1>0, <2>1, <3>1, <3>2, TaskStep DEF Steps, Inv, Reasons, Shape, TicksHonest, Held
  <2>3. CASE messages[m] = "none"
    BY <1>0, <1>4, <2>1, <2>3, QuietStep DEF OnAck, tasks, history
  <2> QED BY <2>2, <2>3
<1> QED BY <1>1, <1>2, <1>3, <1>4 DEF Event

\* A continuation changes neither what the contacts hold nor what was deleted.
LEMMA ContinueKeeps ==
    ASSUME Inv, Busy, NEW k \in Task, Continue(k)
    PROVE  UNCHANGED <<acks, deleted>> /\ Held' = Held /\ elsewhere' \in Copies
<1>1. UNCHANGED <<stored, acks, deleted>>
  BY DEF Continue, AddOutbox, PutSent, MailboxStore, Touch, PutFlush, PutAcked, Drop,
         DelMessage, DelOutbox, FlushSend, FlushBreak, remote, wire, history
<1>2. elsewhere \in Copies
  BY DEF Inv, Reasons, Shape
<1>3. CASE UNCHANGED elsewhere
  BY <1>1, <1>2, <1>3, HeldSame
<1>4. CASE MailboxStore(k)
  <2>1. on[k] \in Msg
    BY <1>4 DEF MailboxStore, Inv, Reasons, Shape, Busy
  <2> QED BY <1>1, <1>2, <1>3, <1>4, <2>1, HeldLeft DEF MailboxStore
<1>5. ASSUME NEW m \in Msg, FlushSend(k, m) PROVE Held' = Held /\ elsewhere' \in Copies
  BY <1>1, <1>2, <1>3, <1>5, HeldLeft DEF FlushSend
<1>6. ASSUME NEW m \in Msg, FlushBreak(k, m) PROVE UNCHANGED elsewhere
  BY <1>6 DEF FlushBreak, other
<1> QED BY <1>1, <1>3, <1>4, <1>5, <1>6
        DEF Continue, AddOutbox, PutSent, Touch, PutFlush, PutAcked, Drop, DelMessage,
            DelOutbox, other

\* End and Goto, as TaskStep takes them.
LEMMA EndGoes == ASSUME NEW k \in Task, End(k) PROVE Goto(k, "idle", None)
BY DEF End

LEMMA ContinueStep == ASSUME Inv, Busy, NEW k \in Task, Continue(k) PROVE Inv'
<1> DEFINE Rows == /\ messages' \in [Msg -> {"none", "pending", "sent", "delivered", "read"}]
                   /\ \A n \in Msg : messages'[n] \in {"delivered", "read"} => n \in Held
<1>0. UNCHANGED <<acks, deleted>> /\ Held' = Held /\ elsewhere' \in Copies
      /\ Shape /\ DropReason /\ DeleteReason
  BY ContinueKeeps DEF Inv, Reasons
<1>1. ASSUME NEW step \in Steps \ {"put_delivered", "put_read", "drop", "del_message", "del_outbox"},
             NEW m \in Msg \cup {None}, Goto(k, step, m), Rows, OutboxHolds'
      PROVE  Inv'
  BY <1>0, <1>1, TaskStep
<1>2. UNCHANGED messages => Rows
  BY DEF Inv, Reasons, Shape, TicksHonest, Held
<1>3. outbox \in SUBSET outbox' /\ UNCHANGED queued => OutboxHolds'
  BY <1>0 DEF Inv, OutboxHolds, Held
<1>4. on[k] \in Msg \cup {None}
  BY <1>0 DEF Shape
<1>5. CASE AddOutbox(k)
  <2>1. OutboxHolds'
    BY <1>0, <1>5 DEF AddOutbox, Inv, OutboxHolds, Held
  <2>2. Rows
    BY <1>2, <1>5 DEF AddOutbox
  <2>3. \/ Goto(k, "put_sent", on[k])
        \/ Goto(k, "idle", None)
    BY <1>5, EndGoes DEF AddOutbox
  <2> QED BY <1>1, <1>4, <2>1, <2>2, <2>3 DEF Steps
<1>6. CASE PutSent(k)
  <2>1. OutboxHolds'
    BY <1>3, <1>6 DEF PutSent, history
  <2>2. Rows
    BY <1>0, <1>6 DEF PutSent, Status, Shape, Inv, TicksHonest, Held
  <2>3. PICK step \in {"store", "store_other", "idle"} :
             Goto(k, step, on[k]) \/ Goto(k, step, None)
    BY <1>6, EndGoes DEF PutSent
  <2> QED BY <1>1, <1>4, <2>1, <2>2, <2>3 DEF Steps
<1>7. CASE MailboxStore(k)
  <2>1. OutboxHolds' /\ Rows
    BY <1>2, <1>3, <1>7 DEF MailboxStore, db, history
  <2>2. Goto(k, "touch", on[k]) \/ Goto(k, "idle", None)
    BY <1>7, EndGoes DEF MailboxStore
  <2> QED BY <1>1, <1>4, <2>1, <2>2 DEF Steps
<1>8. CASE Touch(k)
  <2>1. OutboxHolds' /\ Rows
    BY <1>2, <1>3, <1>8 DEF Touch, history
  <2> QED BY <1>1, <1>8, <2>1, EndGoes DEF Touch, Steps
<1>9. CASE PutFlush(k)
  <2>1. OutboxHolds'
    BY <1>3, <1>9 DEF PutFlush, history
  <2>2. Rows
    BY <1>0, <1>9 DEF PutFlush, Status, Shape, Inv, TicksHonest, Held
  <2>3. Goto(k, "flush", None) \/ Goto(k, "idle", None)
    BY <1>9, EndGoes DEF PutFlush
  <2> QED BY <1>1, <2>1, <2>2, <2>3 DEF Steps
<1>10. CASE PutAcked(k)
  <2>1. OutboxHolds'
    BY <1>3, <1>10 DEF PutAcked, history
  <2>2. on[k] \in Held
    BY <1>0, <1>10 DEF PutAcked, DropReason
  <2>3. Rows
    BY <1>0, <1>10, <2>2 DEF PutAcked, Status, Shape, Inv, TicksHonest, Held
  <2>4. Goto(k, "drop", on[k])
    BY <1>10 DEF PutAcked
  <2> QED BY <1>0, <1>4, <2>1, <2>2, <2>3, <2>4, TaskStep DEF Steps
<1>11. CASE Drop(k)
  <2>1. on[k] \in Held
    BY <1>0, <1>11 DEF Drop, DropReason
  <2>2. OutboxHolds'
    BY <1>0, <1>11, <2>1 DEF Drop, history, Inv, OutboxHolds, Held
  <2>3. Rows
    BY <1>2, <1>11 DEF Drop
  <2> QED BY <1>1, <1>11, <2>2, <2>3, EndGoes DEF Drop, Steps
<1>12. CASE DelMessage(k)
  <2>1. OutboxHolds'
    BY <1>3, <1>12 DEF DelMessage, history
  <2>2. on[k] \in deleted
    BY <1>0, <1>12 DEF DelMessage, DeleteReason
  <2>3. Rows
    BY <1>0, <1>12 DEF DelMessage, Status, Shape, Inv, TicksHonest, Held
  <2>4. Goto(k, "del_outbox", on[k])
    BY <1>12 DEF DelMessage
  <2> QED BY <1>0, <1>4, <2>1, <2>2, <2>3, <2>4, TaskStep DEF Steps
<1>13. CASE DelOutbox(k)
  <2>1. on[k] \in deleted
    BY <1>0, <1>13 DEF DelOutbox, DeleteReason
  <2>2. OutboxHolds'
    BY <1>0, <1>13, <2>1 DEF DelOutbox, history, Inv, OutboxHolds, Held
  <2>3. Rows
    BY <1>2, <1>13 DEF DelOutbox
  <2> QED BY <1>1, <1>13, <2>2, <2>3, EndGoes DEF DelOutbox, Steps
<1>14. ASSUME NEW m \in Msg, FlushSend(k, m) PROVE Inv'
  <2>1. OutboxHolds' /\ Rows
    BY <1>2, <1>3, <1>14 DEF FlushSend, db, history
  <2>2. CASE UNCHANGED <<at, on>>
    BY <1>0, <2>1, <2>2
    DEF Inv, Reasons, Shape, AckReason, DropReason, DeleteReason, TicksHonest, Held
  <2>3. CASE Goto(k, "put_flush", m) \/ Goto(k, "idle", None)
    BY <1>1, <2>1, <2>3 DEF Steps
  <2> QED BY <1>14, <2>2, <2>3, EndGoes DEF FlushSend
<1>15. ASSUME NEW m \in Msg, FlushBreak(k, m) PROVE Inv'
  <2>1. OutboxHolds' /\ Rows
    BY <1>2, <1>3, <1>15 DEF FlushBreak, db, history
  <2>2. Goto(k, "touch", m) \/ Goto(k, "idle", None)
    BY <1>15, EndGoes DEF FlushBreak
  <2> QED BY <1>1, <2>1, <2>2 DEF Steps
<1> QED
  BY <1>5, <1>6, <1>7, <1>8, <1>9, <1>10, <1>11, <1>12, <1>13, <1>14, <1>15 DEF Continue

-----------------------------------------------------------------------------
LEMMA RecipientStep == ASSUME Inv, NEW m \in Msg, Recipient(m) PROVE Inv'
<1>1. UNCHANGED <<tasks, db, history, elsewhere>> /\ elsewhere \in Copies
  BY DEF Recipient, OnText, OnMailboxDelivery, Save, Read, other, Inv, Reasons, Shape
<1>0. stored' \in {stored, stored \cup {m}} => Held \in SUBSET Held'
  BY <1>1 DEF Held, Misdelivered
<1>2. ASSUME NEW s \in {"delivered", "read"}, SendAck(m, s), m \in stored'
      PROVE  \A n \in Msg, u \in {"delivered", "read"} :
                <<n, u>> \in acks' => <<n, u>> \in acks \/ n \in Held'
  BY <1>2 DEF SendAck, Held
<1>3. CASE OnText(m) \/ OnMailboxDelivery(m)
  <2>1. UNCHANGED stored /\ Arrive(m)
    BY <1>3 DEF OnText, OnMailboxDelivery
  <2>2. UNCHANGED acks \/ (m \in stored /\ SendAck(m, "delivered"))
    BY <2>1 DEF Arrive
  <2> QED BY <1>0, <1>1, <1>2, <2>1, <2>2, QuietStep DEF db
<1>4. CASE Save(m)
  BY <1>0, <1>1, <1>2, <1>4, QuietStep DEF Save, db
<1>5. CASE Read(m)
  BY <1>0, <1>1, <1>2, <1>5, QuietStep DEF Read, db
<1> QED BY <1>3, <1>4, <1>5 DEF Recipient

\* The other contact acknowledges what it has.
LEMMA ElsewhereStep == ASSUME Inv, NEW m \in Msg, Other(m) PROVE Inv'
<1>1. UNCHANGED <<tasks, db, history, stored>> /\ elsewhere \in Copies
  BY DEF Other, OtherStores, OtherReads, remote, Inv, Reasons, Shape
<1>2. elsewhere' \in Copies /\ Held \in SUBSET Held' /\ m \in Held'
  BY <1>1 DEF Other, OtherStores, OtherReads, other, Held, Misdelivered, Copies
<1>3. \A n \in Msg, s \in {"delivered", "read"} :
         <<n, s>> \in acks' => <<n, s>> \in acks \/ n = m
  BY DEF Other, OtherStores, OtherReads
<1> QED BY <1>1, <1>2, <1>3, QuietStep DEF db

LEMMA OtherStep ==
    ASSUME Inv,
           \/ \E m \in Msg : deliveryWatchdog(m)
           \/ PeerOffline \/ OnIntro \/ Connect \/ RecipientConnects
           \/ Disconnect \/ RecipientDisconnects \/ RecipientReloads
           \/ UNCHANGED vars
    PROVE  Inv'
<1>1. UNCHANGED <<tasks, db, history, stored, elsewhere>> /\ acks' \in SUBSET acks
  BY DEF deliveryWatchdog, PeerOffline, OnIntro, Connect, RecipientConnects, Disconnect,
         RecipientDisconnects, RecipientReloads, Lossy, vars, wire, remote, other
<1> QED BY <1>1, HeldSame, QuietStep DEF db, Inv, Reasons, Shape

LEMMA ReloadStep == ASSUME Inv, Reload PROVE Inv'
<1>1. UNCHANGED <<messages, outbox, queued, deleted, elsewhere>> /\ acks' \in SUBSET acks
      /\ Held' = Held
  BY HeldSame DEF Reload, db, remote, other, history, Lossy
<1>2. at' = [k \in Task |-> "idle"] /\ on' = [k \in Task |-> None]
  BY DEF Reload
<1>3. Shape' /\ DropReason' /\ DeleteReason'
  BY <1>1, <1>2 DEF Inv, Reasons, Shape, Steps, DropReason, DeleteReason
<1> QED BY <1>1, <1>3 DEF Inv, Reasons, AckReason, OutboxHolds, TicksHonest, Held

(* Types in full.                                                          *)

Wired ==
    /\ watch \in [Msg -> {"none", "armed", "retried", "idle"}]
    /\ peerOnline \in BOOLEAN /\ senderUp \in BOOLEAN /\ due \in BOOLEAN
    /\ intro \in BOOLEAN
    /\ texts \in [Msg -> 0..MaxCopies]
    /\ acks \in SUBSET (Msg \X {"delivered", "read"})
    /\ mailbox \in SUBSET Msg
    /\ recipientUp \in BOOLEAN /\ knows \in BOOLEAN
    /\ saving \in [Msg -> Nat]
    /\ stored \in SUBSET Msg /\ readAcked \in SUBSET Msg
    /\ misfiled \in SUBSET Msg
    /\ faults \in 0..MaxFaults

LEMMA BusyGoto ==
    ASSUME Inv, Busy, NEW k \in Task, NEW step, NEW m, Goto(k, step, m),
           m = None <=> step \in {"idle", "flush"}
    PROVE  \A j \in Task : on'[j] = None <=> at'[j] \in {"idle", "flush"}
BY DEF Inv, Reasons, Shape, Busy, Goto

LEMMA BusyEnd ==
    ASSUME Inv, Busy, NEW k \in Task, End(k)
    PROVE  /\ todo' \in [Task -> SUBSET Msg]
           /\ \A j \in Task : on'[j] = None <=> at'[j] \in {"idle", "flush"}
<1>1. todo' \in [Task -> SUBSET Msg]
  BY DEF Busy, End
<1>. QED BY <1>1, BusyGoto, EndGoes

LEMMA BusyEvent == ASSUME Inv, Busy, NEW k \in Task, Event(k) PROVE Busy'
<1> USE NoneAssumption
<1>1. CASE PeerOnline(k) \/ OtherOnline(k)
  <2> DEFINE pending(own) == {m \in own : messages[m] # "none"}
  <2>1. UNCHANGED <<outbox, queued, deleted>>
    BY <1>1 DEF PeerOnline, OtherOnline, db, history
  <2>2. CASE UNCHANGED tasks
    BY <2>1, <2>2 DEF tasks, Busy
  <2>3. ASSUME NEW own \in SUBSET outbox,
               Goto(k, "flush", None), todo' = [todo EXCEPT ![k] = pending(own)]
        PROVE  Busy'
    <3>1. todo' \in [Task -> SUBSET Msg]
      BY <2>3 DEF Busy
    <3>. QED BY <2>1, <2>3, <3>1, BusyGoto DEF Busy
  <2>4. CASE PeerOnline(k)
    BY <2>2, <2>3, <2>4 DEF PeerOnline
  <2>5. CASE OtherOnline(k)
    BY <2>3, <2>5 DEF OtherOnline
  <2>. QED BY <1>1, <2>4, <2>5
<1>2. ASSUME NEW m \in Msg, Compose(k, m) PROVE Busy'
  BY <1>2, BusyGoto DEF Compose, history, Busy
<1>3. ASSUME NEW m \in Msg, Delete(k, m) PROVE Busy'
  BY <1>3, BusyGoto DEF Delete, db, Busy
<1>4. ASSUME NEW m \in Msg, NEW s \in {"delivered", "read"}, OnAck(k, m, s) PROVE Busy'
  <2>1. UNCHANGED <<outbox, queued, deleted, todo>>
    BY <1>4 DEF OnAck, db, history
  <2>2. CASE UNCHANGED <<at, on>>
    BY <2>1, <2>2 DEF Busy
  <2>3. CASE Goto(k, IF s = "delivered" THEN "put_delivered" ELSE "put_read", m)
    BY <2>1, <2>3, BusyGoto DEF Busy
  <2>. QED BY <1>4, <2>2, <2>3 DEF OnAck
<1>. QED BY <1>1, <1>2, <1>3, <1>4 DEF Event

LEMMA BusyContinue == ASSUME Inv, Busy, NEW k \in Task, Continue(k) PROVE Busy'
<1> DEFINE Rows == /\ outbox' \in SUBSET Msg /\ queued' \in SUBSET Msg
                   /\ deleted' \in SUBSET Msg
<1>1. on[k] \in Msg \cup {None} /\ (at[k] \notin {"idle", "flush"} => on[k] \in Msg)
  BY DEF Inv, Reasons, Shape, Busy
<1>2. ASSUME Rows, End(k) PROVE Busy'
  BY <1>2, BusyEnd DEF Busy
<1>3. ASSUME Rows, UNCHANGED todo, NEW step, NEW m \in Msg, Goto(k, step, m),
             step \notin {"idle", "flush"}
      PROVE  Busy'
  <2>1. \A j \in Task : on'[j] = None <=> at'[j] \in {"idle", "flush"}
    BY <1>3, BusyGoto, NoneAssumption
  <2>. QED BY <1>3, <2>1 DEF Busy
<1>4. UNCHANGED <<outbox, queued, deleted>> => Rows
  BY DEF Busy
<1>5. CASE AddOutbox(k)
  <2>1. Rows
    BY <1>1, <1>5 DEF AddOutbox, Busy
  <2>2. End(k) \/ (Goto(k, "put_sent", on[k]) /\ UNCHANGED todo)
    BY <1>5 DEF AddOutbox
  <2>. QED BY <1>1, <1>2, <1>3, <1>5, <2>1, <2>2 DEF AddOutbox
<1>6. CASE PutSent(k)
  <2>1. Rows
    BY <1>4, <1>6 DEF PutSent, history
  <2>2. End(k) \/ \E step \in {"store", "store_other"} : Goto(k, step, on[k]) /\ UNCHANGED todo
    BY <1>6 DEF PutSent
  <2>. QED BY <1>1, <1>2, <1>3, <1>6, <2>1, <2>2 DEF PutSent
<1>7. CASE MailboxStore(k)
  <2>1. Rows
    BY <1>4, <1>7 DEF MailboxStore, db, history
  <2>2. End(k) \/ (Goto(k, "touch", on[k]) /\ UNCHANGED todo)
    BY <1>7 DEF MailboxStore
  <2>. QED BY <1>1, <1>2, <1>3, <1>7, <2>1, <2>2 DEF MailboxStore
<1>8. CASE Touch(k)
  BY <1>1, <1>2, <1>8 DEF Touch, history, Busy
<1>9. CASE PutFlush(k)
  <2>1. Rows
    BY <1>4, <1>9 DEF PutFlush, history
  <2>2. CASE Goto(k, "flush", None) /\ UNCHANGED todo
    BY <2>1, <2>2, BusyGoto DEF Busy
  <2>. QED BY <1>2, <1>9, <2>1, <2>2 DEF PutFlush
<1>10. CASE PutAcked(k)
  BY <1>1, <1>3, <1>4, <1>10 DEF PutAcked, history
<1>11. CASE Drop(k)
  BY <1>2, <1>11 DEF Drop, history, Busy
<1>12. CASE DelMessage(k)
  BY <1>1, <1>3, <1>4, <1>12 DEF DelMessage, history
<1>13. CASE DelOutbox(k)
  BY <1>2, <1>13 DEF DelOutbox, history, Busy
<1>14. ASSUME NEW m \in Msg, FlushSend(k, m) PROVE Busy'
  <2>1. Rows
    BY <1>4, <1>14 DEF FlushSend, db, history
  <2>2. CASE todo' = [todo EXCEPT ![k] = @ \ {m}]
    <3>1. todo' \in [Task -> SUBSET Msg]
      BY <2>2 DEF Busy
    <3>2. CASE UNCHANGED <<at, on>>
      BY <2>1, <3>1, <3>2 DEF Busy
    <3>3. CASE Goto(k, "put_flush", m)
      BY <2>1, <3>1, <3>3, BusyGoto, NoneAssumption DEF Busy
    <3>4. CASE End(k)
      BY <1>2, <2>1, <3>4
    <3>. QED BY <1>14, <3>2, <3>3, <3>4 DEF FlushSend
  <2>. QED BY <1>2, <1>14, <2>1, <2>2 DEF FlushSend
<1>15. ASSUME NEW m \in Msg, FlushBreak(k, m) PROVE Busy'
  <2>1. Rows
    BY <1>4, <1>15 DEF FlushBreak, db, history
  <2>2. CASE Goto(k, "touch", m) /\ todo' = [todo EXCEPT ![k] = {}]
    <3>1. todo' \in [Task -> SUBSET Msg]
      BY <2>2 DEF Busy
    <3>. QED BY <2>1, <2>2, <3>1, BusyGoto, NoneAssumption DEF Busy
  <2>. QED BY <1>2, <1>15, <2>1, <2>2 DEF FlushBreak
<1>. QED
  BY <1>5, <1>6, <1>7, <1>8, <1>9, <1>10, <1>11, <1>12, <1>13, <1>14, <1>15 DEF Continue

LEMMA BusyStep == Inv /\ Busy /\ [Next]_vars => Busy'
<1> SUFFICES ASSUME Inv, Busy, [Next]_vars PROVE Busy'
  OBVIOUS
<1>1. CASE Reload
  <2>1. UNCHANGED <<outbox, queued, deleted>>
    BY <1>1 DEF Reload, db, history
  <2>. QED BY <1>1, <2>1 DEF Reload, Busy
<1>2. ASSUME UNCHANGED <<tasks, outbox, history>> PROVE Busy'
  BY <1>2 DEF tasks, history, Busy
<1>3. ASSUME NEW m \in Msg, deliveryWatchdog(m) \/ Recipient(m) \/ Other(m) PROVE Busy'
  BY <1>2, <1>3 DEF deliveryWatchdog, Recipient, OnText, OnMailboxDelivery, Save, Read,
                    Other, OtherStores, OtherReads, db
<1>4. CASE PeerOffline \/ OnIntro \/ Connect \/ RecipientConnects \/ Disconnect
           \/ RecipientDisconnects \/ RecipientReloads
  BY <1>2, <1>4 DEF PeerOffline, OnIntro, Connect, RecipientConnects, Disconnect,
                    RecipientDisconnects, RecipientReloads, db
<1>5. CASE UNCHANGED vars
  BY <1>2, <1>5 DEF vars, db
<1>. QED BY <1>1, <1>3, <1>4, <1>5, BusyEvent, BusyContinue DEF Next

-----------------------------------------------------------------------------
LEMMA InvStep == Inv /\ Busy /\ [Next]_vars => (Inv /\ Busy)'
BY BusyStep, EventStep, ContinueStep, RecipientStep, ElsewhereStep, OtherStep, ReloadStep
DEF Next

LEMMA BusyInit == Init => Busy
<1> SUFFICES ASSUME Init PROVE Busy
  OBVIOUS
<1>1. todo \in [Task -> SUBSET Msg]
  BY DEF Init
<1>2. \A k \in Task : on[k] = None /\ at[k] = "idle"
  BY DEF Init
<1>3. outbox = {} /\ queued = {} /\ deleted = {}
  BY DEF Init
<1> QED BY <1>1, <1>2, <1>3 DEF Busy

(* A message that has been in the outbox stays there until the recipient   *)
(* has stored it or the user has deleted it; or, when the user changed     *)
(* chats while it was being sent, until the contact of the other chat has  *)
(* stored a copy.                                                          *)
THEOREM OutboxKept == Spec => []OutboxHolds
<1>1. Inv => OutboxHolds
  BY DEF Inv
<1> QED BY <1>1, InvInit, BusyInit, InvStep, PTL DEF Spec

(* The ticks tell the truth: what is shown as delivered or read is stored  *)
(* at the recipient, unless a copy was left for another contact, who has   *)
(* stored it.                                                              *)
THEOREM TicksTrue == Spec => []TicksHonest
<1>1. Inv => TicksHonest
  BY DEF Inv
<1> QED BY <1>1, InvInit, BusyInit, InvStep, PTL DEF Spec

-----------------------------------------------------------------------------
\* Sending, acknowledging, losing: what is under way keeps its range.
LEMMA TransmitType ==
    ASSUME texts \in [Msg -> 0..MaxCopies], NEW m \in Msg, Transmit(m)
    PROVE  texts' \in [Msg -> 0..MaxCopies]
BY BoundsAssumption DEF Transmit

LEMMA AckType ==
    ASSUME Wired, NEW m \in Msg, NEW s \in {"delivered", "read"}, SendAck(m, s)
    PROVE  acks' \in SUBSET (Msg \X {"delivered", "read"})
BY DEF Wired, SendAck

LEMMA ArriveType ==
    ASSUME Wired, NEW m \in Msg, Arrive(m)
    PROVE  acks' \in SUBSET (Msg \X {"delivered", "read"}) /\ saving' \in [Msg -> Nat]
<1>1. CASE UNCHANGED <<acks, saving>>
  BY <1>1 DEF Wired
<1>2. CASE SendAck(m, "delivered") /\ UNCHANGED saving
  BY <1>2, AckType DEF Wired
<1>3. CASE UNCHANGED acks /\ saving' = [saving EXCEPT ![m] = @ + 1]
  BY <1>3 DEF Wired
<1>. QED BY <1>1, <1>2, <1>3 DEF Arrive

LEMMA LossyType ==
    ASSUME Wired, Lossy
    PROVE  /\ texts' \in [Msg -> 0..MaxCopies] /\ intro' \in BOOLEAN
           /\ acks' \in SUBSET (Msg \X {"delivered", "read"})
BY DEF Wired, Lossy

LEMMA WiredTask ==
    ASSUME Inv, Busy, Wired, NEW k \in Task, Event(k) \/ Continue(k)
    PROVE  Wired'
<1>1. on[k] \in Msg \cup {None} /\ (at[k] \notin {"idle", "flush"} => on[k] \in Msg)
  BY DEF Inv, Reasons, Shape, Busy
<1>2. CASE PeerOnline(k) \/ OtherOnline(k)
  BY <1>2 DEF PeerOnline, OtherOnline, introduce, page, wire, remote, other, Wired
<1>16. ASSUME Mistake PROVE faults' \in 0..MaxFaults
  BY <1>16, BoundsAssumption DEF Mistake, Wired
<1>3. ASSUME NEW m \in Msg, Compose(k, m) PROVE Wired'
  <2>1. misfiled' \in SUBSET Msg /\ faults' \in 0..MaxFaults
    BY <1>3, <1>16 DEF Compose, Wired
  <2>. QED BY <1>3, <2>1 DEF Compose, page, wire, remote, Wired
<1>17. ASSUME NEW m \in Msg, Delete(k, m) PROVE Wired'
  BY <1>17 DEF Delete, page, wire, remote, other, Wired
<1>4. ASSUME NEW m \in Msg, NEW s \in {"delivered", "read"}, OnAck(k, m, s) PROVE Wired'
  BY <1>4 DEF OnAck, remote, other, Wired
<1>5. CASE AddOutbox(k)
  <2>1. texts' \in [Msg -> 0..MaxCopies]
    BY <1>1, <1>5, TransmitType DEF AddOutbox, Wired
  <2>. QED BY <1>5, <2>1 DEF AddOutbox, page, remote, other, Wired
<1>6. CASE PutSent(k)
  BY <1>1, <1>6 DEF PutSent, wire, remote, other, Wired
<1>7. CASE MailboxStore(k)
  <2>1. mailbox' \in SUBSET Msg /\ faults' \in 0..MaxFaults
    BY <1>1, <1>7, <1>16 DEF MailboxStore, Wired
  <2>. QED BY <1>7, <2>1 DEF MailboxStore, page, remote, Wired
<1>8. CASE Touch(k) \/ PutFlush(k) \/ PutAcked(k) \/ Drop(k) \/ DelMessage(k) \/ DelOutbox(k)
  BY <1>8 DEF Touch, PutFlush, PutAcked, Drop, DelMessage, DelOutbox, page, wire, remote,
              other, Wired
<1>9. ASSUME NEW m \in Msg, FlushSend(k, m) PROVE Wired'
  <2>1. texts' \in [Msg -> 0..MaxCopies]
    BY <1>9, TransmitType DEF FlushSend, Wired
  <2>. QED BY <1>9, <2>1 DEF FlushSend, page, remote, Wired
<1>10. ASSUME NEW m \in Msg, FlushBreak(k, m) PROVE Wired'
  BY <1>10 DEF FlushBreak, page, wire, remote, other, Wired
<1>. QED BY <1>2, <1>3, <1>4, <1>5, <1>6, <1>7, <1>8, <1>9, <1>10, <1>17 DEF Event, Continue

LEMMA WiredRecipient == ASSUME Wired, NEW m \in Msg, Recipient(m) PROVE Wired'
<1>1. CASE OnText(m)
  <2>1. texts' \in [Msg -> 0..MaxCopies]
    <3>1. texts[m] - 1 \in 0..MaxCopies
      BY <1>1, BoundsAssumption DEF OnText, Wired
    <3>. QED BY <1>1, <3>1 DEF OnText, Wired
  <2>2. acks' \in SUBSET (Msg \X {"delivered", "read"}) /\ saving' \in [Msg -> Nat]
    BY <1>1, ArriveType DEF OnText
  <2>. QED BY <1>1, <2>1, <2>2 DEF OnText, page, other, Wired
<1>2. CASE OnMailboxDelivery(m)
  <2>1. acks' \in SUBSET (Msg \X {"delivered", "read"}) /\ saving' \in [Msg -> Nat]
    BY <1>2, ArriveType DEF OnMailboxDelivery
  <2>. QED BY <1>2, <2>1 DEF OnMailboxDelivery, page, other, Wired
<1>3. CASE Save(m)
  <2>1. saving' \in [Msg -> Nat]
    BY <1>3 DEF Save, Wired
  <2>2. acks' \in SUBSET (Msg \X {"delivered", "read"})
    BY <1>3, AckType DEF Save
  <2>. QED BY <1>3, <2>1, <2>2 DEF Save, page, other, Wired
<1>4. CASE Read(m)
  <2>1. acks' \in SUBSET (Msg \X {"delivered", "read"})
    BY <1>4, AckType DEF Read
  <2>. QED BY <1>4, <2>1 DEF Read, page, other, Wired
<1>. QED BY <1>1, <1>2, <1>3, <1>4 DEF Recipient

LEMMA WiredOther == ASSUME Wired, NEW m \in Msg, Other(m) PROVE Wired'
<1>1. acks' \in SUBSET (Msg \X {"delivered", "read"})
  BY DEF Other, OtherStores, OtherReads, Wired
<1>. QED BY <1>1 DEF Other, OtherStores, OtherReads, page, remote, other, Wired

LEMMA WiredStep == Inv /\ Busy /\ Wired /\ [Next]_vars => Wired'
<1> SUFFICES ASSUME Inv, Busy, Wired, [Next]_vars PROVE Wired'
  OBVIOUS
<1>1. ASSUME NEW m \in Msg, deliveryWatchdog(m) PROVE Wired'
  <2>1. texts' \in [Msg -> 0..MaxCopies] /\ intro' \in BOOLEAN
    <3>1. CASE introduce /\ Transmit(m)
      BY <3>1, TransmitType DEF introduce, Wired
    <3>2. CASE UNCHANGED <<intro, texts>>
      BY <3>2 DEF Wired
    <3>. QED BY <1>1, <3>1, <3>2 DEF deliveryWatchdog
  <2>2. watch' \in [Msg -> {"none", "armed", "retried", "idle"}]
    BY <1>1 DEF deliveryWatchdog, Wired
  <2>. QED BY <1>1, <2>1, <2>2 DEF deliveryWatchdog, remote, other, Wired
<1>2. CASE PeerOffline
  BY <1>2 DEF PeerOffline, wire, remote, other, Wired
<1>3. CASE OnIntro
  BY <1>3 DEF OnIntro, page, other, Wired
<1>4. CASE Connect
  BY <1>4 DEF Connect, wire, remote, other, Wired
<1>5. CASE RecipientConnects
  BY <1>5 DEF RecipientConnects, wire, other, Wired
<1>6. ASSUME faults < MaxFaults, faults' = faults + 1 PROVE faults' \in 0..MaxFaults
  BY <1>6, BoundsAssumption DEF Wired
<1>7. CASE Disconnect
  BY <1>6, <1>7, LossyType DEF Disconnect, remote, other, Wired
<1>8. CASE Reload
  BY <1>6, <1>8, LossyType DEF Reload, remote, other, Wired
<1>9. CASE RecipientDisconnects
  BY <1>6, <1>9, LossyType DEF RecipientDisconnects, page, other, Wired
<1>10. CASE RecipientReloads
  BY <1>6, <1>10, LossyType DEF RecipientReloads, page, other, Wired
<1>11. CASE UNCHANGED vars
  BY <1>11 DEF vars, page, wire, remote, other, Wired
<1>. QED
  BY <1>1, <1>2, <1>3, <1>4, <1>5, <1>7, <1>8, <1>9, <1>10, <1>11, WiredTask, WiredRecipient,
     WiredOther
  DEF Next

(* Every row, frame and flag keeps its range, and a function under way has *)
(* a message exactly when its next transaction needs one.                  *)
THEOREM DeliveryTyped == Spec => []TypeOK
<1>1. Init => Busy /\ Wired
  <2> SUFFICES ASSUME Init PROVE Busy /\ Wired
    OBVIOUS
  <2>1. Busy
    BY BusyInit
  <2>2. Wired
    <3>1. /\ watch = [m \in Msg |-> "none"] /\ texts = [m \in Msg |-> 0]
          /\ saving = [m \in Msg |-> 0] /\ faults = 0
          /\ acks = {} /\ mailbox = {} /\ stored = {} /\ readAcked = {}
          /\ misfiled = {}
      BY DEF Init
    <3>2. knows \in BOOLEAN
      BY DEF Init
    <3>3. /\ peerOnline \in BOOLEAN /\ senderUp \in BOOLEAN /\ due \in BOOLEAN
          /\ intro \in BOOLEAN /\ recipientUp \in BOOLEAN
      BY DEF Init
    <3>4. /\ watch \in [Msg -> {"none", "armed", "retried", "idle"}]
          /\ texts \in [Msg -> 0..MaxCopies] /\ saving \in [Msg -> Nat]
          /\ faults \in 0..MaxFaults
      BY <3>1, BoundsAssumption
    <3>5. /\ acks \in SUBSET (Msg \X {"delivered", "read"}) /\ mailbox \in SUBSET Msg
          /\ stored \in SUBSET Msg /\ readAcked \in SUBSET Msg /\ misfiled \in SUBSET Msg
      BY <3>1
    <3>. QED BY <3>2, <3>3, <3>4, <3>5 DEF Wired
  <2>. QED BY <2>1, <2>2
<1>2. Inv /\ Busy /\ Wired /\ [Next]_vars => (Inv /\ Busy /\ Wired)'
  BY InvStep, WiredStep
<1>3. Inv /\ Busy /\ Wired => TypeOK
  BY DEF Inv, Reasons, Shape, Copies, Busy, Wired, TypeOK
<1> QED BY <1>1, <1>2, <1>3, InvInit, PTL DEF Spec
=============================================================================
