------------------------------ MODULE Delivery ------------------------------
(***************************************************************************)
(* The delivery of text messages from one client to another: the sender's  *)
(* messages and outbox (web/storage.js), the asynchronous functions of     *)
(* web/app.js that send, resend, acknowledge and delete them, the copy     *)
(* left in the mailbox, and the recipient's onText.                        *)
(*                                                                         *)
(* The user may go to another chat while a message is being sent, and      *)
(* send-text reads again, after its awaits, which chat is open: it may     *)
(* file the row under the other contact, or leave the copy in the other's  *)
(* mailbox.  That contact stores the copy and acknowledges it as its own.  *)
(*                                                                         *)
(* Every storage function is a chain of IndexedDB transactions with awaits *)
(* between them, and any number of such functions may be under way: a Task *)
(* is one, and takes one transaction per step.  A lookup is merged with    *)
(* what precedes it; the write that follows is a step of its own.  The     *)
(* relay is reduced to what module Relay shows of it: a frame goes to the  *)
(* recipient if that is connected, and whoever connects while the other is *)
(* there brings the sender a PEER_ONLINE.                                  *)
(***************************************************************************)
EXTENDS Naturals, FiniteSets

CONSTANTS
    Msg,        \* text messages the user writes
    Task,       \* asynchronous functions of the sender under way at once
    None,
    MaxCopies,  \* bound: copies of a message under way
    MaxFaults   \* bound: connections lost, pages reloaded, chats mixed up

ASSUME NoneAssumption == None \notin Msg
ASSUME BoundsAssumption == MaxCopies \in Nat \ {0} /\ MaxFaults \in Nat

VARIABLES
    \* the sender's database
    messages,   \* the status of a message's row, "none" without one
    outbox,
    \* the sender's page
    at, on, todo, \* a task: its next transaction, its message, its flush list
    watch,      \* pendingDelivery: the watchdog of a message
    peerOnline, \* peerBook[recipient].online
    senderUp,
    due,        \* a PEER_ONLINE is on its way to the sender
    \* frames under way
    intro,      \* an INTRODUCE, ahead of the texts sent after it
    texts,      \* copies of each message
    acks,
    mailbox,
    \* the recipient
    recipientUp,
    knows,      \* it has the sender's keys
    saving,     \* calls of saveIncoming that found no row and will add one
    stored,
    readAcked,
    \* another contact, whose chat the user opened during a send
    misfiled,   \* messages saved as if sent to it
    elsewhere,  \* a copy sent to it: "none", "left" for it, "held" by it
    \* history and bounds
    queued,     \* messages whose saveOutgoing finished
    deleted,    \* messages the user deleted
    faults

db     == <<messages, outbox>>
tasks  == <<at, on, todo>>
page   == <<watch, peerOnline, senderUp, due>>
wire   == <<intro, texts, acks, mailbox>>
remote == <<recipientUp, knows, saving, stored, readAcked>>
other  == <<misfiled, elsewhere>>
history == <<queued, deleted>>
vars   == <<db, tasks, page, wire, remote, other, history, faults>>

Steps == {"idle", "add_outbox", "put_sent", "store", "store_other", "touch", "flush",
          "put_flush", "put_delivered", "put_read", "drop", "del_message", "del_outbox"}

TypeOK ==
    /\ messages \in [Msg -> {"none", "pending", "sent", "delivered", "read"}]
    /\ outbox \in SUBSET Msg
    /\ at \in [Task -> Steps]
    /\ on \in [Task -> Msg \cup {None}]
    /\ todo \in [Task -> SUBSET Msg]
    /\ \A k \in Task : on[k] = None <=> at[k] \in {"idle", "flush"}
    /\ watch \in [Msg -> {"none", "armed", "retried", "idle"}]
    /\ peerOnline \in BOOLEAN /\ senderUp \in BOOLEAN /\ due \in BOOLEAN
    /\ intro \in BOOLEAN
    /\ texts \in [Msg -> 0..MaxCopies]
    /\ acks \in SUBSET (Msg \X {"delivered", "read"})
    /\ mailbox \in SUBSET Msg
    /\ recipientUp \in BOOLEAN /\ knows \in BOOLEAN
    /\ saving \in [Msg -> Nat]
    /\ stored \in SUBSET Msg /\ readAcked \in SUBSET Msg
    /\ misfiled \in SUBSET Msg
    /\ elsewhere \in [Msg -> {"none", "left", "held"}]
    /\ queued \in SUBSET Msg /\ deleted \in SUBSET Msg
    /\ faults \in 0..MaxFaults

\* Both installed, the sender's contact list filled; the recipient may or may
\* not have the sender in its own.
Init ==
    /\ messages = [m \in Msg |-> "none"] /\ outbox = {}
    /\ at = [k \in Task |-> "idle"]
    /\ on = [k \in Task |-> None]
    /\ todo = [k \in Task |-> {}]
    /\ watch = [m \in Msg |-> "none"]
    /\ peerOnline = FALSE /\ senderUp = FALSE /\ due = FALSE
    /\ intro = FALSE /\ texts = [m \in Msg |-> 0] /\ acks = {} /\ mailbox = {}
    /\ recipientUp = FALSE /\ knows \in BOOLEAN
    /\ saving = [m \in Msg |-> 0] /\ stored = {} /\ readAcked = {}
    /\ misfiled = {} /\ elsewhere = [m \in Msg |-> "none"]
    /\ queued = {} /\ deleted = {} /\ faults = 0

-----------------------------------------------------------------------------
(* Helpers *)

Idle(k) == at[k] = "idle"

\* Task k goes on with transaction `step` on m; its flush list stays.
Goto(k, step, m) ==
    /\ at' = [at EXCEPT ![k] = step]
    /\ on' = [on EXCEPT ![k] = m]

End_KeepsMessage(k) ==
    /\ at' = [at EXCEPT ![k] = "idle"]
    /\ todo' = [todo EXCEPT ![k] = {}]
    /\ UNCHANGED on

End(k) == Goto(k, "idle", None) /\ todo' = [todo EXCEPT ![k] = {}]

\* sendText with an open socket.  Copies beyond the bound are not counted.
Transmit(m) ==
    texts' = [texts EXCEPT ![m] = IF recipientUp /\ @ < MaxCopies THEN @ + 1 ELSE @]

introduce == intro' = (intro \/ recipientUp)

\* What is taken for another contact's counts as a fault.
Mistake == faults < MaxFaults /\ faults' = faults + 1

\* A copy for the other contact, which keeps one that it has.
LeaveElsewhere(m) ==
    elsewhere' = [elsewhere EXCEPT ![m] = IF @ = "held" THEN @ ELSE "left"]

Status(m, s) == messages' = [messages EXCEPT ![m] = s]

-----------------------------------------------------------------------------
(* Sending: send-text, saveOutgoing, storeInMailboxOnOffline *)

\* Sent while searching, the text waits for the search to close; the chat open
\* by then is the one the row is saved under.
Compose(k, m) ==
    /\ Idle(k) /\ messages[m] = "none" /\ m \notin queued
    /\ Status(m, "pending")
    /\ \/ UNCHANGED <<misfiled, faults>>
       \/ Mistake /\ misfiled' = misfiled \cup {m}
    /\ Goto(k, "add_outbox", m)
    /\ UNCHANGED <<outbox, todo, page, wire, remote, elsewhere, history>>

\* The outbox row is there; the frame goes out in the same turn.
AddOutbox(k) ==
    /\ at[k] = "add_outbox"
    /\ outbox' = outbox \cup {on[k]}
    /\ queued' = queued \cup {on[k]}
    /\ IF senderUp
         THEN Transmit(on[k]) /\ Goto(k, "put_sent", on[k]) /\ UNCHANGED todo
         ELSE UNCHANGED texts /\ End(k)
    /\ UNCHANGED <<messages, page, intro, acks, mailbox, remote, other, deleted, faults>>

\* The end of markStatus; then the watchdog, and the mailbox for a recipient
\* that is thought to be offline: for whoever's chat is open by now.
PutSent(k) ==
    /\ at[k] = "put_sent"
    /\ Status(on[k], "sent")
    /\ watch' = [watch EXCEPT ![on[k]] = "armed"]
    /\ \/ ~peerOnline /\ Goto(k, "store", on[k]) /\ UNCHANGED todo
       \/ Goto(k, "store_other", on[k]) /\ UNCHANGED todo
       \/ End(k)    \* thought to be online, either of them, or no chat is open
    /\ UNCHANGED <<outbox, peerOnline, senderUp, due, wire, remote, other, history, faults>>

MailboxStore_MarksDelivered(k) ==
    /\ at[k] \in {"store", "store_other"} /\ senderUp
    /\ Status(on[k], "delivered")
    /\ IF at[k] = "store" THEN mailbox' = mailbox \cup {on[k]} ELSE UNCHANGED mailbox
    /\ End(k)
    /\ UNCHANGED <<outbox, page, intro, texts, acks, remote, other, history, faults>>

\* mailboxStoreText: the copy may get there or not, and the answer come in
\* time or not.
MailboxStore(k) ==
    /\ at[k] \in {"store", "store_other"}
    /\ \E done \in BOOLEAN, told \in BOOLEAN :
          /\ done => senderUp
          /\ told => done
          /\ IF done /\ at[k] = "store" THEN mailbox' = mailbox \cup {on[k]}
                                        ELSE UNCHANGED mailbox
          /\ IF done /\ at[k] = "store_other" THEN LeaveElsewhere(on[k]) /\ Mistake
                                              ELSE UNCHANGED <<elsewhere, faults>>
          /\ IF told /\ on[k] \in outbox
               THEN Goto(k, "touch", on[k]) /\ UNCHANGED todo
               ELSE End(k)
    /\ UNCHANGED <<db, page, intro, texts, acks, remote, misfiled, history>>

\* The end of setMailboxNonce and of bumpAttempt: the row read is written back.
Touch(k) ==
    /\ at[k] = "touch"
    /\ outbox' = outbox \cup {on[k]}
    /\ End(k)
    /\ UNCHANGED <<messages, page, wire, remote, other, history, faults>>

deliveryWatchdog(m) ==
    /\ watch[m] \in {"armed", "retried"}
    /\ IF senderUp /\ watch[m] = "armed"
         THEN introduce /\ Transmit(m) /\ watch' = [watch EXCEPT ![m] = "retried"]
         ELSE /\ watch' = [watch EXCEPT ![m] = IF senderUp THEN "none" ELSE "idle"]
              /\ UNCHANGED <<intro, texts>>
    /\ UNCHANGED <<db, tasks, peerOnline, senderUp, due, acks, mailbox, remote,
                   other, history, faults>>

-----------------------------------------------------------------------------
(* PEER_ONLINE and flushOutboxFor *)

PeerOnline_FlushAtConnectOnly(k) ==
    /\ due /\ senderUp /\ Idle(k)
    /\ due' = FALSE
    /\ peerOnline' = TRUE
    /\ LET pending == {m \in outbox \ misfiled : messages[m] = "pending"} IN
       IF pending = {} THEN UNCHANGED <<tasks, intro>>
       ELSE /\ introduce
            /\ Goto(k, "flush", None)
            /\ todo' = [todo EXCEPT ![k] = pending]
    /\ UNCHANGED <<db, watch, senderUp, texts, acks, mailbox, remote, other, history, faults>>

PeerOnline(k) ==
    /\ due /\ senderUp /\ Idle(k)
    /\ due' = FALSE
    /\ peerOnline' = TRUE
    /\ LET pending == {m \in outbox \ misfiled : messages[m] # "none"} IN
       IF pending = {} THEN UNCHANGED <<tasks, intro>>
       ELSE /\ introduce
            /\ Goto(k, "flush", None)
            /\ todo' = [todo EXCEPT ![k] = pending]
    /\ UNCHANGED <<db, watch, senderUp, texts, acks, mailbox, remote, other, history, faults>>

\* PEER_ONLINE of the other contact, who has messages saved as its own.
OtherOnline(k) ==
    /\ senderUp /\ Idle(k)
    /\ LET pending == {m \in outbox \cap misfiled : messages[m] # "none"} IN
       /\ pending # {}
       /\ Goto(k, "flush", None)
       /\ todo' = [todo EXCEPT ![k] = pending]
    /\ UNCHANGED <<db, page, wire, remote, other, history, faults>>

\* PEER_OFFLINE, or RECIPIENT_OFFLINE in answer to a frame.
PeerOffline ==
    /\ peerOnline /\ ~recipientUp /\ senderUp
    /\ peerOnline' = FALSE
    /\ UNCHANGED <<db, tasks, watch, senderUp, due, wire, remote, other, history, faults>>

\* The next message of the list; a deleted one is sent, but has no row to mark.
FlushSend(k, m) ==
    /\ at[k] = "flush" /\ m \in todo[k] /\ senderUp
    /\ IF m \in misfiled THEN LeaveElsewhere(m) /\ UNCHANGED texts
                        ELSE Transmit(m) /\ UNCHANGED elsewhere
    /\ IF messages[m] # "none"
         THEN Goto(k, "put_flush", m) /\ todo' = [todo EXCEPT ![k] = @ \ {m}]
         ELSE IF todo[k] = {m} THEN End(k)
         ELSE UNCHANGED <<at, on>> /\ todo' = [todo EXCEPT ![k] = @ \ {m}]
    /\ UNCHANGED <<db, page, intro, acks, mailbox, remote, misfiled, history, faults>>

\* The socket is down: count the attempt and stop.
FlushBreak(k, m) ==
    /\ at[k] = "flush" /\ m \in todo[k] /\ ~senderUp
    /\ IF m \in outbox
         THEN Goto(k, "touch", m) /\ todo' = [todo EXCEPT ![k] = {}]
         ELSE End(k)
    /\ UNCHANGED <<db, page, wire, remote, other, history, faults>>

PutFlush(k) ==
    /\ at[k] = "put_flush"
    /\ Status(on[k], "sent")
    /\ IF todo[k] = {} THEN End(k) ELSE Goto(k, "flush", None) /\ UNCHANGED todo
    /\ UNCHANGED <<outbox, page, wire, remote, other, history, faults>>

-----------------------------------------------------------------------------
(* DELIVERY_ACK, READ_ACK and deleting a message *)

OnAck(k, m, s) ==
    /\ <<m, s>> \in acks /\ senderUp /\ Idle(k)
    /\ acks' = acks \ {<<m, s>>}
    /\ watch' = IF s = "delivered" THEN [watch EXCEPT ![m] = "none"] ELSE watch
    /\ IF messages[m] # "none"
         THEN Goto(k, IF s = "delivered" THEN "put_delivered" ELSE "put_read", m)
         ELSE UNCHANGED <<at, on>>
    /\ UNCHANGED <<db, todo, peerOnline, senderUp, due, intro, texts, mailbox, remote,
                   other, history, faults>>

PutAcked(k) ==
    /\ at[k] \in {"put_delivered", "put_read"}
    /\ Status(on[k], IF at[k] = "put_read" THEN "read" ELSE "delivered")
    /\ Goto(k, "drop", on[k])
    /\ UNCHANGED <<outbox, todo, page, wire, remote, other, history, faults>>

Drop(k) ==
    /\ at[k] = "drop"
    /\ outbox' = outbox \ {on[k]}
    /\ End(k)
    /\ UNCHANGED <<messages, page, wire, remote, other, history, faults>>

Delete(k, m) ==
    /\ Idle(k) /\ m \in queued \ deleted /\ messages[m] # "none"
    /\ deleted' = deleted \cup {m}
    /\ Goto(k, "del_message", m)
    /\ UNCHANGED <<db, todo, page, wire, remote, other, queued, faults>>

DelMessage(k) ==
    /\ at[k] = "del_message"
    /\ Status(on[k], "none")
    /\ Goto(k, "del_outbox", on[k])
    /\ UNCHANGED <<outbox, todo, page, wire, remote, other, history, faults>>

DelOutbox(k) ==
    /\ at[k] = "del_outbox"
    /\ outbox' = outbox \ {on[k]}
    /\ End(k)
    /\ UNCHANGED <<messages, page, wire, remote, other, history, faults>>

-----------------------------------------------------------------------------
(* The recipient *)

\* Acks are written to the recipient's socket; a sender that is not there
\* never sees them.
SendAck(m, s) ==
    acks' = IF recipientUp /\ senderUp THEN acks \cup {<<m, s>>} ELSE acks

OnIntro ==
    /\ intro /\ recipientUp
    /\ intro' = FALSE /\ knows' = TRUE
    /\ UNCHANGED <<db, tasks, page, texts, acks, mailbox, recipientUp, saving, stored,
                   readAcked, other, history, faults>>

\* onText: saveIncoming looks the message up, and acknowledges a known one.
Arrive_AckFirst(m) ==
    IF ~knows THEN UNCHANGED <<acks, saving>>
    ELSE IF m \in stored THEN SendAck(m, "delivered") /\ UNCHANGED saving
    ELSE /\ SendAck(m, "delivered")
         /\ saving' = [saving EXCEPT ![m] = @ + 1]

Arrive(m) ==
    IF ~knows THEN UNCHANGED <<acks, saving>>
    ELSE IF m \in stored THEN SendAck(m, "delivered") /\ UNCHANGED saving
    ELSE UNCHANGED acks /\ saving' = [saving EXCEPT ![m] = @ + 1]

OnText(m) ==
    /\ recipientUp /\ ~intro /\ texts[m] > 0
    /\ texts' = [texts EXCEPT ![m] = @ - 1]
    /\ Arrive(m)
    /\ UNCHANGED <<db, tasks, page, intro, mailbox, recipientUp, knows, stored,
                   readAcked, other, history, faults>>

OnMailboxDelivery(m) ==
    /\ recipientUp /\ m \in mailbox
    /\ mailbox' = mailbox \ {m}
    /\ Arrive(m)
    /\ UNCHANGED <<db, tasks, page, intro, texts, recipientUp, knows, stored, readAcked,
                   other, history, faults>>

Save(m) ==
    /\ saving[m] > 0
    /\ saving' = [saving EXCEPT ![m] = @ - 1]
    /\ stored' = stored \cup {m}
    /\ SendAck(m, "delivered")
    /\ UNCHANGED <<db, tasks, page, intro, texts, mailbox, recipientUp, knows,
                   readAcked, other, history, faults>>

\* The chat is open, or the user opens it.
Read(m) ==
    /\ m \in stored \ readAcked
    /\ readAcked' = readAcked \cup {m}
    /\ SendAck(m, "read")
    /\ UNCHANGED <<db, tasks, page, intro, texts, mailbox, recipientUp, knows, saving,
                   stored, other, history, faults>>

-----------------------------------------------------------------------------
(* The other contact: onText acknowledges, and neither onDelivered nor      *)
(* onRead asks who did.                                                     *)

OtherStores(m) ==
    /\ elsewhere[m] = "left"
    /\ elsewhere' = [elsewhere EXCEPT ![m] = "held"]
    /\ acks' = IF senderUp THEN acks \cup {<<m, "delivered">>} ELSE acks
    /\ UNCHANGED <<db, tasks, page, intro, texts, mailbox, remote, misfiled, history, faults>>

\* Once, and again after each reload of its page.
OtherReads(m) ==
    /\ elsewhere[m] = "held" /\ senderUp
    /\ acks' = acks \cup {<<m, "read">>}
    /\ UNCHANGED <<db, tasks, page, intro, texts, mailbox, remote, other, history, faults>>

-----------------------------------------------------------------------------
(* Connections and reloads *)

\* A connection that breaks takes with it any of what was under way.
Lossy ==
    /\ \E kept \in [Msg -> 0..MaxCopies] :
          texts' = kept /\ \A m \in Msg : kept[m] <= texts[m]
    /\ acks' \in SUBSET acks
    /\ intro' \in {FALSE, intro}

Connect ==
    /\ ~senderUp /\ senderUp' = TRUE
    /\ due' = recipientUp
    /\ UNCHANGED <<db, tasks, watch, peerOnline, wire, remote, other, history, faults>>

RecipientConnects ==
    /\ ~recipientUp /\ recipientUp' = TRUE
    /\ due' = (due \/ senderUp)
    /\ UNCHANGED <<db, tasks, watch, peerOnline, senderUp, wire, knows, saving, stored,
                   readAcked, other, history, faults>>

Disconnect ==
    /\ senderUp /\ faults < MaxFaults
    /\ senderUp' = FALSE /\ due' = FALSE /\ Lossy
    /\ faults' = faults + 1
    /\ UNCHANGED <<db, tasks, watch, peerOnline, mailbox, remote, other, history>>

\* The page is reloaded or killed: every function under way is gone.
Reload ==
    /\ faults < MaxFaults
    /\ senderUp' = FALSE /\ due' = FALSE /\ Lossy
    /\ at' = [k \in Task |-> "idle"]
    /\ on' = [k \in Task |-> None]
    /\ todo' = [k \in Task |-> {}]
    /\ watch' = [m \in Msg |-> "none"]
    /\ peerOnline' = FALSE
    /\ faults' = faults + 1
    /\ UNCHANGED <<db, mailbox, remote, other, history>>

RecipientDisconnects ==
    /\ recipientUp /\ faults < MaxFaults
    /\ recipientUp' = FALSE /\ Lossy
    /\ faults' = faults + 1
    /\ UNCHANGED <<db, tasks, page, mailbox, knows, saving, stored, readAcked, other, history>>

RecipientReloads ==
    /\ faults < MaxFaults
    /\ recipientUp' = FALSE /\ Lossy
    /\ saving' = [m \in Msg |-> 0]
    /\ readAcked' = {}
    /\ faults' = faults + 1
    /\ UNCHANGED <<db, tasks, page, mailbox, knows, stored, other, history>>

-----------------------------------------------------------------------------
Event(k) ==
    \/ PeerOnline(k) \/ OtherOnline(k)
    \/ \E m \in Msg : Compose(k, m) \/ Delete(k, m)
    \/ \E m \in Msg, s \in {"delivered", "read"} : OnAck(k, m, s)

Continue(k) ==
    \/ AddOutbox(k) \/ PutSent(k) \/ MailboxStore(k) \/ Touch(k) \/ PutFlush(k)
    \/ PutAcked(k) \/ Drop(k) \/ DelMessage(k) \/ DelOutbox(k)
    \/ \E m \in Msg : FlushSend(k, m) \/ FlushBreak(k, m)

Recipient(m) == OnText(m) \/ OnMailboxDelivery(m) \/ Save(m) \/ Read(m)

Other(m) == OtherStores(m) \/ OtherReads(m)

Next ==
    \/ \E k \in Task : Event(k) \/ Continue(k)
    \/ \E m \in Msg : deliveryWatchdog(m) \/ Recipient(m) \/ Other(m)
    \/ PeerOffline \/ OnIntro
    \/ Connect \/ RecipientConnects
    \/ Disconnect \/ Reload \/ RecipientDisconnects \/ RecipientReloads

Spec == Init /\ [][Next]_vars

\* Both clients keep reconnecting (module WsClient), frames and transactions
\* finish, timers fire.  Nobody has to write, read or delete.
Fairness ==
    /\ \A k \in Task : WF_vars(Continue(k))
    /\ WF_vars(\E k \in Task : PeerOnline(k))
    /\ WF_vars(\E k \in Task, m \in Msg, s \in {"delivered", "read"} : OnAck(k, m, s))
    /\ \A m \in Msg : /\ WF_vars(deliveryWatchdog(m))
                      /\ WF_vars(OnText(m)) /\ WF_vars(Save(m))
    /\ WF_vars(OnIntro) /\ WF_vars(Connect) /\ WF_vars(RecipientConnects)

FairSpec == Spec /\ Fairness
-----------------------------------------------------------------------------
(* Properties *)

\* Messages of which the other contact got a copy: the user was in its chat
\* when send-text looked again.
Misdelivered == {m \in Msg : elsewhere[m] = "held"}

(* A message leaves the outbox only when the recipient has stored it or    *)
(* the user has deleted it, whatever is acknowledged, resent, crashes or   *)
(* runs at the same time.  One exception: the user changed chats while it  *)
(* was being sent, and the contact of the other chat has stored a copy.    *)
OutboxHolds == \A m \in queued : m \in outbox \cup stored \cup deleted \cup Misdelivered

(* "delivered" and "read" are never shown for a message the recipient does *)
(* not have, with the same exception: onDelivered does not ask who         *)
(* acknowledged.                                                           *)
TicksHonest ==
    \A m \in Msg : messages[m] \in {"delivered", "read"} => m \in stored \cup Misdelivered

(* Every message that reached the outbox is stored by the recipient in the *)
(* end, or deleted: also if it was sent into a connection that was lost,   *)
(* to a recipient that could not read it, or by a page that was reloaded.  *)
(* Two exceptions: a message saved under another chat, and one that a      *)
(* contact of another chat has stored, as above.                           *)
EventuallyStored ==
    \A m \in Msg : m \in queued ~> m \in stored \cup deleted \cup misfiled \cup Misdelivered
=============================================================================
