------------------------------- MODULE Mailbox -------------------------------
(***************************************************************************)
(* The client's side of the mailbox (web/app.js): a sender leaves texts    *)
(* for a recipient that is offline, and the recipient drains them.  The    *)
(* answers to STORE name no message: they settle the pending requests in   *)
(* order.  FETCH_NEXT is a loop that the answers keep going and a flag,    *)
(* mailboxFetching, keeps single.                                          *)
(*                                                                         *)
(* The mailbox is a service outside the repository, taken from how the     *)
(* client uses it: it answers in order, hands a blob out once, and may be  *)
(* away, in which case the relay drops what is sent to it.                 *)
(***************************************************************************)
EXTENDS Naturals, Sequences, FiniteSets, SequencesExt

CONSTANTS
    Msg,        \* texts sent while the recipient is offline
    MaxAsks,    \* bound: FETCH_NEXT requests and their answers under way
    MaxFaults   \* bound: connections and mailboxes lost, answers that come late

ASSUME MailboxAssumption == MaxAsks \in Nat \ {0} /\ MaxFaults \in Nat

VARIABLES
    \* the sender
    outbox,     \* messages not yet acknowledged
    pending,    \* pendingMailboxStore, in the order of its Map
    nonce,      \* messages whose outbox row has a mailbox_nonce
    senderUp,
    \* the recipient
    recipientUp,
    fetching,   \* mailboxFetching
    received,
    \* the mailbox and what is under way
    boxUp,
    box,        \* blobs for the recipient, oldest first
    stores,     \* STORE requests under way
    answers,    \* answers to them under way
    asks,       \* FETCH_NEXT requests under way
    replies,    \* answers to them under way
    \* history and bounds
    asked,      \* messages a STORE was sent for
    held,       \* messages the mailbox took
    owed,       \* messages that were in the mailbox when a loop was started
    slipped,    \* an answer to a STORE was late or was lost
    faults

sender    == <<outbox, pending, nonce, senderUp>>
recipient == <<recipientUp, fetching, received>>
storing   == <<stores, answers>>
asking    == <<asks, replies>>
history   == <<asked, held>>
vars == <<sender, recipient, boxUp, box, storing, asking, history, owed, slipped, faults>>

Answers  == {"STORED", "TOO_BIG", "MAILBOX_FULL"}
Delivery == [op : {"DELIVERY"}, msg : Msg]
Empty    == [op |-> "EMPTY"]

TypeOK ==
    /\ outbox \in SUBSET Msg /\ nonce \in SUBSET Msg /\ senderUp \in BOOLEAN
    /\ pending \in Seq(Msg) /\ IsInjective(pending)
    /\ recipientUp \in BOOLEAN /\ fetching \in BOOLEAN /\ received \in SUBSET Msg
    /\ boxUp \in BOOLEAN
    /\ box \in Seq(Msg) /\ IsInjective(box)
    /\ stores \in Seq(Msg) /\ answers \in Seq(Answers)
    /\ asks \in 0..MaxAsks
    /\ replies \in Seq(Delivery \cup {Empty})
    /\ asked \in SUBSET Msg /\ held \in SUBSET Msg /\ owed \in SUBSET Msg
    /\ slipped \in BOOLEAN
    /\ faults \in 0..MaxFaults

Init ==
    /\ outbox = Msg /\ pending = <<>> /\ nonce = {} /\ senderUp = FALSE
    /\ recipientUp = FALSE /\ fetching = FALSE /\ received = {}
    /\ boxUp = TRUE /\ box = <<>>
    /\ stores = <<>> /\ answers = <<>> /\ asks = 0 /\ replies = <<>>
    /\ asked = {} /\ held = {} /\ owed = {} /\ slipped = FALSE /\ faults = 0

Fault == faults < MaxFaults /\ faults' = faults + 1

-----------------------------------------------------------------------------
(* STORE *)

\* A text that is stored again after its first STORE was given up.
StoreText_Again(m) ==
    /\ m \in outbox /\ senderUp /\ Len(stores) <= MaxAsks
    /\ asked' = asked \cup {m}
    /\ pending' = Append(pending, m)
    /\ stores' = IF boxUp THEN Append(stores, m) ELSE stores
    /\ slipped' = (slipped \/ ~boxUp)
    /\ UNCHANGED <<outbox, nonce, senderUp, recipient, boxUp, box, answers, asking,
                   held, owed, faults>>

\* storeInMailboxOnOffline and mailboxStoreText, up to the promise.  A text is
\* stored once, when it is sent.  The relay drops what a mailbox that is away
\* should get.
StoreText(m) ==
    /\ m \in outbox \ asked /\ senderUp
    /\ asked' = asked \cup {m}
    /\ pending' = Append(pending, m)
    /\ stores' = IF boxUp THEN Append(stores, m) ELSE stores
    /\ slipped' = (slipped \/ ~boxUp)
    /\ UNCHANGED <<outbox, nonce, senderUp, recipient, boxUp, box, answers, asking,
                   held, owed, faults>>

\* The mailbox takes the blob or refuses it.
BoxStores ==
    /\ stores # <<>> /\ boxUp
    /\ stores' = Tail(stores)
    /\ \E a \in Answers :
          /\ box' = IF a = "STORED" THEN Append(box, Head(stores)) ELSE box
          /\ held' = IF a = "STORED" THEN held \cup {Head(stores)} ELSE held
          /\ answers' = IF senderUp THEN Append(answers, a) ELSE answers
    /\ slipped' = (slipped \/ ~senderUp)
    /\ UNCHANGED <<sender, recipient, boxUp, asking, asked, owed, faults>>

Settled_Newest(a) ==
    /\ pending' = Front(pending)
    /\ nonce' = IF a = "STORED" /\ Last(pending) \in outbox
                  THEN nonce \cup {Last(pending)} ELSE nonce

\* The first pending entry is settled, and its row marked if it still has one.
Settled(a) ==
    /\ pending' = Tail(pending)
    /\ nonce' = IF a = "STORED" /\ Head(pending) \in outbox
                  THEN nonce \cup {Head(pending)} ELSE nonce

\* onMailboxMessage: STORED, TOO_BIG, MAILBOX_FULL; then storeInMailboxOnOffline.
OnStoreAnswer ==
    /\ answers # <<>> /\ senderUp
    /\ answers' = Tail(answers)
    /\ IF pending = <<>> THEN UNCHANGED <<pending, nonce>> ELSE Settled(Head(answers))
    /\ UNCHANGED <<outbox, senderUp, recipient, boxUp, box, stores, asking, history,
                   owed, slipped, faults>>

\* Eight seconds without an answer.
StoreTimeout(m) ==
    /\ \E i \in 1..Len(pending) : pending[i] = m /\ pending' = RemoveAt(pending, i)
    /\ slipped' = TRUE
    /\ UNCHANGED <<outbox, nonce, senderUp, recipient, boxUp, box, storing, asking,
                   history, owed, faults>>

\* The DELIVERY_ACK of a message, however it arrived.
Acknowledged(m) ==
    /\ m \in received \cap outbox /\ senderUp
    /\ outbox' = outbox \ {m} /\ nonce' = nonce \ {m}
    /\ UNCHANGED <<pending, senderUp, recipient, boxUp, box, storing, asking, history,
                   owed, slipped, faults>>

-----------------------------------------------------------------------------
(* FETCH_NEXT *)

InBox == Range(box)

\* mailboxFetchNext
Ask ==
    /\ asks' = IF boxUp /\ asks < MaxAsks THEN asks + 1 ELSE asks

\* fetchMailbox with a socket: the start of a loop.
StartLoop ==
    /\ fetching' = TRUE
    /\ Ask
    /\ owed' = IF boxUp THEN owed \cup InBox ELSE owed

BoxFetches ==
    /\ asks > 0 /\ boxUp
    /\ asks' = asks - 1
    /\ IF box = <<>>
         THEN replies' = Append(replies, Empty) /\ UNCHANGED box
         ELSE /\ replies' = Append(replies, [op |-> "DELIVERY", msg |-> Head(box)])
              /\ box' = Tail(box)
    /\ UNCHANGED <<sender, recipient, boxUp, storing, history, owed, slipped, faults>>

OnDelivery_Stops(m) ==
    /\ received' = received \cup {m} /\ owed' = owed \ {m}
    /\ fetching' = FALSE
    /\ UNCHANGED asks

\* onMailboxMessage: DELIVERY.  onPeer takes the message; the loop goes on.
OnDelivery(m) ==
    /\ received' = received \cup {m} /\ owed' = owed \ {m}
    /\ Ask
    /\ UNCHANGED fetching

OnReply ==
    /\ replies # <<>> /\ recipientUp
    /\ replies' = Tail(replies)
    /\ IF Head(replies) = Empty
         THEN fetching' = FALSE /\ UNCHANGED <<received, owed, asks>>
         ELSE OnDelivery(Head(replies).msg)
    /\ UNCHANGED <<sender, recipientUp, boxUp, box, storing, history, slipped, faults>>

\* wakeConnection on a channel that is alive.
Wake ==
    /\ recipientUp /\ ~fetching
    /\ StartLoop
    /\ UNCHANGED <<sender, recipientUp, received, boxUp, box, storing, replies, history,
                   slipped, faults>>

-----------------------------------------------------------------------------
(* Connections *)

SenderConnects ==
    /\ ~senderUp /\ senderUp' = TRUE
    /\ UNCHANGED <<outbox, pending, nonce, recipient, boxUp, box, storing, asking,
                   history, owed, slipped, faults>>

\* Requests and answers under way are lost; what is pending stays pending.
SenderDisconnects ==
    /\ senderUp /\ Fault
    /\ senderUp' = FALSE
    /\ stores' \in {stores, <<>>} /\ answers' = <<>>
    /\ slipped' = (slipped \/ stores' # stores \/ answers # <<>>)
    /\ UNCHANGED <<outbox, pending, nonce, recipient, boxUp, box, asking, history, owed>>

Established_KeepsGuard(kept) ==
    /\ recipientUp' = TRUE
    /\ owed' = IF boxUp THEN InBox ELSE {}
    /\ asks' = IF boxUp /\ ~fetching THEN kept + 1 ELSE kept
    /\ fetching' = TRUE

\* onState established: the guard is reset and a loop started, whatever the
\* requests of an earlier loop, kept, may still bring.
Established(kept) ==
    /\ recipientUp' = TRUE
    /\ owed' = IF boxUp THEN InBox ELSE {}
    /\ asks' = IF boxUp THEN kept + 1 ELSE kept
    /\ fetching' = TRUE

RecipientConnects ==
    /\ ~recipientUp
    /\ asks < MaxAsks /\ Established(asks)
    /\ UNCHANGED <<sender, received, boxUp, box, storing, replies, history, slipped, faults>>

\* onState closed: the loop is over; an answer that finds nobody is gone.
RecipientDisconnects ==
    /\ recipientUp /\ Fault
    /\ recipientUp' = FALSE /\ fetching' = FALSE
    /\ asks' \in {asks, 0} /\ replies' = <<>> /\ owed' = {}
    /\ UNCHANGED <<sender, received, boxUp, box, storing, history, slipped>>

\* forceReconnect after a silence: the old socket is let go without a word, and
\* the frames on it are lost.
RecipientReconnects ==
    /\ recipientUp /\ Fault
    /\ replies' = <<>>
    /\ \E kept \in {0, asks} : kept < MaxAsks /\ Established(kept)
    /\ UNCHANGED <<sender, received, boxUp, box, storing, history, slipped>>

BoxLeaves ==
    /\ boxUp /\ Fault
    /\ boxUp' = FALSE
    /\ stores' = <<>> /\ asks' = 0 /\ owed' = {}
    /\ slipped' = (slipped \/ stores # <<>>)
    /\ UNCHANGED <<sender, recipient, box, answers, replies, history>>

BoxReturns ==
    /\ ~boxUp /\ boxUp' = TRUE
    /\ UNCHANGED <<sender, recipient, box, storing, asking, history, owed, slipped, faults>>

-----------------------------------------------------------------------------
Progress ==
    \/ BoxStores \/ OnStoreAnswer
    \/ BoxFetches \/ OnReply
    \/ SenderConnects \/ RecipientConnects \/ BoxReturns
    \/ \E m \in Msg : Acknowledged(m)

Next ==
    \/ Progress
    \/ \E m \in Msg : StoreText(m) \/ StoreTimeout(m)
    \/ Wake
    \/ SenderDisconnects \/ RecipientDisconnects \/ RecipientReconnects \/ BoxLeaves

Spec == Init /\ [][Next]_vars

\* Frames arrive, and everybody reconnects.
FairSpec == Spec /\ WF_vars(Progress)

-----------------------------------------------------------------------------
(* Properties *)

(* storage.js:14 calls a mailbox_nonce "the 'lives in the mailbox' flag":  *)
(* a row has one only if the mailbox took the message, or an answer to an  *)
(* earlier STORE was late or lost, for answers are matched by their order. *)
FlagHonest == nonce \subseteq held \/ slipped

(* What was in the mailbox when the recipient started to drain it is       *)
(* received, whatever of earlier loops is under way, unless its connection *)
(* or the mailbox goes away meanwhile.                                     *)
DrainFinishes == \A m \in Msg : m \in owed ~> m \notin owed
=============================================================================
