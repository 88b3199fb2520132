--------------------------------- MODULE Chat ---------------------------------
(***************************************************************************)
(* The conversation screen of web/app.js: which chat is open, which of its *)
(* messages are on the screen, the unread badges and the read receipts.    *)
(* Every function that awaits a storage request is cut there: what it does *)
(* after the await is a step of its own, and others run in between.        *)
(*                                                                         *)
(* A message is the number of its row (seq); stamp has its ts, the time of *)
(* a clock that may stand still between two rows or be set back.  #chat    *)
(* and renderedMessages are one set: order and doubles on the screen are   *)
(* left out.  Chats are saved (telefon_persist_chats), nobody is banned.   *)
(***************************************************************************)
EXTENDS Naturals, Sequences, FiniteSets, SequencesExt, FiniteSetsExt

CONSTANTS
    Peer, NoPeer,
    Window,     \* CHAT_WINDOW
    Page,       \* CHAT_PAGE
    MaxMsgs,    \* bound: messages ever saved
    MaxTs,      \* bound: what the clock shows
    MaxTasks,   \* bound: functions awaiting the storage at once
    MaxGestures \* bound: what the user does

ASSUME ChatAssumption ==
    /\ NoPeer \notin Peer
    /\ Window \in Nat \ {0} /\ Page \in Nat \ {0, 1}
    /\ MaxMsgs \in Nat /\ MaxTs \in Nat /\ MaxTasks \in Nat /\ MaxGestures \in Nat

VARIABLES
    \* storage
    store,      \* messages of each chat
    mine,       \* those of them that are outgoing
    stamp,      \* ts of each message, 0 before it is saved
    unread,     \* badge of each contact
    \* the page
    current,    \* currentPeerId
    onChat,     \* the conversation screen is shown, not the contacts
    box,        \* messages in #chat
    oldest,     \* oldestLoadedTs, 0 for null
    noMore,     \* noMoreOlder
    loading,    \* isLoadingOlder
    search,     \* searchActive
    editing,    \* editingMsgId, 0 for null
    tasks,      \* functions that await the storage
    \* history and bounds
    saved,      \* messages saved so far
    acked,      \* messages a read receipt was sent for
    noticed,    \* messages that came to a chat on the screen, or were in it when it opened
    lost,       \* messages whose badge or receipt went in one of the ways listed with
                \* NothingUnnoticed
    clean,      \* nothing else was filling #chat when it was last emptied, and no
                \* page since was full of rows that are shown
    gestures

screenVars == <<current, onChat, box, oldest, noMore, loading, search>>
told == <<acked, noticed, lost>>
rowVars == <<store, mine, stamp, saved>>
vars == <<rowVars, unread, screenVars, editing, tasks, told, clean, gestures>>

Msg  == 1..MaxMsgs
Ts   == 1..MaxTs
Then == {"nothing", "openCallView", "send"}

Task ==
    [fn : {"refreshChat"}, peer : Peer, then : Then]
    \cup [fn : {"markHistoryRead", "runSearch"}, peer : Peer]
    \cup [fn : {"loadOlderMessages"}, peer : Peer, before : Ts]
    \cup [fn : {"enterEditMode", "sendEdit"}, peer : Peer, msg : Msg]
    \cup [fn : {"saveOutgoing"}, peer : Peer]
    \cup [fn : {"clearHistory"}, peer : Peer, rows : SUBSET Msg, badge : BOOLEAN]

TypeOK ==
    /\ store \in [Peer -> SUBSET Msg] /\ mine \in SUBSET Msg
    /\ stamp \in [Msg -> Ts \cup {0}]
    /\ unread \in [Peer -> 0..MaxMsgs]
    /\ current \in Peer \cup {NoPeer} /\ onChat \in BOOLEAN
    /\ box \in SUBSET Msg /\ oldest \in Ts \cup {0}
    /\ noMore \in BOOLEAN /\ loading \in BOOLEAN /\ search \in BOOLEAN
    /\ editing \in Msg \cup {0}
    /\ tasks \in Seq(Task)
    /\ saved \in Msg \cup {0} /\ acked \in SUBSET Msg
    /\ noticed \in SUBSET Msg /\ lost \in SUBSET Msg
    /\ clean \in BOOLEAN /\ gestures \in 0..MaxGestures

Init ==
    /\ store = [p \in Peer |-> {}] /\ mine = {} /\ stamp = [m \in Msg |-> 0]
    /\ unread = [p \in Peer |-> 0]
    /\ current = NoPeer /\ onChat = FALSE /\ box = {} /\ oldest = 0
    /\ noMore = FALSE /\ loading = FALSE /\ search = FALSE
    /\ editing = 0 /\ tasks = <<>>
    /\ saved = 0 /\ acked = {} /\ noticed = {} /\ lost = {} /\ clean = TRUE /\ gestures = 0

-----------------------------------------------------------------------------
(* Helpers *)

Gesture == gestures < MaxGestures /\ gestures' = gestures + 1

\* The order of a history: by ts, then by seq.
Later(x, m) == stamp[x] > stamp[m] \/ (stamp[x] = stamp[m] /\ x > m)

\* The last k of it (historyTail, historyBefore), and the ts of the first of some rows.
Newest(S, k) == {m \in S : Cardinality({x \in S : Later(x, m)}) < k}
FirstTs(rows) == Min({stamp[m] : m \in rows})

Incoming(p) == store[p] \ mine

Shown(p) == onChat /\ current = p

\* A row is added to a chat.
SaveRow(p, m) ==
    /\ saved' = m
    /\ store' = [store EXCEPT ![p] = @ \cup {m}]
    /\ \E ts \in Ts : stamp' = [stamp EXCEPT ![m] = ts]

\* A function starts to await; function i goes on, and awaits again if it has more to do.
Start(t)      == Len(tasks) < MaxTasks /\ tasks' = Append(tasks, t)
Ends(i)       == tasks' = RemoveAt(tasks, i)
GoesOn(i, t)  == tasks' = ReplaceAt(tasks, i, t)

Refresh(p, then) == [fn |-> "refreshChat", peer |-> p, then |-> then]
Filling == {t \in Range(tasks) : t.fn \in {"refreshChat", "loadOlderMessages", "runSearch"}}

\* refreshChat, up to its await.
EmptyChat ==
    /\ box' = {} /\ oldest' = 0 /\ noMore' = FALSE /\ loading' = FALSE
    /\ clean' = (Filling = {})

\* saveOutgoing, up to its await: for the chat that is open by now.  With none
\* open the row has no contact, and no chat shows it.
Save(i) ==
    IF current = NoPeer THEN Ends(i)
                        ELSE GoesOn(i, [fn |-> "saveOutgoing", peer |-> current])

-----------------------------------------------------------------------------
(* Opening and leaving *)

OpenCallView(p) ==
    /\ Gesture
    /\ current' = p /\ onChat' = TRUE /\ search' = FALSE
    /\ EmptyChat
    /\ Start(Refresh(p, "openCallView"))
    /\ UNCHANGED <<rowVars, unread, editing, told>>

\* btn-back, popstate, the back button.
Leave ==
    /\ Gesture
    /\ onChat
    /\ current' = NoPeer /\ onChat' = FALSE
    /\ UNCHANGED <<rowVars, unread, box, oldest, noMore, loading, search, editing,
                   tasks, told, clean>>

\* A tap on an avatar in the list of contacts: a call, and no chat.
StartOutgoingCall(p) ==
    /\ Gesture
    /\ ~onChat
    /\ current' = p
    /\ UNCHANGED <<rowVars, unread, onChat, box, oldest, noMore, loading, search,
                   editing, tasks, told, clean>>

-----------------------------------------------------------------------------
(* After the awaits *)

\* refreshChat appends the tail it read.
AppendTail(p) ==
    LET rows == Newest(store[p], Window)
    IN  /\ box' = box \cup rows
        /\ oldest' = IF rows # {} THEN FirstTs(rows) ELSE oldest
        /\ noMore' = (noMore \/ Cardinality(rows) < Window)

ClearUnread_Marked(p) ==
    unread' = [unread EXCEPT ![p] = @ - Cardinality(Incoming(p) \ acked)]

ClearUnread(p) == unread' = [unread EXCEPT ![p] = 0]

\* The messages M are taken for noticed; are they on the screen?
Notice(shown, M) ==
    IF shown THEN noticed' = noticed \cup M /\ UNCHANGED lost
             ELSE lost' = lost \cup M /\ UNCHANGED noticed

\* refreshChat ends, and openCallView or the send that awaited it goes on.
RefreshDone(i) ==
    LET t == tasks[i] IN
    /\ t.fn = "refreshChat"
    /\ AppendTail(t.peer)
    /\ \/ /\ t.then = "openCallView"
          /\ GoesOn(i, [fn |-> "markHistoryRead", peer |-> t.peer])
          /\ ClearUnread(t.peer)
          /\ Notice(Shown(t.peer), Incoming(t.peer) \ noticed)
       \/ /\ t.then = "send" /\ Save(i)
          /\ UNCHANGED <<unread, noticed, lost>>
       \/ /\ t.then = "nothing" /\ Ends(i)
          /\ UNCHANGED <<unread, noticed, lost>>
    /\ UNCHANGED <<rowVars, current, onChat, loading, search, editing, clean, acked, gestures>>

MarkRead_Window(p) == acked' = acked \cup (Incoming(p) \cap box)

\* markHistoryRead: the whole history, not only what is on the screen.
MarkRead(p) == acked' = acked \cup Incoming(p)

MarkDone(i) ==
    /\ tasks[i].fn = "markHistoryRead"
    /\ MarkRead(tasks[i].peer)
    /\ Ends(i)
    /\ UNCHANGED <<rowVars, unread, screenVars, editing, noticed, lost, clean, gestures>>

\* The scroll handler.
LoadOlder ==
    /\ Gesture
    /\ onChat /\ ~search
    /\ ~loading /\ ~noMore /\ current # NoPeer /\ oldest # 0
    /\ loading' = TRUE
    /\ Start([fn |-> "loadOlderMessages", peer |-> current, before |-> oldest])
    /\ UNCHANGED <<rowVars, unread, current, onChat, box, oldest, noMore, search,
                   editing, told, clean>>

PrependPage_CountsFresh(rows) ==
    LET fresh == rows \ box
    IN  /\ box' = box \cup fresh
        /\ oldest' = IF fresh = {} THEN oldest ELSE FirstTs(fresh)
        /\ noMore' = (noMore \/ Cardinality(fresh) < Page)

\* A page includes the rows of the ts it starts from; a short one is the last, and so is
\* one that has nothing new.
PrependPage(rows) ==
    LET fresh == rows \ box
    IN  /\ box' = box \cup fresh
        /\ oldest' = IF fresh = {} THEN oldest ELSE FirstTs(fresh)
        /\ noMore' = (noMore \/ fresh = {} \/ Cardinality(rows) < Page)

OlderDone(i) ==
    LET t    == tasks[i]
        rows == Newest({m \in store[t.peer] : stamp[m] <= t.before}, Page)
    IN
    /\ t.fn = "loadOlderMessages"
    /\ PrependPage(rows)
    /\ clean' = (clean /\ (Cardinality(rows) < Page \/ ~(rows \subseteq box)))
    /\ loading' = FALSE
    /\ Ends(i)
    /\ UNCHANGED <<rowVars, unread, current, onChat, search, editing, told, gestures>>

-----------------------------------------------------------------------------
(* Messages *)

\* onText, after saveIncoming.
OnText(p) ==
    /\ saved < MaxMsgs
    /\ LET m == saved + 1 IN
       /\ SaveRow(p, m)
       /\ \/ /\ current = p
             /\ box' = IF search THEN box ELSE box \cup {m}
             /\ acked' = acked \cup {m}
             /\ Notice(Shown(p) /\ ~search, {m})
             /\ UNCHANGED unread
          \/ /\ current # p
             /\ unread' = [unread EXCEPT ![p] = @ + 1]
             /\ UNCHANGED <<box, told>>
    /\ UNCHANGED <<mine, current, onChat, oldest, noMore, loading, search, editing, tasks,
                   clean, gestures>>

\* Its sender deletes a message.
OnMsgDelete(p, m) ==
    /\ m \in Incoming(p)
    /\ store' = [store EXCEPT ![p] = @ \ {m}]
    /\ box' = IF current = p THEN box \ {m} ELSE box
    /\ UNCHANGED <<mine, stamp, unread, current, onChat, oldest, noMore, loading,
                   search, editing, tasks, saved, told, clean, gestures>>

\* doDelete: the user deletes a message on the screen, whichever chat has it.
DoDelete(m) ==
    /\ onChat /\ m \in box
    /\ store' = [p \in Peer |-> store[p] \ {m}]
    /\ box' = box \ {m}
    /\ UNCHANGED <<mine, stamp, unread, current, onChat, oldest, noMore, loading,
                   search, editing, tasks, saved, told, clean, gestures>>

\* send-text, up to its first await.
Send ==
    /\ Gesture
    /\ onChat /\ current # NoPeer /\ saved < MaxMsgs
    /\ \/ /\ editing # 0
          /\ Start([fn |-> "sendEdit", peer |-> current, msg |-> editing])
          /\ UNCHANGED <<box, oldest, noMore, loading, search, clean>>
       \/ /\ editing = 0 /\ search
          /\ search' = FALSE /\ EmptyChat
          /\ Start(Refresh(current, "send"))
       \/ /\ editing = 0 /\ ~search
          /\ Start([fn |-> "saveOutgoing", peer |-> current])
          /\ UNCHANGED <<box, oldest, noMore, loading, search, clean>>
    /\ UNCHANGED <<rowVars, unread, current, onChat, editing, told>>

SaveDone(i) ==
    /\ tasks[i].fn = "saveOutgoing"
    /\ Ends(i)
    /\ IF saved < MaxMsgs
         THEN LET m == saved + 1 IN
              /\ SaveRow(tasks[i].peer, m)
              /\ mine' = mine \cup {m} /\ box' = box \cup {m}
         ELSE UNCHANGED <<rowVars, box>>
    /\ UNCHANGED <<unread, current, onChat, oldest, noMore, loading, search, editing, clean,
                   told, gestures>>

-----------------------------------------------------------------------------
(* Editing *)

\* The menu of one's own message; enterEditMode reads the chat that is open.
Edit(m) ==
    /\ Gesture
    /\ onChat /\ current # NoPeer /\ m \in box \cap mine
    /\ Start([fn |-> "enterEditMode", peer |-> current, msg |-> m])
    /\ UNCHANGED <<rowVars, unread, screenVars, editing, told, clean>>

EditDone(i) ==
    LET t == tasks[i] IN
    /\ t.fn = "enterEditMode"
    /\ editing' = IF t.msg \in store[t.peer] THEN t.msg ELSE editing
    /\ Ends(i)
    /\ UNCHANGED <<rowVars, unread, screenVars, told, clean, gestures>>

CancelEdit ==
    /\ Gesture
    /\ onChat /\ editing # 0 /\ editing' = 0
    /\ UNCHANGED <<rowVars, unread, screenVars, tasks, told, clean>>

\* The message is edited; if it was still there, its new text is sent.
SendEditDone(i) ==
    LET t == tasks[i] IN
    /\ t.fn = "sendEdit"
    /\ editing' = 0
    /\ Ends(i)
    /\ UNCHANGED <<rowVars, unread, screenVars, told, clean, gestures>>

-----------------------------------------------------------------------------
(* Search *)

OpenSearch ==
    /\ Gesture
    /\ onChat /\ current # NoPeer /\ ~search /\ search' = TRUE
    /\ UNCHANGED <<rowVars, unread, current, onChat, box, oldest, noMore, loading,
                   editing, tasks, told, clean>>

CloseSearch ==
    /\ Gesture
    /\ onChat /\ search /\ search' = FALSE
    /\ EmptyChat
    /\ Start(Refresh(current, "nothing"))
    /\ UNCHANGED <<rowVars, unread, current, onChat, editing, told>>

RunSearch ==
    /\ Gesture
    /\ search /\ current # NoPeer
    /\ Start([fn |-> "runSearch", peer |-> current])
    /\ UNCHANGED <<rowVars, unread, screenVars, editing, told, clean>>

\* The hits replace what is shown, whatever that is by now.
SearchDone(i) ==
    /\ tasks[i].fn = "runSearch"
    /\ \E hits \in {{}, store[tasks[i].peer]} : box' = hits
    /\ Ends(i)
    /\ UNCHANGED <<rowVars, unread, current, onChat, oldest, noMore, loading, search,
                   editing, told, clean, gestures>>

-----------------------------------------------------------------------------
(* Clearing a chat, and the page *)

\* btn-clear-history in the chat; clearContactChat, which takes the badge too.
Clear(p, badge) ==
    /\ Gesture
    /\ ~badge => onChat /\ current = p
    /\ Start([fn |-> "clearHistory", peer |-> p, rows |-> store[p], badge |-> badge])
    /\ UNCHANGED <<rowVars, unread, screenVars, editing, told, clean>>

\* One row after the other.
ClearRow(i) ==
    LET t == tasks[i] IN
    /\ t.fn = "clearHistory" /\ t.rows # {}
    /\ store' = [store EXCEPT ![t.peer] = @ \ {Min(t.rows)}]
    /\ GoesOn(i, [t EXCEPT !.rows = @ \ {Min(t.rows)}])
    /\ UNCHANGED <<mine, stamp, unread, screenVars, editing, saved, told, clean,
                   gestures>>

\* What came meanwhile keeps its row; clearContactChat takes its badge.
ClearDone(i) ==
    LET t == tasks[i]
        p == IF t.badge THEN t.peer ELSE current
    IN
    /\ t.fn = "clearHistory" /\ t.rows = {}
    /\ IF t.badge
         THEN /\ ClearUnread(t.peer)
              /\ lost' = lost \cup (Incoming(t.peer) \ (noticed \cap acked))
              /\ UNCHANGED editing
         ELSE editing' = 0 /\ UNCHANGED <<unread, lost>>
    /\ IF t.badge /\ current # t.peer
         THEN Ends(i) /\ UNCHANGED <<box, oldest, noMore, loading, search, clean>>
         ELSE /\ EmptyChat
              /\ search' = (t.badge /\ search)
              /\ IF p = NoPeer THEN Ends(i) ELSE GoesOn(i, Refresh(p, "nothing"))
    /\ UNCHANGED <<rowVars, current, onChat, acked, noticed, gestures>>

\* Storage and badges stay; receipts that were about to be sent are not.
Reload ==
    /\ Gesture
    /\ current' = NoPeer /\ onChat' = FALSE /\ box' = {} /\ oldest' = 0
    /\ noMore' = FALSE /\ loading' = FALSE /\ search' = FALSE /\ editing' = 0
    /\ tasks' = <<>> /\ clean' = TRUE
    /\ lost' = lost \cup UNION {Incoming(t.peer) \ acked :
                                  t \in {x \in Range(tasks) : x.fn = "markHistoryRead"}}
    /\ UNCHANGED <<rowVars, unread, acked, noticed>>

-----------------------------------------------------------------------------
Next ==
    \/ \E p \in Peer : OpenCallView(p) \/ StartOutgoingCall(p) \/ OnText(p)
    \/ \E p \in Peer, m \in Msg : OnMsgDelete(p, m)
    \/ \E p \in Peer, badge \in BOOLEAN : Clear(p, badge)
    \/ \E m \in Msg : DoDelete(m) \/ Edit(m)
    \/ \E i \in DOMAIN tasks :
          RefreshDone(i) \/ MarkDone(i) \/ OlderDone(i) \/ SaveDone(i) \/ EditDone(i)
          \/ SendEditDone(i) \/ SearchDone(i) \/ ClearRow(i) \/ ClearDone(i)
    \/ Leave \/ LoadOlder \/ Send \/ CancelEdit
    \/ OpenSearch \/ CloseSearch \/ RunSearch \/ Reload

Spec == Init /\ [][Next]_vars

-----------------------------------------------------------------------------
(* Properties *)

Marking(p) == \E t \in Range(tasks) : t.fn = "markHistoryRead" /\ t.peer = p

(* Every message is noticed: it came to its chat while that was on the     *)
(* screen, or the chat was opened onto it, or it counts in its contact's   *)
(* badge, whatever chat is opened, left or called meanwhile; and its       *)
(* sender was sent the receipt by the time the badge is gone, or is about  *)
(* to be.  lost has the exceptions: the badge went and the chat had been   *)
(* left before openCallView came to clear it (app.js:704-708); the message *)
(* came to a chat that is searched (1491), or that is current but not on   *)
(* the screen, its contact being called from the list (3181); it came      *)
(* while its chat was being cleared (564); and the receipts a reload came  *)
(* before.                                                                 *)
NothingUnnoticed ==
    \A p \in Peer : \A m \in Incoming(p) : unread[p] = 0 /\ m \notin lost =>
        m \in noticed /\ (m \in acked \/ Marking(p))

(* A chat on the screen, with nothing being loaded, shows every message of *)
(* it, or scrolling up can still bring it, whatever came, was deleted or   *)
(* cleared meanwhile and whatever the clock showed -- provided nothing     *)
(* else was being loaded when the screen was last emptied, and no page     *)
(* read since was full of rows that were shown already, which the code     *)
(* takes for the start of the history (app.js:1010).                       *)
ChatComplete ==
    onChat /\ current # NoPeer /\ ~search /\ clean /\ Filling = {}
        => \A m \in store[current] : m \in box \/ (~noMore /\ stamp[m] <= oldest)
=============================================================================
