------------------------------ MODULE ChatProofs ------------------------------
(***************************************************************************)
(* Theorems about Chat, for any contacts, messages, windows and any number *)
(* of functions under way.  NothingUnnoticed needs no more than the types  *)
(* of the badges and of the list of functions: a function that ends or     *)
(* goes on leaves the others where they are.  ChatComplete rests on what   *)
(* the one function that fills the screen has of it (Screen).              *)
(***************************************************************************)
EXTENDS Chat, SequenceTheorems, FiniteSetTheorems, WellFoundedInduction, TLAPS

USE DEF rowVars, told

TasksListed == \E S : tasks \in Seq(S)

Inv ==
    /\ DOMAIN store = Peer /\ unread \in [Peer -> Nat]
    /\ TasksListed
    /\ NothingUnnoticed

-----------------------------------------------------------------------------
(* The list of functions *)

LEMMA SeqGrows ==
    ASSUME NEW S, NEW s \in Seq(S), NEW t
    PROVE  s \in Seq(S \cup {t})
<1>1. Len(s) \in Nat /\ s \in [1..Len(s) -> S]
      BY LenProperties
<1>2. s \in [1..Len(s) -> S \cup {t}]
      BY <1>1
<1>3. QED
      BY <1>1, <1>2, SeqDef

\* An item that is appended, replaced or removed leaves the others, at their places or
\* at the next.
LEMMA StartPlaces ==
    ASSUME NEW S, tasks \in Seq(S), NEW t \in S, tasks' = Append(tasks, t)
    PROVE  /\ tasks' \in Seq(S) /\ Len(tasks) + 1 \notin DOMAIN tasks
           /\ DOMAIN tasks' = DOMAIN tasks \cup {Len(tasks) + 1}
           /\ tasks'[Len(tasks) + 1] = t
           /\ \A j \in DOMAIN tasks : tasks'[j] = tasks[j]
<1>1. /\ tasks' \in Seq(S) /\ Len(tasks') = Len(tasks) + 1
      /\ \A j \in 1..Len(tasks) : tasks'[j] = tasks[j]
      /\ tasks'[Len(tasks) + 1] = t
      BY AppendProperties
<1>2. DOMAIN tasks = 1..Len(tasks) /\ DOMAIN tasks' = 1..Len(tasks') /\ Len(tasks) \in Nat
      BY <1>1, LenProperties
<1>3. QED
      BY <1>1, <1>2

LEMMA GoesOnPlaces ==
    ASSUME NEW S, tasks \in Seq(S), NEW i \in DOMAIN tasks, NEW t \in S, GoesOn(i, t)
    PROVE  /\ tasks' \in Seq(S) /\ DOMAIN tasks' = DOMAIN tasks
           /\ tasks'[i] = t /\ \A j \in DOMAIN tasks \ {i} : tasks'[j] = tasks[j]
<1>1. tasks' = [tasks EXCEPT ![i] = t]
      BY DEF GoesOn, ReplaceAt
<1>2. Len(tasks) \in Nat /\ tasks \in [1..Len(tasks) -> S]
      BY LenProperties
<1>3. tasks' \in [1..Len(tasks) -> S]
      BY <1>1, <1>2
<1>4. QED
      BY <1>1, <1>2, <1>3, SeqDef

\* The place from which the item at j came when the one at i is removed.
From(i, j) == IF j < i THEN j ELSE j + 1

LEMMA EndsPlaces ==
    ASSUME NEW S, tasks \in Seq(S), NEW i \in DOMAIN tasks, Ends(i)
    PROVE  /\ tasks' \in Seq(S)
           /\ \A j \in DOMAIN tasks' :
                 j \in Nat /\ From(i, j) \in DOMAIN tasks \ {i} /\ tasks'[j] = tasks[From(i, j)]
           /\ \A j \in DOMAIN tasks \ {i} : \E k \in DOMAIN tasks' : j = From(i, k)
<1> DEFINE n == Len(tasks)
           a == SubSeq(tasks, 1, i - 1)
           b == SubSeq(tasks, i + 1, n)
<1>1. n \in Nat /\ DOMAIN tasks = 1..n /\ i \in 1..n /\ \A j \in 1..n : tasks[j] \in S
      BY LenProperties
<1>2. /\ a \in Seq(S) /\ Len(a) = i - 1
      /\ \A j \in 1..(i - 1) : a[j] = tasks[j]
  <2>1. \A j \in 1..(i - 1) : tasks[j] \in S
        BY <1>1
  <2>2. /\ a \in Seq(S) /\ Len(a) = IF 1 <= i - 1 THEN (i - 1) - 1 + 1 ELSE 0
        /\ \A j \in 1..((i - 1) - 1 + 1) : a[j] = tasks[1 + j - 1]
        BY <1>1, <2>1, SubSeqProperties
  <2>3. Len(a) = i - 1
        BY <1>1, <2>2
  <2>4. \A j \in 1..(i - 1) : a[j] = tasks[j]
    <3> TAKE j \in 1..(i - 1)
    <3>1. j \in 1..((i - 1) - 1 + 1) /\ 1 + j - 1 = j
          BY <1>1
    <3>2. QED
          BY <2>2, <3>1
  <2>5. QED
        BY <2>2, <2>3, <2>4
<1>3. /\ b \in Seq(S) /\ Len(b) = n - i
      /\ \A j \in 1..(n - i) : b[j] = tasks[i + j]
  <2>1. /\ b \in Seq(S) /\ Len(b) = IF i + 1 <= n THEN n - (i + 1) + 1 ELSE 0
        /\ \A j \in 1..(n - (i + 1) + 1) : b[j] = tasks[(i + 1) + j - 1]
        BY <1>1, SubSeqProperties
  <2>2. Len(b) = n - i /\ n - (i + 1) + 1 = n - i
        BY <1>1, <2>1
  <2>3. ASSUME NEW j \in 1..(n - i) PROVE (i + 1) + j - 1 = i + j
        BY <1>1
  <2> HIDE DEF b
  <2>4. QED
        BY <2>1, <2>2, <2>3
<1> HIDE DEF a, b
<1>4. tasks' = a \o b
      BY DEF Ends, RemoveAt, a, b
<1>5. /\ a \o b \in Seq(S) /\ Len(a \o b) = n - 1
      /\ \A j \in 1..(n - 1) : (a \o b)[j] = IF j <= i - 1 THEN a[j] ELSE b[j - (i - 1)]
  <2>1. /\ a \o b \in Seq(S) /\ Len(a \o b) = Len(a) + Len(b)
        /\ \A j \in 1..(Len(a) + Len(b)) :
              (a \o b)[j] = IF j <= Len(a) THEN a[j] ELSE b[j - Len(a)]
        BY <1>2, <1>3, ConcatProperties
  <2>2. Len(a) + Len(b) = n - 1
        BY <1>1, <1>2, <1>3
  <2>3. QED
        BY <1>2, <2>1, <2>2
<1>6. DOMAIN tasks' = 1..(n - 1)
      BY <1>4, <1>5, LenProperties
<1>7. ASSUME NEW j \in DOMAIN tasks'
      PROVE  /\ j \in Nat /\ From(i, j) \in DOMAIN tasks \ {i}
             /\ tasks'[j] = tasks[From(i, j)]
  <2>1. CASE j < i
    <3>1. j \in 1..(n - 1) /\ j \in 1..(i - 1) /\ From(i, j) = j /\ j \in 1..n
          BY <1>1, <1>6, <2>1 DEF From
    <3>2. QED
          BY <1>1, <1>2, <1>4, <1>5, <2>1, <3>1
  <2>2. CASE ~(j < i)
    <3>1. /\ j \in 1..(n - 1) /\ j - (i - 1) \in 1..(n - i) /\ ~(j <= i - 1)
          /\ From(i, j) = j + 1 /\ i + (j - (i - 1)) = j + 1 /\ j + 1 \in 1..n /\ j + 1 # i
          BY <1>1, <1>6, <2>2 DEF From
    <3>2. tasks'[j] = b[j - (i - 1)]
          BY <1>4, <1>5, <3>1
    <3>3. b[j - (i - 1)] = tasks[j + 1]
          BY <1>3, <3>1
    <3>4. QED
          BY <1>1, <3>1, <3>2, <3>3
  <2>3. QED
        BY <2>1, <2>2
<1>8. ASSUME NEW j \in DOMAIN tasks \ {i}
      PROVE  \E k \in DOMAIN tasks' : j = From(i, k)
  <2>1. CASE j < i
        BY <1>1, <1>6, <2>1 DEF From
  <2>2. CASE j > i
    <3>1. j - 1 \in 1..(n - 1) /\ ~(j - 1 < i) /\ j = (j - 1) + 1
          BY <1>1, <2>2
    <3>2. QED
          BY <1>6, <3>1 DEF From
  <2>3. QED
        BY <1>1, <2>1, <2>2
<1>9. QED
      BY <1>4, <1>5, <1>7, <1>8

\* What is in a list stays in it when another item is appended, replaced or removed.
LEMMA StartKeeps ==
    ASSUME NEW t, TasksListed, tasks' = Append(tasks, t)
    PROVE  TasksListed' /\ \A j \in DOMAIN tasks : tasks[j] \in Range(tasks')
<1>1. PICK S : tasks \in Seq(S)
      BY DEF TasksListed
<1>2. tasks \in Seq(S \cup {t})
      BY <1>1, SeqGrows
<1>3. QED
      BY <1>2, StartPlaces DEF TasksListed, Range

LEMMA GoesOnKeeps ==
    ASSUME NEW t, NEW i \in DOMAIN tasks, TasksListed, GoesOn(i, t)
    PROVE  /\ TasksListed' /\ t \in Range(tasks')
           /\ \A j \in DOMAIN tasks \ {i} : tasks[j] \in Range(tasks')
<1>1. PICK S : tasks \in Seq(S)
      BY DEF TasksListed
<1>2. tasks \in Seq(S \cup {t})
      BY <1>1, SeqGrows
<1>3. QED
      BY <1>2, GoesOnPlaces DEF TasksListed, Range

LEMMA EndsKeeps ==
    ASSUME NEW i \in DOMAIN tasks, TasksListed, Ends(i)
    PROVE  TasksListed' /\ \A j \in DOMAIN tasks \ {i} : tasks[j] \in Range(tasks')
<1>1. PICK S : tasks \in Seq(S)
      BY DEF TasksListed
<1>2. QED
      BY <1>1, EndsPlaces DEF TasksListed, Range

-----------------------------------------------------------------------------
(* The marking of one chat survives what other functions do. *)

LEMMA MarkingKept ==
    ASSUME NEW i, \A j \in DOMAIN tasks \ {i} : tasks[j] \in Range(tasks'), NEW p \in Peer,
           Marking(p),
           ~(tasks[i].fn = "markHistoryRead" /\ tasks[i].peer = p)
    PROVE  Marking(p)'
<1>1. PICK j \in DOMAIN tasks : tasks[j].fn = "markHistoryRead" /\ tasks[j].peer = p
      BY DEF Marking, Range
<1>2. j # i
      BY <1>1
<1>3. QED
      BY <1>1, <1>2 DEF Marking

\* A step that adds no unread message, takes no badge and ends no marking.
LEMMA InvKept ==
    ASSUME Inv, TasksListed', DOMAIN store' = Peer, unread' \in [Peer -> Nat],
           \A p \in Peer : Incoming(p)' \subseteq Incoming(p) /\ unread'[p] = unread[p],
           acked \subseteq acked', noticed \subseteq noticed', lost \subseteq lost',
           \A p \in Peer : Marking(p) => Marking(p)'
    PROVE  Inv'
BY DEF Inv, NothingUnnoticed

\* Nothing of it happens when a function starts and touches the page only.
LEMMA InvStart ==
    ASSUME Inv, NEW t, Start(t), UNCHANGED <<store, mine, unread, told>>
    PROVE  Inv'
<1>1. TasksListed' /\ \A j \in DOMAIN tasks : tasks[j] \in Range(tasks')
      BY StartKeeps DEF Inv, Start
<1>2. \A p \in Peer : Marking(p) => Marking(p)'
      BY <1>1 DEF Marking, Range
<1>3. QED
      BY <1>1, <1>2, InvKept DEF Inv, Incoming

LEMMA InvSame ==
    ASSUME Inv, UNCHANGED <<store, mine, unread, told, tasks>>
    PROVE  Inv'
BY DEF Inv, NothingUnnoticed, Incoming, Marking, TasksListed

LEMMA EndsKeepsMarking ==
    ASSUME NEW i \in DOMAIN tasks, TasksListed, Ends(i), tasks[i].fn # "markHistoryRead"
    PROVE  TasksListed' /\ \A p \in Peer : Marking(p) => Marking(p)'
BY EndsKeeps, MarkingKept

LEMMA GoesOnKeepsMarking ==
    ASSUME NEW i \in DOMAIN tasks, NEW t, TasksListed, GoesOn(i, t),
           tasks[i].fn # "markHistoryRead"
    PROVE  TasksListed' /\ \A p \in Peer : Marking(p) => Marking(p)'
BY GoesOnKeeps, MarkingKept

-----------------------------------------------------------------------------
(* One step per action *)

LEMMA InvRefreshDone ==
    ASSUME Inv, NEW i \in DOMAIN tasks, RefreshDone(i)
    PROVE  Inv'
<1> DEFINE q == tasks[i].peer
<1>1. /\ TasksListed /\ tasks[i].fn # "markHistoryRead"
      /\ UNCHANGED <<store, mine, acked>>
      BY DEF Inv, RefreshDone
<1>2. CASE /\ GoesOn(i, [fn |-> "markHistoryRead", peer |-> q])
           /\ ClearUnread(q) /\ Notice(Shown(q), Incoming(q) \ noticed)
  <2>1. TasksListed' /\ \A p \in Peer : Marking(p) => Marking(p)'
        BY <1>1, <1>2, GoesOnKeepsMarking
  <2>2. [fn |-> "markHistoryRead", peer |-> q] \in Range(tasks')
        BY <1>1, <1>2, GoesOnKeeps
  <2>3. \A p \in Peer : p = q => Marking(p)'
        BY <2>2 DEF Marking
  <2>4. unread' \in [Peer -> Nat] /\ \A p \in Peer : p # q => unread'[p] = unread[p]
        BY <1>2 DEF ClearUnread, Inv
  <2>5. /\ noticed \subseteq noticed' /\ lost \subseteq lost'
        /\ Incoming(q) \subseteq noticed' \cup lost'
        BY <1>2 DEF Notice
  <2>6. \A p \in Peer : Incoming(p)' = Incoming(p)
        BY <1>1 DEF Incoming
  <2>7. ASSUME NEW p \in Peer, NEW m \in Incoming(p), unread'[p] = 0, m \notin lost'
        PROVE  m \in noticed' /\ (m \in acked' \/ Marking(p)')
    <3>1. CASE p = q
          BY <2>3, <2>5, <2>7, <3>1
    <3>2. CASE p # q
      <4>1. m \in noticed /\ (m \in acked \/ Marking(p))
            BY <2>4, <2>5, <2>7, <3>2 DEF Inv, NothingUnnoticed
      <4>2. QED
            BY <1>1, <2>1, <2>5, <4>1
    <3>3. QED
          BY <3>1, <3>2
  <2>8. NothingUnnoticed'
        BY <2>6, <2>7 DEF NothingUnnoticed
  <2>9. QED
        BY <1>1, <2>1, <2>4, <2>8 DEF Inv
<1>3. CASE Save(i) /\ UNCHANGED <<unread, noticed, lost>>
  <2>1. TasksListed' /\ \A p \in Peer : Marking(p) => Marking(p)'
        BY <1>1, <1>3, EndsKeepsMarking, GoesOnKeepsMarking DEF Save
  <2>2. QED
        BY <1>1, <1>3, <2>1, InvKept DEF Inv, Incoming
<1>4. CASE Ends(i) /\ UNCHANGED <<unread, noticed, lost>>
      BY <1>1, <1>4, EndsKeepsMarking, InvKept DEF Inv, Incoming
<1>5. QED
      BY <1>2, <1>3, <1>4 DEF RefreshDone

\* The chat is marked, and with it all that its marking stood for.
LEMMA InvMarkDone ==
    ASSUME Inv, NEW i \in DOMAIN tasks, MarkDone(i)
    PROVE  Inv'
<1> DEFINE q == tasks[i].peer
<1>1. /\ TasksListed /\ Ends(i) /\ acked' = acked \cup Incoming(q)
      /\ UNCHANGED <<store, mine, unread, noticed, lost>>
      BY DEF Inv, MarkDone, MarkRead
<1>2. TasksListed' /\ \A j \in DOMAIN tasks \ {i} : tasks[j] \in Range(tasks')
      BY <1>1, EndsKeeps
<1>3. \A p \in Peer : p # q /\ Marking(p) => Marking(p)'
      BY <1>2, MarkingKept
<1>4. QED
      BY <1>1, <1>2, <1>3 DEF Inv, NothingUnnoticed, Incoming

LEMMA InvOnText ==
    ASSUME Inv, NEW p \in Peer, OnText(p)
    PROVE  Inv'
<1> DEFINE m == saved + 1
<1>1. /\ store' = [store EXCEPT ![p] = @ \cup {m}]
      /\ UNCHANGED <<mine, tasks>>
      BY DEF OnText, SaveRow
<1>2. /\ DOMAIN store' = Peer /\ TasksListed'
      /\ \A q \in Peer : Marking(q)' = Marking(q)
      BY <1>1 DEF Inv, TasksListed, Marking
<1>3. \A q \in Peer : Incoming(q)' \subseteq Incoming(q) \cup (IF q = p THEN {m} ELSE {})
      BY <1>1 DEF Inv, Incoming
<1>4. CASE /\ acked' = acked \cup {m} /\ Notice(Shown(p) /\ ~search, {m})
           /\ UNCHANGED unread
  <2>1. noticed \subseteq noticed' /\ lost \subseteq lost' /\ m \in noticed' \cup lost'
        BY <1>4 DEF Notice
  <2>2. QED
        BY <1>1, <1>2, <1>3, <1>4, <2>1 DEF Inv, NothingUnnoticed
<1>5. CASE unread' = [unread EXCEPT ![p] = @ + 1] /\ UNCHANGED <<acked, noticed, lost>>
  <2>1. /\ unread' \in [Peer -> Nat] /\ unread'[p] > 0
        /\ \A q \in Peer : q # p => unread'[q] = unread[q]
        BY <1>5 DEF Inv
  <2>2. QED
        BY <1>1, <1>2, <1>3, <1>5, <2>1 DEF Inv, NothingUnnoticed
<1>6. QED
      BY <1>4, <1>5 DEF OnText

\* Fewer messages, and nothing else that counts.
LEMMA InvFewer ==
    ASSUME Inv, DOMAIN store' = Peer, \A p \in Peer : store'[p] \subseteq store[p],
           UNCHANGED <<mine, unread, told>>,
           TasksListed', \A p \in Peer : Marking(p) => Marking(p)'
    PROVE  Inv'
BY InvKept DEF Inv, Incoming

LEMMA InvSaveDone ==
    ASSUME Inv, NEW i \in DOMAIN tasks, SaveDone(i)
    PROVE  Inv'
<1>1. /\ TasksListed /\ Ends(i) /\ tasks[i].fn # "markHistoryRead"
      /\ UNCHANGED <<unread, told>>
      BY DEF Inv, SaveDone
<1>2. TasksListed' /\ \A p \in Peer : Marking(p) => Marking(p)'
      BY <1>1, EndsKeepsMarking
<1>3. DOMAIN store' = Peer /\ \A p \in Peer : Incoming(p)' \subseteq Incoming(p)
      BY DEF SaveDone, SaveRow, Inv, Incoming
<1>4. QED
      BY <1>1, <1>2, <1>3, InvKept DEF Inv

LEMMA InvClearDone ==
    ASSUME Inv, NEW i \in DOMAIN tasks, ClearDone(i)
    PROVE  Inv'
<1> DEFINE t == tasks[i]
<1>1. /\ TasksListed /\ t.fn # "markHistoryRead"
      /\ UNCHANGED <<store, mine, acked, noticed>>
      BY DEF Inv, ClearDone
<1>2. TasksListed' /\ \A p \in Peer : Marking(p) => Marking(p)'
      BY <1>1, EndsKeepsMarking, GoesOnKeepsMarking DEF ClearDone
<1>3. CASE /\ ClearUnread(t.peer)
           /\ lost' = lost \cup (Incoming(t.peer) \ (noticed \cap acked))
  <2>1. unread' \in [Peer -> Nat] /\ \A p \in Peer : p # t.peer => unread'[p] = unread[p]
        BY <1>3 DEF ClearUnread, Inv
  <2>2. QED
        BY <1>1, <1>2, <1>3, <2>1 DEF Inv, NothingUnnoticed, Incoming
<1>4. CASE UNCHANGED <<unread, lost>>
      BY <1>1, <1>2, <1>4, InvKept DEF Inv, Incoming
<1>5. QED
      BY <1>3, <1>4 DEF ClearDone

LEMMA InvReload ==
    ASSUME Inv, Reload
    PROVE  Inv'
<1>1. /\ tasks' = <<>> /\ UNCHANGED <<store, mine, unread, acked, noticed>>
      /\ lost' = lost \cup UNION {Incoming(t.peer) \ acked :
                                     t \in {x \in Range(tasks) : x.fn = "markHistoryRead"}}
      BY DEF Reload
<1>2. TasksListed'
      BY <1>1 DEF TasksListed
<1>3. ASSUME NEW p \in Peer, Marking(p)
      PROVE  Incoming(p) \ acked \subseteq lost'
      BY <1>1, <1>3 DEF Marking
<1>4. QED
      BY <1>1, <1>2, <1>3 DEF Inv, NothingUnnoticed, Incoming

\* The other functions that end.
LEMMA InvOtherDone ==
    ASSUME Inv, NEW i \in DOMAIN tasks,
           OlderDone(i) \/ EditDone(i) \/ SendEditDone(i) \/ SearchDone(i)
    PROVE  Inv'
<1>1. /\ TasksListed /\ Ends(i) /\ tasks[i].fn # "markHistoryRead"
      /\ UNCHANGED <<store, mine, unread, told>>
      BY DEF Inv, OlderDone, EditDone, SendEditDone, SearchDone
<1>2. QED
      BY <1>1, EndsKeepsMarking, InvKept DEF Inv, Incoming

LEMMA InvClearRow ==
    ASSUME Inv, NEW i \in DOMAIN tasks, ClearRow(i)
    PROVE  Inv'
<1> DEFINE t == tasks[i]  x == Min(t.rows)
<1>1. /\ TasksListed /\ t.fn # "markHistoryRead"
      /\ GoesOn(i, [t EXCEPT !.rows = @ \ {x}])
      /\ UNCHANGED <<mine, unread, told>>
      /\ store' = [store EXCEPT ![t.peer] = @ \ {x}]
      BY DEF Inv, ClearRow
<1> HIDE DEF x
<1>2. TasksListed' /\ \A p \in Peer : Marking(p) => Marking(p)'
      BY <1>1, GoesOnKeepsMarking
<1>3. DOMAIN store' = Peer /\ \A p \in Peer : store'[p] \subseteq store[p]
      BY <1>1 DEF Inv
<1>4. QED
      BY <1>1, <1>2, <1>3, InvFewer

-----------------------------------------------------------------------------
LEMMA InvInit == Init => Inv
<1> SUFFICES ASSUME Init PROVE Inv
    OBVIOUS
<1>1. tasks = <<>> /\ store = [p \in Peer |-> {}] /\ unread = [p \in Peer |-> 0]
      BY DEF Init
<1>2. TasksListed
      BY <1>1 DEF TasksListed
<1>3. QED
      BY <1>1, <1>2 DEF Inv, NothingUnnoticed, Incoming

LEMMA InvNext == Inv /\ [Next]_vars => Inv'
<1> SUFFICES ASSUME Inv, [Next]_vars
             PROVE  Inv'
    OBVIOUS
<1> USE DEF screenVars
<1>1. ASSUME NEW p \in Peer, OpenCallView(p) PROVE Inv'
      BY <1>1, InvStart DEF OpenCallView
<1>2. ASSUME NEW p \in Peer, StartOutgoingCall(p) PROVE Inv'
      BY <1>2, InvSame DEF StartOutgoingCall
<1>3. ASSUME NEW p \in Peer, OnText(p) PROVE Inv'
      BY <1>3, InvOnText
<1>4. ASSUME NEW p \in Peer, NEW m \in Msg, OnMsgDelete(p, m) PROVE Inv'
  <2>1. /\ UNCHANGED <<mine, unread, told, tasks>>
        /\ DOMAIN store' = Peer /\ \A q \in Peer : store'[q] \subseteq store[q]
        BY <1>4 DEF OnMsgDelete, Inv
  <2>2. QED
        BY <2>1, InvFewer DEF Inv, TasksListed, Marking
<1>5. ASSUME NEW m \in Msg, DoDelete(m) PROVE Inv'
  <2>1. /\ UNCHANGED <<mine, unread, told, tasks>>
        /\ DOMAIN store' = Peer /\ \A q \in Peer : store'[q] \subseteq store[q]
        BY <1>5 DEF DoDelete, Inv
  <2>2. QED
        BY <2>1, InvFewer DEF Inv, TasksListed, Marking
<1>6. ASSUME NEW p \in Peer, NEW badge \in BOOLEAN, Clear(p, badge) PROVE Inv'
      BY <1>6, InvStart DEF Clear
<1>7. ASSUME NEW m \in Msg, Edit(m) PROVE Inv'
      BY <1>7, InvStart DEF Edit
<1>8. ASSUME NEW i \in DOMAIN tasks,
             RefreshDone(i) \/ MarkDone(i) \/ OlderDone(i) \/ SaveDone(i) \/ EditDone(i)
             \/ SendEditDone(i) \/ SearchDone(i) \/ ClearRow(i) \/ ClearDone(i)
      PROVE  Inv'
      BY <1>8, InvRefreshDone, InvMarkDone, InvSaveDone, InvOtherDone, InvClearRow,
         InvClearDone
<1>9. CASE Leave \/ CancelEdit \/ OpenSearch
      BY <1>9, InvSame DEF Leave, CancelEdit, OpenSearch
<1>10. CASE LoadOlder
       BY <1>10, InvStart DEF LoadOlder
<1>11. CASE Send
       BY <1>11, InvStart DEF Send
<1>12. CASE CloseSearch
       BY <1>12, InvStart DEF CloseSearch
<1>13. CASE RunSearch
       BY <1>13, InvStart DEF RunSearch
<1>14. CASE Reload
       BY <1>14, InvReload
<1>15. CASE UNCHANGED vars
       BY <1>15, InvSame DEF vars
<1>16. QED
       BY <1>1, <1>2, <1>3, <1>4, <1>5, <1>6, <1>7, <1>8, <1>9, <1>10, <1>11, <1>12, <1>13,
          <1>14, <1>15 DEF Next

(* A message that is not in its contact's badge any more was noticed, and   *)
(* its receipt was sent or is about to be (app.js:704-709, 1490-1502): but  *)
(* for those in lost, which lie in a chat that was left before openCallView *)
(* came to clear its badge, came to one that was searched, called or        *)
(* cleared, or whose receipts a reload came before.                         *)
THEOREM ChatNothingUnnoticed == Spec => []NothingUnnoticed
<1>1. Inv => NothingUnnoticed
      BY DEF Inv
<1>2. QED
      BY <1>1, InvInit, InvNext, PTL DEF Spec

-----------------------------------------------------------------------------
(* The newest rows of a history *)

LEMMA Least ==
    ASSUME NEW S, S \subseteq Nat, S # {}
    PROVE  Min(S) \in S /\ \A y \in S : Min(S) <= y
<1> DEFINE R == OpToRel(<, Nat)
<1>1. IsWellFoundedOn(R, Nat)
      BY NatLessThanWellFounded
<1>2. \E x \in S : \A y \in S : x <= y
  <2>1. \A x, y \in Nat : x < y => <<x, y>> \in R
        BY DEF OpToRel
  <2> HIDE DEF R
  <2>2. \E x \in S : \A y \in S : ~(<<y, x>> \in R)
        BY <1>1, WFMin, Zenon
  <2>3. PICK x \in S : \A y \in S : ~(<<y, x>> \in R)
        BY <2>2
  <2>4. ASSUME NEW y \in S PROVE x <= y
    <3>1. x \in Nat /\ y \in Nat /\ ~(y < x)
          BY <2>1, <2>3
    <3>2. QED
          BY <3>1
  <2>5. QED
        BY <2>4
<1> DEFINE Low(x) == x \in S /\ \A y \in S : x <= y
<1>3. Low(CHOOSE x : Low(x))
      BY <1>2, Zenon
<1>4. (CHOOSE x : Low(x)) = Min(S)
      BY Zenon DEF Min
<1>5. QED
      BY <1>3, <1>4

LEMMA Greatest ==
    ASSUME NEW n \in Nat, NEW S \in SUBSET (1..n), S # {}
    PROVE  \E x \in S : \A y \in S : y <= x
<1> DEFINE T == {n - x : x \in S}
<1>1. T \subseteq Nat /\ T # {}
  <2>1. \A x \in S : n - x \in Nat
        OBVIOUS
  <2>2. QED
        BY <2>1
<1>2. Min(T) \in T /\ \A y \in T : Min(T) <= y
      BY <1>1, Least
<1>3. PICK x \in S : Min(T) = n - x
      BY <1>2
<1>4. ASSUME NEW y \in S PROVE y <= x
  <2>1. n - x <= n - y
        BY <1>2, <1>3
  <2>2. QED
        BY <2>1
<1>5. QED
      BY <1>4

\* Of some rows there is one that none is later than.
LEMMA LastRow ==
    ASSUME NEW n \in Nat, NEW S \in SUBSET (1..n), S # {}, NEW k \in Nat,
           \A x \in S : stamp[x] \in 1..k
    PROVE  \E x \in S : \A y \in S : ~Later(y, x)
<1> DEFINE T == {stamp[x] : x \in S}
<1>1. T \in SUBSET (1..k) /\ T # {}
      OBVIOUS
<1>2. PICK t \in T : \A y \in T : y <= t
      BY <1>1, Greatest
<1> DEFINE R == {x \in S : stamp[x] = t}
<1>3. R \in SUBSET (1..n) /\ R # {}
      BY <1>2
<1>4. PICK x \in R : \A y \in R : y <= x
      BY <1>3, Greatest
<1>5. ASSUME NEW y \in S, Later(y, x) PROVE FALSE
  <2>5. stamp[y] \in T
        OBVIOUS
  <2>6. stamp[y] <= t
        BY <1>2, <2>5
  <2>7. t \in 1..k
        BY <1>1, <1>2
  <2>8. x \in S /\ stamp[x] = t
        BY <1>4
  <2>9. stamp[y] \in Nat /\ y \in Nat /\ x \in Nat /\ t \in Nat
        BY <2>7, <2>8
  <2>1. stamp[y] <= t /\ stamp[y] \in Nat /\ t \in Nat /\ stamp[x] = t /\ y \in Nat /\ x \in Nat
        BY <2>6, <2>8, <2>9
  <2>2. stamp[y] = t /\ y > x
        BY <1>5, <2>1 DEF Later
  <2>3. y <= x
        BY <1>4, <2>2
  <2>4. QED
        BY <2>1, <2>2, <2>3
<1>6. QED
      BY <1>4, <1>5

\* What a history tail leaves out is no later than what it has ...
LEMMA NewestLast ==
    ASSUME NEW n \in Nat, NEW S \in SUBSET (1..n), NEW k \in Nat,
           \A x \in S : stamp[x] \in Nat,
           NEW r \in Newest(S, k), NEW m \in S \ Newest(S, k)
    PROVE  stamp[m] <= stamp[r]
<1>1. r \in S /\ r \in Nat /\ m \in Nat /\ stamp[r] \in Nat /\ stamp[m] \in Nat
      BY DEF Newest
<1> SUFFICES ASSUME stamp[m] > stamp[r] PROVE FALSE
    BY <1>1
<1> DEFINE A == {x \in S : Later(x, r)}  B == {x \in S : Later(x, m)}
<1>2. IsFiniteSet(A) /\ Cardinality(A) \in Nat
  <2>1. IsFiniteSet(1..n)
        BY FS_Interval
  <2>2. QED
        BY <2>1, FS_Subset, FS_CardinalityType
<1>3. B \in SUBSET A
  <2>1. ASSUME NEW x \in S, Later(x, m) PROVE Later(x, r)
    <3>1. stamp[x] \in Nat /\ stamp[x] >= stamp[m]
          BY <1>1, <2>1 DEF Later
    <3>2. QED
          BY <1>1, <3>1 DEF Later
  <2>2. QED
        BY <2>1
<1>4. Cardinality(B) <= Cardinality(A) /\ Cardinality(B) \in Nat
      BY <1>2, <1>3, FS_Subset, FS_CardinalityType
<1>5. Cardinality(A) < k
      BY DEF Newest
<1>6. ~(Cardinality(B) < k)
      BY Zenon DEF Newest
<1>7. QED
      BY <1>2, <1>4, <1>5, <1>6

\* ... and it leaves something out only when it is full.
LEMMA NewestFull ==
    ASSUME NEW n \in Nat, NEW S \in SUBSET (1..n), NEW k \in Nat,
           NEW h \in Nat, \A x \in S : stamp[x] \in 1..h,
           NEW o \in S \ Newest(S, k)
    PROVE  Cardinality(Newest(S, k)) \in Nat /\ Cardinality(Newest(S, k)) >= k
<1> DEFINE N == Newest(S, k)
<1>1. PICK m \in S \ N : \A y \in S \ N : ~Later(y, m)
  <2>1. S \ N \in SUBSET (1..n) /\ S \ N # {} /\ \A x \in S \ N : stamp[x] \in 1..h
        OBVIOUS
  <2> HIDE DEF N
  <2>2. QED
        BY <2>1, LastRow
<1> DEFINE B == {x \in S : Later(x, m)}
<1>2. IsFiniteSet(N) /\ Cardinality(N) \in Nat
  <2>1. IsFiniteSet(1..n)
        BY FS_Interval
  <2>2. N \in SUBSET (1..n)
        BY DEF Newest
  <2>3. QED
        BY <2>1, <2>2, FS_Subset, FS_CardinalityType
<1>3. B \in SUBSET N
      BY <1>1
<1>4. Cardinality(B) <= Cardinality(N) /\ Cardinality(B) \in Nat
      BY <1>2, <1>3, FS_Subset, FS_CardinalityType
<1>5. ~(Cardinality(B) < k)
      BY <1>1, Zenon DEF Newest
<1>6. QED
      BY <1>2, <1>4, <1>5

\* The ts of the first of some rows.
LEMMA FirstTsLeast ==
    ASSUME NEW R, R # {}, \A m \in R : stamp[m] \in Nat
    PROVE  /\ \E m \in R : FirstTs(R) = stamp[m]
           /\ \A m \in R : FirstTs(R) <= stamp[m]
<1> DEFINE T == {stamp[m] : m \in R}
<1>1. T \subseteq Nat /\ T # {}
      OBVIOUS
<1>2. FirstTs(R) = Min(T)
      BY DEF FirstTs
<1> HIDE DEF T
<1>3. Min(T) \in T /\ \A t \in T : Min(T) <= t
      BY <1>1, Least
<1>4. QED
      BY <1>2, <1>3 DEF T

-----------------------------------------------------------------------------
(* The functions under way *)

LEMMA TaskKinds ==
    ASSUME NEW t \in Task
    PROVE  /\ t.peer \in Peer
           /\ t.fn \in {"refreshChat", "markHistoryRead", "runSearch", "loadOlderMessages",
                        "enterEditMode", "sendEdit", "saveOutgoing", "clearHistory"}
           /\ t.fn = "refreshChat" => t.then \in Then
           /\ t.fn = "loadOlderMessages" => t.before \in Ts
           /\ t.fn \in {"enterEditMode", "sendEdit"} => t.msg \in Msg
           /\ t.fn = "clearHistory" =>
                 /\ t.rows \in SUBSET Msg /\ t.badge \in BOOLEAN
                 /\ t = [fn |-> "clearHistory", peer |-> t.peer, rows |-> t.rows,
                         badge |-> t.badge]
BY DEF Task

LEMMA TaskMade ==
    ASSUME NEW p \in Peer
    PROVE  /\ \A then \in Then : Refresh(p, then) \in Task
           /\ [fn |-> "markHistoryRead", peer |-> p] \in Task
           /\ [fn |-> "runSearch", peer |-> p] \in Task
           /\ [fn |-> "saveOutgoing", peer |-> p] \in Task
           /\ \A ts \in Ts : [fn |-> "loadOlderMessages", peer |-> p, before |-> ts] \in Task
           /\ \A m \in Msg : /\ [fn |-> "enterEditMode", peer |-> p, msg |-> m] \in Task
                             /\ [fn |-> "sendEdit", peer |-> p, msg |-> m] \in Task
           /\ \A rows \in SUBSET Msg, badge \in BOOLEAN :
                 [fn |-> "clearHistory", peer |-> p, rows |-> rows, badge |-> badge] \in Task
BY DEF Task, Refresh

LEMMA StartTyped ==
    ASSUME tasks \in Seq(Task), NEW t \in Task, Start(t)
    PROVE  tasks' \in Seq(Task)
BY StartPlaces DEF Start

LEMMA GoesOnTyped ==
    ASSUME tasks \in Seq(Task), NEW i \in DOMAIN tasks, NEW t \in Task, GoesOn(i, t)
    PROVE  tasks' \in Seq(Task)
BY GoesOnPlaces

LEMMA EndsTyped ==
    ASSUME tasks \in Seq(Task), NEW i \in DOMAIN tasks, Ends(i)
    PROVE  tasks' \in Seq(Task)
BY EndsPlaces

-----------------------------------------------------------------------------
(* Types: the screen has one of the contacts' chats, and no message or      *)
(* badge runs ahead of what was saved.                                      *)

Bounds ==
    /\ onChat => current \in Peer
    /\ \A p \in Peer : store[p] \subseteq 1..saved /\ unread[p] <= saved
    /\ \A m \in 1..saved : stamp[m] \in Ts

TInv == TypeOK /\ Bounds

\* The parts of TInv, as the handlers change them.
Rows ==
    /\ store \in [Peer -> SUBSET Msg] /\ mine \in SUBSET Msg
    /\ saved \in 0..MaxMsgs
    /\ \A p \in Peer : store[p] \subseteq 1..saved
    /\ stamp \in [Msg -> Ts \cup {0}] /\ \A m \in 1..saved : stamp[m] \in Ts
Badges ==
    /\ unread \in [Peer -> Nat] /\ \A p \in Peer : unread[p] <= saved
    /\ acked \in SUBSET Msg /\ noticed \in SUBSET Msg /\ lost \in SUBSET Msg
Place ==
    /\ current \in Peer \cup {NoPeer} /\ onChat \in BOOLEAN /\ search \in BOOLEAN
    /\ onChat => current \in Peer
    /\ editing \in Msg \cup {0}
Loaded ==
    /\ box \in SUBSET Msg /\ oldest \in Ts \cup {0}
    /\ noMore \in BOOLEAN /\ loading \in BOOLEAN /\ clean \in BOOLEAN
Under == tasks \in Seq(Task) /\ gestures \in 0..MaxGestures

LEMMA TInvParts == TInv <=> Rows /\ Badges /\ Place /\ Loaded /\ Under
<1> USE ChatAssumption
<1>1. TInv => Rows
      BY DEF TInv, TypeOK, Bounds, Rows, Msg
<1>2. TInv => Badges
      BY DEF TInv, TypeOK, Bounds, Badges, Msg
<1>3. TInv => Place /\ Under
      BY DEF TInv, TypeOK, Bounds, Place, Under
<1>4. TInv => Loaded
      BY DEF TInv, TypeOK, Bounds, Loaded, Msg
<1>5. ASSUME Rows, Badges, Place, Loaded, Under
      PROVE  TInv
  <2>1. unread \in [Peer -> 0..MaxMsgs]
        BY <1>5 DEF Rows, Badges
  <2>2. saved \in Msg \cup {0}
        BY <1>5 DEF Rows, Msg
  <2>3. Bounds
        BY <1>5, <2>2 DEF Bounds, Rows, Badges, Place
  <2>4. TypeOK
        BY <1>5, <2>1, <2>2 DEF TypeOK, Rows, Badges, Place, Loaded, Under
  <2>5. QED
        BY <2>3, <2>4 DEF TInv
<1>6. QED
      BY <1>1, <1>2, <1>3, <1>4, <1>5

LEMMA GestureTyped == ASSUME Under, Gesture PROVE gestures' \in 0..MaxGestures
BY ChatAssumption DEF Under, Gesture

LEMMA EmptyChatLoaded == ASSUME EmptyChat PROVE Loaded'
<1>1. (Filling = {}) \in BOOLEAN
      OBVIOUS
<1>2. clean' \in BOOLEAN
      BY <1>1, Zenon DEF EmptyChat
<1>3. box' = {} /\ oldest' = 0 /\ noMore' = FALSE /\ loading' = FALSE
      BY DEF EmptyChat
<1>4. QED
      BY <1>2, <1>3 DEF Loaded

\* A gesture that starts a function.
LEMMA TInvStart ==
    ASSUME TInv, NEW t \in Task, Gesture, Start(t), Place', Loaded',
           UNCHANGED <<store, mine, unread, saved, stamp, told>>
    PROVE  TInv'
<1>1. Rows' /\ Badges'
      BY TInvParts DEF Rows, Badges
<1>2. Under'
      BY TInvParts, GestureTyped, StartTyped DEF Under
<1>3. QED
      BY <1>1, <1>2, TInvParts, PTL

\* A function that goes on or ends, and leaves rows, badges and place alone.
LEMMA TInvDone ==
    ASSUME TInv, tasks' \in Seq(Task), Place', Loaded',
           UNCHANGED <<store, mine, unread, saved, stamp, told, gestures>>
    PROVE  TInv'
<1>1. Rows' /\ Badges' /\ Under'
      BY TInvParts DEF Rows, Badges, Under
<1>2. QED
      BY <1>1, TInvParts, PTL

\* Rows are deleted, and maybe what #chat shows of them.
LEMMA TInvFewer ==
    ASSUME TInv, store' \in [Peer -> SUBSET Msg], \A p \in Peer : store'[p] \subseteq store[p],
           box' \subseteq box, tasks' \in Seq(Task),
           UNCHANGED <<mine, unread, current, onChat, oldest, noMore, loading, search, editing,
                       saved, stamp, told, clean, gestures>>
    PROVE  TInv'
<1>1. Rows'
      BY TInvParts DEF Rows
<1>2. Badges' /\ Place' /\ Loaded' /\ Under'
      BY TInvParts DEF Badges, Place, Loaded, Under
<1>3. QED
      BY <1>1, <1>2, TInvParts, PTL

LEMMA TInvGestures ==
    ASSUME TInv, \/ \E p \in Peer, badge \in BOOLEAN : Clear(p, badge)
                 \/ \E m \in Msg : Edit(m)
                 \/ LoadOlder \/ RunSearch
    PROVE  TInv'
<1> USE DEF screenVars
<1>1. Rows /\ Place /\ Loaded
      BY TInvParts
<1>2. ASSUME NEW p \in Peer, NEW badge \in BOOLEAN, Clear(p, badge) PROVE TInv'
  <2>1. Place' /\ Loaded'
        BY <1>1, <1>2 DEF Clear, Place, Loaded
  <2>2. [fn |-> "clearHistory", peer |-> p, rows |-> store[p], badge |-> badge] \in Task
        BY <1>1, TaskMade DEF Rows
  <2>3. QED
        BY <1>2, <2>1, <2>2, TInvStart DEF Clear
<1>3. ASSUME NEW m \in Msg, Edit(m) PROVE TInv'
  <2>1. Place' /\ Loaded' /\ current \in Peer
        BY <1>1, <1>3 DEF Edit, Place, Loaded
  <2>2. QED
        BY <1>3, <2>1, TaskMade, TInvStart DEF Edit
<1>4. CASE LoadOlder
  <2>1. Place' /\ current \in Peer
        BY <1>1, <1>4 DEF LoadOlder, Place
  <2>2. Loaded'
        BY <1>1, <1>4 DEF LoadOlder, Loaded
  <2>3. oldest \in Ts
        BY <1>1, <1>4 DEF LoadOlder, Loaded
  <2>4. QED
        BY <1>4, <2>1, <2>2, <2>3, TaskMade, TInvStart DEF LoadOlder
<1>5. CASE RunSearch
  <2>1. Place' /\ Loaded' /\ current \in Peer
        BY <1>1, <1>5 DEF RunSearch, Place, Loaded
  <2>2. QED
        BY <1>5, <2>1, TaskMade, TInvStart DEF RunSearch
<1>6. QED
      BY <1>2, <1>3, <1>4, <1>5

LEMMA TInvOpen == ASSUME TInv, NEW p \in Peer, OpenCallView(p) PROVE TInv'
<1>1. Rows /\ Place
      BY TInvParts
<1>2. Rows' /\ Place'
      BY <1>1 DEF OpenCallView, Rows, Place
<1>3. Loaded'
      BY EmptyChatLoaded DEF OpenCallView
<1>4. Refresh(p, "openCallView") \in Task
      BY TaskMade DEF Then
<1>5. QED
      BY <1>2, <1>3, <1>4, TInvStart DEF OpenCallView

LEMMA TInvCloseSearch == ASSUME TInv, CloseSearch PROVE TInv'
<1>1. Rows /\ Place
      BY TInvParts
<1>2. Rows' /\ Place' /\ current \in Peer
      BY <1>1 DEF CloseSearch, Rows, Place
<1>3. Loaded'
      BY <1>2, EmptyChatLoaded DEF CloseSearch
<1>4. Refresh(current, "nothing") \in Task
      BY <1>2, TaskMade DEF Then
<1>5. QED
      BY <1>2, <1>3, <1>4, TInvStart DEF CloseSearch

LEMMA TInvSend == ASSUME TInv, Send PROVE TInv'
<1>1. Rows /\ Place /\ Loaded
      BY TInvParts
<1>2. Rows' /\ current \in Peer /\ (search' \in BOOLEAN => Place')
      BY <1>1 DEF Send, Rows, Place
<1>3. CASE editing # 0 /\ Start([fn |-> "sendEdit", peer |-> current, msg |-> editing])
           /\ UNCHANGED <<box, oldest, noMore, loading, search, clean>>
  <2>1. editing \in Msg /\ Place' /\ Loaded'
        BY <1>1, <1>2, <1>3 DEF Place, Loaded, Send
  <2>2. QED
        BY <1>2, <1>3, <2>1, TaskMade, TInvStart DEF Send
<1>4. CASE search' = FALSE /\ EmptyChat /\ Start(Refresh(current, "send"))
  <2>1. Place' /\ Loaded'
        BY <1>2, <1>4, EmptyChatLoaded
  <2>2. Refresh(current, "send") \in Task
        BY <1>2, TaskMade DEF Then
  <2>3. QED
        BY <1>2, <1>4, <2>1, <2>2, TInvStart DEF Send
<1>5. CASE Start([fn |-> "saveOutgoing", peer |-> current])
           /\ UNCHANGED <<box, oldest, noMore, loading, search, clean>>
  <2>1. Place' /\ Loaded'
        BY <1>1, <1>2, <1>5 DEF Place, Loaded, Send
  <2>2. QED
        BY <1>2, <1>5, <2>1, TaskMade, TInvStart DEF Send
<1>6. QED
      BY <1>3, <1>4, <1>5 DEF Send

\* A row is saved.
LEMMA RowSaved ==
    ASSUME Rows, NEW p \in Peer, saved < MaxMsgs, SaveRow(p, saved + 1), mine' \in SUBSET Msg
    PROVE  /\ Rows' /\ saved' = saved + 1 /\ saved \in Nat /\ saved + 1 \in Msg
           /\ \A m \in 1..saved : stamp'[m] = stamp[m]
<1> DEFINE m == saved + 1
<1>1. /\ saved' = m /\ m \in Msg /\ saved \in Nat /\ m \in 1..MaxMsgs /\ MaxMsgs \in Nat
      /\ store' = [store EXCEPT ![p] = @ \cup {m}]
      BY ChatAssumption DEF SaveRow, Rows, Msg
<1>2. PICK ts \in Ts : stamp' = [stamp EXCEPT ![m] = ts]
      BY DEF SaveRow
<1>3. store' \in [Peer -> SUBSET Msg]
      BY <1>1 DEF Rows
<1>4. \A q \in Peer : store'[q] \subseteq store[q] \cup {m}
      BY <1>1 DEF Rows
<1>5. 1..saved' = 1..saved \cup {m} /\ 1..saved \subseteq Msg /\ m \notin 1..saved
      BY <1>1 DEF Msg
<1>6. \A q \in Peer : store'[q] \subseteq 1..saved'
      BY <1>4, <1>5 DEF Rows
<1>7. stamp' \in [Msg -> Ts \cup {0}] /\ stamp'[m] = ts /\ \A x \in 1..saved : stamp'[x] = stamp[x]
      BY <1>1, <1>2, <1>5 DEF Rows
<1>8. \A x \in 1..saved' : stamp'[x] \in Ts
      BY <1>5, <1>7 DEF Rows
<1>9. QED
      BY <1>1, <1>3, <1>6, <1>7, <1>8 DEF Rows

LEMMA TInvOnText == ASSUME TInv, NEW p \in Peer, OnText(p) PROVE TInv'
<1> DEFINE m == saved + 1
<1>1. Rows /\ Badges /\ Place /\ Loaded /\ Under
      BY TInvParts
<1>2. Rows' /\ saved' = m /\ m \in Msg /\ saved \in Nat
      BY <1>1, RowSaved DEF OnText, Rows
<1>3. Place' /\ Under'
      BY <1>1 DEF OnText, Place, Under
<1>4. Loaded'
      BY <1>1, <1>2 DEF OnText, Loaded
<1>5. Badges'
  <2>1. acked' \in SUBSET Msg
        BY <1>1, <1>2 DEF OnText, Badges
  <2>2. noticed' \in SUBSET Msg /\ lost' \in SUBSET Msg
    <3>1. Notice(Shown(p) /\ ~search, {m}) \/ UNCHANGED <<noticed, lost>>
          BY DEF OnText
    <3>2. QED
          BY <1>1, <1>2, <3>1 DEF Notice, Badges
  <2>3. /\ unread' \in [Peer -> Nat]
        /\ \A q \in Peer : unread'[q] = unread[q] \/ unread'[q] = unread[q] + 1
        BY <1>1 DEF OnText, Badges
  <2>4. \A q \in Peer : unread'[q] <= saved'
        BY <1>1, <1>2, <2>3 DEF Badges
  <2>5. QED
        BY <2>1, <2>2, <2>3, <2>4 DEF Badges
<1>6. QED
      BY <1>2, <1>3, <1>4, <1>5, TInvParts, PTL

LEMMA TInvSaveDone == ASSUME TInv, NEW i \in DOMAIN tasks, SaveDone(i) PROVE TInv'
<1> DEFINE m == saved + 1
<1>1. Rows /\ Badges /\ Place /\ Loaded /\ Under
      BY TInvParts
<1>2. tasks' \in Seq(Task) /\ tasks[i].peer \in Peer
      BY <1>1, EndsTyped, TaskKinds, LenProperties DEF SaveDone, Under
<1>3. CASE UNCHANGED <<rowVars, box>>
  <2>1. Place' /\ Loaded'
        BY <1>1, <1>3 DEF SaveDone, Place, Loaded
  <2>2. QED
        BY <1>2, <1>3, <2>1, TInvDone DEF SaveDone
<1>4. CASE /\ saved < MaxMsgs /\ SaveRow(tasks[i].peer, m)
           /\ mine' = mine \cup {m} /\ box' = box \cup {m}
  <2>1. m \in Msg
        BY <1>1, <1>4, ChatAssumption DEF Rows, Msg
  <2>2. mine' \in SUBSET Msg
        BY <1>1, <1>4, <2>1 DEF Rows
  <2>3. Rows' /\ saved' = m /\ saved \in Nat
        BY <1>1, <1>2, <1>4, <2>2, RowSaved
  <2>4. Loaded'
        BY <1>1, <1>4, <2>1 DEF SaveDone, Loaded
  <2>5. UNCHANGED <<unread, told>>
        BY <1>4 DEF SaveDone
  <2>6. \A q \in Peer : unread'[q] <= saved'
        BY <1>1, <2>3, <2>5 DEF Badges
  <2>7. Badges'
        BY <1>1, <2>5, <2>6 DEF Badges
  <2>8. Place' /\ Under'
        BY <1>1, <1>2 DEF SaveDone, Place, Under
  <2>9. QED
        BY <2>3, <2>4, <2>7, <2>8, TInvParts, PTL
<1>5. QED
      BY <1>3, <1>4 DEF SaveDone

\* What a history tail is made of.
LEMMA NewestRows ==
    ASSUME TInv, NEW p \in Peer, NEW k \in Nat, NEW S \in SUBSET store[p]
    PROVE  /\ Newest(S, k) \in SUBSET Msg /\ Newest(S, k) \subseteq 1..saved
           /\ S \in SUBSET (1..saved) /\ saved \in Nat
           /\ \A m \in S : stamp[m] \in Ts
<1>1. /\ store[p] \in SUBSET Msg /\ store[p] \subseteq 1..saved /\ saved \in Nat
      /\ \A m \in 1..saved : stamp[m] \in Ts
      BY TInvParts DEF Rows
<1>2. QED
      BY <1>1 DEF Newest

\* The oldest ts shown is one of a row.
LEMMA FirstTsTyped ==
    ASSUME NEW R, R # {}, \A m \in R : stamp[m] \in Ts
    PROVE  FirstTs(R) \in Ts
<1>1. \A m \in R : stamp[m] \in Nat
      BY DEF Ts
<1>2. QED
      BY <1>1, FirstTsLeast

LEMMA BadgeTaken ==
    ASSUME Rows, Badges, NEW p, ClearUnread(p)
    PROVE  unread' \in [Peer -> Nat] /\ \A q \in Peer : unread'[q] <= saved
<1>1. unread \in [Peer -> Nat] /\ saved \in Nat /\ \A q \in Peer : unread[q] <= saved
      BY DEF Rows, Badges
<1>2. unread' = [unread EXCEPT ![p] = 0]
      BY DEF ClearUnread
<1>3. \A q \in Peer : unread'[q] = 0 \/ unread'[q] = unread[q]
      BY <1>1, <1>2
<1>4. unread' \in [Peer -> Nat]
      BY <1>1, <1>2
<1>5. QED
      BY <1>1, <1>3, <1>4

LEMMA TInvRefreshDone == ASSUME TInv, NEW i \in DOMAIN tasks, RefreshDone(i) PROVE TInv'
<1> DEFINE p == tasks[i].peer  rows == Newest(store[p], Window)
<1>1. Rows /\ Badges /\ Place /\ Loaded /\ Under
      BY TInvParts
<1>2. tasks[i] \in Task /\ p \in Peer
      BY <1>1, TaskKinds, LenProperties DEF Under
<1>3. rows \in SUBSET Msg /\ rows \subseteq 1..saved
      BY <1>2, NewestRows, ChatAssumption
<1>4. /\ box' = box \cup rows
      /\ oldest' = IF rows # {} THEN FirstTs(rows) ELSE oldest
      /\ noMore' = (noMore \/ Cardinality(rows) < Window)
      /\ UNCHANGED <<rowVars, current, onChat, loading, search, editing, clean, acked, gestures>>
      BY DEF RefreshDone, AppendTail
<1> HIDE DEF rows
<1>5. Loaded'
  <2>1. oldest' \in Ts \cup {0}
    <3>1. \A m \in rows : stamp[m] \in Ts
          BY <1>1, <1>3 DEF Rows
    <3>2. rows # {} => FirstTs(rows) \in Ts
          BY <3>1, FirstTsTyped
    <3>3. QED
          BY <1>1, <1>4, <3>2 DEF Loaded
  <2>2. noMore' \in BOOLEAN
        BY <1>4, Zenon
  <2>3. QED
        BY <1>1, <1>3, <1>4, <2>1, <2>2 DEF Loaded
<1>6. tasks' \in Seq(Task)
  <2>1. CASE GoesOn(i, [fn |-> "markHistoryRead", peer |-> p])
        BY <1>1, <1>2, <2>1, TaskMade, GoesOnTyped DEF Under
  <2>2. CASE Save(i)
    <3>1. CASE current = NoPeer
          BY <1>1, <2>2, <3>1, EndsTyped DEF Under, Save
    <3>2. CASE current # NoPeer
      <4>1. current \in Peer
            BY <1>1, <3>2 DEF Place
      <4>2. QED
            BY <1>1, <2>2, <3>2, <4>1, TaskMade, GoesOnTyped DEF Under, Save
    <3>3. QED
          BY <3>1, <3>2
  <2>3. CASE Ends(i)
        BY <1>1, <2>3, EndsTyped DEF Under
  <2>4. QED
        BY <2>1, <2>2, <2>3 DEF RefreshDone
<1>7. Badges'
  <2>1. unread' = unread \/ ClearUnread(p)
        BY DEF RefreshDone
  <2>2. unread' \in [Peer -> Nat] /\ \A q \in Peer : unread'[q] <= saved
        BY <1>1, <2>1, BadgeTaken DEF Badges
  <2>3. Incoming(p) \in SUBSET Msg
        BY <1>1, <1>2 DEF Rows, Incoming
  <2>4. Notice(Shown(p), Incoming(p) \ noticed) \/ UNCHANGED <<noticed, lost>>
        BY DEF RefreshDone
  <2>5. noticed' \in SUBSET Msg /\ lost' \in SUBSET Msg
        BY <1>1, <2>3, <2>4 DEF Notice, Badges
  <2>6. QED
        BY <1>1, <1>4, <2>2, <2>5 DEF Badges
<1>8. Rows' /\ Place' /\ Under'
      BY <1>1, <1>4, <1>6 DEF Rows, Place, Under
<1>9. QED
      BY <1>5, <1>7, <1>8, TInvParts, PTL

LEMMA TInvOlderDone == ASSUME TInv, NEW i \in DOMAIN tasks, OlderDone(i) PROVE TInv'
<1> DEFINE p == tasks[i].peer
           rows == Newest({m \in store[p] : stamp[m] <= tasks[i].before}, Page)
           fresh == rows \ box
<1>1. Rows /\ Badges /\ Place /\ Loaded /\ Under
      BY TInvParts
<1>2. tasks[i] \in Task /\ p \in Peer
      BY <1>1, TaskKinds, LenProperties DEF Under
<1>3. rows \in SUBSET Msg /\ rows \subseteq 1..saved
      BY <1>2, NewestRows, ChatAssumption
<1>4. /\ box' = box \cup fresh
      /\ oldest' = IF fresh = {} THEN oldest ELSE FirstTs(fresh)
      /\ noMore' = (noMore \/ fresh = {} \/ Cardinality(rows) < Page)
      /\ clean' = (clean /\ (Cardinality(rows) < Page \/ ~(rows \subseteq box)))
      /\ loading' = FALSE /\ Ends(i)
      /\ UNCHANGED <<rowVars, unread, current, onChat, search, editing, told, gestures>>
      BY DEF OlderDone, PrependPage
<1> HIDE DEF rows
<1>5. oldest' \in Ts \cup {0}
  <2>1. \A m \in fresh : stamp[m] \in Ts
        BY <1>1, <1>3 DEF Rows
  <2>2. fresh # {} => FirstTs(fresh) \in Ts
        BY <2>1, FirstTsTyped
  <2>3. QED
        BY <1>1, <1>4, <2>2 DEF Loaded
<1>6. noMore' \in BOOLEAN /\ clean' \in BOOLEAN
      BY <1>4, Zenon
<1>7. Loaded' /\ Place'
      BY <1>1, <1>3, <1>4, <1>5, <1>6 DEF Loaded, Place
<1>8. QED
      BY <1>1, <1>4, <1>7, EndsTyped, TInvDone DEF Under

LEMMA TInvClearRow == ASSUME TInv, NEW i \in DOMAIN tasks, ClearRow(i) PROVE TInv'
<1> DEFINE t == tasks[i]  x == Min(t.rows)
<1>1. Rows /\ Under
      BY TInvParts
<1>2. t \in Task /\ t.peer \in Peer
      BY <1>1, TaskKinds, LenProperties DEF Under
<1>3. /\ t.fn = "clearHistory"
      /\ GoesOn(i, [t EXCEPT !.rows = @ \ {x}])
      /\ store' = [store EXCEPT ![t.peer] = @ \ {x}]
      /\ UNCHANGED <<mine, stamp, unread, screenVars, editing, saved, told, clean, gestures>>
      BY DEF ClearRow
<1>4. /\ t = [fn |-> "clearHistory", peer |-> t.peer, rows |-> t.rows, badge |-> t.badge]
      /\ t.rows \in SUBSET Msg /\ t.badge \in BOOLEAN
      BY <1>2, <1>3, TaskKinds
<1> HIDE DEF x
<1>5. [t EXCEPT !.rows = @ \ {x}]
          = [fn |-> "clearHistory", peer |-> t.peer, rows |-> t.rows \ {x}, badge |-> t.badge]
      BY <1>4
<1>6. [t EXCEPT !.rows = @ \ {x}] \in Task
  <2>1. t.rows \ {x} \in SUBSET Msg
        BY <1>4
  <2>2. [fn |-> "clearHistory", peer |-> t.peer, rows |-> t.rows \ {x}, badge |-> t.badge]
            \in Task
        BY <1>2, <1>4, <2>1, TaskMade
  <2>3. QED
        BY <1>5, <2>2
<1>7. tasks' \in Seq(Task)
      BY <1>1, <1>3, <1>6, GoesOnTyped DEF Under
<1>8. store' \in [Peer -> SUBSET Msg] /\ \A p \in Peer : store'[p] \subseteq store[p]
      BY <1>1, <1>3 DEF Rows
<1>9. QED
      BY <1>3, <1>7, <1>8, TInvFewer DEF screenVars

LEMMA TInvClearDone == ASSUME TInv, NEW i \in DOMAIN tasks, ClearDone(i) PROVE TInv'
<1> DEFINE t == tasks[i]
           p == IF t.badge THEN t.peer ELSE current
<1>1. Rows /\ Badges /\ Place /\ Loaded /\ Under
      BY TInvParts
<1>2. t \in Task /\ t.peer \in Peer /\ t.fn = "clearHistory" /\ t.badge \in BOOLEAN
      BY <1>1, TaskKinds, LenProperties DEF Under, ClearDone
<1>3. UNCHANGED <<rowVars, current, onChat, acked, noticed, gestures>>
      BY DEF ClearDone
<1>4. Rows'
      BY <1>1, <1>3 DEF Rows
<1>5. Badges'
  <2>1. CASE t.badge
    <3>1. /\ unread' = [unread EXCEPT ![t.peer] = 0]
          /\ lost' = lost \cup (Incoming(t.peer) \ (noticed \cap acked))
          BY <2>1 DEF ClearDone, ClearUnread
    <3>2. Incoming(t.peer) \in SUBSET Msg
      <4>1. store[t.peer] \in SUBSET Msg
            BY <1>1, <1>2 DEF Rows
      <4>2. QED
            BY <4>1 DEF Incoming
    <3>3. unread' \in [Peer -> Nat] /\ \A q \in Peer : unread'[q] <= saved
          BY <1>1, <3>1, BadgeTaken DEF ClearUnread
    <3>4. lost' \in SUBSET Msg
          BY <1>1, <3>1, <3>2 DEF Badges
    <3>5. QED
          BY <1>1, <1>3, <3>3, <3>4 DEF Badges
  <2>2. CASE ~t.badge
    <3>1. UNCHANGED <<unread, lost>>
          BY <2>2 DEF ClearDone
    <3>2. QED
          BY <1>1, <1>3, <3>1 DEF Badges
  <2>3. QED
        BY <2>1, <2>2
<1>6. CASE t.badge /\ current # t.peer
  <2>1. /\ Ends(i) /\ UNCHANGED <<box, oldest, noMore, loading, search, clean, editing>>
        BY <1>6 DEF ClearDone
  <2>2. Place' /\ Loaded' /\ Under'
        BY <1>1, <1>3, <2>1, EndsTyped DEF Place, Loaded, Under
  <2>3. QED
        BY <1>4, <1>5, <2>2, TInvParts, PTL
<1>7. CASE ~(t.badge /\ current # t.peer)
  <2>1. /\ EmptyChat /\ search' = (t.badge /\ search)
        /\ IF p = NoPeer THEN Ends(i) ELSE GoesOn(i, Refresh(p, "nothing"))
        BY <1>7 DEF ClearDone
  <2>2. editing' = editing \/ editing' = 0
        BY DEF ClearDone
  <2>3. Loaded'
        BY <1>4, <2>1, EmptyChatLoaded
  <2>4. search' \in BOOLEAN
        BY <2>1, Zenon
  <2>5. Place'
        BY <1>1, <1>3, <2>2, <2>4 DEF Place
  <2>6. tasks' \in Seq(Task)
    <3>1. CASE p = NoPeer
          BY <1>1, <2>1, <3>1, EndsTyped DEF Under
    <3>2. CASE p # NoPeer
      <4>1. p \in Peer
            BY <1>1, <1>2, <3>2 DEF Place
      <4>2. Refresh(p, "nothing") \in Task
            BY <4>1, TaskMade DEF Then
      <4>3. QED
            BY <1>1, <2>1, <3>2, <4>2, GoesOnTyped DEF Under
    <3>3. QED
          BY <3>1, <3>2
  <2>7. Under'
        BY <1>1, <1>3, <2>6 DEF Under
  <2>8. QED
        BY <1>4, <1>5, <2>3, <2>5, <2>7, TInvParts, PTL
<1>8. QED
      BY <1>6, <1>7

LEMMA TInvOtherDone ==
    ASSUME TInv, NEW i \in DOMAIN tasks,
           MarkDone(i) \/ EditDone(i) \/ SendEditDone(i) \/ SearchDone(i)
    PROVE  TInv'
<1>1. Rows /\ Badges /\ Place /\ Loaded /\ Under
      BY TInvParts
<1>2. tasks[i] \in Task /\ tasks[i].peer \in Peer
      BY <1>1, TaskKinds, LenProperties DEF Under
<1>3. tasks' \in Seq(Task)
      BY <1>1, EndsTyped DEF Under, MarkDone, EditDone, SendEditDone, SearchDone
<1> USE DEF screenVars
<1>4. CASE MarkDone(i)
  <2>1. Incoming(tasks[i].peer) \in SUBSET Msg
        BY <1>1, <1>2 DEF Rows, Incoming
  <2>2. Badges' /\ Rows' /\ Place' /\ Loaded' /\ Under'
        BY <1>1, <1>3, <1>4, <2>1 DEF MarkDone, MarkRead, Badges, Rows, Place, Loaded, Under
  <2>3. QED
        BY <2>2, TInvParts, PTL
<1>5. CASE EditDone(i)
  <2>1. tasks[i].msg \in Msg
        BY <1>2, <1>5, TaskKinds DEF EditDone
  <2>2. Place' /\ Loaded'
        BY <1>1, <1>5, <2>1 DEF EditDone, Place, Loaded
  <2>3. QED
        BY <1>3, <1>5, <2>2, TInvDone DEF EditDone
<1>6. CASE SendEditDone(i)
  <2>1. Place' /\ Loaded'
        BY <1>1, <1>6 DEF SendEditDone, Place, Loaded
  <2>2. QED
        BY <1>3, <1>6, <2>1, TInvDone DEF SendEditDone
<1>7. CASE SearchDone(i)
  <2>1. box' \in SUBSET Msg
        BY <1>1, <1>2, <1>7 DEF SearchDone, Rows
  <2>2. Place' /\ Loaded'
        BY <1>1, <1>7, <2>1 DEF SearchDone, Place, Loaded
  <2>3. QED
        BY <1>3, <1>7, <2>2, TInvDone DEF SearchDone
<1>8. QED
      BY <1>4, <1>5, <1>6, <1>7

LEMMA TInvReload == ASSUME TInv, Reload PROVE TInv'
<1>1. Rows /\ Badges /\ Under
      BY TInvParts
<1>2. Rows' /\ Place'
      BY <1>1 DEF Reload, Rows, Place
<1>3. Loaded'
  <2>1. /\ box' = {} /\ oldest' = 0 /\ noMore' = FALSE /\ loading' = FALSE
        /\ clean' = TRUE
        BY DEF Reload
  <2>2. QED
        BY <2>1 DEF Loaded
<1>4. tasks' \in Seq(Task)
      BY DEF Reload
<1>5. Under'
      BY <1>1, <1>4, GestureTyped DEF Reload, Under
<1>6. lost' \in SUBSET Msg
  <2>1. ASSUME NEW t \in Range(tasks) PROVE Incoming(t.peer) \in SUBSET Msg
    <3>1. t.peer \in Peer
          BY <1>1, TaskKinds, LenProperties DEF Under, Range
    <3>2. store[t.peer] \in SUBSET Msg
          BY <1>1, <3>1 DEF Rows
    <3>3. QED
          BY <3>2 DEF Incoming
  <2>2. QED
        BY <1>1, <2>1 DEF Reload, Badges
<1>7. Badges'
      BY <1>1, <1>6 DEF Reload, Badges
<1>8. QED
      BY <1>2, <1>3, <1>5, <1>7, TInvParts, PTL

LEMMA TInvOther ==
    ASSUME TInv, \/ \E p \in Peer : StartOutgoingCall(p)
                 \/ Leave \/ CancelEdit \/ OpenSearch
    PROVE  TInv'
<1> USE DEF screenVars
<1>1. Rows /\ Badges /\ Place /\ Loaded /\ Under
      BY TInvParts
<1>2. /\ Gesture
      /\ UNCHANGED <<rowVars, unread, box, oldest, noMore, loading, tasks, told, clean>>
      BY DEF StartOutgoingCall, Leave, CancelEdit, OpenSearch
<1>3. Rows' /\ Badges' /\ Loaded' /\ Under'
      BY <1>1, <1>2, GestureTyped DEF Rows, Badges, Loaded, Under
<1>4. Place'
      BY <1>1 DEF StartOutgoingCall, Leave, CancelEdit, OpenSearch, Place
<1>5. QED
      BY <1>3, <1>4, TInvParts, PTL

LEMMA TInvInit == Init => TInv
<1> SUFFICES ASSUME Init PROVE TInv
    OBVIOUS
<1>1. MaxMsgs \in Nat /\ MaxGestures \in Nat
      BY ChatAssumption
<1>2. Rows
      BY <1>1 DEF Init, Rows
<1>3. Badges
      BY <1>1 DEF Init, Badges
<1>4. current = NoPeer /\ onChat = FALSE /\ search = FALSE /\ editing = 0
      BY DEF Init
<1>5. Place
      BY <1>4 DEF Place
<1>6. /\ box = {} /\ oldest = 0 /\ saved = 0 /\ noMore = FALSE /\ loading = FALSE
      /\ clean = TRUE
      BY DEF Init
<1>7. Loaded
  <2>1. box \in SUBSET Msg
        BY <1>6
  <2>2. QED
        BY <1>6, <2>1 DEF Loaded
<1>8. tasks = <<>> /\ gestures = 0
      BY DEF Init
<1>9. Under
      BY <1>1, <1>8 DEF Under
<1>10. QED
       BY <1>2, <1>3, <1>5, <1>7, <1>9, TInvParts

LEMMA TInvNext == TInv /\ [Next]_vars => TInv'
<1> SUFFICES ASSUME TInv, [Next]_vars
             PROVE  TInv'
    OBVIOUS
<1>1. Rows /\ tasks \in Seq(Task)
      BY TInvParts DEF Under
<1>2. ASSUME NEW p \in Peer, OpenCallView(p) \/ StartOutgoingCall(p) \/ OnText(p)
      PROVE  TInv'
      BY <1>2, TInvOpen, TInvOther, TInvOnText
<1>3. ASSUME NEW p \in Peer, NEW m \in Msg, OnMsgDelete(p, m) PROVE TInv'
  <2>1. /\ store' \in [Peer -> SUBSET Msg] /\ \A q \in Peer : store'[q] \subseteq store[q]
        /\ box' \subseteq box /\ tasks' \in Seq(Task)
        BY <1>1, <1>3 DEF OnMsgDelete, Rows
  <2>2. QED
        BY <1>3, <2>1, TInvFewer DEF OnMsgDelete
<1>4. ASSUME NEW m \in Msg, DoDelete(m) PROVE TInv'
  <2>1. /\ store' \in [Peer -> SUBSET Msg] /\ \A q \in Peer : store'[q] \subseteq store[q]
        /\ box' \subseteq box /\ tasks' \in Seq(Task)
        BY <1>1, <1>4 DEF DoDelete, Rows
  <2>2. QED
        BY <1>4, <2>1, TInvFewer DEF DoDelete
<1>5. ASSUME NEW p \in Peer, NEW badge \in BOOLEAN, Clear(p, badge) PROVE TInv'
      BY <1>5, TInvGestures
<1>6. ASSUME NEW m \in Msg, Edit(m) PROVE TInv'
      BY <1>6, TInvGestures
<1>7. ASSUME NEW i \in DOMAIN tasks,
             RefreshDone(i) \/ MarkDone(i) \/ OlderDone(i) \/ SaveDone(i) \/ EditDone(i)
             \/ SendEditDone(i) \/ SearchDone(i) \/ ClearRow(i) \/ ClearDone(i)
      PROVE  TInv'
      BY <1>7, TInvRefreshDone, TInvOlderDone, TInvSaveDone, TInvOtherDone, TInvClearRow,
         TInvClearDone
<1>8. CASE Leave \/ CancelEdit \/ OpenSearch
      BY <1>8, TInvOther
<1>9. CASE LoadOlder \/ RunSearch
      BY <1>9, TInvGestures
<1>10. CASE Send
       BY <1>10, TInvSend
<1>11. CASE CloseSearch
       BY <1>11, TInvCloseSearch
<1>12. CASE Reload
       BY <1>12, TInvReload
<1>13. CASE UNCHANGED vars
       BY <1>13 DEF vars, screenVars, TInv, TypeOK, Bounds
<1>14. QED
       BY <1>2, <1>3, <1>4, <1>5, <1>6, <1>7, <1>8, <1>9, <1>10, <1>11, <1>12, <1>13 DEF Next

(* Every variable of the chat screen keeps its type (app.js:690-760): a     *)
(* function that goes on after its await has a contact's chat to work on,   *)
(* whichever is open by then, and the oldest row shown is a message or      *)
(* none.                                                                    *)
THEOREM ChatTyped == Spec => []TypeOK
<1>1. TInv => TypeOK
      BY DEF TInv
<1>2. QED
      BY <1>1, TInvInit, TInvNext, PTL DEF Spec

-----------------------------------------------------------------------------
(* What the screen shows.  #chat is filled by one function at a time, as    *)
(* long as nothing else was filling it when it was emptied: by refreshChat, *)
(* which has it empty but for what comes meanwhile, or by                   *)
(* loadOlderMessages, which starts at the oldest row shown.                 *)

FillFn == {"refreshChat", "loadOlderMessages", "runSearch"}
FillAt == {i \in DOMAIN tasks : tasks[i].fn \in FillFn}

\* What is not shown can be loaded.
Complete == \A m \in store[current] : m \in box \/ (~noMore /\ stamp[m] <= oldest)

Reading(t) == t.fn = "refreshChat" /\ oldest = 0 /\ ~noMore
Paging(t)  == t.fn = "loadOlderMessages" /\ t.before = oldest /\ loading /\ Complete

Alone  == \A i, j \in FillAt : i = j
On     == onChat /\ ~search /\ clean
Screen ==
    On => /\ Alone
          /\ \A i \in FillAt : tasks[i].peer = current /\ (Reading(tasks[i]) \/ Paging(tasks[i]))
          /\ FillAt = {} => Complete

SInv == TInv /\ Screen

LEMMA NoFilling == Filling = {} <=> FillAt = {}
BY DEF Filling, FillAt, FillFn, Range

\* The functions that fill #chat stay the same.
FillsKept ==
    /\ Alone => Alone'
    /\ \A j \in FillAt' : \E k \in FillAt : tasks'[j] = tasks[k]
    /\ FillAt' = {} => FillAt = {}

LEMMA FillsSame == UNCHANGED tasks => FillsKept
BY DEF FillsKept, Alone, FillAt

LEMMA FillsStart ==
    ASSUME tasks \in Seq(Task), NEW t \in Task, Start(t), t.fn \notin FillFn
    PROVE  FillsKept
<1>1. /\ DOMAIN tasks' = DOMAIN tasks \cup {Len(tasks) + 1}
      /\ tasks'[Len(tasks) + 1] = t
      /\ \A j \in DOMAIN tasks : tasks'[j] = tasks[j]
      BY StartPlaces DEF Start
<1>2. \A j \in FillAt' : j \in FillAt /\ tasks'[j] = tasks[j]
      BY <1>1 DEF FillAt
<1>3. FillAt \subseteq FillAt'
      BY <1>1 DEF FillAt
<1>4. QED
      BY <1>2, <1>3 DEF FillsKept, Alone

LEMMA FillsGoesOn ==
    ASSUME tasks \in Seq(Task), NEW i \in DOMAIN tasks, NEW t \in Task, GoesOn(i, t),
           t.fn \notin FillFn
    PROVE  /\ tasks[i].fn \notin FillFn => FillsKept
           /\ FillAt \subseteq {i} => FillAt' = {}
<1>1. /\ DOMAIN tasks' = DOMAIN tasks /\ tasks'[i] = t
      /\ \A j \in DOMAIN tasks \ {i} : tasks'[j] = tasks[j]
      BY GoesOnPlaces
<1>2. \A j \in FillAt' : j \in FillAt \ {i} /\ tasks'[j] = tasks[j]
      BY <1>1 DEF FillAt
<1>3. FillAt \ {i} \subseteq FillAt'
      BY <1>1 DEF FillAt
<1>4. tasks[i].fn \notin FillFn => i \notin FillAt
      BY DEF FillAt
<1>5. QED
      BY <1>2, <1>3, <1>4 DEF FillsKept, Alone

LEMMA FillsEnds ==
    ASSUME tasks \in Seq(Task), NEW i \in DOMAIN tasks, Ends(i)
    PROVE  /\ tasks[i].fn \notin FillFn => FillsKept
           /\ FillAt \subseteq {i} => FillAt' = {}
<1>1. DOMAIN tasks \subseteq Nat
      BY LenProperties
<1>2. /\ \A j \in DOMAIN tasks' :
            j \in Nat /\ From(i, j) \in DOMAIN tasks \ {i} /\ tasks'[j] = tasks[From(i, j)]
      /\ \A j \in DOMAIN tasks \ {i} : \E k \in DOMAIN tasks' : j = From(i, k)
      BY EndsPlaces
<1>3. \A j \in FillAt' : From(i, j) \in FillAt \ {i} /\ tasks'[j] = tasks[From(i, j)]
      BY <1>2 DEF FillAt
<1>4. \A j, k \in FillAt' : From(i, j) = From(i, k) => j = k
  <2>1. \A j, k \in Nat : From(i, j) = From(i, k) => j = k
        BY <1>1 DEF From
  <2>2. FillAt' \subseteq Nat
        BY <1>2 DEF FillAt
  <2>3. QED
        BY <2>1, <2>2
<1>5. ASSUME tasks[i].fn \notin FillFn PROVE FillsKept
  <2>1. Alone => Alone'
        BY <1>3, <1>4 DEF Alone
  <2>2. ASSUME NEW j \in FillAt PROVE FillAt' # {}
    <3>1. j \in DOMAIN tasks \ {i} /\ tasks[j].fn \in FillFn
          BY <1>5 DEF FillAt
    <3>2. PICK k \in DOMAIN tasks' : j = From(i, k)
          BY <1>2, <3>1
    <3>3. k \in FillAt'
          BY <1>2, <3>1, <3>2 DEF FillAt
    <3>4. QED
          BY <3>3
  <2>3. QED
        BY <1>3, <2>1, <2>2 DEF FillsKept
<1>6. QED
      BY <1>3, <1>5

\* A step that fills nothing, and takes nothing from the screen but what it deletes.
LEMMA ScreenKept ==
    ASSUME Screen, FillsKept, On' => On, UNCHANGED <<current, oldest, noMore, loading>>,
           On => (Complete => Complete')
    PROVE  Screen'
<1> SUFFICES ASSUME On'
             PROVE  /\ Alone' /\ (FillAt' = {} => Complete')
                    /\ \A i \in FillAt' : /\ tasks'[i].peer = current'
                                          /\ Reading(tasks[i])' \/ Paging(tasks[i])'
    BY DEF Screen
<1>1. /\ On /\ Alone /\ (FillAt = {} => Complete) /\ (Complete => Complete')
      /\ \A i \in FillAt : tasks[i].peer = current /\ (Reading(tasks[i]) \/ Paging(tasks[i]))
      BY DEF Screen
<1>2. ASSUME NEW i \in FillAt'
      PROVE  tasks'[i].peer = current' /\ (Reading(tasks[i])' \/ Paging(tasks[i])')
  <2>1. PICK k \in FillAt : tasks'[i] = tasks[k]
        BY DEF FillsKept
  <2>2. QED
        BY <1>1, <2>1 DEF Reading, Paging
<1>3. QED
      BY <1>1, <1>2 DEF FillsKept

\* refreshChat begins: #chat is empty, and if nothing was filling it only this does.
LEMMA ScreenOpen ==
    ASSUME EmptyChat, NEW k \in DOMAIN tasks', NEW then, tasks'[k] = Refresh(current', then),
           \A j \in DOMAIN tasks' \ {k} : \E i \in DOMAIN tasks : tasks'[j] = tasks[i]
    PROVE  Screen'
<1> SUFFICES ASSUME On' PROVE Screen'
    BY DEF Screen
<1>1. FillAt = {} /\ oldest' = 0 /\ ~noMore'
      BY NoFilling DEF On, EmptyChat
<1>2. \A j \in FillAt' : j = k
      BY <1>1 DEF FillAt
<1>3. k \in FillAt' /\ tasks'[k].peer = current' /\ Reading(tasks[k])'
      BY <1>1 DEF FillAt, FillFn, Refresh, Reading
<1>4. QED
      BY <1>2, <1>3 DEF Screen, Alone

\* refreshChat ends: the tail of the chat is on the screen.
LEMMA ScreenRefreshDone ==
    ASSUME SInv, NEW i \in DOMAIN tasks, RefreshDone(i)
    PROVE  Screen'
<1> SUFFICES ASSUME On'
             PROVE  FillAt' = {} /\ Complete'
    BY DEF Screen, Alone
<1> DEFINE p == tasks[i].peer  rows == Newest(store[p], Window)
<1>1. Rows /\ Loaded /\ Place /\ tasks \in Seq(Task)
      BY TInvParts DEF SInv, Under
<1>2. /\ box' = box \cup rows
      /\ oldest' = IF rows # {} THEN FirstTs(rows) ELSE oldest
      /\ noMore' = (noMore \/ Cardinality(rows) < Window)
      /\ tasks[i].fn = "refreshChat"
      /\ UNCHANGED <<store, stamp, current, onChat, search, clean>>
      BY DEF RefreshDone, AppendTail
<1>3. On
      BY <1>2 DEF On
<1>4. i \in FillAt
      BY <1>2 DEF FillAt, FillFn
<1>5. /\ FillAt \subseteq {i} /\ p = current /\ oldest = 0 /\ ~noMore
      BY <1>2, <1>3, <1>4 DEF SInv, Screen, Alone, Reading, Paging
<1>6. FillAt' = {}
  <2>1. tasks[i].peer \in Peer
        BY <1>1, TaskKinds, LenProperties
  <2>2. CASE GoesOn(i, [fn |-> "markHistoryRead", peer |-> p])
        BY <1>1, <1>5, <2>1, <2>2, TaskMade, FillsGoesOn DEF FillFn
  <2>3. CASE Save(i)
    <3>1. CASE Ends(i)
          BY <1>1, <1>5, <3>1, FillsEnds
    <3>2. CASE GoesOn(i, [fn |-> "saveOutgoing", peer |-> current])
          BY <1>1, <1>5, <2>1, <3>2, TaskMade, FillsGoesOn DEF FillFn
    <3>3. QED
          BY <2>3, <3>1, <3>2 DEF Save
  <2>4. CASE Ends(i)
        BY <1>1, <1>5, <2>4, FillsEnds
  <2>5. QED
        BY <2>2, <2>3, <2>4 DEF RefreshDone
<1>7. /\ p \in Peer /\ saved \in Nat /\ store[p] \in SUBSET (1..saved)
      /\ rows \subseteq store[p] /\ \A m \in store[p] : stamp[m] \in 1..MaxTs
      BY <1>1, TaskKinds, LenProperties DEF Rows, Newest, Ts
<1> HIDE DEF p
<1>8. ASSUME NEW m \in store[p], m \notin rows
      PROVE  ~noMore' /\ stamp'[m] <= oldest'
  <2>1. Window \in Nat /\ Window > 0 /\ MaxTs \in Nat
        BY ChatAssumption
  <2>2. Cardinality(rows) \in Nat /\ Cardinality(rows) >= Window
        BY <1>7, <1>8, <2>1, NewestFull
  <2>3. rows # {}
        BY <2>1, <2>2, FS_EmptySet
  <2>4. ~noMore'
    <3>1. ~(Cardinality(rows) < Window)
          BY <2>1, <2>2
    <3>2. QED
          BY <1>2, <1>5, <3>1, Zenon
  <2>5. \A x \in store[p] : stamp[x] \in Nat
        BY <1>7
  <2>6. PICK r \in rows : FirstTs(rows) = stamp[r]
    <3>1. \A x \in rows : stamp[x] \in Nat
          BY <1>7, <2>5
    <3> HIDE DEF rows
    <3>2. QED
          BY <2>3, <3>1, FirstTsLeast
  <2>7. stamp[m] <= stamp[r]
        BY <1>7, <1>8, <2>1, <2>5, NewestLast
  <2>8. QED
        BY <1>2, <2>3, <2>4, <2>6, <2>7
<1>9. store'[current'] = store[p] /\ box' = box \cup rows
      BY <1>2, <1>5
<1>10. QED
       BY <1>6, <1>8, <1>9 DEF Complete

\* loadOlderMessages ends: the rows before oldest are on the screen.
LEMMA ScreenOlderDone ==
    ASSUME SInv, NEW i \in DOMAIN tasks, OlderDone(i)
    PROVE  Screen'
<1> SUFFICES ASSUME On'
             PROVE  FillAt' = {} /\ Complete'
    BY DEF Screen, Alone
<1> DEFINE p == tasks[i].peer
           S == {m \in store[p] : stamp[m] <= tasks[i].before}
           rows == Newest(S, Page)
           fresh == rows \ box
<1>1. Rows /\ Loaded /\ Place /\ tasks \in Seq(Task)
      BY TInvParts DEF SInv, Under
<1>2. /\ box' = box \cup fresh
      /\ oldest' = IF fresh = {} THEN oldest ELSE FirstTs(fresh)
      /\ noMore' = (noMore \/ fresh = {} \/ Cardinality(rows) < Page)
      /\ clean' = (clean /\ (Cardinality(rows) < Page \/ ~(rows \subseteq box)))
      /\ Ends(i) /\ tasks[i].fn = "loadOlderMessages"
      /\ UNCHANGED <<store, stamp, current, onChat, search>>
      BY DEF OlderDone, PrependPage
<1>3. On
      BY <1>2 DEF On
<1>4. i \in FillAt
      BY <1>2 DEF FillAt, FillFn
<1>5. FillAt \subseteq {i} /\ p = current /\ tasks[i].before = oldest /\ Complete
      BY <1>2, <1>3, <1>4 DEF SInv, Screen, Alone, Reading, Paging
<1>6. FillAt' = {}
      BY <1>1, <1>2, <1>5, FillsEnds
<1>7. /\ p \in Peer /\ saved \in Nat /\ store[p] \in SUBSET (1..saved)
      /\ \A m \in store[p] : stamp[m] \in 1..MaxTs
      BY <1>1, TaskKinds, LenProperties DEF Rows, Ts
<1>8. Cardinality(rows) < Page \/ ~(rows \subseteq box)
      BY <1>2, Zenon DEF On
<1>9. Page \in Nat /\ MaxTs \in Nat
      BY ChatAssumption
<1> HIDE DEF p
<1>10. ASSUME NEW m \in store[p], m \notin box'
       PROVE  ~noMore' /\ stamp'[m] <= oldest'
  <2>1. m \notin box /\ m \notin rows /\ ~noMore /\ stamp[m] <= oldest
        BY <1>2, <1>5, <1>10 DEF Complete
  <2>2. m \in S \ rows /\ S \in SUBSET (1..saved)
        BY <1>5, <1>7, <2>1
  <2>3. \A x \in S : stamp[x] \in 1..MaxTs /\ stamp[x] \in Nat
        BY <1>7
  <2> HIDE DEF S
  <2>4. Cardinality(rows) \in Nat /\ Cardinality(rows) >= Page
        BY <1>7, <1>9, <2>2, <2>3, NewestFull
  <2>5. fresh # {}
        BY <1>8, <1>9, <2>4
  <2>6. ~noMore'
    <3>1. ~(Cardinality(rows) < Page)
          BY <1>9, <2>4
    <3>2. QED
          BY <1>2, <2>1, <2>5, <3>1, Zenon
  <2>7. PICK r \in fresh : FirstTs(fresh) = stamp[r]
    <3>1. \A x \in fresh : stamp[x] \in Nat
          BY <2>3 DEF Newest
    <3> HIDE DEF fresh
    <3>2. QED
          BY <2>5, <3>1, FirstTsLeast
  <2>8. stamp[m] <= stamp[r]
        BY <1>7, <1>9, <2>2, <2>3, NewestLast
  <2>9. QED
        BY <1>2, <2>5, <2>6, <2>7, <2>8
<1>11. store'[current'] = store[p]
       BY <1>2, <1>5
<1>12. QED
       BY <1>6, <1>10, <1>11 DEF Complete

LEMMA ScreenOnText ==
    ASSUME SInv, NEW p \in Peer, OnText(p)
    PROVE  Screen'
<1> DEFINE m == saved + 1
<1>1. Rows /\ Place
      BY TInvParts DEF SInv
<1>2. /\ store' = [store EXCEPT ![p] = @ \cup {m}]
      /\ UNCHANGED <<current, onChat, search, oldest, noMore, loading, tasks, clean>>
      BY DEF OnText, SaveRow
<1>3. \A x \in 1..saved : stamp'[x] = stamp[x]
      BY <1>1, RowSaved DEF OnText, Rows
<1>4. ASSUME On, Complete PROVE Complete'
  <2>1. current \in Peer /\ store[current] \subseteq 1..saved
        BY <1>1, <1>4 DEF On, Place, Rows
  <2>2. CASE current = p
    <3>1. box' = box \cup {m} /\ store'[current] = store[current] \cup {m}
          BY <1>1, <1>2, <1>4, <2>2 DEF OnText, On, Rows
    <3>2. QED
          BY <1>2, <1>3, <1>4, <2>1, <3>1 DEF Complete
  <2>3. CASE current # p
    <3>1. box' = box /\ store'[current] = store[current]
          BY <1>1, <1>2, <2>1, <2>3 DEF OnText, Rows
    <3>2. QED
          BY <1>2, <1>3, <1>4, <2>1, <3>1 DEF Complete
  <2>4. QED
        BY <2>2, <2>3
<1>5. QED
      BY <1>2, <1>4, FillsSame, ScreenKept DEF SInv, On

LEMMA ScreenDelete ==
    ASSUME SInv, NEW m \in Msg, (\E p \in Peer : OnMsgDelete(p, m)) \/ DoDelete(m)
    PROVE  Screen'
<1>1. Rows /\ Place
      BY TInvParts DEF SInv
<1>2. UNCHANGED <<stamp, current, onChat, search, oldest, noMore, loading, tasks, clean>>
      BY DEF OnMsgDelete, DoDelete
<1>3. ASSUME On, Complete PROVE Complete'
  <2>1. current \in Peer
        BY <1>1, <1>3 DEF On, Place
  <2>2. CASE DoDelete(m)
    <3>1. store'[current] = store[current] \ {m} /\ box' = box \ {m}
          BY <2>1, <2>2 DEF DoDelete
    <3>2. QED
          BY <1>2, <1>3, <3>1 DEF Complete
  <2>3. ASSUME NEW p \in Peer, OnMsgDelete(p, m) PROVE Complete'
    <3>1. CASE current = p
      <4>1. store'[current] = store[current] \ {m} /\ box' = box \ {m}
            BY <1>1, <2>3, <3>1 DEF OnMsgDelete, Rows
      <4>2. QED
            BY <1>2, <1>3, <4>1 DEF Complete
    <3>2. CASE current # p
      <4>1. store'[current] = store[current] /\ box' = box
            BY <1>1, <2>1, <2>3, <3>2 DEF OnMsgDelete, Rows
      <4>2. QED
            BY <1>2, <1>3, <4>1 DEF Complete
    <3>3. QED
          BY <3>1, <3>2
  <2>4. QED
        BY <2>2, <2>3
<1>4. QED
      BY <1>2, <1>3, FillsSame, ScreenKept DEF SInv, On

LEMMA ScreenSaveDone ==
    ASSUME SInv, NEW i \in DOMAIN tasks, SaveDone(i)
    PROVE  Screen'
<1> DEFINE m == saved + 1
<1>1. Rows /\ Place /\ tasks \in Seq(Task) /\ tasks[i].peer \in Peer
      BY TInvParts, TaskKinds, LenProperties DEF SInv, Under
<1>2. /\ tasks[i].fn = "saveOutgoing" /\ Ends(i)
      /\ UNCHANGED <<current, onChat, search, oldest, noMore, loading, clean>>
      BY DEF SaveDone
<1>3. FillsKept
      BY <1>1, <1>2, FillsEnds DEF FillFn
<1>4. ASSUME On, Complete PROVE Complete'
  <2>1. CASE UNCHANGED <<rowVars, box>>
        BY <1>2, <1>4, <2>1 DEF Complete
  <2>2. CASE /\ saved < MaxMsgs /\ SaveRow(tasks[i].peer, m)
             /\ mine' = mine \cup {m} /\ box' = box \cup {m}
    <3>1. current \in Peer /\ store[current] \subseteq 1..saved
          BY <1>1, <1>4 DEF On, Place, Rows
    <3>2. store'[current] \subseteq store[current] \cup {m}
          BY <1>1, <2>2, <3>1 DEF Rows, SaveRow
    <3>3. \A x \in 1..saved : stamp'[x] = stamp[x]
      <4>1. m \in Msg
            BY <1>1, <2>2, ChatAssumption DEF Rows, Msg
      <4>2. mine' \in SUBSET Msg
            BY <1>1, <2>2, <4>1 DEF Rows
      <4>3. QED
            BY <1>1, <2>2, <4>2, RowSaved
    <3>4. QED
          BY <1>2, <1>4, <2>2, <3>1, <3>2, <3>3 DEF Complete
  <2>3. QED
        BY <2>1, <2>2 DEF SaveDone
<1>5. QED
      BY <1>2, <1>3, <1>4, ScreenKept DEF SInv, On

LEMMA ScreenClearRow ==
    ASSUME SInv, NEW i \in DOMAIN tasks, ClearRow(i)
    PROVE  Screen'
<1> DEFINE t == tasks[i]  x == Min(t.rows)
<1>1. Rows /\ Place /\ tasks \in Seq(Task)
      BY TInvParts DEF SInv, Under
<1>2. /\ t.fn = "clearHistory"
      /\ GoesOn(i, [t EXCEPT !.rows = @ \ {x}])
      /\ store' = [store EXCEPT ![t.peer] = @ \ {x}]
      /\ UNCHANGED <<stamp, current, onChat, box, oldest, noMore, loading, search, clean>>
      BY DEF ClearRow, screenVars
<1> HIDE DEF x
<1>3. t \in Task
      BY <1>1, LenProperties
<1>4. /\ t = [fn |-> "clearHistory", peer |-> t.peer, rows |-> t.rows, badge |-> t.badge]
      /\ t.rows \in SUBSET Msg /\ t.badge \in BOOLEAN /\ t.peer \in Peer
      BY <1>2, <1>3, TaskKinds
<1>5. [t EXCEPT !.rows = @ \ {x}]
          = [fn |-> "clearHistory", peer |-> t.peer, rows |-> t.rows \ {x}, badge |-> t.badge]
      BY <1>4
<1>6. /\ [t EXCEPT !.rows = @ \ {x}] \in Task
      /\ [t EXCEPT !.rows = @ \ {x}].fn = "clearHistory"
  <2>1. t.rows \ {x} \in SUBSET Msg
        BY <1>4
  <2>2. [fn |-> "clearHistory", peer |-> t.peer, rows |-> t.rows \ {x}, badge |-> t.badge]
            \in Task
        BY <1>4, <2>1, TaskMade
  <2>3. QED
        BY <1>5, <2>2
<1>7. FillsKept
      BY <1>1, <1>2, <1>6, FillsGoesOn DEF FillFn
<1>8. ASSUME On, Complete PROVE Complete'
  <2>1. current \in Peer
        BY <1>1, <1>8 DEF On, Place
  <2>2. store'[current] \subseteq store[current]
        BY <1>1, <1>2, <2>1 DEF Rows
  <2>3. QED
        BY <1>2, <1>8, <2>2 DEF Complete
<1>9. QED
      BY <1>2, <1>7, <1>8, ScreenKept DEF SInv, On

LEMMA ScreenClearDone ==
    ASSUME SInv, NEW i \in DOMAIN tasks, ClearDone(i)
    PROVE  Screen'
<1> DEFINE t == tasks[i]
           p == IF t.badge THEN t.peer ELSE current
<1>1. Place /\ tasks \in Seq(Task)
      BY TInvParts DEF SInv, Under
<1>2. /\ t \in Task /\ t.peer \in Peer /\ t.fn = "clearHistory"
      /\ UNCHANGED <<store, stamp, current, onChat>>
      BY <1>1, TaskKinds, LenProperties DEF ClearDone
<1>3. CASE t.badge /\ current # t.peer
  <2>1. Ends(i) /\ UNCHANGED <<box, oldest, noMore, loading, search, clean>>
        BY <1>3 DEF ClearDone
  <2>2. FillsKept
        BY <1>1, <1>2, <2>1, FillsEnds DEF FillFn
  <2>3. QED
        BY <1>2, <2>1, <2>2, ScreenKept DEF SInv, On, Complete
<1>4. CASE ~(t.badge /\ current # t.peer)
  <2>1. EmptyChat /\ IF p = NoPeer THEN Ends(i) ELSE GoesOn(i, Refresh(p, "nothing"))
        BY <1>4 DEF ClearDone
  <2>2. p = current
        BY <1>4
  <2>3. CASE p = NoPeer
    <3>1. ~onChat
          BY <1>1, <2>2, <2>3, ChatAssumption DEF Place
    <3>2. QED
          BY <1>2, <3>1 DEF Screen, On
  <2>4. CASE p # NoPeer
    <3>1. p \in Peer /\ GoesOn(i, Refresh(p, "nothing"))
          BY <1>1, <2>1, <2>2, <2>4 DEF Place
    <3>2. Refresh(p, "nothing") \in Task
          BY <3>1, TaskMade DEF Then
    <3>3. /\ DOMAIN tasks' = DOMAIN tasks /\ tasks'[i] = Refresh(current', "nothing")
          /\ \A j \in DOMAIN tasks \ {i} : tasks'[j] = tasks[j]
          BY <1>1, <1>2, <2>2, <3>1, <3>2, GoesOnPlaces
    <3>4. QED
          BY <2>1, <3>3, ScreenOpen
  <2>5. QED
        BY <2>3, <2>4
<1>5. QED
      BY <1>3, <1>4

\* The chat is emptied and read anew.
LEMMA ScreenAnew ==
    ASSUME SInv, NEW then \in Then, EmptyChat, current' \in Peer, Start(Refresh(current', then))
    PROVE  Screen'
<1>1. Refresh(current', then) \in Task /\ tasks \in Seq(Task)
      BY TaskMade, TInvParts DEF SInv, Under
<1>2. /\ Len(tasks) + 1 \in DOMAIN tasks'
      /\ tasks'[Len(tasks) + 1] = Refresh(current', then)
      /\ \A j \in DOMAIN tasks' \ {Len(tasks) + 1} : \E i \in DOMAIN tasks : tasks'[j] = tasks[i]
      BY <1>1, StartPlaces DEF Start
<1>3. QED
      BY <1>2, ScreenOpen

\* A function that fills nothing starts.
LEMMA ScreenStart ==
    ASSUME SInv, NEW t \in Task, Start(t), t.fn \notin FillFn,
           UNCHANGED <<store, stamp, current, onChat, box, oldest, noMore, loading, search, clean>>
    PROVE  Screen'
<1>1. FillsKept
      BY FillsStart, TInvParts DEF SInv, Under
<1>2. QED
      BY <1>1, ScreenKept DEF SInv, On, Complete

LEMMA ScreenLoadOlder ==
    ASSUME SInv, LoadOlder
    PROVE  Screen'
<1> SUFFICES ASSUME On' PROVE Screen'
    BY DEF Screen
<1> DEFINE t == [fn |-> "loadOlderMessages", peer |-> current, before |-> oldest]
<1>1. Rows /\ Loaded /\ Place /\ tasks \in Seq(Task)
      BY TInvParts DEF SInv, Under
<1>2. /\ onChat /\ ~loading /\ ~noMore /\ oldest # 0 /\ loading' = TRUE /\ Start(t)
      /\ UNCHANGED <<store, stamp, current, onChat, box, oldest, noMore, search, clean>>
      BY DEF LoadOlder
<1>3. On
      BY <1>2 DEF On
<1>4. FillAt = {} /\ Complete
      BY <1>2, <1>3 DEF SInv, Screen, Reading, Paging
<1>5. oldest \in Ts
      BY <1>1, <1>2 DEF Loaded
<1>6. current \in Peer
      BY <1>1, <1>2 DEF Place
<1>7. t \in Task
      BY <1>5, <1>6, TaskMade
<1>8. PICK k : /\ DOMAIN tasks' = DOMAIN tasks \cup {k} /\ tasks'[k] = t
               /\ \A j \in DOMAIN tasks : tasks'[j] = tasks[j]
      BY <1>1, <1>2, <1>7, StartPlaces DEF Start
<1>9. t.fn \in FillFn
      BY DEF FillFn
<1> HIDE DEF t
<1>10. FillAt' = {k}
  <2>1. k \in FillAt'
        BY <1>8, <1>9 DEF FillAt
  <2>2. ASSUME NEW j \in FillAt', j # k PROVE j \in FillAt
        BY <1>8, <2>2 DEF FillAt
  <2>3. QED
        BY <1>4, <2>1, <2>2
<1>11. Complete'
       BY <1>2, <1>4 DEF Complete
<1>12. tasks'[k].peer = current' /\ Paging(tasks[k])'
       BY <1>2, <1>8, <1>11 DEF Paging, t
<1>13. ASSUME NEW i \in FillAt'
       PROVE  tasks'[i].peer = current' /\ Paging(tasks[i])'
  <2>1. i = k
        BY <1>10
  <2>2. QED
        BY <1>12, <2>1 DEF Paging
<1>14. QED
       BY <1>10, <1>13 DEF Screen, Alone

\* The other functions that end.
LEMMA ScreenOtherDone ==
    ASSUME SInv, NEW i \in DOMAIN tasks,
           MarkDone(i) \/ EditDone(i) \/ SendEditDone(i) \/ SearchDone(i)
    PROVE  Screen'
<1>1. tasks \in Seq(Task)
      BY TInvParts DEF SInv, Under
<1>2. CASE MarkDone(i) \/ EditDone(i) \/ SendEditDone(i)
  <2>1. /\ Ends(i) /\ tasks[i].fn \notin FillFn
        /\ UNCHANGED <<store, stamp, current, onChat, box, oldest, noMore, loading, search, clean>>
        BY <1>2 DEF MarkDone, EditDone, SendEditDone, screenVars, FillFn
  <2>2. FillsKept
        BY <1>1, <2>1, FillsEnds
  <2>3. QED
        BY <2>1, <2>2, ScreenKept DEF SInv, On, Complete
<1>3. CASE SearchDone(i)
  <2>1. i \in FillAt /\ tasks[i].fn = "runSearch"
        BY <1>3 DEF SearchDone, FillAt, FillFn
  <2>2. ~On
        BY <2>1 DEF SInv, Screen, Reading, Paging
  <2>3. QED
        BY <1>3, <2>2 DEF SearchDone, Screen, On
<1>4. QED
      BY <1>2, <1>3

LEMMA ScreenSend == ASSUME SInv, Send PROVE Screen'
<1>1. Place
      BY TInvParts DEF SInv
<1>2. /\ current \in Peer
      /\ UNCHANGED <<store, stamp, current, onChat>>
      BY <1>1 DEF Send, Place
<1>3. CASE editing # 0 /\ Start([fn |-> "sendEdit", peer |-> current, msg |-> editing])
           /\ UNCHANGED <<box, oldest, noMore, loading, search, clean>>
  <2>1. editing \in Msg
        BY <1>1, <1>3 DEF Place
  <2>2. [fn |-> "sendEdit", peer |-> current, msg |-> editing] \in Task
        BY <1>2, <2>1, TaskMade
  <2>3. QED
        BY <1>2, <1>3, <2>2, ScreenStart DEF FillFn
<1>4. CASE EmptyChat /\ Start(Refresh(current, "send"))
      BY <1>2, <1>4, ScreenAnew DEF Then
<1>5. CASE Start([fn |-> "saveOutgoing", peer |-> current])
           /\ UNCHANGED <<box, oldest, noMore, loading, search, clean>>
  <2>1. [fn |-> "saveOutgoing", peer |-> current] \in Task
        BY <1>2, TaskMade
  <2>2. QED
        BY <1>2, <1>5, <2>1, ScreenStart DEF FillFn
<1>6. QED
      BY <1>3, <1>4, <1>5 DEF Send

LEMMA SInvInit == Init => SInv
BY TInvInit DEF SInv, Init, Screen, On

LEMMA ScreenNext == SInv /\ [Next]_vars => Screen'
<1> SUFFICES ASSUME SInv, [Next]_vars
             PROVE  Screen'
    OBVIOUS
<1> USE DEF screenVars
<1>1. Rows /\ Place
      BY TInvParts DEF SInv
<1>2. ASSUME NEW p \in Peer, OpenCallView(p) PROVE Screen'
      BY <1>2, ScreenAnew DEF OpenCallView, Then
<1>3. ASSUME NEW p \in Peer, StartOutgoingCall(p) PROVE Screen'
      BY <1>3 DEF StartOutgoingCall, Screen, On
<1>4. ASSUME NEW p \in Peer, OnText(p) PROVE Screen'
      BY <1>4, ScreenOnText
<1>5. ASSUME NEW p \in Peer, NEW m \in Msg, OnMsgDelete(p, m) PROVE Screen'
      BY <1>5, ScreenDelete
<1>6. ASSUME NEW m \in Msg, DoDelete(m) PROVE Screen'
      BY <1>6, ScreenDelete
<1>7. ASSUME NEW p \in Peer, NEW badge \in BOOLEAN, Clear(p, badge) PROVE Screen'
  <2>1. [fn |-> "clearHistory", peer |-> p, rows |-> store[p], badge |-> badge] \in Task
        BY <1>1, TaskMade DEF Rows
  <2>2. QED
        BY <1>7, <2>1, ScreenStart DEF Clear, FillFn
<1>8. ASSUME NEW m \in Msg, Edit(m) PROVE Screen'
  <2>1. [fn |-> "enterEditMode", peer |-> current, msg |-> m] \in Task
        BY <1>1, <1>8, TaskMade DEF Edit, Place
  <2>2. QED
        BY <1>8, <2>1, ScreenStart DEF Edit, FillFn
<1>9. ASSUME NEW i \in DOMAIN tasks,
             RefreshDone(i) \/ MarkDone(i) \/ OlderDone(i) \/ SaveDone(i) \/ EditDone(i)
             \/ SendEditDone(i) \/ SearchDone(i) \/ ClearRow(i) \/ ClearDone(i)
      PROVE  Screen'
      BY <1>9, ScreenRefreshDone, ScreenOlderDone, ScreenSaveDone, ScreenOtherDone,
         ScreenClearRow, ScreenClearDone
<1>10. CASE Leave \/ OpenSearch \/ Reload
       BY <1>10 DEF Leave, OpenSearch, Reload, Screen, On
<1>11. CASE CancelEdit \/ UNCHANGED vars
       BY <1>11, FillsSame, ScreenKept DEF CancelEdit, vars, SInv, On, Complete
<1>12. CASE LoadOlder
       BY <1>12, ScreenLoadOlder
<1>13. CASE Send
       BY <1>13, ScreenSend
<1>14. CASE CloseSearch
  <2>1. current' \in Peer /\ EmptyChat /\ Start(Refresh(current', "nothing"))
        BY <1>1, <1>14 DEF CloseSearch, Place
  <2>2. QED
        BY <2>1, ScreenAnew DEF Then
<1>15. CASE RunSearch
       BY <1>15 DEF RunSearch, Screen, On
<1>16. QED
       BY <1>2, <1>3, <1>4, <1>5, <1>6, <1>7, <1>8, <1>9, <1>10, <1>11, <1>12, <1>13, <1>14,
          <1>15 DEF Next

(* A chat on the screen shows every message of it, or scrolling up can      *)
(* still bring it (app.js:977-1027), for any history, window and page and   *)
(* whatever the clock showed: provided nothing else was filling the screen  *)
(* when it was last emptied, and no page read since was full of rows that   *)
(* were shown already.                                                      *)
THEOREM ChatScreenComplete == Spec => []ChatComplete
<1>1. SInv => ChatComplete
      BY NoFilling DEF SInv, Screen, On, Complete, ChatComplete
<1>2. SInv /\ [Next]_vars => SInv'
      BY TInvNext, ScreenNext DEF SInv
<1>3. QED
      BY <1>1, <1>2, SInvInit, PTL DEF Spec
=============================================================================
