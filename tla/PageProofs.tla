------------------------------ MODULE PageProofs ------------------------------
(***************************************************************************)
(* Two parts of the page that take no notice of each other.                *)
(*                                                                         *)
(* Contacts, for any peers, texts and functions under way: BanHolds rests  *)
(* on what a block does before it is through.  Of the blocks of a peer     *)
(* that are under way, one has yet to list the rows, or listed all there   *)
(* will ever be (Covered).                                                 *)
(*                                                                         *)
(* Group calls, for any members, rosters and losses: Known holds whoever   *)
(* left early, Seats, Once, Byes and Offers while nobody did.  Each is     *)
(* kept step by step, by what the step changes (StartStep ... LoseStep).   *)
(***************************************************************************)
EXTENDS Contacts, GroupCall, SequenceTheorems, FiniteSetTheorems, TLAPS

Covered(p) ==
    \E i \in DOMAIN tasks :
        /\ tasks[i].fn = "ban" /\ tasks[i].peer = p
        /\ \/ ~tasks[i].read
           \/ store[p] \subseteq tasks[i].rows /\ ~Running("saveIncoming", p)

Over(p) ==
    /\ store[p] = {} /\ ~Running("saveIncoming", p)
    /\ Running("ban", p) \/ (p \notin unread /\ p \notin peerBook /\ p \notin saved)

BlocksHold == \A p \in blacklist \ excused : Covered(p) \/ Over(p)

-----------------------------------------------------------------------------
(* The list of functions *)

LEMMA RemoveAtFacts ==
    ASSUME NEW S, NEW s \in Seq(S), NEW i \in DOMAIN s
    PROVE  /\ RemoveAt(s, i) \in Seq(S)
           /\ \A j \in DOMAIN s \ {i} : \E k \in DOMAIN RemoveAt(s, i) : RemoveAt(s, i)[k] = s[j]
           /\ \A k \in DOMAIN RemoveAt(s, i) : \E j \in DOMAIN s : RemoveAt(s, i)[k] = s[j]
<1> DEFINE n == Len(s)
           a == SubSeq(s, 1, i - 1)
           b == SubSeq(s, i + 1, n)
           r == RemoveAt(s, i)
<1>1. n \in Nat /\ DOMAIN s = 1..n /\ i \in 1..n /\ \A j \in 1..n : s[j] \in S
      BY LenProperties
<1>2. /\ a \in Seq(S) /\ Len(a) = i - 1
      /\ \A j \in 1..(i - 1) : a[j] = s[j]
  <2>1. \A j \in 1..(i - 1) : s[j] \in S
        BY <1>1
  <2>2. /\ a \in Seq(S) /\ Len(a) = IF 1 <= i - 1 THEN (i - 1) - 1 + 1 ELSE 0
        /\ \A j \in 1..((i - 1) - 1 + 1) : a[j] = s[1 + j - 1]
        BY <1>1, <2>1, SubSeqProperties
  <2>3. Len(a) = i - 1
        BY <1>1, <2>2
  <2>4. \A j \in 1..(i - 1) : a[j] = s[j]
    <3> TAKE j \in 1..(i - 1)
    <3>1. j \in 1..((i - 1) - 1 + 1) /\ 1 + j - 1 = j
          BY <1>1
    <3>2. QED
          BY <2>2, <3>1
  <2>5. QED
        BY <2>2, <2>3, <2>4
<1>3. /\ b \in Seq(S) /\ Len(b) = n - i
      /\ \A j \in 1..(n - i) : b[j] = s[i + j]
  <2>1. /\ b \in Seq(S) /\ Len(b) = IF i + 1 <= n THEN n - (i + 1) + 1 ELSE 0
        /\ \A j \in 1..(n - (i + 1) + 1) : b[j] = s[(i + 1) + j - 1]
        BY <1>1, SubSeqProperties
  <2>2. /\ n - (i + 1) + 1 = n - i /\ (i + 1 <= n \/ n - i = 0)
        /\ \A j \in 1..(n - i) : (i + 1) + j - 1 = i + j
        BY <1>1
  <2> HIDE DEF b, n
  <2>3. Len(b) = n - i
        BY <2>1, <2>2
  <2>4. QED
        BY <2>1, <2>2, <2>3
<1>4. r = a \o b
      BY DEF RemoveAt
<1> HIDE DEF a, b
<1>5. /\ r \in Seq(S) /\ Len(r) = n - 1
      /\ \A j \in 1..(n - 1) : r[j] = IF j <= i - 1 THEN a[j] ELSE b[j - (i - 1)]
  <2>1. /\ a \o b \in Seq(S) /\ Len(a \o b) = Len(a) + Len(b)
        /\ \A j \in 1..(Len(a) + Len(b)) :
              (a \o b)[j] = IF j <= Len(a) THEN a[j] ELSE b[j - Len(a)]
        BY <1>2, <1>3, ConcatProperties
  <2>2. Len(a) + Len(b) = n - 1
        BY <1>1, <1>2, <1>3
  <2>3. QED
        BY <1>2, <1>4, <2>1, <2>2
<1> HIDE DEF r
<1>6. DOMAIN r = 1..(n - 1)
      BY <1>5, LenProperties
<1>7. \A k \in 1..(i - 1) : k \in DOMAIN r /\ r[k] = s[k]
      BY <1>1, <1>2, <1>5, <1>6
<1>8. \A k \in i..(n - 1) : k \in DOMAIN r /\ r[k] = s[k + 1]
  <2> TAKE k \in i..(n - 1)
  <2>1. k \in 1..(n - 1) /\ ~(k <= i - 1) /\ k - (i - 1) \in 1..(n - i)
        BY <1>1
  <2>2. i + (k - (i - 1)) = k + 1
        BY <1>1, <2>1
  <2>3. QED
        BY <1>3, <1>5, <1>6, <2>1, <2>2
<1>9. ASSUME NEW j \in DOMAIN s \ {i} PROVE \E k \in DOMAIN r : r[k] = s[j]
  <2>1. CASE j < i
        BY <1>1, <1>7, <2>1
  <2>2. CASE j > i
    <3>1. j - 1 \in i..(n - 1) /\ (j - 1) + 1 = j
          BY <1>1, <2>2
    <3>2. QED
          BY <1>8, <3>1
  <2>3. QED
        BY <1>1, <2>1, <2>2
<1>10. ASSUME NEW k \in DOMAIN r PROVE \E j \in DOMAIN s : r[k] = s[j]
  <2>1. CASE k < i
        BY <1>1, <1>6, <1>7, <2>1
  <2>2. CASE k >= i
    <3>1. k \in i..(n - 1) /\ k + 1 \in DOMAIN s
          BY <1>1, <1>6, <2>2
    <3>2. QED
          BY <1>8, <3>1
  <2>3. QED
        BY <1>1, <1>6, <2>1, <2>2
<1>11. QED
       BY <1>5, <1>9, <1>10 DEF r

LEMMA BeginFacts ==
    ASSUME NEW t \in Task, TypeOK, Begin(t)
    PROVE  /\ tasks' \in Seq(Task)
           /\ DOMAIN tasks' = DOMAIN tasks \cup {Len(tasks) + 1}
           /\ \A j \in DOMAIN tasks : tasks'[j] = tasks[j]
           /\ tasks'[Len(tasks) + 1] = t
<1>1. tasks \in Seq(Task) /\ tasks' = Append(tasks, t)
      BY DEF TypeOK, Begin
<1>2. /\ Append(tasks, t) \in Seq(Task) /\ Len(Append(tasks, t)) = Len(tasks) + 1
      /\ \A j \in 1..Len(tasks) : Append(tasks, t)[j] = tasks[j]
      /\ Append(tasks, t)[Len(tasks) + 1] = t
      BY <1>1, AppendProperties
<1>3. DOMAIN tasks = 1..Len(tasks) /\ DOMAIN tasks' = 1..Len(tasks') /\ Len(tasks) \in Nat
      BY <1>1, <1>2, LenProperties
<1>4. QED
      BY <1>1, <1>2, <1>3

\* One function goes on: the others stay, and nobody's peer or kind changes.
LEMMA SetFacts ==
    ASSUME TypeOK, NEW i \in DOMAIN tasks, NEW t \in Task, tasks' = [tasks EXCEPT ![i] = t]
    PROVE  /\ tasks' \in Seq(Task) /\ DOMAIN tasks' = DOMAIN tasks
           /\ tasks'[i] = t
           /\ \A j \in DOMAIN tasks \ {i} : tasks'[j] = tasks[j]
<1>1. Len(tasks) \in Nat /\ tasks \in [1..Len(tasks) -> Task]
      BY LenProperties DEF TypeOK
<1>2. tasks' \in [1..Len(tasks) -> Task]
      BY <1>1
<1>3. QED
      BY <1>1, <1>2, SeqDef

-----------------------------------------------------------------------------
(* Types *)

LEMMA WipeIsTask ==
    ASSUME NEW fn \in {"delete", "ban"}, NEW p \in Peer
    PROVE  Wipe(fn, p) \in Task
BY DEF Wipe, Task

LEMMA TaskParts ==
    ASSUME NEW t \in Task
    PROVE  /\ t.peer \in Peer
           /\ t.fn \in {"delete", "ban"} => t.read \in BOOLEAN /\ t.rows \in SUBSET Text
           /\ t.fn = "saveIncoming" => t.text \in Text
           /\ t.fn \in {"delete", "ban", "saveIncoming"}
BY DEF Task

LEMMA TaskHere ==
    ASSUME TypeOK, NEW i \in DOMAIN tasks
    PROVE  tasks[i] \in Task
BY LenProperties DEF TypeOK

LEMMA TypeStep == TypeOK /\ [Next]_vars => TypeOK'
<1> SUFFICES ASSUME TypeOK, [Next]_vars PROVE TypeOK'
    OBVIOUS
<1>1. ASSUME NEW p \in Peer, Add(p) \/ IntroFrom(p) \/ RosterMember(p) \/ UnbanContact(p)
      PROVE  TypeOK'
      BY <1>1 DEF TypeOK, Add, IntroFrom, RosterMember, UnbanContact, List, persist
<1>2. ASSUME NEW p \in Peer, DeleteContact(p)
      PROVE  TypeOK'
      BY <1>2, WipeIsTask, BeginFacts DEF TypeOK, DeleteContact, persist
<1>3. ASSUME NEW p \in Peer, BanContact(p)
      PROVE  TypeOK'
      BY <1>3, WipeIsTask, BeginFacts DEF TypeOK, BanContact
<1>4. ASSUME NEW p \in Peer, OnText(p) \/ OnFileEnd(p)
      PROVE  TypeOK'
  <2>1. texts + 1 \in Text /\ texts' \in 0..MaxTexts
        BY <1>4, ContactsAssumption DEF OnText, OnFileEnd, TypeOK, Text
  <2>2. [fn |-> "saveIncoming", peer |-> p, text |-> texts + 1] \in Task
        BY <2>1 DEF Task
  <2>3. tasks' \in Seq(Task)
        BY <1>4, <2>2, BeginFacts DEF OnText, OnFileEnd
  <2>4. QED
        BY <1>4, <2>1, <2>3 DEF TypeOK, OnText, OnFileEnd, lists
<1>13. ASSUME NEW p \in Peer, OnFileOffer(p)
       PROVE  TypeOK'
       BY <1>13 DEF TypeOK, OnFileOffer, lists
<1>5. ASSUME NEW i \in DOMAIN tasks, ClearRead(i)
      PROVE  TypeOK'
  <2> DEFINE t == [tasks[i] EXCEPT !.read = TRUE, !.rows = store[tasks[i].peer]]
  <2>1. t \in Task
        BY <1>5, TaskHere DEF ClearRead, Task, TypeOK
  <2>2. tasks' = [tasks EXCEPT ![i] = t]
        BY <1>5, TaskHere DEF ClearRead, Task, TypeOK
  <2>3. tasks' \in Seq(Task)
        BY <2>1, <2>2, SetFacts
  <2>4. excused' \in SUBSET Peer
        BY <1>5 DEF TypeOK, ClearRead
  <2>5. QED
        BY <1>5, <2>3, <2>4 DEF TypeOK, ClearRead, lists
<1>6. ASSUME NEW i \in DOMAIN tasks, ClearRow(i)
      PROVE  TypeOK'
  <2>1. PICK m \in tasks[i].rows :
             /\ store' = [store EXCEPT ![tasks[i].peer] = @ \ {m}]
             /\ tasks' = [tasks EXCEPT ![i].rows = @ \ {m}]
        BY <1>6 DEF ClearRow
  <2> DEFINE t == [tasks[i] EXCEPT !.rows = @ \ {m}]
  <2>2. t \in Task
        BY <1>6, TaskHere DEF ClearRow, Task
  <2>3. tasks' = [tasks EXCEPT ![i] = t]
        BY <2>1
  <2>4. tasks' \in Seq(Task)
        BY <2>2, <2>3, SetFacts
  <2>5. store' \in [Peer -> SUBSET Text]
        BY <2>1, TaskHere, TaskParts DEF TypeOK
  <2>6. QED
        BY <1>6, <2>4, <2>5 DEF TypeOK, ClearRow, lists
<1>7. ASSUME NEW i \in DOMAIN tasks, FinishDelete(i) \/ FinishBan(i)
      PROVE  TypeOK'
  <2>1. tasks' \in Seq(Task)
        BY <1>7, RemoveAtFacts DEF TypeOK, FinishDelete, FinishBan
  <2>2. tasks[i].peer \in Peer
        BY TaskHere, TaskParts
  <2>3. QED
        BY <1>7, <2>1, <2>2 DEF TypeOK, FinishDelete, FinishBan, persist
<1>8. ASSUME NEW i \in DOMAIN tasks, SaveDone(i)
      PROVE  TypeOK'
  <2>1. tasks' \in Seq(Task)
        BY <1>8, RemoveAtFacts DEF TypeOK, SaveDone
  <2>2. tasks[i].peer \in Peer /\ tasks[i].text \in Text
        BY <1>8, TaskHere, TaskParts DEF SaveDone
  <2>3. store' \in [Peer -> SUBSET Text]
        BY <1>8, <2>2 DEF TypeOK, SaveDone
  <2>4. QED
        BY <1>8, <2>1, <2>2, <2>3 DEF TypeOK, SaveDone, lists
<1>9. ASSUME NEW S \in SUBSET Peer, ApplyAccount(S)
      PROVE  TypeOK'
      BY <1>9 DEF TypeOK, ApplyAccount
<1>10. ASSUME Reload PROVE TypeOK'
  <2>1. tasks' \in Seq(Task)
        BY <1>10, EmptySeq DEF Reload
  <2>2. QED
        BY <1>10, <2>1 DEF TypeOK, Reload
<1>11. ASSUME UNCHANGED vars PROVE TypeOK'
       BY <1>11 DEF TypeOK, vars, lists
<1>12. QED
       BY <1>1, <1>2, <1>3, <1>4, <1>5, <1>6, <1>7, <1>8, <1>9, <1>10, <1>11,
          <1>13 DEF Next

LEMMA TypeInit == Init => TypeOK
<1> SUFFICES ASSUME Init PROVE TypeOK
    OBVIOUS
<1>1. tasks \in Seq(Task)
      BY EmptySeq DEF Init
<1>2. store \in [Peer -> SUBSET Text] /\ texts \in 0..MaxTexts
      BY ContactsAssumption DEF Init
<1>3. QED
      BY <1>1, <1>2 DEF Init, TypeOK

(* The variables have their types. *)
THEOREM ContactsTyped == Spec => []TypeOK
<1>1. QED
      BY TypeInit, TypeStep, PTL DEF Spec

-----------------------------------------------------------------------------
(* The list, its copy and its keys *)

(* A reload shows the list the page had, unless a backup was restored: no  *)
(* change of the list forgets to save it (web/app.js, persist).            *)
THEOREM ListIsSaved == Spec => []SavedIsBook
<1>1. Init => SavedIsBook
      BY DEF Init, SavedIsBook
<1>2. SavedIsBook /\ [Next]_vars => SavedIsBook'
      BY DEF SavedIsBook, Next, vars, lists, persist, List, Add, IntroFrom, RosterMember,
             DeleteContact, BanContact, UnbanContact, OnText, OnFileOffer, OnFileEnd,
             ClearRead, ClearRow, FinishDelete, FinishBan, SaveDone, ApplyAccount, Reload
<1>3. QED
      BY <1>1, <1>2, PTL DEF Spec

\* A contact that is listed while a deletion of it is under way was listed again.
Deleting == \A p \in peerBook : Running("delete", p) => p \in relisted

Reachable == KeysForContacts /\ Deleting

\* The list stays, and no deletion starts.
LEMMA ReachableTasks ==
    ASSUME TypeOK, Reachable, UNCHANGED <<peerBook, keys, relisted>>,
           \/ tasks' = tasks
           \/ \E t \in Task : Begin(t) /\ t.fn # "delete"
           \/ \E i \in DOMAIN tasks : tasks' = RemoveAt(tasks, i)
           \/ \E i \in DOMAIN tasks, t \in Task :
                 tasks' = [tasks EXCEPT ![i] = t] /\ t.fn = tasks[i].fn /\ t.peer = tasks[i].peer
    PROVE  Reachable'
<1>1. \A p : Running("delete", p)' => Running("delete", p)
  <2>1. CASE tasks' = tasks
        BY <2>1 DEF Running
  <2>2. CASE \E t \in Task : Begin(t) /\ t.fn # "delete"
        BY <2>2, BeginFacts DEF Running
  <2>3. CASE \E i \in DOMAIN tasks : tasks' = RemoveAt(tasks, i)
        BY <2>3, RemoveAtFacts DEF Running, TypeOK
  <2>4. CASE \E i \in DOMAIN tasks, t \in Task :
                tasks' = [tasks EXCEPT ![i] = t] /\ t.fn = tasks[i].fn /\ t.peer = tasks[i].peer
    <3>1. PICK i \in DOMAIN tasks, t \in Task :
                tasks' = [tasks EXCEPT ![i] = t] /\ t.fn = tasks[i].fn /\ t.peer = tasks[i].peer
          BY <2>4
    <3>2. QED
          BY <3>1, SetFacts DEF Running
  <2>5. QED
        BY <2>1, <2>2, <2>3, <2>4
<1>2. KeysForContacts'
      BY DEF Reachable, KeysForContacts
<1>3. QED
      BY <1>1, <1>2 DEF Reachable, Deleting

LEMMA ReachableStep == TypeOK /\ Reachable /\ [Next]_vars => Reachable'
<1> SUFFICES ASSUME TypeOK, Reachable, [Next]_vars PROVE Reachable'
    OBVIOUS
<1>1. ASSUME NEW p \in Peer,
             Add(p) \/ IntroFrom(p) \/ RosterMember(p) \/ UnbanContact(p)
      PROVE  Reachable'
      BY <1>1 DEF Reachable, KeysForContacts, Deleting, Running, List, Add, IntroFrom,
                  RosterMember, UnbanContact
<1>2. ASSUME NEW p \in Peer, DeleteContact(p)
      PROVE  Reachable'
  <2> DEFINE t == Wipe("delete", p)
  <2>1. t \in Task /\ Begin(t) /\ t.peer = p
        BY <1>2, WipeIsTask DEF DeleteContact, Wipe
  <2> HIDE DEF t
  <2>2. \A q : Running("delete", q)' => q = p \/ Running("delete", q)
        BY <2>1, BeginFacts DEF Running
  <2>3. peerBook' = peerBook \ {p} /\ keys' = keys /\ relisted' = relisted
        BY <1>2 DEF DeleteContact
  <2>4. QED
        BY <2>2, <2>3 DEF Reachable, KeysForContacts, Deleting
<1>3. ASSUME NEW p \in Peer, BanContact(p)
      PROVE  Reachable'
  <2>1. Wipe("ban", p) \in Task /\ Begin(Wipe("ban", p)) /\ Wipe("ban", p).fn # "delete"
        BY <1>3, WipeIsTask DEF BanContact, Wipe
  <2>2. UNCHANGED <<peerBook, keys, relisted>>
        BY <1>3 DEF BanContact
  <2>3. QED
        BY <2>1, <2>2, ReachableTasks
<1>4. ASSUME NEW p \in Peer, OnText(p) \/ OnFileEnd(p)
      PROVE  Reachable'
  <2> DEFINE t == [fn |-> "saveIncoming", peer |-> p, text |-> texts + 1]
  <2>1. texts + 1 \in Text
        BY <1>4, ContactsAssumption DEF OnText, OnFileEnd, TypeOK, Text
  <2>2. t \in Task /\ t.fn # "delete"
        BY <2>1 DEF Task
  <2>3. Begin(t) /\ UNCHANGED <<peerBook, keys, relisted>>
        BY <1>4 DEF OnText, OnFileEnd, lists
  <2> HIDE DEF t
  <2>4. QED
        BY <2>2, <2>3, ReachableTasks
<1>5. ASSUME NEW p \in Peer, OnFileOffer(p)
      PROVE  Reachable'
      BY <1>5, ReachableTasks DEF OnFileOffer, lists
<1>6. ASSUME NEW i \in DOMAIN tasks, ClearRead(i)
      PROVE  Reachable'
  <2> DEFINE t == [tasks[i] EXCEPT !.read = TRUE, !.rows = store[tasks[i].peer]]
  <2>1. t \in Task /\ tasks' = [tasks EXCEPT ![i] = t]
        BY <1>6, TaskHere DEF ClearRead, Task, TypeOK
  <2>2. t.fn = tasks[i].fn /\ t.peer = tasks[i].peer
        BY <1>6, TaskHere DEF ClearRead, Task
  <2>3. UNCHANGED <<peerBook, keys, relisted>>
        BY <1>6 DEF ClearRead, lists
  <2> HIDE DEF t
  <2>4. QED
        BY <2>1, <2>2, <2>3, ReachableTasks
<1>7. ASSUME NEW i \in DOMAIN tasks, ClearRow(i)
      PROVE  Reachable'
  <2>1. PICK m \in tasks[i].rows : tasks' = [tasks EXCEPT ![i].rows = @ \ {m}]
        BY <1>7 DEF ClearRow
  <2> DEFINE t == [tasks[i] EXCEPT !.rows = @ \ {m}]
  <2>2. t \in Task /\ tasks' = [tasks EXCEPT ![i] = t]
        BY <1>7, <2>1, TaskHere DEF ClearRow, Task
  <2>3. t.fn = tasks[i].fn /\ t.peer = tasks[i].peer
        BY <1>7, TaskHere DEF ClearRow, Task
  <2>4. UNCHANGED <<peerBook, keys, relisted>>
        BY <1>7 DEF ClearRow, lists
  <2> HIDE DEF t
  <2>5. QED
        BY <2>2, <2>3, <2>4, ReachableTasks
\* The deletion that takes the keys finds its peer off the list, or listed again.
<1>8. ASSUME NEW i \in DOMAIN tasks, FinishDelete(i)
      PROVE  Reachable'
  <2>1. Running("delete", tasks[i].peer)
        BY <1>8 DEF Running, FinishDelete
  <2>2. \A p : Running("delete", p)' => Running("delete", p)
        BY <1>8, RemoveAtFacts DEF FinishDelete, Running, TypeOK
  <2>3. peerBook' = peerBook /\ keys' = keys \ {tasks[i].peer} /\ relisted' = relisted
        BY <1>8 DEF FinishDelete
  <2>4. QED
        BY <2>1, <2>2, <2>3 DEF Reachable, KeysForContacts, Deleting
<1>9. ASSUME NEW i \in DOMAIN tasks, FinishBan(i)
      PROVE  Reachable'
  <2>1. \A p : Running("delete", p)' => Running("delete", p)
        BY <1>9, RemoveAtFacts DEF FinishBan, Running, TypeOK
  <2>2. /\ peerBook' = peerBook \ {tasks[i].peer} /\ keys' = keys \ {tasks[i].peer}
        /\ relisted' = relisted
        BY <1>9 DEF FinishBan
  <2>3. QED
        BY <2>1, <2>2 DEF Reachable, KeysForContacts, Deleting
<1>10. ASSUME NEW i \in DOMAIN tasks, SaveDone(i)
       PROVE  Reachable'
       BY <1>10, ReachableTasks DEF SaveDone, lists
<1>11. ASSUME NEW S \in SUBSET Peer, ApplyAccount(S)
       PROVE  Reachable'
       BY <1>11, ReachableTasks DEF ApplyAccount
<1>12. ASSUME Reload
       PROVE  Reachable'
       BY <1>12 DEF Reload, Reachable, KeysForContacts, Deleting, Running
<1>13. ASSUME UNCHANGED vars
       PROVE  Reachable'
       BY <1>13, ReachableTasks DEF vars, lists
<1>14. QED
       BY <1>1, <1>2, <1>3, <1>4, <1>5, <1>6, <1>7, <1>8, <1>9, <1>10, <1>11, <1>12, <1>13 DEF Next

(* Whoever is on the list can be written to, whatever overlaps.  The one   *)
(* exception is a contact listed again while its deletion awaited the      *)
(* storage (web/app.js:540): the deletion takes its keys afterwards.  A    *)
(* deletion of anybody else, or of a contact that stays off the list, does *)
(* no harm (Deleting).                                                     *)
THEOREM ContactsReachable == Spec => []KeysForContacts
<1>1. Init => Reachable
      BY DEF Init, Reachable, KeysForContacts, Deleting
<1>2. Reachable => KeysForContacts
      BY DEF Reachable
<1>3. QED
      BY <1>1, <1>2, TypeInit, TypeStep, ReachableStep, PTL DEF Spec

-----------------------------------------------------------------------------
(* Blocking.  What steps that leave the functions and the chats alone keep. *)

Same(p) ==
    /\ tasks' = tasks /\ store' = store
    /\ p \in unread' => p \in unread
    /\ p \in peerBook' => p \in peerBook
    /\ p \in saved' => p \in saved \/ p \in peerBook

LEMMA SameHolds ==
    ASSUME NEW p, Covered(p) \/ Over(p), Same(p)
    PROVE  Covered(p)' \/ Over(p)'
<1>1. Running("saveIncoming", p)' = Running("saveIncoming", p)
      BY DEF Running, Same
<1>2. Running("ban", p)' = Running("ban", p)
      BY DEF Running, Same
<1>3. CASE Covered(p)
      BY <1>1, <1>3 DEF Covered, Same
<1>4. CASE Over(p)
      BY <1>1, <1>2, <1>4 DEF Over, Same
<1>5. QED
      BY <1>3, <1>4

\* A function is started that is no text of p's.
LEMMA BeginHolds ==
    ASSUME TypeOK, NEW p, Covered(p) \/ Over(p), NEW t \in Task, Begin(t),
           ~(t.fn = "saveIncoming" /\ t.peer = p), store' = store,
           p \in unread' => p \in unread,
           p \in peerBook' => p \in peerBook,
           p \in saved' => p \in saved \/ p \in peerBook
    PROVE  Covered(p)' \/ Over(p)'
<1>1. Running("saveIncoming", p)' => Running("saveIncoming", p)
      BY BeginFacts DEF Running
<1>2. Running("ban", p) => Running("ban", p)'
      BY BeginFacts DEF Running
<1>3. CASE Covered(p)
      BY <1>1, <1>3, BeginFacts DEF Covered
<1>4. CASE Over(p)
      BY <1>1, <1>2, <1>4 DEF Over
<1>5. QED
      BY <1>3, <1>4

LEMMA BlocksInit == Init => BlocksHold
BY DEF Init, BlocksHold

LEMMA BlocksQuiet ==
    ASSUME TypeOK, BlocksHold, NEW q \in Peer,
           Add(q) \/ IntroFrom(q) \/ RosterMember(q) \/ UnbanContact(q) \/ OnFileOffer(q)
    PROVE  BlocksHold'
<1> SUFFICES ASSUME NEW p \in (blacklist \ excused)' PROVE Covered(p)' \/ Over(p)'
    BY DEF BlocksHold
<1>1. p \in blacklist \ excused
      BY DEF Add, IntroFrom, RosterMember, UnbanContact, OnFileOffer, lists
<1>2. Same(p)
      BY DEF Same, Add, IntroFrom, RosterMember, UnbanContact, OnFileOffer, List, persist, lists
<1>3. QED
      BY <1>1, <1>2, SameHolds DEF BlocksHold

LEMMA BlocksRestore ==
    ASSUME TypeOK, BlocksHold, NEW S \in SUBSET Peer, ApplyAccount(S)
    PROVE  BlocksHold'
<1> SUFFICES ASSUME NEW p \in (blacklist \ excused)' PROVE Covered(p)' \/ Over(p)'
    BY DEF BlocksHold
<1>1. p \in blacklist \ excused /\ p \notin S
      BY DEF ApplyAccount
<1>2. Same(p)
      BY <1>1 DEF Same, ApplyAccount
<1>3. QED
      BY <1>1, <1>2, SameHolds DEF BlocksHold

\* A reload stops all blocks: those it cuts short are excused.
LEMMA BlocksReload ==
    ASSUME BlocksHold, Reload
    PROVE  BlocksHold'
<1> SUFFICES ASSUME NEW p \in (blacklist \ excused)' PROVE Over(p)'
    BY DEF BlocksHold
<1>1. p \in blacklist \ excused /\ ~Running("ban", p)
      BY DEF Reload
<1>2. Over(p)
      BY <1>1 DEF BlocksHold, Covered, Running
<1>3. ~Running("saveIncoming", p)'
      BY DEF Reload, Running
<1>4. QED
      BY <1>1, <1>2, <1>3 DEF Over, Reload

LEMMA BlocksDelete ==
    ASSUME TypeOK, BlocksHold, NEW q \in Peer, DeleteContact(q)
    PROVE  BlocksHold'
<1> SUFFICES ASSUME NEW p \in (blacklist \ excused)' PROVE Covered(p)' \/ Over(p)'
    BY DEF BlocksHold
<1>1. p \in blacklist \ excused
      BY DEF DeleteContact
<1>2. /\ Wipe("delete", q) \in Task /\ Begin(Wipe("delete", q))
      /\ Wipe("delete", q).fn # "saveIncoming"
      BY WipeIsTask DEF DeleteContact, Wipe
<1>3. /\ store' = store
      /\ p \in unread' => p \in unread
      /\ p \in peerBook' => p \in peerBook
      /\ p \in saved' => p \in peerBook
      BY DEF DeleteContact, persist
<1>4. QED
      BY <1>1, <1>2, <1>3, BeginHolds DEF BlocksHold

\* The block that starts covers its peer.
LEMMA BlocksBan ==
    ASSUME TypeOK, BlocksHold, NEW q \in Peer, BanContact(q)
    PROVE  BlocksHold'
<1> SUFFICES ASSUME NEW p \in (blacklist \ excused)' PROVE Covered(p)' \/ Over(p)'
    BY DEF BlocksHold
<1> DEFINE t == Wipe("ban", q)
<1>1. t \in Task /\ Begin(t) /\ t.fn = "ban" /\ t.peer = q /\ t.read = FALSE
      BY WipeIsTask DEF BanContact, Wipe
<1> HIDE DEF t
<1>2. CASE p = q
  <2>1. Len(tasks) + 1 \in DOMAIN tasks' /\ tasks'[Len(tasks) + 1] = t
        BY <1>1, BeginFacts
  <2>2. QED
        BY <1>1, <1>2, <2>1 DEF Covered
<1>3. CASE p # q
  <2>1. p \in blacklist \ excused
        BY <1>3 DEF BanContact
  <2>2. store' = store /\ unread' = unread /\ peerBook' = peerBook /\ saved' = saved
        BY DEF BanContact
  <2>3. QED
        BY <1>1, <2>1, <2>2, BeginHolds DEF BlocksHold
<1>4. QED
      BY <1>2, <1>3

\* A text of a blocked peer is not saved, and a file that is makes an exception.
LEMMA BlocksText ==
    ASSUME TypeOK, BlocksHold, NEW q \in Peer, OnText(q) \/ OnFileEnd(q)
    PROVE  BlocksHold'
<1> SUFFICES ASSUME NEW p \in (blacklist \ excused)' PROVE Covered(p)' \/ Over(p)'
    BY DEF BlocksHold
<1> DEFINE t == [fn |-> "saveIncoming", peer |-> q, text |-> texts + 1]
<1>1. p \in blacklist \ excused /\ p # q
      BY DEF OnText, OnFileEnd, lists
<1>2. texts + 1 \in Text
      BY ContactsAssumption DEF OnText, OnFileEnd, TypeOK, Text
<1>3. t \in Task /\ Begin(t) /\ t.peer = q
      BY <1>2 DEF OnText, OnFileEnd, Task
<1>4. store' = store /\ unread' = unread /\ peerBook' = peerBook /\ saved' = saved
      BY DEF OnText, OnFileEnd, lists
<1> HIDE DEF t
<1>5. QED
      BY <1>1, <1>3, <1>4, BeginHolds DEF BlocksHold

\* A wipe lists its rows.  If a text of its peer is being saved, that is an excuse.
LEMMA BlocksRead ==
    ASSUME TypeOK, BlocksHold, NEW i \in DOMAIN tasks, ClearRead(i)
    PROVE  BlocksHold'
<1> SUFFICES ASSUME NEW p \in (blacklist \ excused)' PROVE Covered(p)' \/ Over(p)'
    BY DEF BlocksHold
<1> DEFINE q == tasks[i].peer
           t == [tasks[i] EXCEPT !.read = TRUE, !.rows = store[q]]
<1>1. /\ p \in blacklist \ excused /\ store' = store /\ unread' = unread
      /\ peerBook' = peerBook /\ saved' = saved
      BY DEF ClearRead, lists
<1>2. p = q => ~Running("saveIncoming", p)
      BY DEF ClearRead, lists
<1>3. t \in Task /\ tasks[i].fn \in {"delete", "ban"} /\ tasks' = [tasks EXCEPT ![i] = t]
      BY TaskHere DEF ClearRead, Task, TypeOK
<1>4. t.fn = tasks[i].fn /\ t.peer = q /\ t.rows = store[q]
      BY <1>3, TaskHere DEF Task
<1> HIDE DEF t
<1>5. /\ DOMAIN tasks' = DOMAIN tasks /\ tasks'[i] = t
      /\ \A j \in DOMAIN tasks \ {i} : tasks'[j] = tasks[j]
      BY <1>3, SetFacts
<1>6. Running("saveIncoming", p)' = Running("saveIncoming", p)
      BY <1>4, <1>5 DEF Running
<1>7. Running("ban", p)' = Running("ban", p)
      BY <1>4, <1>5 DEF Running
<1>8. CASE Over(p)
      BY <1>1, <1>6, <1>7, <1>8 DEF Over
<1>9. CASE Covered(p)
  <2>1. PICK j \in DOMAIN tasks :
             /\ tasks[j].fn = "ban" /\ tasks[j].peer = p
             /\ ~tasks[j].read \/ (store[p] \subseteq tasks[j].rows /\ ~Running("saveIncoming", p))
        BY <1>9 DEF Covered
  <2>2. CASE j = i
    <3>1. tasks'[i].fn = "ban" /\ tasks'[i].peer = p /\ store'[p] \subseteq tasks'[i].rows
          BY <1>1, <1>4, <1>5, <2>1, <2>2
    <3>2. ~Running("saveIncoming", p)'
          BY <1>2, <1>6, <2>1, <2>2
    <3>3. QED
          BY <1>5, <3>1, <3>2 DEF Covered
  <2>3. CASE j # i
        BY <1>1, <1>5, <1>6, <2>1, <2>3 DEF Covered
  <2>4. QED
        BY <2>2, <2>3
<1>10. QED
       BY <1>1, <1>8, <1>9 DEF BlocksHold

\* A row that is deleted leaves the chat and the list of the wipe that deletes it.
LEMMA BlocksRow ==
    ASSUME TypeOK, BlocksHold, NEW i \in DOMAIN tasks, ClearRow(i)
    PROVE  BlocksHold'
<1> SUFFICES ASSUME NEW p \in (blacklist \ excused)' PROVE Covered(p)' \/ Over(p)'
    BY DEF BlocksHold
<1>0. PICK m \in tasks[i].rows :
           /\ store' = [store EXCEPT ![tasks[i].peer] = @ \ {m}]
           /\ tasks' = [tasks EXCEPT ![i].rows = @ \ {m}]
      BY DEF ClearRow
<1> DEFINE q == tasks[i].peer
           t == [tasks[i] EXCEPT !.rows = @ \ {m}]
<1>1. /\ p \in blacklist \ excused /\ unread' = unread
      /\ peerBook' = peerBook /\ saved' = saved
      BY DEF ClearRow, lists
<1>2. p \in Peer /\ q \in Peer /\ store \in [Peer -> SUBSET Text]
      BY <1>1, TaskHere, TaskParts DEF TypeOK
<1>3. t \in Task /\ tasks[i].fn \in {"delete", "ban"} /\ tasks' = [tasks EXCEPT ![i] = t]
      BY <1>0, TaskHere DEF ClearRow, Task
<1>4. t.fn = tasks[i].fn /\ t.peer = q /\ t.rows = tasks[i].rows \ {m} /\ t.read = tasks[i].read
      BY <1>3, TaskHere DEF Task
<1> HIDE DEF t
<1>5. /\ DOMAIN tasks' = DOMAIN tasks /\ tasks'[i] = t
      /\ \A j \in DOMAIN tasks \ {i} : tasks'[j] = tasks[j]
      BY <1>3, SetFacts
<1>6. Running("saveIncoming", p)' = Running("saveIncoming", p)
      BY <1>4, <1>5 DEF Running
<1>7. Running("ban", p)' = Running("ban", p)
      BY <1>4, <1>5 DEF Running
<1>8. store'[p] = IF p = q THEN store[p] \ {m} ELSE store[p]
      BY <1>0, <1>2
<1>9. CASE Over(p)
      BY <1>1, <1>6, <1>7, <1>8, <1>9 DEF Over
<1>10. CASE Covered(p)
  <2>1. PICK j \in DOMAIN tasks :
             /\ tasks[j].fn = "ban" /\ tasks[j].peer = p
             /\ ~tasks[j].read \/ (store[p] \subseteq tasks[j].rows /\ ~Running("saveIncoming", p))
        BY <1>10 DEF Covered
  <2>2. tasks'[j].fn = "ban" /\ tasks'[j].peer = p /\ tasks'[j].read = tasks[j].read
        BY <1>4, <1>5, <2>1
  <2>3. store[p] \subseteq tasks[j].rows => store'[p] \subseteq tasks'[j].rows
        BY <1>4, <1>5, <1>8, <2>1
  <2>4. QED
        BY <1>5, <1>6, <2>1, <2>2, <2>3 DEF Covered
<1>11. QED
       BY <1>1, <1>9, <1>10 DEF BlocksHold

\* A function of another kind, or of another peer, ends.
LEMMA EndHolds ==
    ASSUME TypeOK, NEW p, Covered(p) \/ Over(p), NEW i \in DOMAIN tasks,
           tasks' = RemoveAt(tasks, i), ~(tasks[i].fn = "ban" /\ tasks[i].peer = p),
           store'[p] = store[p],
           p \in unread' => p \in unread,
           p \in peerBook' => p \in peerBook,
           p \in saved' => p \in saved \/ p \in peerBook
    PROVE  Covered(p)' \/ Over(p)'
<1>1. /\ \A j \in DOMAIN tasks \ {i} : \E k \in DOMAIN tasks' : tasks'[k] = tasks[j]
      /\ \A k \in DOMAIN tasks' : \E j \in DOMAIN tasks : tasks'[k] = tasks[j]
      BY RemoveAtFacts DEF TypeOK
<1>2. Running("saveIncoming", p)' => Running("saveIncoming", p)
      BY <1>1 DEF Running
<1>3. Running("ban", p) => Running("ban", p)'
      BY <1>1 DEF Running
<1>4. CASE Covered(p)
      BY <1>1, <1>2, <1>4 DEF Covered
<1>5. CASE Over(p)
      BY <1>2, <1>3, <1>5 DEF Over
<1>6. QED
      BY <1>4, <1>5

LEMMA BlocksFinishDelete ==
    ASSUME TypeOK, BlocksHold, NEW i \in DOMAIN tasks, FinishDelete(i)
    PROVE  BlocksHold'
<1> SUFFICES ASSUME NEW p \in (blacklist \ excused)' PROVE Covered(p)' \/ Over(p)'
    BY DEF BlocksHold
<1>1. p \in blacklist \ excused /\ (Covered(p) \/ Over(p))
      BY DEF FinishDelete, BlocksHold
<1>2. /\ tasks' = RemoveAt(tasks, i) /\ tasks[i].fn # "ban" /\ store' = store
      /\ unread' = unread /\ peerBook' = peerBook /\ saved' = saved
      BY DEF FinishDelete
<1>3. QED
      BY <1>1, <1>2, EndHolds

\* The block that ends may be the one that covers its peer: its rows are gone then.
LEMMA BlocksFinishBan ==
    ASSUME TypeOK, BlocksHold, NEW i \in DOMAIN tasks, FinishBan(i)
    PROVE  BlocksHold'
<1> SUFFICES ASSUME NEW p \in (blacklist \ excused)' PROVE Covered(p)' \/ Over(p)'
    BY DEF BlocksHold
<1> DEFINE q == tasks[i].peer
<1>1. p \in blacklist \ excused /\ (Covered(p) \/ Over(p))
      BY DEF FinishBan, BlocksHold
<1>2. /\ tasks' = RemoveAt(tasks, i) /\ tasks[i].fn = "ban" /\ store' = store
      /\ unread' = unread \ {q} /\ peerBook' = peerBook \ {q} /\ saved' = peerBook \ {q}
      /\ tasks[i].read /\ tasks[i].rows = {}
      BY DEF FinishBan, persist, Wiped
<1>3. CASE p # q
      BY <1>1, <1>2, <1>3, EndHolds
<1>4. CASE p = q
  <2>1. /\ \A j \in DOMAIN tasks \ {i} : \E k \in DOMAIN tasks' : tasks'[k] = tasks[j]
        /\ \A k \in DOMAIN tasks' : \E j \in DOMAIN tasks : tasks'[k] = tasks[j]
        BY <1>2, RemoveAtFacts DEF TypeOK
  <2>2. Running("saveIncoming", p)' => Running("saveIncoming", p)
        BY <2>1 DEF Running
  <2>3. CASE store[p] = {} /\ ~Running("saveIncoming", p)
        BY <1>2, <1>4, <2>2, <2>3 DEF Over
  <2>4. CASE ~(store[p] = {} /\ ~Running("saveIncoming", p))
    <3>1. PICK j \in DOMAIN tasks :
               /\ tasks[j].fn = "ban" /\ tasks[j].peer = p
               /\ ~tasks[j].read \/ (store[p] \subseteq tasks[j].rows /\ ~Running("saveIncoming", p))
          BY <1>1, <2>4 DEF Covered, Over
    <3>2. j # i
          BY <1>2, <2>4, <3>1
    <3>3. QED
          BY <1>2, <2>1, <2>2, <3>1, <3>2 DEF Covered
  <2>5. QED
        BY <2>3, <2>4
<1>5. QED
      BY <1>3, <1>4

\* A text that is saved is no blocked peer's, or a block has yet to list it.
LEMMA BlocksSave ==
    ASSUME TypeOK, BlocksHold, NEW i \in DOMAIN tasks, SaveDone(i)
    PROVE  BlocksHold'
<1> SUFFICES ASSUME NEW p \in (blacklist \ excused)' PROVE Covered(p)' \/ Over(p)'
    BY DEF BlocksHold
<1> DEFINE q == tasks[i].peer
<1>1. p \in blacklist \ excused /\ (Covered(p) \/ Over(p))
      BY DEF SaveDone, BlocksHold, lists
<1>2. /\ tasks' = RemoveAt(tasks, i) /\ tasks[i].fn = "saveIncoming"
      /\ unread' = unread \cup {q} /\ peerBook' = peerBook /\ saved' = saved
      BY DEF SaveDone, lists
<1>3. CASE p # q
  <2>1. store'[p] = store[p]
        BY <1>1, <1>3 DEF SaveDone, TypeOK
  <2>2. QED
        BY <1>1, <1>2, <1>3, <2>1, EndHolds
<1>4. CASE p = q
  <2>1. Running("saveIncoming", p)
        BY <1>2, <1>4 DEF Running
  <2>2. PICK j \in DOMAIN tasks : tasks[j].fn = "ban" /\ tasks[j].peer = p /\ ~tasks[j].read
        BY <1>1, <2>1 DEF Covered, Over
  <2>3. \E k \in DOMAIN tasks' : tasks'[k] = tasks[j]
        BY <1>2, <2>2, RemoveAtFacts DEF TypeOK
  <2>4. QED
        BY <2>2, <2>3 DEF Covered
<1>5. QED
      BY <1>3, <1>4

LEMMA BlocksStep == TypeOK /\ BlocksHold /\ [Next]_vars => BlocksHold'
<1> SUFFICES ASSUME TypeOK, BlocksHold, [Next]_vars PROVE BlocksHold'
    OBVIOUS
<1>1. CASE Next
      BY <1>1, BlocksQuiet, BlocksRestore, BlocksReload, BlocksDelete, BlocksBan, BlocksText,
         BlocksRead, BlocksRow, BlocksFinishDelete, BlocksFinishBan, BlocksSave DEF Next
<1>2. CASE UNCHANGED vars
      BY <1>2 DEF vars, lists, BlocksHold, Covered, Over, Running
<1>3. QED
      BY <1>1, <1>2

(* Once the block of a peer is through, it is off the list and nothing of  *)
(* its chat is left (web/app.js, banContact), whatever it introduces,      *)
(* writes or offers.  The exceptions are what the user undoes, a wipe that *)
(* a reload cuts short, a text that was just being saved, and a file       *)
(* offered before the block that ends after it (onFileEnd does not ask).   *)
THEOREM BlocksStay == Spec => []BanHolds
<1>1. BlocksHold => BanHolds
      BY DEF BlocksHold, BanHolds, Covered, Over, Running
<1>2. QED
      BY <1>1, TypeInit, TypeStep, BlocksInit, BlocksStep, PTL DEF Spec


-----------------------------------------------------------------------------
(* Group calls: what holds of a member and of the frames, whoever left     *)
(* early                                                                   *)

GroupState ==
    [room : Rooms \cup {None}, mem : [Members -> Leg], stream : BOOLEAN,
     pending : Rooms \cup {None}, roster : SUBSET Members, shown : BOOLEAN,
     waits : SUBSET Wait]

\* J: who entered which of the n rooms.
Placed(p, g, n, J) ==
    /\ g.pending \in (1..n) \cup {None}
    /\ g.room = None => \A q \in Members : g.mem[q] = NoLeg
    /\ g.room # None => <<p, g.room>> \in J
    /\ \A q \in Members : g.mem[q].sig # "none" \/ g.mem[q].active => <<q, g.room>> \in J
    /\ \A w \in g.waits :
         /\ w.room \in 1..n
         /\ w.peer # None => /\ w.peer # p /\ w.room = g.room
                             /\ g.mem[w.peer].sig # "none"
                             /\ w.fn = "offer" => p < w.peer

FramesFrom(q, p, J) ==
    {f \in Frame : /\ q # p /\ <<q, f.room>> \in J
                   /\ f.cmd = "OFFER" => q < p /\ <<p, f.room>> \in J}

Bounds ==
    /\ rooms \in Seq(Rosters) /\ Len(rooms) <= MaxSeats
    /\ lost \in 0..MaxLost
    /\ joined \subseteq Members \X (1..Len(rooms))
    /\ amiss \subseteq Amiss

Known ==
    /\ Bounds
    /\ group \in [Members -> GroupState]
    /\ \A p \in Members : Placed(p, group[p], Len(rooms), joined)
    /\ chan \in [Members -> [Members -> Seq(Frame)]]
    /\ \A p, q \in Members : chan[q][p] \in Seq(FramesFrom(q, p, joined))

\* What a handler of p leaves behind and sends.
Fits(p, r, n, J) ==
    /\ r.g \in GroupState /\ Placed(p, r.g, n, J)
    /\ r.out \in [Members -> Seq(Frame)]
    /\ \A b \in Members : r.out[b] \in Seq(FramesFrom(p, b, J))

LEMMA MemberFacts ==
    /\ Members \subseteq Nat /\ None \notin Members /\ None \notin Nat
    /\ \A R \in Rosters : R \subseteq Members
    /\ None \notin Rooms /\ Rooms \subseteq Nat
    /\ MaxSeats \in Nat /\ MaxLost \in Nat
BY GroupAssumption DEF Rooms

LEMMA LegFacts ==
    ASSUME NEW g \in GroupState, NEW q \in Members
    PROVE  /\ g.mem[q] \in Leg
           /\ g.mem[q].known \in BOOLEAN /\ g.mem[q].active \in BOOLEAN
           /\ g.mem[q].sig \in {"none", "new", "offered", "stable"}
<1>1. g.mem[q] \in Leg
      BY DEF GroupState
<1>2. QED
      BY <1>1 DEF Leg

LEMMA WaitFacts ==
    ASSUME NEW w \in Wait
    PROVE  /\ w.room \in Rooms /\ w.peer \in Members \cup {None}
           /\ w.fn \in {"start", "accept", "offer", "answer"}
           /\ w.fn \in {"start", "accept"} <=> w.peer = None
BY MemberFacts DEF Wait

LEMMA MsgFrame ==
    ASSUME NEW cmd \in {"INVITE", "JOIN", "BYE", "OFFER", "ANSWER"}, NEW r \in Rooms,
           NEW R \in SUBSET Members
    PROVE  /\ [cmd |-> cmd, room |-> r, roster |-> R] \in Frame
           /\ Msg(cmd, r, R) = <<[cmd |-> cmd, room |-> r, roster |-> R]>>
BY DEF Frame, Msg

LEMMA EmptyMessages ==
    ASSUME NEW S PROVE <<>> \in Seq(S)
BY EmptySeq

LEMMA OneMessage ==
    ASSUME NEW S, NEW x \in S
    PROVE  /\ <<x>> \in Seq(S) /\ Len(<<x>>) = 1 /\ DOMAIN <<x>> = {1} /\ <<x>>[1] = x
OBVIOUS

LEMMA QuietFits ==
    ASSUME NEW p \in Members, NEW g \in GroupState, NEW n, NEW J, Placed(p, g, n, J)
    PROVE  Fits(p, Quiet(g), n, J)
<1>1. \A b \in Members : <<>> \in Seq(Frame) /\ <<>> \in Seq(FramesFrom(p, b, J))
      BY EmptyMessages
<1>2. QED
      BY <1>1 DEF Fits, Quiet, Result

\* JOIN, INVITE and BYE to everybody known.
LEMMA BroadcastFits ==
    ASSUME NEW p \in Members, NEW g \in GroupState, NEW n, NEW J, Placed(p, g, n, J),
           NEW cmd \in {"INVITE", "JOIN", "BYE"}, NEW R \in SUBSET Members
    PROVE  /\ Broadcast(p, g, cmd, R) \in [Members -> Seq(Frame)]
           /\ \A b \in Members : Broadcast(p, g, cmd, R)[b] \in Seq(FramesFrom(p, b, J))
<1>1. ASSUME NEW b \in Members
      PROVE  /\ (IF b \in Others(p, g) THEN Msg(cmd, g.room, R) ELSE <<>>) \in Seq(Frame)
             /\ (IF b \in Others(p, g) THEN Msg(cmd, g.room, R) ELSE <<>>) \in Seq(FramesFrom(p, b, J))
  <2>1. CASE b \notin Others(p, g)
        BY <2>1, EmptyMessages
  <2>2. CASE b \in Others(p, g)
    <3> DEFINE f == [cmd |-> cmd, room |-> g.room, roster |-> R]
    <3>1. b # p /\ g.mem[b].known
          BY <2>2 DEF Others
    <3>2. g.room # None
          BY <3>1 DEF Placed, NoLeg
    <3>3. g.room \in Rooms /\ <<p, g.room>> \in J
          BY <3>2 DEF Placed, GroupState
    <3>4. f \in Frame /\ Msg(cmd, g.room, R) = <<f>>
          BY <3>3, MsgFrame
    <3>5. f \in FramesFrom(p, b, J)
          BY <3>1, <3>3, <3>4 DEF FramesFrom
    <3>6. QED
          BY <2>2, <3>4, <3>5, OneMessage
  <2>3. QED
        BY <2>1, <2>2
<1>2. QED
      BY <1>1 DEF Broadcast

LEMMA SendFits ==
    ASSUME NEW p \in Members, NEW q \in Members, NEW J, NEW r \in Rooms,
           NEW cmd \in {"JOIN", "OFFER", "ANSWER"}, p # q, <<p, r>> \in J,
           cmd = "OFFER" => p < q /\ <<q, r>> \in J
    PROVE  /\ SendTo(q, cmd, r) \in [Members -> Seq(Frame)]
           /\ \A b \in Members : SendTo(q, cmd, r)[b] \in Seq(FramesFrom(p, b, J))
<1> DEFINE f == [cmd |-> cmd, room |-> r, roster |-> {}]
<1>1. f \in Frame /\ Msg(cmd, r, {}) = <<f>>
      BY MsgFrame
<1>2. f \in FramesFrom(p, q, J)
      BY <1>1 DEF FramesFrom
<1>3. \A b \in Members : /\ (IF b = q THEN Msg(cmd, r, {}) ELSE <<>>) \in Seq(Frame)
                         /\ (IF b = q THEN Msg(cmd, r, {}) ELSE <<>>) \in Seq(FramesFrom(p, b, J))
      BY <1>1, <1>2, OneMessage, EmptyMessages
<1>4. QED
      BY <1>3 DEF SendTo

\* A description is being made: an offer for a higher id, or an answer.
LEMMA AwaitFits ==
    ASSUME NEW p \in Members, NEW g \in GroupState, NEW n \in Nat, NEW J, Placed(p, g, n, J),
           J \subseteq Members \X (1..n), g.room # None, NEW q \in Members, q # p,
           NEW fn \in {"offer", "answer"}, fn = "offer" => p < q, g.mem[q].sig # "none"
    PROVE  Await(g, fn, q) \in GroupState /\ Placed(p, Await(g, fn, q), n, J)
<1> DEFINE w == [fn |-> fn, room |-> g.room, peer |-> q]
           h == Await(g, fn, q)
<1>1. g.room \in Rooms /\ g.room \in 1..n
      BY DEF Placed, GroupState
<1>2. w \in Wait
      BY <1>1 DEF Wait
<1>3. h = [g EXCEPT !.waits = g.waits \cup {w}]
      BY DEF Await
<1>4. h \in GroupState
      BY <1>2, <1>3 DEF GroupState
<1>5. /\ h.room = g.room /\ h.mem = g.mem /\ h.pending = g.pending
      /\ h.waits = g.waits \cup {w}
      BY <1>3 DEF GroupState
<1>6. Placed(p, h, n, J)
      BY <1>1, <1>5, MemberFacts DEF Placed
<1>7. QED
      BY <1>4, <1>6

LEMMA PeerFits ==
    ASSUME NEW p \in Members, NEW g \in GroupState, NEW n \in Nat, NEW J, Placed(p, g, n, J),
           g.room # None, NEW q \in Members, <<q, g.room>> \in J
    PROVE  /\ MakePeer(g, q) \in GroupState /\ Placed(p, MakePeer(g, q), n, J)
           /\ MakePeer(g, q).room = g.room /\ MakePeer(g, q).mem[q].sig = "new"
<1> DEFINE h == MakePeer(g, q)
<1>1. h = [g EXCEPT !.mem = [g.mem EXCEPT ![q] = [g.mem[q] EXCEPT !.sig = "new"]]]
      BY DEF MakePeer, GroupState
<1>2. [g.mem[q] EXCEPT !.sig = "new"] \in Leg
      BY LegFacts DEF Leg
<1>3. h \in GroupState
      BY <1>1, <1>2 DEF GroupState
<1>4. /\ h.room = g.room /\ h.pending = g.pending /\ h.waits = g.waits
      /\ h.mem = [g.mem EXCEPT ![q] = [g.mem[q] EXCEPT !.sig = "new"]]
      BY <1>1 DEF GroupState
<1>5. h.mem[q].sig = "new" /\ \A r \in Members \ {q} : h.mem[r] = g.mem[r]
      BY <1>4, LegFacts DEF GroupState, Leg
<1>6. \A w \in g.waits : w.peer # None => w.peer \in Members
      BY WaitFacts DEF GroupState
<1>7. Placed(p, h, n, J)
      BY <1>4, <1>5, <1>6 DEF Placed
<1>8. QED
      BY <1>3, <1>4, <1>5, <1>7

LEMMA ConnectFits ==
    ASSUME NEW p \in Members, NEW g \in GroupState, NEW n \in Nat, NEW J, Placed(p, g, n, J),
           J \subseteq Members \X (1..n), g.room # None, NEW q \in Members, p < q,
           <<q, g.room>> \in J
    PROVE  ConnectTo(g, q) \in GroupState /\ Placed(p, ConnectTo(g, q), n, J)
<1>1. CASE g.mem[q].sig # "none"
      BY <1>1 DEF ConnectTo
<1>2. CASE g.mem[q].sig = "none"
  <2>1. q # p
        BY MemberFacts
  <2> DEFINE h == MakePeer(g, q)
  <2>2. h \in GroupState /\ Placed(p, h, n, J) /\ h.room = g.room /\ h.mem[q].sig = "new"
        BY PeerFits
  <2>3. Await(h, "offer", q) \in GroupState /\ Placed(p, Await(h, "offer", q), n, J)
        BY <2>1, <2>2, AwaitFits
  <2>4. QED
        BY <1>2, <2>3 DEF ConnectTo
<1>3. QED
      BY <1>1, <1>2

LEMMA CloseFits ==
    ASSUME NEW p \in Members, NEW g \in GroupState, NEW n \in Nat, NEW J, Placed(p, g, n, J),
           NEW q \in Members
    PROVE  /\ ClosePeer(g, q) \in GroupState /\ Placed(p, ClosePeer(g, q), n, J)
           /\ ClosePeer(g, q).room = g.room
<1> DEFINE h == ClosePeer(g, q)
           l == [g.mem[q] EXCEPT !.sig = "none"]
<1>0. PICK W \in SUBSET g.waits : W = {w \in g.waits : w.peer # q}
      OBVIOUS
<1>1. h = [g EXCEPT !.mem = [g.mem EXCEPT ![q] = l], !.waits = W]
      BY <1>0 DEF ClosePeer, GroupState
<1>2. l \in Leg /\ l.sig = "none" /\ l.active = g.mem[q].active /\ l.known = g.mem[q].known
      BY LegFacts DEF Leg
<1>3. [g.mem EXCEPT ![q] = l] \in [Members -> Leg] /\ W \in SUBSET Wait
  <2>1. g.mem \in [Members -> Leg] /\ g.waits \in SUBSET Wait
        BY DEF GroupState
  <2>2. QED
        BY <1>2, <2>1
<1>4. h \in GroupState
      BY <1>1, <1>3 DEF GroupState
<1>5. /\ h.room = g.room /\ h.pending = g.pending /\ h.waits = W
      /\ h.mem = [g.mem EXCEPT ![q] = l]
      BY <1>1 DEF GroupState
<1>6. h.mem[q] = l /\ \A r \in Members \ {q} : h.mem[r] = g.mem[r]
      BY <1>5 DEF GroupState
<1>7. \A w \in g.waits : w.peer # None => w.peer \in Members
      BY WaitFacts DEF GroupState
<1>8. g.room = None => l = NoLeg
      BY <1>2 DEF Placed, NoLeg
<1>9. g.room = None => \A r \in Members : h.mem[r] = NoLeg
      BY <1>6, <1>8 DEF Placed
<1>10. \A w \in h.waits :
         /\ w.room \in 1..n
         /\ w.peer # None => /\ w.peer # p /\ w.room = h.room
                             /\ h.mem[w.peer].sig # "none"
                             /\ w.fn = "offer" => p < w.peer
      BY <1>0, <1>5, <1>6, <1>7 DEF Placed
<1>11. Placed(p, h, n, J)
      BY <1>2, <1>5, <1>6, <1>9, <1>10 DEF Placed
<1>12. QED
      BY <1>4, <1>5, <1>11

LEMMA TeardownFits ==
    ASSUME NEW p \in Members, NEW g \in GroupState, NEW n \in Nat, NEW J, Placed(p, g, n, J)
    PROVE  Teardown(g) \in GroupState /\ Placed(p, Teardown(g), n, J)
<1> DEFINE h == Teardown(g)
           M == [q \in Members |-> NoLeg]
<1>0. PICK W \in SUBSET g.waits : W = {w \in g.waits : w.peer = None}
      OBVIOUS
<1>1. h = [g EXCEPT !.stream = FALSE, !.room = None, !.shown = FALSE, !.mem = M, !.waits = W]
      BY <1>0 DEF Teardown
<1>2. M \in [Members -> Leg]
      BY DEF NoLeg, Leg
<1>3. h \in GroupState
      BY <1>1, <1>2 DEF GroupState
<1>4. h.room = None /\ h.mem = M /\ h.pending = g.pending /\ h.waits = W
      BY <1>1 DEF GroupState
<1>5. Placed(p, h, n, J)
      BY <1>0, <1>4 DEF Placed, NoLeg
<1>6. QED
      BY <1>3, <1>5

\* A frame that is delivered, and the room the member is in.
LEMMA ActiveFits ==
    ASSUME NEW p \in Members, NEW g \in GroupState, NEW n \in Nat, NEW J, Placed(p, g, n, J),
           g.room # None, NEW q \in Members, NEW x \in BOOLEAN, x => <<q, g.room>> \in J
    PROVE  LET h == [g EXCEPT !.mem[q].active = x]
           IN  /\ h \in GroupState /\ Placed(p, h, n, J) /\ h.room = g.room
               /\ \A r \in Members : h.mem[r].sig = g.mem[r].sig
<1> DEFINE l == [g.mem[q] EXCEPT !.active = x]
           h == [g EXCEPT !.mem[q].active = x]
<1>1. h = [g EXCEPT !.mem = [g.mem EXCEPT ![q] = l]]
      BY DEF GroupState
<1>2. l \in Leg /\ l.sig = g.mem[q].sig /\ l.active = x
      BY LegFacts DEF Leg
<1>3. h \in GroupState
      BY <1>1, <1>2 DEF GroupState
<1>4. /\ h.room = g.room /\ h.pending = g.pending /\ h.waits = g.waits
      /\ h.mem = [g.mem EXCEPT ![q] = l]
      BY <1>1 DEF GroupState
<1>5. h.mem[q] = l /\ \A r \in Members \ {q} : h.mem[r] = g.mem[r]
      BY <1>4 DEF GroupState
<1>6. \A r \in Members : h.mem[r].sig = g.mem[r].sig
      BY <1>2, <1>5
<1>7. \A w \in g.waits : w.peer # None => w.peer \in Members
      BY WaitFacts DEF GroupState
<1>8. Placed(p, h, n, J)
      BY <1>2, <1>4, <1>5, <1>6, <1>7 DEF Placed
<1>9. QED
      BY <1>3, <1>4, <1>6, <1>8

LEMMA InviteFits ==
    ASSUME NEW p \in Members, NEW g \in GroupState, NEW n \in Nat, NEW J, Placed(p, g, n, J),
           NEW m \in Frame, m.room \in 1..n
    PROVE  Fits(p, OnInvite(g, m), n, J)
<1> DEFINE h == [g EXCEPT !.pending = m.room, !.roster = m.roster]
<1>1. m.room \in Rooms /\ m.roster \in SUBSET Members
      BY DEF Frame
<1>2. h \in GroupState
      BY <1>1 DEF GroupState
<1>3. /\ h.room = g.room /\ h.mem = g.mem /\ h.waits = g.waits /\ h.pending = m.room
      BY DEF GroupState
<1>4. Placed(p, h, n, J)
      BY <1>3 DEF Placed
<1>5. Fits(p, Quiet(h), n, J) /\ Fits(p, Quiet(g), n, J)
      BY <1>2, <1>4, QuietFits
<1>6. QED
      BY <1>5 DEF OnInvite

LEMMA JoinFits ==
    ASSUME NEW p \in Members, NEW g \in GroupState, NEW n \in Nat, NEW J, Placed(p, g, n, J),
           J \subseteq Members \X (1..n), g.room # None, NEW q \in Members, p # q,
           <<q, g.room>> \in J
    PROVE  Fits(p, OnJoin(p, g, q), n, J)
<1>1. CASE g.mem[q].active
      BY <1>1, QuietFits DEF OnJoin
<1>2. CASE ~g.mem[q].active
  <2> DEFINE h == [g EXCEPT !.mem[q].active = TRUE]
             k == IF p < q THEN ConnectTo(h, q) ELSE h
  <2>1. h \in GroupState /\ Placed(p, h, n, J) /\ h.room = g.room
    <3>1. PICK x \in BOOLEAN : x
          OBVIOUS
    <3>2. h = [g EXCEPT !.mem[q].active = x]
          BY <3>1, Zenon
    <3>3. QED
          BY <3>2, ActiveFits
  <2>2. k \in GroupState /\ Placed(p, k, n, J)
        BY <2>1, ConnectFits
  <2>3. g.room \in Rooms /\ <<p, g.room>> \in J
        BY DEF Placed, GroupState
  <2>4. /\ SendTo(q, "JOIN", g.room) \in [Members -> Seq(Frame)]
        /\ \A b \in Members : SendTo(q, "JOIN", g.room)[b] \in Seq(FramesFrom(p, b, J))
        BY <2>3, SendFits
  <2>5. OnJoin(p, g, q) = Result(k, SendTo(q, "JOIN", g.room))
        BY <1>2 DEF OnJoin
  <2>6. QED
        BY <2>2, <2>4, <2>5 DEF Fits, Result
<1>3. QED
      BY <1>1, <1>2

LEMMA ByeFits ==
    ASSUME NEW p \in Members, NEW g \in GroupState, NEW n \in Nat, NEW J, Placed(p, g, n, J),
           g.room # None, NEW q \in Members
    PROVE  Fits(p, OnBye(g, q), n, J)
<1> DEFINE h == [ClosePeer(g, q) EXCEPT !.mem[q].active = FALSE]
<1>1. PICK c \in GroupState : c = ClosePeer(g, q) /\ Placed(p, c, n, J) /\ c.room = g.room
      BY CloseFits
<1>2. h = [c EXCEPT !.mem[q].active = FALSE]
      BY <1>1
<1>3. h \in GroupState /\ Placed(p, h, n, J)
      BY <1>1, <1>2, ActiveFits
<1>4. Teardown(h) \in GroupState /\ Placed(p, Teardown(h), n, J)
      BY <1>3, TeardownFits
<1>5. Fits(p, Quiet(h), n, J) /\ Fits(p, Quiet(Teardown(h)), n, J)
      BY <1>3, <1>4, QuietFits
<1>6. QED
      BY <1>5 DEF OnBye

LEMMA OfferFits ==
    ASSUME NEW p \in Members, NEW g \in GroupState, NEW n \in Nat, NEW J, Placed(p, g, n, J),
           J \subseteq Members \X (1..n), g.room # None, NEW q \in Members, q # p,
           <<q, g.room>> \in J
    PROVE  Fits(p, OnOffer(g, q), n, J)
<1> DEFINE h == IF g.mem[q].sig = "none" THEN MakePeer(g, q) ELSE g
<1>1. h \in GroupState /\ Placed(p, h, n, J) /\ h.room # None /\ h.mem[q].sig # "none"
      BY PeerFits
<1>2. Await(h, "answer", q) \in GroupState /\ Placed(p, Await(h, "answer", q), n, J)
      BY <1>1, AwaitFits
<1>3. QED
      BY <1>2, QuietFits DEF OnOffer

LEMMA SigFits ==
    ASSUME NEW p \in Members, NEW g \in GroupState, NEW n \in Nat, NEW J, Placed(p, g, n, J),
           g.room # None, NEW q \in Members, <<q, g.room>> \in J,
           NEW x \in {"offered", "stable"}
    PROVE  LET h == [g EXCEPT !.mem[q].sig = x]
           IN  h \in GroupState /\ Placed(p, h, n, J) /\ h.room = g.room
<1> DEFINE l == [g.mem[q] EXCEPT !.sig = x]
           h == [g EXCEPT !.mem[q].sig = x]
<1>1. h = [g EXCEPT !.mem = [g.mem EXCEPT ![q] = l]]
      BY DEF GroupState
<1>2. l \in Leg /\ l.sig = x
      BY LegFacts DEF Leg
<1>3. h \in GroupState
      BY <1>1, <1>2 DEF GroupState
<1>4. /\ h.room = g.room /\ h.pending = g.pending /\ h.waits = g.waits
      /\ h.mem = [g.mem EXCEPT ![q] = l]
      BY <1>1 DEF GroupState
<1>5. h.mem[q].sig = x /\ \A r \in Members \ {q} : h.mem[r] = g.mem[r]
      BY <1>2, <1>4 DEF GroupState
<1>6. \A w \in g.waits : w.peer # None => w.peer \in Members
      BY WaitFacts DEF GroupState
<1>7. Placed(p, h, n, J)
      BY <1>4, <1>5, <1>6 DEF Placed
<1>8. QED
      BY <1>3, <1>4, <1>7

LEMMA AnswerFits ==
    ASSUME NEW p \in Members, NEW g \in GroupState, NEW n \in Nat, NEW J, Placed(p, g, n, J),
           g.room # None, NEW q \in Members, <<q, g.room>> \in J
    PROVE  Fits(p, OnAnswer(g, q), n, J)
<1> DEFINE h == [g EXCEPT !.mem[q].sig = "stable"]
<1>1. h \in GroupState /\ Placed(p, h, n, J)
      BY SigFits
<1>2. Fits(p, Quiet(g), n, J) /\ Fits(p, Quiet(h), n, J)
      BY <1>1, QuietFits
<1>3. QED
      BY <1>2 DEF OnAnswer

LEMMA MessageFits ==
    ASSUME NEW p \in Members, NEW q \in Members, NEW g \in GroupState, NEW n \in Nat, NEW J,
           Placed(p, g, n, J), J \subseteq Members \X (1..n), NEW m \in FramesFrom(q, p, J)
    PROVE  Fits(p, OnPeerMessage(p, g, q, m), n, J)
<1>1. m \in Frame /\ q # p /\ <<q, m.room>> \in J /\ m.room \in 1..n
      BY DEF FramesFrom
<1>2. m.cmd \in {"INVITE", "JOIN", "BYE", "OFFER", "ANSWER"}
      BY <1>1 DEF Frame
<1>3. CASE m.cmd = "INVITE"
      BY <1>1, <1>3, InviteFits DEF OnPeerMessage
<1>4. CASE m.cmd # "INVITE" /\ ~InRoom(g, q, m)
      BY <1>4, QuietFits DEF OnPeerMessage
<1>5. CASE m.cmd # "INVITE" /\ InRoom(g, q, m)
  <2>1. g.room # None /\ <<q, g.room>> \in J
        BY <1>1, <1>5 DEF InRoom
  <2>2. /\ Fits(p, OnJoin(p, g, q), n, J) /\ Fits(p, OnBye(g, q), n, J)
        /\ Fits(p, OnOffer(g, q), n, J) /\ Fits(p, OnAnswer(g, q), n, J)
        BY <1>1, <2>1, JoinFits, ByeFits, OfferFits, AnswerFits
  <2>3. QED
        BY <1>2, <1>5, <2>2 DEF OnPeerMessage
<1>6. QED
      BY <1>3, <1>4, <1>5

LEMMA MediaFits ==
    ASSUME NEW p \in Members, NEW g \in GroupState, NEW n \in Nat, NEW J, Placed(p, g, n, J),
           NEW fn, NEW R \in SUBSET Members
    PROVE  Fits(p, AfterMedia(p, g, fn, R), n, J)
<1> DEFINE h == [g EXCEPT !.stream = TRUE, !.shown = TRUE]
           out == IF fn = "start" THEN Broadcast(p, g, "INVITE", R) ELSE Broadcast(p, g, "JOIN", {})
<1>1. h \in GroupState
      BY DEF GroupState
<1>2. h.room = g.room /\ h.mem = g.mem /\ h.waits = g.waits /\ h.pending = g.pending
      BY DEF GroupState
<1>3. Placed(p, h, n, J)
      BY <1>2 DEF Placed
<1>4. /\ out \in [Members -> Seq(Frame)]
      /\ \A b \in Members : out[b] \in Seq(FramesFrom(p, b, J))
      BY BroadcastFits
<1>5. QED
      BY <1>1, <1>3, <1>4 DEF Fits, AfterMedia, Result

LEMMA NewLegFacts ==
    ASSUME NEW x \in BOOLEAN
    PROVE  LET l == [NoLeg EXCEPT !.known = TRUE, !.active = x]
           IN  l \in Leg /\ l.known = TRUE /\ l.active = x /\ l.sig = "none"
BY DEF Leg, NoLeg

\* The members of a roster, as a member that has no room yet takes them in.
LEMMA IngestFacts ==
    ASSUME NEW p \in Members, NEW g \in GroupState, \A q \in Members : g.mem[q] = NoLeg,
           NEW R \in SUBSET Members
    PROVE  LET h == IngestRoster(p, g, R)
           IN  /\ h \in GroupState /\ h = [g EXCEPT !.mem = h.mem]
               /\ \A q \in Members : /\ h.mem[q].known <=> q \in R
                                     /\ h.mem[q].active <=> q \in R /\ q = p
                                     /\ h.mem[q].sig = "none"
<1> DEFINE L(x) == [NoLeg EXCEPT !.known = TRUE, !.active = x]
           M == [q \in Members |->
                   IF q \in R /\ ~g.mem[q].known THEN L(q = p) ELSE g.mem[q]]
           h == IngestRoster(p, g, R)
<1>1. ASSUME NEW q \in Members
      PROVE  /\ M[q] \in Leg
             /\ M[q].known <=> q \in R
             /\ M[q].active <=> q \in R /\ q = p
             /\ M[q].sig = "none"
  <2>1. g.mem[q] = NoLeg /\ ~g.mem[q].known
        BY DEF NoLeg
  <2>2. CASE q \notin R
    <3>1. M[q] = NoLeg
          BY <2>1, <2>2, Zenon
    <3>2. NoLeg \in Leg /\ ~NoLeg.known /\ ~NoLeg.active /\ NoLeg.sig = "none"
          BY DEF NoLeg, Leg
    <3>3. QED
          BY <2>2, <3>1, <3>2, Zenon
  <2>3. CASE q \in R /\ q = p
    <3>1. (q = p) = TRUE
          BY <2>3
    <3>2. M[q] = L(TRUE)
          BY <2>1, <2>3, <3>1, Zenon
    <3>3. L(TRUE) \in Leg /\ L(TRUE).known /\ L(TRUE).active /\ L(TRUE).sig = "none"
          BY NewLegFacts
    <3>4. QED
          BY <2>3, <3>2, <3>3, Zenon
  <2>4. CASE q \in R /\ q # p
    <3>1. (q = p) = FALSE
          BY <2>4
    <3>2. M[q] = L(FALSE)
          BY <2>1, <2>4, <3>1, Zenon
    <3>3. L(FALSE) \in Leg /\ L(FALSE).known /\ ~L(FALSE).active /\ L(FALSE).sig = "none"
          BY NewLegFacts
    <3>4. QED
          BY <2>4, <3>2, <3>3, Zenon
  <2>5. QED
        BY <2>2, <2>3, <2>4
<1>2. h = [g EXCEPT !.mem = M]
      BY DEF IngestRoster
<1>3. M \in [Members -> Leg]
      BY <1>1
<1> HIDE DEF M
<1>4. h \in GroupState /\ h.mem = M
      BY <1>2, <1>3 DEF GroupState
<1>5. QED
      BY <1>1, <1>2, <1>4

\* A member without a room enters r.
LEMMA EnterFits ==
    ASSUME NEW p \in Members, NEW o \in GroupState, NEW n \in Nat, NEW J, Placed(p, o, n, J),
           NEW m \in Nat, n <= m, m <= MaxSeats, NEW K, J \subseteq K, NEW r \in 1..m, <<p, r>> \in K,
           o.room = None, NEW g \in GroupState, g.room = r, g.mem = o.mem, g.waits = o.waits,
           g.pending \in {o.pending, None}, NEW R \in SUBSET Members, NEW fn \in {"start", "accept"}
    PROVE  LET h == IngestRoster(p, g, R)
           IN  Fits(p, IF h.stream THEN AfterMedia(p, h, fn, R) ELSE Quiet(Await(h, fn, None)), m, K)
<1>1. \A w \in o.waits : w.peer = None /\ w.room \in 1..m
      BY MemberFacts DEF Placed
<1> DEFINE h == IngestRoster(p, g, R)
           w == [fn |-> fn, room |-> r, peer |-> None]
           k == Await(h, fn, None)
<1>2. \A q \in Members : g.mem[q] = NoLeg
      BY DEF Placed
<1>3. /\ h \in GroupState /\ h = [g EXCEPT !.mem = h.mem]
      /\ \A q \in Members : h.mem[q].sig = "none" /\ (h.mem[q].active => q = p)
      BY <1>2, IngestFacts
<1>4. h \in GroupState
      BY <1>3
<1>5. h.room = r /\ h.waits = o.waits /\ h.pending \in (1..m) \cup {None}
  <2>1. h.room = r /\ h.waits = o.waits /\ h.pending = g.pending
        BY <1>3 DEF GroupState
  <2>2. QED
        BY <2>1 DEF Placed
<1>6. Placed(p, h, m, K)
      BY <1>1, <1>3, <1>5, MemberFacts DEF Placed
<1>7. Fits(p, AfterMedia(p, h, fn, R), m, K)
      BY <1>4, <1>6, MediaFits
<1>8. w \in Wait /\ w.peer = None /\ w.room \in 1..m
  <2>1. r \in Rooms
        BY MemberFacts DEF Rooms
  <2>2. QED
        BY <2>1 DEF Wait
<1>9. k = [h EXCEPT !.waits = h.waits \cup {w}]
       BY <1>5 DEF Await
<1>10. k \in GroupState
       BY <1>4, <1>8, <1>9 DEF GroupState
<1>11. k.room = h.room /\ k.mem = h.mem /\ k.pending = h.pending /\ k.waits = h.waits \cup {w}
       BY <1>4, <1>9 DEF GroupState
<1>12. Placed(p, k, m, K)
       BY <1>6, <1>8, <1>11 DEF Placed
<1>13. Fits(p, Quiet(k), m, K)
       BY <1>10, <1>12, QuietFits
<1>14. QED
       BY <1>7, <1>13

\* Every roster seats somebody.
LEMMA SeatedFacts ==
    ASSUME rooms \in Seq(Rosters)
    PROVE  Seated \in Nat /\ Len(rooms) <= Seated
<1> DEFINE n == Len(rooms)
           S == {s \in (1..n) \X Members : s[2] \in rooms[s[1]]}
           f == [i \in 1..n |-> <<i, CHOOSE q \in Members : q \in rooms[i]>>]
<1>1. n \in Nat /\ \A i \in 1..n : rooms[i] \in Rosters
      BY LenProperties
<1>2. ASSUME NEW R \in Rosters PROVE \E q \in Members : q \in R
  <2>1. R \subseteq Members /\ Cardinality(R) >= 2
        BY GroupAssumption
  <2>2. Cardinality({}) = 0
        BY FS_EmptySet
  <2>3. R # {}
    <3>1. R = {} => Cardinality(R) = 0
          BY <2>2, Zenon
    <3>2. QED
          BY <2>1, <3>1
  <2>4. QED
        BY <2>1, <2>3
<1>3. IsFiniteSet(1..n) /\ Cardinality(1..n) = n
      BY <1>1, FS_Interval
<1>4. IsFiniteSet((1..n) \X Members)
      BY <1>3, FS_Product, GroupAssumption
<1>5. IsFiniteSet(S)
      BY <1>4, FS_Subset
<1>6. ASSUME NEW i \in 1..n PROVE f[i] \in S /\ f[i][1] = i
  <2>1. \E q \in Members : q \in rooms[i]
        BY <1>1, <1>2
  <2>2. QED
        BY <2>1
<1>7. \A i, j \in 1..n : f[i] = f[j] => i = j
      BY <1>6
<1>8. f \in [1..n -> S]
      BY <1>6
<1>9. f \in Injection(1..n, S)
      BY <1>7, <1>8 DEF Injection, IsInjective
<1>10. n <= Cardinality(S) /\ Cardinality(S) \in Nat
       BY <1>3, <1>5, <1>9, FS_Injection, FS_CardinalityType
<1>11. QED
       BY <1>10 DEF Seated

LEMMA MoreFrames ==
    ASSUME NEW J, NEW K, J \subseteq K, NEW a \in Members, NEW b \in Members
    PROVE  Seq(FramesFrom(a, b, J)) \subseteq Seq(FramesFrom(a, b, K))
<1>1. FramesFrom(a, b, J) \subseteq FramesFrom(a, b, K)
      BY DEF FramesFrom
<1>2. QED
      BY <1>1, SeqMonotonic

LEMMA PostFacts ==
    ASSUME NEW ch \in [Members -> [Members -> Seq(Frame)]], NEW p \in Members,
           NEW out \in [Members -> Seq(Frame)]
    PROVE  /\ Post(ch, p, out) \in [Members -> [Members -> Seq(Frame)]]
           /\ \A b \in Members : Post(ch, p, out)[p][b] = ch[p][b] \o out[b]
           /\ \A a \in Members \ {p} : Post(ch, p, out)[a] = ch[a]
<1>1. \A b \in Members : ch[p][b] \o out[b] \in Seq(Frame)
      BY ConcatProperties
<1>2. QED
      BY <1>1 DEF Post

\* A step of p, which may have taken a frame out of ch.
LEMMA KnownStays ==
    ASSUME Known, NEW p \in Members, NEW r, Fits(p, r, Len(rooms)', joined'), Bounds',
           Len(rooms) <= Len(rooms'), joined \subseteq joined',
           NEW ch \in [Members -> [Members -> Seq(Frame)]],
           \A a, b \in Members : ch[a][b] \in Seq(FramesFrom(a, b, joined)),
           group' = [group EXCEPT ![p] = r.g], chan' = Post(ch, p, r.out)
    PROVE  Known'
<1>1. group' \in [Members -> GroupState]
      BY DEF Known, Fits
<1>2. r.out \in [Members -> Seq(Frame)]
      BY DEF Fits
<1>3. /\ chan' \in [Members -> [Members -> Seq(Frame)]]
      /\ \A b \in Members : chan'[p][b] = ch[p][b] \o r.out[b]
      /\ \A a \in Members \ {p} : chan'[a] = ch[a]
  <2>1. PICK out \in [Members -> Seq(Frame)] : out = r.out
        BY <1>2
  <2>2. /\ Post(ch, p, out) \in [Members -> [Members -> Seq(Frame)]]
        /\ \A b \in Members : Post(ch, p, out)[p][b] = ch[p][b] \o out[b]
        /\ \A a \in Members \ {p} : Post(ch, p, out)[a] = ch[a]
        BY PostFacts, Zenon
  <2>3. chan' = Post(ch, p, out)
        BY <2>1
  <2>4. QED
        BY <2>1, <2>2, <2>3, Zenon
<1>4. ASSUME NEW q \in Members
      PROVE  Placed(q, group'[q], Len(rooms'), joined')
  <2>1. CASE q = p
        BY <2>1 DEF Known, Fits
  <2>2. CASE q # p
    <3>1. group'[q] = group[q] /\ Placed(q, group[q], Len(rooms), joined)
          BY <2>2 DEF Known
    <3>2. Len(rooms) \in Nat /\ Len(rooms') \in Nat
          BY LenProperties DEF Known, Bounds
    <3>3. 1..Len(rooms) \subseteq 1..Len(rooms')
          BY <3>2
    <3>4. QED
          BY <3>1, <3>3 DEF Placed
  <2>3. QED
        BY <2>1, <2>2
<1>5. ASSUME NEW a \in Members, NEW b \in Members
      PROVE  chan'[a][b] \in Seq(FramesFrom(a, b, joined'))
  <2>1. ch[a][b] \in Seq(FramesFrom(a, b, joined'))
        BY MoreFrames
  <2>2. CASE a = p
    <3>1. r.out[b] \in Seq(FramesFrom(p, b, joined'))
          BY DEF Fits
    <3>2. chan'[a][b] = ch[a][b] \o r.out[b]
          BY <1>3, <2>2
    <3>3. QED
          BY <2>1, <2>2, <3>1, <3>2, ConcatProperties
  <2>3. CASE a # p
        BY <1>3, <2>1, <2>3
  <2>4. QED
        BY <2>2, <2>3
<1>6. QED
      BY <1>1, <1>3, <1>4, <1>5 DEF Known

LEMMA KnownDo ==
    ASSUME Known, NEW p \in Members, NEW r, Do(p, r), Fits(p, r, Len(rooms)', joined'), Bounds',
           Len(rooms) <= Len(rooms'), joined \subseteq joined'
    PROVE  Known'
<1>1. /\ chan \in [Members -> [Members -> Seq(Frame)]]
      /\ \A c, b \in Members : chan[c][b] \in Seq(FramesFrom(c, b, joined))
      BY DEF Known
<1>2. group' = [group EXCEPT ![p] = r.g] /\ chan' = Post(chan, p, r.out)
      BY DEF Do
<1>3. QED
      BY <1>1, <1>2, KnownStays

LEMMA KnownStart == ASSUME Known, NEW p \in Members, Start(p) PROVE Known'
<1> DEFINE n == Len(rooms)
           g == [group[p] EXCEPT !.room = n + 1]
<1>1. PICK R \in Rosters :
         /\ p \in R /\ Seated + Cardinality(R) <= MaxSeats
         /\ rooms' = Append(rooms, R) /\ Enter(p, g, R, "start")
      BY DEF Start
<1>2. group[p].room = None /\ lost' = lost /\ amiss' = amiss
      BY DEF Start
<1>3. n \in Nat /\ n + 1 <= MaxSeats
  <2>1. Seated \in Nat /\ n <= Seated /\ n \in Nat
        BY SeatedFacts, LenProperties DEF Known, Bounds
  <2>2. Cardinality(R) >= 2 /\ R \subseteq Members /\ IsFiniteSet(Members)
        BY GroupAssumption
  <2>3. Cardinality(R) \in Nat
        BY <2>2, FS_Subset, FS_CardinalityType
  <2>4. QED
        BY <1>1, <2>1, <2>2, <2>3, MemberFacts
<1>4. rooms' \in Seq(Rosters) /\ Len(rooms') = n + 1
      BY <1>1, AppendProperties DEF Known, Bounds
<1>5. Bounds'
  <2>1. joined' = joined \cup {<<p, n + 1>>}
    <3>1. joined' = joined \cup {<<p, g.room>>} /\ g.room = n + 1
          BY <1>1 DEF Enter, Known, GroupState
    <3>2. QED
          BY <3>1
  <2>2. joined' \subseteq Members \X (1..(n + 1))
        BY <1>3, <2>1 DEF Known, Bounds
  <2>3. QED
        BY <1>2, <1>3, <1>4, <2>2 DEF Known, Bounds
<1>6. PICK o \in GroupState : o = group[p] /\ Placed(p, o, n, joined)
      BY DEF Known
<1>7. /\ g \in GroupState /\ g.room = n + 1 /\ g.mem = o.mem /\ g.waits = o.waits
      /\ g.pending = o.pending
      BY <1>3, <1>6 DEF GroupState, Rooms
<1> DEFINE h == IngestRoster(p, g, R)
           r == IF h.stream THEN AfterMedia(p, h, "start", R) ELSE Quiet(Await(h, "start", None))
<1>8. joined \subseteq joined' /\ <<p, n + 1>> \in joined' /\ Do(p, r)
      BY <1>1, <1>7 DEF Enter
<1>9. Fits(p, r, n + 1, joined')
  <2>1. PICK m \in Nat : m = n + 1
        BY <1>3
  <2>2. R \in SUBSET Members /\ m \in 1..m /\ n <= m /\ m <= MaxSeats
        BY <1>3, <2>1, MemberFacts
  <2>3. Fits(p, r, m, joined')
        BY <1>2, <1>3, <1>6, <1>7, <1>8, <2>1, <2>2, EnterFits
  <2>4. QED
        BY <2>1, <2>3
<1>10. Fits(p, r, Len(rooms'), joined') /\ n <= Len(rooms')
       BY <1>3, <1>4, <1>9
<1>11. QED
       BY <1>5, <1>8, <1>10, KnownDo

LEMMA KnownAccept == ASSUME Known, NEW p \in Members, AcceptInvite(p) PROVE Known'
<1> DEFINE n == Len(rooms)
<1>1. group[p].pending # None /\ rooms' = rooms /\ lost' = lost /\ amiss' = amiss
      BY DEF AcceptInvite
<1>2. n \in Nat /\ n <= MaxSeats /\ Len(rooms') = n
      BY <1>1, LenProperties DEF Known, Bounds
<1>3. PICK o \in GroupState : o = group[p] /\ Placed(p, o, n, joined)
      BY DEF Known
<1>4. o.pending \in 1..n
      BY <1>1, <1>3 DEF Placed
<1>5. PICK a \in GroupState :
         /\ a = Answered(group[p])
         /\ a.room = o.room /\ a.mem = o.mem /\ a.waits = o.waits /\ a.pending = None
  <2> DEFINE a == [o EXCEPT !.pending = None, !.roster = {}]
  <2>1. a \in GroupState
        BY DEF GroupState
  <2>2. a.room = o.room /\ a.mem = o.mem /\ a.waits = o.waits /\ a.pending = None
        BY DEF GroupState
  <2>3. a = Answered(group[p])
        BY <1>3 DEF Answered
  <2>4. QED
        BY <2>1, <2>2, <2>3
<1>6. CASE o.room = None
  <2> DEFINE g == [a EXCEPT !.room = o.pending]
             h == IngestRoster(p, g, o.roster)
             r == IF h.stream THEN AfterMedia(p, h, "accept", o.roster) ELSE Quiet(Await(h, "accept", None))
  <2>1. /\ g \in GroupState
        /\ g.room = o.pending /\ g.mem = o.mem /\ g.waits = o.waits /\ g.pending = None
        BY <1>4, <1>5, <1>2 DEF GroupState, Rooms
  <2>2. Do(p, r) /\ joined' = joined \cup {<<p, o.pending>>}
        BY <1>3, <1>5, <1>6, <2>1 DEF AcceptInvite, Enter
  <2>3. o.roster \in SUBSET Members
        BY DEF GroupState
  <2>4. joined \subseteq joined' /\ <<p, o.pending>> \in joined'
        BY <2>2
  <2> HIDE DEF g
  <2>5. Fits(p, r, n, joined')
        BY <1>2, <1>3, <1>4, <1>6, <2>1, <2>3, <2>4, EnterFits
  <2>6. Bounds'
        BY <1>1, <1>4, <2>2 DEF Known, Bounds
  <2>7. Fits(p, r, Len(rooms'), joined') /\ n <= Len(rooms')
        BY <1>2, <2>5
  <2>8. QED
        BY <2>2, <2>4, <2>6, <2>7, KnownDo
<1>7. CASE o.room # None
  <2>1. Do(p, Quiet(a)) /\ joined' = joined
        BY <1>3, <1>5, <1>7 DEF AcceptInvite
  <2>2. Placed(p, a, n, joined)
        BY <1>3, <1>5 DEF Placed
  <2>3. Fits(p, Quiet(a), Len(rooms'), joined')
        BY <1>2, <2>1, <2>2, QuietFits
  <2>4. Bounds'
        BY <1>1, <2>1 DEF Known, Bounds
  <2>5. QED
        BY <1>2, <2>1, <2>3, <2>4, KnownDo
<1>8. QED
      BY <1>6, <1>7

\* Steps that start no room and enter none.
LEMMA KnownQuiet ==
    ASSUME Known, NEW p \in Members, NEW r, Fits(p, r, Len(rooms), joined),
           rooms' = rooms, joined' = joined, lost' \in 0..MaxLost, amiss' \subseteq Amiss,
           NEW ch \in [Members -> [Members -> Seq(Frame)]],
           \A a, b \in Members : ch[a][b] \in Seq(FramesFrom(a, b, joined)),
           group' = [group EXCEPT ![p] = r.g], chan' = Post(ch, p, r.out)
    PROVE  Known'
<1>1. Bounds'
      BY DEF Known, Bounds
<1>2. Fits(p, r, Len(rooms)', joined') /\ Len(rooms) <= Len(rooms')
      BY LenProperties DEF Known, Bounds
<1>3. QED
      BY <1>1, <1>2, KnownStays

LEMMA KnownIdle ==
    ASSUME Known, NEW p \in Members, NEW r, Do(p, r), Fits(p, r, Len(rooms), joined),
           rooms' = rooms, joined' = joined, lost' = lost, amiss' \subseteq Amiss
    PROVE  Known'
<1>1. Bounds'
      BY DEF Known, Bounds
<1>2. Fits(p, r, Len(rooms)', joined') /\ Len(rooms) <= Len(rooms')
      BY LenProperties DEF Known, Bounds
<1>3. QED
      BY <1>1, <1>2, KnownDo

LEMMA KnownReject == ASSUME Known, NEW p \in Members, RejectInvite(p) PROVE Known'
<1>1. PICK o \in GroupState : o = group[p] /\ Placed(p, o, Len(rooms), joined)
      BY DEF Known
<1>2. PICK a \in GroupState :
         /\ a = Answered(group[p])
         /\ a.room = o.room /\ a.mem = o.mem /\ a.waits = o.waits /\ a.pending = None
  <2> DEFINE a == [o EXCEPT !.pending = None, !.roster = {}]
  <2>1. a \in GroupState
        BY DEF GroupState
  <2>2. a.room = o.room /\ a.mem = o.mem /\ a.waits = o.waits /\ a.pending = None
        BY DEF GroupState
  <2>3. a = Answered(group[p])
        BY <1>1 DEF Answered
  <2>4. QED
        BY <2>1, <2>2, <2>3
<1>3. Placed(p, a, Len(rooms), joined)
      BY <1>1, <1>2 DEF Placed
<1>4. Fits(p, Quiet(a), Len(rooms), joined)
      BY <1>3, QuietFits
<1>5. /\ Do(p, Quiet(a))
      /\ rooms' = rooms /\ joined' = joined /\ lost' = lost /\ amiss' \subseteq Amiss
      BY <1>2 DEF RejectInvite, Known, Bounds
<1>6. QED
      BY <1>4, <1>5, KnownIdle

\* A wait that is over.
LEMMA WaitOver ==
    ASSUME Known, NEW p \in Members, NEW w \in group[p].waits
    PROVE  \E g \in GroupState :
              /\ g = [group[p] EXCEPT !.waits = @ \ {w}] /\ Placed(p, g, Len(rooms), joined)
              /\ g.room = group[p].room /\ g.mem = group[p].mem /\ g.pending = group[p].pending
              /\ g.waits = group[p].waits \ {w}
<1>1. PICK o \in GroupState : o = group[p] /\ Placed(p, o, Len(rooms), joined)
      BY DEF Known
<1> DEFINE g == [o EXCEPT !.waits = @ \ {w}]
<1>2. g \in GroupState
      BY DEF GroupState
<1>3. /\ g.room = o.room /\ g.mem = o.mem /\ g.pending = o.pending
      /\ g.waits = o.waits \ {w}
      BY DEF GroupState
<1>4. Placed(p, g, Len(rooms), joined)
      BY <1>1, <1>3 DEF Placed
<1>5. g = [group[p] EXCEPT !.waits = @ \ {w}]
      BY <1>1
<1>6. QED
      BY <1>1, <1>2, <1>3, <1>4, <1>5

LEMMA KnownMedia ==
    ASSUME Known, NEW p \in Members, NEW w \in group[p].waits, GotMedia(p, w)
    PROVE  Known'
<1>1. PICK o \in GroupState : o = group[p] /\ Placed(p, o, Len(rooms), joined)
      BY DEF Known
<1>2. PICK g \in GroupState : g = [group[p] EXCEPT !.waits = @ \ {w}] /\ Placed(p, g, Len(rooms), joined)
      BY <1>1, WaitOver
<1>3. w.room \in 1..Len(rooms)
      BY <1>1 DEF Placed
<1>4. rooms[w.room] \in SUBSET Members
      BY <1>3, LenProperties, MemberFacts DEF Known, Bounds
<1>5. Len(rooms) \in Nat
      BY LenProperties DEF Known, Bounds
<1>6. Fits(p, AfterMedia(p, g, w.fn, rooms[w.room]), Len(rooms), joined)
      BY <1>2, <1>4, <1>5, MediaFits
<1>7. /\ Do(p, AfterMedia(p, g, w.fn, rooms[w.room]))
      /\ rooms' = rooms /\ joined' = joined /\ lost' = lost /\ amiss' \subseteq Amiss
      BY <1>2 DEF GotMedia, Known, Bounds
<1>8. QED
      BY <1>6, <1>7, KnownIdle

LEMMA KnownSdp ==
    ASSUME Known, NEW p \in Members, NEW w \in group[p].waits, GotSdp(p, w)
    PROVE  Known'
<1>1. PICK o \in GroupState : o = group[p] /\ Placed(p, o, Len(rooms), joined)
      BY DEF Known
<1>2. PICK g \in GroupState :
         /\ g = [group[p] EXCEPT !.waits = @ \ {w}] /\ Placed(p, g, Len(rooms), joined)
         /\ g.room = o.room /\ g.mem = o.mem
      BY <1>1, WaitOver
<1>3. w \in Wait /\ w.fn \in {"offer", "answer"}
      BY <1>1 DEF GotSdp, GroupState
<1>4. w.peer \in Members /\ w.peer # None
      BY <1>3, MemberFacts, WaitFacts
<1>5. PICK q \in Members : q = w.peer
      BY <1>4
<1>6. /\ q # p /\ g.room = w.room /\ g.mem[q].sig # "none" /\ (w.fn = "offer" => p < q)
      BY <1>1, <1>2, <1>4, <1>5 DEF Placed
<1>7. g.room \in Rooms /\ g.room # None
      BY <1>3, <1>6, MemberFacts, WaitFacts
<1>8. <<q, g.room>> \in joined /\ <<p, g.room>> \in joined
      BY <1>2, <1>6, <1>7 DEF Placed
<1>9. Len(rooms) \in Nat /\ joined \subseteq Members \X (1..Len(rooms))
      BY LenProperties DEF Known, Bounds
<1>10. rooms' = rooms /\ joined' = joined /\ lost' = lost /\ amiss' \subseteq Amiss
       BY DEF GotSdp, Known, Bounds
<1>11. CASE w.fn = "offer"
  <2> DEFINE h == [g EXCEPT !.mem[q].sig = "offered"]
  <2>1. h \in GroupState /\ Placed(p, h, Len(rooms), joined)
    <3>1. PICK x \in {"offered", "stable"} : x = "offered"
          OBVIOUS
    <3>2. PICK n \in Nat : n = Len(rooms)
          BY <1>9
    <3>3. /\ [g EXCEPT !.mem[q].sig = x] \in GroupState
          /\ Placed(p, [g EXCEPT !.mem[q].sig = x], n, joined)
          BY <1>2, <1>7, <1>8, <3>2, SigFits
    <3>4. QED
          BY <3>1, <3>2, <3>3, Zenon
  <2>2. /\ SendTo(q, "OFFER", g.room) \in [Members -> Seq(Frame)]
        /\ \A b \in Members : SendTo(q, "OFFER", g.room)[b] \in Seq(FramesFrom(p, b, joined))
        BY <1>6, <1>7, <1>8, <1>11, SendFits
  <2>3. Do(p, Result(h, SendTo(q, "OFFER", g.room)))
        BY <1>2, <1>5, <1>11 DEF GotSdp
  <2>4. Fits(p, Result(h, SendTo(q, "OFFER", g.room)), Len(rooms), joined)
        BY <2>1, <2>2 DEF Fits, Result
  <2>5. QED
        BY <1>10, <2>3, <2>4, KnownIdle
<1>12. CASE w.fn = "answer"
  <2> DEFINE k == [g EXCEPT !.mem[q].sig = "stable"]
             h == [g EXCEPT !.mem[q].sig = "stable", !.mem[q].active = TRUE]
  <2>1. k \in GroupState /\ Placed(p, k, Len(rooms), joined) /\ k.room = g.room
    <3>1. PICK x \in {"offered", "stable"} : x = "stable"
          OBVIOUS
    <3>2. PICK n \in Nat : n = Len(rooms)
          BY <1>9
    <3>3. /\ [g EXCEPT !.mem[q].sig = x] \in GroupState
          /\ Placed(p, [g EXCEPT !.mem[q].sig = x], n, joined)
          BY <1>2, <1>7, <1>8, <3>2, SigFits
    <3>4. k.room = g.room
          BY DEF GroupState
    <3>5. QED
          BY <3>1, <3>2, <3>3, <3>4, Zenon
  <2>2. PICK x \in BOOLEAN : x
        OBVIOUS
  <2>3. h = [k EXCEPT !.mem[q].active = x]
        BY <2>2, Zenon
  <2>4. h \in GroupState /\ Placed(p, h, Len(rooms), joined)
    <3>1. [k EXCEPT !.mem[q].active = x] \in GroupState /\ Placed(p, [k EXCEPT !.mem[q].active = x], Len(rooms), joined)
          BY <1>7, <1>8, <1>9, <2>1, ActiveFits
    <3>2. QED
          BY <2>3, <3>1
  <2>5. /\ SendTo(q, "ANSWER", g.room) \in [Members -> Seq(Frame)]
        /\ \A b \in Members : SendTo(q, "ANSWER", g.room)[b] \in Seq(FramesFrom(p, b, joined))
        BY <1>6, <1>7, <1>8, SendFits
  <2>6. Do(p, Result(h, SendTo(q, "ANSWER", g.room)))
        BY <1>2, <1>5, <1>12 DEF GotSdp
  <2>7. Fits(p, Result(h, SendTo(q, "ANSWER", g.room)), Len(rooms), joined)
        BY <2>4, <2>5 DEF Fits, Result
  <2>8. QED
        BY <1>10, <2>6, <2>7, KnownIdle
<1>13. QED
       BY <1>3, <1>11, <1>12

LEMMA KnownLeave == ASSUME Known, NEW p \in Members, Leave(p) PROVE Known'
<1>1. PICK o \in GroupState : o = group[p] /\ Placed(p, o, Len(rooms), joined)
      BY DEF Known
<1>2. PICK n \in Nat : n = Len(rooms)
      BY LenProperties DEF Known, Bounds
<1>3. Teardown(o) \in GroupState /\ Placed(p, Teardown(o), n, joined)
      BY <1>1, <1>2, TeardownFits
<1>4. /\ Broadcast(p, o, "BYE", {}) \in [Members -> Seq(Frame)]
      /\ \A b \in Members : Broadcast(p, o, "BYE", {})[b] \in Seq(FramesFrom(p, b, joined))
      BY <1>1, BroadcastFits
<1>5. Fits(p, Result(Teardown(o), Broadcast(p, o, "BYE", {})), Len(rooms), joined)
      BY <1>2, <1>3, <1>4 DEF Fits, Result
<1>6. /\ Do(p, Result(Teardown(o), Broadcast(p, o, "BYE", {})))
      /\ rooms' = rooms /\ joined' = joined /\ lost' = lost
      BY <1>1 DEF Leave
<1>7. amiss' \subseteq Amiss
      BY DEF Leave, Known, Bounds, Amiss
<1>8. QED
      BY <1>5, <1>6, <1>7, KnownIdle

\* A step that sends nothing.
LEMMA PostNothing ==
    ASSUME NEW ch \in [Members -> [Members -> Seq(Frame)]], NEW p \in Members
    PROVE  Post(ch, p, [q \in Members |-> <<>>]) = ch
<1>1. \A q \in Members : ch[p][q] \o <<>> = ch[p][q]
      BY ConcatEmptySeq
<1>2. [q \in Members |-> ch[p][q] \o [b \in Members |-> <<>>][q]] = ch[p]
      BY <1>1
<1>3. QED
      BY <1>2 DEF Post

LEMMA KnownSilent ==
    ASSUME Known, NEW p \in Members, NEW g \in GroupState, Placed(p, g, Len(rooms), joined),
           group' = [group EXCEPT ![p] = g], chan' = chan,
           rooms' = rooms, joined' = joined, lost' \in 0..MaxLost, amiss' \subseteq Amiss
    PROVE  Known'
<1>1. Fits(p, Quiet(g), Len(rooms), joined)
      BY QuietFits
<1>2. /\ chan \in [Members -> [Members -> Seq(Frame)]]
      /\ \A a, b \in Members : chan[a][b] \in Seq(FramesFrom(a, b, joined))
      BY DEF Known
<1>3. Post(chan, p, Quiet(g).out) = chan /\ Quiet(g).g = g
      BY <1>2, PostNothing DEF Quiet, Result
<1>4. group' = [group EXCEPT ![p] = Quiet(g).g] /\ chan' = Post(chan, p, Quiet(g).out)
      BY <1>3
<1>5. QED
      BY <1>1, <1>2, <1>4, KnownQuiet

LEMMA KnownClose == ASSUME Known, NEW p \in Members, CloseWindow(p) PROVE Known'
<1>1. PICK o \in GroupState : o = group[p] /\ Placed(p, o, Len(rooms), joined)
      BY DEF Known
<1> DEFINE g == [o EXCEPT !.shown = FALSE]
<1>2. g \in GroupState
      BY DEF GroupState
<1>3. g.room = o.room /\ g.mem = o.mem /\ g.pending = o.pending /\ g.waits = o.waits
      BY DEF GroupState
<1>4. Placed(p, g, Len(rooms), joined)
      BY <1>1, <1>3 DEF Placed
<1>5. /\ group' = [group EXCEPT ![p] = g] /\ chan' = chan
      /\ rooms' = rooms /\ joined' = joined /\ lost' \in 0..MaxLost /\ amiss' \subseteq Amiss
      BY <1>1 DEF CloseWindow, Known, Bounds
<1>6. QED
      BY <1>2, <1>4, <1>5, KnownSilent

LEMMA KnownRefused ==
    ASSUME Known, NEW p \in Members, NEW w \in group[p].waits, MediaRefused(p, w)
    PROVE  Known'
<1>1. PICK g \in GroupState :
         /\ g = [group[p] EXCEPT !.waits = @ \ {w}] /\ Placed(p, g, Len(rooms), joined)
      BY WaitOver
<1>2. group' = [group EXCEPT ![p] = g]
      BY <1>1 DEF MediaRefused
<1>3. lost' \in 0..MaxLost
      BY MemberFacts DEF MediaRefused, Known, Bounds
<1>4. chan' = chan /\ rooms' = rooms /\ joined' = joined /\ amiss' \subseteq Amiss
      BY DEF MediaRefused, Known, Bounds, Amiss
<1>5. QED
      BY <1>1, <1>2, <1>3, <1>4, KnownSilent

\* The first frame from q to p is taken off the channel.
\* The frame at the head of q's channel to p is out.
Shortened(p, q, ch) ==
    /\ ch = [chan EXCEPT ![q][p] = Tail(@)]
    /\ ch[q][p] = Tail(chan[q][p])
    /\ \A a, b \in Members : a # q \/ b # p => ch[a][b] = chan[a][b]
    /\ \A a, b \in Members : ch[a][b] \in Seq(FramesFrom(a, b, joined))

LEMMA TakenFacts ==
    ASSUME Known, NEW p \in Members, NEW q \in Members, chan[q][p] # <<>>
    PROVE  /\ Head(chan[q][p]) \in FramesFrom(q, p, joined)
           /\ \E ch \in [Members -> [Members -> Seq(Frame)]] : Shortened(p, q, ch)
<1> DEFINE ch == [chan EXCEPT ![q][p] = Tail(@)]
<1>1. /\ chan \in [Members -> [Members -> Seq(Frame)]]
      /\ \A a, b \in Members : chan[a][b] \in Seq(FramesFrom(a, b, joined))
      BY DEF Known
<1>2. Head(chan[q][p]) \in FramesFrom(q, p, joined) /\ Tail(chan[q][p]) \in Seq(FramesFrom(q, p, joined))
      BY <1>1, HeadTailProperties
<1>3. Tail(chan[q][p]) \in Seq(Frame)
      BY <1>1, HeadTailProperties
<1>4. ch = [chan EXCEPT ![q] = [chan[q] EXCEPT ![p] = Tail(chan[q][p])]]
      BY <1>1
<1>5. ch \in [Members -> [Members -> Seq(Frame)]]
      BY <1>1, <1>3, <1>4
<1>6. /\ ch[q][p] = Tail(chan[q][p])
      /\ \A a, b \in Members : a # q \/ b # p => ch[a][b] = chan[a][b]
      BY <1>1, <1>4
<1>7. \A a, b \in Members : ch[a][b] \in Seq(FramesFrom(a, b, joined))
      BY <1>1, <1>2, <1>6
<1>8. Shortened(p, q, ch)
      BY <1>6, <1>7 DEF Shortened
<1>9. QED
      BY <1>2, <1>5, <1>8

LEMMA KnownDeliver ==
    ASSUME Known, NEW p \in Members, NEW q \in Members, Deliver(p, q)
    PROVE  Known'
<1>1. PICK o \in GroupState : o = group[p] /\ Placed(p, o, Len(rooms), joined)
      BY DEF Known
<1>2. PICK n \in Nat : n = Len(rooms)
      BY LenProperties DEF Known, Bounds
<1>3. joined \subseteq Members \X (1..n)
      BY <1>2 DEF Known, Bounds
<1>4. chan[q][p] # <<>>
      BY DEF Deliver
<1>5. PICK m \in FramesFrom(q, p, joined) : m = Head(chan[q][p])
      BY <1>4, TakenFacts
<1>6. PICK ch \in [Members -> [Members -> Seq(Frame)]] : Shortened(p, q, ch)
      BY <1>4, TakenFacts
<1>7. Fits(p, OnPeerMessage(p, o, q, m), Len(rooms), joined)
      BY <1>1, <1>2, <1>3, MessageFits
<1>8. /\ group' = [group EXCEPT ![p] = OnPeerMessage(p, o, q, m).g]
      /\ chan' = Post(ch, p, OnPeerMessage(p, o, q, m).out)
      BY <1>1, <1>5, <1>6 DEF Deliver, Shortened
<1>9. rooms' = rooms /\ joined' = joined /\ lost' \in 0..MaxLost /\ amiss' \subseteq Amiss
      BY DEF Deliver, Known, Bounds
<1>10. QED
      BY <1>6, <1>7, <1>8, <1>9, KnownQuiet DEF Shortened

LEMMA KnownLose ==
    ASSUME Known, NEW p \in Members, NEW q \in Members, Lose(p, q)
    PROVE  Known'
<1>1. chan[q][p] # <<>>
      BY DEF Lose
<1>2. PICK ch \in [Members -> [Members -> Seq(Frame)]] : Shortened(p, q, ch)
      BY <1>1, TakenFacts
<1>3. chan' = ch /\ group' = group /\ rooms' = rooms /\ joined' = joined
      BY <1>2 DEF Lose, Shortened
<1>4. lost' \in 0..MaxLost /\ amiss' \subseteq Amiss
      BY MemberFacts DEF Lose, Known, Bounds, Amiss
<1>5. QED
      BY <1>2, <1>3, <1>4 DEF Known, Bounds, Shortened

LEMMA KnownStep == Known /\ [GroupNext]_groupVars => Known'
<1> SUFFICES ASSUME Known, [GroupNext]_groupVars PROVE Known'
    OBVIOUS
<1>1. CASE GroupNext
  <2>1. PICK p \in Members :
           \/ Start(p) \/ AcceptInvite(p) \/ RejectInvite(p)
           \/ Leave(p) \/ CloseWindow(p)
           \/ \E w \in group[p].waits : GotMedia(p, w) \/ GotSdp(p, w) \/ MediaRefused(p, w)
           \/ \E q \in Members : Deliver(p, q) \/ Lose(p, q)
        BY <1>1 DEF GroupNext, Resume
  <2>2. CASE Start(p) \/ AcceptInvite(p) \/ RejectInvite(p) \/ Leave(p) \/ CloseWindow(p)
        BY <2>2, KnownStart, KnownAccept, KnownReject, KnownLeave, KnownClose
  <2>3. CASE \E w \in group[p].waits : GotMedia(p, w) \/ GotSdp(p, w) \/ MediaRefused(p, w)
        BY <2>3, KnownMedia, KnownSdp, KnownRefused
  <2>4. CASE \E q \in Members : Deliver(p, q) \/ Lose(p, q)
        BY <2>4, KnownDeliver, KnownLose
  <2>5. QED
        BY <2>1, <2>2, <2>3, <2>4
<1>2. CASE UNCHANGED groupVars
      BY <1>2 DEF groupVars, Known, Bounds
<1>3. QED
      BY <1>1, <1>2

LEMMA KnownInit == GroupInit => Known
<1> SUFFICES ASSUME GroupInit PROVE Known
    OBVIOUS
<1>1. rooms = <<>> /\ lost = 0 /\ joined = {} /\ amiss = {}
      BY DEF GroupInit
<1>2. rooms \in Seq(Rosters) /\ Len(rooms) = 0
      BY <1>1, EmptySeq
<1>3. Bounds
      BY <1>1, <1>2, MemberFacts DEF Bounds
<1>4. NoLeg \in Leg
      BY DEF NoLeg, Leg
<1>5. Idle \in GroupState
      BY <1>4 DEF Idle, GroupState
<1>6. /\ Idle.room = None /\ Idle.pending = None /\ Idle.waits = {}
      /\ \A q \in Members : Idle.mem[q] = NoLeg
      BY DEF Idle
<1>7. \A p \in Members : group[p] = Idle
      BY DEF GroupInit
<1>8. \A p \in Members : Placed(p, Idle, Len(rooms), joined)
      BY <1>6 DEF Placed, NoLeg
<1>9. group \in [Members -> GroupState]
      BY <1>5 DEF GroupInit
<1>10. chan = [a \in Members |-> [b \in Members |-> <<>>]]
       BY DEF GroupInit
<1>11. \A a, b \in Members : <<>> \in Seq(Frame) /\ <<>> \in Seq(FramesFrom(a, b, joined))
       BY EmptyMessages
<1>12. QED
       BY <1>3, <1>7, <1>8, <1>9, <1>10, <1>11 DEF Known

(* The members, the frames and the rooms have their types: no call seats   *)
(* more people than MaxSeats, and what a member waits for is one of the    *)
(* four things group_call.js awaits.                                       *)
THEOREM GroupTyped == GroupSpec => []GroupTypeOK
<1>1. Known => GroupTypeOK
  <2> SUFFICES ASSUME Known PROVE GroupTypeOK
      OBVIOUS
  <2>1. \A p \in Members :
           /\ group[p].room \in Rooms \cup {None} /\ group[p].pending \in Rooms \cup {None}
           /\ group[p].mem \in [Members -> Leg] /\ group[p].roster \subseteq Members
           /\ group[p].stream \in BOOLEAN /\ group[p].shown \in BOOLEAN
           /\ group[p].waits \subseteq Wait
        BY DEF Known, GroupState
  <2>2. \A p, q \in Members : chan[p][q] \in Seq(Frame)
        BY DEF Known
  <2>3. joined \subseteq Members \X Rooms
    <3>1. 1..Len(rooms) \subseteq Rooms
          BY LenProperties, MemberFacts DEF Known, Bounds, Rooms
    <3>2. QED
          BY <3>1 DEF Known, Bounds
  <2>4. QED
        BY <2>1, <2>2, <2>3 DEF GroupTypeOK, Known, Bounds
<1>2. QED
      BY <1>1, KnownInit, KnownStep, PTL DEF GroupSpec

(* A participant on the screen once entered this very room: a frame counts *)
(* in the room it was sent in, and only whoever entered it sends there     *)
(* (group_call.js, _onPeerMessage).                                        *)
THEOREM JoinersOnly == GroupSpec => []OnlyJoiners
<1>1. Known => OnlyJoiners
      BY DEF Known, Placed, OnlyJoiners
<1>2. QED
      BY <1>1, KnownInit, KnownStep, PTL DEF GroupSpec

-----------------------------------------------------------------------------
(* Group calls: what a frame from q changes in a member that is in a room   *)

Untouched(g, q) ==
    g.mem[q].sig = "none" \/ \E w \in g.waits : w.fn = "offer" /\ w.peer = q

Spares(p, g, h, q) ==
    /\ h.room = g.room
    /\ h.stream <=> g.stream
    /\ h.shown <=> g.shown
    /\ h.mem[p].active <=> g.mem[p].active
    /\ \A b \in Members : h.mem[b].known <=> g.mem[b].known
    /\ \A b \in Members \ {q} : h.mem[b].sig = g.mem[b].sig
    /\ \A w \in Wait : w.peer # q => (w \in h.waits <=> w \in g.waits)
    /\ \A w \in h.waits \ g.waits : w.room = g.room

\* An answer to q at most: no invitation, farewell or offer.
Modest(out) == \A b \in Members : out[b] = <<>> \/ \E f \in Frame : f.cmd = "JOIN" /\ out[b] = <<f>>

LEMMA SparesSame ==
    ASSUME NEW p, NEW g, NEW q PROVE Spares(p, g, g, q)
BY DEF Spares

LEMMA QuietModest == ASSUME NEW g PROVE Modest(Quiet(g).out) /\ Quiet(g).g = g
BY DEF Modest, Quiet, Result

LEMMA JoinChanges ==
    ASSUME NEW p \in Members, NEW q \in Members \ {p}, NEW g \in GroupState, g.room \in Rooms,
           NEW h, h = OnJoin(p, g, q).g
    PROVE  /\ h \in GroupState /\ h.pending = g.pending /\ h.roster = g.roster
           /\ Spares(p, g, h, q) /\ Modest(OnJoin(p, g, q).out)
           /\ Untouched(h, q) => Untouched(g, q)
           /\ q < p => h.mem[q].sig = g.mem[q].sig
<1>1. CASE g.mem[q].active
  <2>1. OnJoin(p, g, q) = Quiet(g)
        BY <1>1 DEF OnJoin
  <2>2. h = g /\ Modest(OnJoin(p, g, q).out)
        BY <2>1, QuietModest
  <2>3. QED
        BY <2>2, SparesSame
<1>2. CASE ~g.mem[q].active
  <2>1. PICK x \in BOOLEAN : x
        OBVIOUS
  <2> DEFINE l == [g.mem[q] EXCEPT !.active = x]
             c == [g EXCEPT !.mem[q].active = TRUE]
  <2>2. c = [g EXCEPT !.mem = [g.mem EXCEPT ![q] = l]]
        BY <2>1 DEF GroupState
  <2>3. /\ l \in Leg /\ l.sig = g.mem[q].sig
        /\ l.known <=> g.mem[q].known
        BY LegFacts DEF Leg
  <2>4. /\ c \in GroupState /\ c.room = g.room /\ c.pending = g.pending /\ c.waits = g.waits
        /\ c.roster = g.roster /\ c.stream = g.stream /\ c.shown = g.shown
        /\ c.mem = [g.mem EXCEPT ![q] = l]
        BY <2>2, <2>3 DEF GroupState
  <2>5. c.mem[q] = l /\ \A b \in Members \ {q} : c.mem[b] = g.mem[b]
        BY <2>4 DEF GroupState
  <2>6. Spares(p, g, c, q)
        BY <2>3, <2>4, <2>5 DEF Spares
  <2> HIDE DEF c, l
  <2>7. OnJoin(p, g, q) = Result(IF p < q THEN ConnectTo(c, q) ELSE c, SendTo(q, "JOIN", g.room))
        BY <1>2 DEF OnJoin, c
  <2>8. h = IF p < q THEN ConnectTo(c, q) ELSE c
        BY <2>7 DEF Result
  <2>9. Modest(OnJoin(p, g, q).out)
    <3>1. OnJoin(p, g, q).out = SendTo(q, "JOIN", g.room)
          BY <2>7 DEF Result
    <3> DEFINE f == [cmd |-> "JOIN", room |-> g.room, roster |-> {}]
    <3>2. f \in Frame /\ Msg("JOIN", g.room, {}) = <<f>>
          BY MsgFrame
    <3>3. f.cmd = "JOIN"
          OBVIOUS
    <3>4. \A b \in Members : SendTo(q, "JOIN", g.room)[b] = <<>> \/ SendTo(q, "JOIN", g.room)[b] = <<f>>
          BY <3>2 DEF SendTo
    <3> HIDE DEF f
    <3>5. QED
          BY <3>1, <3>2, <3>3, <3>4 DEF Modest
  <2>10. CASE ~(p < q) \/ c.mem[q].sig # "none"
    <3>1. h = c
          BY <2>8, <2>10 DEF ConnectTo
    <3>2. Untouched(h, q) => Untouched(g, q)
          BY <2>3, <2>4, <2>5, <3>1 DEF Untouched
    <3>3. QED
          BY <2>3, <2>4, <2>5, <2>6, <2>9, <3>1, <3>2
  <2>11. CASE p < q /\ c.mem[q].sig = "none"
    <3>1. PICK w : w = [fn |-> "offer", room |-> c.room, peer |-> q]
          OBVIOUS
    <3>2. w \in Wait /\ w.room = g.room /\ w.peer = q
          BY <2>4, <3>1 DEF Wait
    <3>3. PICK k : k = [c.mem[q] EXCEPT !.sig = "new"]
          OBVIOUS
    <3>4. /\ k \in Leg /\ k.known = c.mem[q].known
          BY <2>4, <3>3, LegFacts DEF Leg
    <3>5. h = [c EXCEPT !.mem = [c.mem EXCEPT ![q] = k], !.waits = c.waits \cup {w}]
          BY <2>4, <2>8, <2>11, <3>1, <3>3 DEF ConnectTo, MakePeer, Await, GroupState
    <3>6. c.waits \cup {w} \in SUBSET Wait /\ [c.mem EXCEPT ![q] = k] \in [Members -> Leg]
          BY <2>4, <3>2, <3>4 DEF GroupState
    <3>7. /\ h \in GroupState /\ h.room = c.room /\ h.pending = c.pending
          /\ h.roster = c.roster /\ h.stream = c.stream /\ h.shown = c.shown
          /\ h.waits = c.waits \cup {w} /\ h.mem = [c.mem EXCEPT ![q] = k]
          BY <2>4, <3>5, <3>6 DEF GroupState
    <3>8. h.mem[q] = k /\ \A b \in Members \ {q} : h.mem[b] = c.mem[b]
          BY <2>4, <3>7 DEF GroupState
    <3>9. /\ \A b \in Members : h.mem[b].known <=> c.mem[b].known
          /\ h.mem[p].active <=> c.mem[p].active
          BY <3>4, <3>8
    <3>10. \A v \in Wait : v.peer # q => (v \in h.waits <=> v \in g.waits)
           BY <2>4, <3>2, <3>7
    <3>11. \A v \in h.waits \ g.waits : v.room = g.room
           BY <2>4, <3>2, <3>7
    <3>12. Spares(p, g, h, q)
           BY <2>4, <2>6, <3>7, <3>8, <3>9, <3>10, <3>11 DEF Spares
    <3>13. Untouched(g, q)
           BY <2>3, <2>5, <2>11 DEF Untouched
    <3>14. ~(q < p)
           BY <2>11, MemberFacts
    <3>15. QED
           BY <2>4, <2>9, <3>7, <3>12, <3>13, <3>14
  <2>12. QED
         BY <2>10, <2>11
<1>3. QED
      BY <1>1, <1>2

LEMMA SomebodyActive ==
    ASSUME NEW p \in Members, NEW g \in GroupState, g.mem[p].active
    PROVE  participantCount(g) # 0
<1> DEFINE S == {q \in Members : g.mem[q].active}
<1>1. S \subseteq Members /\ S # {}
      OBVIOUS
<1>2. IsFiniteSet(S)
      BY <1>1, FS_Subset, GroupAssumption
<1>3. Cardinality(S) # 0
      BY <1>1, <1>2, FS_EmptySet
<1>4. QED
      BY <1>3 DEF participantCount

LEMMA ByeChanges ==
    ASSUME NEW p \in Members, NEW q \in Members \ {p}, NEW g \in GroupState, g.mem[p].active,
           NEW h, h = OnBye(g, q).g
    PROVE  /\ h \in GroupState /\ h.pending = g.pending /\ h.roster = g.roster
           /\ Spares(p, g, h, q) /\ Modest(OnBye(g, q).out)
           /\ h.mem[q].sig = "none"
<1>1. PICK c : c = [ClosePeer(g, q) EXCEPT !.mem[q].active = FALSE]
      OBVIOUS
<1>2. PICK l : l = [[g.mem[q] EXCEPT !.sig = "none"] EXCEPT !.active = FALSE]
      OBVIOUS
<1>3. l \in Leg /\ l.sig = "none" /\ l.known = g.mem[q].known
      BY <1>2, LegFacts DEF Leg
<1>4. PICK W \in SUBSET g.waits : W = {w \in g.waits : w.peer # q}
      OBVIOUS
<1>5. c = [g EXCEPT !.mem = [g.mem EXCEPT ![q] = l], !.waits = W]
  <2>1. ClosePeer(g, q) = [g EXCEPT !.mem = [g.mem EXCEPT ![q] = [g.mem[q] EXCEPT !.sig = "none"]], !.waits = W]
        BY <1>4 DEF ClosePeer, GroupState
  <2>2. PICK k : k = [g.mem[q] EXCEPT !.sig = "none"]
        OBVIOUS
  <2>3. PICK M : M = [g.mem EXCEPT ![q] = k]
        OBVIOUS
  <2>4. M[q] = k /\ [M EXCEPT ![q] = l] = [g.mem EXCEPT ![q] = l]
        BY <2>3 DEF GroupState
  <2>5. PICK d : d = [g EXCEPT !.mem = M, !.waits = W]
        OBVIOUS
  <2>6. c = [d EXCEPT !.mem[q].active = FALSE]
        BY <1>1, <2>1, <2>2, <2>3, <2>5
  <2>7. d.mem = M
        BY <2>5 DEF GroupState
  <2>8. c = [d EXCEPT !.mem = [M EXCEPT ![q] = l]]
        BY <1>2, <2>2, <2>4, <2>6, <2>7
  <2>9. QED
        BY <2>4, <2>5, <2>8 DEF GroupState
<1>6. W \in SUBSET Wait /\ [g.mem EXCEPT ![q] = l] \in [Members -> Leg]
      BY <1>3 DEF GroupState
<1>7. /\ c \in GroupState /\ c.room = g.room /\ c.pending = g.pending
      /\ c.roster = g.roster /\ c.stream = g.stream /\ c.shown = g.shown
      /\ c.waits = W /\ c.mem = [g.mem EXCEPT ![q] = l]
      BY <1>5, <1>6 DEF GroupState
<1>8. c.mem[q] = l /\ \A b \in Members \ {q} : c.mem[b] = g.mem[b]
      BY <1>7 DEF GroupState
<1>9. participantCount(c) # 0
      BY <1>7, <1>8, SomebodyActive
<1>10. OnBye(g, q) = Quiet(c)
       BY <1>1, <1>9 DEF OnBye
<1>11. h = c /\ Modest(OnBye(g, q).out)
       BY <1>10, QuietModest
<1>12. /\ \A b \in Members : c.mem[b].known <=> g.mem[b].known
       /\ c.mem[p].active <=> g.mem[p].active
       BY <1>3, <1>8
<1>13. /\ \A w \in Wait : w.peer # q => (w \in c.waits <=> w \in g.waits)
       /\ \A w \in c.waits \ g.waits : w.room = g.room
       BY <1>4, <1>7
<1>14. Spares(p, g, c, q)
       BY <1>7, <1>8, <1>12, <1>13 DEF Spares
<1>15. QED
       BY <1>3, <1>7, <1>8, <1>11, <1>14

LEMMA OfferChanges ==
    ASSUME NEW p \in Members, NEW q \in Members \ {p}, NEW g \in GroupState, g.room \in Rooms,
           NEW h, h = OnOffer(g, q).g
    PROVE  /\ h \in GroupState /\ h.pending = g.pending /\ h.roster = g.roster
           /\ Spares(p, g, h, q) /\ Modest(OnOffer(g, q).out)
<1>1. PICK k : k = IF g.mem[q].sig = "none" THEN [g.mem[q] EXCEPT !.sig = "new"] ELSE g.mem[q]
      OBVIOUS
<1>2. /\ k \in Leg /\ k.known = g.mem[q].known /\ k.active = g.mem[q].active
      BY <1>1, LegFacts DEF Leg
<1>3. PICK w : w = [fn |-> "answer", room |-> g.room, peer |-> q]
      OBVIOUS
<1>4. w \in Wait /\ w.room = g.room /\ w.peer = q
      BY <1>3 DEF Wait
<1>5. PICK c : c = IF g.mem[q].sig = "none" THEN MakePeer(g, q) ELSE g
      OBVIOUS
<1>6. c = [g EXCEPT !.mem = [g.mem EXCEPT ![q] = k]]
  <2>1. CASE g.mem[q].sig = "none"
        BY <1>1, <1>5, <2>1 DEF MakePeer, GroupState
  <2>2. CASE g.mem[q].sig # "none"
    <3>1. [g.mem EXCEPT ![q] = k] = g.mem
          BY <1>1, <2>2 DEF GroupState
    <3>2. [g EXCEPT !.mem = g.mem] = g
          BY DEF GroupState
    <3>3. QED
          BY <1>5, <2>2, <3>1, <3>2
  <2>3. QED
        BY <2>1, <2>2
<1>7. g.waits \cup {w} \in SUBSET Wait /\ [g.mem EXCEPT ![q] = k] \in [Members -> Leg]
      BY <1>2, <1>4 DEF GroupState
<1>8. c.room = g.room /\ c.waits = g.waits
      BY <1>6 DEF GroupState
<1>9. OnOffer(g, q) = Quiet(Await(c, "answer", q))
      BY <1>5 DEF OnOffer
<1>10. h = Await(c, "answer", q) /\ Modest(OnOffer(g, q).out)
       BY <1>9, QuietModest
<1>11. h = [g EXCEPT !.mem = [g.mem EXCEPT ![q] = k], !.waits = g.waits \cup {w}]
       BY <1>3, <1>6, <1>8, <1>10 DEF Await
<1>12. /\ h \in GroupState /\ h.room = g.room /\ h.pending = g.pending
       /\ h.roster = g.roster /\ h.stream = g.stream /\ h.shown = g.shown
       /\ h.waits = g.waits \cup {w} /\ h.mem = [g.mem EXCEPT ![q] = k]
       BY <1>7, <1>11 DEF GroupState
<1>13. h.mem[q] = k /\ \A b \in Members \ {q} : h.mem[b] = g.mem[b]
       BY <1>12 DEF GroupState
<1>14. /\ \A b \in Members : h.mem[b].known <=> g.mem[b].known
       /\ h.mem[p].active <=> g.mem[p].active
       BY <1>2, <1>13
<1>15. /\ \A v \in Wait : v.peer # q => (v \in h.waits <=> v \in g.waits)
       /\ \A v \in h.waits \ g.waits : v.room = g.room
       BY <1>4, <1>12
<1>16. Spares(p, g, h, q)
       BY <1>12, <1>13, <1>14, <1>15 DEF Spares
<1>17. QED
       BY <1>10, <1>12, <1>16

LEMMA AnswerChanges ==
    ASSUME NEW p \in Members, NEW q \in Members \ {p}, NEW g \in GroupState,
           NEW h, h = OnAnswer(g, q).g
    PROVE  /\ h \in GroupState /\ h.pending = g.pending /\ h.roster = g.roster
           /\ Spares(p, g, h, q) /\ Modest(OnAnswer(g, q).out)
           /\ Untouched(h, q) => Untouched(g, q)
           /\ h.mem[q].sig = "none" <=> g.mem[q].sig = "none"
<1>1. CASE g.mem[q].sig # "offered"
  <2>1. OnAnswer(g, q) = Quiet(g)
        BY <1>1 DEF OnAnswer
  <2>2. h = g /\ Modest(OnAnswer(g, q).out)
        BY <2>1, QuietModest
  <2>3. QED
        BY <2>2, SparesSame
<1>2. CASE g.mem[q].sig = "offered"
  <2>1. PICK k : k = [g.mem[q] EXCEPT !.sig = "stable"]
        OBVIOUS
  <2>2. k \in Leg /\ k.known = g.mem[q].known /\ k.active = g.mem[q].active /\ k.sig = "stable"
        BY <2>1, LegFacts DEF Leg
  <2>3. PICK c : c = [g EXCEPT !.mem[q].sig = "stable"]
        OBVIOUS
  <2>4. c = [g EXCEPT !.mem = [g.mem EXCEPT ![q] = k]]
        BY <2>1, <2>3 DEF GroupState
  <2>5. OnAnswer(g, q) = Quiet(c)
        BY <1>2, <2>3 DEF OnAnswer
  <2>6. h = c /\ Modest(OnAnswer(g, q).out)
        BY <2>5, QuietModest
  <2>7. /\ h \in GroupState /\ h.room = g.room /\ h.pending = g.pending
        /\ h.roster = g.roster /\ h.stream = g.stream /\ h.shown = g.shown
        /\ h.waits = g.waits /\ h.mem = [g.mem EXCEPT ![q] = k]
        BY <2>2, <2>4, <2>6 DEF GroupState
  <2>8. h.mem[q] = k /\ \A b \in Members \ {q} : h.mem[b] = g.mem[b]
        BY <2>7 DEF GroupState
  <2>9. /\ \A b \in Members : h.mem[b].known <=> g.mem[b].known
        /\ h.mem[p].active <=> g.mem[p].active
        BY <2>2, <2>8
  <2>10. Spares(p, g, h, q)
         BY <2>7, <2>8, <2>9 DEF Spares
  <2>11. h.mem[q].sig # "none" /\ (Untouched(h, q) => Untouched(g, q))
         BY <2>2, <2>7, <2>8 DEF Untouched
  <2>12. QED
         BY <1>2, <2>6, <2>7, <2>10, <2>11
<1>3. QED
      BY <1>1, <1>2

LEMMA InviteChanges ==
    ASSUME NEW p \in Members, NEW q \in Members, NEW g \in GroupState, NEW m \in Frame,
           NEW h, h = OnInvite(g, m).g
    PROVE  /\ h \in GroupState
           /\ Spares(p, g, h, q) /\ Modest(OnInvite(g, m).out)
           /\ h.mem = g.mem /\ h.waits = g.waits
           /\ \/ h.pending = g.pending /\ h.roster = g.roster
              \/ g.pending = None /\ h.pending = m.room /\ h.roster = m.roster
<1>1. CASE g.room # None \/ g.pending # None
  <2>1. OnInvite(g, m) = Quiet(g)
        BY <1>1 DEF OnInvite
  <2>2. h = g /\ Modest(OnInvite(g, m).out)
        BY <2>1, QuietModest
  <2>3. QED
        BY <2>2, SparesSame
<1>2. CASE ~(g.room # None \/ g.pending # None)
  <2>1. PICK c : c = [g EXCEPT !.pending = m.room, !.roster = m.roster]
        OBVIOUS
  <2>2. OnInvite(g, m) = Quiet(c)
        BY <1>2, <2>1 DEF OnInvite
  <2>3. h = c /\ Modest(OnInvite(g, m).out)
        BY <2>2, QuietModest
  <2>4. m.room \in Rooms /\ m.roster \in SUBSET Members
        BY DEF Frame
  <2>5. /\ h \in GroupState /\ h.room = g.room /\ h.pending = m.room
        /\ h.roster = m.roster /\ h.stream = g.stream /\ h.shown = g.shown
        /\ h.waits = g.waits /\ h.mem = g.mem
        BY <2>1, <2>3, <2>4 DEF GroupState
  <2>6. Spares(p, g, h, q)
        BY <2>5 DEF Spares
  <2>7. QED
        BY <1>2, <2>3, <2>5, <2>6
<1>3. QED
      BY <1>1, <1>2

LEMMA MessageChanges ==
    ASSUME NEW p \in Members, NEW q \in Members \ {p}, NEW g \in GroupState,
           g.room # None => g.mem[p].active,
           NEW m \in Frame, m.cmd = "OFFER" => q < p,
           NEW r, r = OnPeerMessage(p, g, q, m)
    PROVE  /\ r.g \in GroupState /\ Spares(p, g, r.g, q) /\ Modest(r.out)
           /\ \/ r.g.pending = g.pending /\ r.g.roster = g.roster
              \/ /\ m.cmd = "INVITE" /\ g.pending = None
                 /\ r.g.pending = m.room /\ r.g.roster = m.roster
           /\ p < q /\ Untouched(r.g, q) => Untouched(g, q) \/ (m.cmd = "BYE" /\ m.room = g.room)
           /\ q < p /\ g.mem[q].sig = "none" =>
                 r.g.mem[q].sig = "none" \/ (m.cmd = "OFFER" /\ m.room = g.room)
<1>1. m.cmd \in {"INVITE", "JOIN", "BYE", "OFFER", "ANSWER"}
      BY DEF Frame
<1>2. CASE m.cmd = "INVITE"
  <2>1. r = OnInvite(g, m)
        BY <1>2 DEF OnPeerMessage
  <2>2. PICK h \in GroupState :
           /\ h = r.g /\ Spares(p, g, h, q) /\ Modest(r.out)
           /\ h.mem = g.mem /\ h.waits = g.waits
           /\ \/ h.pending = g.pending /\ h.roster = g.roster
              \/ g.pending = None /\ h.pending = m.room /\ h.roster = m.roster
        BY <2>1, InviteChanges
  <2>3. Untouched(h, q) <=> Untouched(g, q)
        BY <2>2 DEF Untouched
  <2>4. QED
        BY <1>2, <2>2, <2>3
<1>3. CASE m.cmd # "INVITE" /\ ~InRoom(g, q, m)
  <2>1. r = Quiet(g)
        BY <1>3 DEF OnPeerMessage
  <2>2. r.g = g /\ Modest(r.out)
        BY <2>1, QuietModest
  <2>3. QED
        BY <2>2, SparesSame
<1>4. CASE m.cmd # "INVITE" /\ InRoom(g, q, m)
  <2>1. g.room # None /\ m.room = g.room /\ g.mem[p].active
        BY <1>4 DEF InRoom
  <2>2. g.room \in Rooms
        BY <2>1 DEF GroupState
  <2>3. CASE m.cmd = "JOIN"
    <3>1. r = OnJoin(p, g, q)
          BY <1>4, <2>3 DEF OnPeerMessage
    <3>2. PICK h \in GroupState :
             /\ h = r.g /\ h.pending = g.pending /\ h.roster = g.roster
             /\ Spares(p, g, h, q) /\ Modest(r.out)
             /\ Untouched(h, q) => Untouched(g, q)
             /\ q < p => h.mem[q].sig = g.mem[q].sig
          BY <2>2, <3>1, JoinChanges
    <3>3. QED
          BY <3>2
  <2>4. CASE m.cmd = "BYE"
    <3>1. r = OnBye(g, q)
          BY <1>4, <2>4 DEF OnPeerMessage
    <3>2. PICK h \in GroupState :
             /\ h = r.g /\ h.pending = g.pending /\ h.roster = g.roster
             /\ Spares(p, g, h, q) /\ Modest(r.out)
             /\ h.mem[q].sig = "none"
          BY <2>1, <3>1, ByeChanges
    <3>3. QED
          BY <2>1, <2>4, <3>2
  <2>5. CASE m.cmd = "OFFER"
    <3>1. r = OnOffer(g, q)
          BY <1>4, <2>5 DEF OnPeerMessage
    <3>2. PICK h \in GroupState :
             /\ h = r.g /\ h.pending = g.pending /\ h.roster = g.roster
             /\ Spares(p, g, h, q) /\ Modest(r.out)
          BY <2>2, <3>1, OfferChanges
    <3>3. ~(p < q)
          BY <2>5, MemberFacts
    <3>4. QED
          BY <2>1, <2>5, <3>2, <3>3
  <2>6. CASE m.cmd = "ANSWER"
    <3>1. r = OnAnswer(g, q)
          BY <1>4, <2>6 DEF OnPeerMessage
    <3>2. PICK h \in GroupState :
             /\ h = r.g /\ h.pending = g.pending /\ h.roster = g.roster
             /\ Spares(p, g, h, q) /\ Modest(r.out)
             /\ Untouched(h, q) => Untouched(g, q)
             /\ h.mem[q].sig = "none" <=> g.mem[q].sig = "none"
          BY <3>1, AnswerChanges
    <3>3. QED
          BY <3>2
  <2>7. QED
        BY <1>1, <1>4, <2>3, <2>4, <2>5, <2>6
<1>5. QED
      BY <1>2, <1>3, <1>4

-----------------------------------------------------------------------------
(* Group calls: as long as nobody left while its camera was being opened    *)

Seat(p, g, rs) ==
    /\ g.pending # None => g.roster = rs[g.pending] /\ p \in g.roster
    /\ g.stream \/ g.shown => g.room # None
    /\ \A w \in g.waits : w.room = g.room
    /\ g.room # None => g.mem[p].active /\ \A q \in Members : g.mem[q].known => q \in rs[g.room]

Bids(p, rs) ==
    {f \in Frame : f.cmd = "INVITE" => f.roster = rs[f.room] /\ p \in f.roster}

Seats ==
    /\ \A p \in Members : Seat(p, group[p], rooms)
    /\ \A p, q \in Members : chan[q][p] \in Seq(Bids(p, rooms))

LEMMA SeqBoth ==
    ASSUME NEW S, NEW T, NEW U, S \cap T \subseteq U, NEW s \in Seq(S), s \in Seq(T)
    PROVE  s \in Seq(U)
<1>1. Len(s) \in Nat /\ s \in [1..Len(s) -> S] /\ s \in [1..Len(s) -> T]
      BY LenProperties
<1>2. s \in [1..Len(s) -> U]
      BY <1>1
<1>3. QED
      BY <1>1, <1>2, IsASeq

\* g without a camera in room r, whose roster is R, waiting for the camera.
Entered(p, g, fn, r, R) ==
    /\ g.room = r /\ ~g.stream /\ ~g.shown
    /\ g.waits = {[fn |-> fn, room |-> r, peer |-> None]}
    /\ \A q \in Members : /\ g.mem[q].known <=> q \in R
                          /\ g.mem[q].active <=> q = p
                          /\ g.mem[q].sig = "none"

\* A member without a room, camera or window enters r, whose roster is R.
LEMMA EnterChanges ==
    ASSUME NEW p \in Members, NEW r \in Rooms, NEW R \in SUBSET Members, p \in R,
           NEW g \in GroupState, g.room = r, g.waits = {}, ~g.stream, ~g.shown,
           \A q \in Members : g.mem[q] = NoLeg, NEW fn \in {"start", "accept"}
    PROVE  /\ ~IngestRoster(p, g, R).stream
           /\ Await(IngestRoster(p, g, R), fn, None) \in GroupState
           /\ Await(IngestRoster(p, g, R), fn, None).pending = g.pending
           /\ Await(IngestRoster(p, g, R), fn, None).roster = g.roster
           /\ Entered(p, Await(IngestRoster(p, g, R), fn, None), fn, r, R)
<1> DEFINE h == IngestRoster(p, g, R)
           k == Await(h, fn, None)
<1>1. PICK w : w = [fn |-> fn, room |-> r, peer |-> None]
      OBVIOUS
<1>2. w \in Wait
      BY <1>1 DEF Wait
<1>3. PICK M : M = h.mem
      OBVIOUS
<1>4. /\ h \in GroupState /\ h = [g EXCEPT !.mem = M]
      /\ \A q \in Members : /\ M[q].known <=> q \in R
                            /\ M[q].active <=> q \in R /\ q = p
                            /\ M[q].sig = "none"
      BY <1>3, IngestFacts
<1>5. /\ h.room = r /\ h.pending = g.pending /\ h.roster = g.roster
      /\ ~h.stream /\ ~h.shown /\ h.waits = {}
      BY <1>4 DEF GroupState
<1>6. PICK i \in GroupState :
         /\ i = h /\ i.room = r /\ i.pending = g.pending /\ i.roster = g.roster
         /\ ~i.stream /\ ~i.shown /\ i.waits = {} /\ i.mem = M
      BY <1>3, <1>4, <1>5
<1>7. PICK W \in SUBSET Wait : W = {w}
      BY <1>2
<1>8. k = [i EXCEPT !.waits = W]
      BY <1>1, <1>6, <1>7 DEF Await
<1> HIDE DEF h, k
<1>9. /\ k \in GroupState /\ k.room = i.room /\ k.pending = i.pending /\ k.roster = i.roster
      /\ k.stream = i.stream /\ k.shown = i.shown /\ k.waits = W /\ k.mem = i.mem
      BY <1>8 DEF GroupState
<1>10. k.waits = {[fn |-> fn, room |-> r, peer |-> None]}
       BY <1>1, <1>7, <1>9
<1>11. \A q \in Members : /\ k.mem[q].known <=> q \in R
                          /\ k.mem[q].active <=> q = p
                          /\ k.mem[q].sig = "none"
       BY <1>4, <1>6, <1>9
<1>12. Entered(p, k, fn, r, R)
       BY <1>6, <1>9, <1>10, <1>11 DEF Entered
<1>13. QED
       BY <1>5, <1>6, <1>9, <1>12 DEF h, k

LEMMA Roomless ==
    ASSUME NEW p \in Members, NEW o \in GroupState, NEW n, NEW J, Placed(p, o, n, J),
           NEW rs, Seat(p, o, rs), o.room = None
    PROVE  /\ o.waits = {} /\ ~o.stream /\ ~o.shown
           /\ \A q \in Members : o.mem[q] = NoLeg
<1>1. \A v \in Wait : v.room # None
      BY WaitFacts, MemberFacts
<1>2. QED
      BY <1>1 DEF Seat, Placed, GroupState

\* An invitation names the roster of its room for good.
LEMMA BidsGrow ==
    ASSUME NEW a \in Members, NEW b \in Members, NEW rs, NEW ns, NEW n \in Nat, NEW J,
           J \subseteq Members \X (1..n), \A i \in 1..n : ns[i] = rs[i],
           NEW s \in Seq(FramesFrom(a, b, J)), s \in Seq(Bids(b, rs))
    PROVE  s \in Seq(Bids(b, ns))
<1>1. FramesFrom(a, b, J) \cap Bids(b, rs) \subseteq Bids(b, ns)
      BY DEF FramesFrom, Bids
<1>2. QED
      BY <1>1, SeqBoth

LEMMA ModestBids ==
    ASSUME NEW out, Modest(out), NEW b \in Members, NEW rs
    PROVE  out[b] \in Seq(Bids(b, rs))
<1>1. CASE out[b] = <<>>
      BY <1>1, EmptyMessages
<1>2. CASE \E f \in Frame : f.cmd = "JOIN" /\ out[b] = <<f>>
  <2>1. PICK f \in Frame : f.cmd = "JOIN" /\ out[b] = <<f>>
        BY <1>2
  <2>2. f \in Bids(b, rs)
        BY <2>1 DEF Bids
  <2>3. QED
        BY <2>1, <2>2, OneMessage
<1>3. QED
      BY <1>1, <1>2 DEF Modest

\* A step of p, which may have taken a frame out of ch.
LEMMA SeatsStay ==
    ASSUME Known, Seats, NEW p \in Members, NEW h, group' = [group EXCEPT ![p] = h],
           Seat(p, h, rooms'), \A i \in 1..Len(rooms) : rooms'[i] = rooms[i],
           NEW ch \in [Members -> [Members -> Seq(Frame)]],
           \A a, b \in Members : /\ ch[a][b] \in Seq(FramesFrom(a, b, joined))
                                 /\ ch[a][b] \in Seq(Bids(b, rooms)),
           NEW out \in [Members -> Seq(Frame)],
           \A b \in Members : out[b] \in Seq(Bids(b, rooms')), chan' = Post(ch, p, out)
    PROVE  Seats'
<1>1. PICK n \in Nat : n = Len(rooms)
      BY LenProperties DEF Known, Bounds
<1>2. joined \subseteq Members \X (1..n)
      BY <1>1 DEF Known, Bounds
<1>3. ASSUME NEW q \in Members PROVE Seat(q, group'[q], rooms')
  <2>1. CASE q = p
        BY <2>1 DEF Known
  <2>2. CASE q # p
    <3>1. group'[q] = group[q] /\ Placed(q, group[q], n, joined) /\ Seat(q, group[q], rooms)
          BY <1>1, <2>2 DEF Known, Seats
    <3>2. group[q].room \in (1..n) \cup {None} /\ group[q].pending \in (1..n) \cup {None}
          BY <1>2, <3>1 DEF Placed
    <3>3. QED
          BY <1>1, <3>1, <3>2 DEF Seat
  <2>3. QED
        BY <2>1, <2>2
<1>4. \A a, b \in Members : ch[a][b] \in Seq(Bids(b, rooms'))
  <2>1. PICK rs : rs = rooms
        OBVIOUS
  <2>2. PICK ns : ns = rooms'
        OBVIOUS
  <2>3. \A i \in 1..n : ns[i] = rs[i]
        BY <1>1, <2>1, <2>2
  <2>4. ASSUME NEW a \in Members, NEW b \in Members PROVE ch[a][b] \in Seq(Bids(b, rooms'))
    <3>1. ch[a][b] \in Seq(FramesFrom(a, b, joined)) /\ ch[a][b] \in Seq(Bids(b, rs))
          BY <2>1
    <3>2. PICK J : J = joined
          OBVIOUS
    <3>3. ch[a][b] \in Seq(Bids(b, ns))
          BY <1>2, <2>3, <3>1, <3>2, BidsGrow
    <3>4. QED
          BY <2>2, <3>3
  <2>5. QED
        BY <2>4
<1>5. /\ \A b \in Members : chan'[p][b] = ch[p][b] \o out[b]
      /\ \A a \in Members \ {p} : chan'[a] = ch[a]
  <2>1. /\ \A b \in Members : Post(ch, p, out)[p][b] = ch[p][b] \o out[b]
        /\ \A a \in Members \ {p} : Post(ch, p, out)[a] = ch[a]
        BY PostFacts, Zenon
  <2>2. QED
        BY <2>1
<1>6. ASSUME NEW a \in Members, NEW b \in Members
      PROVE  chan'[a][b] \in Seq(Bids(b, rooms'))
  <2>1. CASE a = p
    <3>1. chan'[a][b] = ch[p][b] \o out[b] /\ ch[p][b] \in Seq(Bids(b, rooms'))
          BY <1>4, <1>5, <2>1
    <3>2. PICK S : S = Bids(b, rooms')
          OBVIOUS
    <3>3. ch[p][b] \in Seq(S) /\ out[b] \in Seq(S)
          BY <3>1, <3>2
    <3>4. ch[p][b] \o out[b] \in Seq(S)
          BY <3>3, ConcatProperties
    <3>5. QED
          BY <3>1, <3>2, <3>4
  <2>2. CASE a # p
        BY <1>4, <1>5, <2>2
  <2>3. QED
        BY <2>1, <2>2
<1>7. QED
      BY <1>3, <1>6 DEF Seats

\* A step that calls nobody and sends no invitation with a roster of its own.
LEMMA SeatsDo ==
    ASSUME Known, Seats, NEW p \in Members, NEW h, NEW out \in [Members -> Seq(Frame)],
           group' = [group EXCEPT ![p] = h], chan' = Post(chan, p, out),
           rooms' = rooms, Seat(p, h, rooms),
           \A b \in Members : out[b] \in Seq(Bids(b, rooms))
    PROVE  Seats'
<1>1. /\ chan \in [Members -> [Members -> Seq(Frame)]]
      /\ \A a, b \in Members : /\ chan[a][b] \in Seq(FramesFrom(a, b, joined))
                               /\ chan[a][b] \in Seq(Bids(b, rooms))
      BY DEF Known, Seats
<1>2. /\ Seat(p, h, rooms') /\ \A i \in 1..Len(rooms) : rooms'[i] = rooms[i]
      /\ \A b \in Members : out[b] \in Seq(Bids(b, rooms'))
      OBVIOUS
<1>3. QED
      BY <1>1, <1>2, SeatsStay

LEMMA SeatsSilent ==
    ASSUME Known, Seats, NEW p \in Members, NEW h, group' = [group EXCEPT ![p] = h],
           chan' = chan, \A i \in 1..Len(rooms) : rooms'[i] = rooms[i], Seat(p, h, rooms')
    PROVE  Seats'
<1>1. /\ chan \in [Members -> [Members -> Seq(Frame)]]
      /\ \A a, b \in Members : /\ chan[a][b] \in Seq(FramesFrom(a, b, joined))
                               /\ chan[a][b] \in Seq(Bids(b, rooms))
      BY DEF Known, Seats
<1>2. PICK out \in [Members -> Seq(Frame)] : out = [q \in Members |-> <<>>]
      BY EmptyMessages
<1>3. chan' = Post(chan, p, out)
      BY <1>1, <1>2, PostNothing
<1>4. \A b \in Members : out[b] \in Seq(Bids(b, rooms'))
      BY <1>2, EmptyMessages
<1>5. QED
      BY <1>1, <1>3, <1>4, SeatsStay

-----------------------------------------------------------------------------
(* Group calls: what each step of a member changes                          *)

\* g and h are in the same room, with the same members.
Still(g, h) ==
    /\ h.room = g.room /\ h.mem = g.mem
    /\ h.stream = g.stream /\ h.shown = g.shown /\ h.waits = g.waits

LEMMA ChanFacts ==
    ASSUME Known
    PROVE  /\ chan \in [Members -> [Members -> Seq(Frame)]]
           /\ \A a, b \in Members : chan[a][b] \in Seq(FramesFrom(a, b, joined))
BY DEF Known

LEMMA StartStep ==
    ASSUME Known, Seats, NEW p \in Members, Start(p)
    PROVE  \E k \in GroupState, R \in Rosters, r \in Rooms :
              /\ r = Len(rooms) + 1 /\ rooms' = Append(rooms, R) /\ p \in R
              /\ group[p].room = None
              /\ group' = [group EXCEPT ![p] = k] /\ chan' = chan
              /\ joined' = joined \cup {<<p, r>>} /\ amiss' = amiss
              /\ k.pending = group[p].pending /\ k.roster = group[p].roster
              /\ Entered(p, k, "start", r, R)
<1> DEFINE n == Len(rooms)
<1>1. PICK R \in Rosters :
         /\ p \in R /\ rooms' = Append(rooms, R)
         /\ Enter(p, [group[p] EXCEPT !.room = n + 1], R, "start")
      BY DEF Start
<1>2. group[p].room = None /\ amiss' = amiss
      BY DEF Start
<1>3. PICK r \in Rooms : r = n + 1
  <2>1. Len(rooms') = n + 1 /\ n \in Nat
        BY <1>1, AppendProperties, LenProperties DEF Known, Bounds
  <2>2. Len(rooms') <= MaxSeats
        BY KnownStart DEF Known, Bounds
  <2>3. n + 1 \in Rooms
        BY <2>1, <2>2, MemberFacts DEF Rooms
  <2>4. QED
        BY <2>3
<1>4. PICK o \in GroupState : o = group[p] /\ Placed(p, o, n, joined) /\ Seat(p, o, rooms)
      BY DEF Known, Seats
<1>5. PICK g \in GroupState :
         /\ g = [group[p] EXCEPT !.room = n + 1] /\ g.room = r /\ g.mem = o.mem
         /\ g.waits = o.waits /\ g.stream = o.stream /\ g.shown = o.shown
         /\ g.pending = o.pending /\ g.roster = o.roster
  <2>1. [o EXCEPT !.room = r] \in GroupState
        BY DEF GroupState
  <2>2. QED
        BY <1>3, <1>4, <2>1 DEF GroupState
<1>6. PICK fn \in {"start", "accept"} : fn = "start"
      OBVIOUS
<1> DEFINE h == IngestRoster(p, g, R)
<1>7. PICK k : k = Await(h, fn, None)
      OBVIOUS
<1>8. /\ ~h.stream /\ k \in GroupState
      /\ k.pending = g.pending /\ k.roster = g.roster
      /\ Entered(p, k, fn, r, R)
  <2>1. /\ o.waits = {} /\ ~o.stream /\ ~o.shown /\ \A q \in Members : o.mem[q] = NoLeg
        BY <1>2, <1>4, Roomless
  <2>2. /\ g.waits = {} /\ ~g.stream /\ ~g.shown /\ \A q \in Members : g.mem[q] = NoLeg
        BY <1>5, <2>1
  <2>3. R \in SUBSET Members /\ p \in R /\ g.room = r
        BY <1>1, <1>5, MemberFacts
  <2>4. /\ ~IngestRoster(p, g, R).stream
        /\ Await(IngestRoster(p, g, R), fn, None) \in GroupState
        /\ Await(IngestRoster(p, g, R), fn, None).pending = g.pending
        /\ Await(IngestRoster(p, g, R), fn, None).roster = g.roster
        /\ Entered(p, Await(IngestRoster(p, g, R), fn, None), fn, r, R)
        BY <2>2, <2>3, EnterChanges
  <2>5. QED
        BY <1>7, <2>4
<1>9. Do(p, IF h.stream THEN AfterMedia(p, h, "start", R) ELSE Quiet(Await(h, "start", None)))
      /\ joined' = joined \cup {<<p, g.room>>}
      BY <1>1, <1>5 DEF Enter
<1>10. Do(p, Quiet(k))
       BY <1>6, <1>7, <1>8, <1>9, Zenon
<1>11. group' = [group EXCEPT ![p] = k] /\ chan' = chan
       BY <1>10, ChanFacts, PostNothing DEF Do, Quiet, Result
<1>12. Entered(p, k, "start", r, R)
       BY <1>6, <1>8
<1>13. QED
       BY <1>1, <1>2, <1>3, <1>4, <1>5, <1>8, <1>9, <1>11, <1>12

LEMMA AnsweredFacts ==
    ASSUME Known, NEW p \in Members
    PROVE  \E k \in GroupState :
              /\ k = Answered(group[p]) /\ Still(group[p], k) /\ k.pending = None /\ k.roster = {}
<1>1. PICK o \in GroupState : o = group[p]
      BY DEF Known
<1> DEFINE a == [o EXCEPT !.pending = None, !.roster = {}]
<1>2. a \in GroupState
      BY DEF GroupState
<1>3. a.pending = None /\ a.roster = {} /\ Still(o, a)
      BY DEF GroupState, Still
<1>4. a = Answered(group[p])
      BY <1>1 DEF Answered
<1>5. QED
      BY <1>1, <1>2, <1>3, <1>4

LEMMA AcceptStep ==
    ASSUME Known, Seats, NEW p \in Members, AcceptInvite(p), group[p].room = None
    PROVE  \E k \in GroupState, R \in SUBSET Members, r \in Rooms :
              /\ r = group[p].pending /\ R = rooms[r] /\ p \in R
              /\ group' = [group EXCEPT ![p] = k] /\ chan' = chan /\ rooms' = rooms
              /\ joined' = joined \cup {<<p, r>>} /\ amiss' = amiss
              /\ k.pending = None
              /\ Entered(p, k, "accept", r, R)
<1> DEFINE n == Len(rooms)
<1>1. group[p].pending # None /\ rooms' = rooms /\ amiss' = amiss
      BY DEF AcceptInvite
<1>2. PICK o \in GroupState : o = group[p] /\ Placed(p, o, n, joined) /\ Seat(p, o, rooms)
      BY DEF Known, Seats
<1>3. PICK r \in Rooms : r = o.pending
      BY <1>1, <1>2 DEF GroupState
<1>4. PICK R \in SUBSET Members : R = o.roster
      BY DEF GroupState
<1>5. R = rooms[r] /\ p \in R
      BY <1>1, <1>2, <1>3, <1>4 DEF Seat
<1>6. PICK a \in GroupState :
         /\ a = Answered(group[p]) /\ Still(group[p], a) /\ a.pending = None /\ a.roster = {}
      BY AnsweredFacts
<1>7. PICK g \in GroupState :
         /\ g = [a EXCEPT !.room = r] /\ g.room = r /\ g.mem = o.mem
         /\ g.waits = o.waits /\ g.stream = o.stream /\ g.shown = o.shown
         /\ g.pending = None
  <2>1. [a EXCEPT !.room = r] \in GroupState
        BY DEF GroupState
  <2>2. QED
        BY <1>2, <1>6, <2>1 DEF GroupState, Still
<1>8. PICK fn \in {"start", "accept"} : fn = "accept"
      OBVIOUS
<1> DEFINE h == IngestRoster(p, g, R)
<1>9. PICK k : k = Await(h, fn, None)
      OBVIOUS
<1>10. /\ ~h.stream /\ k \in GroupState /\ k.pending = g.pending
       /\ Entered(p, k, fn, r, R)
  <2>1. /\ o.waits = {} /\ ~o.stream /\ ~o.shown /\ \A q \in Members : o.mem[q] = NoLeg
        BY <1>2, Roomless
  <2>2. /\ g.waits = {} /\ ~g.stream /\ ~g.shown /\ \A q \in Members : g.mem[q] = NoLeg
        BY <1>7, <2>1
  <2>3. p \in R /\ g.room = r
        BY <1>5, <1>7
  <2>4. /\ ~IngestRoster(p, g, R).stream
        /\ Await(IngestRoster(p, g, R), fn, None) \in GroupState
        /\ Await(IngestRoster(p, g, R), fn, None).pending = g.pending
        /\ Await(IngestRoster(p, g, R), fn, None).roster = g.roster
        /\ Entered(p, Await(IngestRoster(p, g, R), fn, None), fn, r, R)
        BY <2>2, <2>3, EnterChanges
  <2>5. QED
        BY <1>9, <2>4
<1>11. /\ Do(p, IF h.stream THEN AfterMedia(p, h, "accept", R) ELSE Quiet(Await(h, "accept", None)))
       /\ joined' = joined \cup {<<p, g.room>>}
  <2>1. Enter(p, [Answered(group[p]) EXCEPT !.room = group[p].pending], group[p].roster, "accept")
        BY DEF AcceptInvite
  <2>2. g = [Answered(group[p]) EXCEPT !.room = group[p].pending]
        BY <1>2, <1>3, <1>6, <1>7
  <2>3. Enter(p, g, R, "accept")
        BY <1>2, <1>4, <2>1, <2>2
  <2>4. QED
        BY <2>3 DEF Enter
<1>12. Do(p, Quiet(k))
       BY <1>8, <1>9, <1>10, <1>11, Zenon
<1>13. group' = [group EXCEPT ![p] = k] /\ chan' = chan
       BY <1>12, ChanFacts, PostNothing DEF Do, Quiet, Result
<1>14. Entered(p, k, "accept", r, R)
       BY <1>8, <1>10
<1>15. QED
       BY <1>1, <1>2, <1>3, <1>5, <1>7, <1>10, <1>11, <1>13, <1>14

\* An invitation refused, or accepted by somebody who is in a room.
Dismiss(p) == RejectInvite(p) \/ (AcceptInvite(p) /\ group[p].room # None)

LEMMA AnswerStep ==
    ASSUME Known, NEW p \in Members, Dismiss(p)
    PROVE  \E k \in GroupState :
              /\ group' = [group EXCEPT ![p] = k] /\ chan' = chan /\ rooms' = rooms
              /\ joined' = joined /\ amiss' = amiss
              /\ Still(group[p], k) /\ k.pending = None /\ k.roster = {}
<1>1. PICK k \in GroupState :
         /\ k = Answered(group[p]) /\ Still(group[p], k) /\ k.pending = None /\ k.roster = {}
      BY AnsweredFacts
<1>2. Do(p, Quiet(k)) /\ rooms' = rooms /\ joined' = joined /\ amiss' = amiss
      BY <1>1 DEF Dismiss, RejectInvite, AcceptInvite
<1>3. group' = [group EXCEPT ![p] = k] /\ chan' = chan
      BY <1>2, ChanFacts, PostNothing DEF Do, Quiet, Result
<1>4. QED
      BY <1>1, <1>2, <1>3

\* g and h have the same invitation and the same legs in the same room.
Keeps(g, h) ==
    /\ h.room = g.room /\ h.pending = g.pending /\ h.roster = g.roster /\ h.mem = g.mem

LEMMA MediaStep ==
    ASSUME Known, NEW p \in Members, NEW w \in group[p].waits, GotMedia(p, w)
    PROVE  /\ w.fn \in {"start", "accept"} /\ w.peer = None
           /\ rooms' = rooms /\ joined' = joined /\ amiss' = amiss
           /\ \E k \in GroupState :
                 /\ group' = [group EXCEPT ![p] = k] /\ Keeps(group[p], k)
                 /\ k.stream /\ k.shown /\ k.waits = group[p].waits \ {w}
                 /\ chan' = Post(chan, p, IF w.fn = "start" THEN Broadcast(p, k, "INVITE", rooms[w.room])
                                          ELSE Broadcast(p, k, "JOIN", {}))
<1>1. PICK o \in GroupState : o = group[p]
      BY DEF Known
<1>2. PICK W \in SUBSET Wait : W = o.waits \ {w}
      BY DEF GroupState
<1>3. PICK g \in GroupState :
         /\ g = [group[p] EXCEPT !.waits = @ \ {w}] /\ Keeps(o, g) /\ g.waits = W
  <2>1. [o EXCEPT !.waits = W] \in GroupState
        BY DEF GroupState
  <2>2. QED
        BY <1>1, <1>2, <2>1 DEF GroupState, Keeps
<1>4. PICK k \in GroupState :
         /\ k = [g EXCEPT !.stream = TRUE, !.shown = TRUE] /\ k.stream /\ k.shown
         /\ k.room = g.room /\ k.mem = g.mem /\ Keeps(g, k) /\ k.waits = W
  <2>1. [g EXCEPT !.stream = TRUE, !.shown = TRUE] \in GroupState
        BY DEF GroupState
  <2>2. QED
        BY <1>3, <2>1 DEF GroupState, Keeps
<1>5. \A cmd, R : Broadcast(p, g, cmd, R) = Broadcast(p, k, cmd, R)
      BY <1>4 DEF Broadcast, Others
<1>6. AfterMedia(p, g, w.fn, rooms[w.room]) =
         Result(k, IF w.fn = "start" THEN Broadcast(p, k, "INVITE", rooms[w.room])
                   ELSE Broadcast(p, k, "JOIN", {}))
      BY <1>4, <1>5 DEF AfterMedia
<1>7. /\ w.fn \in {"start", "accept"} /\ rooms' = rooms /\ joined' = joined /\ amiss' = amiss
      /\ Do(p, AfterMedia(p, g, w.fn, rooms[w.room]))
      BY <1>3 DEF GotMedia
<1>8. w.peer = None
      BY <1>1, <1>7, WaitFacts DEF GroupState
<1>9. group' = [group EXCEPT ![p] = k]
      BY <1>6, <1>7 DEF Do, Result
<1>10. chan' = Post(chan, p, IF w.fn = "start" THEN Broadcast(p, k, "INVITE", rooms[w.room])
                             ELSE Broadcast(p, k, "JOIN", {}))
       BY <1>6, <1>7 DEF Do, Result
<1>11. Keeps(group[p], k)
       BY <1>1, <1>3, <1>4 DEF Keeps
<1>12. QED
       BY <1>1, <1>2, <1>4, <1>7, <1>8, <1>9, <1>10, <1>11

LEMMA RefusedStep ==
    ASSUME Known, NEW p \in Members, NEW w \in group[p].waits, MediaRefused(p, w)
    PROVE  /\ w.fn \in {"start", "accept"} /\ w.peer = None
           /\ rooms' = rooms /\ joined' = joined /\ amiss \subseteq amiss' /\ chan' = chan
           /\ \E k \in GroupState :
                 /\ group' = [group EXCEPT ![p] = k] /\ Keeps(group[p], k)
                 /\ k.stream = group[p].stream /\ k.shown = group[p].shown
                 /\ k.waits = group[p].waits \ {w}
<1>1. PICK o \in GroupState : o = group[p]
      BY DEF Known
<1>2. PICK W \in SUBSET Wait : W = o.waits \ {w}
      BY DEF GroupState
<1>3. PICK g \in GroupState :
         /\ g = [group[p] EXCEPT !.waits = @ \ {w}] /\ Keeps(o, g) /\ g.waits = W
         /\ g.stream = o.stream /\ g.shown = o.shown
  <2>1. [o EXCEPT !.waits = W] \in GroupState
        BY DEF GroupState
  <2>2. QED
        BY <1>1, <1>2, <2>1 DEF GroupState, Keeps
<1>4. group' = [group EXCEPT ![p] = g]
      BY <1>3 DEF MediaRefused
<1>5. /\ w.fn \in {"start", "accept"} /\ rooms' = rooms /\ joined' = joined
      /\ amiss \subseteq amiss' /\ chan' = chan
      BY DEF MediaRefused
<1>6. w.peer = None
      BY <1>1, <1>5, WaitFacts DEF GroupState
<1>7. QED
      BY <1>1, <1>2, <1>3, <1>4, <1>5, <1>6

LEMMA SdpStep ==
    ASSUME Known, NEW p \in Members, NEW w \in group[p].waits, GotSdp(p, w)
    PROVE  /\ rooms' = rooms /\ joined' = joined /\ amiss' = amiss
           /\ w.peer \in Members \ {p} /\ w.room = group[p].room
           /\ group[p].mem[w.peer].sig # "none"
           /\ w.fn = "offer" => p < w.peer
           /\ \E k \in GroupState :
                 /\ group' = [group EXCEPT ![p] = k]
                 /\ k.room = group[p].room /\ k.pending = group[p].pending
                 /\ k.roster = group[p].roster /\ k.stream = group[p].stream
                 /\ k.shown = group[p].shown /\ k.waits = group[p].waits \ {w}
                 /\ \A b \in Members \ {w.peer} : k.mem[b] = group[p].mem[b]
                 /\ k.mem[w.peer].sig # "none"
                 /\ k.mem[w.peer].known <=> group[p].mem[w.peer].known
                 /\ \/ w.fn = "offer" /\ chan' = Post(chan, p, SendTo(w.peer, "OFFER", w.room))
                    \/ w.fn = "answer" /\ chan' = Post(chan, p, SendTo(w.peer, "ANSWER", w.room))
<1>1. PICK o \in GroupState : o = group[p] /\ Placed(p, o, Len(rooms), joined)
      BY DEF Known
<1>2. w \in Wait /\ w.fn \in {"offer", "answer"}
      BY <1>1 DEF GotSdp, GroupState
<1>3. w.peer \in Members /\ w.peer # None
      BY <1>2, MemberFacts, WaitFacts
<1>4. PICK q \in Members : q = w.peer
      BY <1>3
<1>5. /\ q # p /\ o.room = w.room /\ o.mem[q].sig # "none" /\ (w.fn = "offer" => p < q)
      BY <1>1, <1>3, <1>4 DEF Placed
<1>6. PICK W \in SUBSET Wait : W = o.waits \ {w}
      BY DEF GroupState
<1>7. PICK g \in GroupState :
         /\ g = [group[p] EXCEPT !.waits = @ \ {w}] /\ Keeps(o, g) /\ g.waits = W
         /\ g.stream = o.stream /\ g.shown = o.shown
         /\ g = [o EXCEPT !.waits = W]
  <2>1. [o EXCEPT !.waits = W] \in GroupState
        BY DEF GroupState
  <2>2. QED
        BY <1>1, <1>6, <2>1 DEF GroupState, Keeps
<1>8. g.room = o.room /\ g.mem = o.mem
      BY <1>7 DEF Keeps
<1>9. rooms' = rooms /\ joined' = joined /\ amiss' = amiss
      BY DEF GotSdp
<1>10. ASSUME NEW l \in Leg
       PROVE  LET k == [g EXCEPT !.mem = [g.mem EXCEPT ![q] = l]]
              IN  /\ k \in GroupState
                  /\ k.room = o.room /\ k.pending = o.pending
                  /\ k.roster = o.roster /\ k.stream = o.stream
                  /\ k.shown = o.shown /\ k.waits = o.waits \ {w}
                  /\ k.mem[q] = l /\ \A b \in Members \ {q} : k.mem[b] = o.mem[b]
  <2>1. PICK k : k = [g EXCEPT !.mem = [g.mem EXCEPT ![q] = l]]
        OBVIOUS
  <2>2. [g.mem EXCEPT ![q] = l] \in [Members -> Leg]
        BY DEF GroupState
  <2>3. /\ k \in GroupState /\ k.room = g.room /\ k.pending = g.pending
        /\ k.roster = g.roster /\ k.stream = g.stream
        /\ k.shown = g.shown /\ k.waits = g.waits /\ k.mem = [g.mem EXCEPT ![q] = l]
        BY <2>1, <2>2 DEF GroupState
  <2>4. k.mem[q] = l /\ \A b \in Members \ {q} : k.mem[b] = o.mem[b]
        BY <1>8, <2>3 DEF GroupState
  <2>5. k.waits = o.waits \ {w}
        BY <1>6, <1>7, <2>3
  <2>6. QED
        BY <1>7, <2>1, <2>3, <2>4, <2>5 DEF Keeps
<1>11. CASE w.fn = "offer"
  <2>1. PICK l : l = [g.mem[q] EXCEPT !.sig = "offered"]
        OBVIOUS
  <2>2. l \in Leg /\ l.sig # "none" /\ (l.known <=> o.mem[q].known)
        BY <1>8, <2>1, LegFacts DEF Leg
  <2>3. PICK k : k = [g EXCEPT !.mem = [g.mem EXCEPT ![q] = l]]
        OBVIOUS
  <2>4. k = [g EXCEPT !.mem[q].sig = "offered"]
        BY <2>1, <2>3 DEF GroupState
  <2>5. Do(p, Result(k, SendTo(q, "OFFER", g.room)))
        BY <1>4, <1>7, <1>11, <2>4 DEF GotSdp
  <2>6. /\ k \in GroupState
        /\ k.room = o.room /\ k.pending = o.pending
        /\ k.roster = o.roster /\ k.stream = o.stream
        /\ k.shown = o.shown /\ k.waits = o.waits \ {w}
        /\ k.mem[q] = l /\ \A b \in Members \ {q} : k.mem[b] = o.mem[b]
        BY <1>10, <2>2, <2>3
  <2>7. group' = [group EXCEPT ![p] = k] /\ chan' = Post(chan, p, SendTo(q, "OFFER", g.room))
        BY <2>5 DEF Do, Result
  <2>8. chan' = Post(chan, p, SendTo(w.peer, "OFFER", w.room))
        BY <1>4, <1>5, <1>8, <2>7
  <2>9. QED
        BY <1>1, <1>4, <1>5, <1>9, <1>11, <2>2, <2>6, <2>7, <2>8
<1>12. CASE w.fn = "answer"
  <2>1. PICK c : c = [g.mem[q] EXCEPT !.sig = "stable"]
        OBVIOUS
  <2>2. PICK l : l = [c EXCEPT !.active = TRUE]
        OBVIOUS
  <2>3. l \in Leg /\ l.sig # "none" /\ (l.known <=> o.mem[q].known)
        BY <1>8, <2>1, <2>2, LegFacts DEF Leg
  <2>4. PICK k : k = [g EXCEPT !.mem = [g.mem EXCEPT ![q] = l]]
        OBVIOUS
  <2>5. k = [g EXCEPT !.mem[q].sig = "stable", !.mem[q].active = TRUE]
    <3>1. PICK d : d = [g EXCEPT !.mem = [g.mem EXCEPT ![q] = c]]
          OBVIOUS
    <3>2. d.mem = [g.mem EXCEPT ![q] = c] /\ d.mem[q] = c
          BY <3>1 DEF GroupState
    <3>3. [d.mem EXCEPT ![q] = l] = [g.mem EXCEPT ![q] = l]
          BY <3>2 DEF GroupState
    <3>4. [d EXCEPT !.mem[q].active = TRUE] = [d EXCEPT !.mem = [g.mem EXCEPT ![q] = l]]
          BY <2>2, <3>2, <3>3
    <3>5. [d EXCEPT !.mem = [g.mem EXCEPT ![q] = l]] = k
          BY <2>4, <3>1 DEF GroupState
    <3>6. d = [g EXCEPT !.mem[q].sig = "stable"]
          BY <2>1, <3>1 DEF GroupState
    <3>7. QED
          BY <3>4, <3>5, <3>6
  <2>6. Do(p, Result(k, SendTo(q, "ANSWER", g.room)))
        BY <1>4, <1>7, <1>12, <2>5 DEF GotSdp
  <2>7. /\ k \in GroupState
        /\ k.room = o.room /\ k.pending = o.pending
        /\ k.roster = o.roster /\ k.stream = o.stream
        /\ k.shown = o.shown /\ k.waits = o.waits \ {w}
        /\ k.mem[q] = l /\ \A b \in Members \ {q} : k.mem[b] = o.mem[b]
        BY <1>10, <2>3, <2>4
  <2>8. group' = [group EXCEPT ![p] = k] /\ chan' = Post(chan, p, SendTo(q, "ANSWER", g.room))
        BY <2>6 DEF Do, Result
  <2>9. chan' = Post(chan, p, SendTo(w.peer, "ANSWER", w.room))
        BY <1>4, <1>5, <1>8, <2>8
  <2>10. QED
        BY <1>1, <1>4, <1>5, <1>9, <1>12, <2>3, <2>7, <2>8, <2>9
<1>13. QED
       BY <1>2, <1>11, <1>12

LEMMA LeaveStep ==
    ASSUME Known, NEW p \in Members, Leave(p)
    PROVE  /\ rooms' = rooms /\ joined' = joined /\ group[p].room # None
           /\ "early" \notin amiss' => /\ "early" \notin amiss
                                       /\ \A w \in group[p].waits : w.peer # None
           /\ chan' = Post(chan, p, Broadcast(p, group[p], "BYE", {}))
           /\ \E k \in GroupState :
                 /\ group' = [group EXCEPT ![p] = k]
                 /\ k.room = None /\ ~k.stream /\ ~k.shown
                 /\ k.pending = group[p].pending /\ k.roster = group[p].roster
                 /\ \A q \in Members : k.mem[q] = NoLeg
                 /\ \A w \in k.waits : w \in group[p].waits /\ w.peer = None
<1>1. PICK o \in GroupState : o = group[p]
      BY DEF Known
<1>2. PICK W \in SUBSET o.waits : W = {w \in o.waits : w.peer = None}
      OBVIOUS
<1>3. PICK M \in [Members -> Leg] : M = [q \in Members |-> NoLeg]
      BY DEF NoLeg, Leg
<1>4. PICK k : k = [o EXCEPT !.stream = FALSE, !.room = None, !.shown = FALSE, !.mem = M, !.waits = W]
      OBVIOUS
<1>5. /\ k \in GroupState /\ k.room = None /\ ~k.stream /\ ~k.shown
      /\ k.pending = o.pending /\ k.roster = o.roster /\ k.mem = M /\ k.waits = W
      BY <1>4 DEF GroupState
<1>6. k = Teardown(o)
      BY <1>2, <1>3, <1>4 DEF Teardown
<1>7. Do(p, Result(k, Broadcast(p, o, "BYE", {})))
      BY <1>1, <1>6 DEF Leave
<1>8. group' = [group EXCEPT ![p] = k] /\ chan' = Post(chan, p, Broadcast(p, o, "BYE", {}))
      BY <1>7 DEF Do, Result
<1>9. \A q \in Members : k.mem[q] = NoLeg
      BY <1>3, <1>5
<1>10. \A w \in k.waits : w \in o.waits /\ w.peer = None
       BY <1>2, <1>5
<1>11. /\ rooms' = rooms /\ joined' = joined /\ group[p].room # None
       /\ "early" \notin amiss' => /\ "early" \notin amiss
                                   /\ \A w \in group[p].waits : w.peer # None
       BY DEF Leave
<1>12. QED
       BY <1>1, <1>5, <1>8, <1>9, <1>10, <1>11

LEMMA CloseStep ==
    ASSUME Known, NEW p \in Members, CloseWindow(p)
    PROVE  /\ rooms' = rooms /\ joined' = joined /\ amiss' = amiss /\ chan' = chan
           /\ \E k \in GroupState :
                 /\ group' = [group EXCEPT ![p] = k] /\ Keeps(group[p], k)
                 /\ k.stream = group[p].stream /\ ~k.shown /\ k.waits = group[p].waits
<1>1. PICK o \in GroupState : o = group[p]
      BY DEF Known
<1>2. PICK k : k = [o EXCEPT !.shown = FALSE]
      OBVIOUS
<1>3. k \in GroupState /\ Keeps(o, k) /\ k.stream = o.stream /\ ~k.shown /\ k.waits = o.waits
      BY <1>2 DEF GroupState, Keeps
<1>4. /\ group' = [group EXCEPT ![p] = k]
      /\ rooms' = rooms /\ joined' = joined /\ amiss' = amiss /\ chan' = chan
      BY <1>1, <1>2 DEF CloseWindow
<1>5. QED
      BY <1>1, <1>3, <1>4

\* p took m, the first frame from q, and is k now; ch is what is left of chan,
\* and out what p sent in answer.
Delivered(p, q, m, k, ch, out) ==
    /\ m = Head(chan[q][p]) /\ ch[q][p] = Tail(chan[q][p])
    /\ \A a, b \in Members : a # q \/ b # p => ch[a][b] = chan[a][b]
    /\ \A a, b \in Members : ch[a][b] \in Seq(FramesFrom(a, b, joined))
    /\ group' = [group EXCEPT ![p] = k] /\ chan' = Post(ch, p, out)
    /\ Spares(p, group[p], k, q) /\ Modest(out)
    /\ \/ k.pending = group[p].pending /\ k.roster = group[p].roster
       \/ /\ m.cmd = "INVITE" /\ group[p].pending = None
          /\ k.pending = m.room /\ k.roster = m.roster
    /\ p < q /\ Untouched(k, q) =>
          Untouched(group[p], q) \/ (m.cmd = "BYE" /\ m.room = group[p].room)
    /\ q < p /\ group[p].mem[q].sig = "none" =>
          k.mem[q].sig = "none" \/ (m.cmd = "OFFER" /\ m.room = group[p].room)

LEMMA DeliverStep ==
    ASSUME Known, Seats, NEW p \in Members, NEW q \in Members, Deliver(p, q)
    PROVE  /\ rooms' = rooms /\ joined' = joined /\ amiss' = amiss
           /\ chan[q][p] # <<>> /\ q \in Members \ {p}
           /\ \E m \in FramesFrom(q, p, joined), k \in GroupState,
                 ch \in [Members -> [Members -> Seq(Frame)]], out \in [Members -> Seq(Frame)] :
                 Delivered(p, q, m, k, ch, out)
<1>1. PICK o \in GroupState : o = group[p] /\ Placed(p, o, Len(rooms), joined) /\ Seat(p, o, rooms)
      BY DEF Known, Seats
<1>2. PICK n \in Nat : n = Len(rooms)
      BY LenProperties DEF Known, Bounds
<1>3. joined \subseteq Members \X (1..n)
      BY <1>2 DEF Known, Bounds
<1>4. chan[q][p] # <<>> /\ rooms' = rooms /\ joined' = joined /\ amiss' = amiss
      BY DEF Deliver
<1>5. PICK m \in FramesFrom(q, p, joined) : m = Head(chan[q][p])
      BY <1>4, TakenFacts
<1>6. PICK ch \in [Members -> [Members -> Seq(Frame)]] : Shortened(p, q, ch)
      BY <1>4, TakenFacts
<1>7. PICK r : r = OnPeerMessage(p, o, q, m)
      OBVIOUS
<1>8. Fits(p, OnPeerMessage(p, o, q, m), Len(rooms), joined)
      BY <1>1, <1>2, <1>3, MessageFits
<1>9. r.g \in GroupState /\ r.out \in [Members -> Seq(Frame)]
      BY <1>7, <1>8 DEF Fits
<1>10. PICK k \in GroupState : k = r.g
       BY <1>9
<1>11. PICK out \in [Members -> Seq(Frame)] : out = r.out
       BY <1>9
<1>12. group' = [group EXCEPT ![p] = k] /\ chan' = Post(ch, p, out)
       BY <1>1, <1>5, <1>6, <1>7, <1>10, <1>11 DEF Deliver, Shortened
<1>13. q \in Members \ {p} /\ m \in Frame /\ (m.cmd = "OFFER" => q < p)
       BY DEF FramesFrom
<1>14. o.room # None => o.mem[p].active
       BY <1>1 DEF Seat
<1>15. /\ r.g \in GroupState /\ Spares(p, o, r.g, q) /\ Modest(r.out)
       /\ \/ r.g.pending = o.pending /\ r.g.roster = o.roster
          \/ /\ m.cmd = "INVITE" /\ o.pending = None
             /\ r.g.pending = m.room /\ r.g.roster = m.roster
       /\ p < q /\ Untouched(r.g, q) => Untouched(o, q) \/ (m.cmd = "BYE" /\ m.room = o.room)
       /\ q < p /\ o.mem[q].sig = "none" =>
             r.g.mem[q].sig = "none" \/ (m.cmd = "OFFER" /\ m.room = o.room)
  <2>1. /\ r.g \in GroupState /\ Spares(p, o, r.g, q) /\ Modest(r.out)
        /\ \/ r.g.pending = o.pending /\ r.g.roster = o.roster
           \/ /\ m.cmd = "INVITE" /\ o.pending = None
              /\ r.g.pending = m.room /\ r.g.roster = m.roster
        BY <1>7, <1>13, <1>14, MessageChanges
  <2>2. /\ p < q /\ Untouched(r.g, q) => Untouched(o, q) \/ (m.cmd = "BYE" /\ m.room = o.room)
        /\ q < p /\ o.mem[q].sig = "none" =>
              r.g.mem[q].sig = "none" \/ (m.cmd = "OFFER" /\ m.room = o.room)
        BY <1>7, <1>13, <1>14, MessageChanges
  <2>3. QED
        BY <2>1, <2>2, Zenon
<1>16. /\ Spares(p, group[p], k, q) /\ Modest(out)
       /\ \/ k.pending = group[p].pending /\ k.roster = group[p].roster
          \/ /\ m.cmd = "INVITE" /\ group[p].pending = None
             /\ k.pending = m.room /\ k.roster = m.roster
       /\ p < q /\ Untouched(k, q) =>
             Untouched(group[p], q) \/ (m.cmd = "BYE" /\ m.room = group[p].room)
       /\ q < p /\ group[p].mem[q].sig = "none" =>
             k.mem[q].sig = "none" \/ (m.cmd = "OFFER" /\ m.room = group[p].room)
       BY <1>1, <1>10, <1>11, <1>15
<1>17. /\ ch[q][p] = Tail(chan[q][p])
       /\ \A a, b \in Members : a # q \/ b # p => ch[a][b] = chan[a][b]
       /\ \A a, b \in Members : ch[a][b] \in Seq(FramesFrom(a, b, joined))
       BY <1>6 DEF Shortened
<1>18. Delivered(p, q, m, k, ch, out)
       BY <1>5, <1>12, <1>16, <1>17 DEF Delivered
<1>19. QED
       BY <1>4, <1>13, <1>18

LEMMA LoseStep ==
    ASSUME Known, NEW p \in Members, NEW q \in Members, Lose(p, q)
    PROVE  /\ rooms' = rooms /\ joined' = joined /\ amiss \subseteq amiss' /\ group' = group
           /\ chan[q][p] # <<>>
           /\ \E ch \in [Members -> [Members -> Seq(Frame)]] :
                 /\ chan' = ch /\ ch[q][p] = Tail(chan[q][p])
                 /\ \A a, b \in Members : a # q \/ b # p => ch[a][b] = chan[a][b]
<1>1. rooms' = rooms /\ joined' = joined /\ amiss \subseteq amiss' /\ group' = group
      BY DEF Lose
<1>2. chan[q][p] # <<>>
      BY DEF Lose
<1>3. PICK ch \in [Members -> [Members -> Seq(Frame)]] : Shortened(p, q, ch)
      BY <1>2, TakenFacts
<1>4. chan' = ch
      BY <1>3 DEF Lose, Shortened
<1>5. QED
      BY <1>1, <1>2, <1>3, <1>4 DEF Shortened

-----------------------------------------------------------------------------
(* Group calls: the seats stay taken                                        *)

LEMMA EnteredSeat ==
    ASSUME NEW p \in Members, NEW k, NEW fn, NEW r \in Rooms, NEW R, Entered(p, k, fn, r, R),
           NEW rs, R = rs[r], k.pending # None => k.roster = rs[k.pending] /\ p \in k.roster
    PROVE  Seat(p, k, rs)
<1>1. r # None
      BY MemberFacts
<1>2. \A w \in k.waits : w.room = k.room
      BY DEF Entered
<1>3. QED
      BY <1>1, <1>2 DEF Seat, Entered

LEMMA SeatsStart == ASSUME Known, Seats, NEW p \in Members, Start(p) PROVE Seats'
<1>1. PICK k \in GroupState, R \in Rosters, r \in Rooms :
         /\ r = Len(rooms) + 1 /\ rooms' = Append(rooms, R)
         /\ group' = [group EXCEPT ![p] = k] /\ chan' = chan
         /\ k.pending = group[p].pending /\ k.roster = group[p].roster
         /\ Entered(p, k, "start", r, R)
      BY StartStep
<1>2. /\ \A i \in 1..Len(rooms) : rooms'[i] = rooms[i]
      /\ R = rooms'[r]
      BY <1>1, AppendProperties DEF Known, Bounds
<1>3. k.pending # None => k.roster = rooms'[k.pending] /\ p \in k.roster
  <2>1. Placed(p, group[p], Len(rooms), joined) /\ Seat(p, group[p], rooms)
        BY DEF Known, Seats
  <2>2. QED
        BY <1>1, <1>2, <2>1 DEF Placed, Seat
<1>4. Seat(p, k, rooms')
  <2>1. PICK fn : fn = "start"
        OBVIOUS
  <2>2. PICK rs : rs = rooms'
        OBVIOUS
  <2>3. Entered(p, k, fn, r, R) /\ R = rs[r] /\ (k.pending # None => k.roster = rs[k.pending] /\ p \in k.roster)
        BY <1>1, <1>2, <1>3, <2>1, <2>2
  <2>4. Seat(p, k, rs)
        BY <2>3, EnteredSeat
  <2>5. QED
        BY <2>2, <2>4
<1>5. QED
      BY <1>1, <1>2, <1>4, SeatsSilent

LEMMA SeatsAccept ==
    ASSUME Known, Seats, NEW p \in Members, AcceptInvite(p), group[p].room = None
    PROVE  Seats'
<1>1. PICK k \in GroupState, R \in SUBSET Members, r \in Rooms :
         /\ R = rooms[r] /\ group' = [group EXCEPT ![p] = k] /\ chan' = chan /\ rooms' = rooms
         /\ k.pending = None
         /\ Entered(p, k, "accept", r, R)
      BY AcceptStep
<1>2. Seat(p, k, rooms')
  <2>1. PICK fn : fn = "accept"
        OBVIOUS
  <2>2. PICK rs : rs = rooms
        OBVIOUS
  <2>3. Entered(p, k, fn, r, R) /\ R = rs[r] /\ k.pending = None
        BY <1>1, <2>1, <2>2
  <2>4. Seat(p, k, rs)
        BY <2>3, EnteredSeat
  <2>5. QED
        BY <1>1, <2>2, <2>4
<1>3. QED
      BY <1>1, <1>2, SeatsSilent

LEMMA SeatsAnswer ==
    ASSUME Known, Seats, NEW p \in Members, Dismiss(p)
    PROVE  Seats'
<1>1. PICK k \in GroupState :
         /\ group' = [group EXCEPT ![p] = k] /\ chan' = chan /\ rooms' = rooms
         /\ Still(group[p], k) /\ k.pending = None
      BY AnswerStep
<1>2. Seat(p, group[p], rooms)
      BY DEF Seats
<1>3. Seat(p, k, rooms')
      BY <1>1, <1>2 DEF Seat, Still
<1>4. QED
      BY <1>1, <1>3, SeatsSilent

\* Whoever is invited is on the roster, and whoever is known was.
LEMMA BroadcastBids ==
    ASSUME NEW p \in Members, NEW g \in GroupState, NEW n, NEW J, Placed(p, g, n, J),
           NEW rs, Seat(p, g, rs), NEW R \in SUBSET Members,
           NEW cmd \in {"INVITE", "JOIN", "BYE"}, cmd = "INVITE" => R = rs[g.room],
           NEW b \in Members
    PROVE  Broadcast(p, g, cmd, R)[b] \in Seq(Bids(b, rs))
<1>1. CASE b \notin Others(p, g)
  <2>1. Broadcast(p, g, cmd, R)[b] = <<>>
        BY <1>1 DEF Broadcast
  <2>2. QED
        BY <2>1, EmptyMessages
<1>2. CASE b \in Others(p, g)
  <2>1. b # p /\ g.mem[b].known
        BY <1>2 DEF Others
  <2>2. g.room # None
        BY <2>1 DEF Placed, NoLeg
  <2>3. g.room \in Rooms /\ b \in rs[g.room]
        BY <2>1, <2>2 DEF Seat, GroupState
  <2>4. PICK f : f = [cmd |-> cmd, room |-> g.room, roster |-> R]
        OBVIOUS
  <2>5. f \in Frame /\ Msg(cmd, g.room, R) = <<f>>
        BY <2>3, <2>4, MsgFrame
  <2>6. f \in Bids(b, rs)
        BY <2>3, <2>4, <2>5 DEF Bids
  <2>7. Broadcast(p, g, cmd, R)[b] = <<f>>
        BY <1>2, <2>5 DEF Broadcast
  <2>8. QED
        BY <2>6, <2>7, OneMessage
<1>3. QED
      BY <1>1, <1>2

LEMMA SendBids ==
    ASSUME NEW q \in Members, NEW r \in Rooms, NEW cmd \in {"JOIN", "OFFER", "ANSWER"},
           NEW rs, NEW b \in Members
    PROVE  SendTo(q, cmd, r)[b] \in Seq(Bids(b, rs))
<1>1. PICK f : f = [cmd |-> cmd, room |-> r, roster |-> {}]
      OBVIOUS
<1>2. f \in Frame /\ Msg(cmd, r, {}) = <<f>> /\ f \in Bids(b, rs)
      BY <1>1, MsgFrame DEF Bids
<1>3. SendTo(q, cmd, r)[b] = <<f>> \/ SendTo(q, cmd, r)[b] = <<>>
      BY <1>2 DEF SendTo
<1>4. QED
      BY <1>2, <1>3, OneMessage, EmptyMessages

LEMMA SeatsMedia ==
    ASSUME Known, Seats, NEW p \in Members, NEW w \in group[p].waits, GotMedia(p, w)
    PROVE  Seats'
<1>1. w.fn \in {"start", "accept"} /\ rooms' = rooms
      BY MediaStep
<1>2. PICK k \in GroupState :
         /\ group' = [group EXCEPT ![p] = k] /\ Keeps(group[p], k)
         /\ k.waits = group[p].waits \ {w}
         /\ chan' = Post(chan, p, IF w.fn = "start" THEN Broadcast(p, k, "INVITE", rooms[w.room])
                                  ELSE Broadcast(p, k, "JOIN", {}))
      BY MediaStep
<1>3. PICK n \in Nat : n = Len(rooms)
      BY LenProperties DEF Known, Bounds
<1>4. Placed(p, group[p], n, joined) /\ Seat(p, group[p], rooms)
      BY <1>3 DEF Known, Seats
<1>5. w.room \in 1..n /\ w.room = k.room /\ k.room # None
  <2>1. w.room \in 1..n /\ w.room = group[p].room
        BY <1>4 DEF Placed, Seat
  <2>2. QED
        BY <1>2, <1>3, <2>1, MemberFacts DEF Keeps
<1>6. rooms[w.room] \in SUBSET Members
      BY <1>3, <1>5, LenProperties, MemberFacts DEF Known, Bounds
<1>7. Placed(p, k, n, joined)
      BY <1>2, <1>4 DEF Placed, Keeps
<1>8. Seat(p, k, rooms)
      BY <1>2, <1>4, <1>5 DEF Seat, Keeps
<1>9. PICK cmd \in {"INVITE", "JOIN", "BYE"} : cmd = IF w.fn = "start" THEN "INVITE" ELSE "JOIN"
      OBVIOUS
<1>10. PICK R \in SUBSET Members : R = IF w.fn = "start" THEN rooms[w.room] ELSE {}
       BY <1>6
<1>11. PICK out : out = Broadcast(p, k, cmd, R)
       OBVIOUS
<1>12. chan' = Post(chan, p, out)
       BY <1>2, <1>9, <1>10, <1>11
<1>13. out \in [Members -> Seq(Frame)]
       BY <1>7, <1>11, BroadcastFits
<1>14. \A b \in Members : out[b] \in Seq(Bids(b, rooms))
  <2>1. PICK rs : rs = rooms
        OBVIOUS
  <2>2. PICK J : J = joined
        OBVIOUS
  <2>3. Placed(p, k, n, J) /\ Seat(p, k, rs) /\ (cmd = "INVITE" => R = rs[k.room])
        BY <1>5, <1>7, <1>8, <1>9, <1>10, <2>1, <2>2
  <2>4. \A b \in Members : Broadcast(p, k, cmd, R)[b] \in Seq(Bids(b, rs))
        BY <2>3, BroadcastBids
  <2>5. QED
        BY <1>11, <2>1, <2>4
<1>15. QED
       BY <1>1, <1>2, <1>8, <1>12, <1>13, <1>14, SeatsDo

LEMMA SeatsRefused ==
    ASSUME Known, Seats, NEW p \in Members, NEW w \in group[p].waits, MediaRefused(p, w)
    PROVE  Seats'
<1>1. rooms' = rooms /\ chan' = chan
      BY RefusedStep
<1>2. PICK k \in GroupState :
         /\ group' = [group EXCEPT ![p] = k] /\ Keeps(group[p], k)
         /\ k.stream = group[p].stream /\ k.shown = group[p].shown
         /\ k.waits = group[p].waits \ {w}
      BY RefusedStep
<1>3. Seat(p, group[p], rooms)
      BY DEF Seats
<1>4. Seat(p, k, rooms')
      BY <1>1, <1>2, <1>3 DEF Seat, Keeps
<1>5. QED
      BY <1>1, <1>2, <1>4, SeatsSilent

LEMMA SeatsSdp ==
    ASSUME Known, Seats, NEW p \in Members, NEW w \in group[p].waits, GotSdp(p, w)
    PROVE  Seats'
<1>1. rooms' = rooms /\ w.peer \in Members \ {p} /\ w.room = group[p].room
      BY SdpStep
<1>2. PICK k \in GroupState :
         /\ group' = [group EXCEPT ![p] = k]
         /\ k.room = group[p].room /\ k.pending = group[p].pending
         /\ k.roster = group[p].roster /\ k.stream = group[p].stream
         /\ k.shown = group[p].shown /\ k.waits = group[p].waits \ {w}
         /\ \A b \in Members \ {w.peer} : k.mem[b] = group[p].mem[b]
         /\ k.mem[w.peer].known <=> group[p].mem[w.peer].known
         /\ \/ w.fn = "offer" /\ chan' = Post(chan, p, SendTo(w.peer, "OFFER", w.room))
            \/ w.fn = "answer" /\ chan' = Post(chan, p, SendTo(w.peer, "ANSWER", w.room))
      BY SdpStep
<1>3. Seat(p, group[p], rooms) /\ w \in Wait
      BY DEF Seats, Known, GroupState
<1>4. Seat(p, k, rooms)
  <2>1. /\ \A b \in Members : k.mem[b].known <=> group[p].mem[b].known
        /\ k.mem[p] = group[p].mem[p]
        BY <1>1, <1>2
  <2>2. QED
        BY <1>2, <1>3, <2>1 DEF Seat
<1>5. PICK cmd \in {"JOIN", "OFFER", "ANSWER"} : chan' = Post(chan, p, SendTo(w.peer, cmd, w.room))
      BY <1>2
<1>6. PICK q \in Members : q = w.peer
      BY <1>1
<1>7. PICK r \in Rooms : r = w.room
      BY <1>3, WaitFacts
<1>8. PICK out : out = SendTo(q, cmd, r)
      OBVIOUS
<1>9. \A b \in Members : out[b] \in Seq(Bids(b, rooms))
      BY <1>8, SendBids
<1>10. PICK f : f = [cmd |-> cmd, room |-> r, roster |-> {}]
      OBVIOUS
<1>11. f \in Frame /\ Msg(cmd, r, {}) = <<f>>
      BY <1>10, MsgFrame
<1>12. out \in [Members -> Seq(Frame)]
  <2>1. <<f>> \in Seq(Frame) /\ <<>> \in Seq(Frame)
        BY <1>11, OneMessage, EmptyMessages
  <2>2. Msg(cmd, r, {}) \in Seq(Frame)
        BY <1>11, <2>1
  <2>3. QED
        BY <1>8, <2>1, <2>2 DEF SendTo
<1>13. chan' = Post(chan, p, out)
       BY <1>5, <1>6, <1>7, <1>8
<1>14. QED
       BY <1>1, <1>2, <1>4, <1>9, <1>12, <1>13, SeatsDo

LEMMA SeatsLeave ==
    ASSUME Known, Seats, NEW p \in Members, Leave(p), "early" \notin amiss'
    PROVE  Seats'
<1>1. /\ rooms' = rooms /\ \A w \in group[p].waits : w.peer # None
      /\ chan' = Post(chan, p, Broadcast(p, group[p], "BYE", {}))
      BY LeaveStep
<1>2. PICK k \in GroupState :
         /\ group' = [group EXCEPT ![p] = k]
         /\ k.room = None /\ ~k.stream /\ ~k.shown
         /\ k.pending = group[p].pending /\ k.roster = group[p].roster
         /\ \A w \in k.waits : w \in group[p].waits /\ w.peer = None
      BY LeaveStep
<1>3. PICK o \in GroupState : o = group[p] /\ Placed(p, o, Len(rooms), joined) /\ Seat(p, o, rooms)
      BY DEF Known, Seats
<1>4. Seat(p, k, rooms)
      BY <1>1, <1>2, <1>3 DEF Seat
<1>5. PICK cmd \in {"INVITE", "JOIN", "BYE"} : cmd = "BYE"
      OBVIOUS
<1>6. PICK R \in SUBSET Members : R = {}
      OBVIOUS
<1>7. PICK out : out = Broadcast(p, o, cmd, R)
      OBVIOUS
<1>8. out \in [Members -> Seq(Frame)]
      BY <1>3, <1>7, BroadcastFits
<1>9. \A b \in Members : out[b] \in Seq(Bids(b, rooms))
  <2>1. PICK rs : rs = rooms
        OBVIOUS
  <2>2. PICK J : J = joined
        OBVIOUS
  <2>3. PICK n : n = Len(rooms)
        OBVIOUS
  <2>4. Placed(p, o, n, J) /\ Seat(p, o, rs) /\ (cmd = "INVITE" => R = rs[o.room])
        BY <1>3, <1>5, <2>1, <2>2, <2>3
  <2>5. \A b \in Members : Broadcast(p, o, cmd, R)[b] \in Seq(Bids(b, rs))
        BY <2>4, BroadcastBids
  <2>6. QED
        BY <1>7, <2>1, <2>5
<1>10. chan' = Post(chan, p, out)
       BY <1>1, <1>3, <1>5, <1>6, <1>7
<1>11. QED
       BY <1>1, <1>2, <1>4, <1>8, <1>9, <1>10, SeatsDo

LEMMA SeatsClose == ASSUME Known, Seats, NEW p \in Members, CloseWindow(p) PROVE Seats'
<1>1. rooms' = rooms /\ chan' = chan
      BY CloseStep
<1>2. PICK k \in GroupState :
         /\ group' = [group EXCEPT ![p] = k] /\ Keeps(group[p], k)
         /\ k.stream = group[p].stream /\ ~k.shown /\ k.waits = group[p].waits
      BY CloseStep
<1>3. Seat(p, group[p], rooms)
      BY DEF Seats
<1>4. Seat(p, k, rooms')
      BY <1>1, <1>2, <1>3 DEF Seat, Keeps
<1>5. QED
      BY <1>1, <1>2, <1>4, SeatsSilent

LEMMA TakenBids ==
    ASSUME Seats, NEW p \in Members, NEW q \in Members, chan[q][p] # <<>>
    PROVE  Head(chan[q][p]) \in Bids(p, rooms) /\ Tail(chan[q][p]) \in Seq(Bids(p, rooms))
<1>1. chan[q][p] \in Seq(Bids(p, rooms))
      BY DEF Seats
<1>2. QED
      BY <1>1, HeadTailProperties

LEMMA SeatsDeliver ==
    ASSUME Known, Seats, NEW p \in Members, NEW q \in Members, Deliver(p, q)
    PROVE  Seats'
<1>1. rooms' = rooms /\ chan[q][p] # <<>> /\ q \in Members \ {p}
      BY DeliverStep
<1>2. PICK m \in FramesFrom(q, p, joined), k \in GroupState,
           ch \in [Members -> [Members -> Seq(Frame)]], out \in [Members -> Seq(Frame)] :
         Delivered(p, q, m, k, ch, out)
      BY DeliverStep
<1>3. /\ m \in Bids(p, rooms)
      /\ \A a, b \in Members : ch[a][b] \in Seq(Bids(b, rooms))
  <2>1. Head(chan[q][p]) \in Bids(p, rooms) /\ Tail(chan[q][p]) \in Seq(Bids(p, rooms))
        BY <1>1, TakenBids
  <2>2. QED
        BY <1>2, <2>1 DEF Seats, Delivered
<1>4. PICK o \in GroupState : o = group[p] /\ Placed(p, o, Len(rooms), joined) /\ Seat(p, o, rooms)
      BY DEF Known, Seats
<1>5. Seat(p, k, rooms)
  <2>1. k.pending # None => k.roster = rooms[k.pending] /\ p \in k.roster
        BY <1>2, <1>3, <1>4 DEF Seat, Bids, Delivered
  <2>2. k.stream \/ k.shown => k.room # None
        BY <1>2, <1>4 DEF Delivered, Seat, Spares
  <2>3. \A w \in k.waits : w.room = k.room
        BY <1>2, <1>4 DEF Delivered, Seat, Spares, GroupState
  <2>4. k.room # None => k.mem[p].active /\ \A b \in Members : k.mem[b].known => b \in rooms[k.room]
        BY <1>2, <1>4 DEF Delivered, Seat, Spares
  <2>5. QED
        BY <2>1, <2>2, <2>3, <2>4 DEF Seat
<1>6. \A b \in Members : out[b] \in Seq(Bids(b, rooms))
      BY <1>2, ModestBids DEF Delivered
<1>7. /\ Seat(p, k, rooms') /\ \A i \in 1..Len(rooms) : rooms'[i] = rooms[i]
      /\ \A b \in Members : out[b] \in Seq(Bids(b, rooms'))
      BY <1>1, <1>5, <1>6
<1>8. \A a, b \in Members : /\ ch[a][b] \in Seq(FramesFrom(a, b, joined))
                            /\ ch[a][b] \in Seq(Bids(b, rooms))
      BY <1>2, <1>3 DEF Delivered
<1>9. QED
      BY <1>2, <1>7, <1>8, SeatsStay DEF Delivered

LEMMA SeatsLose ==
    ASSUME Known, Seats, NEW p \in Members, NEW q \in Members, Lose(p, q)
    PROVE  Seats'
<1>1. rooms' = rooms /\ group' = group /\ chan[q][p] # <<>>
      BY LoseStep
<1>2. PICK ch \in [Members -> [Members -> Seq(Frame)]] :
         /\ chan' = ch /\ ch[q][p] = Tail(chan[q][p])
         /\ \A a, b \in Members : a # q \/ b # p => ch[a][b] = chan[a][b]
      BY LoseStep
<1>3. \A a, b \in Members : ch[a][b] \in Seq(Bids(b, rooms))
  <2>1. Head(chan[q][p]) \in Bids(p, rooms) /\ Tail(chan[q][p]) \in Seq(Bids(p, rooms))
        BY <1>1, TakenBids
  <2>2. QED
        BY <1>2, <2>1 DEF Seats
<1>4. QED
      BY <1>1, <1>2, <1>3 DEF Seats

LEMMA AmissGrows == GroupNext => amiss \subseteq amiss'
BY DEF GroupNext, Resume, Start, AcceptInvite, RejectInvite, Leave, CloseWindow, GotMedia, GotSdp,
       MediaRefused, Deliver, Lose

LEMMA SeatsStep ==
    ASSUME Known, "early" \notin amiss => Seats, [GroupNext]_groupVars, "early" \notin amiss'
    PROVE  Seats'
<1>1. CASE GroupNext
  <2>1. Seats
        BY <1>1, AmissGrows
  <2>2. PICK p \in Members :
           \/ Start(p) \/ AcceptInvite(p) \/ RejectInvite(p)
           \/ Leave(p) \/ CloseWindow(p)
           \/ \E w \in group[p].waits : GotMedia(p, w) \/ GotSdp(p, w) \/ MediaRefused(p, w)
           \/ \E q \in Members : Deliver(p, q) \/ Lose(p, q)
        BY <1>1 DEF GroupNext, Resume
  <2>3. CASE Start(p)
        BY <2>1, <2>3, SeatsStart
  <2>4. CASE AcceptInvite(p) \/ RejectInvite(p)
    <3>1. CASE AcceptInvite(p) /\ group[p].room = None
          BY <2>1, <3>1, SeatsAccept
    <3>2. CASE Dismiss(p)
          BY <2>1, <3>2, SeatsAnswer
    <3>3. QED
          BY <2>4, <3>1, <3>2 DEF Dismiss
  <2>5. CASE Leave(p) \/ CloseWindow(p)
        BY <2>1, <2>5, SeatsLeave, SeatsClose
  <2>6. CASE \E w \in group[p].waits : GotMedia(p, w) \/ GotSdp(p, w) \/ MediaRefused(p, w)
        BY <2>1, <2>6, SeatsMedia, SeatsSdp, SeatsRefused
  <2>7. CASE \E q \in Members : Deliver(p, q) \/ Lose(p, q)
        BY <2>1, <2>7, SeatsDeliver, SeatsLose
  <2>8. QED
        BY <2>2, <2>3, <2>4, <2>5, <2>6, <2>7
<1>2. CASE UNCHANGED groupVars
      BY <1>2 DEF groupVars, Seats
<1>3. QED
      BY <1>1, <1>2

LEMMA SeatsInit == GroupInit => Seats
<1> SUFFICES ASSUME GroupInit PROVE Seats
    OBVIOUS
<1>1. \A p \in Members : group[p] = Idle
      BY DEF GroupInit
<1>2. \A p \in Members : Seat(p, Idle, rooms)
      BY DEF Seat, Idle
<1>3. \A p, q \in Members : chan[q][p] = <<>>
      BY DEF GroupInit
<1>4. \A p, q \in Members : chan[q][p] \in Seq(Bids(p, rooms))
      BY <1>3, EmptyMessages
<1>5. QED
      BY <1>1, <1>2, <1>4 DEF Seats

(* A camera or a call window belongs to a room its member is in, unless    *)
(* somebody left while its camera was being opened (group_call.js,         *)
(* _teardown, and startLocalMedia, whose callers check nothing after it).  *)
THEOREM CameraOnlyInRoom == GroupSpec => []CameraInRoom
<1> DEFINE IInv == "early" \notin amiss => Seats
<1>1. IInv => CameraInRoom
      BY DEF CameraInRoom, Seats, Seat
<1>2. GroupInit => IInv
      BY SeatsInit
<1>3. Known /\ IInv /\ [GroupNext]_groupVars => IInv'
      BY SeatsStep
<1> HIDE DEF IInv
<1>4. QED
      BY <1>1, <1>2, <1>3, KnownInit, KnownStep, PTL DEF GroupSpec

-----------------------------------------------------------------------------
(* Frames of a kind in a channel                                            *)

Has(s, S) == \E i \in DOMAIN s : s[i] \in S
One(s, S) == \A i, j \in DOMAIN s : s[i] \in S /\ s[j] \in S => i = j

OfRoom(cmd, r) == {f \in Frame : f.cmd = cmd /\ f.room = r}

LEMMA EmptyHas == ASSUME NEW S PROVE ~Has(<<>>, S) /\ One(<<>>, S)
BY DEF Has, One

LEMMA SingleHas ==
    ASSUME NEW f, NEW S PROVE (Has(<<f>>, S) <=> f \in S) /\ One(<<f>>, S)
<1>1. DOMAIN <<f>> = {1} /\ <<f>>[1] = f
      OBVIOUS
<1>2. QED
      BY <1>1 DEF Has, One

LEMMA TailHas ==
    ASSUME NEW s \in Seq(Frame), s # <<>>, NEW S
    PROVE  /\ Has(Tail(s), S) => Has(s, S)
           /\ One(s, S) => One(Tail(s), S)
           /\ One(s, S) /\ Head(s) \in S => ~Has(Tail(s), S)
           /\ Head(s) \in S => Has(s, S)
<1>1. PICK n \in Nat : n = Len(s) /\ DOMAIN s = 1..n /\ n >= 1
      BY LenProperties, EmptySeq
<1>2. PICK t \in Seq(Frame) : t = Tail(s)
      BY HeadTailProperties
<1>3. DOMAIN t = 1..(n - 1) /\ \A i \in 1..(n - 1) : t[i] = s[i + 1]
      BY <1>1, <1>2, HeadTailProperties, LenProperties
<1>4. Head(s) = s[1]
      BY <1>1
<1>5. \A i \in DOMAIN t : i + 1 \in DOMAIN s /\ t[i] = s[i + 1] /\ i + 1 # 1
      BY <1>1, <1>3
<1>6. Has(t, S) => Has(s, S)
      BY <1>5 DEF Has
<1>7. One(s, S) => One(t, S)
  <2> SUFFICES ASSUME One(s, S), NEW i \in DOMAIN t, NEW j \in DOMAIN t, t[i] \in S, t[j] \in S
               PROVE  i = j
      BY DEF One
  <2>1. i + 1 = j + 1
        BY <1>5 DEF One
  <2>2. QED
        BY <1>1, <1>3, <2>1
<1>8. 1 \in DOMAIN s
      BY <1>1
<1>9. One(s, S) /\ Head(s) \in S => ~Has(t, S)
      BY <1>4, <1>5, <1>8 DEF One, Has
<1>10. Head(s) \in S => Has(s, S)
       BY <1>4, <1>8 DEF Has
<1>11. QED
       BY <1>2, <1>6, <1>7, <1>9, <1>10

LEMMA ConcatHas ==
    ASSUME NEW s \in Seq(Frame), NEW t \in Seq(Frame), NEW S
    PROVE  /\ Has(s \o t, S) <=> Has(s, S) \/ Has(t, S)
           /\ One(s, S) /\ One(t, S) /\ ~(Has(s, S) /\ Has(t, S)) => One(s \o t, S)
<1>1. PICK n \in Nat, m \in Nat : n = Len(s) /\ m = Len(t) /\ DOMAIN s = 1..n /\ DOMAIN t = 1..m
      BY LenProperties
<1>2. PICK u \in Seq(Frame) : u = s \o t
      BY ConcatProperties
<1>3. DOMAIN u = 1..(n + m) /\ \A i \in 1..(n + m) : u[i] = IF i <= n THEN s[i] ELSE t[i - n]
      BY <1>1, <1>2, ConcatProperties, LenProperties
<1>4. \A i \in DOMAIN u : (i \in DOMAIN s /\ u[i] = s[i]) \/ (i - n \in DOMAIN t /\ u[i] = t[i - n] /\ i \in Int)
      BY <1>1, <1>3
<1>5. \A i \in DOMAIN s : i \in DOMAIN u /\ u[i] = s[i]
      BY <1>1, <1>3
<1>6. ASSUME NEW i \in DOMAIN t PROVE i + n \in DOMAIN u /\ u[i + n] = t[i]
  <2>1. PICK k \in 1..(n + m) : k = i + n
        BY <1>1
  <2>2. ~(k <= n) /\ k - n = i
        BY <1>1, <2>1
  <2>3. QED
        BY <1>3, <2>1, <2>2
<1>7. Has(u, S) => Has(s, S) \/ Has(t, S)
      BY <1>4 DEF Has
<1>8. Has(s, S) \/ Has(t, S) => Has(u, S)
      BY <1>5, <1>6 DEF Has
<1>9. One(s, S) /\ One(t, S) /\ ~(Has(s, S) /\ Has(t, S)) => One(u, S)
  <2> SUFFICES ASSUME One(s, S), One(t, S), ~(Has(s, S) /\ Has(t, S)),
                      NEW i \in DOMAIN u, NEW j \in DOMAIN u, u[i] \in S, u[j] \in S
               PROVE  i = j
      BY DEF One
  <2>1. CASE ~Has(t, S)
        BY <1>4, <2>1 DEF One, Has
  <2>2. CASE ~Has(s, S)
    <3>1. /\ i - n \in DOMAIN t /\ u[i] = t[i - n] /\ i \in Int
          /\ j - n \in DOMAIN t /\ u[j] = t[j - n] /\ j \in Int
          BY <1>4, <2>2 DEF Has
    <3>2. i - n = j - n
          BY <3>1 DEF One
    <3>3. QED
          BY <3>1, <3>2
  <2>3. QED
        BY <2>1, <2>2
<1>10. QED
       BY <1>2, <1>7, <1>8, <1>9

\* What p sends is at most a frame of one kind, to the members of D.
Posts(out, cmd, r, D) ==
    \A b \in Members : out[b] = <<>> \/ (b \in D /\ \E f \in OfRoom(cmd, r) : out[b] = <<f>>)

LEMMA PostsHas ==
    ASSUME NEW out, NEW cmd, NEW r, NEW D, Posts(out, cmd, r, D), NEW b \in Members,
           NEW c, NEW x
    PROVE  /\ One(out[b], OfRoom(c, x))
           /\ Has(out[b], OfRoom(c, x)) => c = cmd /\ x = r /\ b \in D
<1>1. CASE out[b] = <<>>
      BY <1>1, EmptyHas
<1>2. CASE b \in D /\ \E f \in OfRoom(cmd, r) : out[b] = <<f>>
  <2>1. PICK f \in OfRoom(cmd, r) : out[b] = <<f>>
        BY <1>2
  <2>2. One(<<f>>, OfRoom(c, x)) /\ (Has(<<f>>, OfRoom(c, x)) <=> f \in OfRoom(c, x))
        BY SingleHas
  <2>3. f \in OfRoom(c, x) => c = cmd /\ x = r
        BY DEF OfRoom
  <2>4. QED
        BY <1>2, <2>1, <2>2, <2>3
<1>3. QED
      BY <1>1, <1>2 DEF Posts

LEMMA ModestHas ==
    ASSUME NEW out, Modest(out), NEW b \in Members, NEW c, c # "JOIN", NEW x
    PROVE  One(out[b], OfRoom(c, x)) /\ ~Has(out[b], OfRoom(c, x))
<1>1. CASE out[b] = <<>>
      BY <1>1, EmptyHas
<1>2. CASE \E f \in Frame : f.cmd = "JOIN" /\ out[b] = <<f>>
  <2>1. PICK f \in Frame : f.cmd = "JOIN" /\ out[b] = <<f>>
        BY <1>2
  <2>2. One(<<f>>, OfRoom(c, x)) /\ (Has(<<f>>, OfRoom(c, x)) <=> f \in OfRoom(c, x))
        BY SingleHas
  <2>3. f \notin OfRoom(c, x)
        BY <2>1 DEF OfRoom
  <2>4. QED
        BY <2>1, <2>2, <2>3
<1>3. QED
      BY <1>1, <1>2 DEF Modest

LEMMA BroadcastPosts ==
    ASSUME NEW p \in Members, NEW g \in GroupState, NEW n, NEW J, Placed(p, g, n, J),
           NEW cmd \in {"INVITE", "JOIN", "BYE"}, NEW R \in SUBSET Members
    PROVE  Posts(Broadcast(p, g, cmd, R), cmd, g.room, Members \ {p})
<1> SUFFICES ASSUME NEW b \in Members
             PROVE  \/ Broadcast(p, g, cmd, R)[b] = <<>>
                    \/ b \in Members \ {p} /\ \E f \in OfRoom(cmd, g.room) : Broadcast(p, g, cmd, R)[b] = <<f>>
    BY DEF Posts
<1>1. CASE b \notin Others(p, g)
      BY <1>1 DEF Broadcast
<1>2. CASE b \in Others(p, g)
  <2>1. b # p /\ g.mem[b].known
        BY <1>2 DEF Others
  <2>2. g.room # None
        BY <2>1 DEF Placed, NoLeg
  <2>3. g.room \in Rooms
        BY <2>2 DEF GroupState
  <2>4. PICK f : f = [cmd |-> cmd, room |-> g.room, roster |-> R]
        OBVIOUS
  <2>5. f \in Frame /\ Msg(cmd, g.room, R) = <<f>>
        BY <2>3, <2>4, MsgFrame
  <2>6. f \in OfRoom(cmd, g.room)
        BY <2>4, <2>5 DEF OfRoom
  <2>7. Broadcast(p, g, cmd, R)[b] = <<f>>
        BY <1>2, <2>5 DEF Broadcast
  <2>8. QED
        BY <2>1, <2>6, <2>7
<1>3. QED
      BY <1>1, <1>2

LEMMA SendPosts ==
    ASSUME NEW q \in Members, NEW r \in Rooms, NEW cmd \in {"JOIN", "OFFER", "ANSWER"}
    PROVE  /\ Posts(SendTo(q, cmd, r), cmd, r, {q})
           /\ SendTo(q, cmd, r) \in [Members -> Seq(Frame)]
<1>1. PICK f : f = [cmd |-> cmd, room |-> r, roster |-> {}]
      OBVIOUS
<1>2. f \in Frame /\ Msg(cmd, r, {}) = <<f>>
      BY <1>1, MsgFrame
<1>3. f \in OfRoom(cmd, r)
      BY <1>1, <1>2 DEF OfRoom
<1>4. \A b \in Members : SendTo(q, cmd, r)[b] = IF b = q THEN <<f>> ELSE <<>>
      BY <1>2 DEF SendTo
<1>5. <<f>> \in Seq(Frame) /\ <<>> \in Seq(Frame)
      BY <1>2, OneMessage, EmptyMessages
<1>6. \A b \in Members : Msg(cmd, r, {}) \in Seq(Frame)
      BY <1>2, <1>5
<1>7. SendTo(q, cmd, r) \in [Members -> Seq(Frame)]
      BY <1>5, <1>6 DEF SendTo
<1>8. QED
      BY <1>3, <1>4, <1>7 DEF Posts

-----------------------------------------------------------------------------
(* Group calls: nobody is called into the same room twice                   *)

Invited(p, r)  == \E q \in Members : Has(chan[q][p], OfRoom("INVITE", r))
Untold(h, r)   == \E w \in group[h].waits : w.fn = "start" /\ w.room = r

\* At most one of: an invitation on its way, one on the screen, in the room.
Once ==
    /\ \A p \in Members, r \in Rooms :
         /\ group[p].pending = r => <<p, r>> \notin joined /\ ~Invited(p, r)
         /\ Invited(p, r) => <<p, r>> \notin joined
    /\ \A p, q \in Members, r \in Rooms : One(chan[q][p], OfRoom("INVITE", r))
    /\ \A p, q, b \in Members, r \in Rooms :
         Has(chan[q][p], OfRoom("INVITE", r)) /\ Has(chan[b][p], OfRoom("INVITE", r)) => q = b
    /\ \A h, p \in Members, r \in Rooms : Untold(h, r) =>
         /\ p # h => <<p, r>> \notin joined
         /\ group[p].pending # r /\ ~Invited(p, r)

\* A step that calls nobody.
LEMMA OnceShrinks ==
    ASSUME Once, joined' = joined,
           \A b \in Members : group'[b].pending = group[b].pending \/ group'[b].pending = None,
           \A b \in Members, r \in Rooms : Untold(b, r)' => Untold(b, r),
           \A a, b \in Members, r \in Rooms :
              /\ Has(chan'[a][b], OfRoom("INVITE", r)) => Has(chan[a][b], OfRoom("INVITE", r))
              /\ One(chan'[a][b], OfRoom("INVITE", r))
    PROVE  Once'
<1>1. \A p \in Members, r \in Rooms : Invited(p, r)' => Invited(p, r)
      BY DEF Invited
<1>2. \A b \in Members, r \in Rooms : group'[b].pending = r => group[b].pending = r
      BY MemberFacts
<1>3. \A p \in Members, r \in Rooms :
         /\ group'[p].pending = r => <<p, r>> \notin joined' /\ ~Invited(p, r)'
         /\ Invited(p, r)' => <<p, r>> \notin joined'
      BY <1>1, <1>2 DEF Once
<1>4. \A p, q \in Members, r \in Rooms : One(chan'[q][p], OfRoom("INVITE", r))
      OBVIOUS
<1>5. \A p, q, b \in Members, r \in Rooms :
         Has(chan'[q][p], OfRoom("INVITE", r)) /\ Has(chan'[b][p], OfRoom("INVITE", r)) => q = b
      BY DEF Once
<1>6. \A h, p \in Members, r \in Rooms : Untold(h, r)' =>
         /\ p # h => <<p, r>> \notin joined'
         /\ group'[p].pending # r /\ ~Invited(p, r)'
      BY <1>1, <1>2 DEF Once
<1>7. QED
      BY <1>3, <1>4, <1>5, <1>6 DEF Once

\* Waits that are a subset of what they were.
LEMMA UntoldShrinks ==
    ASSUME Known, NEW p \in Members, NEW k, group' = [group EXCEPT ![p] = k],
           \A w \in k.waits : w.fn = "start" => w \in group[p].waits
    PROVE  \A b \in Members, r \in Rooms : Untold(b, r)' => Untold(b, r)
<1> SUFFICES ASSUME NEW b \in Members, NEW r \in Rooms, Untold(b, r)' PROVE Untold(b, r)
    OBVIOUS
<1>1. PICK w \in group'[b].waits : w.fn = "start" /\ w.room = r
      BY DEF Untold
<1>2. CASE b = p
  <2>1. w \in k.waits
        BY <1>1, <1>2 DEF Known
  <2>2. QED
        BY <1>1, <1>2, <2>1 DEF Untold
<1>3. CASE b # p
  <2>1. group'[b] = group[b]
        BY <1>3 DEF Known
  <2>2. QED
        BY <1>1, <2>1 DEF Untold
<1>4. QED
      BY <1>2, <1>3

LEMMA PendingShrinks ==
    ASSUME Known, NEW p \in Members, NEW k, group' = [group EXCEPT ![p] = k],
           k.pending = group[p].pending \/ k.pending = None
    PROVE  \A b \in Members : group'[b].pending = group[b].pending \/ group'[b].pending = None
BY DEF Known

\* p sends frames of one kind, and no frame was taken.
LEMMA PostedHas ==
    ASSUME Known, NEW p \in Members, NEW out \in [Members -> Seq(Frame)],
           chan' = Post(chan, p, out), NEW cmd, NEW r, NEW D, Posts(out, cmd, r, D)
    PROVE  \A a, b \in Members : \A c, x :
              /\ Has(chan'[a][b], OfRoom(c, x)) =>
                    Has(chan[a][b], OfRoom(c, x)) \/ (a = p /\ c = cmd /\ x = r /\ b \in D)
              /\ Has(chan[a][b], OfRoom(c, x)) => Has(chan'[a][b], OfRoom(c, x))
              /\ One(chan[a][b], OfRoom(c, x))
                    /\ (a = p /\ c = cmd /\ x = r /\ b \in D => ~Has(chan[a][b], OfRoom(c, x)))
                 => One(chan'[a][b], OfRoom(c, x))
<1> SUFFICES ASSUME NEW a \in Members, NEW b \in Members, NEW c, NEW x
             PROVE  /\ Has(chan'[a][b], OfRoom(c, x)) =>
                          Has(chan[a][b], OfRoom(c, x)) \/ (a = p /\ c = cmd /\ x = r /\ b \in D)
                    /\ Has(chan[a][b], OfRoom(c, x)) => Has(chan'[a][b], OfRoom(c, x))
                    /\ One(chan[a][b], OfRoom(c, x))
                          /\ (a = p /\ c = cmd /\ x = r /\ b \in D => ~Has(chan[a][b], OfRoom(c, x)))
                       => One(chan'[a][b], OfRoom(c, x))
    OBVIOUS
<1>1. /\ \A e \in Members : chan'[p][e] = chan[p][e] \o out[e]
      /\ \A e \in Members \ {p} : chan'[e] = chan[e]
  <2>1. PICK ch \in [Members -> [Members -> Seq(Frame)]] : ch = chan
        BY DEF Known
  <2>2. /\ \A e \in Members : Post(ch, p, out)[p][e] = ch[p][e] \o out[e]
        /\ \A e \in Members \ {p} : Post(ch, p, out)[e] = ch[e]
        BY PostFacts, Zenon
  <2>3. QED
        BY <2>1, <2>2
<1>2. CASE a # p
      BY <1>1, <1>2
<1>3. CASE a = p
  <2>1. PICK s \in Seq(Frame), t \in Seq(Frame) : s = chan[a][b] /\ t = out[b]
        BY DEF Known
  <2>2. chan'[a][b] = s \o t
        BY <1>1, <1>3, <2>1
  <2>3. PICK S : S = OfRoom(c, x)
        OBVIOUS
  <2>4. /\ Has(s \o t, S) <=> Has(s, S) \/ Has(t, S)
        /\ One(s, S) /\ One(t, S) /\ ~(Has(s, S) /\ Has(t, S)) => One(s \o t, S)
        BY ConcatHas
  <2>5. One(t, S) /\ (Has(t, S) => c = cmd /\ x = r /\ b \in D)
        BY <2>1, <2>3, PostsHas
  <2>6. QED
        BY <1>3, <2>1, <2>2, <2>3, <2>4, <2>5
<1>4. QED
      BY <1>2, <1>3

\* The first frame from q to p is gone.
Taken(p, q, ch) ==
    /\ ch[q][p] = Tail(chan[q][p])
    /\ \A a, b \in Members : a # q \/ b # p => ch[a][b] = chan[a][b]

LEMMA TakenHas ==
    ASSUME Known, NEW p \in Members, NEW q \in Members, chan[q][p] # <<>>,
           NEW ch, Taken(p, q, ch)
    PROVE  \A a, b \in Members : \A S :
              /\ Has(ch[a][b], S) => Has(chan[a][b], S)
              /\ One(chan[a][b], S) => One(ch[a][b], S)
              /\ One(chan[q][p], S) /\ Head(chan[q][p]) \in S => Has(chan[q][p], S) /\ ~Has(ch[q][p], S)
<1> SUFFICES ASSUME NEW a \in Members, NEW b \in Members, NEW S
             PROVE  /\ Has(ch[a][b], S) => Has(chan[a][b], S)
                    /\ One(chan[a][b], S) => One(ch[a][b], S)
                    /\ One(chan[q][p], S) /\ Head(chan[q][p]) \in S => Has(chan[q][p], S) /\ ~Has(ch[q][p], S)
    OBVIOUS
<1>1. PICK s \in Seq(Frame) : s = chan[q][p]
      BY DEF Known
<1>2. /\ Has(Tail(s), S) => Has(s, S)
      /\ One(s, S) => One(Tail(s), S)
      /\ One(s, S) /\ Head(s) \in S => ~Has(Tail(s), S)
      /\ Head(s) \in S => Has(s, S)
      BY <1>1, TailHas
<1>3. CASE a # q \/ b # p
      BY <1>1, <1>2, <1>3 DEF Taken
<1>4. CASE a = q /\ b = p
      BY <1>1, <1>2, <1>4 DEF Taken
<1>5. QED
      BY <1>3, <1>4

LEMMA DeliveredHas ==
    ASSUME Known, NEW p \in Members, NEW q \in Members, chan[q][p] # <<>>, NEW m, NEW k,
           NEW ch \in [Members -> [Members -> Seq(Frame)]], NEW out \in [Members -> Seq(Frame)],
           Delivered(p, q, m, k, ch, out), q # p,
           NEW a \in Members, NEW b \in Members, NEW c, c # "JOIN", NEW x
    PROVE  /\ Has(chan'[a][b], OfRoom(c, x)) => Has(chan[a][b], OfRoom(c, x))
           /\ One(chan[a][b], OfRoom(c, x)) => One(chan'[a][b], OfRoom(c, x))
           /\ One(chan[q][p], OfRoom(c, x)) /\ m \in OfRoom(c, x) =>
                 Has(chan[q][p], OfRoom(c, x)) /\ ~Has(chan'[q][p], OfRoom(c, x))
<1>1. PICK S : S = OfRoom(c, x)
      OBVIOUS
<1>2. /\ m = Head(chan[q][p]) /\ ch[q][p] = Tail(chan[q][p])
      /\ \A e, f \in Members : e # q \/ f # p => ch[e][f] = chan[e][f]
      /\ chan' = Post(ch, p, out) /\ Modest(out)
      BY DEF Delivered
<1>3. /\ Has(ch[a][b], S) => Has(chan[a][b], S)
      /\ One(chan[a][b], S) => One(ch[a][b], S)
      /\ One(chan[q][p], S) /\ Head(chan[q][p]) \in S => Has(chan[q][p], S) /\ ~Has(ch[q][p], S)
  <2>1. Taken(p, q, ch)
        BY <1>2 DEF Taken
  <2>2. \A e, f \in Members : \A T :
           /\ Has(ch[e][f], T) => Has(chan[e][f], T)
           /\ One(chan[e][f], T) => One(ch[e][f], T)
           /\ One(chan[q][p], T) /\ Head(chan[q][p]) \in T => Has(chan[q][p], T) /\ ~Has(ch[q][p], T)
        BY <2>1, TakenHas
  <2>3. QED
        BY <2>2
<1>4. /\ \A e \in Members : chan'[p][e] = ch[p][e] \o out[e]
      /\ \A e \in Members \ {p} : chan'[e] = ch[e]
  <2>1. /\ \A e \in Members : Post(ch, p, out)[p][e] = ch[p][e] \o out[e]
        /\ \A e \in Members \ {p} : Post(ch, p, out)[e] = ch[e]
        BY PostFacts, Zenon
  <2>2. QED
        BY <1>2, <2>1
<1>5. CASE a # p
  <2>1. chan'[a][b] = ch[a][b] /\ chan'[q][p] = ch[q][p]
        BY <1>4, <1>5
  <2>2. QED
        BY <1>1, <1>2, <1>3, <2>1
<1>6. CASE a = p
  <2>1. PICK s \in Seq(Frame), t \in Seq(Frame) : s = ch[a][b] /\ t = out[b]
        OBVIOUS
  <2>2. chan'[a][b] = s \o t
        BY <1>4, <1>6, <2>1
  <2>3. /\ Has(s \o t, S) <=> Has(s, S) \/ Has(t, S)
        /\ One(s, S) /\ One(t, S) /\ ~(Has(s, S) /\ Has(t, S)) => One(s \o t, S)
        BY ConcatHas
  <2>4. One(t, S) /\ ~Has(t, S)
        BY <1>1, <1>2, <2>1, ModestHas
  <2>5. chan'[q][p] = ch[q][p]
        BY <1>4
  <2>6. QED
        BY <1>1, <1>2, <1>3, <2>1, <2>2, <2>3, <2>4, <2>5
<1>7. QED
      BY <1>5, <1>6

LEMMA WaitSame ==
    ASSUME NEW v \in Wait, NEW w \in Wait, v.fn = "start", w.fn = "start", v.room = w.room
    PROVE  v = w
<1>1. /\ v = [fn |-> "start", room |-> v.room, peer |-> None]
      /\ w = [fn |-> "start", room |-> w.room, peer |-> None]
      BY DEF Wait
<1>2. QED
      BY <1>1

\* A frame of a room shows that its sender entered it.
LEMMA HasJoined ==
    ASSUME Known, NEW p \in Members, NEW q \in Members, NEW c, NEW r,
           Has(chan[q][p], OfRoom(c, r))
    PROVE  <<q, r>> \in joined /\ (c = "OFFER" => <<p, r>> \in joined)
<1>1. PICK i \in DOMAIN chan[q][p] : chan[q][p][i] \in OfRoom(c, r)
      BY DEF Has
<1>2. chan[q][p] \in Seq(FramesFrom(q, p, joined))
      BY DEF Known
<1>3. chan[q][p][i] \in FramesFrom(q, p, joined)
      BY <1>1, <1>2, LenProperties
<1>4. QED
      BY <1>1, <1>3 DEF FramesFrom, OfRoom

\* A step that sends nothing and neither invites, is invited nor enters.
LEMMA OnceSilent ==
    ASSUME Known, Once, NEW p \in Members, NEW k, group' = [group EXCEPT ![p] = k],
           chan' = chan, joined' = joined,
           k.pending = group[p].pending \/ k.pending = None,
           \A w \in k.waits : w.fn = "start" => w \in group[p].waits
    PROVE  Once'
<1>1. \A b \in Members, r \in Rooms : Untold(b, r)' => Untold(b, r)
      BY UntoldShrinks
<1>2. \A b \in Members : group'[b].pending = group[b].pending \/ group'[b].pending = None
      BY PendingShrinks
<1>3. \A a, b \in Members, r \in Rooms :
         /\ Has(chan'[a][b], OfRoom("INVITE", r)) => Has(chan[a][b], OfRoom("INVITE", r))
         /\ One(chan'[a][b], OfRoom("INVITE", r))
      BY DEF Once
<1>4. QED
      BY <1>1, <1>2, <1>3, OnceShrinks

\* p enters room r, into which nobody will call it again.
LEMMA OnceEnter ==
    ASSUME Known, Seats, Once, NEW p \in Members, NEW k, NEW r \in Rooms, NEW R, NEW fn,
           group' = [group EXCEPT ![p] = k], chan' = chan,
           joined' = joined \cup {<<p, r>>}, Entered(p, k, fn, r, R),
           k.pending = None \/ (k.pending = group[p].pending /\ k.pending # r),
           ~Invited(p, r), \A h \in Members : ~Untold(h, r),
           fn = "start" => \A b \in Members : group[b].pending # r /\ ~Invited(b, r) /\ <<b, r>> \notin joined
    PROVE  Once'
<1>1. \A b \in Members \ {p} : group'[b] = group[b]
      BY DEF Known
<1>2. group'[p] = k
      BY DEF Known
<1>3. \A b \in Members, x \in Rooms : group'[b].pending = x => group[b].pending = x /\ <<b, x>> # <<p, r>>
  <2> SUFFICES ASSUME NEW b \in Members, NEW x \in Rooms, group'[b].pending = x
               PROVE  group[b].pending = x /\ <<b, x>> # <<p, r>>
      OBVIOUS
  <2>1. CASE b = p
        BY <1>2, <2>1, MemberFacts
  <2>2. CASE b # p
        BY <1>1, <2>2
  <2>3. QED
        BY <2>1, <2>2
<1>4. \A b \in Members, x \in Rooms : Invited(b, x)' <=> Invited(b, x)
      BY DEF Invited
<1>5. \A b \in Members, x \in Rooms : <<b, x>> \in joined' => <<b, x>> \in joined \/ (b = p /\ x = r)
      OBVIOUS
<1>6. \A w \in k.waits : w.fn = fn /\ w.room = r
      BY DEF Entered
<1>7. \A h \in Members, x \in Rooms : Untold(h, x)' => Untold(h, x) \/ (h = p /\ x = r /\ fn = "start")
  <2> SUFFICES ASSUME NEW h \in Members, NEW x \in Rooms, Untold(h, x)'
               PROVE  Untold(h, x) \/ (h = p /\ x = r /\ fn = "start")
      OBVIOUS
  <2>1. PICK w \in group'[h].waits : w.fn = "start" /\ w.room = x
        BY DEF Untold
  <2>2. CASE h = p
        BY <1>2, <1>6, <2>1, <2>2
  <2>3. CASE h # p
        BY <1>1, <2>1, <2>3 DEF Untold
  <2>4. QED
        BY <2>2, <2>3
<1>8. ASSUME NEW b \in Members, NEW x \in Rooms
      PROVE  /\ group'[b].pending = x => <<b, x>> \notin joined' /\ ~Invited(b, x)'
             /\ Invited(b, x)' => <<b, x>> \notin joined'
  <2>1. /\ group[b].pending = x => <<b, x>> \notin joined /\ ~Invited(b, x)
        /\ Invited(b, x) => <<b, x>> \notin joined
        BY DEF Once
  <2>2. Invited(b, x)' <=> Invited(b, x)
        BY <1>4
  <2>3. group'[b].pending = x => group[b].pending = x /\ <<b, x>> # <<p, r>>
        BY <1>3
  <2>4. Invited(b, x) => <<b, x>> # <<p, r>>
        OBVIOUS
  <2>5. QED
        BY <2>1, <2>2, <2>3, <2>4
<1>9. /\ \A a, b \in Members, x \in Rooms : One(chan'[b][a], OfRoom("INVITE", x))
      /\ \A a, b, e \in Members, x \in Rooms :
            Has(chan'[b][a], OfRoom("INVITE", x)) /\ Has(chan'[e][a], OfRoom("INVITE", x)) => b = e
      BY DEF Once
<1>10. ASSUME NEW h \in Members, NEW b \in Members, NEW x \in Rooms, Untold(h, x)'
       PROVE  /\ b # h => <<b, x>> \notin joined'
              /\ group'[b].pending # x /\ ~Invited(b, x)'
  <2>1. CASE Untold(h, x)
    <3>1. x # r
          BY <2>1
    <3>2. QED
          BY <1>3, <1>4, <1>5, <2>1, <3>1 DEF Once
  <2>2. CASE h = p /\ x = r /\ fn = "start"
        BY <1>3, <1>4, <1>5, <2>2
  <2>3. QED
        BY <1>7, <1>10, <2>1, <2>2
<1>11. QED
       BY <1>8, <1>9, <1>10 DEF Once

LEMMA OnceStart == ASSUME Known, Seats, Once, NEW p \in Members, Start(p) PROVE Once'
<1>1. PICK k \in GroupState, R \in Rosters, r \in Rooms :
         /\ r = Len(rooms) + 1 /\ rooms' = Append(rooms, R) /\ p \in R
         /\ group[p].room = None
         /\ group' = [group EXCEPT ![p] = k] /\ chan' = chan
         /\ joined' = joined \cup {<<p, r>>} /\ amiss' = amiss
         /\ k.pending = group[p].pending /\ k.roster = group[p].roster
         /\ Entered(p, k, "start", r, R)
      BY StartStep
<1>2. PICK n \in Nat : n = Len(rooms) /\ joined \subseteq Members \X (1..n)
      BY LenProperties DEF Known, Bounds
<1>3. r \notin 1..n /\ r # None
      BY <1>1, <1>2, MemberFacts
<1>4. \A b \in Members : <<b, r>> \notin joined
      BY <1>2, <1>3
<1>5. \A b \in Members : group[b].pending # r
      BY <1>2, <1>3 DEF Known, Placed
<1>6. \A b \in Members : ~Invited(b, r)
  <2>1. \A b, q \in Members : ~Has(chan[q][b], OfRoom("INVITE", r))
        BY <1>4, HasJoined
  <2>2. QED
        BY <2>1 DEF Invited
<1>7. \A h \in Members : ~Untold(h, r)
      BY <1>2, <1>3 DEF Known, Placed, Untold
<1>8. PICK fn : fn = "start"
      OBVIOUS
<1>9. Entered(p, k, fn, r, R) /\ (k.pending = None \/ (k.pending = group[p].pending /\ k.pending # r))
      BY <1>1, <1>5, <1>8
<1>10. QED
       BY <1>1, <1>4, <1>5, <1>6, <1>7, <1>9, OnceEnter

LEMMA OnceAccept ==
    ASSUME Known, Seats, Once, NEW p \in Members, AcceptInvite(p), group[p].room = None
    PROVE  Once'
<1>1. PICK k \in GroupState, R \in SUBSET Members, r \in Rooms :
         /\ r = group[p].pending /\ R = rooms[r] /\ p \in R
         /\ group' = [group EXCEPT ![p] = k] /\ chan' = chan /\ rooms' = rooms
         /\ joined' = joined \cup {<<p, r>>} /\ amiss' = amiss
         /\ k.pending = None
         /\ Entered(p, k, "accept", r, R)
      BY AcceptStep
<1>2. ~Invited(p, r) /\ \A h \in Members : ~Untold(h, r)
      BY <1>1 DEF Once
<1>3. PICK fn : fn = "accept"
      OBVIOUS
<1>4. /\ Entered(p, k, fn, r, R)
      /\ fn = "start" => \A b \in Members : group[b].pending # r /\ ~Invited(b, r) /\ <<b, r>> \notin joined
      /\ k.pending = None \/ (k.pending = group[p].pending /\ k.pending # r)
      BY <1>1, <1>3
<1>5. group' = [group EXCEPT ![p] = k] /\ chan' = chan /\ joined' = joined \cup {<<p, r>>}
      BY <1>1
<1>6. QED
      BY <1>2, <1>4, <1>5, OnceEnter

LEMMA OnceDismiss == ASSUME Known, Once, NEW p \in Members, Dismiss(p) PROVE Once'
<1>1. PICK k \in GroupState :
         /\ group' = [group EXCEPT ![p] = k] /\ chan' = chan /\ rooms' = rooms
         /\ joined' = joined /\ amiss' = amiss
         /\ Still(group[p], k) /\ k.pending = None /\ k.roster = {}
      BY AnswerStep
<1>2. \A w \in k.waits : w.fn = "start" => w \in group[p].waits
      BY <1>1 DEF Still
<1>3. QED
      BY <1>1, <1>2, OnceSilent

LEMMA OnceClose == ASSUME Known, Once, NEW p \in Members, CloseWindow(p) PROVE Once'
<1>1. joined' = joined /\ chan' = chan
      BY CloseStep
<1>2. PICK k \in GroupState :
         /\ group' = [group EXCEPT ![p] = k] /\ Keeps(group[p], k)
         /\ k.stream = group[p].stream /\ ~k.shown /\ k.waits = group[p].waits
      BY CloseStep
<1>3. k.pending = group[p].pending /\ \A w \in k.waits : w.fn = "start" => w \in group[p].waits
      BY <1>2 DEF Keeps
<1>4. QED
      BY <1>1, <1>2, <1>3, OnceSilent

LEMMA OnceRefused ==
    ASSUME Known, Once, NEW p \in Members, NEW w \in group[p].waits, MediaRefused(p, w)
    PROVE  Once'
<1>1. joined' = joined /\ chan' = chan
      BY RefusedStep
<1>2. PICK k \in GroupState :
         /\ group' = [group EXCEPT ![p] = k] /\ Keeps(group[p], k)
         /\ k.stream = group[p].stream /\ k.shown = group[p].shown
         /\ k.waits = group[p].waits \ {w}
      BY RefusedStep
<1>3. k.pending = group[p].pending /\ \A v \in k.waits : v.fn = "start" => v \in group[p].waits
      BY <1>2 DEF Keeps
<1>4. QED
      BY <1>1, <1>2, <1>3, OnceSilent

\* A step of p that sends frames, but no invitations.
LEMMA OncePosts ==
    ASSUME Known, Once, NEW p \in Members, NEW k, group' = [group EXCEPT ![p] = k],
           joined' = joined, k.pending = group[p].pending,
           \A w \in k.waits : w.fn = "start" => w \in group[p].waits,
           NEW out \in [Members -> Seq(Frame)], chan' = Post(chan, p, out),
           NEW cmd, cmd # "INVITE", NEW r, NEW D, Posts(out, cmd, r, D)
    PROVE  Once'
<1>1. \A b \in Members, x \in Rooms : Untold(b, x)' => Untold(b, x)
      BY UntoldShrinks
<1>2. \A b \in Members : group'[b].pending = group[b].pending \/ group'[b].pending = None
      BY PendingShrinks
<1>3. ASSUME NEW a \in Members, NEW b \in Members, NEW x \in Rooms
      PROVE  /\ Has(chan'[a][b], OfRoom("INVITE", x)) => Has(chan[a][b], OfRoom("INVITE", x))
             /\ One(chan'[a][b], OfRoom("INVITE", x))
  <2>1. PICK c : c = "INVITE"
        OBVIOUS
  <2>2. c # cmd
        BY <2>1
  <2>3. One(chan[a][b], OfRoom(c, x))
        BY <2>1 DEF Once
  <2>4. \A e, f \in Members : \A d, z :
           /\ Has(chan'[e][f], OfRoom(d, z)) =>
                 Has(chan[e][f], OfRoom(d, z)) \/ (e = p /\ d = cmd /\ z = r /\ f \in D)
           /\ Has(chan[e][f], OfRoom(d, z)) => Has(chan'[e][f], OfRoom(d, z))
           /\ One(chan[e][f], OfRoom(d, z))
                 /\ (e = p /\ d = cmd /\ z = r /\ f \in D => ~Has(chan[e][f], OfRoom(d, z)))
              => One(chan'[e][f], OfRoom(d, z))
        BY PostedHas
  <2>5. QED
        BY <2>1, <2>2, <2>3, <2>4
<1>4. QED
      BY <1>1, <1>2, <1>3, OnceShrinks

LEMMA OnceSdp ==
    ASSUME Known, Once, NEW p \in Members, NEW w \in group[p].waits, GotSdp(p, w)
    PROVE  Once'
<1>1. joined' = joined /\ w.peer \in Members
      BY SdpStep
<1>2. PICK k \in GroupState :
         /\ group' = [group EXCEPT ![p] = k]
         /\ k.room = group[p].room /\ k.pending = group[p].pending
         /\ k.roster = group[p].roster /\ k.stream = group[p].stream
         /\ k.shown = group[p].shown /\ k.waits = group[p].waits \ {w}
         /\ \A b \in Members \ {w.peer} : k.mem[b] = group[p].mem[b]
         /\ k.mem[w.peer].sig # "none"
         /\ k.mem[w.peer].known <=> group[p].mem[w.peer].known
         /\ \/ w.fn = "offer" /\ chan' = Post(chan, p, SendTo(w.peer, "OFFER", w.room))
            \/ w.fn = "answer" /\ chan' = Post(chan, p, SendTo(w.peer, "ANSWER", w.room))
      BY SdpStep
<1>3. PICK cmd \in {"JOIN", "OFFER", "ANSWER"} : chan' = Post(chan, p, SendTo(w.peer, cmd, w.room))
      BY <1>2
<1>4. PICK q \in Members : q = w.peer
      BY <1>1
<1>5. PICK r \in Rooms : r = w.room
      BY WaitFacts DEF Known, GroupState
<1>6. PICK out \in [Members -> Seq(Frame)] : out = SendTo(q, cmd, r) /\ Posts(out, cmd, r, {q})
      BY SendPosts
<1>7. chan' = Post(chan, p, out) /\ cmd # "INVITE"
      BY <1>3, <1>4, <1>5, <1>6
<1>8. k.pending = group[p].pending /\ \A v \in k.waits : v.fn = "start" => v \in group[p].waits
      BY <1>2
<1>9. QED
      BY <1>1, <1>2, <1>6, <1>7, <1>8, OncePosts

LEMMA OnceLeave == ASSUME Known, Once, NEW p \in Members, Leave(p) PROVE Once'
<1>1. joined' = joined /\ chan' = Post(chan, p, Broadcast(p, group[p], "BYE", {}))
      BY LeaveStep
<1>2. PICK k \in GroupState :
         /\ group' = [group EXCEPT ![p] = k]
         /\ k.room = None /\ ~k.stream /\ ~k.shown
         /\ k.pending = group[p].pending /\ k.roster = group[p].roster
         /\ \A q \in Members : k.mem[q] = NoLeg
         /\ \A w \in k.waits : w \in group[p].waits /\ w.peer = None
      BY LeaveStep
<1>3. PICK o \in GroupState : o = group[p] /\ Placed(p, o, Len(rooms), joined)
      BY DEF Known
<1>4. PICK cmd \in {"INVITE", "JOIN", "BYE"} : cmd = "BYE"
      OBVIOUS
<1>5. PICK R \in SUBSET Members : R = {}
      OBVIOUS
<1>6. PICK out \in [Members -> Seq(Frame)] : out = Broadcast(p, o, cmd, R)
      BY <1>3, BroadcastFits
<1>7. Posts(out, cmd, o.room, Members \ {p})
      BY <1>3, <1>6, BroadcastPosts
<1>8. chan' = Post(chan, p, out) /\ cmd # "INVITE"
      BY <1>1, <1>3, <1>4, <1>5, <1>6
<1>9. k.pending = group[p].pending /\ \A v \in k.waits : v.fn = "start" => v \in group[p].waits
      BY <1>2
<1>10. QED
       BY <1>1, <1>2, <1>7, <1>8, <1>9, OncePosts

LEMMA OnceLose ==
    ASSUME Known, Once, NEW p \in Members, NEW q \in Members, Lose(p, q)
    PROVE  Once'
<1>1. joined' = joined /\ group' = group /\ chan[q][p] # <<>>
      BY LoseStep
<1>2. PICK ch \in [Members -> [Members -> Seq(Frame)]] :
         /\ chan' = ch /\ ch[q][p] = Tail(chan[q][p])
         /\ \A a, b \in Members : a # q \/ b # p => ch[a][b] = chan[a][b]
      BY LoseStep
<1>3. Taken(p, q, ch)
      BY <1>2 DEF Taken
<1>4. \A a, b \in Members : \A S :
         /\ Has(ch[a][b], S) => Has(chan[a][b], S)
         /\ One(chan[a][b], S) => One(ch[a][b], S)
         /\ One(chan[q][p], S) /\ Head(chan[q][p]) \in S => Has(chan[q][p], S) /\ ~Has(ch[q][p], S)
      BY <1>1, <1>3, TakenHas
<1>5. \A a, b \in Members, r \in Rooms :
         /\ Has(chan'[a][b], OfRoom("INVITE", r)) => Has(chan[a][b], OfRoom("INVITE", r))
         /\ One(chan'[a][b], OfRoom("INVITE", r))
      BY <1>2, <1>4 DEF Once
<1>6. \A b \in Members, r \in Rooms : Untold(b, r)' => Untold(b, r)
      BY <1>1 DEF Untold
<1>7. \A b \in Members : group'[b].pending = group[b].pending
      BY <1>1
<1>8. QED
      BY <1>1, <1>5, <1>6, <1>7, OnceShrinks

LEMMA OnceDeliver ==
    ASSUME Known, Seats, Once, NEW p \in Members, NEW q \in Members, Deliver(p, q)
    PROVE  Once'
<1>1. joined' = joined /\ chan[q][p] # <<>> /\ q \in Members \ {p}
      BY DeliverStep
<1>2. PICK m \in FramesFrom(q, p, joined), k \in GroupState,
           ch \in [Members -> [Members -> Seq(Frame)]], out \in [Members -> Seq(Frame)] :
         Delivered(p, q, m, k, ch, out)
      BY DeliverStep
<1>3. group' = [group EXCEPT ![p] = k] /\ Spares(p, group[p], k, q)
      BY <1>2 DEF Delivered
<1>4. \A w \in k.waits : w.fn = "start" => w \in group[p].waits
  <2>1. \A w \in Wait : w.fn = "start" => w.peer # q
        BY WaitFacts, MemberFacts
  <2>2. QED
        BY <1>3, <2>1 DEF Spares, GroupState
<1>5. \A b \in Members, r \in Rooms : Untold(b, r)' => Untold(b, r)
      BY <1>3, <1>4, UntoldShrinks
<1>6. \A a, b \in Members, r \in Rooms :
         /\ Has(chan'[a][b], OfRoom("INVITE", r)) => Has(chan[a][b], OfRoom("INVITE", r))
         /\ One(chan'[a][b], OfRoom("INVITE", r))
         /\ m \in OfRoom("INVITE", r) => Has(chan[q][p], OfRoom("INVITE", r)) /\ ~Has(chan'[q][p], OfRoom("INVITE", r))
  <2> SUFFICES ASSUME NEW a \in Members, NEW b \in Members, NEW r \in Rooms
               PROVE  /\ Has(chan'[a][b], OfRoom("INVITE", r)) => Has(chan[a][b], OfRoom("INVITE", r))
                      /\ One(chan'[a][b], OfRoom("INVITE", r))
                      /\ m \in OfRoom("INVITE", r) =>
                            Has(chan[q][p], OfRoom("INVITE", r)) /\ ~Has(chan'[q][p], OfRoom("INVITE", r))
      OBVIOUS
  <2>1. PICK c : c = "INVITE"
        OBVIOUS
  <2>2. q # p /\ c # "JOIN"
        BY <1>1, <2>1
  <2>3. /\ Has(chan'[a][b], OfRoom(c, r)) => Has(chan[a][b], OfRoom(c, r))
        /\ One(chan[a][b], OfRoom(c, r)) => One(chan'[a][b], OfRoom(c, r))
        /\ One(chan[q][p], OfRoom(c, r)) /\ m \in OfRoom(c, r) =>
              Has(chan[q][p], OfRoom(c, r)) /\ ~Has(chan'[q][p], OfRoom(c, r))
        BY <1>1, <1>2, <2>2, DeliveredHas
  <2>4. One(chan[a][b], OfRoom(c, r)) /\ One(chan[q][p], OfRoom(c, r))
        BY <2>1 DEF Once
  <2>5. QED
        BY <2>1, <2>3, <2>4
<1>7. CASE k.pending = group[p].pending
  <2>1. \A b \in Members : group'[b].pending = group[b].pending \/ group'[b].pending = None
        BY <1>3, <1>7, PendingShrinks
  <2>2. QED
        BY <1>1, <1>5, <1>6, <2>1, OnceShrinks
<1>8. CASE k.pending # group[p].pending
  <2>1. m.cmd = "INVITE" /\ k.pending = m.room
        BY <1>2, <1>8 DEF Delivered
  <2>2. PICK r \in Rooms : r = m.room /\ m \in OfRoom("INVITE", r)
        BY <2>1 DEF FramesFrom, Frame, OfRoom
  <2>3. Has(chan[q][p], OfRoom("INVITE", r)) /\ ~Has(chan'[q][p], OfRoom("INVITE", r))
        BY <1>6, <2>2
  <2>4. Invited(p, r) /\ <<p, r>> \notin joined
        BY <2>3 DEF Invited, Once
  <2>5. ~Invited(p, r)'
    <3>1. \A b \in Members : Has(chan[b][p], OfRoom("INVITE", r)) => b = q
          BY <2>3 DEF Once
    <3>2. QED
          BY <1>6, <2>3, <3>1 DEF Invited
  <2>6. \A h \in Members : ~Untold(h, r)
        BY <2>4 DEF Once
  <2>7. /\ group'[p].pending = r
        /\ \A b \in Members \ {p} : group'[b].pending = group[b].pending
        BY <1>3, <2>1, <2>2 DEF Known
  <2>8. \A b \in Members, x \in Rooms : group'[b].pending = x => group[b].pending = x \/ (b = p /\ x = r)
        BY <2>7
  <2>9. \A b \in Members, x \in Rooms : Invited(b, x)' => Invited(b, x)
        BY <1>6 DEF Invited
  <2>10. ASSUME NEW b \in Members, NEW x \in Rooms
         PROVE  /\ group'[b].pending = x => <<b, x>> \notin joined' /\ ~Invited(b, x)'
                /\ Invited(b, x)' => <<b, x>> \notin joined'
    <3>1. Invited(b, x)' => <<b, x>> \notin joined'
          BY <1>1, <2>9 DEF Once
    <3>2. CASE group[b].pending = x
          BY <1>1, <2>9, <3>1, <3>2 DEF Once
    <3>3. CASE b = p /\ x = r
          BY <1>1, <2>4, <2>5, <3>1, <3>3
    <3>4. QED
          BY <2>8, <3>1, <3>2, <3>3
  <2>11. /\ \A a, b \in Members, x \in Rooms : One(chan'[b][a], OfRoom("INVITE", x))
         /\ \A a, b, e \in Members, x \in Rooms :
               Has(chan'[b][a], OfRoom("INVITE", x)) /\ Has(chan'[e][a], OfRoom("INVITE", x)) => b = e
    <3>1. \A a, b \in Members, x \in Rooms : One(chan'[b][a], OfRoom("INVITE", x))
          BY <1>6
    <3>2. \A a, b \in Members, x \in Rooms :
             Has(chan'[b][a], OfRoom("INVITE", x)) => Has(chan[b][a], OfRoom("INVITE", x))
          BY <1>6
    <3>3. QED
          BY <3>1, <3>2 DEF Once
  <2>12. ASSUME NEW h \in Members, NEW b \in Members, NEW x \in Rooms, Untold(h, x)'
         PROVE  /\ b # h => <<b, x>> \notin joined'
                /\ group'[b].pending # x /\ ~Invited(b, x)'
    <3>1. Untold(h, x)
          BY <1>5, <2>12
    <3>2. x # r
          BY <2>6, <3>1
    <3>3. QED
          BY <1>1, <2>8, <2>9, <3>1, <3>2 DEF Once
  <2>13. QED
         BY <2>10, <2>11, <2>12 DEF Once
<1>9. QED
      BY <1>7, <1>8

\* The camera of whoever called is open, and the others are invited.
LEMMA OnceInvites ==
    ASSUME Known, Once, NEW p \in Members, NEW k, group' = [group EXCEPT ![p] = k],
           joined' = joined, k.pending = group[p].pending, NEW r \in Rooms, <<p, r>> \in joined,
           Untold(p, r), \A v \in k.waits : v.fn = "start" => v \in group[p].waits /\ v.room # r,
           NEW out \in [Members -> Seq(Frame)], chan' = Post(chan, p, out),
           Posts(out, "INVITE", r, Members \ {p})
    PROVE  Once'
<1>1. \A b \in Members, x \in Rooms : Untold(b, x)' => Untold(b, x)
      BY UntoldShrinks
<1>2. ~Untold(p, r)'
  <2>1. group'[p] = k
        BY DEF Known
  <2>2. QED
        BY <2>1 DEF Untold
<1>3. \A h \in Members : Untold(h, r) => h = p
      BY DEF Once
<1>4. \A b \in Members : group'[b].pending = group[b].pending
      BY DEF Known
<1>5. \A b \in Members : ~Invited(b, r) /\ group[b].pending # r /\ (b # p => <<b, r>> \notin joined)
      BY DEF Once
<1>6. \A b, q \in Members : ~Has(chan[q][b], OfRoom("INVITE", r))
      BY <1>5 DEF Invited
<1>7. ASSUME NEW a \in Members, NEW b \in Members, NEW x \in Rooms
      PROVE  /\ Has(chan'[a][b], OfRoom("INVITE", x)) =>
                   Has(chan[a][b], OfRoom("INVITE", x)) \/ (a = p /\ x = r /\ b # p)
             /\ One(chan'[a][b], OfRoom("INVITE", x))
  <2>1. PICK c : c = "INVITE"
        OBVIOUS
  <2>2. PICK D : D = Members \ {p}
        OBVIOUS
  <2>3. Posts(out, c, r, D)
        BY <2>1, <2>2
  <2>4. \A e, f \in Members : \A d, z :
           /\ Has(chan'[e][f], OfRoom(d, z)) =>
                 Has(chan[e][f], OfRoom(d, z)) \/ (e = p /\ d = c /\ z = r /\ f \in D)
           /\ Has(chan[e][f], OfRoom(d, z)) => Has(chan'[e][f], OfRoom(d, z))
           /\ One(chan[e][f], OfRoom(d, z))
                 /\ (e = p /\ d = c /\ z = r /\ f \in D => ~Has(chan[e][f], OfRoom(d, z)))
              => One(chan'[e][f], OfRoom(d, z))
        BY <2>3, PostedHas
  <2>5. /\ Has(chan'[a][b], OfRoom(c, x)) =>
              Has(chan[a][b], OfRoom(c, x)) \/ (a = p /\ x = r /\ b \in D)
        /\ One(chan[a][b], OfRoom(c, x)) /\ (x = r => ~Has(chan[a][b], OfRoom(c, x)))
           => One(chan'[a][b], OfRoom(c, x))
        BY <2>4
  <2>6. One(chan[a][b], OfRoom("INVITE", x))
        BY DEF Once
  <2>7. QED
        BY <1>6, <2>1, <2>2, <2>5, <2>6
<1>8. \A b \in Members, x \in Rooms : Invited(b, x)' => Invited(b, x) \/ (x = r /\ b # p)
      BY <1>7 DEF Invited
<1>9. ASSUME NEW b \in Members, NEW x \in Rooms
      PROVE  /\ group'[b].pending = x => <<b, x>> \notin joined' /\ ~Invited(b, x)'
             /\ Invited(b, x)' => <<b, x>> \notin joined'
  <2>1. /\ group[b].pending = x => <<b, x>> \notin joined /\ ~Invited(b, x)
        /\ Invited(b, x) => <<b, x>> \notin joined
        BY DEF Once
  <2>2. CASE x # r
        BY <1>4, <1>8, <2>1, <2>2
  <2>3. CASE x = r
        BY <1>4, <1>5, <1>8, <2>3
  <2>4. QED
        BY <2>2, <2>3
<1>10. \A a, b \in Members, x \in Rooms : One(chan'[b][a], OfRoom("INVITE", x))
       BY <1>7
<1>11. ASSUME NEW a \in Members, NEW b \in Members, NEW e \in Members, NEW x \in Rooms,
              Has(chan'[b][a], OfRoom("INVITE", x)), Has(chan'[e][a], OfRoom("INVITE", x))
       PROVE  b = e
  <2>1. CASE x # r
        BY <1>7, <1>11, <2>1 DEF Once
  <2>2. CASE x = r
        BY <1>6, <1>7, <1>11, <2>2
  <2>3. QED
        BY <2>1, <2>2
<1>12. ASSUME NEW h \in Members, NEW b \in Members, NEW x \in Rooms, Untold(h, x)'
       PROVE  /\ b # h => <<b, x>> \notin joined'
              /\ group'[b].pending # x /\ ~Invited(b, x)'
  <2>1. Untold(h, x)
        BY <1>1, <1>12
  <2>2. x # r
        BY <1>2, <1>3, <1>12, <2>1
  <2>3. QED
        BY <1>4, <1>8, <2>1, <2>2 DEF Once
<1>13. QED
       BY <1>9, <1>10, <1>11, <1>12 DEF Once

LEMMA OnceMedia ==
    ASSUME Known, Seats, Once, NEW p \in Members, NEW w \in group[p].waits, GotMedia(p, w)
    PROVE  Once'
<1>1. w.fn \in {"start", "accept"} /\ joined' = joined
      BY MediaStep
<1>2. PICK k \in GroupState :
         /\ group' = [group EXCEPT ![p] = k] /\ Keeps(group[p], k)
         /\ k.stream /\ k.shown /\ k.waits = group[p].waits \ {w}
         /\ chan' = Post(chan, p, IF w.fn = "start" THEN Broadcast(p, k, "INVITE", rooms[w.room])
                                  ELSE Broadcast(p, k, "JOIN", {}))
      BY MediaStep
<1>3. PICK n \in Nat : n = Len(rooms)
      BY LenProperties DEF Known, Bounds
<1>4. PICK o \in GroupState : o = group[p] /\ Placed(p, o, n, joined) /\ Seat(p, o, rooms)
      BY <1>3 DEF Known, Seats
<1>5. w \in Wait /\ w.room \in 1..n /\ w.room = o.room
      BY <1>4 DEF Placed, Seat, GroupState
<1>6. PICK r \in Rooms : r = w.room /\ r = k.room /\ <<p, r>> \in joined
  <2>1. w.room \in Rooms /\ w.room # None
        BY <1>5, WaitFacts, MemberFacts
  <2>2. <<p, w.room>> \in joined
        BY <1>4, <1>5, <2>1 DEF Placed
  <2>3. QED
        BY <1>2, <1>4, <1>5, <2>1, <2>2 DEF Keeps
<1>7. rooms[w.room] \in SUBSET Members
      BY <1>3, <1>5, LenProperties, MemberFacts DEF Known, Bounds
<1>8. Placed(p, k, n, joined)
      BY <1>2, <1>4 DEF Placed, Keeps
<1>9. k.pending = group[p].pending /\ \A v \in k.waits : v.fn = "start" => v \in group[p].waits
      BY <1>2 DEF Keeps
<1>10. PICK cmd \in {"INVITE", "JOIN", "BYE"} : cmd = IF w.fn = "start" THEN "INVITE" ELSE "JOIN"
       OBVIOUS
<1>11. PICK R \in SUBSET Members : R = IF w.fn = "start" THEN rooms[w.room] ELSE {}
       BY <1>7
<1>12. PICK out \in [Members -> Seq(Frame)] : out = Broadcast(p, k, cmd, R)
       BY <1>8, BroadcastFits
<1>13. chan' = Post(chan, p, out)
       BY <1>2, <1>10, <1>11, <1>12
<1>14. Posts(out, cmd, r, Members \ {p})
  <2>1. Posts(Broadcast(p, k, cmd, R), cmd, k.room, Members \ {p})
        BY <1>8, BroadcastPosts
  <2>2. QED
        BY <1>6, <1>12, <2>1
<1>15. CASE w.fn = "accept"
  <2>1. cmd # "INVITE"
        BY <1>10, <1>15
  <2>2. QED
        BY <1>1, <1>2, <1>9, <1>13, <1>14, <2>1, OncePosts
<1>16. CASE w.fn = "start"
  <2>1. cmd = "INVITE"
        BY <1>10, <1>16
  <2>2. Untold(p, r)
        BY <1>6, <1>16 DEF Untold
  <2>3. \A v \in k.waits : v.fn = "start" => v \in group[p].waits /\ v.room # r
    <3>1. \A v \in Wait : v.fn = "start" /\ v.room = w.room => v = w
          BY <1>5, <1>16, WaitSame
    <3>2. QED
          BY <1>2, <1>6, <3>1 DEF GroupState
  <2>4. Posts(out, "INVITE", r, Members \ {p})
        BY <1>14, <2>1
  <2>5. QED
        BY <1>1, <1>2, <1>6, <1>9, <1>13, <2>2, <2>3, <2>4, OnceInvites
<1>17. QED
       BY <1>1, <1>15, <1>16

LEMMA OnceStep ==
    ASSUME Known, Seats, Once, GroupNext
    PROVE  Once'
<1>1. PICK p \in Members :
         \/ Start(p) \/ AcceptInvite(p) \/ RejectInvite(p)
         \/ Leave(p) \/ CloseWindow(p)
         \/ \E w \in group[p].waits : GotMedia(p, w) \/ GotSdp(p, w) \/ MediaRefused(p, w)
         \/ \E q \in Members : Deliver(p, q) \/ Lose(p, q)
      BY DEF GroupNext, Resume
<1>2. CASE Start(p)
      BY <1>2, OnceStart
<1>3. CASE AcceptInvite(p) \/ RejectInvite(p)
  <2>1. CASE AcceptInvite(p) /\ group[p].room = None
        BY <2>1, OnceAccept
  <2>2. CASE Dismiss(p)
        BY <2>2, OnceDismiss
  <2>3. QED
        BY <1>3, <2>1, <2>2 DEF Dismiss
<1>4. CASE Leave(p) \/ CloseWindow(p)
      BY <1>4, OnceLeave, OnceClose
<1>5. CASE \E w \in group[p].waits : GotMedia(p, w) \/ GotSdp(p, w) \/ MediaRefused(p, w)
      BY <1>5, OnceMedia, OnceSdp, OnceRefused
<1>6. CASE \E q \in Members : Deliver(p, q) \/ Lose(p, q)
      BY <1>6, OnceDeliver, OnceLose
<1>7. QED
      BY <1>1, <1>2, <1>3, <1>4, <1>5, <1>6

LEMMA NothingSent ==
    ASSUME GroupInit, NEW a \in Members, NEW b \in Members, NEW S
    PROVE  ~Has(chan[a][b], S) /\ One(chan[a][b], S)
<1>1. chan[a][b] = <<>>
      BY DEF GroupInit
<1>2. QED
      BY <1>1, EmptyHas

LEMMA OnceInit == GroupInit => Once
<1> SUFFICES ASSUME GroupInit PROVE Once
    OBVIOUS
<1>1. \A a, b \in Members : \A S : ~Has(chan[a][b], S) /\ One(chan[a][b], S)
      BY NothingSent
<1>2. \A b \in Members : group[b].waits = {} /\ group[b].pending = None
      BY DEF GroupInit, Idle
<1>3. \A b \in Members, r \in Rooms : ~Invited(b, r) /\ ~Untold(b, r) /\ group[b].pending # r
      BY <1>1, <1>2, MemberFacts DEF Invited, Untold
<1>4. QED
      BY <1>1, <1>3 DEF Once

-----------------------------------------------------------------------------
(* Group calls: one offer per pair and room                                 *)

\* Whoever said goodbye is not in that room, and never will be again.
Byes == \A p, q \in Members, r \in Rooms :
    Has(chan[q][p], OfRoom("BYE", r)) => group[q].room # r

Offered(p, q) ==
    /\ One(chan[q][p], OfRoom("OFFER", group[p].room))
    /\ Has(chan[q][p], OfRoom("OFFER", group[p].room)) => group[p].mem[q].sig = "none"
    /\ group[q].room = group[p].room /\ Untouched(group[q], p) =>
          ~Has(chan[q][p], OfRoom("OFFER", group[p].room)) /\ group[p].mem[q].sig = "none"

Offers == \A p, q \in Members : q < p /\ group[p].room # None => Offered(p, q)

\* What has to hold of a step for one pair: nothing new from q, nothing done to
\* p's leg, and q's leg not untouched again.
LEMMA PairStays ==
    ASSUME NEW p \in Members, NEW q \in Members, Offered(p, q), group'[p].room = group[p].room,
           group[p].room # None, NEW r, r = group[p].room,
           Has(chan'[q][p], OfRoom("OFFER", r)) => Has(chan[q][p], OfRoom("OFFER", r)),
           One(chan[q][p], OfRoom("OFFER", r)) => One(chan'[q][p], OfRoom("OFFER", r)),
           group[p].mem[q].sig = "none" => group'[p].mem[q].sig = "none",
           group'[q].room = group[q].room \/ group'[q].room = None,
           group'[q].room = group'[p].room /\ Untouched(group'[q], p) => Untouched(group[q], p)
    PROVE  Offered(p, q)'
<1>1. /\ One(chan[q][p], OfRoom("OFFER", r))
      /\ Has(chan[q][p], OfRoom("OFFER", r)) => group[p].mem[q].sig = "none"
      /\ group[q].room = r /\ Untouched(group[q], p) =>
            ~Has(chan[q][p], OfRoom("OFFER", r)) /\ group[p].mem[q].sig = "none"
      BY DEF Offered
<1>2. group'[p].room = r
      OBVIOUS
<1>3. /\ One(chan'[q][p], OfRoom("OFFER", r))
      /\ Has(chan'[q][p], OfRoom("OFFER", r)) => group'[p].mem[q].sig = "none"
      /\ group'[q].room = r /\ Untouched(group'[q], p) =>
            ~Has(chan'[q][p], OfRoom("OFFER", r)) /\ group'[p].mem[q].sig = "none"
      BY <1>1
<1>4. QED
      BY <1>2, <1>3 DEF Offered

\* No offers and no goodbyes, no leg and no offer under way touched.
LEMMA PairsCalm ==
    ASSUME Known, Byes, Offers, NEW x \in Members, NEW k, group' = [group EXCEPT ![x] = k],
           k.room = group[x].room, k.mem = group[x].mem,
           \A w \in k.waits : w.fn = "offer" => w \in group[x].waits,
           \A a, b \in Members : \A r :
              /\ Has(chan'[a][b], OfRoom("BYE", r)) => Has(chan[a][b], OfRoom("BYE", r))
              /\ Has(chan'[a][b], OfRoom("OFFER", r)) => Has(chan[a][b], OfRoom("OFFER", r))
              /\ One(chan[a][b], OfRoom("OFFER", r)) => One(chan'[a][b], OfRoom("OFFER", r))
    PROVE  Byes' /\ Offers'
<1>1. \A b \in Members : group'[b].room = group[b].room /\ group'[b].mem = group[b].mem
      BY DEF Known
<1>2. \A a, b \in Members : Untouched(group'[a], b) => Untouched(group[a], b)
  <2> SUFFICES ASSUME NEW a \in Members, NEW b \in Members, Untouched(group'[a], b)
               PROVE  Untouched(group[a], b)
      OBVIOUS
  <2>1. CASE a = x
    <3>1. group'[a] = k
          BY <2>1 DEF Known
    <3>2. QED
          BY <2>1, <3>1 DEF Untouched
  <2>2. CASE a # x
    <3>1. group'[a] = group[a]
          BY <2>2 DEF Known
    <3>2. QED
          BY <3>1
  <2>3. QED
        BY <2>1, <2>2
<1>3. Byes'
      BY <1>1 DEF Byes
<1>4. ASSUME NEW p \in Members, NEW q \in Members, q < p, group'[p].room # None
      PROVE  Offered(p, q)'
  <2>1. PICK r : r = group[p].room
        OBVIOUS
  <2>2. Offered(p, q) /\ group'[p].room = group[p].room /\ group[p].room # None
        BY <1>1, <1>4 DEF Offers
  <2>3. /\ Has(chan'[q][p], OfRoom("OFFER", r)) => Has(chan[q][p], OfRoom("OFFER", r))
        /\ One(chan[q][p], OfRoom("OFFER", r)) => One(chan'[q][p], OfRoom("OFFER", r))
        OBVIOUS
  <2>4. /\ group[p].mem[q].sig = "none" => group'[p].mem[q].sig = "none"
        /\ group'[q].room = group[q].room
        /\ Untouched(group'[q], p) => Untouched(group[q], p)
        BY <1>1, <1>2
  <2>5. QED
        BY <2>1, <2>2, <2>3, <2>4, PairStays
<1>5. QED
      BY <1>3, <1>4 DEF Offers

LEMMA PairsDismiss ==
    ASSUME Known, Byes, Offers, NEW p \in Members, Dismiss(p)
    PROVE  Byes' /\ Offers'
<1>1. PICK k \in GroupState :
         /\ group' = [group EXCEPT ![p] = k] /\ chan' = chan /\ rooms' = rooms
         /\ joined' = joined /\ amiss' = amiss
         /\ Still(group[p], k) /\ k.pending = None /\ k.roster = {}
      BY AnswerStep
<1>2. /\ k.room = group[p].room /\ k.mem = group[p].mem
      /\ \A w \in k.waits : w.fn = "offer" => w \in group[p].waits
      BY <1>1 DEF Still
<1>3. QED
      BY <1>1, <1>2, PairsCalm

LEMMA PairsClose ==
    ASSUME Known, Byes, Offers, NEW p \in Members, CloseWindow(p)
    PROVE  Byes' /\ Offers'
<1>1. chan' = chan
      BY CloseStep
<1>2. PICK k \in GroupState :
         /\ group' = [group EXCEPT ![p] = k] /\ Keeps(group[p], k)
         /\ k.stream = group[p].stream /\ ~k.shown /\ k.waits = group[p].waits
      BY CloseStep
<1>3. /\ k.room = group[p].room /\ k.mem = group[p].mem
      /\ \A w \in k.waits : w.fn = "offer" => w \in group[p].waits
      BY <1>2 DEF Keeps
<1>4. QED
      BY <1>1, <1>2, <1>3, PairsCalm

LEMMA PairsRefused ==
    ASSUME Known, Byes, Offers, NEW p \in Members, NEW w \in group[p].waits, MediaRefused(p, w)
    PROVE  Byes' /\ Offers'
<1>1. chan' = chan
      BY RefusedStep
<1>2. PICK k \in GroupState :
         /\ group' = [group EXCEPT ![p] = k] /\ Keeps(group[p], k)
         /\ k.stream = group[p].stream /\ k.shown = group[p].shown
         /\ k.waits = group[p].waits \ {w}
      BY RefusedStep
<1>3. /\ k.room = group[p].room /\ k.mem = group[p].mem
      /\ \A v \in k.waits : v.fn = "offer" => v \in group[p].waits
      BY <1>2 DEF Keeps
<1>4. QED
      BY <1>1, <1>2, <1>3, PairsCalm

LEMMA PairsMedia ==
    ASSUME Known, Seats, Byes, Offers, NEW p \in Members, NEW w \in group[p].waits, GotMedia(p, w)
    PROVE  Byes' /\ Offers'
<1>1. w.fn \in {"start", "accept"}
      BY MediaStep
<1>2. PICK k \in GroupState :
         /\ group' = [group EXCEPT ![p] = k] /\ Keeps(group[p], k)
         /\ k.stream /\ k.shown /\ k.waits = group[p].waits \ {w}
         /\ chan' = Post(chan, p, IF w.fn = "start" THEN Broadcast(p, k, "INVITE", rooms[w.room])
                                  ELSE Broadcast(p, k, "JOIN", {}))
      BY MediaStep
<1>3. PICK n \in Nat : n = Len(rooms)
      BY LenProperties DEF Known, Bounds
<1>4. PICK o \in GroupState : o = group[p] /\ Placed(p, o, n, joined)
      BY <1>3 DEF Known
<1>5. w.room \in 1..n
      BY <1>4 DEF Placed
<1>6. rooms[w.room] \in SUBSET Members
      BY <1>3, <1>5, LenProperties, MemberFacts DEF Known, Bounds
<1>7. Placed(p, k, n, joined)
      BY <1>2, <1>4 DEF Placed, Keeps
<1>8. PICK cmd \in {"INVITE", "JOIN", "BYE"} : cmd = IF w.fn = "start" THEN "INVITE" ELSE "JOIN"
      OBVIOUS
<1>9. PICK R \in SUBSET Members : R = IF w.fn = "start" THEN rooms[w.room] ELSE {}
      BY <1>6
<1>10. PICK out \in [Members -> Seq(Frame)] : out = Broadcast(p, k, cmd, R)
       BY <1>7, BroadcastFits
<1>11. chan' = Post(chan, p, out)
       BY <1>2, <1>8, <1>9, <1>10
<1>12. PICK r, D : r = k.room /\ D = Members \ {p}
       OBVIOUS
<1>13. Posts(out, cmd, r, D)
  <2>1. Posts(Broadcast(p, k, cmd, R), cmd, k.room, Members \ {p})
        BY <1>7, BroadcastPosts
  <2>2. QED
        BY <1>10, <1>12, <2>1
<1>14. \A a, b \in Members : \A c, x :
          /\ Has(chan'[a][b], OfRoom(c, x)) =>
                Has(chan[a][b], OfRoom(c, x)) \/ (a = p /\ c = cmd /\ x = r /\ b \in D)
          /\ Has(chan[a][b], OfRoom(c, x)) => Has(chan'[a][b], OfRoom(c, x))
          /\ One(chan[a][b], OfRoom(c, x))
                /\ (a = p /\ c = cmd /\ x = r /\ b \in D => ~Has(chan[a][b], OfRoom(c, x)))
             => One(chan'[a][b], OfRoom(c, x))
       BY <1>11, <1>13, PostedHas
<1>15. \A a, b \in Members : \A c, x : c # cmd =>
          /\ Has(chan'[a][b], OfRoom(c, x)) => Has(chan[a][b], OfRoom(c, x))
          /\ One(chan[a][b], OfRoom(c, x)) => One(chan'[a][b], OfRoom(c, x))
       BY <1>14
<1>16. cmd # "BYE" /\ cmd # "OFFER"
       BY <1>8
<1>17. \A a, b \in Members : \A x :
          /\ Has(chan'[a][b], OfRoom("BYE", x)) => Has(chan[a][b], OfRoom("BYE", x))
          /\ Has(chan'[a][b], OfRoom("OFFER", x)) => Has(chan[a][b], OfRoom("OFFER", x))
          /\ One(chan[a][b], OfRoom("OFFER", x)) => One(chan'[a][b], OfRoom("OFFER", x))
       BY <1>15, <1>16
<1>18. /\ k.room = group[p].room /\ k.mem = group[p].mem
       /\ \A v \in k.waits : v.fn = "offer" => v \in group[p].waits
       BY <1>2 DEF Keeps
<1>19. QED
       BY <1>2, <1>17, <1>18, PairsCalm

LEMMA PairsLose ==
    ASSUME Known, Byes, Offers, NEW p \in Members, NEW q \in Members, Lose(p, q)
    PROVE  Byes' /\ Offers'
<1>1. group' = group /\ chan[q][p] # <<>>
      BY LoseStep
<1>2. PICK ch \in [Members -> [Members -> Seq(Frame)]] :
         /\ chan' = ch /\ ch[q][p] = Tail(chan[q][p])
         /\ \A a, b \in Members : a # q \/ b # p => ch[a][b] = chan[a][b]
      BY LoseStep
<1>3. Taken(p, q, ch)
      BY <1>2 DEF Taken
<1>4. \A a, b \in Members : \A S :
         /\ Has(ch[a][b], S) => Has(chan[a][b], S)
         /\ One(chan[a][b], S) => One(ch[a][b], S)
         /\ One(chan[q][p], S) /\ Head(chan[q][p]) \in S => Has(chan[q][p], S) /\ ~Has(ch[q][p], S)
      BY <1>1, <1>3, TakenHas
<1>5. \A a, b \in Members : \A r :
         /\ Has(chan'[a][b], OfRoom("BYE", r)) => Has(chan[a][b], OfRoom("BYE", r))
         /\ Has(chan'[a][b], OfRoom("OFFER", r)) => Has(chan[a][b], OfRoom("OFFER", r))
         /\ One(chan[a][b], OfRoom("OFFER", r)) => One(chan'[a][b], OfRoom("OFFER", r))
      BY <1>2, <1>4
<1>6. PICK k : k = group[p]
      OBVIOUS
<1>7. /\ group' = [group EXCEPT ![p] = k]
      /\ k.room = group[p].room /\ k.mem = group[p].mem
      /\ \A v \in k.waits : v.fn = "offer" => v \in group[p].waits
      BY <1>1, <1>6 DEF Known
<1>8. QED
      BY <1>5, <1>7, PairsCalm

\* p enters room r, where it never was: nothing in it comes from p.
LEMMA PairsEnter ==
    ASSUME Known, Byes, Offers, NEW p \in Members, NEW k, NEW r \in Rooms, NEW R, NEW fn,
           group' = [group EXCEPT ![p] = k], chan' = chan,
           <<p, r>> \notin joined, Entered(p, k, fn, r, R)
    PROVE  Byes' /\ Offers'
<1>1. /\ group'[p] = k /\ group'[p].room = r
      /\ \A b \in Members : group'[p].mem[b].sig = "none"
      BY DEF Known, Entered
<1>2. \A b \in Members \ {p} : group'[b] = group[b]
      BY DEF Known
<1>3. \A a, b \in Members : \A c : Has(chan[a][b], OfRoom(c, r)) => a # p /\ (c = "OFFER" => b # p)
  <2> SUFFICES ASSUME NEW a \in Members, NEW b \in Members, NEW c, Has(chan[a][b], OfRoom(c, r))
               PROVE  a # p /\ (c = "OFFER" => b # p)
      OBVIOUS
  <2>1. <<a, r>> \in joined /\ (c = "OFFER" => <<b, r>> \in joined)
        BY HasJoined
  <2>2. QED
        BY <2>1
<1>4. Byes'
  <2> SUFFICES ASSUME NEW b \in Members, NEW a \in Members, NEW x \in Rooms,
                      Has(chan[a][b], OfRoom("BYE", x))
               PROVE  group'[a].room # x
      BY DEF Byes
  <2>1. CASE a = p
    <3>1. x = r => a # p
          BY <1>3
    <3>2. QED
          BY <1>1, <2>1, <3>1
  <2>2. CASE a # p
        BY <1>2, <2>2 DEF Byes
  <2>3. QED
        BY <2>1, <2>2
<1>5. ASSUME NEW a \in Members, NEW b \in Members, b < a, group'[a].room # None
      PROVE  Offered(a, b)'
  <2>1. CASE a = p
    <3>1. ~Has(chan'[b][a], OfRoom("OFFER", r)) /\ One(chan'[b][a], OfRoom("OFFER", r))
      <4>1. ~Has(chan'[b][a], OfRoom("OFFER", r))
            BY <1>3, <2>1
      <4>2. QED
            BY <4>1 DEF Has, One
    <3>2. QED
          BY <1>1, <2>1, <3>1 DEF Offered
  <2>2. CASE a # p /\ b = p
    <3>1. group'[a] = group[a]
          BY <1>2, <2>2
    <3>2. Offered(a, b)
          BY <1>5, <3>1 DEF Offers
    <3>3. group[a].room = r => ~Has(chan[b][a], OfRoom("OFFER", r)) /\ group[a].mem[b].sig = "none"
      <4>1. ~Has(chan[b][a], OfRoom("OFFER", r))
            BY <1>3, <2>2
      <4>2. group[a].room = r => group[a].mem[b].sig = "none"
            BY <2>2 DEF Known, Placed
      <4>3. QED
            BY <4>1, <4>2
    <3>4. group'[b].room = r
          BY <1>1, <2>2
    <3>5. QED
          BY <3>1, <3>2, <3>3, <3>4 DEF Offered
  <2>3. CASE a # p /\ b # p
    <3>1. group'[a] = group[a] /\ group'[b] = group[b]
          BY <1>2, <2>3
    <3>2. Offered(a, b)
          BY <1>5, <3>1 DEF Offers
    <3>3. QED
          BY <3>1, <3>2 DEF Offered, Untouched
  <2>4. QED
        BY <2>1, <2>2, <2>3
<1>6. QED
      BY <1>4, <1>5 DEF Offers

LEMMA PairsStart ==
    ASSUME Known, Seats, Byes, Offers, NEW p \in Members, Start(p)
    PROVE  Byes' /\ Offers'
<1>1. PICK k \in GroupState, R \in Rosters, r \in Rooms :
         /\ r = Len(rooms) + 1 /\ rooms' = Append(rooms, R) /\ p \in R
         /\ group[p].room = None
         /\ group' = [group EXCEPT ![p] = k] /\ chan' = chan
         /\ joined' = joined \cup {<<p, r>>} /\ amiss' = amiss
         /\ k.pending = group[p].pending /\ k.roster = group[p].roster
         /\ Entered(p, k, "start", r, R)
      BY StartStep
<1>2. PICK n \in Nat : n = Len(rooms) /\ joined \subseteq Members \X (1..n)
      BY LenProperties DEF Known, Bounds
<1>3. <<p, r>> \notin joined
      BY <1>1, <1>2
<1>4. QED
      BY <1>1, <1>3, PairsEnter

LEMMA PairsAccept ==
    ASSUME Known, Seats, Once, Byes, Offers, NEW p \in Members, AcceptInvite(p),
           group[p].room = None
    PROVE  Byes' /\ Offers'
<1>1. PICK k \in GroupState, R \in SUBSET Members, r \in Rooms :
         /\ r = group[p].pending /\ R = rooms[r] /\ p \in R
         /\ group' = [group EXCEPT ![p] = k] /\ chan' = chan /\ rooms' = rooms
         /\ joined' = joined \cup {<<p, r>>} /\ amiss' = amiss
         /\ k.pending = None
         /\ Entered(p, k, "accept", r, R)
      BY AcceptStep
<1>2. <<p, r>> \notin joined
      BY <1>1 DEF Once
<1>3. QED
      BY <1>1, <1>2, PairsEnter

LEMMA PairsLeave ==
    ASSUME Known, Byes, Offers, NEW p \in Members, Leave(p)
    PROVE  Byes' /\ Offers'
<1>1. chan' = Post(chan, p, Broadcast(p, group[p], "BYE", {}))
      BY LeaveStep
<1>2. PICK k \in GroupState :
         /\ group' = [group EXCEPT ![p] = k]
         /\ k.room = None /\ ~k.stream /\ ~k.shown
         /\ k.pending = group[p].pending /\ k.roster = group[p].roster
         /\ \A q \in Members : k.mem[q] = NoLeg
         /\ \A w \in k.waits : w \in group[p].waits /\ w.peer = None
      BY LeaveStep
<1>3. PICK o \in GroupState : o = group[p] /\ Placed(p, o, Len(rooms), joined)
      BY DEF Known
<1>4. PICK cmd \in {"INVITE", "JOIN", "BYE"} : cmd = "BYE"
      OBVIOUS
<1>5. PICK R \in SUBSET Members : R = {}
      OBVIOUS
<1>6. PICK out \in [Members -> Seq(Frame)] : out = Broadcast(p, o, cmd, R)
      BY <1>3, BroadcastFits
<1>7. PICK r, D : r = o.room /\ D = Members \ {p} /\ Posts(out, cmd, r, D)
      BY <1>3, <1>6, BroadcastPosts
<1>8. chan' = Post(chan, p, out) /\ cmd # "OFFER"
      BY <1>1, <1>3, <1>4, <1>5, <1>6
<1>9. \A a, b \in Members : \A c, x :
         /\ Has(chan'[a][b], OfRoom(c, x)) =>
               Has(chan[a][b], OfRoom(c, x)) \/ (a = p /\ c = cmd /\ x = r /\ b \in D)
         /\ Has(chan[a][b], OfRoom(c, x)) => Has(chan'[a][b], OfRoom(c, x))
         /\ One(chan[a][b], OfRoom(c, x))
               /\ (a = p /\ c = cmd /\ x = r /\ b \in D => ~Has(chan[a][b], OfRoom(c, x)))
            => One(chan'[a][b], OfRoom(c, x))
      BY <1>7, <1>8, PostedHas
<1>10. \A a, b \in Members : \A x :
          /\ Has(chan'[a][b], OfRoom("OFFER", x)) => Has(chan[a][b], OfRoom("OFFER", x))
          /\ One(chan[a][b], OfRoom("OFFER", x)) => One(chan'[a][b], OfRoom("OFFER", x))
          /\ Has(chan'[a][b], OfRoom("BYE", x)) => a = p \/ Has(chan[a][b], OfRoom("BYE", x))
       BY <1>8, <1>9
<1>11. /\ group'[p] = k /\ group'[p].room = None
       /\ \A b \in Members \ {p} : group'[b] = group[b]
       BY <1>2 DEF Known
<1>12. Byes'
  <2> SUFFICES ASSUME NEW b \in Members, NEW a \in Members, NEW x \in Rooms,
                      Has(chan'[a][b], OfRoom("BYE", x))
               PROVE  group'[a].room # x
      BY DEF Byes
  <2>1. CASE a = p
        BY <1>11, <2>1, MemberFacts
  <2>2. CASE a # p
        BY <1>10, <1>11, <2>2 DEF Byes
  <2>3. QED
        BY <2>1, <2>2
<1>13. ASSUME NEW a \in Members, NEW b \in Members, b < a, group'[a].room # None
       PROVE  Offered(a, b)'
  <2>1. a # p /\ group'[a] = group[a] /\ group[a].room # None
        BY <1>11, <1>13
  <2>2. Offered(a, b)
        BY <1>13, <2>1 DEF Offers
  <2>3. PICK x : x = group[a].room
        OBVIOUS
  <2>4. /\ Has(chan'[b][a], OfRoom("OFFER", x)) => Has(chan[b][a], OfRoom("OFFER", x))
        /\ One(chan[b][a], OfRoom("OFFER", x)) => One(chan'[b][a], OfRoom("OFFER", x))
        BY <1>10
  <2>5. /\ group'[b].room = group[b].room \/ group'[b].room = None
        /\ group'[b].room = group'[a].room /\ Untouched(group'[b], a) => Untouched(group[b], a)
    <3>1. CASE b = p
          BY <1>11, <2>1, <3>1
    <3>2. CASE b # p
          BY <1>11, <3>2
    <3>3. QED
          BY <3>1, <3>2
  <2>6. QED
        BY <2>1, <2>2, <2>3, <2>4, <2>5, PairStays
<1>14. QED
       BY <1>12, <1>13 DEF Offers

LEMMA OfferSame ==
    ASSUME NEW v \in Wait, NEW w \in Wait, v.fn = "offer", w.fn = "offer",
           v.room = w.room, v.peer = w.peer
    PROVE  v = w
<1>1. /\ v = [fn |-> "offer", room |-> v.room, peer |-> v.peer]
      /\ w = [fn |-> "offer", room |-> w.room, peer |-> w.peer]
      BY DEF Wait
<1>2. QED
      BY <1>1

\* An offer leaves once: its leg is not untouched again.
LEMMA PairsSdp ==
    ASSUME Known, Byes, Offers, NEW p \in Members, NEW w \in group[p].waits, GotSdp(p, w)
    PROVE  Byes' /\ Offers'
<1>1. /\ w.peer \in Members \ {p} /\ w.room = group[p].room
      /\ group[p].mem[w.peer].sig # "none" /\ (w.fn = "offer" => p < w.peer)
      BY SdpStep
<1>2. PICK k \in GroupState :
         /\ group' = [group EXCEPT ![p] = k]
         /\ k.room = group[p].room /\ k.pending = group[p].pending
         /\ k.roster = group[p].roster /\ k.stream = group[p].stream
         /\ k.shown = group[p].shown /\ k.waits = group[p].waits \ {w}
         /\ \A b \in Members \ {w.peer} : k.mem[b] = group[p].mem[b]
         /\ k.mem[w.peer].sig # "none"
         /\ k.mem[w.peer].known <=> group[p].mem[w.peer].known
         /\ \/ w.fn = "offer" /\ chan' = Post(chan, p, SendTo(w.peer, "OFFER", w.room))
            \/ w.fn = "answer" /\ chan' = Post(chan, p, SendTo(w.peer, "ANSWER", w.room))
      BY SdpStep
<1>3. PICK cmd \in {"JOIN", "OFFER", "ANSWER"} :
         /\ chan' = Post(chan, p, SendTo(w.peer, cmd, w.room))
         /\ cmd # "JOIN" /\ (cmd = "OFFER" => w.fn = "offer")
         /\ (w.fn = "offer" => cmd = "OFFER")
      BY <1>2
<1>4. PICK q \in Members \ {p} : q = w.peer
      BY <1>1
<1>5. PICK r \in Rooms : r = w.room /\ r = group[p].room
      BY <1>1, WaitFacts DEF Known, GroupState
<1>6. PICK out \in [Members -> Seq(Frame)] : out = SendTo(q, cmd, r) /\ Posts(out, cmd, r, {q})
      BY SendPosts
<1>7. PICK D : D = {q} /\ Posts(out, cmd, r, D)
      BY <1>6
<1>8. chan' = Post(chan, p, out)
      BY <1>3, <1>4, <1>5, <1>6
<1>9. \A a, b \in Members : \A c, x :
         /\ Has(chan'[a][b], OfRoom(c, x)) =>
               Has(chan[a][b], OfRoom(c, x)) \/ (a = p /\ c = cmd /\ x = r /\ b \in D)
         /\ Has(chan[a][b], OfRoom(c, x)) => Has(chan'[a][b], OfRoom(c, x))
         /\ One(chan[a][b], OfRoom(c, x))
               /\ (a = p /\ c = cmd /\ x = r /\ b \in D => ~Has(chan[a][b], OfRoom(c, x)))
            => One(chan'[a][b], OfRoom(c, x))
      BY <1>7, <1>8, PostedHas
<1>10. \A a, b \in Members : \A x :
          /\ Has(chan'[a][b], OfRoom("BYE", x)) => Has(chan[a][b], OfRoom("BYE", x))
          /\ a # p \/ b # q \/ x # r \/ w.fn # "offer" =>
                /\ Has(chan'[a][b], OfRoom("OFFER", x)) => Has(chan[a][b], OfRoom("OFFER", x))
                /\ One(chan[a][b], OfRoom("OFFER", x)) => One(chan'[a][b], OfRoom("OFFER", x))
          /\ One(chan[a][b], OfRoom("OFFER", x)) /\ ~Has(chan[a][b], OfRoom("OFFER", x))
                => One(chan'[a][b], OfRoom("OFFER", x))
  <2>1. cmd # "BYE"
        OBVIOUS
  <2>2. \A b : b \in D <=> b = q
        BY <1>7
  <2>3. ASSUME NEW a \in Members, NEW b \in Members, NEW x
        PROVE  /\ Has(chan'[a][b], OfRoom("BYE", x)) => Has(chan[a][b], OfRoom("BYE", x))
               /\ a # p \/ b # q \/ x # r \/ w.fn # "offer" =>
                     /\ Has(chan'[a][b], OfRoom("OFFER", x)) => Has(chan[a][b], OfRoom("OFFER", x))
                     /\ One(chan[a][b], OfRoom("OFFER", x)) => One(chan'[a][b], OfRoom("OFFER", x))
               /\ One(chan[a][b], OfRoom("OFFER", x)) /\ ~Has(chan[a][b], OfRoom("OFFER", x))
                     => One(chan'[a][b], OfRoom("OFFER", x))
    <3>1. Has(chan'[a][b], OfRoom("BYE", x)) => Has(chan[a][b], OfRoom("BYE", x))
          BY <1>9, <2>1
    <3>2. /\ Has(chan'[a][b], OfRoom("OFFER", x)) =>
                Has(chan[a][b], OfRoom("OFFER", x)) \/ (a = p /\ cmd = "OFFER" /\ x = r /\ b \in D)
          /\ One(chan[a][b], OfRoom("OFFER", x))
                /\ (a = p /\ cmd = "OFFER" /\ x = r /\ b \in D => ~Has(chan[a][b], OfRoom("OFFER", x)))
             => One(chan'[a][b], OfRoom("OFFER", x))
          BY <1>9
    <3>3. QED
          BY <1>3, <2>2, <3>1, <3>2
  <2>4. QED
        BY <2>3
<1>11. /\ group'[p] = k
       /\ \A b \in Members \ {p} : group'[b] = group[b]
       BY <1>2 DEF Known
<1>12. \A b \in Members : group'[b].room = group[b].room
  <2> SUFFICES ASSUME NEW b \in Members PROVE group'[b].room = group[b].room
      OBVIOUS
  <2>1. CASE b = p
        BY <1>2, <1>11, <2>1
  <2>2. CASE b # p
        BY <1>11, <2>2
  <2>3. QED
        BY <2>1, <2>2
<1>13. Byes'
       BY <1>10, <1>12 DEF Byes
<1>14. \A b \in Members \ {q} : k.mem[b] = group[p].mem[b]
       BY <1>2, <1>4
<1>15. w.fn # "offer" => (Untouched(k, q) => Untouched(group[p], q))
       BY <1>2, <1>4 DEF Untouched
<1>16. \A b \in Members \ {q} : Untouched(k, b) => Untouched(group[p], b)
       BY <1>2, <1>14 DEF Untouched
<1>17. w.fn = "offer" => Untouched(group[p], q) /\ ~Untouched(k, q)
  <2> SUFFICES ASSUME w.fn = "offer" PROVE Untouched(group[p], q) /\ ~Untouched(k, q)
      OBVIOUS
  <2>1. Untouched(group[p], q)
        BY <1>4 DEF Untouched
  <2>2. \A v \in group[p].waits : v.fn = "offer" /\ v.peer = q => v = w
    <3> SUFFICES ASSUME NEW v \in group[p].waits, v.fn = "offer", v.peer = q PROVE v = w
        OBVIOUS
    <3>1. v \in Wait /\ w \in Wait
          BY DEF Known, GroupState
    <3>2. q # None
          BY MemberFacts
    <3>3. v.room = group[p].room
          BY <3>2 DEF Known, Placed
    <3>4. QED
          BY <1>1, <1>4, <3>1, <3>3, OfferSame
  <2>3. k.mem[q].sig # "none"
        BY <1>2, <1>4
  <2>4. QED
        BY <1>2, <2>1, <2>2, <2>3 DEF Untouched
<1>18. ASSUME NEW a \in Members, NEW b \in Members, b < a, group'[a].room # None
       PROVE  Offered(a, b)'
  <2>1. group[a].room # None /\ Offered(a, b)
        BY <1>12, <1>18 DEF Offers
  <2>2. PICK x : x = group[a].room
        OBVIOUS
  <2>3. group'[a].room = x /\ group'[b].room = group[b].room
        BY <1>12, <2>2
  <2>4. a # b
        BY <1>18, MemberFacts
  <2>5. CASE a = p /\ b = q
    <3>1. group[a].mem[b].sig # "none"
          BY <1>1, <1>4, <2>5
    <3>2. /\ One(chan[b][a], OfRoom("OFFER", x)) /\ ~Has(chan[b][a], OfRoom("OFFER", x))
          /\ ~(group[b].room = x /\ Untouched(group[b], a))
          BY <2>1, <2>2, <3>1 DEF Offered
    <3>3. /\ One(chan'[b][a], OfRoom("OFFER", x)) /\ ~Has(chan'[b][a], OfRoom("OFFER", x))
          BY <1>10, <2>5, <3>2
    <3>4. ~(group'[b].room = x /\ Untouched(group'[b], a))
          BY <1>11, <2>5, <3>2
    <3>5. QED
          BY <2>3, <3>3, <3>4 DEF Offered
  <2>6. CASE a = q /\ b = p /\ w.fn = "offer" /\ x = r
    <3>1. group[b].room = group[a].room /\ Untouched(group[b], a)
          BY <1>5, <1>17, <2>2, <2>6
    <3>2. /\ One(chan[b][a], OfRoom("OFFER", x)) /\ ~Has(chan[b][a], OfRoom("OFFER", x))
          /\ group[a].mem[b].sig = "none"
          BY <2>1, <2>2, <3>1 DEF Offered
    <3>3. One(chan'[b][a], OfRoom("OFFER", x))
          BY <1>10, <3>2
    <3>4. group'[a].mem[b].sig = "none" /\ ~Untouched(group'[b], a)
          BY <1>11, <1>17, <2>6, <3>2
    <3>5. QED
          BY <2>3, <3>3, <3>4 DEF Offered
  <2>7. CASE ~(a = p /\ b = q) /\ ~(a = q /\ b = p /\ w.fn = "offer" /\ x = r)
    <3>1. /\ Has(chan'[b][a], OfRoom("OFFER", x)) => Has(chan[b][a], OfRoom("OFFER", x))
          /\ One(chan[b][a], OfRoom("OFFER", x)) => One(chan'[b][a], OfRoom("OFFER", x))
      <4>1. b # p \/ a # q \/ x # r \/ w.fn # "offer"
            BY <2>7
      <4>2. QED
            BY <1>10, <4>1
    <3>2. group[a].mem[b].sig = "none" => group'[a].mem[b].sig = "none"
      <4>1. CASE a = p
        <5>1. b # q
              BY <2>7, <4>1
        <5>2. QED
              BY <1>11, <1>14, <4>1, <5>1
      <4>2. CASE a # p
            BY <1>11, <4>2
      <4>3. QED
            BY <4>1, <4>2
    <3>3. group'[b].room = group'[a].room /\ Untouched(group'[b], a) => Untouched(group[b], a)
      <4>1. CASE b # p
            BY <1>11, <4>1
      <4>2. CASE b = p /\ a # q
            BY <1>11, <1>16, <4>2
      <4>3. CASE b = p /\ a = q /\ w.fn # "offer"
            BY <1>11, <1>15, <4>3
      <4>4. CASE b = p /\ a = q /\ w.fn = "offer"
            BY <1>11, <1>17, <4>4
      <4>5. QED
            BY <4>1, <4>2, <4>3, <4>4
    <3>4. QED
          BY <2>1, <2>2, <2>3, <3>1, <3>2, <3>3, PairStays
  <2>8. QED
        BY <2>5, <2>6, <2>7
<1>19. QED
       BY <1>13, <1>18 DEF Offers

\* An offer is taken once; a leg is untouched again only after a goodbye.
LEMMA PairsDeliver ==
    ASSUME Known, Seats, Byes, Offers, NEW p \in Members, NEW q \in Members, Deliver(p, q)
    PROVE  Byes' /\ Offers'
<1>1. chan[q][p] # <<>> /\ q \in Members \ {p}
      BY DeliverStep
<1>2. PICK m \in FramesFrom(q, p, joined), k \in GroupState,
           ch \in [Members -> [Members -> Seq(Frame)]], out \in [Members -> Seq(Frame)] :
         Delivered(p, q, m, k, ch, out)
      BY DeliverStep
<1>3. group' = [group EXCEPT ![p] = k] /\ Spares(p, group[p], k, q)
      BY <1>2 DEF Delivered
<1>4. \A a, b \in Members : \A c, x : c # "JOIN" =>
         /\ Has(chan'[a][b], OfRoom(c, x)) => Has(chan[a][b], OfRoom(c, x))
         /\ One(chan[a][b], OfRoom(c, x)) => One(chan'[a][b], OfRoom(c, x))
         /\ One(chan[q][p], OfRoom(c, x)) /\ m \in OfRoom(c, x) =>
               Has(chan[q][p], OfRoom(c, x)) /\ ~Has(chan'[q][p], OfRoom(c, x))
  <2> SUFFICES ASSUME NEW a \in Members, NEW b \in Members, NEW c, NEW x, c # "JOIN"
               PROVE  /\ Has(chan'[a][b], OfRoom(c, x)) => Has(chan[a][b], OfRoom(c, x))
                      /\ One(chan[a][b], OfRoom(c, x)) => One(chan'[a][b], OfRoom(c, x))
                      /\ One(chan[q][p], OfRoom(c, x)) /\ m \in OfRoom(c, x) =>
                            Has(chan[q][p], OfRoom(c, x)) /\ ~Has(chan'[q][p], OfRoom(c, x))
      OBVIOUS
  <2>1. q # p
        BY <1>1
  <2>2. QED
        BY <1>1, <1>2, <2>1, DeliveredHas
<1>5. \A a, b \in Members : \A x :
         /\ Has(chan'[a][b], OfRoom("BYE", x)) => Has(chan[a][b], OfRoom("BYE", x))
         /\ Has(chan'[a][b], OfRoom("OFFER", x)) => Has(chan[a][b], OfRoom("OFFER", x))
         /\ One(chan[a][b], OfRoom("OFFER", x)) => One(chan'[a][b], OfRoom("OFFER", x))
         /\ One(chan[q][p], OfRoom("OFFER", x)) /\ m \in OfRoom("OFFER", x) =>
               Has(chan[q][p], OfRoom("OFFER", x)) /\ ~Has(chan'[q][p], OfRoom("OFFER", x))
      BY <1>4
<1>6. /\ group'[p] = k /\ k.room = group[p].room
      /\ \A b \in Members \ {p} : group'[b] = group[b]
      BY <1>3 DEF Known, Spares
<1>7. \A b \in Members : group'[b].room = group[b].room
  <2> SUFFICES ASSUME NEW b \in Members PROVE group'[b].room = group[b].room
      OBVIOUS
  <2>1. CASE b = p
        BY <1>6, <2>1
  <2>2. CASE b # p
        BY <1>6, <2>2
  <2>3. QED
        BY <2>1, <2>2
<1>8. Byes'
      BY <1>5, <1>7 DEF Byes
<1>9. \A b \in Members \ {q} :
         /\ k.mem[b].sig = group[p].mem[b].sig
         /\ Untouched(k, b) => Untouched(group[p], b)
  <2> SUFFICES ASSUME NEW b \in Members \ {q}
               PROVE  /\ k.mem[b].sig = group[p].mem[b].sig
                      /\ Untouched(k, b) => Untouched(group[p], b)
      OBVIOUS
  <2>1. k.mem[b].sig = group[p].mem[b].sig
        BY <1>3 DEF Spares
  <2>2. \A v \in k.waits : v.peer = b => v \in group[p].waits
        BY <1>3 DEF Spares, GroupState
  <2>3. QED
        BY <2>1, <2>2 DEF Untouched
<1>10. ASSUME p < q, group[p].room # None, Untouched(k, q), group[q].room = group[p].room
       PROVE  Untouched(group[p], q)
  <2> SUFFICES ASSUME m.cmd = "BYE", m.room = group[p].room PROVE FALSE
      BY <1>2, <1>10 DEF Delivered
  <2>1. PICK r \in Rooms : r = group[p].room
        BY <1>10 DEF Known, GroupState
  <2>2. PICK s \in Seq(Frame) : s = chan[q][p]
        BY DEF Known
  <2>3. m \in OfRoom("BYE", r) /\ m = Head(s) /\ s # <<>>
        BY <1>1, <1>2, <2>1, <2>2 DEF OfRoom, FramesFrom, Delivered
  <2>4. Has(chan[q][p], OfRoom("BYE", r))
        BY <2>2, <2>3, TailHas
  <2>5. QED
        BY <1>10, <2>1, <2>4 DEF Byes
<1>11. ASSUME NEW a \in Members, NEW b \in Members, b < a, group'[a].room # None
       PROVE  Offered(a, b)'
  <2>1. group[a].room # None /\ Offered(a, b)
        BY <1>7, <1>11 DEF Offers
  <2>2. PICK x : x = group[a].room
        OBVIOUS
  <2>3. group'[a].room = x /\ group'[b].room = group[b].room
        BY <1>7, <2>2
  <2>4. a # b
        BY <1>11, MemberFacts
  <2>5. /\ Has(chan'[b][a], OfRoom("OFFER", x)) => Has(chan[b][a], OfRoom("OFFER", x))
        /\ One(chan[b][a], OfRoom("OFFER", x)) => One(chan'[b][a], OfRoom("OFFER", x))
        BY <1>5
  <2>6. CASE a = p /\ b = q /\ m \in OfRoom("OFFER", x)
    <3>1. One(chan[q][p], OfRoom("OFFER", x))
          BY <2>1, <2>2, <2>6 DEF Offered
    <3>2. Has(chan[q][p], OfRoom("OFFER", x)) /\ ~Has(chan'[q][p], OfRoom("OFFER", x))
          BY <1>5, <2>6, <3>1
    <3>3. ~(group[b].room = x /\ Untouched(group[b], a))
          BY <2>1, <2>2, <2>6, <3>2 DEF Offered
    <3>4. group'[b] = group[b]
          BY <1>6, <2>4, <2>6
    <3>5. ~Has(chan'[b][a], OfRoom("OFFER", x)) /\ One(chan'[b][a], OfRoom("OFFER", x))
          BY <2>5, <2>6, <3>1, <3>2
    <3>6. QED
          BY <2>3, <3>3, <3>4, <3>5 DEF Offered
  <2>7. CASE ~(a = p /\ b = q /\ m \in OfRoom("OFFER", x))
    <3>1. group[a].mem[b].sig = "none" => group'[a].mem[b].sig = "none"
      <4>1. CASE a = p /\ b # q
            BY <1>6, <1>9, <4>1
      <4>2. CASE a = p /\ b = q
        <5>1. ~(m.cmd = "OFFER" /\ m.room = group[p].room)
              BY <2>2, <2>7, <4>2 DEF OfRoom, FramesFrom
        <5>2. group[p].mem[q].sig = "none" => k.mem[q].sig = "none"
              BY <1>2, <1>11, <4>2, <5>1 DEF Delivered
        <5>3. QED
              BY <1>6, <4>2, <5>2
      <4>3. CASE a # p
            BY <1>6, <4>3
      <4>4. QED
            BY <4>1, <4>2, <4>3
    <3>2. group'[b].room = group'[a].room /\ Untouched(group'[b], a) => Untouched(group[b], a)
      <4>1. CASE b # p
            BY <1>6, <4>1
      <4>2. CASE b = p /\ a # q
            BY <1>6, <1>9, <4>2
      <4>3. CASE b = p /\ a = q
        <5>1. group'[p] = k /\ p < q
              BY <1>6, <1>11, <4>3
        <5>2. QED
              BY <1>7, <1>10, <2>1, <4>3, <5>1
      <4>4. QED
            BY <4>1, <4>2, <4>3
    <3>3. QED
          BY <2>1, <2>2, <2>3, <2>5, <3>1, <3>2, PairStays
  <2>8. QED
        BY <2>6, <2>7
<1>12. QED
       BY <1>8, <1>11 DEF Offers

LEMMA PairsStep ==
    ASSUME Known, Seats, Once, Byes, Offers, GroupNext
    PROVE  Byes' /\ Offers'
<1>1. PICK p \in Members :
         \/ Start(p) \/ AcceptInvite(p) \/ RejectInvite(p)
         \/ Leave(p) \/ CloseWindow(p)
         \/ \E w \in group[p].waits : GotMedia(p, w) \/ GotSdp(p, w) \/ MediaRefused(p, w)
         \/ \E q \in Members : Deliver(p, q) \/ Lose(p, q)
      BY DEF GroupNext, Resume
<1>2. CASE Start(p)
      BY <1>2, PairsStart
<1>3. CASE AcceptInvite(p) \/ RejectInvite(p)
  <2>1. CASE AcceptInvite(p) /\ group[p].room = None
        BY <2>1, PairsAccept
  <2>2. CASE Dismiss(p)
        BY <2>2, PairsDismiss
  <2>3. QED
        BY <1>3, <2>1, <2>2 DEF Dismiss
<1>4. CASE Leave(p) \/ CloseWindow(p)
      BY <1>4, PairsLeave, PairsClose
<1>5. CASE \E w \in group[p].waits : GotMedia(p, w) \/ GotSdp(p, w) \/ MediaRefused(p, w)
      BY <1>5, PairsMedia, PairsSdp, PairsRefused
<1>6. CASE \E q \in Members : Deliver(p, q) \/ Lose(p, q)
      BY <1>6, PairsDeliver, PairsLose
<1>7. QED
      BY <1>1, <1>2, <1>3, <1>4, <1>5, <1>6

LEMMA PairsInit == GroupInit => Byes /\ Offers
<1> SUFFICES ASSUME GroupInit PROVE Byes /\ Offers
    OBVIOUS
<1>1. \A a, b \in Members : \A S : ~Has(chan[a][b], S)
      BY NothingSent
<1>2. \A b \in Members : group[b].room = None
      BY DEF GroupInit, Idle
<1>3. QED
      BY <1>1, <1>2 DEF Byes, Offers

LEMMA NobodyGlares ==
    ASSUME Known, Offers, NEW p \in Members, NEW q \in Members, NEW i \in 1..Len(chan[q][p]),
           chan[q][p][i].cmd = "OFFER", InRoom(group[p], q, chan[q][p][i])
    PROVE  group[p].mem[q].sig = "none"
<1>1. PICK s \in Seq(FramesFrom(q, p, joined)) : s = chan[q][p]
      BY DEF Known
<1>2. s[i] \in FramesFrom(q, p, joined) /\ i \in DOMAIN s
      BY <1>1, LenProperties
<1>3. /\ q < p /\ group[p].room # None
      /\ s[i] \in OfRoom("OFFER", group[p].room)
      BY <1>1, <1>2 DEF FramesFrom, InRoom, OfRoom
<1>4. Has(chan[q][p], OfRoom("OFFER", group[p].room))
      BY <1>1, <1>2, <1>3 DEF Has
<1>5. Offered(p, q)
      BY <1>3 DEF Offers
<1>6. QED
      BY <1>4, <1>5 DEF Offered

(* The glare rule (group_call.js, _connectTo): as long as nobody left      *)
(* while its camera was being opened, an offer that will be taken finds a  *)
(* leg nothing was done to yet, whichever JOINs and echoes crossed.        *)
THEOREM OneOfferPerPair == GroupSpec => []NoGlare
<1> DEFINE IInv == Known /\ ("early" \notin amiss => Seats /\ Once /\ Byes /\ Offers)
<1>1. IInv => NoGlare
  <2> SUFFICES ASSUME Known, "early" \notin amiss, Offers,
                      NEW p \in Members, NEW q \in Members, NEW i \in 1..Len(chan[q][p]),
                      chan[q][p][i].cmd = "OFFER", InRoom(group[p], q, chan[q][p][i])
               PROVE  group[p].mem[q].sig = "none"
      BY DEF NoGlare
  <2>1. QED
        BY NobodyGlares
<1>2. GroupInit => IInv
      BY KnownInit, SeatsInit, OnceInit, PairsInit
<1>3. IInv /\ [GroupNext]_groupVars => IInv'
  <2> SUFFICES ASSUME IInv, [GroupNext]_groupVars PROVE IInv'
      OBVIOUS
  <2>1. Known'
        BY KnownStep
  <2>2. CASE UNCHANGED groupVars
    <3>1. /\ group' = group /\ chan' = chan /\ rooms' = rooms
          /\ joined' = joined /\ amiss' = amiss
          BY <2>2 DEF groupVars
    <3>2. Seats => Seats'
          BY <3>1 DEF Seats
    <3>3. Once => Once'
          BY <3>1 DEF Once, Invited, Untold
    <3>4. Byes /\ Offers => Byes' /\ Offers'
          BY <3>1 DEF Byes, Offers, Offered
    <3>5. QED
          BY <2>1, <3>1, <3>2, <3>3, <3>4
  <2>3. CASE GroupNext
    <3>1. "early" \notin amiss' => "early" \notin amiss
          BY <2>3, AmissGrows
    <3>2. ASSUME "early" \notin amiss' PROVE Seats' /\ Once' /\ Byes' /\ Offers'
      <4>1. Seats /\ Once /\ Byes /\ Offers
            BY <3>1, <3>2
      <4>2. Seats'
            BY <2>3, <3>2, <4>1, SeatsStep
      <4>3. Once'
            BY <2>3, <4>1, OnceStep
      <4>4. Byes' /\ Offers'
            BY <2>3, <4>1, PairsStep
      <4>5. QED
            BY <4>2, <4>3, <4>4
    <3>3. QED
          BY <2>1, <3>2
  <2>4. QED
        BY <2>2, <2>3
<1> HIDE DEF IInv
<1>4. QED
      BY <1>1, <1>2, <1>3, PTL DEF GroupSpec
=============================================================================
