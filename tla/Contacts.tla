------------------------------- MODULE Contacts -------------------------------
(***************************************************************************)
(* The contacts of web/app.js: the list in memory (peerBook) and its copy  *)
(* in localStorage, the keys the WASM session has, the block list, and     *)
(* what deleting or blocking a contact does to its chat.  Peers introduce  *)
(* themselves, write, send files and join group calls while a deletion     *)
(* awaits the storage; the page may be reloaded at any moment.             *)
(*                                                                         *)
(* Out: labels, types, presence, open chats (module Chat), and texts that  *)
(* this page sends (module Delivery).                                      *)
(***************************************************************************)
EXTENDS Naturals, Sequences, FiniteSets, SequencesExt

CONSTANTS
    Peer,
    MaxTexts,   \* bound: texts and files ever received
    MaxTasks    \* bound: functions that await the storage at once

ASSUME ContactsAssumption == MaxTexts \in Nat /\ MaxTasks \in Nat

VARIABLES
    peerBook,   \* contacts that are listed
    keys,       \* peers the WASM session can decrypt and encrypt for
    saved,      \* contacts in localStorage
    blacklist,  \* blocked peers, in memory and in localStorage
    store,      \* texts and files of each chat
    unread,     \* peers with a badge
    offered,    \* peers with a file that was offered and has not ended, in the storage
    restoring,  \* a backup was restored, and the page is about to reload
    tasks,      \* functions that await the storage
    \* history and bounds
    texts,      \* texts and files received so far
    relisted,   \* contacts listed again while their deletion awaited the storage
    excused     \* blocked peers the user listed again, whose block a reload cut
                \* short, whose text was being saved when the chat was wiped, or
                \* whose file ended after the block

lists == <<peerBook, keys, saved, blacklist>>
vars  == <<lists, store, unread, offered, restoring, tasks, texts, relisted, excused>>

Text == 1..MaxTexts

Task ==
    [fn : {"delete", "ban"}, peer : Peer, read : BOOLEAN, rows : SUBSET Text]
    \cup [fn : {"saveIncoming"}, peer : Peer, text : Text]

TypeOK ==
    /\ peerBook \in SUBSET Peer /\ keys \in SUBSET Peer /\ saved \in SUBSET Peer
    /\ blacklist \in SUBSET Peer
    /\ store \in [Peer -> SUBSET Text] /\ unread \in SUBSET Peer /\ offered \in SUBSET Peer
    /\ restoring \in BOOLEAN /\ tasks \in Seq(Task)
    /\ texts \in 0..MaxTexts /\ relisted \in SUBSET Peer /\ excused \in SUBSET Peer

Init ==
    /\ peerBook = {} /\ keys = {} /\ saved = {} /\ blacklist = {}
    /\ store = [p \in Peer |-> {}] /\ unread = {} /\ offered = {}
    /\ restoring = FALSE /\ tasks = <<>>
    /\ texts = 0 /\ relisted = {} /\ excused = {}

-----------------------------------------------------------------------------
(* Helpers *)

Begin(t) == Len(tasks) < MaxTasks /\ tasks' = Append(tasks, t)

Running(fn, p) == \E i \in DOMAIN tasks : tasks[i].fn = fn /\ tasks[i].peer = p

persist == saved' = peerBook'

\* Keys and an entry for p: the list is saved.
List(p) ==
    /\ keys' = keys \cup {p} /\ peerBook' = peerBook \cup {p}
    /\ persist
    /\ relisted' = (relisted \ {p}) \cup {q \in {p} : Running("delete", q)}

-----------------------------------------------------------------------------
(* Coming onto the list *)

\* The dialog does not ask whether the peer is blocked.
Add(p) ==
    /\ List(p)
    /\ excused' = excused \cup ({p} \cap blacklist)
    /\ UNCHANGED <<blacklist, store, unread, offered, restoring, tasks, texts>>

\* INTRO_FROM: the keys are taken before the block list is consulted.
IntroFrom_OfAnybody(p) ==
    /\ List(p)
    /\ UNCHANGED <<blacklist, store, unread, offered, restoring, tasks, texts, excused>>

IntroFrom(p) ==
    /\ \/ p \notin blacklist /\ List(p)
       \/ /\ p \in blacklist
          /\ keys' = keys \cup {p}
          /\ UNCHANGED <<peerBook, saved, relisted>>
    /\ UNCHANGED <<blacklist, store, unread, offered, restoring, tasks, texts, excused>>

\* A group call takes the keys of its members, and lists nobody.
RosterMember(p) ==
    /\ keys' = keys \cup {p}
    /\ UNCHANGED <<peerBook, saved, blacklist, store, unread, offered, restoring, tasks, texts,
                   relisted, excused>>

-----------------------------------------------------------------------------
(* Deleting and blocking: what comes after clearHistory is FinishDelete and *)
(* FinishBan.                                                              *)

Wipe(fn, p) == [fn |-> fn, peer |-> p, read |-> FALSE, rows |-> {}]

\* The dialog stays until the wipe is done, and can be confirmed once more.
DeleteContact(p) ==
    /\ p \in peerBook \/ Running("delete", p)
    /\ peerBook' = peerBook \ {p} /\ persist
    /\ unread' = unread \ {p}
    /\ Begin(Wipe("delete", p))
    /\ UNCHANGED <<keys, blacklist, store, offered, restoring, texts, relisted, excused>>

BanContact(p) ==
    /\ p \in peerBook
    /\ blacklist' = blacklist \cup {p}
    /\ Begin(Wipe("ban", p))
    /\ excused' = excused \ {p}
    /\ UNCHANGED <<peerBook, keys, saved, store, unread, offered, restoring, texts, relisted>>

\* clearHistory lists the rows first ...
ClearRead(i) ==
    LET p == tasks[i].peer IN
    /\ tasks[i].fn \in {"delete", "ban"} /\ ~tasks[i].read
    /\ tasks' = [tasks EXCEPT ![i].read = TRUE, ![i].rows = store[p]]
    /\ excused' = excused \cup {q \in {p} \cap blacklist : Running("saveIncoming", q)}
    /\ UNCHANGED <<lists, store, unread, offered, restoring, texts, relisted>>

\* ... and then deletes those, one transaction each.
ClearRow(i) ==
    /\ tasks[i].fn \in {"delete", "ban"}
    /\ \E m \in tasks[i].rows :
          /\ store' = [store EXCEPT ![tasks[i].peer] = @ \ {m}]
          /\ tasks' = [tasks EXCEPT ![i].rows = @ \ {m}]
    /\ UNCHANGED <<lists, unread, offered, restoring, texts, relisted, excused>>

Wiped(i) == tasks[i].read /\ tasks[i].rows = {}

FinishDelete(i) ==
    LET p == tasks[i].peer IN
    /\ tasks[i].fn = "delete" /\ Wiped(i)
    /\ keys' = keys \ {p}
    /\ tasks' = RemoveAt(tasks, i)
    /\ UNCHANGED <<peerBook, saved, blacklist, store, unread, offered, restoring, texts,
                   relisted, excused>>

FinishBan(i) ==
    LET p == tasks[i].peer IN
    /\ tasks[i].fn = "ban" /\ Wiped(i)
    /\ unread' = unread \ {p}
    /\ peerBook' = peerBook \ {p} /\ persist
    /\ keys' = keys \ {p}
    /\ tasks' = RemoveAt(tasks, i)
    /\ UNCHANGED <<blacklist, store, offered, restoring, texts, relisted, excused>>

UnbanContact(p) ==
    /\ p \in blacklist
    /\ blacklist' = blacklist \ {p}
    /\ List(p)
    /\ excused' = excused \ {p}
    /\ UNCHANGED <<store, unread, offered, restoring, tasks, texts>>

-----------------------------------------------------------------------------
(* Texts and files, of chats that are not open *)

OnText(p) ==
    /\ p \in keys /\ p \notin blacklist
    /\ texts < MaxTexts /\ texts' = texts + 1
    /\ Begin([fn |-> "saveIncoming", peer |-> p, text |-> texts + 1])
    /\ UNCHANGED <<lists, store, unread, offered, restoring, relisted, excused>>

\* The offer asks whether the peer is blocked ...
OnFileOffer(p) ==
    /\ p \in keys /\ p \notin blacklist
    /\ offered' = offered \cup {p}
    /\ UNCHANGED <<lists, store, unread, restoring, tasks, texts, relisted, excused>>

\* ... and the end, of an offer that may be of an earlier session, does not.
OnFileEnd(p) ==
    /\ p \in keys /\ p \in offered
    /\ texts < MaxTexts /\ texts' = texts + 1
    /\ offered' \in {offered, offered \ {p}}
    /\ Begin([fn |-> "saveIncoming", peer |-> p, text |-> texts + 1])
    /\ excused' = excused \cup ({p} \cap blacklist)
    /\ UNCHANGED <<lists, store, unread, restoring, relisted>>

SaveDone(i) ==
    /\ tasks[i].fn = "saveIncoming"
    /\ store' = [store EXCEPT ![tasks[i].peer] = @ \cup {tasks[i].text}]
    /\ unread' = unread \cup {tasks[i].peer}
    /\ tasks' = RemoveAt(tasks, i)
    /\ UNCHANGED <<lists, offered, restoring, texts, relisted, excused>>

-----------------------------------------------------------------------------
(* Backup, reload *)

\* applyAccountInner: the contacts of the backup are saved, and the page goes
\* on with those it has until it reloads.
ApplyAccount(S) ==
    /\ ~restoring
    /\ saved' = S /\ restoring' = TRUE
    /\ excused' = excused \cup (S \cap blacklist)
    /\ UNCHANGED <<peerBook, keys, blacklist, store, unread, offered, tasks, texts, relisted>>

Reload_Keyless ==
    /\ peerBook' = saved /\ keys' = {}
    /\ relisted' = {}
    /\ tasks' = <<>> /\ restoring' = FALSE
    /\ excused' = excused \cup {p \in blacklist : Running("ban", p)}
    /\ UNCHANGED <<saved, blacklist, store, unread, offered, texts>>

Reload ==
    /\ peerBook' = saved /\ keys' = saved
    /\ relisted' = {}
    /\ tasks' = <<>> /\ restoring' = FALSE
    /\ excused' = excused \cup {p \in blacklist : Running("ban", p)}
    /\ UNCHANGED <<saved, blacklist, store, unread, offered, texts>>

-----------------------------------------------------------------------------
Next ==
    \/ \E p \in Peer :
          \/ Add(p) \/ IntroFrom(p) \/ RosterMember(p)
          \/ DeleteContact(p) \/ BanContact(p) \/ UnbanContact(p)
          \/ OnText(p) \/ OnFileOffer(p) \/ OnFileEnd(p)
    \/ \E i \in DOMAIN tasks :
          ClearRead(i) \/ ClearRow(i) \/ FinishDelete(i) \/ FinishBan(i) \/ SaveDone(i)
    \/ \E S \in SUBSET Peer : ApplyAccount(S)
    \/ Reload

Spec == Init /\ [][Next]_vars

-----------------------------------------------------------------------------
(* Properties *)

(* What can be written to (web/app.js, peerBook and client.addPeer): every *)
(* contact on the list has its keys in the session, whatever deletions,    *)
(* blocks, introductions and reloads overlap.  The one exception is a      *)
(* contact listed again while its deletion awaited the storage: removePeer *)
(* comes after (app.js:540), and nothing puts the keys back until the      *)
(* contact is listed once more or the page is reloaded.                    *)
KeysForContacts == peerBook \ keys \subseteq relisted

(* A reload shows the list the page had, unless a backup was restored: no  *)
(* change of the list forgets to save it (web/app.js, persist).            *)
SavedIsBook == restoring \/ saved = peerBook

(* Once the block of a peer is through, it is off the list, nothing of its *)
(* chat is left, no badge either, and its introductions, texts and offers  *)
(* bring none of it back.  The exceptions, in excused, are what the user   *)
(* undoes, a wipe that a reload cuts short, a text on its way into the     *)
(* chat when that is wiped, and a file offered before the block that ends  *)
(* after it: onFileEnd (app.js:1565-1620) does not ask.                    *)
BanHolds ==
    \A p \in blacklist \ excused :
        Running("ban", p) \/ (p \notin peerBook /\ store[p] = {} /\ p \notin unread)
=============================================================================
