---------------------------- MODULE FileTransfer ----------------------------
(***************************************************************************)
(* Sending files: sendFile, replayFileSend and flushOutboxFor of           *)
(* web/app.js on the sender's side, onFileOffer, onFileChunk and onFileEnd *)
(* on the side of each of its contacts.  A file is an OFFER, its chunks    *)
(* and an END, sent by a function that waits for the socket's buffer       *)
(* before every chunk, so several such functions, of one file even, may    *)
(* be under way at once.                                                   *)
(*                                                                         *)
(* Abstracted: thumbnails, deleting (module Delivery), and the reading     *)
(* half of a read-and-write-back, which Delivery has as a step of its own. *)
(* IndexedDB runs the transactions on one table in the order they are made *)
(* in, so the offer's row is there for whatever comes after the offer.     *)
(***************************************************************************)
EXTENDS Naturals, Sequences, FiniteSets

CONSTANTS
    File,       \* files the user sends
    Peer,       \* the user's contacts
    Ephemeral,  \* contacts that do not save their chats
    Task,       \* sending functions under way at once
    Chunks,     \* chunks of a file
    None,
    MaxFaults   \* bound: connections lost, pages reloaded

ASSUME FileAssumption ==
    /\ None \notin Peer \cup File
    /\ Ephemeral \subseteq Peer
    /\ Chunks \in Nat \ {0} /\ MaxFaults \in Nat

VARIABLES
    row,        \* the contact in a file's message row
    status,     \* the status in it, "none" without a row
    outbox,
    job,        \* Task -> a sendFile or flushOutboxFor under way
    senderUp,
    up,         \* contacts that are connected
    due,        \* contacts whose PEER_ONLINE is on its way
    chan,       \* frames on their way to a contact
    acks,       \* DELIVERY_ACKs on their way: <<contact, file>>
    inbox,      \* Peer -> what a contact has of the files
    meant,      \* history: the contact a file was sent to
    queued,     \* history: files that reached the outbox
    crossed,    \* history: two functions were sending one file at once
    faults

local   == <<row, status, outbox>>
network == <<senderUp, up, due>>
history == <<meant, queued>>
vars    == <<local, job, network, chan, acks, inbox, history, crossed, faults>>

Index  == 0..(Chunks - 1)
Frame  == [cmd : {"OFFER", "CHUNK", "END"}, file : File, idx : Index]
Job    == [at : {"idle", "prepare", "queue", "next", "chunk", "mark"},
           file : File \cup {None}, to : Peer \cup {None}, idx : Index, rest : SUBSET File]
NoJob  == [at |-> "idle", file |-> None, to |-> None, idx |-> 0, rest |-> {}]
Inbox  == [chunks : [File -> (SUBSET Index) \cup {None}], meta : SUBSET File,
           blob : [File -> {"none", "empty", "whole"}],
           saving : SUBSET (File \X {"blob", "message"}),
           stored : SUBSET File, whole : SUBSET File]

TypeOK ==
    /\ row \in [File -> Peer \cup {None}]
    /\ status \in [File -> {"none", "pending", "sent", "delivered"}]
    /\ outbox \in SUBSET File
    /\ job \in [Task -> Job]
    /\ senderUp \in BOOLEAN /\ up \in SUBSET Peer /\ due \in SUBSET Peer
    /\ chan \in [Peer -> Seq(Frame)]
    /\ acks \in SUBSET (Peer \X File)
    /\ inbox \in [Peer -> Inbox]
    /\ meant \in [File -> Peer \cup {None}]
    /\ queued \in SUBSET File
    /\ crossed \in BOOLEAN
    /\ faults \in 0..MaxFaults

Init ==
    /\ row = [f \in File |-> None] /\ status = [f \in File |-> "none"] /\ outbox = {}
    /\ job = [k \in Task |-> NoJob]
    /\ senderUp = FALSE /\ up = {} /\ due = {}
    /\ chan = [p \in Peer |-> <<>>] /\ acks = {}
    /\ inbox = [p \in Peer |->
          [chunks |-> [f \in File |-> None], meta |-> {}, blob |-> [f \in File |-> "none"],
           saving |-> {}, stored |-> {}, whole |-> {}]]
    /\ meant = [f \in File |-> None] /\ queued = {}
    /\ crossed = FALSE /\ faults = 0

-----------------------------------------------------------------------------
(* The sender *)

Do(k, j) == job' = [job EXCEPT ![k] = j]

Post(p, frames) ==
    chan' = IF p \in up THEN [chan EXCEPT ![p] = @ \o frames] ELSE chan

Offer(f)    == [cmd |-> "OFFER", file |-> f, idx |-> 0]
Chunk(f, i) == [cmd |-> "CHUNK", file |-> f, idx |-> i]
End(f)      == [cmd |-> "END", file |-> f, idx |-> 0]

\* sendFile in the chat with p, up to its first await.
SendFile(k, p, f) ==
    /\ job[k].at = "idle" /\ meant[f] = None
    /\ meant' = [meant EXCEPT ![f] = p]
    /\ Do(k, [NoJob EXCEPT !.at = "prepare", !.file = f, !.to = p])
    /\ UNCHANGED <<local, network, chan, acks, inbox, queued, crossed, faults>>

\* The file is read and saved.  Its row takes the chat that is open by now,
\* current, which may be another one, or none.
AddMessage(k, current) ==
    /\ job[k].at = "prepare"
    /\ row' = [row EXCEPT ![job[k].file] = current]
    /\ status' = [status EXCEPT ![job[k].file] = "pending"]
    /\ Do(k, [job[k] EXCEPT !.at = "queue"])
    /\ UNCHANGED <<outbox, network, chan, acks, inbox, history, crossed, faults>>

AddOutbox(k) ==
    /\ job[k].at = "queue"
    /\ outbox' = outbox \cup {job[k].file}
    /\ queued' = queued \cup {job[k].file}
    /\ Do(k, [job[k] EXCEPT !.at = "next", !.file = None, !.rest = {job[k].file}])
    /\ UNCHANGED <<row, status, network, chan, acks, inbox, meant, crossed, faults>>

\* PEER_ONLINE: flushOutboxFor, up to the list it works off.
Pending_NotSentYet(p) == {f \in outbox : row[f] = p /\ status[f] = "pending"}

Pending(p) == {f \in outbox : row[f] = p}

PeerOnline(k, p) ==
    /\ p \in due /\ senderUp /\ job[k].at = "idle"
    /\ due' = due \ {p}
    /\ IF Pending(p) = {} THEN UNCHANGED job
       ELSE Do(k, [NoJob EXCEPT !.at = "next", !.to = p, !.rest = Pending(p)])
    /\ UNCHANGED <<local, senderUp, up, chan, acks, inbox, history, crossed, faults>>

\* The next file's OFFER.  Without a socket both functions end: sendFile at
\* the first chunk, flushOutboxFor by counting an attempt.
SendOffer(k, f) ==
    /\ job[k].at = "next" /\ f \in job[k].rest
    /\ IF senderUp
         THEN /\ Post(job[k].to, <<Offer(f)>>)
              /\ Do(k, [job[k] EXCEPT !.at = "chunk", !.file = f, !.idx = 0, !.rest = @ \ {f}])
              /\ crossed' = (crossed \/ \E l \in Task \ {k} : job[l].file = f)
         ELSE Do(k, NoJob) /\ UNCHANGED <<chan, crossed>>
    /\ UNCHANGED <<local, network, acks, inbox, history, faults>>

SendChunk_OneMore(k) ==
    /\ job[k].at = "chunk"
    /\ LET f == job[k].file  i == job[k].idx IN
       IF ~senderUp THEN Do(k, NoJob) /\ UNCHANGED chan
       ELSE IF i < Chunks
         THEN Post(job[k].to, <<Chunk(f, i)>>) /\ Do(k, [job[k] EXCEPT !.idx = i + 1])
         ELSE Post(job[k].to, <<Chunk(f, i), End(f)>>) /\ Do(k, [job[k] EXCEPT !.at = "mark"])
    /\ UNCHANGED <<local, network, acks, inbox, history, crossed, faults>>

\* One chunk, once the socket's buffer has room; the last one takes the END
\* with it.
SendChunk(k) ==
    /\ job[k].at = "chunk"
    /\ LET f == job[k].file  i == job[k].idx IN
       IF ~senderUp THEN Do(k, NoJob) /\ UNCHANGED chan
       ELSE IF i + 1 < Chunks
         THEN Post(job[k].to, <<Chunk(f, i)>>) /\ Do(k, [job[k] EXCEPT !.idx = i + 1])
         ELSE Post(job[k].to, <<Chunk(f, i), End(f)>>) /\ Do(k, [job[k] EXCEPT !.at = "mark"])
    /\ UNCHANGED <<local, network, acks, inbox, history, crossed, faults>>

MarkSent(k) ==
    /\ job[k].at = "mark"
    /\ status' = [status EXCEPT ![job[k].file] = "sent"]
    /\ Do(k, IF job[k].rest = {} THEN NoJob
             ELSE [job[k] EXCEPT !.at = "next", !.file = None, !.idx = 0])
    /\ UNCHANGED <<row, outbox, network, chan, acks, inbox, history, crossed, faults>>

\* onDelivered: the acknowledgement names the message, whoever sends it.
OnDelivered(p, f) ==
    /\ <<p, f>> \in acks /\ senderUp
    /\ acks' = acks \ {<<p, f>>}
    /\ status' = [status EXCEPT ![f] = "delivered"]
    /\ outbox' = outbox \ {f}
    /\ UNCHANGED <<row, job, network, chan, inbox, history, crossed, faults>>

-----------------------------------------------------------------------------
(* A contact: operators from what it has, b, to what it has then. *)

OnFileOffer(b, p, f) ==
    [b EXCEPT !.chunks[f] = IF @ = None THEN {} ELSE @,
              !.meta      = @ \cup {f},
              !.blob[f]   = IF p \in Ephemeral THEN @ ELSE "empty"]

OnFileChunk(b, f, i) ==
    [b EXCEPT !.chunks[f] = IF @ = None THEN {i} ELSE @ \cup {i}]

Complete_GapsClosed(b, f) == b.chunks[f] # {}

Complete(b, f) == b.chunks[f] = Index

OnFileEnd(b, p, f) ==
    IF b.chunks[f] = None \/ (f \notin b.meta /\ b.blob[f] = "none") THEN b
    ELSE IF ~Complete(b, f)
      THEN [b EXCEPT !.chunks[f] = None, !.meta = @ \ {f}]
    ELSE LET c == [b EXCEPT !.chunks[f] = None,
                            !.whole = IF b.chunks[f] = Index THEN @ \cup {f} ELSE @]
         IN IF p \in Ephemeral
              THEN [c EXCEPT !.meta = @ \ {f}, !.stored = @ \cup {f}]
              ELSE [c EXCEPT !.saving = @ \cup {<<f, "blob">>}]

Receive(b, p, frame) ==
    CASE frame.cmd = "OFFER" -> OnFileOffer(b, p, frame.file)
      [] frame.cmd = "CHUNK" -> OnFileChunk(b, frame.file, frame.idx)
      [] frame.cmd = "END"   -> OnFileEnd(b, p, frame.file)

SendAck(p, f) == acks' = IF p \in up /\ senderUp THEN acks \cup {<<p, f>>} ELSE acks

\* A frame arrives; a contact that saves nothing acknowledges at once.
OnFrame(p) ==
    /\ chan[p] # <<>>
    /\ LET frame == Head(chan[p])
           b     == Receive(inbox[p], p, frame)
       IN /\ inbox' = [inbox EXCEPT ![p] = b]
          /\ IF p \in Ephemeral /\ frame.cmd = "END" /\ b # inbox[p] /\ frame.file \in b.stored
               THEN SendAck(p, frame.file)
               ELSE UNCHANGED acks
    /\ chan' = [chan EXCEPT ![p] = Tail(@)]
    /\ UNCHANGED <<local, job, network, history, crossed, faults>>

\* The end of saveFileBlob: the row that was read is written back, with the file.
SaveBlob(p, f) ==
    /\ <<f, "blob">> \in inbox[p].saving
    /\ inbox' = [inbox EXCEPT
          ![p].saving = (@ \ {<<f, "blob">>}) \cup {<<f, "message">>},
          ![p].blob[f] = "whole"]
    /\ UNCHANGED <<local, job, network, chan, acks, history, crossed, faults>>

\* saveIncoming, and the acknowledgement.
SaveMessage(p, f) ==
    /\ <<f, "message">> \in inbox[p].saving
    /\ inbox' = [inbox EXCEPT
          ![p].saving = @ \ {<<f, "message">>},
          ![p].meta   = @ \ {f},
          ![p].stored = @ \cup {f}]
    /\ SendAck(p, f)
    /\ UNCHANGED <<local, job, network, chan, history, crossed, faults>>

-----------------------------------------------------------------------------
(* Connections and reloads *)

Connect ==
    /\ ~senderUp /\ senderUp' = TRUE /\ due' = up
    /\ UNCHANGED <<local, job, up, chan, acks, inbox, history, crossed, faults>>

PeerConnects(p) ==
    /\ p \notin up /\ up' = up \cup {p}
    /\ due' = IF senderUp THEN due \cup {p} ELSE due
    /\ UNCHANGED <<local, job, senderUp, chan, acks, inbox, history, crossed, faults>>

Fault == faults < MaxFaults /\ faults' = faults + 1

\* What the relay has not yet passed on is lost.
Cut ==
    /\ senderUp' = FALSE /\ due' = {} /\ acks' = {}
    /\ \E kept \in [Peer -> 0..1] :
          chan' = [p \in Peer |-> IF kept[p] = 1 THEN chan[p] ELSE <<>>]

Disconnect ==
    /\ senderUp /\ Fault /\ Cut
    /\ UNCHANGED <<local, job, up, inbox, history, crossed>>

Reload ==
    /\ Fault /\ Cut
    /\ job' = [k \in Task |-> NoJob]
    /\ UNCHANGED <<local, up, inbox, history, crossed>>

PeerDisconnects(p) ==
    /\ p \in up /\ Fault
    /\ up' = up \ {p} /\ chan' = [chan EXCEPT ![p] = <<>>]
    /\ UNCHANGED <<local, job, senderUp, due, acks, inbox, history, crossed>>

\* Chunks, metadata kept in memory and functions under way are gone.  What a
\* contact that saves nothing was shown is history, in stored.
PeerReloads(p) ==
    /\ p \in up /\ Fault
    /\ up' = up \ {p} /\ chan' = [chan EXCEPT ![p] = <<>>]
    /\ inbox' = [inbox EXCEPT ![p].chunks = [f \in File |-> None], ![p].meta = {}, ![p].saving = {}]
    /\ UNCHANGED <<local, job, senderUp, due, acks, history, crossed>>

-----------------------------------------------------------------------------
Progress ==
    \/ \E k \in Task :
          \/ AddOutbox(k) \/ SendChunk(k) \/ MarkSent(k)
          \/ \E p \in Peer \cup {None} : AddMessage(k, p)
          \/ \E f \in File : SendOffer(k, f)
          \/ \E p \in Peer : PeerOnline(k, p)
    \/ \E p \in Peer :
          \/ OnFrame(p) \/ PeerConnects(p)
          \/ \E f \in File : OnDelivered(p, f) \/ SaveBlob(p, f) \/ SaveMessage(p, f)
    \/ Connect

Next ==
    \/ Progress
    \/ \E p \in Peer : PeerDisconnects(p) \/ PeerReloads(p)
    \/ \E k \in Task, p \in Peer, f \in File : SendFile(k, p, f)
    \/ Disconnect \/ Reload

Spec == Init /\ [][Next]_vars

\* What is under way goes on and both sides reconnect; nobody has to send.
FairSpec == Spec /\ WF_vars(Progress)

-----------------------------------------------------------------------------
(* Properties *)

(* A file leaves the outbox only when a contact has had every one of its   *)
(* chunks and stored the message: losses, replays under the same id and    *)
(* reloads in between never make a file with a hole count as delivered.    *)
LeavesOutboxWhole ==
    \A f \in queued \ outbox : \E p \in Peer : f \in inbox[p].stored /\ f \in inbox[p].whole

(* A file in the outbox reaches the contact it was sent to in the end,     *)
(* whatever was lost on the way, unless the user went to another chat      *)
(* while it was being saved, or two functions were sending it at once.     *)
FileArrives ==
    \A f \in File : f \in queued ~>
        \/ \E p \in Peer : p = meant[f] /\ f \in inbox[p].stored
        \/ row[f] # meant[f]
        \/ crossed

(* app.js:3594-3595 "Used by flushOutboxFor when the recipient comes back  *)
(* online": a file only ever goes to the contact it was sent to.           *)
OnlyToRecipient ==
    \A k \in Task : job[k].at \in {"chunk", "mark"} => job[k].to = meant[job[k].file]

=============================================================================
