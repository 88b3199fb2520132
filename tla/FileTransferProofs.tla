------------------------- MODULE FileTransferProofs -------------------------
(***************************************************************************)
(* A file leaves the outbox only when a contact has had all of it and      *)
(* stored the message: for any number of files, contacts, chunks, sending  *)
(* functions and faults.  The invariant follows a file backwards from the  *)
(* outbox it left: the acknowledgement, the message, the blob, the chunks. *)
(***************************************************************************)
EXTENDS FileTransfer, TLAPS

JobsNamed ==
    \A k \in Task : job[k].at \in {"prepare", "queue", "chunk", "mark"} => job[k].file \in File

\* What is being saved or is stored was complete.
Sound(b) ==
    /\ \A f \in File : <<f, "blob">> \in b.saving \/ <<f, "message">> \in b.saving => f \in b.whole
    /\ b.stored \subseteq b.whole

Has(p, f) == f \in inbox[p].stored /\ f \in inbox[p].whole

AcksHonest == \A p \in Peer, f \in File : <<p, f>> \in acks => Has(p, f)

Inv == TypeOK /\ JobsNamed /\ (\A p \in Peer : Sound(inbox[p])) /\ AcksHonest /\ LeavesOutboxWhole

(* A contact keeps what it has stored, and stores only what was complete.  *)
Grows(b, c) == b.stored \subseteq c.stored /\ b.whole \subseteq c.whole

LEMMA ReceiveSound ==
    ASSUME NEW p \in Peer, NEW b \in Inbox, Sound(b), NEW frame \in Frame
    PROVE  LET c == Receive(b, p, frame) IN c \in Inbox /\ Sound(c) /\ Grows(b, c)
<1> DEFINE c == Receive(b, p, frame)  f == frame.file
<1> f \in File /\ frame.idx \in Index
  BY DEF Frame
<1>1. CASE frame.cmd = "OFFER"
  <2>1. c = OnFileOffer(b, p, f)
    BY <1>1 DEF Receive
  <2> DEFINE x == IF b.chunks[f] = None THEN {} ELSE b.chunks[f]
             y == IF p \in Ephemeral THEN b.blob[f] ELSE "empty"
             d == [b EXCEPT !.chunks[f] = x]
             e == [d EXCEPT !.meta = @ \cup {f}]
  <2>a. x \in SUBSET Index /\ y \in {"none", "empty", "whole"}
    BY DEF Inbox
  <2>b. c = [e EXCEPT !.blob[f] = y]
    BY <2>1 DEF OnFileOffer, Inbox
  <2> HIDE DEF x, y
  <2>2. d \in Inbox /\ d.stored = b.stored /\ d.whole = b.whole /\ d.saving = b.saving
    BY <2>a DEF Inbox
  <2> HIDE DEF d
  <2>3. e \in Inbox /\ e.stored = b.stored /\ e.whole = b.whole /\ e.saving = b.saving
    BY <2>2 DEF Inbox
  <2> HIDE DEF e, c
  <2>4. c \in Inbox /\ c.stored = b.stored /\ c.whole = b.whole /\ c.saving = b.saving
    BY <2>a, <2>b, <2>3 DEF Inbox
  <2> QED  BY <2>4 DEF c, Sound, Grows
<1>2. CASE frame.cmd = "CHUNK"
  <2>1. c = OnFileChunk(b, f, frame.idx)
    BY <1>2 DEF Receive
  <2>2. c \in Inbox
    BY <2>1 DEF OnFileChunk, Inbox
  <2>3. c.stored = b.stored /\ c.whole = b.whole /\ c.saving = b.saving
    BY <2>1 DEF OnFileChunk, Inbox
  <2> QED  BY <2>2, <2>3 DEF Sound, Grows
<1>3. CASE frame.cmd = "END"
  <2>1. c = OnFileEnd(b, p, f)
    BY <1>3 DEF Receive
  <2>2. CASE b.chunks[f] = None \/ (f \notin b.meta /\ b.blob[f] = "none")
    BY <2>1, <2>2 DEF OnFileEnd, Grows
  <2>3. CASE ~(b.chunks[f] = None \/ (f \notin b.meta /\ b.blob[f] = "none")) /\ ~Complete(b, f)
    <3>1. c = [b EXCEPT !.chunks[f] = None, !.meta = @ \ {f}]
      BY <2>1, <2>3 DEF OnFileEnd
    <3> DEFINE d == [b EXCEPT !.chunks[f] = None]
    <3>2. d \in Inbox /\ d.stored = b.stored /\ d.whole = b.whole /\ d.saving = b.saving
      BY DEF Inbox
    <3>3. c = [d EXCEPT !.meta = @ \ {f}]
      BY <3>1 DEF Inbox
    <3> HIDE DEF c, d
    <3>4. c \in Inbox /\ c.stored = b.stored /\ c.whole = b.whole /\ c.saving = b.saving
      BY <3>2, <3>3 DEF Inbox
    <3> QED  BY <3>4 DEF c, Sound, Grows
  <2>4. CASE ~(b.chunks[f] = None \/ (f \notin b.meta /\ b.blob[f] = "none")) /\ Complete(b, f)
    <3> DEFINE d == [b EXCEPT !.chunks[f] = None, !.whole = @ \cup {f}]
    <3>1. c = IF p \in Ephemeral
                THEN [d EXCEPT !.meta = @ \ {f}, !.stored = @ \cup {f}]
                ELSE [d EXCEPT !.saving = @ \cup {<<f, "blob">>}]
      BY <2>1, <2>4 DEF OnFileEnd, Complete
    <3>2. d \in Inbox /\ d.stored = b.stored /\ d.whole = b.whole \cup {f} /\ d.saving = b.saving
      BY DEF Inbox
    <3> HIDE DEF d
    <3>3. CASE p \in Ephemeral
      <4> DEFINE e == [d EXCEPT !.meta = @ \ {f}]
      <4>a. e \in Inbox /\ e.stored = d.stored /\ e.whole = d.whole /\ e.saving = d.saving
        BY <3>2 DEF Inbox
      <4>b. c = [e EXCEPT !.stored = @ \cup {f}]
        BY <3>1, <3>2, <3>3 DEF Inbox
      <4> HIDE DEF e, c
      <4>1. c \in Inbox /\ c.stored = d.stored \cup {f} /\ c.whole = d.whole /\ c.saving = d.saving
        BY <4>a, <4>b DEF Inbox
      <4> QED  BY <4>1, <3>2 DEF c, Sound, Grows
    <3>4. CASE p \notin Ephemeral
      <4>1. c \in Inbox /\ c.stored = d.stored /\ c.whole = d.whole
            /\ c.saving = d.saving \cup {<<f, "blob">>}
        BY <3>1, <3>2, <3>4 DEF Inbox
      <4> QED  BY <4>1, <3>2 DEF Sound, Grows
    <3> QED  BY <3>3, <3>4
  <2> QED  BY <2>2, <2>3, <2>4
<1> QED  BY <1>1, <1>2, <1>3 DEF Frame

LEMMA InitInv == Init => Inv
<1> SUFFICES ASSUME Init PROVE Inv  OBVIOUS
<1>1. TypeOK
  <2>1. inbox \in [Peer -> Inbox]
    <3>1. [chunks |-> [f \in File |-> None], meta |-> {}, blob |-> [f \in File |-> "none"],
           saving |-> {}, stored |-> {}, whole |-> {}] \in Inbox
      <4>1. [f \in File |-> None] \in [File -> (SUBSET Index) \cup {None}]
        OBVIOUS
      <4>2. [f \in File |-> "none"] \in [File -> {"none", "empty", "whole"}]
        OBVIOUS
      <4> QED  BY <4>1, <4>2 DEF Inbox
    <3> QED  BY <3>1 DEF Init
  <2>2. job \in [Task -> Job]
    BY FileAssumption DEF Init, Job, NoJob, Index
  <2>3. chan \in [Peer -> Seq(Frame)]
    BY DEF Init
  <2>4. faults \in 0..MaxFaults
    BY FileAssumption DEF Init
  <2>5. row \in [File -> Peer \cup {None}] /\ meant \in [File -> Peer \cup {None}]
    BY DEF Init
  <2>6. status \in [File -> {"none", "pending", "sent", "delivered"}]
    BY DEF Init
  <2> QED  BY <2>1, <2>2, <2>3, <2>4, <2>5, <2>6 DEF Init, TypeOK
<1>2. JobsNamed /\ (\A p \in Peer : Sound(inbox[p])) /\ AcksHonest /\ LeavesOutboxWhole
  BY DEF Init, NoJob, JobsNamed, Sound, AcksHonest, LeavesOutboxWhole
<1> QED  BY <1>1, <1>2 DEF Inv

-----------------------------------------------------------------------------
(* A contact that takes a step, from inbox[p] to c. *)

LEMMA InboxStep ==
    ASSUME Inv, NEW p \in Peer, NEW c \in Inbox, Sound(c), Grows(inbox[p], c),
           inbox' = [inbox EXCEPT ![p] = c]
    PROVE  /\ inbox' \in [Peer -> Inbox]
           /\ \A q \in Peer : Sound(inbox'[q])
           /\ \A q \in Peer, f \in File : Has(q, f) => Has(q, f)'
           /\ inbox'[p] = c
<1>1. inbox \in [Peer -> Inbox]
  BY DEF Inv, TypeOK
<1>2. inbox'[p] = c /\ \A q \in Peer \ {p} : inbox'[q] = inbox[q]
  BY <1>1
<1>3. \A q \in Peer : Sound(inbox'[q])
  BY <1>2 DEF Inv
<1>4. \A q \in Peer, f \in File : Has(q, f) => Has(q, f)'
  BY <1>2 DEF Has, Grows
<1> QED  BY <1>1, <1>2, <1>3, <1>4

(* Steps that leave the contacts, their acknowledgements, the outbox and   *)
(* the files that reached it as they are.                                  *)
LEMMA Quiet ==
    ASSUME Inv, UNCHANGED inbox, acks' \subseteq acks,
           queued' \ outbox' \subseteq queued \ outbox
    PROVE  (\A p \in Peer : Sound(inbox'[p])) /\ AcksHonest' /\ LeavesOutboxWhole'
BY DEF Inv, AcksHonest, LeavesOutboxWhole, Has

LEMMA PostType ==
    ASSUME Inv, NEW p, NEW s \in Seq(Frame), Post(p, s)
    PROVE  chan' \in [Peer -> Seq(Frame)]
<1>1. chan \in [Peer -> Seq(Frame)] /\ up \subseteq Peer
  BY DEF Inv, TypeOK
<1>2. CASE p \in up
  <2>1. chan' = [chan EXCEPT ![p] = chan[p] \o s] /\ p \in Peer
    BY <1>1, <1>2 DEF Post
  <2>2. chan[p] \o s \in Seq(Frame)
    BY <1>1, <2>1
  <2> QED  BY <1>1, <2>1, <2>2
<1>3. CASE p \notin up
  BY <1>1, <1>3 DEF Post
<1> QED  BY <1>2, <1>3

LEMMA CutType ==
    ASSUME Inv, Cut
    PROVE  /\ senderUp' \in BOOLEAN /\ due' \in SUBSET Peer /\ acks' = {}
           /\ chan' \in [Peer -> Seq(Frame)]
<1>1. chan \in [Peer -> Seq(Frame)]
  BY DEF Inv, TypeOK
<1>2. PICK kept \in [Peer -> 0..1] :
        chan' = [p \in Peer |-> IF kept[p] = 1 THEN chan[p] ELSE <<>>]
  BY DEF Cut
<1>3. \A p \in Peer : (IF kept[p] = 1 THEN chan[p] ELSE <<>>) \in Seq(Frame)
  BY <1>1
<1>4. chan' \in [Peer -> Seq(Frame)]
  BY <1>2, <1>3
<1> QED  BY <1>4 DEF Cut

-----------------------------------------------------------------------------
LEMMA SenderInv ==
    ASSUME Inv, NEW k \in Task,
           \/ \E p \in Peer, f \in File : SendFile(k, p, f)
           \/ \E p \in Peer \cup {None} : AddMessage(k, p)
           \/ AddOutbox(k) \/ MarkSent(k) \/ SendChunk(k)
           \/ \E p \in Peer : PeerOnline(k, p)
           \/ \E f \in File : SendOffer(k, f)
    PROVE  Inv'
<1> USE DEF local, network, history
<1>0. TypeOK /\ JobsNamed /\ job[k] \in Job /\ job \in [Task -> Job]
  BY DEF Inv, TypeOK
<1>a. NoJob \in Job /\ 0 \in Index
  BY FileAssumption DEF NoJob, Job, Index
<1>1. ASSUME NEW p \in Peer, NEW f \in File, SendFile(k, p, f)  PROVE Inv'
  <2> DEFINE j == [NoJob EXCEPT !.at = "prepare", !.file = f, !.to = p]
  <2>1. j \in Job /\ j.file = f
    BY <1>a DEF Job, NoJob
  <2>2. job' = [job EXCEPT ![k] = j]
    BY <1>1 DEF SendFile, Do
  <2> HIDE DEF j
  <2>3. TypeOK' /\ JobsNamed'
    BY <1>0, <1>1, <2>1, <2>2 DEF TypeOK, JobsNamed, SendFile
  <2> QED  BY <1>1, <2>3, Quiet DEF Inv, SendFile
<1>2. ASSUME NEW p \in Peer \cup {None}, AddMessage(k, p)  PROVE Inv'
  <2> DEFINE j == [job[k] EXCEPT !.at = "queue"]
  <2>1. j \in Job /\ j.file = job[k].file /\ job[k].file \in File
    BY <1>0, <1>2 DEF Job, JobsNamed, AddMessage
  <2>2. job' = [job EXCEPT ![k] = j]
    BY <1>2 DEF AddMessage, Do
  <2> HIDE DEF j
  <2>3. TypeOK' /\ JobsNamed'
    BY <1>0, <1>2, <2>1, <2>2 DEF TypeOK, JobsNamed, AddMessage
  <2> QED  BY <1>2, <2>3, Quiet DEF Inv, AddMessage
<1>3. CASE AddOutbox(k)
  <2> DEFINE j == [job[k] EXCEPT !.at = "next", !.file = None, !.rest = {job[k].file}]
  <2>1. j \in Job /\ j.at = "next" /\ job[k].file \in File
    BY <1>0, <1>3 DEF Job, JobsNamed, AddOutbox
  <2>2. job' = [job EXCEPT ![k] = j]
    BY <1>3 DEF AddOutbox, Do
  <2> HIDE DEF j
  <2>3. TypeOK' /\ JobsNamed'
    BY <1>0, <1>3, <2>1, <2>2 DEF TypeOK, JobsNamed, AddOutbox
  <2>4. UNCHANGED <<inbox, acks>> /\ queued' \ outbox' \subseteq queued \ outbox
    BY <1>3 DEF AddOutbox
  <2> QED  BY <2>3, <2>4, Quiet DEF Inv
<1>4. CASE MarkSent(k)
  <2> DEFINE j == IF job[k].rest = {} THEN NoJob
                  ELSE [job[k] EXCEPT !.at = "next", !.file = None, !.idx = 0]
  <2>1. j \in Job /\ j.at \in {"idle", "next"}
    BY <1>0, <1>a DEF Job, NoJob
  <2>2. job' = [job EXCEPT ![k] = j]
    BY <1>4 DEF MarkSent, Do
  <2> HIDE DEF j
  <2>3. TypeOK' /\ JobsNamed'
    BY <1>0, <1>4, <2>1, <2>2 DEF TypeOK, JobsNamed, MarkSent
  <2> QED  BY <1>4, <2>3, Quiet DEF Inv, MarkSent
<1>5. CASE SendChunk(k)
  <2> DEFINE f == job[k].file  i == job[k].idx
  <2>1. f \in File /\ i \in Index
    BY <1>0, <1>5 DEF Job, JobsNamed, SendChunk
  <2>2. Chunk(f, i) \in Frame /\ End(f) \in Frame
    BY <2>1, <1>a DEF Chunk, End, Frame
  <2>3. <<Chunk(f, i)>> \in Seq(Frame) /\ <<Chunk(f, i), End(f)>> \in Seq(Frame)
    BY <2>2
  <2>4. chan' \in [Peer -> Seq(Frame)]
    <3>1. CASE ~senderUp
      BY <1>0, <1>5, <3>1 DEF SendChunk, TypeOK
    <3>2. CASE senderUp
      <4>1. Post(job[k].to, <<Chunk(f, i)>>) \/ Post(job[k].to, <<Chunk(f, i), End(f)>>)
        BY <1>5, <3>2 DEF SendChunk
      <4> QED  BY <4>1, <2>3, PostType
    <3> QED  BY <3>1, <3>2
  <2>5. \E j \in Job : job' = [job EXCEPT ![k] = j] /\ (j.at = "idle" \/ j.file \in File)
    <3>1. CASE ~senderUp
      BY <1>5, <1>a, <3>1 DEF SendChunk, Do, NoJob
    <3>2. CASE senderUp /\ i + 1 < Chunks
      <4>1. i + 1 \in Index
        BY <2>1, <3>2, FileAssumption DEF Index
      <4>2. [job[k] EXCEPT !.idx = i + 1] \in Job /\ [job[k] EXCEPT !.idx = i + 1].file = f
        BY <4>1, <1>0 DEF Job
      <4> QED  BY <1>5, <2>1, <3>2, <4>2 DEF SendChunk, Do
    <3>3. CASE senderUp /\ ~(i + 1 < Chunks)
      <4>1. [job[k] EXCEPT !.at = "mark"] \in Job /\ [job[k] EXCEPT !.at = "mark"].file = f
        BY <1>0 DEF Job
      <4> QED  BY <1>5, <2>1, <3>3, <4>1 DEF SendChunk, Do
    <3> QED  BY <3>1, <3>2, <3>3
  <2>6. TypeOK' /\ JobsNamed'
    BY <1>0, <1>5, <2>4, <2>5 DEF TypeOK, JobsNamed, SendChunk
  <2> QED  BY <1>5, <2>6, Quiet DEF Inv, SendChunk
<1>6. ASSUME NEW p \in Peer, PeerOnline(k, p)  PROVE Inv'
  <2>1. \E j \in Job : job' = [job EXCEPT ![k] = j]
                       /\ (j.at \in {"idle", "next"} \/ j.file \in File)
    <3>1. CASE Pending(p) = {}
      BY <1>0, <1>6, <3>1 DEF PeerOnline
    <3>2. CASE Pending(p) # {}
      <4> DEFINE j == [NoJob EXCEPT !.at = "next", !.to = p, !.rest = Pending(p)]
      <4>1. Pending(p) \subseteq File
        BY <1>0 DEF Pending, TypeOK
      <4>2. j \in Job /\ j.at = "next"
        BY <4>1, <1>a DEF Job, NoJob
      <4> QED  BY <1>6, <3>2, <4>2 DEF PeerOnline, Do
    <3> QED  BY <3>1, <3>2
  <2>2. TypeOK' /\ JobsNamed'
    BY <1>0, <1>6, <2>1 DEF TypeOK, JobsNamed, PeerOnline
  <2> QED  BY <1>6, <2>2, Quiet DEF Inv, PeerOnline
<1>7. ASSUME NEW f \in File, SendOffer(k, f)  PROVE Inv'
  <2>1. chan' \in [Peer -> Seq(Frame)]
    <3>1. Offer(f) \in Frame
      BY <1>a DEF Offer, Frame
    <3>2. <<Offer(f)>> \in Seq(Frame)
      BY <3>1
    <3>3. Post(job[k].to, <<Offer(f)>>) \/ UNCHANGED chan
      BY <1>7 DEF SendOffer
    <3> QED  BY <1>0, <3>2, <3>3, PostType DEF TypeOK
  <2>2. \E j \in Job : job' = [job EXCEPT ![k] = j] /\ (j.at = "idle" \/ j.file \in File)
    <3> DEFINE j == [job[k] EXCEPT !.at = "chunk", !.file = f, !.idx = 0, !.rest = @ \ {f}]
    <3>1. j \in Job /\ j.file = f
      BY <1>0, <1>a DEF Job
    <3>2. NoJob.at = "idle"
      BY DEF NoJob
    <3>3. job' = [job EXCEPT ![k] = j] \/ job' = [job EXCEPT ![k] = NoJob]
      BY <1>7 DEF SendOffer, Do
    <3> HIDE DEF j
    <3> QED  BY <1>a, <3>1, <3>2, <3>3
  <2>3. crossed' \in BOOLEAN
    BY <1>0, <1>7 DEF SendOffer, TypeOK
  <2>4. TypeOK' /\ JobsNamed'
    BY <1>0, <1>7, <2>1, <2>2, <2>3 DEF TypeOK, JobsNamed, SendOffer
  <2> QED  BY <1>7, <2>4, Quiet DEF Inv, SendOffer
<1> QED  BY <1>1, <1>2, <1>3, <1>4, <1>5, <1>6, <1>7

LEMMA OnDeliveredInv ==
    ASSUME Inv, NEW p \in Peer, NEW f \in File, OnDelivered(p, f)
    PROVE  Inv'
<1> USE DEF local, network, history
<1>1. TypeOK' /\ JobsNamed'
  BY DEF Inv, TypeOK, JobsNamed, OnDelivered
<1>2. AcksHonest' /\ \A q \in Peer : Sound(inbox'[q])
  BY DEF Inv, OnDelivered, AcksHonest, Has
<1>3. Has(p, f)
  BY DEF Inv, AcksHonest, OnDelivered
<1>4. LeavesOutboxWhole'
  BY <1>3 DEF Inv, LeavesOutboxWhole, OnDelivered, Has
<1> QED  BY <1>1, <1>2, <1>4 DEF Inv

LEMMA SendAckHonest ==
    ASSUME Inv, NEW p \in Peer, NEW f \in File, SendAck(p, f) \/ UNCHANGED acks,
           SendAck(p, f) => Has(p, f)',
           \A q \in Peer, g \in File : Has(q, g) => Has(q, g)'
    PROVE  AcksHonest' /\ acks' \subseteq Peer \X File
<1>1. acks \subseteq Peer \X File /\ AcksHonest
  BY DEF Inv, TypeOK
<1>2. acks' \subseteq acks \cup {<<p, f>>} /\ (<<p, f>> \in acks' => Has(p, f)')
  BY <1>1 DEF SendAck, AcksHonest
<1> QED  BY <1>1, <1>2 DEF AcksHonest

LEMMA ContactInv ==
    ASSUME Inv, NEW p \in Peer,
           OnFrame(p) \/ \E f \in File : SaveBlob(p, f) \/ SaveMessage(p, f)
    PROVE  Inv'
<1> USE DEF local, network, history
<1>0. TypeOK /\ inbox[p] \in Inbox /\ Sound(inbox[p])
  BY DEF Inv, TypeOK
<1>1. ASSUME NEW f \in File, SaveBlob(p, f)  PROVE Inv'
  <2> DEFINE c == [inbox[p] EXCEPT
                     !.saving = (@ \ {<<f, "blob">>}) \cup {<<f, "message">>},
                     !.blob[f] = "whole"]
  <2>1. inbox' = [inbox EXCEPT ![p] = c]
    BY <1>0, <1>1 DEF SaveBlob, TypeOK
  <2>2. c \in Inbox /\ c.stored = inbox[p].stored /\ c.whole = inbox[p].whole
        /\ c.saving = (inbox[p].saving \ {<<f, "blob">>}) \cup {<<f, "message">>}
    <3> DEFINE s == (inbox[p].saving \ {<<f, "blob">>}) \cup {<<f, "message">>}
               d == [inbox[p] EXCEPT !.saving = s]
    <3>1. s \in SUBSET (File \X {"blob", "message"})
      BY <1>0 DEF Inbox
    <3> HIDE DEF s
    <3>2. d \in Inbox /\ d.stored = inbox[p].stored /\ d.whole = inbox[p].whole /\ d.saving = s
      BY <1>0, <3>1 DEF Inbox
    <3>3. c = [d EXCEPT !.blob[f] = "whole"]
      BY DEF s
    <3> HIDE DEF c, d
    <3>4. c \in Inbox /\ c.stored = d.stored /\ c.whole = d.whole /\ c.saving = d.saving
      BY <3>2, <3>3 DEF Inbox
    <3> QED  BY <3>2, <3>4 DEF s
  <2> HIDE DEF c
  <2>3. Sound(c) /\ Grows(inbox[p], c)
    BY <1>0, <1>1, <2>2 DEF Sound, Grows, SaveBlob
  <2>4. inbox' \in [Peer -> Inbox] /\ (\A q \in Peer : Sound(inbox'[q]))
        /\ \A q \in Peer, g \in File : Has(q, g) => Has(q, g)'
    BY <2>1, <2>2, <2>3, InboxStep
  <2>5. TypeOK' /\ JobsNamed'
    BY <1>0, <1>1, <2>4 DEF Inv, TypeOK, JobsNamed, SaveBlob
  <2>6. AcksHonest' /\ LeavesOutboxWhole'
    BY <1>0, <1>1, <2>4 DEF Inv, TypeOK, AcksHonest, LeavesOutboxWhole, SaveBlob, Has
  <2> QED  BY <2>4, <2>5, <2>6 DEF Inv
<1>2. ASSUME NEW f \in File, SaveMessage(p, f)  PROVE Inv'
  <2> DEFINE c == [inbox[p] EXCEPT
                     !.saving = @ \ {<<f, "message">>}, !.meta = @ \ {f}, !.stored = @ \cup {f}]
  <2>1. inbox' = [inbox EXCEPT ![p] = c]
    BY <1>0, <1>2 DEF SaveMessage, TypeOK
  <2>2. c \in Inbox /\ c.stored = inbox[p].stored \cup {f} /\ c.whole = inbox[p].whole
        /\ c.saving = inbox[p].saving \ {<<f, "message">>}
    BY <1>0 DEF Inbox
  <2> HIDE DEF c
  <2>3. Sound(c) /\ Grows(inbox[p], c) /\ f \in c.stored
    BY <1>0, <1>2, <2>2 DEF Sound, Grows, SaveMessage
  <2>4. inbox' \in [Peer -> Inbox] /\ (\A q \in Peer : Sound(inbox'[q])) /\ inbox'[p] = c
        /\ \A q \in Peer, g \in File : Has(q, g) => Has(q, g)'
    BY <2>1, <2>2, <2>3, InboxStep
  <2>5. Has(p, f)'
    BY <2>3, <2>4 DEF Has, Sound
  <2>6. AcksHonest' /\ acks' \subseteq Peer \X File
    BY <1>2, <2>4, <2>5, SendAckHonest DEF SaveMessage
  <2>7. TypeOK' /\ JobsNamed'
    BY <1>0, <1>2, <2>4, <2>6 DEF Inv, TypeOK, JobsNamed, SaveMessage
  <2>8. LeavesOutboxWhole'
    BY <1>0, <1>2, <2>4 DEF Inv, TypeOK, LeavesOutboxWhole, SaveMessage, Has
  <2> QED  BY <2>4, <2>6, <2>7, <2>8 DEF Inv
<1>3. CASE OnFrame(p)
  <2> DEFINE frame == Head(chan[p])  f == frame.file  c == Receive(inbox[p], p, frame)
  <2>1. chan[p] \in Seq(Frame) /\ chan[p] # <<>>
    BY <1>0, <1>3 DEF TypeOK, OnFrame
  <2>2. frame \in Frame /\ f \in File
    <3>1. frame \in Frame
      BY <2>1
    <3> QED  BY <3>1 DEF Frame
  <2>3. inbox' = [inbox EXCEPT ![p] = c]
    BY <1>3 DEF OnFrame
  <2>4. c \in Inbox /\ Sound(c) /\ Grows(inbox[p], c)
    BY <1>0, <2>2, ReceiveSound
  <2>5. (SendAck(p, f) /\ f \in c.stored) \/ UNCHANGED acks
    BY <1>3 DEF OnFrame
  <2>6. chan' \in [Peer -> Seq(Frame)]
    <3>1. Tail(chan[p]) \in Seq(Frame)
      BY <2>1
    <3> QED  BY <1>0, <1>3, <3>1 DEF OnFrame, TypeOK
  <2> HIDE DEF frame, f, c
  <2>7. inbox' \in [Peer -> Inbox] /\ (\A q \in Peer : Sound(inbox'[q])) /\ inbox'[p] = c
        /\ \A q \in Peer, g \in File : Has(q, g) => Has(q, g)'
    BY <2>3, <2>4, InboxStep
  <2>8. AcksHonest' /\ acks' \subseteq Peer \X File
    <3>1. CASE UNCHANGED acks
      BY <1>0, <2>7, <3>1 DEF Inv, TypeOK, AcksHonest
    <3>2. CASE SendAck(p, f) /\ f \in c.stored
      <4>1. f \in c.stored /\ f \in c.whole
        BY <2>4, <3>2 DEF Sound
      <4>2. f \in inbox'[p].stored /\ f \in inbox'[p].whole
        BY <2>7, <4>1
      <4> QED  BY <2>2, <2>7, <3>2, <4>2, SendAckHonest DEF Has
    <3> QED  BY <2>5, <3>1, <3>2
  <2>9. TypeOK' /\ JobsNamed'
    BY <1>0, <1>3, <2>6, <2>7, <2>8 DEF Inv, TypeOK, JobsNamed, OnFrame
  <2>10. LeavesOutboxWhole'
    BY <1>0, <1>3, <2>7 DEF Inv, TypeOK, LeavesOutboxWhole, OnFrame, Has
  <2> QED  BY <2>7, <2>8, <2>9, <2>10 DEF Inv
<1> QED  BY <1>1, <1>2, <1>3

LEMMA NetworkInv ==
    ASSUME Inv,
           \/ Connect \/ Disconnect \/ Reload
           \/ \E p \in Peer : PeerConnects(p) \/ PeerDisconnects(p) \/ PeerReloads(p)
    PROVE  Inv'
<1> USE DEF local, network, history
<1>0. TypeOK /\ JobsNamed
  BY DEF Inv
<1>1. CASE Connect
  <2>1. TypeOK' /\ JobsNamed'
    BY <1>0, <1>1 DEF TypeOK, JobsNamed, Connect
  <2> QED  BY <1>1, <2>1, Quiet DEF Inv, Connect
<1>2. CASE Disconnect
  <2>1. TypeOK' /\ JobsNamed'
    BY <1>0, <1>2, CutType, FileAssumption DEF TypeOK, JobsNamed, Disconnect, Fault
  <2> QED  BY <1>2, <2>1, CutType, Quiet DEF Inv, Disconnect
<1>3. CASE Reload
  <2>1. NoJob \in Job /\ NoJob.at = "idle"
    BY FileAssumption DEF NoJob, Job, Index
  <2>2. TypeOK' /\ JobsNamed'
    BY <1>0, <1>3, <2>1, CutType, FileAssumption DEF TypeOK, JobsNamed, Reload, Fault
  <2> QED  BY <1>3, <2>2, CutType, Quiet DEF Inv, Reload
<1>4. ASSUME NEW p \in Peer, PeerConnects(p)  PROVE Inv'
  <2>1. TypeOK' /\ JobsNamed'
    BY <1>0, <1>4 DEF TypeOK, JobsNamed, PeerConnects
  <2> QED  BY <1>4, <2>1, Quiet DEF Inv, PeerConnects
<1>5. ASSUME NEW p \in Peer, PeerDisconnects(p)  PROVE Inv'
  <2>1. TypeOK' /\ JobsNamed'
    BY <1>0, <1>5, FileAssumption DEF TypeOK, JobsNamed, PeerDisconnects, Fault
  <2> QED  BY <1>5, <2>1, Quiet DEF Inv, PeerDisconnects
<1>6. ASSUME NEW p \in Peer, PeerReloads(p)  PROVE Inv'
  <2> DEFINE c == [inbox[p] EXCEPT !.chunks = [f \in File |-> None], !.meta = {}, !.saving = {}]
  <2>1. inbox' = [inbox EXCEPT ![p] = c]
    BY <1>0, <1>6 DEF PeerReloads, TypeOK
  <2>2. c \in Inbox /\ c.stored = inbox[p].stored /\ c.whole = inbox[p].whole /\ c.saving = {}
    <3>1. [f \in File |-> None] \in [File -> (SUBSET Index) \cup {None}]
      OBVIOUS
    <3>2. inbox[p] \in Inbox
      BY <1>0 DEF TypeOK
    <3> QED  BY <3>1, <3>2 DEF Inbox
  <2> HIDE DEF c
  <2>3. Sound(c) /\ Grows(inbox[p], c)
    BY <2>2 DEF Inv, Sound, Grows
  <2>4. inbox' \in [Peer -> Inbox] /\ (\A q \in Peer : Sound(inbox'[q]))
        /\ \A q \in Peer, g \in File : Has(q, g) => Has(q, g)'
    BY <2>1, <2>2, <2>3, InboxStep
  <2>5. TypeOK' /\ JobsNamed'
    <3>0. Fault /\ up' = up \ {p} /\ chan' = [chan EXCEPT ![p] = <<>>]
      BY <1>6, Zenon DEF PeerReloads
    <3>1. faults' \in 0..MaxFaults
      BY <1>0, <3>0, FileAssumption DEF TypeOK, Fault
    <3>2. chan' \in [Peer -> Seq(Frame)] /\ up' \in SUBSET Peer
      BY <1>0, <3>0 DEF TypeOK
    <3> QED  BY <1>0, <1>6, <2>4, <3>1, <3>2 DEF TypeOK, JobsNamed, PeerReloads
  <2>6. AcksHonest' /\ LeavesOutboxWhole'
    BY <1>0, <1>6, <2>4 DEF Inv, TypeOK, AcksHonest, LeavesOutboxWhole, PeerReloads, Has
  <2> QED  BY <2>4, <2>5, <2>6 DEF Inv
<1> QED  BY <1>1, <1>2, <1>3, <1>4, <1>5, <1>6

LEMMA StepInv == Inv /\ [Next]_vars => Inv'
<1> SUFFICES ASSUME Inv, [Next]_vars PROVE Inv'  OBVIOUS
<1>1. CASE UNCHANGED vars
  <2>1. TypeOK' /\ JobsNamed'
    BY <1>1 DEF vars, local, network, history, Inv, TypeOK, JobsNamed
  <2> QED  BY <1>1, <2>1, Quiet DEF vars, local, history, Inv
<1>2. CASE Next
  BY <1>2, SenderInv, OnDeliveredInv, ContactInv, NetworkInv DEF Next, Progress
<1> QED  BY <1>1, <1>2

(* The invariant holds of every behaviour. *)
LEMMA FilesSafe == Spec => []Inv
BY InitInv, StepInv, PTL DEF Spec

(* Whatever is lost, replayed or reloaded, a file leaves the outbox only   *)
(* when a contact has had every chunk of it and stored its message.        *)
THEOREM FilesWhole == Spec => []LeavesOutboxWhole
<1>1. Inv => LeavesOutboxWhole
  BY DEF Inv
<1> QED  BY FilesSafe, <1>1, PTL

(* Every variable of the file transfer keeps its type. *)
THEOREM FilesTyped == Spec => []TypeOK
<1>1. Inv => TypeOK
  BY DEF Inv
<1> QED  BY FilesSafe, <1>1, PTL
=============================================================================
