-------------------------------- MODULE Call --------------------------------
(***************************************************************************)
(* One-to-one calls: CallManager (src/web/webrtc.js) together with the     *)
(* call window, the incoming prompt and the ring tones that app.js drives  *)
(* from it.  Each phone is a record; a handler is an operator from a phone *)
(* to [s, out], the phone it leaves behind and the frames it sends.  What  *)
(* follows an await is a continuation in `waits', resumed by a step of its *)
(* own.  Frames travel in order, and are dropped when either end is        *)
(* offline, as the relay does.                                             *)
(*                                                                         *)
(* Abstracted: ICE candidates (a connection comes up once both ends hold   *)
(* the two descriptions of one offer), device switching, blocked peers and *)
(* the call log.                                                           *)
(***************************************************************************)
EXTENDS Naturals, Sequences, FiniteSets

CONSTANTS Phones, None, MaxCalls, MaxFaults

ASSUME CallAssumption ==
    /\ IsFiniteSet(Phones) /\ None \notin Phones
    /\ MaxCalls \in Nat /\ MaxFaults \in Nat

VARIABLES
    phone,      \* Phones -> the state of CallManager and of the call UI
    up,         \* Phones -> is its socket established?
    chan,       \* chan[p][q]: frames on their way from p to q, in order
    calls,      \* calls started so far, at most MaxCalls
    faults,     \* faults so far, at most MaxFaults
    unanswered, \* history: callees of p whom no missed-call notice reached yet
    amiss,      \* history: phones whose call something was taken from, see Touch
    forgotten   \* history: was a notice dropped that its sender no longer owes?

vars == <<phone, up, chan, calls, faults, unanswered, amiss, forgotten>>

-----------------------------------------------------------------------------
(* The phone.  An offer and its answer share a number, sid; a description  *)
(* set on a connection it was not made for gives it number 0.              *)

Signalling == {"none", "new", "offered", "stable"}
NoPc == [sig |-> "none", sid |-> 0, conn |-> "new"]
Pc   == [sig : Signalling, sid : Nat, conn : {"new", "connected", "failed"}]

Cmds  == {"REQUEST", "ACCEPT", "REJECT", "HANGUP", "MISSED", "OFFER", "ANSWER", "ONLINE"}
Frame == [cmd : Cmds, sid : Nat]
Awaits == {"connect", "preview", "accept", "initiate", "on_offer", "offer", "answer"}
Wait  == [fn : Awaits, peer : Phones, sid : Nat, live : BOOLEAN]
MediaWaits == {"preview", "accept", "initiate", "on_offer"}

(* History kept with the phone: a continuation is live until the call it   *)
(* was started for is torn down, and `mixed' is what got into the present  *)
(* call that is not part of it, until that call is torn down:              *)
(*   "second"  it was placed or accepted while another rang or was on, or a*)
(*             second ring of the same call was rejected;                  *)
(*   "late"    a continuation went on that was not live any more;          *)
(*   "stale"   an ACCEPT or an OFFER was acted on that it did not wait for,*)
(*             or an OFFER its sender has given up by now, or a ring that  *)
(*             was given up or answered already;                           *)
(*   "failed"  its connection failed, which closes the window only.        *)
Mixed == {"second", "late", "stale", "failed"}

Idle == [peer |-> None, pc |-> NoPc, stream |-> FALSE,
         ringing |-> None, owed |-> {}, active |-> FALSE, prompt |-> None,
         rings |-> {}, auto |-> FALSE, waits |-> <<>>, mixed |-> {}]

Mix(s, what, cond) == IF cond THEN [s EXCEPT !.mixed = @ \cup {what}] ELSE s

Over(s) == [s EXCEPT !.mixed = {},
                     !.waits = [i \in DOMAIN @ |-> [@[i] EXCEPT !.live = FALSE]]]

CallTerminal == {"idle", "hangup", "rejected", "peer hangup", "failed", "closed"}

ClearIncoming_HidesOnly(s) == [s EXCEPT !.prompt = None]

ClearIncoming(s) == [s EXCEPT !.prompt = None, !.rings = {}]

OnState(s, state) ==
    LET t == [s EXCEPT !.active = state \notin CallTerminal]
    IN  IF state \in CallTerminal THEN ClearIncoming(t)
        ELSE IF state = "connected" THEN [t EXCEPT !.rings = {}]
        ELSE t

ClearRing(s) == [s EXCEPT !.ringing = None]

TearDown_KeepsCamera(s, reason) ==
    OnState([Over(ClearRing(s)) EXCEPT !.pc = NoPc, !.peer = None], reason)

TearDown(s, reason) ==
    OnState([Over(ClearRing(s)) EXCEPT !.pc = NoPc, !.stream = FALSE, !.peer = None], reason)

\* Outgoing frames, by the phone they are for.
Silent                == [r \in Phones |-> <<>>]
SendSdp(q, cmd, sid)  == [Silent EXCEPT ![q] = <<[cmd |-> cmd, sid |-> sid]>>]
Send(q, cmd)          == SendSdp(q, cmd, 0)
Both(out, more)       == [r \in Phones |-> out[r] \o more[r]]
Result(s, out)        == [s |-> s, out |-> out]
Await(s, fn, q, sid)  ==
    [s EXCEPT !.waits = Append(@, [fn |-> fn, peer |-> q, sid |-> sid, live |-> TRUE])]

-----------------------------------------------------------------------------
(* CallManager: the public actions.                                        *)

MarkMissed(s, q) == Result([s EXCEPT !.owed = @ \cup {q}], Send(q, "MISSED"))

HangUp(s) ==
    LET missed == IF s.ringing # None THEN MarkMissed(s, s.ringing) ELSE Result(s, Silent)
        bye    == IF s.peer # None THEN Send(s.peer, "HANGUP") ELSE Silent
    IN  Result(TearDown(ClearRing(missed.s), "hangup"), Both(missed.out, bye))

RingOut_MarksAfter(s) ==
    LET end    == HangUp(s)
        missed == MarkMissed(end.s, end.s.ringing)
    IN  Result(missed.s, Both(end.out, missed.out))

RingOut(s) ==
    LET missed == MarkMissed(s, s.ringing)
        end    == HangUp(missed.s)
    IN  Result(end.s, Both(missed.out, end.out))

PlaceCall(s, q) ==
    LET t == OnState([Mix(s, "second", s.peer # None) EXCEPT !.peer = q], "calling")
        r == [t EXCEPT !.ringing = q]
    IN  Result(IF r.stream THEN r ELSE Await(r, "preview", q, 0), Send(q, "REQUEST"))

AcceptIncoming(s, q) ==
    LET t == [Mix(s, "second", s.peer # None \/ s.ringing # None) EXCEPT !.peer = q]
    IN  Result(IF t.stream THEN t ELSE Await(t, "accept", q, 0), Send(q, "ACCEPT"))

OnPeerOnline_ForgetsOwed(s, q) ==
    IF s.ringing = q THEN Result(s, Send(q, "REQUEST"))
    ELSE Result([s EXCEPT !.owed = @ \ {q}], Silent)

OnPeerOnline(s, q) ==
    IF s.ringing = q THEN Result(s, Send(q, "REQUEST"))
    ELSE IF q \in s.owed THEN Result([s EXCEPT !.owed = @ \ {q}], Send(q, "MISSED"))
    ELSE Result(s, Silent)

(* CallManager: offers and answers.  MakePc overwrites a live connection   *)
(* without closing it.                                                     *)

MakePc(s, sid) ==
    [s EXCEPT !.pc = [sig |-> "new", sid |-> sid, conn |-> "new"]]

SendOffer(s, q, sid)  == Await(MakePc(s, sid), "offer", q, sid)
SendAnswer(s, q, sid) == Await(MakePc(s, sid), "answer", q, sid)

Initiate(s, q, sid) ==
    LET t == [s EXCEPT !.peer = q]
    IN  IF t.stream THEN SendOffer(t, q, sid) ELSE Await(t, "initiate", q, 0)

StaleAccept(s, q) == s.ringing # q \/ s.pc # NoPc
StaleOffer(s, q)  == s.peer # q \/ s.pc # NoPc \/ s.ringing # None

OnAccept_StillRings(s, q, sid) == Initiate(Mix(s, "stale", StaleAccept(s, q)), q, sid)

OnAccept(s, q, sid) == Initiate(ClearRing(Mix(s, "stale", StaleAccept(s, q))), q, sid)

OnOffer(s, q, sid) ==
    LET t == [Mix(s, "stale", StaleOffer(s, q)) EXCEPT !.peer = q]
    IN  IF t.stream THEN SendAnswer(t, q, sid) ELSE Await(t, "on_offer", q, sid)

OnAnswer_TakenForStray(s, sid) ==
    IF s.pc.sig = "offered" THEN s ELSE [s EXCEPT !.pc.sid = 0]

OnAnswer(s, sid) ==
    IF s.pc.sig # "offered" THEN s
    ELSE [s EXCEPT !.pc.sig = "stable", !.pc.sid = IF @ = sid THEN @ ELSE 0]

(* The camera is granted to one pending _openMedia, which overwrites the   *)
(* stream another one has opened meanwhile.                                *)
OpenMedia(s) == [s EXCEPT !.stream = TRUE]

AfterMedia(s, w, sid) ==
    CASE w.fn = "initiate" -> SendOffer(OpenMedia(s), w.peer, sid)
      [] w.fn = "on_offer" -> SendAnswer(OpenMedia(s), w.peer, w.sid)
      [] OTHER             -> OpenMedia(s)

(* The description is ready: setLocalDescription, the frame, "connecting". *)
(* Without a connection the promise is rejected; with another one in its   *)
(* place it is rejected, or was already past the last use of `this.pc'.    *)
AfterSdp(s, w, late) ==
    LET send == SendSdp(w.peer, IF w.fn = "offer" THEN "OFFER" ELSE "ANSWER", w.sid)
        sig  == IF w.fn = "offer" THEN "offered" ELSE "stable"
    IN  IF s.pc.sid = w.sid /\ s.pc.sig = "new"
        THEN Result(OnState([s EXCEPT !.pc.sig = sig], "connecting"), send)
        ELSE IF late /\ s.pc # NoPc THEN Result(OnState(s, "connecting"), send)
        ELSE Result(s, Silent)

-----------------------------------------------------------------------------
(* app.js: the incoming prompt and the call window.                        *)

ShowIncoming(s, q) ==
    IF s.prompt # None THEN s
    ELSE [s EXCEPT !.prompt = q, !.rings = @ \cup {"in"}]

StartCallUI(s) == [s EXCEPT !.active = TRUE]

AcceptIncomingCall(s, q, connected) ==
    LET t == StartCallUI(ClearIncoming(s))
    IN  IF connected THEN AcceptIncoming(t, q) ELSE Result(Await(t, "connect", q, 0), Silent)

OnIncomingCall(s, q, connected) ==
    IF s.auto THEN AcceptIncomingCall([s EXCEPT !.auto = FALSE], q, connected)
    ELSE Result(ShowIncoming(s, q), Silent)

OnPeerMessage(s, q, m, connected, sid) ==
    CASE m.cmd = "ONLINE"  -> OnPeerOnline(s, q)
      [] m.cmd = "REQUEST" -> OnIncomingCall(s, q, connected)
      [] m.cmd = "ACCEPT"  -> Result(OnAccept(s, q, sid), Silent)
      [] m.cmd = "REJECT"  -> Result(TearDown(ClearRing(s), "rejected"), Silent)
      [] m.cmd = "HANGUP"  -> Result(TearDown(s, "peer hangup"), Silent)
      [] m.cmd = "OFFER"   -> Result(OnOffer(s, q, m.sid), Silent)
      [] m.cmd = "ANSWER"  -> Result(OnAnswer(s, m.sid), Silent)
      [] OTHER             -> Result(s, Silent)

-----------------------------------------------------------------------------
(* Steps.  Do(p, r, bad) is a handler of phone p that ran to its next      *)
(* await: its frames go out if both ends are connected.                    *)

SidsIn(sq) == {sq[i].sid : i \in 1..Len(sq)}
PcSids     == {phone[p].pc.sid : p \in Phones}
WaitSids   == UNION {SidsIn(phone[p].waits) : p \in Phones}
FrameSids  == UNION {UNION {SidsIn(chan[p][q]) : q \in Phones} : p \in Phones}
Sids       == PcSids \cup WaitSids \cup FrameSids

FreshSid == CHOOSE n \in 1..(Cardinality(Sids) + 1) : n \notin Sids

Transmit(ch, p, out) ==
    [ch EXCEPT ![p] = [q \in Phones |-> IF up[p] /\ up[q] THEN @[q] \o out[q] ELSE @[q]]]

(* A phone in a call is amiss once a frame to it or from it was lost, its  *)
(* camera was refused, or a third phone hung up on the other end: until    *)
(* its call ends.                                                          *)
Touch(ph, more) == amiss' = {q \in amiss \cup more : ph[q].peer # None}

Missing(p, out) ==
    UNION {{p, q} : q \in {r \in Phones : out[r] # <<>> /\ ~(up[p] /\ up[r])}}

Do(p, ch, r) ==
    /\ phone' = [phone EXCEPT ![p] = r.s]
    /\ chan' = Transmit(ch, p, r.out)
    /\ Touch(phone', Missing(p, r.out))

Init ==
    /\ phone = [p \in Phones |-> Idle]
    /\ up = [p \in Phones |-> TRUE]
    /\ chan = [p \in Phones |-> [q \in Phones |-> <<>>]]
    /\ calls = 0
    /\ faults = 0
    /\ unanswered = [p \in Phones |-> {}]
    /\ amiss = {}
    /\ forgotten = FALSE

StartOutgoingCall(p, q) ==
    /\ ~phone[p].active
    /\ calls < MaxCalls
    /\ calls' = calls + 1
    /\ LET r == PlaceCall(StartCallUI(phone[p]), q)
       IN  Do(p, chan, Result([r.s EXCEPT !.rings = @ \cup {"out"}], r.out))
    /\ UNCHANGED <<up, faults, unanswered, forgotten>>

(* q rings p, and no answer of p is under way.                             *)
Rings(q, p) ==
    /\ phone[q].ringing = p
    /\ \A i \in 1..Len(chan[p][q]) : chan[p][q][i].cmd # "ACCEPT"

Accept(p) ==
    /\ phone[p].prompt # None
    /\ LET q == phone[p].prompt
       IN  Do(p, chan, AcceptIncomingCall(Mix(phone[p], "stale", ~Rings(q, p)), q, up[p]))
    /\ UNCHANGED <<up, calls, faults, unanswered, forgotten>>

Reject(p) ==
    /\ phone[p].prompt # None
    /\ LET s == Mix(phone[p], "second", phone[p].peer = phone[p].prompt)
       IN  Do(p, chan, Result(ClearIncoming(s), Send(phone[p].prompt, "REJECT")))
    /\ UNCHANGED <<up, calls, faults, unanswered, forgotten>>

PromptTimeout(p) ==
    /\ phone[p].prompt # None
    /\ Do(p, chan, Result(ClearIncoming(phone[p]), Silent))
    /\ UNCHANGED <<up, calls, faults, unanswered, forgotten>>

(* A call given up while it rings is one the callee is told of.            *)
GiveUp(p, r) ==
    /\ Do(p, chan, r)
    /\ unanswered' = [unanswered EXCEPT ![p] =
                         IF phone[p].ringing # None THEN @ \cup {phone[p].ringing} ELSE @]

EndActiveCall(p) ==
    /\ phone[p].active
    /\ GiveUp(p, HangUp(phone[p]))
    /\ UNCHANGED <<up, calls, faults, forgotten>>

RingTimeout(p) ==
    /\ phone[p].ringing # None
    /\ GiveUp(p, RingOut(phone[p]))
    /\ UNCHANGED <<up, calls, faults, forgotten>>

(* "Answer" was tapped on the push notification of a call to this phone.    *)
ArmAutoAccept(p) ==
    /\ \E q \in Phones : phone[q].ringing = p
    /\ ~phone[p].auto /\ ~phone[p].active /\ phone[p].prompt = None
    /\ phone' = [phone EXCEPT ![p].auto = TRUE]
    /\ UNCHANGED <<up, chan, calls, faults, unanswered, amiss, forgotten>>

AutoAcceptLapses(p) ==
    /\ phone[p].auto
    /\ phone' = [phone EXCEPT ![p].auto = FALSE]
    /\ UNCHANGED <<up, chan, calls, faults, unanswered, amiss, forgotten>>

(* Whoever hangs up, this phone's call is torn down: its other end is left.*)
LeftAlone(s, q, m) ==
    IF m.cmd \in {"HANGUP", "REJECT"} THEN {s.peer} \ {q, None} ELSE {}

GivenUp(p, q, m) ==
    \/ m.cmd = "OFFER" /\ phone[q].pc.sid # m.sid
    \/ m.cmd = "REQUEST" /\ phone[p].auto /\ ~Rings(q, p)

Deliver(p, q) ==
    /\ chan[q][p] # <<>>
    /\ LET m  == Head(chan[q][p])
           ch == [chan EXCEPT ![q][p] = Tail(@)]
           s  == Mix(phone[p], "stale", GivenUp(p, q, m))
           r  == OnPeerMessage(s, q, m, up[p], FreshSid)
           dropped == m.cmd = "ONLINE" /\ q \in phone[p].owed /\ q \notin r.s.owed /\ ~up[q]
       IN  /\ phone' = [phone EXCEPT ![p] = r.s]
           /\ chan' = Transmit(ch, p, r.out)
           /\ Touch(phone', Missing(p, r.out) \cup LeftAlone(phone[p], q, m))
           /\ forgotten' = (forgotten \/ dropped)
           /\ unanswered' = IF m.cmd \in {"MISSED", "REQUEST"} THEN [unanswered EXCEPT ![q] = @ \ {p}]
                            ELSE unanswered
    /\ UNCHANGED <<up, calls, faults>>

-----------------------------------------------------------------------------
(* Continuations.                                                          *)

Resumed(p, i) == [phone[p] EXCEPT !.waits =
                     SubSeq(@, 1, i - 1) \o SubSeq(@, i + 1, Len(@))]
Continue(p, i) == Mix(Resumed(p, i), "late", ~phone[p].waits[i].live)
Waiting(p, i, fns) == i \in 1..Len(phone[p].waits) /\ phone[p].waits[i].fn \in fns

GotMedia(p, i) ==
    /\ Waiting(p, i, MediaWaits)
    /\ Do(p, chan, Result(AfterMedia(Continue(p, i), phone[p].waits[i], FreshSid), Silent))
    /\ UNCHANGED <<up, calls, faults, unanswered, forgotten>>

GotSdp(p, i) ==
    /\ Waiting(p, i, {"offer", "answer"})
    /\ \E late \in BOOLEAN :
          Do(p, chan, AfterSdp(Continue(p, i), phone[p].waits[i], late))
    /\ UNCHANGED <<up, calls, faults, unanswered, forgotten>>

EnsuredConnected(p, i) ==
    /\ Waiting(p, i, {"connect"})
    /\ up[p]
    /\ LET q == phone[p].waits[i].peer
       IN  Do(p, chan, AcceptIncoming(Mix(Continue(p, i), "stale", ~Rings(q, p)), q))
    /\ UNCHANGED <<up, calls, faults, unanswered, forgotten>>

ConnectFailed(p, i) ==
    /\ Waiting(p, i, {"connect"})
    /\ ~up[p]
    /\ GiveUp(p, HangUp(Continue(p, i)))
    /\ UNCHANGED <<up, calls, faults, forgotten>>

-----------------------------------------------------------------------------
(* The connection, the network and the page.                               *)

Matched(p) == \E q \in Phones \ {p} : /\ phone[p].pc.sig = "stable" /\ phone[p].pc.sid # 0
                                       /\ phone[q].pc.sig = "stable"
                                       /\ phone[q].pc.sid = phone[p].pc.sid

Connected(p) ==
    /\ phone[p].pc.conn = "new"
    /\ Matched(p)
    /\ Do(p, chan, Result(OnState([phone[p] EXCEPT !.pc.conn = "connected"], "connected"), Silent))
    /\ UNCHANGED <<up, calls, faults, unanswered, forgotten>>

(* Faults are few, and strike before the last call is placed.              *)
Fault ==
    /\ faults < MaxFaults
    /\ calls < MaxCalls
    /\ faults' = faults + 1
    /\ UNCHANGED calls

ConnectionFails(p) ==
    /\ Fault
    /\ phone[p].pc.sig = "stable" /\ phone[p].pc.conn # "failed"
    /\ phone' = [phone EXCEPT ![p] = OnState(Mix([@ EXCEPT !.pc.conn = "failed"], "failed", TRUE), "failed")]
    /\ UNCHANGED <<up, chan, unanswered, amiss, forgotten>>

MediaRefused(p, i) ==
    /\ Fault
    /\ Waiting(p, i, MediaWaits)
    /\ phone' = [phone EXCEPT ![p] = Resumed(p, i)]
    /\ Touch(phone', {p})
    /\ UNCHANGED <<up, chan, unanswered, forgotten>>

(* Frames to p are lost, and of those it sent the relay has passed on some. *)
Cut(p, kept) == [q \in Phones |-> [r \in Phones |->
    IF r = p THEN <<>> ELSE IF q = p THEN SubSeq(chan[q][r], 1, kept[r]) ELSE chan[q][r]]]

(* The two ends of every channel that was cut.                             *)
CutOff(ch) == {q \in Phones : \E r \in Phones :
    \/ Len(ch[q][r]) < Len(chan[q][r])
    \/ Len(ch[r][q]) < Len(chan[r][q])}

(* A notice lost on the way, which its sender no longer owes.              *)
NoticeLost(ch, ph) == \E q, r \in Phones :
    /\ r \in unanswered[q] /\ r \notin ph[q].owed
    /\ \A i \in 1..Len(ch[q][r]) : ch[q][r][i].cmd # "MISSED"

Disconnect(p) ==
    /\ Fault
    /\ up[p]
    /\ up' = [up EXCEPT ![p] = FALSE]
    /\ \E all \in BOOLEAN :
          chan' = Cut(p, [r \in Phones |-> IF all THEN Len(chan[p][r]) ELSE 0])
    /\ Touch(phone, CutOff(chan'))
    /\ forgotten' = (forgotten \/ NoticeLost(chan', phone))
    /\ UNCHANGED <<phone, unanswered>>

(* pagehide: a last HANGUP; a new page starts from nothing.                *)
ClosePage(p) ==
    /\ Fault
    /\ phone' = [phone EXCEPT ![p] = Idle]
    /\ up' = [up EXCEPT ![p] = FALSE]
    /\ LET sent == Transmit(chan, p, HangUp(phone[p]).out)
       IN  chan' = [q \in Phones |-> [r \in Phones |-> IF r = p THEN <<>> ELSE sent[q][r]]]
    /\ Touch(phone', CutOff(chan') \cup Missing(p, HangUp(phone[p]).out))
    /\ forgotten' = (forgotten \/ NoticeLost(chan', phone'))
    /\ UNCHANGED unanswered

Connect(p) ==
    /\ ~up[p]
    /\ up' = [up EXCEPT ![p] = TRUE]
    /\ chan' = [q \in Phones |-> [r \in Phones |->
                  IF q # r /\ ((q = p /\ up[r]) \/ (r = p /\ up[q]))
                  THEN Append(chan[q][r], [cmd |-> "ONLINE", sid |-> 0])
                  ELSE chan[q][r]]]
    /\ UNCHANGED <<phone, calls, faults, unanswered, amiss, forgotten>>

Resume(p, i) ==
    GotMedia(p, i) \/ GotSdp(p, i) \/ EnsuredConnected(p, i) \/ ConnectFailed(p, i)

User(p) ==
    \/ \E q \in Phones \ {p} : StartOutgoingCall(p, q)
    \/ Accept(p) \/ Reject(p) \/ EndActiveCall(p)
    \/ ArmAutoAccept(p)

(* What happens of itself, once something is due.                          *)
Due(p) ==
    \/ PromptTimeout(p) \/ RingTimeout(p)
    \/ \E q \in Phones : Deliver(p, q)
    \/ \E i \in 1..Len(phone[p].waits) : Resume(p, i)
    \/ Connected(p) \/ Connect(p)

Faulty(p) ==
    \/ \E i \in 1..Len(phone[p].waits) : MediaRefused(p, i)
    \/ ConnectionFails(p) \/ Disconnect(p) \/ ClosePage(p)

Next == \E p \in Phones : User(p) \/ AutoAcceptLapses(p) \/ Due(p) \/ Faulty(p)

(* No phone stands still while something is due at one of them.            *)
Fairness == WF_vars(\E p \in Phones : Due(p))

Spec == Init /\ [][Next]_vars /\ Fairness

-----------------------------------------------------------------------------
(* Properties.                                                             *)

(* Type invariant.                                                         *)
TypeOK ==
    /\ \A p \in Phones :
         /\ phone[p].peer \in Phones \cup {None} /\ phone[p].pc \in Pc
         /\ phone[p].stream \in BOOLEAN /\ phone[p].mixed \subseteq Mixed
         /\ phone[p].ringing \in Phones \cup {None} /\ phone[p].owed \subseteq Phones
         /\ phone[p].active \in BOOLEAN /\ phone[p].prompt \in Phones \cup {None}
         /\ phone[p].rings \subseteq {"in", "out"} /\ phone[p].auto \in BOOLEAN
         /\ phone[p].waits \in Seq(Wait)
    /\ up \in [Phones -> BOOLEAN]
    /\ \A p, q \in Phones : chan[p][q] \in Seq(Frame)
    /\ calls \in 0..MaxCalls /\ faults \in 0..MaxFaults
    /\ unanswered \in [Phones -> SUBSET Phones]
    /\ amiss \subseteq Phones /\ forgotten \in BOOLEAN

(* No tone without its window, whatever crosses whatever: the incoming     *)
(* tone sounds only under the prompt ("a ringtone can NEVER play without   *)
(* its window", app.js:2166), the dialling tone only under the call window.*)
RingsHaveWindow == \A p \in Phones :
    /\ "in" \in phone[p].rings => phone[p].prompt # None
    /\ "out" \in phone[p].rings => phone[p].active

(* The camera runs only in a call whose window is open, whatever crosses,  *)
(* is refused or breaks, with three exceptions, which last until the phone *)
(* next hangs up: it was granted, or its offer made, after its call had    *)
(* been hung up; an ACCEPT or an OFFER of another call was acted on; the   *)
(* connection failed, which closes the window and nothing else.            *)
CameraNeedsCall == \A p \in Phones : phone[p].stream =>
    \/ phone[p].peer # None /\ phone[p].active
    \/ phone[p].mixed \cap {"late", "stale", "failed"} # {}

(* The 40 s ring timer, which hangs up whatever call is on, runs only in   *)
(* the unanswered call it was armed for -- unless a second call was        *)
(* accepted while it rang, or a continuation or message of another call    *)
(* was acted on: then, until the next hang-up, it may cut an answered call.*)
RingTimerOwnCall == \A p \in Phones : phone[p].ringing # None =>
    \/ /\ phone[p].peer = phone[p].ringing
       /\ phone[p].pc = NoPc
       /\ phone[p].active
    \/ phone[p].mixed \cap {"second", "late", "stale"} # {}

InTouch(p) == \E q \in Phones \ {p} :
    /\ phone[p].peer = q /\ phone[q].peer = p
    /\ phone[p].pc.conn = "connected" /\ phone[q].pc.conn = "connected"

Troubled(p) == p \in amiss \/ phone[p].mixed # {}

(* A call comes to rest: its two ends are connected with each other, or    *)
(* both have left it; nobody stays alone in "connecting", or in a call the *)
(* other end has hung up.  Excepted is a call in which one of the two ends *)
(* is mixed up or amiss -- and only that call: the next one settles again. *)
CallsSettle == []<>(\A p \in Phones :
    \/ phone[p].peer = None \/ InTouch(p)
    \/ Troubled(p) \/ Troubled(phone[p].peer))

(* Whoever missed a call hears of it in the end, by a notice or by the     *)
(* next call's ring, offline or not when it was placed.                    *)
MissedTold == []<>((\A p \in Phones : unanswered[p] = {}) \/ forgotten)
=============================================================================
