----------------------------- MODULE CallProofs -----------------------------
(***************************************************************************)
(* Calls, for any number of phones, calls, faults and messages that cross. *)
(* RingsHaveWindow is a property of each phone alone, which every handler  *)
(* keeps whatever it is called with (Good).  TypeOK follows handler by     *)
(* handler.  CameraNeedsCall and RingTimerOwnCall need what a phone knows  *)
(* of its own call, and of what got mixed into it (Sound).                 *)
(***************************************************************************)
EXTENDS Call, FiniteSetTheorems, TLAPS

Fields == {"peer", "pc", "stream", "ringing", "owed", "active", "prompt",
           "rings", "auto", "waits", "mixed"}

Good(s) ==
    /\ DOMAIN s = Fields
    /\ "in" \in s.rings => s.prompt # None
    /\ "out" \in s.rings => s.active

Inv == DOMAIN phone = Phones /\ \A p \in Phones : Good(phone[p])

-----------------------------------------------------------------------------
(* The window and the tones: an end silences them, and so does an answer.  *)

LEMMA GoodClearIncoming ==
    ASSUME NEW s, Good(s)
    PROVE  Good(ClearIncoming(s)) /\ ClearIncoming(s).rings = {}
BY DEF Good, ClearIncoming, Fields

LEMMA GoodOnState ==
    ASSUME NEW s, Good(s), NEW state
    PROVE  Good(OnState(s, state))
<1> DEFINE t == [s EXCEPT !.active = state \notin CallTerminal]
<1>1. DOMAIN t = Fields /\ t.active = (state \notin CallTerminal)
      /\ t.rings = s.rings /\ t.prompt = s.prompt
      BY DEF Good, Fields
<1>2. CASE state \in CallTerminal
  <2>1. OnState(s, state) = [t EXCEPT !.prompt = None, !.rings = {}]
        BY <1>2 DEF OnState, ClearIncoming
  <2> HIDE DEF t
  <2>2. QED
        BY <1>1, <2>1 DEF Good, Fields
<1>3. CASE state \notin CallTerminal
  <2>1. Good(t)
        BY <1>1, <1>3 DEF Good
  <2>2. OnState(s, state) = t \/ OnState(s, state) = [t EXCEPT !.rings = {}]
        BY <1>3 DEF OnState
  <2> HIDE DEF t
  <2>3. QED
        BY <2>1, <2>2 DEF Good, Fields
<1>4. QED
      BY <1>2, <1>3

\* A handler that leaves window and tones alone.
Kept(s, t) ==
    /\ DOMAIN t = Fields
    /\ t.rings = s.rings /\ t.prompt = s.prompt /\ t.active = s.active

LEMMA KeptGood ==
    ASSUME NEW s, NEW t, Good(s), Kept(s, t)
    PROVE  Good(t)
BY DEF Kept, Good

LEMMA KeptTwice ==
    ASSUME NEW s, NEW t, NEW u, Kept(s, t), Kept(t, u)
    PROVE  Kept(s, u)
BY DEF Kept

LEMMA KeptSelf == ASSUME NEW s, DOMAIN s = Fields PROVE Kept(s, s)
BY DEF Kept

LEMMA KeptAwait ==
    ASSUME NEW s, DOMAIN s = Fields, NEW fn, NEW q, NEW sid
    PROVE  Kept(s, Await(s, fn, q, sid))
BY DEF Kept, Await, Fields

LEMMA KeptMix ==
    ASSUME NEW s, DOMAIN s = Fields, NEW what, NEW cond
    PROVE  Kept(s, Mix(s, what, cond))
<1>1. Kept(s, [s EXCEPT !.mixed = @ \cup {what}])
      BY DEF Kept, Fields
<1>2. QED
      BY <1>1, KeptSelf DEF Mix

LEMMA KeptOver == ASSUME NEW s, DOMAIN s = Fields PROVE Kept(s, Over(s))
BY DEF Kept, Over, Fields

LEMMA KeptClearRing == ASSUME NEW s, DOMAIN s = Fields PROVE Kept(s, ClearRing(s))
BY DEF Kept, ClearRing, Fields

LEMMA GoodMix ==
    ASSUME NEW s, Good(s), NEW what, NEW cond
    PROVE  Good(Mix(s, what, cond))
BY KeptMix, KeptGood DEF Good

LEMMA KeptPeer == ASSUME NEW s, DOMAIN s = Fields, NEW q PROVE Kept(s, [s EXCEPT !.peer = q])
BY DEF Kept, Fields

LEMMA KeptOwed == ASSUME NEW s, DOMAIN s = Fields, NEW x PROVE Kept(s, [s EXCEPT !.owed = x])
BY DEF Kept, Fields

LEMMA KeptMakePc == ASSUME NEW s, DOMAIN s = Fields, NEW sid PROVE Kept(s, MakePc(s, sid))
BY DEF Kept, MakePc, Fields

LEMMA KeptOpenMedia == ASSUME NEW s, DOMAIN s = Fields PROVE Kept(s, OpenMedia(s))
BY DEF Kept, OpenMedia, Fields

LEMMA KeptSend ==
    ASSUME NEW s, DOMAIN s = Fields, NEW q, NEW sid
    PROVE  Kept(s, SendOffer(s, q, sid)) /\ Kept(s, SendAnswer(s, q, sid))
<1>1. Kept(s, MakePc(s, sid)) /\ DOMAIN MakePc(s, sid) = Fields
      BY KeptMakePc DEF Kept
<1>2. QED
      BY <1>1, KeptAwait, KeptTwice DEF SendOffer, SendAnswer

-----------------------------------------------------------------------------
(* CallManager *)

LEMMA GoodTearDown ==
    ASSUME NEW s, Good(s), NEW reason
    PROVE  Good(TearDown(s, reason))
<1>1. Kept(s, ClearRing(s))
      BY KeptClearRing DEF Good
<1> DEFINE r == Over(ClearRing(s))
<1>2. Kept(ClearRing(s), r)
      BY <1>1, KeptOver DEF Kept
<1> HIDE DEF r
<1>3. Kept(r, [r EXCEPT !.pc = NoPc, !.stream = FALSE, !.peer = None])
      BY <1>2 DEF Kept, Fields
<1>4. QED
      BY <1>1, <1>2, <1>3, KeptGood, GoodOnState DEF TearDown, r

LEMMA GoodHangUp ==
    ASSUME NEW s, Good(s)
    PROVE  Good(HangUp(s).s)
<1> DEFINE missed == IF s.ringing # None THEN MarkMissed(s, s.ringing) ELSE Result(s, Silent)
<1>1. missed.s = s \/ missed.s = [s EXCEPT !.owed = s.owed \cup {s.ringing}]
      BY DEF MarkMissed, Result
<1>2. HangUp(s).s = TearDown(ClearRing(missed.s), "hangup")
      BY DEF HangUp, Result
<1> HIDE DEF missed
<1>3. DOMAIN s = Fields
      BY DEF Good
<1>4. Kept(s, s) /\ Kept(s, [s EXCEPT !.owed = s.owed \cup {s.ringing}])
      BY <1>3, KeptSelf, KeptOwed
<1>5. Kept(s, missed.s)
      BY <1>1, <1>4
<1>6. Kept(missed.s, ClearRing(missed.s))
      BY <1>5, KeptClearRing DEF Kept
<1>7. QED
      BY <1>2, <1>5, <1>6, KeptGood, GoodTearDown

LEMMA GoodRingOut ==
    ASSUME NEW s, Good(s)
    PROVE  Good(RingOut(s).s)
<1>1. RingOut(s).s = HangUp(MarkMissed(s, s.ringing).s).s
      BY DEF RingOut, Result
<1>2. MarkMissed(s, s.ringing).s = [s EXCEPT !.owed = @ \cup {s.ringing}]
      BY DEF MarkMissed, Result
<1>3. Kept(s, MarkMissed(s, s.ringing).s)
      BY <1>2, KeptOwed DEF Good
<1>4. QED
      BY <1>1, <1>3, KeptGood, GoodHangUp

\* The dialling tone starts in a window that is open.
LEMMA GoodPlaceCall ==
    ASSUME NEW s, Good(s), NEW q
    PROVE  Good([PlaceCall(StartCallUI(s), q).s EXCEPT !.rings = @ \cup {"out"}])
<1> DEFINE a == StartCallUI(s)
           x == Mix(a, "second", a.peer # None)
           b == [x EXCEPT !.peer = q]
           t == OnState(b, "calling")
           r == [t EXCEPT !.ringing = q]
           u == IF r.stream THEN r ELSE Await(r, "preview", q, 0)
<1>0. DOMAIN a = Fields /\ a.rings = s.rings /\ a.prompt = s.prompt
      BY DEF StartCallUI, Good, Fields
<1>1. DOMAIN b = Fields /\ b.rings = s.rings /\ b.prompt = s.prompt
  <2>1. Kept(a, x)
        BY <1>0, KeptMix
  <2> HIDE DEF x
  <2>2. Kept(x, b)
        BY <2>1, KeptPeer DEF Kept
  <2>3. QED
        BY <1>0, <2>1, <2>2 DEF Kept
<1>2. PlaceCall(a, q).s = u
      BY DEF PlaceCall, Result
<1>3. t = [b EXCEPT !.active = TRUE]
      BY DEF OnState, CallTerminal
<1> HIDE DEF b
<1>4. DOMAIN t = Fields /\ t.rings = s.rings /\ t.prompt = s.prompt /\ t.active
      BY <1>1, <1>3 DEF Fields
<1> HIDE DEF t
<1>5. Kept(t, r)
      BY <1>4 DEF Kept, Fields
<1>6. Kept(r, u)
  <2>1. u = r \/ u = Await(r, "preview", q, 0)
        OBVIOUS
  <2>2. DOMAIN r = Fields
        BY <1>5 DEF Kept
  <2> HIDE DEF u, r
  <2>3. QED
        BY <2>1, <2>2, KeptSelf, KeptAwait
<1> HIDE DEF u, r
<1>7. DOMAIN u = Fields /\ u.rings = s.rings /\ u.prompt = s.prompt /\ u.active
      BY <1>4, <1>5, <1>6 DEF Kept
<1>8. Good([u EXCEPT !.rings = @ \cup {"out"}])
      BY <1>7 DEF Good, Fields
<1>9. QED
      BY <1>2, <1>8

LEMMA GoodAcceptIncoming ==
    ASSUME NEW s, Good(s), NEW q
    PROVE  Good(AcceptIncoming(s, q).s)
<1> DEFINE x == Mix(s, "second", s.peer # None \/ s.ringing # None)
           t == [x EXCEPT !.peer = q]
<1>1. Kept(s, t)
  <2>1. Kept(s, x)
        BY KeptMix DEF Good
  <2> HIDE DEF x
  <2>2. Kept(x, t)
        BY <2>1, KeptPeer DEF Kept
  <2>3. QED
        BY <2>1, <2>2, KeptTwice
<1>2. AcceptIncoming(s, q).s = t \/ AcceptIncoming(s, q).s = Await(t, "accept", q, 0)
      BY DEF AcceptIncoming, Result
<1> HIDE DEF t
<1>3. QED
      BY <1>1, <1>2, KeptAwait, KeptGood DEF Good, Kept

LEMMA GoodOnPeerOnline ==
    ASSUME NEW s, Good(s), NEW q
    PROVE  Good(OnPeerOnline(s, q).s)
<1>1. OnPeerOnline(s, q).s = s \/ OnPeerOnline(s, q).s = [s EXCEPT !.owed = @ \ {q}]
      BY DEF OnPeerOnline, Result
<1>2. QED
      BY <1>1, KeptOwed, KeptGood DEF Good

LEMMA GoodInitiate ==
    ASSUME NEW s, Good(s), NEW q, NEW sid
    PROVE  Good(OnAccept(s, q, sid))
<1> DEFINE x == Mix(s, "stale", StaleAccept(s, q))
           r == ClearRing(x)
           t == [r EXCEPT !.peer = q]
<1>1. Kept(s, r)
  <2>1. Kept(s, x)
        BY KeptMix DEF Good
  <2> HIDE DEF x
  <2>2. Kept(x, r)
        BY <2>1, KeptClearRing DEF Kept
  <2>3. QED
        BY <2>1, <2>2, KeptTwice
<1>2. Kept(r, t)
      BY <1>1, KeptPeer DEF Kept
<1>3. OnAccept(s, q, sid) = SendOffer(t, q, sid) \/ OnAccept(s, q, sid) = Await(t, "initiate", q, 0)
      BY DEF OnAccept, Initiate
<1> HIDE DEF t
<1>4. Kept(t, OnAccept(s, q, sid))
      BY <1>2, <1>3, KeptSend, KeptAwait DEF Kept
<1>5. QED
      BY <1>1, <1>2, <1>4, KeptGood

LEMMA GoodOnOffer ==
    ASSUME NEW s, Good(s), NEW q, NEW sid
    PROVE  Good(OnOffer(s, q, sid))
<1> DEFINE x == Mix(s, "stale", StaleOffer(s, q))
           t == [x EXCEPT !.peer = q]
<1>1. Kept(s, t)
  <2>1. Kept(s, x)
        BY KeptMix DEF Good
  <2> HIDE DEF x
  <2>2. Kept(x, t)
        BY <2>1, KeptPeer DEF Kept
  <2>3. QED
        BY <2>1, <2>2, KeptTwice
<1>2. OnOffer(s, q, sid) = SendAnswer(t, q, sid) \/ OnOffer(s, q, sid) = Await(t, "on_offer", q, sid)
      BY DEF OnOffer
<1> HIDE DEF t
<1>3. Kept(t, OnOffer(s, q, sid))
      BY <1>1, <1>2, KeptSend, KeptAwait DEF Kept
<1>4. QED
      BY <1>1, <1>3, KeptGood

LEMMA GoodOnAnswer ==
    ASSUME NEW s, Good(s), NEW sid
    PROVE  Good(OnAnswer(s, sid))
<1>1. Kept(s, OnAnswer(s, sid))
      BY DEF Kept, Good, OnAnswer, Fields
<1>2. QED
      BY <1>1, KeptGood

LEMMA GoodAfterMedia ==
    ASSUME NEW s, Good(s), NEW w, NEW sid
    PROVE  Good(AfterMedia(s, w, sid))
<1> DEFINE t == OpenMedia(s)
<1>1. Kept(s, t)
      BY KeptOpenMedia DEF Good
<1>2. \/ AfterMedia(s, w, sid) = SendOffer(t, w.peer, sid)
      \/ AfterMedia(s, w, sid) = SendAnswer(t, w.peer, w.sid)
      \/ AfterMedia(s, w, sid) = t
      BY DEF AfterMedia
<1> HIDE DEF t
<1>3. Kept(t, AfterMedia(s, w, sid))
      BY <1>1, <1>2, KeptSend, KeptSelf DEF Kept
<1>4. QED
      BY <1>1, <1>3, KeptGood

LEMMA GoodAfterSdp ==
    ASSUME NEW s, Good(s), NEW w, NEW late
    PROVE  Good(AfterSdp(s, w, late).s)
<1> DEFINE sig == IF w.fn = "offer" THEN "offered" ELSE "stable"
           t == [s EXCEPT !.pc.sig = sig]
<1>1. Kept(s, t)
      BY DEF Kept, Good, Fields
<1>2. \/ AfterSdp(s, w, late).s = OnState(t, "connecting")
      \/ AfterSdp(s, w, late).s = OnState(s, "connecting")
      \/ AfterSdp(s, w, late).s = s
      BY DEF AfterSdp, Result
<1> HIDE DEF t
<1>3. QED
      BY <1>1, <1>2, KeptGood, GoodOnState

-----------------------------------------------------------------------------
(* The prompt *)

LEMMA GoodShowIncoming ==
    ASSUME NEW s, Good(s), NEW q \in Phones
    PROVE  Good(ShowIncoming(s, q))
<1>1. q # None
      BY CallAssumption
<1>2. CASE s.prompt # None
      BY <1>2 DEF ShowIncoming
<1>3. CASE s.prompt = None
      BY <1>1, <1>3 DEF ShowIncoming, Good, Fields
<1>4. QED
      BY <1>2, <1>3

LEMMA GoodAcceptIncomingCall ==
    ASSUME NEW s, Good(s), NEW q, NEW connected
    PROVE  Good(AcceptIncomingCall(s, q, connected).s)
<1> DEFINE c == ClearIncoming(s)
           t == StartCallUI(c)
<1>1. Good(c) /\ c.rings = {}
      BY GoodClearIncoming
<1>2. Good(t)
      BY <1>1 DEF StartCallUI, Good, Fields
<1>3. \/ AcceptIncomingCall(s, q, connected).s = AcceptIncoming(t, q).s
      \/ AcceptIncomingCall(s, q, connected).s = Await(t, "connect", q, 0)
      BY DEF AcceptIncomingCall, Result
<1> HIDE DEF t
<1>4. Good(AcceptIncoming(t, q).s) /\ Good(Await(t, "connect", q, 0))
      BY <1>2, GoodAcceptIncoming, KeptAwait, KeptGood DEF Good
<1>5. QED
      BY <1>3, <1>4

LEMMA GoodOnIncomingCall ==
    ASSUME NEW s, Good(s), NEW q \in Phones, NEW connected
    PROVE  Good(OnIncomingCall(s, q, connected).s)
<1> DEFINE t == [s EXCEPT !.auto = FALSE]
<1>1. Kept(s, t)
      BY DEF Kept, Good, Fields
<1>2. \/ OnIncomingCall(s, q, connected).s = AcceptIncomingCall(t, q, connected).s
      \/ OnIncomingCall(s, q, connected).s = ShowIncoming(s, q)
      BY DEF OnIncomingCall, Result
<1> HIDE DEF t
<1>3. QED
      BY <1>1, <1>2, KeptGood, GoodAcceptIncomingCall, GoodShowIncoming

LEMMA GoodOnPeerMessage ==
    ASSUME NEW s, Good(s), NEW q \in Phones, NEW m, NEW connected, NEW sid
    PROVE  Good(OnPeerMessage(s, q, m, connected, sid).s)
<1> DEFINE t == OnPeerMessage(s, q, m, connected, sid).s
<1>1. \/ t = OnPeerOnline(s, q).s
      \/ t = OnIncomingCall(s, q, connected).s
      \/ t = OnAccept(s, q, sid)
      \/ t = TearDown(ClearRing(s), "rejected")
      \/ t = TearDown(s, "peer hangup")
      \/ t = OnOffer(s, q, m.sid)
      \/ t = OnAnswer(s, m.sid)
      \/ t = s
      BY DEF OnPeerMessage, Result
<1>2. Good(ClearRing(s))
      BY KeptClearRing, KeptGood DEF Good
<1> HIDE DEF t
<1>3. Good(t)
      BY <1>1, <1>2, GoodOnPeerOnline, GoodOnIncomingCall, GoodInitiate, GoodTearDown,
         GoodOnOffer, GoodOnAnswer
<1>4. QED
      BY <1>3 DEF t

-----------------------------------------------------------------------------
(* The steps: one phone changes, and is good afterwards.                   *)

LEMMA InvOnePhone ==
    ASSUME Inv, NEW p \in Phones, NEW s, Good(s), phone' = [phone EXCEPT ![p] = s]
    PROVE  Inv'
BY DEF Inv

LEMMA InvDo ==
    ASSUME Inv, NEW p \in Phones, NEW ch, NEW r, Good(r.s), Do(p, ch, r)
    PROVE  Inv'
BY InvOnePhone DEF Do

LEMMA GoodResumed ==
    ASSUME Inv, NEW p \in Phones, NEW i
    PROVE  Good(Resumed(p, i)) /\ Good(Continue(p, i))
<1>1. Good(Resumed(p, i))
      BY DEF Inv, Good, Resumed, Fields
<1>2. QED
      BY <1>1, GoodMix DEF Continue

LEMMA ResultOf == ASSUME NEW s, NEW out PROVE Result(s, out).s = s
BY DEF Result

LEMMA InvUser ==
    ASSUME Inv, NEW p \in Phones, User(p)
    PROVE  Inv'
<1>1. Good(phone[p])
      BY DEF Inv
<1>2. ASSUME NEW q \in Phones \ {p}, StartOutgoingCall(p, q) PROVE Inv'
  <2> DEFINE r == PlaceCall(StartCallUI(phone[p]), q)
             s == [r.s EXCEPT !.rings = @ \cup {"out"}]
  <2>1. Good(Result(s, r.out).s)
        BY <1>1, GoodPlaceCall, ResultOf
  <2>2. Do(p, chan, Result(s, r.out))
        BY <1>2 DEF StartOutgoingCall
  <2> HIDE DEF r, s
  <2>3. QED
        BY <2>1, <2>2, InvDo
<1>3. CASE Accept(p)
  <2>1. \A cond : Good(AcceptIncomingCall(Mix(phone[p], "stale", cond), phone[p].prompt, up[p]).s)
        BY <1>1, GoodMix, GoodAcceptIncomingCall
  <2>2. QED
        BY <1>3, <2>1, InvDo DEF Accept
<1>4. CASE Reject(p)
  <2>1. \A cond : Good(Result(ClearIncoming(Mix(phone[p], "second", cond)),
                              Send(phone[p].prompt, "REJECT")).s)
        BY <1>1, GoodMix, GoodClearIncoming, ResultOf
  <2>2. QED
        BY <1>4, <2>1, InvDo DEF Reject
<1>5. CASE EndActiveCall(p)
      BY <1>1, <1>5, GoodHangUp, InvDo DEF EndActiveCall, GiveUp
<1>6. CASE ArmAutoAccept(p)
      BY <1>6 DEF ArmAutoAccept, Inv, Good, Fields
<1>7. QED
      BY <1>2, <1>3, <1>4, <1>5, <1>6 DEF User

LEMMA InvResume ==
    ASSUME Inv, NEW p \in Phones, NEW i, Resume(p, i)
    PROVE  Inv'
<1> DEFINE s == Continue(p, i)  w == phone[p].waits[i]
<1>1. Good(s)
      BY GoodResumed
<1> HIDE DEF s, w
<1>2. CASE GotMedia(p, i)
  <2>1. Good(Result(AfterMedia(s, w, FreshSid), Silent).s)
        BY <1>1, GoodAfterMedia, ResultOf
  <2>2. QED
        BY <1>2, <2>1, InvDo DEF GotMedia, s, w
<1>3. CASE GotSdp(p, i)
  <2>1. PICK late \in BOOLEAN : Do(p, chan, AfterSdp(s, w, late))
        BY <1>3 DEF GotSdp, s, w
  <2>2. QED
        BY <1>1, <2>1, GoodAfterSdp, InvDo
<1>4. CASE EnsuredConnected(p, i)
  <2>1. \A cond : Good(AcceptIncoming(Mix(s, "stale", cond), w.peer).s)
        BY <1>1, GoodMix, GoodAcceptIncoming
  <2>2. QED
        BY <1>4, <2>1, InvDo DEF EnsuredConnected, s, w
<1>5. CASE ConnectFailed(p, i)
  <2>1. Good(HangUp(s).s)
        BY <1>1, GoodHangUp
  <2>2. QED
        BY <1>5, <2>1, InvDo DEF ConnectFailed, GiveUp, s
<1>6. QED
      BY <1>2, <1>3, <1>4, <1>5 DEF Resume

LEMMA InvDue ==
    ASSUME Inv, NEW p \in Phones, Due(p)
    PROVE  Inv'
<1>1. Good(phone[p])
      BY DEF Inv
<1>2. CASE PromptTimeout(p)
  <2>1. Good(Result(ClearIncoming(phone[p]), Silent).s)
        BY <1>1, GoodClearIncoming, ResultOf
  <2>2. QED
        BY <1>2, <2>1, InvDo DEF PromptTimeout
<1>3. CASE RingTimeout(p)
      BY <1>1, <1>3, GoodRingOut, InvDo DEF RingTimeout, GiveUp
<1>4. ASSUME NEW q \in Phones, Deliver(p, q) PROVE Inv'
  <2> DEFINE s == Mix(phone[p], "stale", GivenUp(p, q, Head(chan[q][p])))
  <2>1. PICK r : r = OnPeerMessage(s, q, Head(chan[q][p]), up[p], FreshSid)
        OBVIOUS
  <2>2. Good(r.s)
    <3>1. Good(s)
          BY <1>1, GoodMix
    <3> HIDE DEF s
    <3>2. QED
          BY <2>1, <3>1, GoodOnPeerMessage
  <2>3. phone' = [phone EXCEPT ![p] = r.s]
        BY <1>4, <2>1 DEF Deliver
  <2>4. QED
        BY <2>2, <2>3, InvOnePhone
<1>5. ASSUME NEW i, Resume(p, i) PROVE Inv'
      BY <1>5, InvResume
<1>6. CASE Connected(p)
  <2> DEFINE s == [phone[p] EXCEPT !.pc.conn = "connected"]
  <2>1. Kept(phone[p], s)
        BY <1>1 DEF Kept, Good, Fields
  <2> HIDE DEF s
  <2>2. Good(Result(OnState(s, "connected"), Silent).s)
        BY <1>1, <2>1, KeptGood, GoodOnState, ResultOf
  <2>3. QED
        BY <1>6, <2>2, InvDo DEF Connected, s
<1>7. CASE Connect(p)
      BY <1>7 DEF Connect, Inv
<1>8. QED
      BY <1>2, <1>3, <1>4, <1>5, <1>6, <1>7 DEF Due

LEMMA InvFaulty ==
    ASSUME Inv, NEW p \in Phones, Faulty(p)
    PROVE  Inv'
<1>1. Good(phone[p])
      BY DEF Inv
<1>2. ASSUME NEW i, MediaRefused(p, i) PROVE Inv'
  <2>1. phone' = [phone EXCEPT ![p] = Resumed(p, i)]
        BY <1>2 DEF MediaRefused
  <2>2. QED
        BY <2>1, GoodResumed, InvOnePhone
<1>3. CASE ConnectionFails(p)
  <2> DEFINE s == [phone[p] EXCEPT !.pc.conn = "failed"]
             t == OnState(Mix(s, "failed", TRUE), "failed")
  <2>1. Kept(phone[p], s)
        BY <1>1 DEF Kept, Good, Fields
  <2>2. phone' = [phone EXCEPT ![p] = t]
        BY <1>3 DEF ConnectionFails, Inv
  <2> HIDE DEF s
  <2>3. Good(t)
        BY <1>1, <2>1, KeptGood, GoodMix, GoodOnState
  <2> HIDE DEF t
  <2>4. QED
        BY <2>2, <2>3, InvOnePhone
<1>4. CASE Disconnect(p)
      BY <1>4 DEF Disconnect, Inv
<1>5. CASE ClosePage(p)
  <2>1. Good(Idle)
        BY DEF Good, Idle, Fields
  <2>2. phone' = [phone EXCEPT ![p] = Idle]
        BY <1>5 DEF ClosePage
  <2>3. QED
        BY <2>1, <2>2, InvOnePhone
<1>6. QED
      BY <1>2, <1>3, <1>4, <1>5 DEF Faulty

LEMMA InvInit == Init => Inv
BY DEF Init, Inv, Good, Idle, Fields

LEMMA InvNext == Inv /\ [Next]_vars => Inv'
<1> SUFFICES ASSUME Inv, [Next]_vars
             PROVE  Inv'
    OBVIOUS
<1>1. ASSUME NEW p \in Phones, AutoAcceptLapses(p) PROVE Inv'
      BY <1>1 DEF AutoAcceptLapses, Inv, Good, Fields
<1>2. CASE UNCHANGED vars
      BY <1>2 DEF vars, Inv
<1>3. QED
      BY <1>1, <1>2, InvUser, InvDue, InvFaulty DEF Next

(* A ringtone never plays without its window (app.js:2166): the incoming   *)
(* tone only under the prompt, the dialling tone only under the call       *)
(* window, for any number of phones and whatever their messages cross.     *)
THEOREM CallRingsHaveWindow == Spec => []RingsHaveWindow
<1>1. Inv => RingsHaveWindow
      BY DEF Inv, Good, RingsHaveWindow
<1>2. QED
      BY <1>1, InvInit, InvNext, PTL DEF Spec
-----------------------------------------------------------------------------
(* Types.  What a phone is, and what a handler hands out.                  *)

PhoneType == [peer : Phones \cup {None}, pc : Pc, stream : BOOLEAN,
              ringing : Phones \cup {None}, owed : SUBSET Phones, active : BOOLEAN,
              prompt : Phones \cup {None}, rings : SUBSET {"in", "out"},
              auto : BOOLEAN, waits : Seq(Wait), mixed : SUBSET Mixed]
OutType   == [Phones -> Seq(Frame)]
Typed(r)  == r.s \in PhoneType /\ r.out \in OutType

LEMMA PcTypes ==
    /\ NoPc \in Pc
    /\ \A pc \in Pc : /\ \A x \in Signalling : [pc EXCEPT !.sig = x] \in Pc
                      /\ \A n \in Nat : [pc EXCEPT !.sid = n] \in Pc
                      /\ \A x \in {"new", "connected", "failed"} : [pc EXCEPT !.conn = x] \in Pc
    /\ \A n \in Nat : [sig |-> "new", sid |-> n, conn |-> "new"] \in Pc
BY DEF NoPc, Pc, Signalling

\* Updating one field keeps the type.
LEMMA FieldTypes ==
    ASSUME NEW s \in PhoneType
    PROVE  /\ \A q \in Phones \cup {None} : /\ [s EXCEPT !.peer = q] \in PhoneType
                                          /\ [s EXCEPT !.ringing = q] \in PhoneType
                                          /\ [s EXCEPT !.prompt = q] \in PhoneType
           /\ \A pc \in Pc : [s EXCEPT !.pc = pc] \in PhoneType
           /\ \A b \in BOOLEAN : /\ [s EXCEPT !.stream = b] \in PhoneType
                               /\ [s EXCEPT !.active = b] \in PhoneType
                               /\ [s EXCEPT !.auto = b] \in PhoneType
           /\ \A Q \in SUBSET Phones : [s EXCEPT !.owed = Q] \in PhoneType
           /\ \A R \in SUBSET {"in", "out"} : [s EXCEPT !.rings = R] \in PhoneType
           /\ \A w \in Seq(Wait) : [s EXCEPT !.waits = w] \in PhoneType
           /\ \A M \in SUBSET Mixed : [s EXCEPT !.mixed = M] \in PhoneType
BY DEF PhoneType

LEMMA TypedMix ==
    ASSUME NEW s \in PhoneType, NEW what \in Mixed, NEW cond
    PROVE  Mix(s, what, cond) \in PhoneType
<1>1. s.mixed \cup {what} \in SUBSET Mixed
  BY DEF PhoneType
<1>. QED BY <1>1, FieldTypes DEF Mix

LEMMA TypedOver ==
    ASSUME NEW s \in PhoneType
    PROVE  Over(s) \in PhoneType
<1> DEFINE w == [i \in DOMAIN s.waits |-> [s.waits[i] EXCEPT !.live = FALSE]]
<1>1. s.waits \in Seq(Wait)
  BY DEF PhoneType
<1>2. \A x \in Wait : [x EXCEPT !.live = FALSE] \in Wait
  BY DEF Wait
<1>3. w \in Seq(Wait)
  BY <1>1, <1>2
<1>4. Over(s) = [s EXCEPT !.mixed = {}, !.waits = w]
  BY DEF Over
<1> HIDE DEF w
<1>. QED BY <1>3, <1>4 DEF PhoneType

LEMMA TypedSend ==
    /\ Silent \in OutType
    /\ \A q \in Phones, cmd \in Cmds, sid \in Nat :
          Send(q, cmd) \in OutType /\ SendSdp(q, cmd, sid) \in OutType
    /\ \A out, more \in OutType : Both(out, more) \in OutType
<1>1. Silent \in OutType
  BY DEF Silent, OutType
<1>2. ASSUME NEW q \in Phones, NEW cmd \in Cmds, NEW sid \in Nat
      PROVE  SendSdp(q, cmd, sid) \in OutType
  <2>1. <<[cmd |-> cmd, sid |-> sid]>> \in Seq(Frame)
    BY DEF Frame
  <2> HIDE DEF Silent
  <2>. QED BY <1>1, <2>1 DEF SendSdp, OutType
<1>3. ASSUME NEW out \in OutType, NEW more \in OutType PROVE Both(out, more) \in OutType
  BY DEF OutType, Both
<1>. QED BY <1>1, <1>2, <1>3 DEF Send

LEMMA TypedClear ==
    ASSUME NEW s \in PhoneType
    PROVE  /\ ClearIncoming(s) \in PhoneType /\ ClearRing(s) \in PhoneType
           /\ StartCallUI(s) \in PhoneType
BY FieldTypes DEF ClearIncoming, ClearRing, StartCallUI

LEMMA TypedOnState ==
    ASSUME NEW s \in PhoneType, NEW state
    PROVE  OnState(s, state) \in PhoneType
BY FieldTypes, TypedClear DEF OnState

LEMMA TypedTearDown ==
    ASSUME NEW s \in PhoneType, NEW reason
    PROVE  TearDown(s, reason) \in PhoneType
<1> DEFINE r == Over(ClearRing(s))
<1>1. r \in PhoneType
  BY TypedClear, TypedOver
<1> HIDE DEF r
<1>2. [r EXCEPT !.pc = NoPc, !.stream = FALSE, !.peer = None] \in PhoneType
  BY <1>1, PcTypes DEF PhoneType
<1>. QED BY <1>2, TypedOnState DEF TearDown, r

LEMMA TypedAwait ==
    ASSUME NEW s \in PhoneType, NEW fn \in Awaits, NEW q \in Phones, NEW sid \in Nat
    PROVE  Await(s, fn, q, sid) \in PhoneType
<1>1. Append(s.waits, [fn |-> fn, peer |-> q, sid |-> sid, live |-> TRUE]) \in Seq(Wait)
  BY DEF PhoneType, Wait
<1>. QED BY <1>1, FieldTypes DEF Await

LEMMA TypedHangUp ==
    ASSUME NEW s \in PhoneType
    PROVE  Typed(HangUp(s)) /\ (s.ringing # None => Typed(RingOut(s)))
<1>1. ASSUME NEW t \in PhoneType, NEW q \in Phones PROVE Typed(MarkMissed(t, q))
  <2>1. t.owed \cup {q} \in SUBSET Phones
    BY DEF PhoneType
  <2>2. [t EXCEPT !.owed = t.owed \cup {q}] \in PhoneType /\ Send(q, "MISSED") \in OutType
    BY <2>1, FieldTypes, TypedSend DEF Cmds
  <2>. QED BY <2>2 DEF MarkMissed, Result, Typed
<1>2. ASSUME NEW t \in PhoneType PROVE Typed(HangUp(t))
  <2> DEFINE missed == IF t.ringing # None THEN MarkMissed(t, t.ringing)
                                           ELSE Result(t, Silent)
             bye    == IF t.peer # None THEN Send(t.peer, "HANGUP") ELSE Silent
  <2>1. Typed(missed)
    BY <1>1, TypedSend DEF Result, Typed, PhoneType
  <2>2. bye \in OutType
    BY TypedSend DEF PhoneType, Cmds
  <2>3. HangUp(t) = Result(TearDown(ClearRing(missed.s), "hangup"), Both(missed.out, bye))
    BY DEF HangUp
  <2> HIDE DEF missed, bye
  <2>. QED
    BY <2>1, <2>2, <2>3, TypedClear, TypedTearDown, TypedSend DEF Typed, Result
<1>3. CASE s.ringing # None
  <2>1. Typed(MarkMissed(s, s.ringing))
    BY <1>1, <1>3 DEF PhoneType
  <2>. QED BY <1>2, <2>1, TypedSend DEF RingOut, Typed, Result
<1>. QED BY <1>2, <1>3

LEMMA TypedCalling ==
    ASSUME NEW s \in PhoneType, NEW q \in Phones
    PROVE  Typed(PlaceCall(s, q)) /\ Typed(AcceptIncoming(s, q)) /\ Typed(OnPeerOnline(s, q))
<1> USE DEF Typed, Result
<1>1. Typed(PlaceCall(s, q))
  <2> DEFINE x == Mix(s, "second", s.peer # None)
             r == [OnState([x EXCEPT !.peer = q], "calling") EXCEPT !.ringing = q]
  <2>1. r \in PhoneType
    <3>1. x \in PhoneType
      BY TypedMix DEF Mixed
    <3> HIDE DEF x
    <3>. QED BY <3>1, FieldTypes, TypedOnState
  <2>2. PlaceCall(s, q) = Result(IF r.stream THEN r ELSE Await(r, "preview", q, 0),
                                 Send(q, "REQUEST"))
    BY DEF PlaceCall
  <2> HIDE DEF r
  <2>. QED BY <2>1, <2>2, TypedAwait, TypedSend DEF Awaits, Cmds
<1>2. Typed(AcceptIncoming(s, q))
  <2> DEFINE x == Mix(s, "second", s.peer # None \/ s.ringing # None)
             t == [x EXCEPT !.peer = q]
  <2>1. t \in PhoneType
    <3>1. x \in PhoneType
      BY TypedMix DEF Mixed
    <3> HIDE DEF x
    <3>. QED BY <3>1, FieldTypes
  <2>2. AcceptIncoming(s, q) = Result(IF t.stream THEN t ELSE Await(t, "accept", q, 0),
                                      Send(q, "ACCEPT"))
    BY DEF AcceptIncoming
  <2> HIDE DEF t
  <2>. QED BY <2>1, <2>2, TypedAwait, TypedSend DEF Awaits, Cmds
<1>3. Typed(OnPeerOnline(s, q))
  <2>1. s.owed \ {q} \in SUBSET Phones
    BY DEF PhoneType
  <2>2. [s EXCEPT !.owed = s.owed \ {q}] \in PhoneType
    BY <2>1, FieldTypes
  <2>3. Send(q, "REQUEST") \in OutType /\ Send(q, "MISSED") \in OutType /\ Silent \in OutType
    BY TypedSend DEF Cmds
  <2>. QED BY <2>2, <2>3 DEF OnPeerOnline
<1>. QED BY <1>1, <1>2, <1>3

LEMMA TypedSignalling ==
    ASSUME NEW s \in PhoneType, NEW q \in Phones, NEW sid \in Nat
    PROVE  /\ SendOffer(s, q, sid) \in PhoneType /\ SendAnswer(s, q, sid) \in PhoneType
           /\ OnAccept(s, q, sid) \in PhoneType /\ OnOffer(s, q, sid) \in PhoneType
           /\ OnAnswer(s, sid) \in PhoneType /\ OpenMedia(s) \in PhoneType
<1>1. ASSUME NEW t \in PhoneType PROVE MakePc(t, sid) \in PhoneType
  BY PcTypes, FieldTypes DEF MakePc
<1>2. ASSUME NEW t \in PhoneType
      PROVE  SendOffer(t, q, sid) \in PhoneType /\ SendAnswer(t, q, sid) \in PhoneType
  BY <1>1, TypedAwait DEF SendOffer, SendAnswer, Awaits
<1>3. OnAccept(s, q, sid) \in PhoneType
  <2> DEFINE x == ClearRing(Mix(s, "stale", StaleAccept(s, q)))
  <2>1. x \in PhoneType
    BY TypedMix, TypedClear DEF Mixed
  <2> HIDE DEF x
  <2>2. Initiate(x, q, sid) \in PhoneType
    BY <1>2, <2>1, FieldTypes, TypedAwait DEF Initiate, Awaits
  <2>. QED BY <2>2 DEF OnAccept, x
<1>4. OnOffer(s, q, sid) \in PhoneType
  <2> DEFINE x == Mix(s, "stale", StaleOffer(s, q))
             t == [x EXCEPT !.peer = q]
  <2>1. t \in PhoneType
    BY TypedMix, FieldTypes DEF Mixed
  <2>2. OnOffer(s, q, sid) = IF t.stream THEN SendAnswer(t, q, sid)
                                          ELSE Await(t, "on_offer", q, sid)
    BY DEF OnOffer
  <2> HIDE DEF t
  <2>. QED BY <1>2, <2>1, <2>2, TypedAwait DEF Awaits
<1>5. OnAnswer(s, sid) \in PhoneType
  <2> DEFINE n == IF s.pc.sid = sid THEN s.pc.sid ELSE 0
             pc == [[s.pc EXCEPT !.sig = "stable"] EXCEPT !.sid = n]
  <2>1. pc \in Pc
    BY DEF PhoneType, Pc, Signalling
  <2>2. OnAnswer(s, sid) = s \/ OnAnswer(s, sid) = [s EXCEPT !.pc = pc]
    BY DEF OnAnswer, PhoneType, Pc
  <2> HIDE DEF pc
  <2>. QED BY <2>1, <2>2, FieldTypes
<1>6. OpenMedia(s) \in PhoneType
  BY FieldTypes DEF OpenMedia
<1>. QED BY <1>2, <1>3, <1>4, <1>5, <1>6

LEMMA TypedWaits ==
    ASSUME NEW s \in PhoneType, NEW w \in Wait, NEW sid \in Nat, NEW late
    PROVE  AfterMedia(s, w, sid) \in PhoneType /\ Typed(AfterSdp(s, w, late))
<1>1. w.peer \in Phones /\ w.sid \in Nat
  BY DEF Wait
<1>2. AfterMedia(s, w, sid) \in PhoneType
  <2>1. OpenMedia(s) \in PhoneType
    BY <1>1, TypedSignalling
  <2>. QED BY <1>1, <2>1, TypedSignalling DEF AfterMedia
<1>3. Typed(AfterSdp(s, w, late))
  <2> DEFINE send == SendSdp(w.peer, IF w.fn = "offer" THEN "OFFER" ELSE "ANSWER", w.sid)
             sig  == IF w.fn = "offer" THEN "offered" ELSE "stable"
             pc   == [s.pc EXCEPT !.sig = sig]
             t    == [s EXCEPT !.pc = pc]
  <2>1. send \in OutType /\ Silent \in OutType
    BY <1>1, TypedSend DEF Cmds
  <2>2. t \in PhoneType
    <3>1. pc \in Pc
      BY DEF PhoneType, Pc, Signalling
    <3> HIDE DEF pc
    <3>. QED BY <3>1, FieldTypes
  <2>3. t = [s EXCEPT !.pc.sig = sig]
    OBVIOUS
  <2>4. AfterSdp(s, w, late) = IF s.pc.sid = w.sid /\ s.pc.sig = "new"
                               THEN Result(OnState(t, "connecting"), send)
                               ELSE IF late /\ s.pc # NoPc
                               THEN Result(OnState(s, "connecting"), send)
                               ELSE Result(s, Silent)
    BY <2>3 DEF AfterSdp
  <2> HIDE DEF t, send
  <2>. QED BY <2>1, <2>2, <2>4, TypedOnState DEF Typed, Result
<1>. QED BY <1>2, <1>3

LEMMA TypedPrompt ==
    ASSUME NEW s \in PhoneType, NEW q \in Phones, NEW connected
    PROVE  /\ Typed(AcceptIncomingCall(s, q, connected))
           /\ Typed(OnIncomingCall(s, q, connected))
<1>1. ASSUME NEW t \in PhoneType PROVE Typed(AcceptIncomingCall(t, q, connected))
  <2> DEFINE u == StartCallUI(ClearIncoming(t))
  <2>1. u \in PhoneType
    BY TypedClear
  <2> HIDE DEF u
  <2>2. Await(u, "connect", q, 0) \in PhoneType
    BY <2>1, TypedAwait DEF Awaits
  <2>. QED
    BY <2>1, <2>2, TypedCalling, TypedSend DEF AcceptIncomingCall, Typed, Result, u
<1>2. ShowIncoming(s, q) \in PhoneType
  <2>1. s.rings \cup {"in"} \in SUBSET {"in", "out"}
    BY DEF PhoneType
  <2>. QED BY <2>1 DEF ShowIncoming, PhoneType
<1>3. [s EXCEPT !.auto = FALSE] \in PhoneType
  BY FieldTypes
<1>. QED BY <1>1, <1>2, <1>3, TypedSend DEF OnIncomingCall, Typed, Result

LEMMA TypedOnPeerMessage ==
    ASSUME NEW s \in PhoneType, NEW q \in Phones, NEW m \in Frame, NEW connected,
           NEW sid \in Nat
    PROVE  Typed(OnPeerMessage(s, q, m, connected, sid))
<1> DEFINE r == OnPeerMessage(s, q, m, connected, sid)
<1>1. \/ r = OnPeerOnline(s, q)
      \/ r = OnIncomingCall(s, q, connected)
      \/ r = Result(OnAccept(s, q, sid), Silent)
      \/ r = Result(TearDown(ClearRing(s), "rejected"), Silent)
      \/ r = Result(TearDown(s, "peer hangup"), Silent)
      \/ r = Result(OnOffer(s, q, m.sid), Silent)
      \/ r = Result(OnAnswer(s, m.sid), Silent)
      \/ r = Result(s, Silent)
  BY DEF OnPeerMessage
<1>2. m.sid \in Nat
  BY DEF Frame
<1>3. ClearRing(s) \in PhoneType
  BY TypedClear
<1>4. /\ Typed(OnPeerOnline(s, q)) /\ Typed(OnIncomingCall(s, q, connected))
      /\ OnAccept(s, q, sid) \in PhoneType /\ OnOffer(s, q, m.sid) \in PhoneType
      /\ OnAnswer(s, m.sid) \in PhoneType
      /\ TearDown(ClearRing(s), "rejected") \in PhoneType
      /\ TearDown(s, "peer hangup") \in PhoneType
  BY <1>2, <1>3, TypedCalling, TypedPrompt, TypedSignalling, TypedTearDown
<1>5. \A t \in PhoneType : Typed(Result(t, Silent))
  BY TypedSend DEF Typed, Result
<1> HIDE DEF r
<1>6. Typed(r)
  BY <1>1, <1>4, <1>5
<1>. QED BY <1>6 DEF r

TypeInv ==
    /\ phone \in [Phones -> PhoneType]
    /\ up \in [Phones -> BOOLEAN]
    /\ chan \in [Phones -> OutType]
    /\ calls \in 0..MaxCalls /\ faults \in 0..MaxFaults
    /\ unanswered \in [Phones -> SUBSET Phones]
    /\ amiss \subseteq Phones /\ forgotten \in BOOLEAN

-----------------------------------------------------------------------------
(* A number for the next offer: as only finitely many are about, there is  *)
(* one that none of them has.                                              *)

LEMMA FiniteRange ==
    ASSUME NEW S, IsFiniteSet(S), NEW f, f = [x \in S |-> f[x]]
    PROVE  IsFiniteSet({f[x] : x \in S})
<1> DEFINE T == {f[x] : x \in S}
<1>1. f \in [S -> T]
  OBVIOUS
<1>2. \A t \in T : \E x \in S : f[x] = t
  OBVIOUS
<1> HIDE DEF T
<1>3. f \in Surjection(S, T)
  BY <1>1, <1>2 DEF Surjection
<1>4. IsFiniteSet(T)
  BY <1>3, FS_Surjection
<1>. QED BY <1>4 DEF T

LEMMA FiniteUnion ==
    ASSUME NEW f, f = [p \in Phones |-> f[p]], \A p \in Phones : IsFiniteSet(f[p])
    PROVE  IsFiniteSet(UNION {f[p] : p \in Phones})
<1>1. IsFiniteSet({f[p] : p \in Phones})
  BY CallAssumption, FiniteRange
<1>2. \A x \in {f[p] : p \in Phones} : IsFiniteSet(x)
  OBVIOUS
<1>. QED BY <1>1, <1>2, FS_UNION

LEMMA FiniteSidsIn ==
    ASSUME NEW sq, Len(sq) \in Nat
    PROVE  IsFiniteSet(SidsIn(sq))
<1> DEFINE f == [i \in 1..Len(sq) |-> sq[i].sid]
<1>1. IsFiniteSet(1..Len(sq)) /\ f = [i \in 1..Len(sq) |-> f[i]]
  BY FS_Interval
<1>2. SidsIn(sq) = {f[i] : i \in 1..Len(sq)}
  BY DEF SidsIn
<1> HIDE DEF f
<1>. QED BY <1>1, <1>2, FiniteRange

LEMMA SidsFinite == TypeInv => IsFiniteSet(Sids)
<1> SUFFICES ASSUME TypeInv PROVE IsFiniteSet(Sids)
  OBVIOUS
<1>1. IsFiniteSet(PcSids)
  <2> DEFINE f == [p \in Phones |-> phone[p].pc.sid]
  <2>1. /\ f = [p \in Phones |-> f[p]]
        /\ PcSids = {f[p] : p \in Phones}
    BY DEF PcSids
  <2> HIDE DEF f
  <2>. QED BY <2>1, CallAssumption, FiniteRange
<1>2. IsFiniteSet(WaitSids)
  <2> DEFINE f == [p \in Phones |-> SidsIn(phone[p].waits)]
  <2>1. \A p \in Phones : Len(phone[p].waits) \in Nat
    BY DEF TypeInv, PhoneType
  <2>2. /\ f = [p \in Phones |-> f[p]]
        /\ {SidsIn(phone[p].waits) : p \in Phones} = {f[p] : p \in Phones}
        /\ \A p \in Phones : IsFiniteSet(f[p])
    BY <2>1, FiniteSidsIn
  <2> HIDE DEF f
  <2>. QED BY <2>2, FiniteUnion DEF WaitSids
<1>3. IsFiniteSet(FrameSids)
  <2>1. ASSUME NEW p \in Phones PROVE IsFiniteSet(UNION {SidsIn(chan[p][q]) : q \in Phones})
    <3> DEFINE f == [q \in Phones |-> SidsIn(chan[p][q])]
    <3>1. \A q \in Phones : Len(chan[p][q]) \in Nat
      BY DEF TypeInv, OutType
    <3>2. /\ f = [q \in Phones |-> f[q]]
          /\ {SidsIn(chan[p][q]) : q \in Phones} = {f[q] : q \in Phones}
          /\ \A q \in Phones : IsFiniteSet(f[q])
      BY <3>1, FiniteSidsIn
    <3> HIDE DEF f
    <3>. QED BY <3>2, FiniteUnion
  <2> DEFINE g == [p \in Phones |-> UNION {SidsIn(chan[p][q]) : q \in Phones}]
  <2>2. /\ g = [p \in Phones |-> g[p]]
        /\ {UNION {SidsIn(chan[p][q]) : q \in Phones} : p \in Phones} = {g[p] : p \in Phones}
        /\ \A p \in Phones : IsFiniteSet(g[p])
    BY <2>1
  <2> HIDE DEF g
  <2>. QED BY <2>2, FiniteUnion DEF FrameSids
<1>4. IsFiniteSet(PcSids \cup WaitSids)
  BY <1>1, <1>2, FS_Union
<1>. QED BY <1>3, <1>4, FS_Union DEF Sids

LEMMA FreshSidType == TypeInv => FreshSid \in Nat /\ FreshSid \notin Sids
<1> SUFFICES ASSUME TypeInv PROVE FreshSid \in Nat /\ FreshSid \notin Sids
  OBVIOUS
<1> DEFINE n == Cardinality(Sids)
<1>1. IsFiniteSet(Sids) /\ n \in Nat
  BY SidsFinite, FS_CardinalityType
<1>2. \E k \in 1..(n + 1) : k \notin Sids
  <2>1. SUFFICES ASSUME 1..(n + 1) \subseteq Sids PROVE FALSE
    OBVIOUS
  <2>2. Cardinality(1..(n + 1)) <= n
    BY <1>1, <2>1, FS_Subset
  <2>3. Cardinality(1..(n + 1)) = n + 1
    BY <1>1, FS_Interval
  <2>. QED BY <1>1, <2>2, <2>3
<1>. QED BY <1>1, <1>2 DEF FreshSid
-----------------------------------------------------------------------------
(* Type correctness, step by step: one phone changes, and what it sends is *)
(* appended to its channels.                                               *)

LEMMA TypedTransmit ==
    ASSUME NEW ch \in [Phones -> OutType], NEW p \in Phones, NEW out \in OutType
    PROVE  Transmit(ch, p, out) \in [Phones -> OutType]
BY DEF Transmit, OutType

\* Who is amiss is a phone.
LEMMA TouchedPhones ==
    /\ \A ch : CutOff(ch) \subseteq Phones
    /\ \A p \in Phones : \A out : Missing(p, out) \subseteq Phones
    /\ \A s \in PhoneType : \A q, m : LeftAlone(s, q, m) \subseteq Phones
<1>1. \A ch : CutOff(ch) \subseteq Phones
  BY DEF CutOff
<1>2. \A p \in Phones : \A out : Missing(p, out) \subseteq Phones
  BY DEF Missing
<1>3. \A s \in PhoneType : \A q, m : LeftAlone(s, q, m) \subseteq Phones
  BY DEF LeftAlone, PhoneType
<1>. QED BY <1>1, <1>2, <1>3

LEMMA TypedDo ==
    ASSUME TypeInv, NEW p \in Phones, NEW ch \in [Phones -> OutType], NEW r, Typed(r),
           Do(p, ch, r)
    PROVE  /\ phone' \in [Phones -> PhoneType]
           /\ chan' \in [Phones -> OutType]
           /\ amiss' \subseteq Phones
<1>1. amiss' \subseteq amiss \cup Missing(p, r.out)
  BY DEF Do, Touch
<1>2. Missing(p, r.out) \subseteq Phones
  BY TouchedPhones
<1>3. phone' \in [Phones -> PhoneType] /\ chan' \in [Phones -> OutType]
  BY TypedTransmit DEF Do, TypeInv, Typed
<1>. QED BY <1>1, <1>2, <1>3 DEF TypeInv

LEMMA TypedGiveUp ==
    ASSUME TypeInv, NEW p \in Phones, NEW r, Typed(r), GiveUp(p, r)
    PROVE  /\ phone' \in [Phones -> PhoneType]
           /\ chan' \in [Phones -> OutType]
           /\ amiss' \subseteq Phones
           /\ unanswered' \in [Phones -> SUBSET Phones]
<1>1. Do(p, chan, r) /\ chan \in [Phones -> OutType]
  BY DEF GiveUp, TypeInv
<1>2. unanswered' \in [Phones -> SUBSET Phones]
  BY DEF GiveUp, TypeInv, PhoneType
<1>. QED BY <1>1, <1>2, TypedDo

LEMMA TypedResumed ==
    ASSUME NEW p \in Phones, phone[p] \in PhoneType, NEW i \in 1..Len(phone[p].waits)
    PROVE  /\ Resumed(p, i) \in PhoneType /\ Continue(p, i) \in PhoneType
           /\ phone[p].waits[i] \in Wait
<1> DEFINE w == phone[p].waits
           rest == SubSeq(w, 1, i - 1) \o SubSeq(w, i + 1, Len(w))
<1>1. w \in Seq(Wait)
  BY DEF PhoneType
<1>2. w[i] \in Wait /\ rest \in Seq(Wait)
  BY <1>1
<1>3. Resumed(p, i) = [phone[p] EXCEPT !.waits = rest]
  BY DEF Resumed
<1> HIDE DEF rest
<1>4. [phone[p] EXCEPT !.waits = rest] \in PhoneType
  BY <1>2, FieldTypes
<1>5. Continue(p, i) \in PhoneType
  BY <1>3, <1>4, TypedMix DEF Continue, Mixed
<1>. QED BY <1>2, <1>3, <1>4, <1>5

LEMMA TypeUser ==
    ASSUME TypeInv, NEW p \in Phones, User(p)
    PROVE  TypeInv'
<1>1. phone[p] \in PhoneType /\ chan \in [Phones -> OutType] /\ up[p] \in BOOLEAN
  BY DEF TypeInv
<1>2. ASSUME NEW q \in Phones \ {p}, StartOutgoingCall(p, q) PROVE TypeInv'
  <2> DEFINE r == PlaceCall(StartCallUI(phone[p]), q)
             t == Result([r.s EXCEPT !.rings = @ \cup {"out"}], r.out)
  <2>1. Typed(r)
    BY <1>1, TypedClear, TypedCalling
  <2>2. Do(p, chan, t)
    BY <1>2 DEF StartOutgoingCall
  <2> HIDE DEF r
  <2>3. r.s.rings \cup {"out"} \in SUBSET {"in", "out"}
    BY <2>1 DEF Typed, PhoneType
  <2>4. Typed(t)
    BY <2>1, <2>3, FieldTypes DEF Typed, Result
  <2> HIDE DEF t
  <2>5. calls + 1 \in 0..MaxCalls
    BY <1>2, CallAssumption DEF StartOutgoingCall, TypeInv
  <2>. QED BY <1>1, <1>2, <2>2, <2>4, <2>5, TypedDo DEF StartOutgoingCall, TypeInv
<1>3. CASE Accept(p)
  <2>1. phone[p].prompt \in Phones
    BY <1>1, <1>3 DEF Accept, PhoneType
  <2>2. \A cond : Typed(AcceptIncomingCall(Mix(phone[p], "stale", cond), phone[p].prompt, up[p]))
    BY <1>1, <2>1, TypedMix, TypedPrompt DEF Mixed
  <2>. QED BY <1>1, <1>3, <2>2, TypedDo DEF Accept, TypeInv
<1>4. CASE Reject(p)
  <2>1. phone[p].prompt \in Phones
    BY <1>1, <1>4 DEF Reject, PhoneType
  <2>2. \A cond : Typed(Result(ClearIncoming(Mix(phone[p], "second", cond)),
                               Send(phone[p].prompt, "REJECT")))
    BY <1>1, <2>1, TypedMix, TypedClear, TypedSend DEF Typed, Result, Cmds, Mixed
  <2>. QED BY <1>1, <1>4, <2>2, TypedDo DEF Reject, TypeInv
<1>5. CASE EndActiveCall(p)
  BY <1>1, <1>5, TypedHangUp, TypedGiveUp DEF EndActiveCall, TypeInv
<1>6. CASE ArmAutoAccept(p)
  <2>1. [phone[p] EXCEPT !.auto = TRUE] \in PhoneType
    BY <1>1, FieldTypes
  <2>. QED BY <1>6, <2>1 DEF ArmAutoAccept, TypeInv
<1>. QED BY <1>2, <1>3, <1>4, <1>5, <1>6 DEF User

LEMMA TypeResume ==
    ASSUME TypeInv, NEW p \in Phones, NEW i, Resume(p, i)
    PROVE  TypeInv'
<1> DEFINE s == Continue(p, i)  w == phone[p].waits[i]
<1>1. i \in 1..Len(phone[p].waits)
  BY DEF Resume, GotMedia, GotSdp, EnsuredConnected, ConnectFailed, Waiting
<1>2. /\ s \in PhoneType /\ w \in Wait /\ w.peer \in Phones
      /\ chan \in [Phones -> OutType] /\ FreshSid \in Nat
  BY <1>1, TypedResumed, FreshSidType DEF TypeInv, Wait
<1> HIDE DEF s, w
<1>3. CASE GotMedia(p, i)
  <2>1. Typed(Result(AfterMedia(s, w, FreshSid), Silent))
    BY <1>2, TypedWaits, TypedSend DEF Typed, Result
  <2>2. Do(p, chan, Result(AfterMedia(s, w, FreshSid), Silent))
    BY <1>3 DEF GotMedia, s, w
  <2>. QED BY <1>2, <1>3, <2>1, <2>2, TypedDo DEF GotMedia, TypeInv
<1>4. CASE GotSdp(p, i)
  <2>1. PICK late \in BOOLEAN : Do(p, chan, AfterSdp(s, w, late))
    BY <1>4 DEF GotSdp, s, w
  <2>2. Typed(AfterSdp(s, w, late))
    BY <1>2, TypedWaits
  <2>. QED BY <1>2, <1>4, <2>1, <2>2, TypedDo DEF GotSdp, TypeInv
<1>5. CASE EnsuredConnected(p, i)
  <2> DEFINE t == Mix(s, "stale", ~Rings(w.peer, p))
  <2>1. Do(p, chan, AcceptIncoming(t, w.peer))
    BY <1>5 DEF EnsuredConnected, s, w
  <2>2. Typed(AcceptIncoming(t, w.peer))
    BY <1>2, TypedMix, TypedCalling DEF Mixed
  <2>. QED BY <1>2, <1>5, <2>1, <2>2, TypedDo DEF EnsuredConnected, TypeInv
<1>6. CASE ConnectFailed(p, i)
  <2>1. GiveUp(p, HangUp(s)) /\ Typed(HangUp(s))
    BY <1>2, <1>6, TypedHangUp DEF ConnectFailed, s
  <2>. QED BY <1>6, <2>1, TypedGiveUp DEF ConnectFailed, TypeInv
<1>. QED BY <1>3, <1>4, <1>5, <1>6 DEF Resume

LEMMA TypeDue ==
    ASSUME TypeInv, NEW p \in Phones, Due(p)
    PROVE  TypeInv'
<1>1. phone[p] \in PhoneType /\ chan \in [Phones -> OutType] /\ up \in [Phones -> BOOLEAN]
  BY DEF TypeInv
<1>2. CASE PromptTimeout(p)
  <2>1. Typed(Result(ClearIncoming(phone[p]), Silent))
    BY <1>1, TypedClear, TypedSend DEF Typed, Result
  <2>. QED BY <1>1, <1>2, <2>1, TypedDo DEF PromptTimeout, TypeInv
<1>3. CASE RingTimeout(p)
  BY <1>1, <1>3, TypedHangUp, TypedGiveUp DEF RingTimeout, TypeInv
<1>4. ASSUME NEW q \in Phones, Deliver(p, q) PROVE TypeInv'
  <2> DEFINE m  == Head(chan[q][p])
             ch == [chan EXCEPT ![q][p] = Tail(@)]
             s  == Mix(phone[p], "stale", GivenUp(p, q, m))
             r  == OnPeerMessage(s, q, m, up[p], FreshSid)
  <2>1. chan[q][p] \in Seq(Frame) /\ chan[q][p] # <<>>
    BY <1>1, <1>4 DEF Deliver, OutType
  <2>2. m \in Frame /\ Tail(chan[q][p]) \in Seq(Frame)
    BY <2>1
  <2>3. ch \in [Phones -> OutType]
    BY <1>1, <2>2 DEF OutType
  <2>4. Typed(r)
    <3>1. s \in PhoneType
      BY <1>1, TypedMix DEF Mixed
    <3> HIDE DEF s
    <3>. QED BY <2>2, <3>1, TypedOnPeerMessage, FreshSidType
  <2>5. /\ phone' = [phone EXCEPT ![p] = r.s]
        /\ chan' = Transmit(ch, p, r.out)
        /\ amiss' \subseteq amiss \cup (Missing(p, r.out) \cup LeftAlone(phone[p], q, m))
        /\ forgotten' \in BOOLEAN
    BY <1>4 DEF Deliver, Touch, TypeInv
  <2>6. amiss' \subseteq Phones
    BY <1>1, <2>5, TouchedPhones DEF TypeInv
  <2>7. unanswered' \in [Phones -> SUBSET Phones]
    BY <1>4 DEF Deliver, TypeInv
  <2> HIDE DEF m, ch, r, s
  <2>8. chan' \in [Phones -> OutType]
    BY <2>3, <2>4, <2>5, TypedTransmit DEF Typed
  <2>. QED BY <1>1, <1>4, <2>4, <2>5, <2>6, <2>7, <2>8 DEF Deliver, TypeInv, Typed
<1>5. ASSUME NEW i, Resume(p, i) PROVE TypeInv'
  BY <1>5, TypeResume
<1>6. CASE Connected(p)
  <2> DEFINE pc == [phone[p].pc EXCEPT !.conn = "connected"]
             s  == [phone[p] EXCEPT !.pc = pc]
  <2>1. pc \in Pc
    BY <1>1 DEF PhoneType, Pc
  <2>2. s = [phone[p] EXCEPT !.pc.conn = "connected"]
    OBVIOUS
  <2> HIDE DEF pc
  <2>3. s \in PhoneType
    BY <1>1, <2>1, FieldTypes
  <2> HIDE DEF s
  <2>4. Typed(Result(OnState(s, "connected"), Silent))
    BY <2>3, TypedOnState, TypedSend DEF Typed, Result
  <2>. QED BY <1>1, <1>6, <2>2, <2>4, TypedDo DEF Connected, TypeInv
<1>7. CASE Connect(p)
  <2>1. [cmd |-> "ONLINE", sid |-> 0] \in Frame
    BY DEF Frame, Cmds
  <2>2. chan' \in [Phones -> OutType]
    BY <1>1, <1>7, <2>1 DEF Connect, OutType
  <2>. QED BY <1>7, <2>2 DEF Connect, TypeInv
<1>. QED BY <1>2, <1>3, <1>4, <1>5, <1>6, <1>7 DEF Due

LEMMA TypeFaulty ==
    ASSUME TypeInv, NEW p \in Phones, Faulty(p)
    PROVE  TypeInv'
<1>1. phone[p] \in PhoneType /\ chan \in [Phones -> OutType] /\ up \in [Phones -> BOOLEAN]
  BY DEF TypeInv
<1>2. ASSUME Fault PROVE faults' \in 0..MaxFaults /\ calls' = calls
  BY <1>2, CallAssumption DEF Fault, TypeInv
<1>3. ASSUME NEW i \in 1..Len(phone[p].waits), MediaRefused(p, i) PROVE TypeInv'
  BY <1>1, <1>2, <1>3, TypedResumed DEF MediaRefused, TypeInv, Touch
<1>4. CASE ConnectionFails(p)
  <2> DEFINE pc == [phone[p].pc EXCEPT !.conn = "failed"]
             s  == [phone[p] EXCEPT !.pc = pc]
             t  == OnState(Mix(s, "failed", TRUE), "failed")
  <2>1. pc \in Pc
    BY <1>1 DEF PhoneType, Pc
  <2>2. phone' = [phone EXCEPT ![p] = t]
    BY <1>1, <1>4 DEF ConnectionFails, TypeInv
  <2> HIDE DEF pc
  <2>3. s \in PhoneType
    BY <1>1, <2>1, FieldTypes
  <2> HIDE DEF s
  <2>4. t \in PhoneType
    BY <2>3, TypedMix, TypedOnState DEF Mixed
  <2> HIDE DEF t
  <2>. QED BY <1>1, <1>2, <1>4, <2>2, <2>4 DEF ConnectionFails, TypeInv
<1>5. CASE Disconnect(p)
  <2>1. PICK all \in BOOLEAN :
           chan' = Cut(p, [r \in Phones |-> IF all THEN Len(chan[p][r]) ELSE 0])
    BY <1>5 DEF Disconnect
  <2>2. \A q, r \in Phones : /\ chan[q][r] \in Seq(Frame)
                            /\ SubSeq(chan[q][r], 1, Len(chan[q][r])) \in Seq(Frame)
                            /\ SubSeq(chan[q][r], 1, 0) \in Seq(Frame)
    BY <1>1 DEF OutType
  <2>3. chan' \in [Phones -> OutType]
    BY <2>1, <2>2 DEF Cut, OutType
  <2>4. amiss' \subseteq Phones /\ forgotten' \in BOOLEAN
    BY <1>5, TouchedPhones DEF Disconnect, TypeInv, Touch
  <2>. QED BY <1>1, <1>2, <1>5, <2>3, <2>4 DEF Disconnect, TypeInv
<1>6. CASE ClosePage(p)
  <2>1. Idle \in PhoneType
    BY PcTypes DEF Idle, PhoneType
  <2>2. Transmit(chan, p, HangUp(phone[p]).out) \in [Phones -> OutType]
    BY <1>1, TypedHangUp, TypedTransmit DEF Typed
  <2>3. chan' \in [Phones -> OutType]
    BY <1>6, <2>2 DEF ClosePage, OutType
  <2>4. amiss' \subseteq amiss \cup (CutOff(chan') \cup Missing(p, HangUp(phone[p]).out))
    BY <1>6 DEF ClosePage, Touch
  <2>5. amiss' \subseteq Phones
    BY <2>4, TouchedPhones DEF TypeInv
  <2>6. forgotten' \in BOOLEAN
    BY <1>6 DEF ClosePage, TypeInv
  <2>. QED BY <1>1, <1>2, <1>6, <2>1, <2>3, <2>5, <2>6 DEF ClosePage, TypeInv
<1>. QED BY <1>3, <1>4, <1>5, <1>6 DEF Faulty

LEMMA TypeNext == TypeInv /\ [Next]_vars => TypeInv'
<1> SUFFICES ASSUME TypeInv, [Next]_vars PROVE TypeInv'
  OBVIOUS
<1>1. ASSUME NEW p \in Phones, AutoAcceptLapses(p) PROVE TypeInv'
  <2>1. [phone[p] EXCEPT !.auto = FALSE] \in PhoneType
    BY FieldTypes DEF TypeInv
  <2>. QED BY <1>1, <2>1 DEF AutoAcceptLapses, TypeInv
<1>2. CASE UNCHANGED vars
  BY <1>2 DEF vars, TypeInv
<1>. QED BY <1>1, <1>2, TypeUser, TypeDue, TypeFaulty DEF Next

LEMMA TypesHold == Spec => []TypeInv
<1>1. Init => TypeInv
  <2>1. Idle \in PhoneType
    BY PcTypes DEF Idle, PhoneType
  <2>2. [p \in Phones |-> [q \in Phones |-> <<>>]] \in [Phones -> OutType]
    BY DEF OutType
  <2>3. 0 \in 0..MaxCalls /\ 0 \in 0..MaxFaults
    BY CallAssumption
  <2>. QED BY <2>1, <2>2, <2>3 DEF Init, TypeInv
<1>. QED BY <1>1, TypeNext, PTL DEF Spec

(* Every field of every phone, every frame under way and every counter     *)
(* keeps its range, whatever the number of phones and calls.               *)
THEOREM CallTyped == Spec => []TypeOK
<1>1. TypeInv => TypeOK
  BY DEF TypeInv, TypeOK, PhoneType, OutType
<1>. QED BY <1>1, TypesHold, PTL

-----------------------------------------------------------------------------
(* Sound: what a phone knows of its own call.  Without a peer it has no    *)
(* connection and no camera, with one its window is open, what rings is    *)
(* the peer, and a continuation that is still live waits for the call that *)
(* is on -- up to what got mixed into the call.                            *)

Strayed(s) == s.mixed \cap {"late", "stale"} # {}
Windowed(s) == s.active \/ Strayed(s) \/ "failed" \in s.mixed
Twofold(s) == Strayed(s) \/ "second" \in s.mixed

SoundWait(s, w) ==
    /\ w.fn # "connect" => s.peer # None \/ Strayed(s)
    /\ w.fn = "connect" => Windowed(s)
    /\ w.fn \in {"initiate", "on_offer", "offer", "answer"} => s.ringing = None \/ Twofold(s)

Sound(s) ==
    /\ s.stream \/ s.pc # NoPc => s.peer # None \/ Strayed(s)
    /\ s.peer # None => Windowed(s)
    /\ s.ringing # None =>
          /\ s.peer # None
          /\ (s.peer = s.ringing /\ s.pc = NoPc /\ s.active) \/ Twofold(s)
    /\ \A i \in 1..Len(s.waits) : s.waits[i].live => SoundWait(s, s.waits[i])

AllSound == \A p \in Phones : Sound(phone[p])

\* What Sound reads of a phone.
SameCall(s, t) ==
    /\ t.peer = s.peer /\ t.pc = s.pc /\ t.stream = s.stream /\ t.mixed = s.mixed
    /\ t.ringing = s.ringing /\ t.active = s.active /\ t.waits = s.waits

LEMMA SoundSame ==
    ASSUME NEW s, NEW t, Sound(s), SameCall(s, t)
    PROVE  Sound(t)
BY DEF Sound, SameCall, SoundWait, Strayed, Windowed, Twofold

\* A phone but for what is mixed into its call.
Unmixed(s, t) ==
    /\ t \in PhoneType /\ s.mixed \subseteq t.mixed
    /\ t.peer = s.peer /\ t.pc = s.pc /\ t.stream = s.stream /\ t.prompt = s.prompt
    /\ t.ringing = s.ringing /\ t.active = s.active /\ t.waits = s.waits

LEMMA SoundMix ==
    ASSUME NEW s \in PhoneType, NEW what \in Mixed, NEW cond
    PROVE  /\ Unmixed(s, Mix(s, what, cond))
           /\ cond => what \in Mix(s, what, cond).mixed
           /\ Sound(s) => Sound(Mix(s, what, cond))
<1> DEFINE t == Mix(s, what, cond)
<1>1. t \in PhoneType
  BY TypedMix
<1>2. t = s \/ (cond /\ t = [s EXCEPT !.mixed = s.mixed \cup {what}])
  BY DEF Mix
<1>3. Unmixed(s, t) /\ (cond => what \in t.mixed)
  <2>1. CASE cond
    <3>1. t = [s EXCEPT !.mixed = s.mixed \cup {what}]
      BY <2>1 DEF Mix
    <3> HIDE DEF t
    <3>. QED BY <1>1, <3>1 DEF Unmixed, PhoneType
  <2>2. CASE ~cond
    <3>1. t = s
      BY <2>2 DEF Mix
    <3> HIDE DEF t
    <3>. QED BY <1>1, <2>2, <3>1 DEF Unmixed
  <2>. QED BY <2>1, <2>2
<1> HIDE DEF t
<1>4. Sound(s) => Sound(t)
  <2>1. \A w : SoundWait(s, w) => SoundWait(t, w)
    BY <1>3 DEF Unmixed, SoundWait, Strayed, Windowed, Twofold
  <2>2. Sound(s) => \A i \in 1..Len(t.waits) : t.waits[i].live => SoundWait(t, t.waits[i])
    BY <1>3, <2>1 DEF Sound, Unmixed
  <2>. QED BY <1>3, <2>2 DEF Sound, Unmixed, Strayed, Windowed, Twofold
<1>. QED BY <1>3, <1>4 DEF t

\* Whatever waits already, and one continuation more.
LEMMA SoundAwait ==
    ASSUME NEW s \in PhoneType, NEW fn \in Awaits, NEW q \in Phones, NEW sid \in Nat, Sound(s),
           \A w \in Wait : w.fn = fn => SoundWait(s, w)
    PROVE  Sound(Await(s, fn, q, sid))
<1> DEFINE e == [fn |-> fn, peer |-> q, sid |-> sid, live |-> TRUE]
           w == Append(s.waits, e)
           t == [s EXCEPT !.waits = w]
<1>1. e \in Wait /\ e.fn = fn
  BY DEF Wait
<1> HIDE DEF e
<1>2. \A i \in 1..Len(w) : w[i] = e \/ (i \in 1..Len(s.waits) /\ w[i] = s.waits[i])
  BY DEF PhoneType
<1> HIDE DEF w
<1>3. /\ t.waits = w /\ t.peer = s.peer /\ t.pc = s.pc /\ t.stream = s.stream
      /\ t.ringing = s.ringing /\ t.active = s.active /\ t.mixed = s.mixed
  BY DEF PhoneType
<1>4. Await(s, fn, q, sid) = t
  BY DEF Await, w, e
<1> HIDE DEF t
<1>5. \A x : SoundWait(s, x) => SoundWait(t, x)
  BY <1>3 DEF SoundWait, Strayed, Windowed, Twofold
<1>6. \A i \in 1..Len(t.waits) : t.waits[i].live => SoundWait(t, t.waits[i])
  BY <1>1, <1>2, <1>3, <1>5 DEF Sound
<1>7. Sound(t)
  BY <1>3, <1>6 DEF Sound, Strayed, Windowed, Twofold
<1>. QED BY <1>4, <1>7

\* A phone that hangs up, for whatever reason, keeps nothing of its call.
LEMMA SoundTearDown ==
    ASSUME NEW s \in PhoneType, NEW reason
    PROVE  Sound(TearDown(s, reason))
<1> DEFINE c == ClearRing(s)
           v == Over(c)
           t == [v EXCEPT !.pc = NoPc, !.stream = FALSE, !.peer = None]
           u == OnState(t, reason)
<1>1. c \in PhoneType /\ c.ringing = None
  BY TypedClear DEF ClearRing, PhoneType
<1> HIDE DEF c
<1>2. v \in PhoneType /\ v.ringing = None /\ \A i \in 1..Len(v.waits) : ~v.waits[i].live
  <2> DEFINE w == [i \in DOMAIN c.waits |-> [c.waits[i] EXCEPT !.live = FALSE]]
  <2>1. v \in PhoneType
    BY <1>1, TypedOver
  <2>2. v = [c EXCEPT !.mixed = {}, !.waits = w]
    BY DEF Over
  <2>3. c.waits \in Seq(Wait) /\ \A x \in Wait : ~[x EXCEPT !.live = FALSE].live
    BY <1>1 DEF PhoneType, Wait
  <2>4. Len(w) = Len(c.waits) /\ \A i \in 1..Len(w) : ~w[i].live
    BY <2>3
  <2> HIDE DEF w
  <2>5. v.waits = w /\ v.ringing = None
    BY <1>1, <2>2 DEF PhoneType
  <2>. QED BY <2>1, <2>4, <2>5
<1> HIDE DEF v
<1>3. /\ t.pc = NoPc /\ ~t.stream /\ t.peer = None /\ t.ringing = None /\ t.waits = v.waits
      /\ t \in PhoneType
  BY <1>2, PcTypes DEF PhoneType
<1>4. u = TearDown(s, reason)
  BY DEF TearDown, c, v
<1> HIDE DEF t
<1>5. /\ u.pc = t.pc /\ u.stream = t.stream /\ u.peer = t.peer /\ u.ringing = t.ringing
      /\ u.waits = t.waits
  BY <1>3 DEF OnState, ClearIncoming, PhoneType
<1> HIDE DEF u
<1>6. Sound(u)
  BY <1>2, <1>3, <1>5 DEF Sound
<1>. QED BY <1>4, <1>6

\* One connection in place of another, in the same state of the call.
LEMMA SoundOtherPc ==
    ASSUME NEW s \in PhoneType, NEW t, Sound(s), s.pc # NoPc, t.pc # NoPc,
           t.peer = s.peer, t.stream = s.stream, t.mixed = s.mixed, t.ringing = s.ringing,
           t.active = s.active, t.waits = s.waits
    PROVE  Sound(t)
<1>1. \A w : SoundWait(s, w) => SoundWait(t, w)
  BY DEF SoundWait, Strayed, Windowed, Twofold
<1>2. \A i \in 1..Len(t.waits) : t.waits[i].live => SoundWait(t, t.waits[i])
  BY <1>1 DEF Sound
<1>. QED BY <1>2 DEF Sound, Strayed, Windowed, Twofold

LEMMA SoundHangUp ==
    ASSUME NEW s \in PhoneType
    PROVE  Sound(HangUp(s).s) /\ (s.ringing # None => Sound(RingOut(s).s))
<1>1. ASSUME NEW t \in PhoneType, NEW q \in Phones PROVE MarkMissed(t, q).s \in PhoneType
  BY DEF MarkMissed, Result, PhoneType
<1>2. ASSUME NEW t \in PhoneType PROVE Sound(HangUp(t).s)
  <2> DEFINE m == IF t.ringing # None THEN MarkMissed(t, t.ringing) ELSE Result(t, Silent)
  <2>1. m.s \in PhoneType
    BY <1>1 DEF Result, PhoneType
  <2>2. HangUp(t).s = TearDown(ClearRing(m.s), "hangup")
    BY DEF HangUp, Result
  <2> HIDE DEF m
  <2>. QED BY <2>1, <2>2, TypedClear, SoundTearDown
<1>3. s.ringing # None => RingOut(s).s = HangUp(MarkMissed(s, s.ringing).s).s /\ s.ringing \in Phones
  BY DEF RingOut, Result, PhoneType
<1>. QED BY <1>1, <1>2, <1>3

\* A window that opens, or reports progress, spoils nothing.
LEMMA SoundActive ==
    ASSUME NEW s \in PhoneType, Sound(s), NEW t, t.active,
           t.peer = s.peer, t.pc = s.pc, t.stream = s.stream, t.mixed = s.mixed,
           t.ringing = s.ringing, t.waits = s.waits
    PROVE  Sound(t)
<1>1. \A w : SoundWait(s, w) => SoundWait(t, w)
  BY DEF SoundWait, Strayed, Windowed, Twofold
<1>2. \A i \in 1..Len(t.waits) : t.waits[i].live => SoundWait(t, t.waits[i])
  BY <1>1 DEF Sound
<1>. QED BY <1>2 DEF Sound, Strayed, Windowed, Twofold

LEMMA SoundProgress ==
    ASSUME NEW s \in PhoneType, Sound(s), NEW state, state \notin CallTerminal
    PROVE  Sound(OnState(s, state))
<1> DEFINE t == OnState(s, state)
<1>1. /\ t.active /\ t.peer = s.peer /\ t.pc = s.pc /\ t.stream = s.stream
      /\ t.mixed = s.mixed /\ t.ringing = s.ringing /\ t.waits = s.waits
  BY DEF OnState, PhoneType
<1> HIDE DEF t
<1>2. Sound(t)
  BY <1>1, SoundActive
<1>. QED BY <1>2 DEF t

-----------------------------------------------------------------------------
(* The handlers leave a sound phone sound.                                 *)

LEMMA SoundPlaceCall ==
    ASSUME NEW s \in PhoneType, NEW q \in Phones, Sound(s)
    PROVE  Sound([PlaceCall(StartCallUI(s), q).s EXCEPT !.rings = @ \cup {"out"}])
<1> DEFINE a == StartCallUI(s)
           x == Mix(a, "second", a.peer # None)
           o == OnState([x EXCEPT !.peer = q], "calling")
           r == [o EXCEPT !.ringing = q]
           u == IF r.stream THEN r ELSE Await(r, "preview", q, 0)
           z == [u EXCEPT !.rings = @ \cup {"out"}]
<1>1. /\ a \in PhoneType /\ a.active /\ a.peer = s.peer /\ a.pc = s.pc /\ a.stream = s.stream
      /\ a.mixed = s.mixed /\ a.ringing = s.ringing /\ a.waits = s.waits
  BY TypedClear DEF StartCallUI, PhoneType
<1>2. Sound(a)
  BY <1>1, SoundActive
<1> HIDE DEF a
<1>3. Unmixed(a, x) /\ Sound(x) /\ (a.peer # None => "second" \in x.mixed)
  BY <1>1, <1>2, SoundMix DEF Mixed
<1> HIDE DEF x
<1>4. /\ o \in PhoneType /\ o.peer = q /\ o.pc = x.pc /\ o.stream = x.stream /\ o.active
      /\ o.waits = x.waits /\ o.mixed = x.mixed
  <2>1. [x EXCEPT !.peer = q] \in PhoneType
    BY <1>3, FieldTypes DEF Unmixed
  <2>2. o \in PhoneType
    BY <2>1, TypedOnState
  <2>. QED BY <1>3, <2>2 DEF OnState, CallTerminal, PhoneType, Unmixed
<1> HIDE DEF o
<1>5. /\ r \in PhoneType /\ r.peer = q /\ r.pc = x.pc /\ r.stream = x.stream /\ r.active
      /\ r.waits = x.waits /\ r.mixed = x.mixed /\ r.ringing = q
  <2>1. r \in PhoneType
    BY <1>4, FieldTypes
  <2>. QED BY <1>4, <2>1 DEF PhoneType
<1> HIDE DEF r
<1>6. q # None
  BY CallAssumption
<1>7. \/ Twofold(r)
      \/ x.peer = None /\ ~Strayed(x)
  BY <1>1, <1>3, <1>5 DEF Twofold, Strayed, Unmixed
<1>8. Sound(r)
  <2>1. \A w : SoundWait(x, w) => SoundWait(r, w)
    BY <1>5, <1>6, <1>7 DEF SoundWait, Strayed, Windowed, Twofold
  <2>2. \A i \in 1..Len(r.waits) : r.waits[i].live => SoundWait(r, r.waits[i])
    BY <1>3, <1>5, <2>1 DEF Sound
  <2>3. x.peer = None /\ ~Strayed(x) => x.pc = NoPc
    BY <1>3 DEF Sound
  <2>. QED BY <1>5, <1>6, <1>7, <2>2, <2>3 DEF Sound, Windowed
<1>9. u \in PhoneType /\ Sound(u)
  <2>1. \A w \in Wait : w.fn = "preview" => SoundWait(r, w)
    BY <1>5, <1>6 DEF SoundWait
  <2>. QED BY <1>5, <1>8, <2>1, TypedAwait, SoundAwait DEF Awaits
<1>10. PlaceCall(a, q).s = u
  BY DEF PlaceCall, Result, r, o, x
<1> HIDE DEF u
<1>11. SameCall(u, z)
  BY <1>9 DEF SameCall, PhoneType
<1>12. Sound(z)
  BY <1>9, <1>11, SoundSame
<1>. QED BY <1>10, <1>12 DEF a

LEMMA SoundAcceptIncoming ==
    ASSUME NEW s \in PhoneType, NEW q \in Phones, Sound(s), Windowed(s)
    PROVE  Sound(AcceptIncoming(s, q).s)
<1> DEFINE x == Mix(s, "second", s.peer # None \/ s.ringing # None)
           t == [x EXCEPT !.peer = q]
<1>1. Unmixed(s, x) /\ Sound(x) /\ (s.ringing # None => "second" \in x.mixed)
  BY SoundMix DEF Mixed
<1> HIDE DEF x
<1>2. /\ t \in PhoneType /\ t.peer = q /\ t.pc = x.pc /\ t.stream = x.stream /\ q # None
      /\ t.waits = x.waits /\ t.ringing = x.ringing /\ t.active = x.active /\ t.mixed = x.mixed
  <2>1. t \in PhoneType /\ q # None
    BY <1>1, FieldTypes, CallAssumption DEF Unmixed
  <2>. QED BY <1>1, <2>1 DEF PhoneType, Unmixed
<1>3. AcceptIncoming(s, q).s = IF t.stream THEN t ELSE Await(t, "accept", q, 0)
  BY DEF AcceptIncoming, Result, x
<1> HIDE DEF t
<1>4. Windowed(t) /\ (t.ringing # None => Twofold(t))
  BY <1>1, <1>2 DEF Windowed, Twofold, Strayed, Unmixed
<1>5. Sound(t)
  <2>1. \A w : SoundWait(x, w) => SoundWait(t, w)
    BY <1>2, <1>4 DEF SoundWait, Strayed, Windowed, Twofold
  <2>2. \A i \in 1..Len(t.waits) : t.waits[i].live => SoundWait(t, t.waits[i])
    BY <1>1, <1>2, <2>1 DEF Sound
  <2>. QED BY <1>2, <1>4, <2>2 DEF Sound
<1>6. \A w \in Wait : w.fn = "accept" => SoundWait(t, w)
  BY <1>2 DEF SoundWait
<1>. QED BY <1>2, <1>3, <1>5, <1>6, SoundAwait DEF Awaits

\* Offer and answer, in a call that no longer rings.
LEMMA SoundSendSdp ==
    ASSUME NEW s \in PhoneType, NEW q \in Phones, NEW sid \in Nat, Sound(s),
           s.peer # None \/ Strayed(s), s.ringing = None \/ Twofold(s)
    PROVE  Sound(SendOffer(s, q, sid)) /\ Sound(SendAnswer(s, q, sid))
<1> DEFINE t == MakePc(s, sid)
<1>1. t \in PhoneType
  BY PcTypes, FieldTypes DEF MakePc
<1>2. /\ t.peer = s.peer /\ t.stream = s.stream /\ t.ringing = s.ringing
      /\ t.active = s.active /\ t.waits = s.waits /\ t.mixed = s.mixed
  BY DEF MakePc, PhoneType
<1>3. /\ SendOffer(s, q, sid) = Await(t, "offer", q, sid)
      /\ SendAnswer(s, q, sid) = Await(t, "answer", q, sid)
  BY DEF SendOffer, SendAnswer
<1> HIDE DEF t
<1>4. \A w : SoundWait(s, w) => SoundWait(t, w)
  BY <1>2 DEF SoundWait, Strayed, Windowed, Twofold
<1>5. Sound(t)
  <2>1. \A i \in 1..Len(t.waits) : t.waits[i].live => SoundWait(t, t.waits[i])
    BY <1>2, <1>4 DEF Sound
  <2>. QED BY <1>2, <2>1 DEF Sound, Strayed, Windowed, Twofold
<1>6. \A w \in Wait : w.fn \in {"offer", "answer"} => SoundWait(t, w)
  BY <1>2 DEF SoundWait, Strayed, Twofold
<1>. QED BY <1>1, <1>3, <1>5, <1>6, SoundAwait DEF Awaits

\* Taking the peer of the message: the call it belongs to, or a stray one.
LEMMA SoundNegotiates ==
    ASSUME NEW s \in PhoneType, NEW q \in Phones, NEW sid \in Nat, Sound(s),
           s.peer # None \/ Strayed(s), s.ringing = None \/ Twofold(s)
    PROVE  LET t == [s EXCEPT !.peer = q]
           IN  /\ Sound(SendOffer(t, q, sid)) /\ Sound(SendAnswer(t, q, sid))
               /\ Sound(Await(t, "initiate", q, 0)) /\ Sound(Await(t, "on_offer", q, sid))
<1> DEFINE t == [s EXCEPT !.peer = q]
<1>1. /\ t \in PhoneType /\ t.peer = q /\ t.pc = s.pc /\ t.stream = s.stream /\ q # None
      /\ t.waits = s.waits /\ t.ringing = s.ringing /\ t.active = s.active /\ t.mixed = s.mixed
  <2>1. t \in PhoneType /\ q # None
    BY FieldTypes, CallAssumption
  <2>. QED BY <2>1 DEF PhoneType
<1> HIDE DEF t
<1>2. Windowed(t) /\ (t.ringing = None \/ Twofold(t))
  BY <1>1 DEF Sound, Windowed, Strayed, Twofold
<1>3. Sound(t)
  <2>1. \A w : SoundWait(s, w) => SoundWait(t, w)
    BY <1>1, <1>2 DEF SoundWait, Strayed, Windowed, Twofold
  <2>2. \A i \in 1..Len(t.waits) : t.waits[i].live => SoundWait(t, t.waits[i])
    BY <1>1, <2>1 DEF Sound
  <2>. QED BY <1>1, <1>2, <2>2 DEF Sound
<1>4. \A w \in Wait : w.fn \in {"initiate", "on_offer"} => SoundWait(t, w)
  BY <1>1, <1>2 DEF SoundWait
<1>5. Sound(SendOffer(t, q, sid)) /\ Sound(SendAnswer(t, q, sid))
  BY <1>1, <1>2, <1>3, SoundSendSdp
<1>6. Sound(Await(t, "initiate", q, 0)) /\ Sound(Await(t, "on_offer", q, sid))
  BY <1>1, <1>3, <1>4, SoundAwait DEF Awaits
<1>. QED BY <1>5, <1>6 DEF t

LEMMA SoundOnAccept ==
    ASSUME NEW s \in PhoneType, NEW q \in Phones, NEW sid \in Nat, Sound(s)
    PROVE  Sound(OnAccept(s, q, sid)) /\ Sound(OnOffer(s, q, sid))
<1>1. Sound(OnAccept(s, q, sid))
  <2> DEFINE x == Mix(s, "stale", StaleAccept(s, q))
             r == ClearRing(x)
             t == [r EXCEPT !.peer = q]
  <2>1. Unmixed(s, x) /\ Sound(x) /\ (StaleAccept(s, q) => "stale" \in x.mixed)
    BY SoundMix DEF Mixed
  <2>2. Strayed(x) \/ x.peer # None
    BY <2>1, CallAssumption DEF StaleAccept, Strayed, Sound, Unmixed
  <2> HIDE DEF x
  <2>3. /\ r \in PhoneType /\ r.ringing = None /\ r.peer = x.peer /\ r.pc = x.pc
        /\ r.stream = x.stream /\ r.active = x.active /\ r.waits = x.waits /\ r.mixed = x.mixed
    <3>1. r \in PhoneType
      BY <2>1, TypedClear DEF Unmixed
    <3>. QED BY <2>1, <3>1 DEF ClearRing, PhoneType, Unmixed
  <2> HIDE DEF r
  <2>4. Sound(r)
    <3>1. \A w : SoundWait(x, w) => SoundWait(r, w)
      BY <2>3 DEF SoundWait, Strayed, Windowed, Twofold
    <3>2. \A i \in 1..Len(r.waits) : r.waits[i].live => SoundWait(r, r.waits[i])
      BY <2>1, <2>3, <3>1 DEF Sound
    <3>. QED BY <2>1, <2>3, <3>2 DEF Sound, Strayed, Windowed
  <2>5. /\ Sound(SendOffer(t, q, sid)) /\ Sound(Await(t, "initiate", q, 0))
    BY <2>2, <2>3, <2>4, SoundNegotiates DEF Strayed
  <2>6. OnAccept(s, q, sid) = IF t.stream THEN SendOffer(t, q, sid) ELSE Await(t, "initiate", q, 0)
    BY DEF OnAccept, Initiate, r, x
  <2>. QED BY <2>5, <2>6
<1>2. Sound(OnOffer(s, q, sid))
  <2> DEFINE x == Mix(s, "stale", StaleOffer(s, q))
             t == [x EXCEPT !.peer = q]
  <2>1. Unmixed(s, x) /\ Sound(x) /\ (StaleOffer(s, q) => "stale" \in x.mixed)
    BY SoundMix DEF Mixed
  <2>2. Strayed(x) \/ (x.peer # None /\ x.ringing = None)
    BY <2>1, CallAssumption DEF StaleOffer, Strayed, Unmixed
  <2>3. OnOffer(s, q, sid) = IF t.stream THEN SendAnswer(t, q, sid) ELSE Await(t, "on_offer", q, sid)
    BY DEF OnOffer
  <2> HIDE DEF x
  <2>4. Sound(SendAnswer(t, q, sid)) /\ Sound(Await(t, "on_offer", q, sid))
    BY <2>1, <2>2, SoundNegotiates DEF Twofold, Unmixed
  <2>. QED BY <2>3, <2>4
<1>. QED BY <1>1, <1>2

\* The camera opens, a description is ready: of this call, or of a late one.
LEMMA SoundContinues ==
    ASSUME NEW s \in PhoneType, NEW w \in Wait, NEW sid \in Nat, NEW late, Sound(s),
           Strayed(s) \/ SoundWait(s, w), w.fn # "connect"
    PROVE  Sound(AfterMedia(s, w, sid)) /\ Sound(AfterSdp(s, w, late).s)
<1>1. w.peer \in Phones /\ w.sid \in Nat /\ (s.peer # None \/ Strayed(s))
  BY DEF Wait, SoundWait
<1>2. Sound(AfterMedia(s, w, sid))
  <2> DEFINE o == OpenMedia(s)
  <2>1. /\ o \in PhoneType /\ o.peer = s.peer /\ o.ringing = s.ringing /\ o.active = s.active
        /\ o.pc = s.pc /\ o.waits = s.waits /\ o.mixed = s.mixed
    <3>1. o \in PhoneType
      BY FieldTypes DEF OpenMedia
    <3>. QED BY <3>1 DEF OpenMedia, PhoneType
  <2> HIDE DEF o
  <2>2. Sound(o)
    <3>1. \A x : SoundWait(s, x) => SoundWait(o, x)
      BY <2>1 DEF SoundWait, Strayed, Windowed, Twofold
    <3>2. \A i \in 1..Len(o.waits) : o.waits[i].live => SoundWait(o, o.waits[i])
      BY <2>1, <3>1 DEF Sound
    <3>. QED BY <1>1, <2>1, <3>2 DEF Sound, Strayed, Windowed, Twofold
  <2>3. w.fn \in {"initiate", "on_offer"} => o.ringing = None \/ Twofold(o)
    BY <2>1 DEF SoundWait, Strayed, Twofold
  <2>4. o.peer # None \/ Strayed(o)
    BY <1>1, <2>1 DEF Strayed
  <2>5. w.fn \in {"initiate", "on_offer"} =>
          /\ Sound(SendOffer(o, w.peer, sid)) /\ Sound(SendAnswer(o, w.peer, w.sid))
    BY <1>1, <2>1, <2>2, <2>3, <2>4, SoundSendSdp
  <2>6. \/ AfterMedia(s, w, sid) = SendOffer(o, w.peer, sid) /\ w.fn = "initiate"
        \/ AfterMedia(s, w, sid) = SendAnswer(o, w.peer, w.sid) /\ w.fn = "on_offer"
        \/ AfterMedia(s, w, sid) = o
    BY DEF AfterMedia, o
  <2>. QED BY <2>2, <2>5, <2>6
<1>3. Sound(AfterSdp(s, w, late).s)
  <2> DEFINE sig == IF w.fn = "offer" THEN "offered" ELSE "stable"
             pc  == [s.pc EXCEPT !.sig = sig]
             t   == [s EXCEPT !.pc = pc]
  <2>1. pc \in Pc /\ pc # NoPc
    BY DEF PhoneType, Pc, Signalling, NoPc
  <2>2. t = [s EXCEPT !.pc.sig = sig]
    OBVIOUS
  <2>3. \/ AfterSdp(s, w, late).s = OnState(t, "connecting") /\ s.pc # NoPc
        \/ AfterSdp(s, w, late).s = OnState(s, "connecting")
        \/ AfterSdp(s, w, late).s = s
    BY <2>2 DEF AfterSdp, Result, NoPc
  <2> HIDE DEF pc, sig
  <2>4. /\ t \in PhoneType /\ t.peer = s.peer /\ t.ringing = s.ringing /\ t.active = s.active
        /\ t.pc = pc /\ t.waits = s.waits /\ t.mixed = s.mixed /\ t.stream = s.stream
    <3>1. t \in PhoneType
      BY <2>1, FieldTypes
    <3>. QED BY <3>1 DEF PhoneType
  <2> HIDE DEF t
  <2>5. s.pc # NoPc => Sound(t)
    BY <2>1, <2>4, SoundOtherPc
  <2>6. ASSUME NEW u \in PhoneType, Sound(u) PROVE Sound(OnState(u, "connecting"))
    BY <2>6, SoundProgress DEF CallTerminal
  <2>. QED BY <2>3, <2>4, <2>5, <2>6
<1>. QED BY <1>2, <1>3

LEMMA SoundPrompt ==
    ASSUME NEW s \in PhoneType, NEW q \in Phones, NEW connected, Sound(s)
    PROVE  /\ Sound(AcceptIncomingCall(s, q, connected).s)
           /\ Sound(OnIncomingCall(s, q, connected).s)
<1>1. ASSUME NEW r \in PhoneType, Sound(r) PROVE Sound(AcceptIncomingCall(r, q, connected).s)
  <2> DEFINE t == StartCallUI(ClearIncoming(r))
  <2>1. /\ t \in PhoneType /\ t.active /\ t.peer = r.peer /\ t.pc = r.pc /\ t.stream = r.stream
        /\ t.mixed = r.mixed /\ t.ringing = r.ringing /\ t.waits = r.waits
    <3>1. t \in PhoneType
      BY TypedClear
    <3>. QED BY <3>1 DEF StartCallUI, ClearIncoming, PhoneType
  <2>2. \/ AcceptIncomingCall(r, q, connected).s = AcceptIncoming(t, q).s
        \/ AcceptIncomingCall(r, q, connected).s = Await(t, "connect", q, 0)
    BY DEF AcceptIncomingCall, Result
  <2> HIDE DEF t
  <2>3. Sound(t) /\ Windowed(t)
    BY <1>1, <2>1, SoundActive DEF Windowed
  <2>4. \A w \in Wait : w.fn = "connect" => SoundWait(t, w)
    BY <2>3 DEF SoundWait
  <2>5. Sound(Await(t, "connect", q, 0))
    BY <2>1, <2>3, <2>4, SoundAwait DEF Awaits
  <2>. QED BY <2>1, <2>2, <2>3, <2>5, SoundAcceptIncoming
<1>2. [s EXCEPT !.auto = FALSE] \in PhoneType /\ Sound([s EXCEPT !.auto = FALSE])
  <2>1. [s EXCEPT !.auto = FALSE] \in PhoneType
    BY FieldTypes
  <2>2. SameCall(s, [s EXCEPT !.auto = FALSE])
    BY DEF SameCall, PhoneType
  <2>. QED BY <2>1, <2>2, SoundSame
<1>3. Sound(ShowIncoming(s, q))
  <2>1. SameCall(s, ShowIncoming(s, q))
    BY DEF SameCall, ShowIncoming, PhoneType
  <2>. QED BY <2>1, SoundSame
<1>. QED BY <1>1, <1>2, <1>3 DEF OnIncomingCall, Result

LEMMA SoundOnAnswer ==
    ASSUME NEW s \in PhoneType, NEW sid, Sound(s)
    PROVE  Sound(OnAnswer(s, sid))
<1> DEFINE t == OnAnswer(s, sid)
<1>1. CASE s.pc.sig # "offered"
  BY <1>1 DEF OnAnswer
<1>2. CASE s.pc.sig = "offered"
  <2>1. s.pc # NoPc
    BY <1>2 DEF NoPc
  <2>2. /\ t.pc.sig = "stable" /\ t.peer = s.peer /\ t.stream = s.stream /\ t.mixed = s.mixed
        /\ t.ringing = s.ringing /\ t.active = s.active /\ t.waits = s.waits
    BY <1>2 DEF OnAnswer, PhoneType, Pc
  <2> HIDE DEF t
  <2>3. t.pc # NoPc
    BY <2>2 DEF NoPc
  <2>4. Sound(t)
    BY <2>1, <2>2, <2>3, SoundOtherPc
  <2>. QED BY <2>4 DEF t
<1>. QED BY <1>1, <1>2

LEMMA SoundOnPeerMessage ==
    ASSUME NEW s \in PhoneType, NEW q \in Phones, NEW m \in Frame, NEW connected,
           NEW sid \in Nat, Sound(s)
    PROVE  Sound(OnPeerMessage(s, q, m, connected, sid).s)
<1> DEFINE t == OnPeerMessage(s, q, m, connected, sid).s
<1>1. \/ t = OnPeerOnline(s, q).s
      \/ t = OnIncomingCall(s, q, connected).s
      \/ t = OnAccept(s, q, sid)
      \/ t = TearDown(ClearRing(s), "rejected")
      \/ t = TearDown(s, "peer hangup")
      \/ t = OnOffer(s, q, m.sid)
      \/ t = OnAnswer(s, m.sid)
      \/ t = s
  BY DEF OnPeerMessage, Result
<1>2. m.sid \in Nat /\ ClearRing(s) \in PhoneType
  BY TypedClear DEF Frame
<1>3. Sound(OnPeerOnline(s, q).s)
  <2>1. SameCall(s, OnPeerOnline(s, q).s)
    BY DEF OnPeerOnline, Result, SameCall, PhoneType
  <2>. QED BY <2>1, SoundSame
<1>4. /\ Sound(OnIncomingCall(s, q, connected).s) /\ Sound(OnAccept(s, q, sid))
      /\ Sound(TearDown(ClearRing(s), "rejected")) /\ Sound(TearDown(s, "peer hangup"))
      /\ Sound(OnOffer(s, q, m.sid)) /\ Sound(OnAnswer(s, m.sid))
  BY <1>2, SoundPrompt, SoundOnAccept, SoundTearDown, SoundOnAnswer
<1> HIDE DEF t
<1>5. Sound(t)
  BY <1>1, <1>3, <1>4
<1>. QED BY <1>5 DEF t

-----------------------------------------------------------------------------
(* Sound, step by step.                                                    *)

LEMMA SoundOnePhone ==
    ASSUME TypeInv, AllSound, NEW p \in Phones, NEW s, Sound(s),
           phone' = [phone EXCEPT ![p] = s]
    PROVE  AllSound'
<1>1. \A q \in Phones : Sound(phone'[q])
  BY DEF AllSound, TypeInv
<1>. QED BY <1>1 DEF AllSound, Sound, SoundWait, Strayed, Windowed, Twofold

LEMMA SoundDo ==
    ASSUME TypeInv, AllSound, NEW p \in Phones, NEW ch, NEW r, Sound(r.s), Do(p, ch, r)
    PROVE  AllSound'
BY SoundOnePhone DEF Do

LEMMA SoundUser ==
    ASSUME TypeInv, AllSound, NEW p \in Phones, User(p)
    PROVE  AllSound'
<1> DEFINE s == phone[p]
<1>1. s \in PhoneType /\ Sound(s)
  BY DEF TypeInv, AllSound
<1>2. ASSUME NEW q \in Phones \ {p}, StartOutgoingCall(p, q) PROVE AllSound'
  <2> DEFINE r == PlaceCall(StartCallUI(s), q)
             t == [r.s EXCEPT !.rings = @ \cup {"out"}]
  <2>1. Do(p, chan, Result(t, r.out))
    BY <1>2 DEF StartOutgoingCall
  <2>2. Sound(Result(t, r.out).s)
    BY <1>1, SoundPlaceCall, ResultOf
  <2> HIDE DEF r, t
  <2>. QED BY <2>1, <2>2, SoundDo
<1>3. CASE Accept(p)
  <2> DEFINE x == Mix(s, "stale", ~Rings(s.prompt, p))
  <2>1. s.prompt \in Phones
    BY <1>1, <1>3 DEF Accept, PhoneType
  <2>2. Do(p, chan, AcceptIncomingCall(x, s.prompt, up[p]))
    BY <1>3 DEF Accept
  <2>3. x \in PhoneType /\ Sound(x)
    BY <1>1, SoundMix DEF Mixed, Unmixed
  <2> HIDE DEF x
  <2>4. Sound(AcceptIncomingCall(x, s.prompt, up[p]).s)
    BY <2>1, <2>3, SoundPrompt
  <2>. QED BY <2>2, <2>4, SoundDo
<1>4. CASE Reject(p)
  <2> DEFINE x == Mix(s, "second", s.peer = s.prompt)
  <2>1. Do(p, chan, Result(ClearIncoming(x), Send(s.prompt, "REJECT")))
    BY <1>4 DEF Reject
  <2>2. x \in PhoneType /\ Sound(x)
    BY <1>1, SoundMix DEF Mixed, Unmixed
  <2> HIDE DEF x
  <2>3. SameCall(x, ClearIncoming(x))
    BY <2>2 DEF SameCall, ClearIncoming, PhoneType
  <2>4. Sound(Result(ClearIncoming(x), Send(s.prompt, "REJECT")).s)
    BY <2>2, <2>3, SoundSame, ResultOf
  <2>. QED BY <2>1, <2>4, SoundDo
<1>5. CASE EndActiveCall(p)
  <2>1. Do(p, chan, HangUp(s))
    BY <1>5 DEF EndActiveCall, GiveUp
  <2>. QED BY <1>1, <2>1, SoundHangUp, SoundDo
<1>6. CASE ArmAutoAccept(p)
  <2>1. SameCall(s, [s EXCEPT !.auto = TRUE])
    BY <1>1 DEF SameCall, PhoneType
  <2>2. phone' = [phone EXCEPT ![p] = [s EXCEPT !.auto = TRUE]]
    BY <1>6 DEF ArmAutoAccept, TypeInv
  <2>. QED BY <1>1, <2>1, <2>2, SoundSame, SoundOnePhone
<1>. QED BY <1>2, <1>3, <1>4, <1>5, <1>6 DEF User

\* Resuming takes one continuation away; the others stay as they are, and one
\* that is not live any more marks the call it gets into.
LEMMA SoundResumed ==
    ASSUME NEW p \in Phones, phone[p] \in PhoneType, NEW i \in 1..Len(phone[p].waits),
           Sound(phone[p])
    PROVE  LET s == Continue(p, i)  w == phone[p].waits[i]
           IN  /\ s \in PhoneType /\ Sound(s) /\ Sound(Resumed(p, i)) /\ w \in Wait
               /\ SoundWait(s, w) \/ Strayed(s)
<1> DEFINE s == phone[p]  w == s.waits
           rest == SubSeq(w, 1, i - 1) \o SubSeq(w, i + 1, Len(w))
           t == Resumed(p, i)
           c == Continue(p, i)
<1>1. w \in Seq(Wait) /\ s \in PhoneType
  BY DEF PhoneType
<1>2. \A j \in 1..Len(rest) : \E k \in 1..Len(w) : rest[j] = w[k]
  <2> DEFINE a == SubSeq(w, 1, i - 1)  b == SubSeq(w, i + 1, Len(w))
  <2>1. /\ a \in Seq(Wait) /\ Len(a) = i - 1 /\ \A j \in 1..Len(a) : a[j] = w[j]
        /\ b \in Seq(Wait) /\ Len(b) = Len(w) - i /\ \A j \in 1..Len(b) : b[j] = w[i + j]
    BY <1>1
  <2> HIDE DEF a, b
  <2>2. ASSUME NEW j \in 1..Len(a \o b) PROVE \E k \in 1..Len(w) : (a \o b)[j] = w[k]
    <3>1. CASE j <= Len(a)
      BY <1>1, <2>1, <3>1
    <3>2. CASE j > Len(a)
      <4> DEFINE k == j - Len(a)
      <4>1. k \in 1..Len(b) /\ (a \o b)[j] = b[k] /\ i + k = j + 1 /\ j + 1 \in 1..Len(w)
        BY <1>1, <2>1, <3>2
      <4> HIDE DEF k
      <4>2. b[k] = w[i + k]
        BY <2>1, <4>1
      <4>. QED BY <4>1, <4>2
    <3>. QED BY <1>1, <2>1, <3>1, <3>2
  <2>. QED BY <2>2 DEF a, b
<1>3. /\ t \in PhoneType /\ w[i] \in Wait /\ t.waits = rest
      /\ t.peer = s.peer /\ t.pc = s.pc /\ t.stream = s.stream /\ t.mixed = s.mixed
      /\ t.ringing = s.ringing /\ t.active = s.active
  <2>1. t \in PhoneType /\ w[i] \in Wait
    BY TypedResumed
  <2>2. t = [s EXCEPT !.waits = rest]
    BY DEF Resumed
  <2> HIDE DEF rest, t
  <2>. QED BY <1>1, <2>1, <2>2 DEF PhoneType
<1> HIDE DEF rest, t
<1>4. \A x : SoundWait(s, x) => SoundWait(t, x)
  BY <1>3 DEF SoundWait, Strayed, Windowed, Twofold
<1>5. Sound(t)
  <2>1. \A j \in 1..Len(t.waits) : t.waits[j].live => SoundWait(t, t.waits[j])
    BY <1>2, <1>3, <1>4 DEF Sound
  <2>. QED BY <1>3, <2>1 DEF Sound, Strayed, Windowed, Twofold
<1>6. Unmixed(t, c) /\ Sound(c) /\ (~w[i].live => "late" \in c.mixed)
  BY <1>3, <1>5, SoundMix DEF Continue, Mixed, t
<1> HIDE DEF c
<1>7. w[i].live => SoundWait(c, w[i])
  <2>1. w[i].live => SoundWait(t, w[i])
    BY <1>4 DEF Sound
  <2>. QED BY <1>6, <2>1 DEF Unmixed, SoundWait, Strayed, Windowed, Twofold
<1>8. SoundWait(c, w[i]) \/ Strayed(c)
  BY <1>6, <1>7 DEF Strayed
<1>. QED BY <1>3, <1>5, <1>6, <1>8 DEF Unmixed, c, t

LEMMA SoundResume ==
    ASSUME TypeInv, AllSound, NEW p \in Phones, NEW i, Resume(p, i)
    PROVE  AllSound'
<1> DEFINE s == Continue(p, i)  w == phone[p].waits[i]
<1>1. /\ i \in 1..Len(phone[p].waits) /\ phone[p] \in PhoneType /\ Sound(phone[p])
  BY DEF TypeInv, AllSound, Resume, GotMedia, GotSdp, EnsuredConnected, ConnectFailed, Waiting
<1>2. s \in PhoneType /\ Sound(s) /\ w \in Wait /\ (SoundWait(s, w) \/ Strayed(s))
  BY <1>1, SoundResumed
<1>3. w.peer \in Phones /\ FreshSid \in Nat
  BY <1>2, FreshSidType DEF Wait
<1> HIDE DEF s, w
<1>4. CASE GotMedia(p, i)
  <2>1. Do(p, chan, Result(AfterMedia(s, w, FreshSid), Silent)) /\ w.fn # "connect"
    BY <1>4 DEF GotMedia, Waiting, MediaWaits, s, w
  <2>2. Sound(AfterMedia(s, w, FreshSid))
    BY <1>2, <1>3, <2>1, SoundContinues
  <2>. QED BY <2>1, <2>2, SoundDo, ResultOf
<1>5. CASE GotSdp(p, i)
  <2>1. PICK late \in BOOLEAN : Do(p, chan, AfterSdp(s, w, late))
    BY <1>5 DEF GotSdp, s, w
  <2>2. w.fn # "connect"
    BY <1>5 DEF GotSdp, Waiting, w
  <2>3. Sound(AfterSdp(s, w, late).s)
    BY <1>2, <1>3, <2>2, SoundContinues
  <2>. QED BY <2>1, <2>3, SoundDo
<1>6. CASE EnsuredConnected(p, i)
  <2> DEFINE x == Mix(s, "stale", ~Rings(w.peer, p))
  <2>1. Do(p, chan, AcceptIncoming(x, w.peer)) /\ w.fn = "connect"
    BY <1>6 DEF EnsuredConnected, Waiting, s, w
  <2>2. Unmixed(s, x) /\ Sound(x)
    BY <1>2, SoundMix DEF Mixed
  <2>3. Windowed(s)
    BY <1>2, <2>1 DEF SoundWait, Windowed
  <2> HIDE DEF x
  <2>4. x \in PhoneType /\ Windowed(x)
    BY <2>2, <2>3 DEF Unmixed, Windowed, Strayed
  <2>5. Sound(AcceptIncoming(x, w.peer).s)
    BY <1>3, <2>2, <2>4, SoundAcceptIncoming
  <2>. QED BY <2>1, <2>5, SoundDo
<1>7. CASE ConnectFailed(p, i)
  <2>1. Do(p, chan, HangUp(s))
    BY <1>7 DEF ConnectFailed, GiveUp, s
  <2>. QED BY <1>2, <2>1, SoundHangUp, SoundDo
<1>. QED BY <1>4, <1>5, <1>6, <1>7 DEF Resume

LEMMA SoundDue ==
    ASSUME TypeInv, AllSound, NEW p \in Phones, Due(p)
    PROVE  AllSound'
<1> DEFINE s == phone[p]
<1>1. s \in PhoneType /\ Sound(s)
  BY DEF TypeInv, AllSound
<1>2. CASE PromptTimeout(p)
  <2>1. SameCall(s, ClearIncoming(s))
    BY <1>1 DEF SameCall, ClearIncoming, PhoneType
  <2>2. Sound(Result(ClearIncoming(s), Silent).s)
    BY <1>1, <2>1, SoundSame, ResultOf
  <2>. QED BY <1>2, <2>2, SoundDo DEF PromptTimeout
<1>3. CASE RingTimeout(p)
  <2>1. Do(p, chan, RingOut(s)) /\ s.ringing # None
    BY <1>3 DEF RingTimeout, GiveUp
  <2>. QED BY <1>1, <2>1, SoundHangUp, SoundDo
<1>4. ASSUME NEW q \in Phones, Deliver(p, q) PROVE AllSound'
  <2> DEFINE m == Head(chan[q][p])
             x == Mix(s, "stale", GivenUp(p, q, m))
             r == OnPeerMessage(x, q, m, up[p], FreshSid)
  <2>1. m \in Frame
    <3>1. chan[q][p] \in Seq(Frame) /\ chan[q][p] # <<>>
      BY <1>4 DEF Deliver, TypeInv, OutType
    <3>. QED BY <3>1
  <2>2. x \in PhoneType /\ Sound(x)
    BY <1>1, SoundMix DEF Mixed, Unmixed
  <2>3. phone' = [phone EXCEPT ![p] = r.s]
    BY <1>4 DEF Deliver
  <2> HIDE DEF m, x
  <2>4. Sound(r.s)
    BY <2>1, <2>2, SoundOnPeerMessage, FreshSidType
  <2> HIDE DEF r
  <2>. QED BY <2>3, <2>4, SoundOnePhone
<1>5. ASSUME NEW i, Resume(p, i) PROVE AllSound'
  BY <1>5, SoundResume
<1>6. CASE Connected(p)
  <2> DEFINE pc == [s.pc EXCEPT !.conn = "connected"]
             t  == [s EXCEPT !.pc = pc]
             u  == OnState(t, "connected")
  <2>1. t = [s EXCEPT !.pc.conn = "connected"]
    OBVIOUS
  <2>2. Do(p, chan, Result(u, Silent)) /\ s.pc.sig = "stable"
    BY <1>6, <2>1 DEF Connected, Matched
  <2>3. pc \in Pc /\ pc # NoPc /\ s.pc # NoPc
    BY <1>1, <2>2 DEF PhoneType, Pc, NoPc
  <2> HIDE DEF pc
  <2>4. /\ t \in PhoneType /\ t.peer = s.peer /\ t.pc = pc /\ t.stream = s.stream
        /\ t.mixed = s.mixed /\ t.ringing = s.ringing /\ t.active = s.active /\ t.waits = s.waits
    <3>1. t \in PhoneType
      BY <1>1, <2>3, FieldTypes
    <3>. QED BY <1>1, <3>1 DEF PhoneType
  <2> HIDE DEF t
  <2>5. Sound(t)
    BY <1>1, <2>3, <2>4, SoundOtherPc
  <2>6. Sound(u)
    BY <2>4, <2>5, SoundProgress DEF CallTerminal
  <2> HIDE DEF u
  <2>. QED BY <2>2, <2>6, SoundDo, ResultOf
<1>7. CASE Connect(p)
  BY <1>7 DEF Connect, AllSound, Sound, SoundWait, Strayed, Windowed, Twofold
<1>. QED BY <1>2, <1>3, <1>4, <1>5, <1>6, <1>7 DEF Due

\* A connection that fails closes the window, and says so.
LEMMA SoundFailed ==
    ASSUME NEW s \in PhoneType, Sound(s), s.pc.sig = "stable"
    PROVE  Sound(OnState(Mix([s EXCEPT !.pc.conn = "failed"], "failed", TRUE), "failed"))
<1> DEFINE pc == [s.pc EXCEPT !.conn = "failed"]
           t  == [s EXCEPT !.pc = pc]
           x  == Mix(t, "failed", TRUE)
           u  == OnState(x, "failed")
<1>1. t = [s EXCEPT !.pc.conn = "failed"]
  OBVIOUS
<1>2. pc \in Pc /\ pc # NoPc /\ s.pc # NoPc
  BY DEF PhoneType, Pc, NoPc
<1> HIDE DEF pc
<1>3. /\ t \in PhoneType /\ t.peer = s.peer /\ t.pc = pc /\ t.stream = s.stream
      /\ t.mixed = s.mixed /\ t.ringing = s.ringing /\ t.active = s.active /\ t.waits = s.waits
  <2>1. t \in PhoneType
    BY <1>2, FieldTypes
  <2>. QED BY <2>1 DEF PhoneType
<1> HIDE DEF t
<1>4. Sound(t)
  BY <1>2, <1>3, SoundOtherPc
<1>5. Unmixed(t, x) /\ Sound(x) /\ "failed" \in x.mixed
  BY <1>3, <1>4, SoundMix DEF Mixed
<1> HIDE DEF x
<1>6. /\ u.peer = x.peer /\ u.pc = x.pc /\ u.stream = x.stream
      /\ u.mixed = x.mixed /\ u.ringing = x.ringing /\ u.waits = x.waits
  BY <1>5 DEF OnState, ClearIncoming, PhoneType, Unmixed
<1> HIDE DEF u
<1>7. x.ringing # None => Twofold(x)
  BY <1>2, <1>3, <1>5 DEF Sound, Unmixed
<1>8. \A w : SoundWait(x, w) => SoundWait(u, w)
  BY <1>5, <1>6 DEF SoundWait, Strayed, Windowed, Twofold
<1>9. Sound(u)
  <2>1. \A i \in 1..Len(u.waits) : u.waits[i].live => SoundWait(u, u.waits[i])
    BY <1>5, <1>6, <1>8 DEF Sound
  <2>. QED BY <1>5, <1>6, <1>7, <2>1 DEF Sound, Strayed, Windowed, Twofold
<1>. QED BY <1>1, <1>9 DEF u, x

LEMMA SoundFaulty ==
    ASSUME TypeInv, AllSound, NEW p \in Phones, Faulty(p)
    PROVE  AllSound'
<1>1. phone[p] \in PhoneType /\ Sound(phone[p])
  BY DEF TypeInv, AllSound
<1>2. ASSUME NEW i \in 1..Len(phone[p].waits), MediaRefused(p, i) PROVE AllSound'
  <2>1. phone' = [phone EXCEPT ![p] = Resumed(p, i)]
    BY <1>2 DEF MediaRefused
  <2>. QED BY <1>1, <2>1, SoundResumed, SoundOnePhone
<1>3. CASE ConnectionFails(p)
  <2> DEFINE u == OnState(Mix([phone[p] EXCEPT !.pc.conn = "failed"], "failed", TRUE), "failed")
  <2>1. phone' = [phone EXCEPT ![p] = u] /\ phone[p].pc.sig = "stable"
    BY <1>3 DEF ConnectionFails, TypeInv
  <2>2. Sound(u)
    BY <1>1, <2>1, SoundFailed
  <2> HIDE DEF u
  <2>. QED BY <2>1, <2>2, SoundOnePhone
<1>4. CASE Disconnect(p)
  BY <1>4 DEF Disconnect, AllSound, Sound, SoundWait, Strayed, Windowed, Twofold
<1>5. CASE ClosePage(p)
  <2>1. Sound(Idle)
    BY DEF Sound, Idle
  <2>2. phone' = [phone EXCEPT ![p] = Idle]
    BY <1>5 DEF ClosePage
  <2>. QED BY <2>1, <2>2, SoundOnePhone
<1>. QED BY <1>2, <1>3, <1>4, <1>5 DEF Faulty

LEMMA SoundNext == TypeInv /\ AllSound /\ [Next]_vars => AllSound'
<1> SUFFICES ASSUME TypeInv, AllSound, [Next]_vars PROVE AllSound'
  OBVIOUS
<1>1. ASSUME NEW p \in Phones, AutoAcceptLapses(p) PROVE AllSound'
  <2> DEFINE t == [phone[p] EXCEPT !.auto = FALSE]
  <2>1. phone[p] \in PhoneType /\ Sound(phone[p]) /\ phone' = [phone EXCEPT ![p] = t]
    BY <1>1 DEF TypeInv, AllSound, AutoAcceptLapses
  <2>2. SameCall(phone[p], t)
    BY <2>1 DEF SameCall, PhoneType
  <2> HIDE DEF t
  <2>. QED BY <2>1, <2>2, SoundSame, SoundOnePhone
<1>2. CASE UNCHANGED vars
  BY <1>2 DEF vars, AllSound, Sound, SoundWait, Strayed, Windowed, Twofold
<1>. QED BY <1>1, <1>2, SoundUser, SoundDue, SoundFaulty DEF Next

LEMMA SoundHolds == Spec => []AllSound
<1>1. Init => AllSound
  BY DEF Init, AllSound, Sound, Idle
<1>. QED BY <1>1, SoundNext, TypesHold, PTL DEF Spec

(* The camera runs only in a call with an open window, for any number of   *)
(* phones, calls, faults and crossings, but for what CameraNeedsCall names: *)
(* an end of the call, by whatever path, turns it off, and only a late     *)
(* continuation or a stray ACCEPT or OFFER turns it on again.              *)
THEOREM CallCameraNeedsCall == Spec => []CameraNeedsCall
<1>1. TypeInv /\ AllSound => CameraNeedsCall
  BY DEF AllSound, Sound, Windowed, Strayed, CameraNeedsCall
<1>. QED BY <1>1, TypesHold, SoundHolds, PTL

(* The ring timer runs only in the unanswered call it was armed for, but   *)
(* for what RingTimerOwnCall names: every handler that takes the call      *)
(* further, or ends it, cleared it first, unless that is another call.     *)
THEOREM CallRingTimerOwnCall == Spec => []RingTimerOwnCall
<1>1. TypeInv /\ AllSound => RingTimerOwnCall
  BY DEF AllSound, Sound, Twofold, Strayed, RingTimerOwnCall
<1>. QED BY <1>1, TypesHold, SoundHolds, PTL
=============================================================================
