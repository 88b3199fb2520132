----------------------------- MODULE GroupCall ------------------------------
(***************************************************************************)
(* Group calls: GroupCallManager (src/web/group_call.js), a mesh of one    *)
(* connection per pair of members, with the invitation dialog and the call *)
(* window of app.js.  A host invites a roster, whoever accepts announces   *)
(* itself with JOIN, which is echoed, and of each pair the lower id offers.*)
(* What follows an await is an entry of `waits'.                           *)
(*                                                                         *)
(* Abstracted: ICE candidates, device controls, names and keys.  A leg     *)
(* carries no number: NoGlare says that no second offer ever reaches it.   *)
(***************************************************************************)
EXTENDS Naturals, Sequences, FiniteSets

CONSTANTS Members, Rosters, LossyRosters, MaxSeats, MaxLost, None

ASSUME GroupAssumption ==
    /\ Members \subseteq Nat                   \* ids, compared by the glare rule
    /\ IsFiniteSet(Members)
    /\ None \notin Members \cup Nat
    /\ Rosters \subseteq SUBSET Members /\ LossyRosters \subseteq Rosters
    /\ \A R \in Rosters : Cardinality(R) >= 2
    /\ MaxSeats \in Nat /\ MaxLost \in Nat

VARIABLES
    group,      \* Members -> the state of GroupCallManager and of its UI
    chan,       \* chan[p][q]: frames on their way from p to q, in order
    rooms,      \* the rosters called so far, MaxSeats people in all; a room is its index
    lost,       \* frames and cameras lost so far, at most MaxLost
    joined,     \* history: who ever entered which room
    amiss       \* history: what went wrong, a subset of Amiss

groupVars == <<group, chan, rooms, lost, joined, amiss>>

(* "lost": a frame was lost.  "early": a member left while its camera was  *)
(* still being opened.  "refused": a member may not use its camera, and is *)
(* in a room without a window, unannounced.                                *)
Amiss == {"lost", "early", "refused"}

Rooms == 1..MaxSeats
Leg   == [known : BOOLEAN, active : BOOLEAN, sig : {"none", "new", "offered", "stable"}]
NoLeg == [known |-> FALSE, active |-> FALSE, sig |-> "none"]
Wait  == [fn : {"start", "accept"}, room : Rooms, peer : {None}]
         \cup [fn : {"offer", "answer"}, room : Rooms, peer : Members]
Frame == [cmd : {"INVITE", "JOIN", "BYE", "OFFER", "ANSWER"}, room : Rooms,
          roster : SUBSET Members]

Idle == [room |-> None, mem |-> [q \in Members |-> NoLeg], stream |-> FALSE,
         pending |-> None, roster |-> {}, shown |-> FALSE, waits |-> {}]

Result(g, out) == [g |-> g, out |-> out]
Quiet(g)       == Result(g, [q \in Members |-> <<>>])
Msg(cmd, room, roster) == <<[cmd |-> cmd, room |-> room, roster |-> roster]>>
Others(p, g)   == {q \in Members \ {p} : g.mem[q].known}

Broadcast(p, g, cmd, roster) ==
    [q \in Members |-> IF q \in Others(p, g) THEN Msg(cmd, g.room, roster) ELSE <<>>]
SendTo(r, cmd, room) == [q \in Members |-> IF q = r THEN Msg(cmd, room, {}) ELSE <<>>]

Await(g, fn, q) == [g EXCEPT !.waits = @ \cup {[fn |-> fn, room |-> g.room, peer |-> q]}]

participantCount(g) == Cardinality({q \in Members : g.mem[q].active})

-----------------------------------------------------------------------------
(* The mesh.                                                               *)

IngestRoster(p, g, R) ==
    [g EXCEPT !.mem = [q \in Members |->
        IF q \in R /\ ~g.mem[q].known THEN [NoLeg EXCEPT !.known = TRUE, !.active = q = p]
        ELSE g.mem[q]]]

MakePeer(g, q) == [g EXCEPT !.mem[q].sig = "new"]

ConnectTo(g, q) ==
    IF g.mem[q].sig # "none" THEN g ELSE Await(MakePeer(g, q), "offer", q)

(* A connection that is closed takes the descriptions being made for it    *)
(* along: their promises find no `m.pc'.                                   *)
ClosePeer(g, q) ==
    [g EXCEPT !.mem[q].sig = "none", !.waits = {w \in @ : w.peer # q}]

Teardown_KeepsPeers(g) == [g EXCEPT !.stream = FALSE, !.room = None, !.shown = FALSE]

Teardown_KeepsCamera(g) ==
    [g EXCEPT !.room = None, !.shown = FALSE, !.mem = [q \in Members |-> NoLeg],
              !.waits = {w \in @ : w.peer = None}]

Teardown(g) ==
    [g EXCEPT !.stream = FALSE, !.room = None, !.shown = FALSE,
              !.mem = [q \in Members |-> NoLeg],
              !.waits = {w \in @ : w.peer = None}]

-----------------------------------------------------------------------------
(* Messages.                                                               *)

OnInvite(g, m) ==
    Quiet(IF g.room # None \/ g.pending # None THEN g
          ELSE [g EXCEPT !.pending = m.room, !.roster = m.roster])

OnJoin_HigherOffersToo(p, g, q) ==
    IF g.mem[q].active THEN Quiet(g)
    ELSE Result(ConnectTo([g EXCEPT !.mem[q].active = TRUE], q), SendTo(q, "JOIN", g.room))

OnJoin_NoEcho(p, g, q) ==
    IF g.mem[q].active THEN Quiet(g)
    ELSE LET h == [g EXCEPT !.mem[q].active = TRUE]
         IN  Quiet(IF p < q THEN ConnectTo(h, q) ELSE h)

OnJoin(p, g, q) ==
    IF g.mem[q].active THEN Quiet(g)
    ELSE LET h == [g EXCEPT !.mem[q].active = TRUE]
         IN  Result(IF p < q THEN ConnectTo(h, q) ELSE h, SendTo(q, "JOIN", g.room))

OnBye(g, q) ==
    LET h == [ClosePeer(g, q) EXCEPT !.mem[q].active = FALSE]
    IN  Quiet(IF participantCount(h) = 0 THEN Teardown(h) ELSE h)

OnOffer(g, q) ==
    LET h == IF g.mem[q].sig = "none" THEN MakePeer(g, q) ELSE g
    IN  Quiet(Await(h, "answer", q))

OnAnswer(g, q) ==
    Quiet(IF g.mem[q].sig = "offered" THEN [g EXCEPT !.mem[q].sig = "stable"] ELSE g)

InRoom_AnyRoom(g, q, m) == g.room # None /\ g.mem[q].known

InRoom(g, q, m) == g.room # None /\ m.room = g.room /\ g.mem[q].known

OnPeerMessage(p, g, q, m) ==
    IF m.cmd = "INVITE" THEN OnInvite(g, m)
    ELSE IF ~InRoom(g, q, m) THEN Quiet(g)
    ELSE CASE m.cmd = "JOIN"  -> OnJoin(p, g, q)
           [] m.cmd = "BYE"   -> OnBye(g, q)
           [] m.cmd = "OFFER" -> OnOffer(g, q)
           [] OTHER           -> OnAnswer(g, q)

(* The camera is open, now or already: the window, and the frames to the   *)
(* members of the room as it is by then.                                   *)
AfterMedia(p, g, fn, R) ==
    Result([g EXCEPT !.stream = TRUE, !.shown = TRUE],
           IF fn = "start" THEN Broadcast(p, g, "INVITE", R) ELSE Broadcast(p, g, "JOIN", {}))

-----------------------------------------------------------------------------
(* Steps.                                                                  *)

Post(ch, p, out) == [ch EXCEPT ![p] = [q \in Members |-> @[q] \o out[q]]]

Do(p, r) == group' = [group EXCEPT ![p] = r.g] /\ chan' = Post(chan, p, r.out)

GroupInit ==
    /\ group = [p \in Members |-> Idle]
    /\ chan = [p \in Members |-> [q \in Members |-> <<>>]]
    /\ rooms = <<>>
    /\ lost = 0
    /\ joined = {}
    /\ amiss = {}

Seated == Cardinality({s \in (1..Len(rooms)) \X Members : s[2] \in rooms[s[1]]})

Enter(p, g, R, fn) ==
    LET h == IngestRoster(p, g, R)
    IN  /\ Do(p, IF h.stream THEN AfterMedia(p, h, fn, R) ELSE Quiet(Await(h, fn, None)))
        /\ joined' = joined \cup {<<p, g.room>>}

Start(p) ==
    /\ group[p].room = None
    /\ \E R \in Rosters :
         /\ p \in R
         /\ Seated + Cardinality(R) <= MaxSeats
         /\ rooms' = Append(rooms, R)
         /\ Enter(p, [group[p] EXCEPT !.room = Len(rooms) + 1], R, "start")
    /\ UNCHANGED <<lost, amiss>>

Answered(g) == [g EXCEPT !.pending = None, !.roster = {}]

AcceptInvite(p) ==
    /\ group[p].pending # None
    /\ IF group[p].room = None
       THEN Enter(p, [Answered(group[p]) EXCEPT !.room = group[p].pending], group[p].roster, "accept")
       ELSE Do(p, Quiet(Answered(group[p]))) /\ UNCHANGED joined
    /\ UNCHANGED <<rooms, lost, amiss>>

RejectInvite(p) ==
    /\ group[p].pending # None
    /\ Do(p, Quiet(Answered(group[p])))
    /\ UNCHANGED <<rooms, lost, joined, amiss>>

GotMedia(p, w) ==
    /\ w.fn \in {"start", "accept"}
    /\ Do(p, AfterMedia(p, [group[p] EXCEPT !.waits = @ \ {w}], w.fn, rooms[w.room]))
    /\ UNCHANGED <<rooms, lost, joined, amiss>>

MediaRefused(p, w) ==
    /\ w.fn \in {"start", "accept"}
    /\ lost < MaxLost
    /\ lost' = lost + 1
    /\ group' = [group EXCEPT ![p].waits = @ \ {w}]
    /\ amiss' = amiss \cup {"refused"}
    /\ UNCHANGED <<chan, rooms, joined>>

GotSdp(p, w) ==
    LET g == [group[p] EXCEPT !.waits = @ \ {w}]
    IN  /\ \/ /\ w.fn = "offer"
              /\ Do(p, Result([g EXCEPT !.mem[w.peer].sig = "offered"],
                              SendTo(w.peer, "OFFER", g.room)))
           \/ /\ w.fn = "answer"
              /\ Do(p, Result([g EXCEPT !.mem[w.peer].sig = "stable", !.mem[w.peer].active = TRUE],
                              SendTo(w.peer, "ANSWER", g.room)))
        /\ UNCHANGED <<rooms, lost, joined, amiss>>

Leave(p) ==
    LET g == group[p]
    IN  /\ g.room # None
        /\ Do(p, Result(Teardown(g), Broadcast(p, g, "BYE", {})))
        /\ amiss' = IF \E w \in g.waits : w.peer = None THEN amiss \cup {"early"} ELSE amiss
        /\ UNCHANGED <<rooms, lost, joined>>

(* The end button of a window that no room belongs to ends a 1:1 call.     *)
CloseWindow(p) ==
    /\ group[p].shown /\ group[p].room = None
    /\ group' = [group EXCEPT ![p].shown = FALSE]
    /\ UNCHANGED <<chan, rooms, lost, joined, amiss>>

Deliver(p, q) ==
    /\ chan[q][p] # <<>>
    /\ LET r == OnPeerMessage(p, group[p], q, Head(chan[q][p]))
       IN  /\ group' = [group EXCEPT ![p] = r.g]
           /\ chan' = Post([chan EXCEPT ![q][p] = Tail(@)], p, r.out)
    /\ UNCHANGED <<rooms, lost, joined, amiss>>

(* Which calls lose frames, and how many, is a bound of the run.            *)
Lose(p, q) ==
    /\ chan[q][p] # <<>>
    /\ lost < MaxLost
    /\ rooms[Head(chan[q][p]).room] \in LossyRosters
    /\ lost' = lost + 1
    /\ chan' = [chan EXCEPT ![q][p] = Tail(@)]
    /\ amiss' = amiss \cup {"lost"}
    /\ UNCHANGED <<group, rooms, joined>>

Resume(p) == \E w \in group[p].waits : GotMedia(p, w) \/ GotSdp(p, w)

GroupNext == \E p \in Members :
    \/ Start(p) \/ AcceptInvite(p) \/ RejectInvite(p)
    \/ Leave(p) \/ CloseWindow(p)
    \/ Resume(p) \/ \E w \in group[p].waits : MediaRefused(p, w)
    \/ \E q \in Members : Deliver(p, q) \/ Lose(p, q)

(* Frames arrive, cameras and descriptions get ready.                      *)
Fairness == WF_groupVars(\E p \in Members : Resume(p) \/ \E q \in Members : Deliver(p, q))

GroupSpec == GroupInit /\ [][GroupNext]_groupVars /\ Fairness

-----------------------------------------------------------------------------
(* Properties.                                                             *)

(* Type invariant.                                                         *)
GroupTypeOK ==
    /\ \A p \in Members :
         /\ group[p].room \in Rooms \cup {None} /\ group[p].pending \in Rooms \cup {None}
         /\ group[p].mem \in [Members -> Leg] /\ group[p].roster \subseteq Members
         /\ group[p].stream \in BOOLEAN /\ group[p].shown \in BOOLEAN
         /\ group[p].waits \subseteq Wait
    /\ \A p, q \in Members : chan[p][q] \in Seq(Frame)
    /\ rooms \in Seq(Rosters) /\ lost \in 0..MaxLost
    /\ joined \subseteq Members \X Rooms
    /\ amiss \subseteq Amiss

(* The glare rule: an offer that will be taken finds a leg nothing was     *)
(* done to yet, whichever JOINs and echoes crossed on the way.  A host     *)
(* that left early may invite people twice.                                *)
NoGlare == "early" \notin amiss => \A p, q \in Members : \A i \in 1..Len(chan[q][p]) :
    chan[q][p][i].cmd = "OFFER" /\ InRoom(group[p], q, chan[q][p][i]) => group[p].mem[q].sig = "none"

(* A participant on the screen once entered this very room: nothing of an  *)
(* earlier call, however late it arrives, counts in the next one.          *)
OnlyJoiners == \A p, q \in Members :
    group[p].mem[q].active => <<q, group[p].room>> \in joined

(* Camera and window belong to a room the member is in, unless it left     *)
(* while the camera was being opened.                                      *)
CameraInRoom == "early" \notin amiss => \A p \in Members :
    group[p].stream \/ group[p].shown => group[p].room # None

Linked(p, q) == group[p].mem[q].sig = "stable" /\ group[q].mem[p].sig = "stable"

(* Any two members of a room end up linked, in whatever order they came    *)
(* in, and whoever has left is no participant for ever.                    *)
MeshSettles == []<>(\/ amiss # {}
                    \/ \A p \in Members : \A q \in Members \ {p} :
                         IF group[p].room # None /\ group[q].room = group[p].room
                         THEN Linked(p, q) ELSE ~group[p].mem[q].active)
=============================================================================
