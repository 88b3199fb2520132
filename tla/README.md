# A verification project for telefon

telefon is an end-to-end encrypted messenger: browser, Android and terminal
clients exchange opaque frames through a relay that keeps no messages and no
accounts. This directory holds TLA+ modules that model its parts, the TLC
configurations that check them on small instances, and proofs checked by TLAPS.
Paths below are those of the repository (`server/src/hub.rs`); `PROJECT.json`
maps every definition to the lines it was written from.

## 1. Inventory

| part | source | state it keeps | hard behaviour | correct when | modules |
|---|---|---|---|---|---|
| relay registry | server/src/hub.rs | `by_id`, `online_xs`, two subscription indexes | four maps kept in step by hand | indexes agree; only live sessions registered | `Hub`, `Directory` |
| relay tasks | server/src/handlers_ws.rs, hub.rs `spawn_heartbeat` | one task per socket, the heartbeat | lock released between check, send and insert; abort skips cleanup; replies sent after unlock | a client is registered once, reaped when silent, its watchers learn it is there | `Relay` |
| WebSocket client | web/ws_client.js, app.js 2239-2459 | socket, backoff, flags | late callbacks of replaced sockets, timers, rejections | one live socket; reconnects after the last fault | `WsClient` |
| delivery bookkeeping | web/storage.js, DB.js, app.js | messages and outbox stores | read-modify-write across awaits, crash between two stores | a message is queued until stored; ticks are true | `Delivery` |
| mailbox client | app.js 1803-2025, ws_client.js | FIFO of unanswered STOREs, the fetch guard, nonces | timeouts, late answers, a mailbox that goes away | the flag is honest; a drain gets to the end | `Mailbox` |
| conversation screen | app.js 680-1040, 2840-3350 | current chat, rows, paging, edit and search modes, badges | every gesture while the storage is awaited | no message unnoticed; a chat on the screen is complete | `Chat` |
| contacts and block list | app.js 257-330, 525-625, 3934-3998, 4144-4222 | list, keys in the session, block list, and their saved copies | introductions, texts and reloads during a deletion | who is listed has keys; a block holds | `Contacts` |
| 1:1 calls | web/webrtc.js, app.js 2160-2220, 3177-3210 | call state, ring, prompt, camera, peer connection | crossing calls, teardown during `getUserMedia`, late timers | tones have their window; camera and timer belong to the call; calls settle | `Call` |
| group calls | web/group_call.js, app.js 1740-2153 | members, mesh | gossip, crossing JOINs, leaving during `getUserMedia` | one offer per pair; nothing of an earlier call counts; the mesh closes | `GroupCall` |
| file transfer | app.js 1530-1621, 3501-3642 | chunks received, the outbox row | losses and replays under one id, writes awaited between frames | acknowledged exactly when whole; arrives in the end | `FileTransfer` |
| WASM session | wasm/src/lib.rs | keys, established flag, peers | one flag for all sockets | a failed handshake leaves no keys | in `WsClient`, `Delivery`, `Contacts` |
| routing, INTRODUCE, push | handlers_ws.rs 216-521 | none of its own | recipient looked up under the lock, written to after it | | not modelled |
| link previews | server/src/preview.rs | TTL cache of 1000 | check, fetch, insert without the lock in between | | not modelled |
| push notifier | notifier/src/main.rs | token registry on disk, dirty flag | crash between change and flush, failed writes | | not modelled |
| terminal bridge | claude-client/src/main.rs | inbox journal, outbox | acknowledge before journal, restart | | not modelled |
| external | mailbox server, FCM / WebPush, browser, actix_ws, tokio | | | assumed | as `external` definitions |

Interactions: clients talk to the relay over one WebSocket each; the relay's
tasks share the hub under one RwLock; client code is callbacks on one thread
with interleaving at every `await`; messages between clients are carried by the
relay in order per socket pair, lost when the recipient is not connected, and
repeated by the sender's outbox.

## 2. Modules

Each component has its module, `MC<module>` with the instances for TLC, and,
where named, `<module>Proofs` with its theorems (`PageProofs` has those of two modules,
which is why `GroupCall` calls its specification `GroupSpec` and its types `GroupTypeOK`).

| module | models | state and actions against the code |
|---|---|---|
| `Hub` | the registry (`HubState`) | one variable per map; `insert`, `remove`, `add_subscriptions`, `remove_subscriptions`, `remove_all_subscriptions` are the methods of those names. A client's id stands for its key: `online_xs` holds clients. |
| `Relay`, `RelayProofs` | `connection_task`, `perform_handshake`, the SUBSCRIBE and UNSUBSCRIBE handlers, `broadcast_presence`, `spawn_heartbeat` | `pc` is where a task waits; each action is the code from one `.await` to the next. Sections under the RwLock contain no await in the tasks and are one action; the heartbeat closes sockets under the write lock, so there the lock is a state (`Locked`). `aborted` and `Die` are `AbortHandle::abort`: a task may still take steps until it suspends. |
| `Directory`, `RelayRefinement` | abstract: who is registered, who is subscribed to whom, each change atomic; the mapping from `Relay`, read from `my_subs` (`ForwardSpec`) and from `subscribers_of` (`ReverseSpec`) | |
| `WsClient`, `WsClientProofs` | `web/ws_client.js`, the handshake flags of `WsSession`, and the code of `app.js` that wakes, watches and forces the connection | every callback of a socket, timer and listener is an action. `sock` is `readyState`; `hooked` says whether `onclose` and `onmessage` are still attached, for sockets that were replaced live on. The relay is what a client sees of `Relay`: a connection's task checks whether the id is taken, answers, and inserts its session only then; it removes by id, whichever session that is (`holder`); the heartbeat's drop list (`doomed`) is older than the drop. |
| `Delivery`, `DeliveryProofs` | a text from composing to storage: `Storage`'s messages and outbox, `deliveryWatchdog`, `flushOutboxFor`, acknowledgements, deletion, the mailbox copy, the recipient's `onText` | a `Task` is one asynchronous function under way, and `at` its next IndexedDB transaction; each transaction is an action, so functions interleave at every `await`. Frames are counters of copies. `send-text` reads `currentPeerId` again after its awaits: the row may be filed under another contact (`misfiled`) and the mailbox copy go to one (`elsewhere`), who stores and acknowledges it. |
| `Mailbox`, `MailboxProofs` | `mailboxStoreText` with its 8 s timeout, `storeInMailboxOnOffline`, `onMailboxMessage`, `fetchMailbox` and its guard | `pendingMailboxStore` is a sequence, as in the code: answers carry no id and settle its head. The mailbox service is external and does what its frames say: store, refuse, deliver one, say EMPTY; it may go away and come back. |
| `Chat`, `ChatProofs` | the screen of a conversation: `openCallView`, `refreshChat`, `loadOlderMessages`, `markHistoryRead`, edit, search, clear, delete, send, `onText`, reload | `box` is what `#chat` shows; `tasks` are the functions awaiting the storage, each with what it captured before its `await`; globals of the page (`current`, `editing`, `oldest`, `noMore`) are variables read again after it, as in the code. A message is numbered by its `seq`; its `stamp` is the `ts` the pages are bounded by, which others may share and which may be set back. |
| `Contacts`, `PageProofs` | `peerBook` and its saved copy, the session's keys, the block list; deleting, blocking and unblocking with `Storage.clearHistory` row by row; INTRO_FROM, rosters, texts, file offers and file ends, restoring a backup, reload | `keys` is what `addPeer` and `removePeer` did; a task is a confirmation whose `clearHistory` is awaited, or an `onText` whose `saveIncoming` is. |
| `Call`, `CallProofs` | `CallManager` on two phones with the prompt, the tones and the call window of `app.js` | a phone is a record of the fields of `CallManager` and of the window; `Do` is a handler up to its next `await`, and the promises (camera, descriptions) resolve in any order. Frames are in order per direction and lost with a connection. |
| `GroupCall`, `PageProofs` | `GroupCallManager` on three members, the invitation and the window | `mem` is `members`: known, active, and how far the connection to that member has come; a wait carries the room it was started in, which the code does not look at afterwards. |
| `FileTransfer`, `FileTransferProofs` | `sendFile`, `replayFileSend`, `flushOutboxFor` at the sender, `onFileOffer`, `onFileChunk`, `onFileEnd` at two contacts, one of whom saves nothing | two functions may send one file at a time; chunks are numbers and the blob a set of them; every write that is awaited is a step of its own, between which frames arrive. |

The modules meet at these points. `Delivery` and `FileTransfer` assume of the
relay that whoever connects while the other is there brings the sender a
PEER_ONLINE: that is `NoMissedOnline` and `ArrivalKnown` of `Relay`, for a
subscriber that is itself connected. They, `Call` and `Mailbox` assume that
clients keep reconnecting: that is `ComesBack` of `WsClient`. `WsClient` assumes
that the relay forgets a session whose peer is silent or gone: that is
`SilentReaped` and `GoneFinishes`. `Mailbox` takes from `Delivery` that the text
is in the outbox, and gives it the copy; `Chat` and `Contacts` start where
`Delivery` ends, at `saveIncoming`.

## 3. Runs

| run | question | result |
|---|---|---|
| `relay_overlap` | two connections of one client overlap in every order while another watches it and is watched | the indexes agree, no arrival is missed |
| `relay_heartbeat` | a watched client falls silent, is pinged, dropped, aborted, with two overlapping connections | the hub holds no session of a task that ended, and the relay implements `Directory` both ways |
| `relay_live` | under fairness | a silent session is reaped, a task whose peer has gone ends |
| `ws_reconnect` | replaced sockets, late callbacks, a deaf path, sleep and wake, a call accepted, check and insert and removal at the relay apart | one socket, one retry, no false "connected", and the client comes back with its session in the hub |
| `delivery` | two functions at a time, a message copied, lost, acknowledged and deleted, a crash of either side | or the chat changed during the send: it is kept until stored, the ticks are true, and it is stored in the end, unless another contact got the copy |
| `mailbox` | two texts stored, refused or never answered; a drain whose connection or mailbox is lost, with loops of an earlier connection still about | no text is noted as stored that was refused, unless an answer was late or lost; a drain receives what lay there |
| `chat` | opening, leaving, scrolling, searching, editing, clearing, calling and reloading while texts arrive | no text arrives unnoticed but in the cases section 5 lists; a chat on the screen has every message, or scrolling up brings it |
| `contacts` | two peers introduce themselves, write, send files and join calls while they are deleted, blocked, unblocked, restored | who is listed has keys, unless listed again during its deletion; a block leaves nothing and nothing comes back but a file under way |
| `calls` | two phones, two calls either way, slow or refused cameras, rejected, cancelled, auto-accepted, unanswered, one fault or one mix-up | no tone without its window; camera and ring timer belong to the call and calls settle, but for the mix-ups the properties name; missed ones are told |
| `groups` | a call of three and one of two, late joins, leaving members, a lost frame | one offer per pair, nobody counts who did not join this room, the mesh closes |
| `files` | a file sent and replayed at once, with losses and reloads on either side | it leaves the outbox only if it was whole, and it arrives |

One run looks for what a comment of the code says and finds otherwise:

| run | statement | what happens |
|---|---|---|
| `file_misdirected` | app.js:3594-3595, a replay goes to "the recipient" | `sendFile` writes its row with the `currentPeerId` of several awaits later (3527): a user who opens another chat meanwhile leaves an outbox entry for that contact, who is sent the file at its next PEER_ONLINE |

Every property of a passing run has a mutant in the same module: a step with
one thing forgotten, under which TLC must find the property violated.

### Bounds

- Relay: two clients; the watched one has two connections, the watcher one.
  Two overlapping connections are the least that can collide, and
  the effects on a third client are those on the watcher. `MaxQuiet` says how silent a
  client may get (1: a ping falls due, 2: past the timeout). Connections
  are not used twice, so a client connects at most twice in a behaviour; the proofs hold for
  any number of connections, liveness is shown for two.
- WsClient: three sockets, one in use, one replaced, one the relay still
  holds; a socket both ends forgot is used again, so reconnects are
  not bounded. `MaxFaults` (2) bounds failed connects, drops and deaf paths, `MaxNudges` (1) the
  user's interventions, `InboxBound` the frames under way. The run takes two of faults and
  interventions together (`Bounded`); all three, 4.0 million states, take too long to be kept.
- Delivery: one message, two functions at a time, two copies under way, one
  lost connection, reload of either side or contact mixed up. What a message does after its exception
  holds for good (`Bounded`) is not followed. Messages share no state but the
  flush list, which `DeliveryProofs` treats for any number. Two faults or two messages
  are beyond TLC together with liveness.
- Mailbox: two texts, so that an answer can settle the wrong one; three FETCH_NEXT
  or answers under way, so that loops of two connections overlap; three faults.
- Chat: two contacts, which are symmetric, three messages with two values of `ts`, a window of one and pages of two
  (the code: 50 and 25), so that a chat has a screen, an older page, a tie and an end; four
  gestures and two functions awaiting the storage; the fourth gesture comes before the third message,
  and the first message has the first `ts` (`Bounded`). `ChatProofs` has no such bound.
- Contacts: two peers, two texts, two functions awaiting the storage; no bound on gestures,
  introductions and reloads.
- Call: two phones, two calls. At most two continuations wait at once, one phone rings at a time and
  while neither prompts, and one thing goes wrong: a fault, or a phone whose call gets mixed
  up with another (`Bounded`); auto-accepted calls go without either. With three continuations, or crossing
  mix-ups, TLC found no violation of the safety properties in 7 million states; `CallProofs` has none of these bounds.
- GroupCall: three members; calls of three, or of two neighbours, one after the other with four
  seats in all; frames and cameras are lost in calls of two only. Three is the
  least number at which JOINs are gossip.
- FileTransfer: one file of two chunks (a first and a last), two contacts of whom one
  saves nothing, two functions, one fault. The file's chunks do not interact with other files'.

`CHECK_DEADLOCK FALSE` is in every configuration: connections, faults and messages
are finite here, and once used up nothing need happen.

### History variables

Some variables are not the code's but record what a property has to know.
`asked`, `view` (Relay): what a subscriber wanted and was told. `overlapped` (WsClient): a
call was accepted on a closing socket. `slipped` (Mailbox): an answer came late or was lost.
`noticed` (Chat): what was on the screen, or counted in a badge its user opened. `lost` (Chat): a badge
or a receipt went that nobody saw, in one of the ways `NothingUnnoticed` names. `clean` (Chat): no two loads
overlapped since the screen was emptied, and no full page was of rows shown already.
`relisted` (Contacts): a contact was listed again while its deletion was awaited. `excused` (Contacts): a block was cut
short by a reload, undone by the user's own listing, or met a text that was being saved or a file under way.
`mixed` (Call): what was taken for the phone's present call since it last hung up: a continuation of a call that is over ("late"), an
ACCEPT or OFFER of another ("stale"), a second call accepted ("second"), a failed connection ("failed"). `amiss` (Call): phones
whose call lost a message or a camera, or had one refused; `forgotten`: a notice dropped that nobody owes any more. `amiss` (GroupCall): what went wrong so far, by name.
`misfiled`, `elsewhere` (Delivery) are the code's own, the row's `peer_id` and the copy.
`meant`, `crossed` (FileTransfer): for whom a file was; two functions were sending it at once.
Where a property excuses one of them, the code has no guard there: without the excuse TLC shows
the behaviour, and section 5 lists it.

### Fairness

- Relay: strong fairness of each task's step, as tokio's RwLock is a
  queue, so a task that waits for it gets it although the heartbeat takes the lock again
  and again; weak fairness of the heartbeat, an interval timer. Clients owe
  nothing.
- WsClient: weak fairness of the browser's callbacks and timers and of
  the relay's answers, inserts, closes and reaping. Strong fairness of one thing, that a replaced socket's
  close reaches the relay before the next connection is over: the next connection may
  overtake it, but not every time. Without it TLC finds a cycle, in which the cleanup of each replaced
  socket removes the session of its successor, by id, and the watchdog replaces that one
  in turn. Faults and the user are bounded.
- Delivery: weak fairness of transactions that were started, frames, timers
  and reconnects of both sides; nobody has to write, read or delete. The
  mailbox owes nothing.
- Mailbox, FileTransfer, Call, GroupCall: weak fairness of one action, that
  *something* of what is due (`Progress`, `Due`) happens: promises resolve, frames arrive, timers
  fire, both sides reconnect. Which of them is left open, so no order is assumed. Users, faults and what the
  mailbox refuses owe nothing.

## 4. Proofs

For every value of the constants, under the ASSUMEs of the modules:

| theorem | says | argument |
|---|---|---|
| `TypeCorrect` | `Relay` has its types | inductive as it is |
| `IndexesMirror` | `my_subs` and `subscribers_of` are inverse | with the types, inductive |
| `SessionsAlive` | a registered session's task is alive; `online_xs` is the registered clients; an aborted task is out of the hub | the three only hold together (`SessionInv`): `Die` ends any aborted task, so its session must already be gone, and it is the heartbeat that removes it before aborting |
| `ArrivalsTold`, `ArrivalsKnown` | a subscriber misses no arrival; of a peer that connects once, what it heard last is true | `PresenceInv` over `SessionInv`: of whoever is watched it was told, or the telling is under way, in the reply it waits for or in a list a broadcast has yet to reach; an "off" comes only from a connection that is gone |
| `ImplementsForward`, `ImplementsReverse` | `Relay` implements `Directory` | step simulation over `SessionInv`; the reverse one through `PairsAgree`, which is the mirror of the indexes |
| `WsClientTyped` | types, and the bound of a socket's inbox | with `Unanswered`: nothing is in the inbox of a socket the relay has not answered, so its answer finds room |
| `RetryAlone` | a retry is armed only when there is no socket | with the types, inductive |
| `SocketsAreOne` | one socket has callbacks, until a call is accepted on a closing one | needs `RetryAlone`: the timer's new socket finds none |
| `ConnectionsAnswered` | "connected" only after an answer | `Unanswered`, and `Held`, that the session the hub has is of a task that lives; on the current socket the flag is down until its answer is read, which holds only while sockets are one |
| `DeliveryTyped` | types | a function has a message exactly when its next transaction needs one |
| `OutboxKept` | a message stays in the outbox until stored or deleted, or held by another contact who was left a copy | `Reasons`: every function that will remove an outbox row carries its reason, an acknowledgement (so whoever sent that has it, `Held`) or the user's wish |
| `TicksTrue` | "delivered" and "read" are true, with the same exception | the same invariant |
| `MailboxTyped` | types; one pending request per text, one copy in the mailbox | `Once`: no text is twice among the pending, the STOREs under way and what the mailbox holds, nor in the latter two at once |
| `MailboxFlagHonest` | the mailbox flag is honest while no answer slipped | the pending requests are the answers under way followed by the STOREs under way, in order; so the head of the one is the head of the other |
| `FilesTyped`, `FilesWhole` | types; a file leaves the outbox only if it was whole at a contact | a chain back from the outbox: an acknowledgement has a stored message, a message a whole blob, a blob every chunk |
| `ChatTyped` | types | a function that goes on after its await has a contact's chat to work on; the oldest row is one of a `ts` in use, or none |
| `ChatNothingUnnoticed` | no text arrives unnoticed, but for what is in `lost` | a badge is only cleared by a function that has marked, or whose marking is under way; a function that ends or goes on leaves the markings of the others in place; what a badge counted is noticed when the chat it is opened in is shown |
| `ChatScreenComplete` | a chat on the screen is complete, or scrolling completes it, while `clean` | `Screen`: one function at a time fills `#chat`; `refreshChat` has it empty, and `loadOlderMessages` starts at the oldest row shown, for then and afterwards what is shown is the end of the chat, down to `oldest`. That a page is the newest so-many rows by `ts` and `seq`, and that one which is not full reaches the first, are lemmas on finite sets, proved from the least counterexample |
| `CallTyped` | types | handler by handler; the ids of connections are new because those in use (`Sids`) are finitely many, for which `Phones` must be finite |
| `CallRingsHaveWindow` | no tone without its window | an invariant of one phone, `Good`, that every handler keeps by itself, so no order of messages matters |
| `CallCameraNeedsCall`, `CallRingTimerOwnCall` | camera and ring timer belong to the call, whatever crosses or fails, unless something of another call got mixed into it since the last hang-up | `Sound`: what a phone knows of its own call and what it awaits for it, part by part, each part given up only for the mix-ups that break it (`Strayed`, `Windowed`, `Twofold`); a hang-up restores all of it but the continuations still awaited |
| `GroupTyped` | types; no more than `MaxSeats` people are called | `Known`: a member is in a room it entered, its legs and waits belong to that room, a frame comes from somebody who entered its room. Seats are counted, for which `Members` must be finite |
| `JoinersOnly` | a participant once entered this room | the same invariant |
| `CameraOnlyInRoom` | camera and window are in a room, unless somebody left too early | `Seats`: who has no room awaits nothing |
| `OneOfferPerPair` | the glare rule | over `Known` and `Seats`. `Once`: a member is invited into a room by one frame or prompt at most, and not after it entered, so it enters each room once. `Byes`: who said goodbye is out of that room. Hence, for a pair in one room, `Offers`: an offer under way is alone and its leg new; and while the offerer's leg is untouched there is none under way and the other leg is new too |
| `ContactsTyped`, `ListIsSaved` | types; the saved list is the one in memory | inductive |
| `ContactsReachable` | who is listed has keys, unless listed again during its deletion | `Reachable`: a deletion under way has a peer that is off the list or was listed again since; two deletions of one peer may be under way; what a block takes it also unlists |
| `BlocksStay` | a block that is through leaves nothing, and texts, introductions and new offers bring nothing back | `Covered`: as long as a block is under way, one function of that peer has yet to list the rows, or has listed all there will ever be, as no text is being saved any more (`Over`) |

Assumed of the constants is what each module's ASSUME says, nearly all of it types. What is
more: the sets of phones and of members are finite, as a relay's clients are, which the counting
above needs; a roster has two people at least (a group call has a host and somebody else); a page of the chat
is two rows or more (25 in the code).

Every safety property a passing run checks is proved. Only model-checked is liveness (`SilentReaped`,
`GoneFinishes`, `ComesBack`, `EventuallyStored`, `DrainFinishes`, `CallsSettle`,
`MissedTold`, `MeshSettles`, `FileArrives`), which is out of the prover's reach, as is ENABLED.

## 5. Where the code does otherwise

Met while modelling; `file_misdirected` shows one, the models reach the others, and properties
excuse them by the variable named in brackets.

Relay and connection:
- PROTOCOL.md:239-240, a disconnect clears the subscriptions: not when the heartbeat drops the
  client, whose task is aborted before its cleanup (hub.rs:222).
- handlers_ws.rs:624, "Old session wins": check and insert are two critical sections; the second
  connection may replace the first.
- hub.rs:180-181, the heartbeat drops those that said nothing: the list is from before the pings;
  who spoke since is dropped too (219).
- PROTOCOL.md:229-232, departures are pushed: the SUBSCRIBE reply is sent after the lock is
  released (handlers_ws.rs:347) and may overtake the PEER_OFFLINE. So may a PEER_OFFLINE the next PEER_ONLINE (199).
- ws_client.js:166-167, fatal rejections stop the retry loop: the text looked for is in no reason,
  and the loop goes on.
- ws_client.js:217-218, accepting a call reconnects fast: on a closing socket the old close event
  discards the new socket, whose session lives on; the two may refuse each other for ever [overlapped].
- handlers_ws.rs:619-622 checks, 665-668 inserts, 196 removes by id: the cleanup of a replaced socket may take its
  successor's session. The client shows "connected" and is not in the hub until its watchdog or a wake
  replaces the socket (`ComesBack` allows the time in between).
- A handshake nobody answers has no timeout (app.js:2442).

Texts, mailbox, screen:
- app.js:3343, "Persist first": a reload between the two writes leaves a row no retry will send.
- app.js:3374-3376, the mailbox is for "the recipient" (3380): `currentPeerId` is read after the awaits, so when the
  user has gone to another chat that contact gets the copy. It stores and acknowledges the text
  (1481-1488), `onDelivered` (1504) asks not who did, and the outbox entry goes; the recipient may never have it.
  A send while searching does the like with row and outbox, for `closeSearch` is awaited first (3341-3346) [misfiled, elsewhere].
- `markStatus` writes back the row it read (storage.js:75): a deletion meanwhile is undone, an edit lost, "delivered"
  taken back to "sent"; no property forbids it, but no message is lost by it.
- A read-modify-write of an outbox row may bring back one that was acknowledged (storage.js:157):
  one more copy is sent.
- A late STORED is credited to the wrong text (app.js:1895) [slipped]. The fetch guard stays
  set when the mailbox was away (1938), until the connection changes.
- The edit mode survives a switch of chats (app.js:690-692): what is typed next rewrites the other
  chat's message and is sent to the wrong contact. An edit is sent once (3332).
- Two overlapping `refreshChat` mix two chats or show rows twice, and may leave `noMoreOlder`
  set; a search that ends after it was closed replaces the chat by its hits [clean].
- storage.js:100-103, rows of one `ts` are "never skipped": they are when they fill a page. `loadOlderMessages` asks for the
  newest 25 up to the oldest `ts` shown, finds nothing new and sets `noMoreOlder` (app.js:1006-1010) [clean].
- `openCallView` clears the badge and has the receipts sent after its awaits (704-708): a text that came after the chat was left is
  marked as read though nobody saw it. So is one that comes while its chat is searched (1491) and left before the search is,
  or is current but not on the screen, its contact being called from the list (3181);
  `clearContactChat` takes the badge of texts that came meanwhile (564) [lost]. The receipts of
  `markHistoryRead` may also name a text that is still counted in a badge.
- A read receipt that was sent into a dead connection is noted in `readAcked` and not repeated.

Contacts:
- A contact listed again while its deletion awaits the storage loses its keys (540) [relisted].
- app.js:3932-3937, of a blocked peer "incoming text/calls/files are ignored, their chat is wiped": `onFileOffer` asks
  for the block, `onFileEnd` (1565) does not, so a file under way when its peer is blocked leaves a row and a badge [excused].
- A reload in the middle of a block leaves a blocked peer on the list (3967) [excused].
- Restored contacts are overwritten by any `persist()` in the 700 ms before the reload (4145-4159).
- `persist` (270) drops a contact's `type`, which 332 and 615 read: it is gone after a reload.
- A text that arrives during a deletion leaves rows and a badge of nobody's.

Calls and files:
- webrtc.js:189-192, a call that was answered no longer rings: accepting while one's own call is still
  ringing leaves its timer armed, which hangs up the running call 40 s later [mixed: second].
- A camera that is granted after the hang-up goes on with the call (680, 740-744) and stays on [late].
- webrtc.js:145-146, `_openMedia` is idempotent: not while the first is pending; one stream is never stopped.
- A hang-up that crosses ACCEPT reopens the call; a third party's HANGUP ends it [stale].
- A REQUEST repeated on PEER_ONLINE shows a second prompt during the call it asks for; to reject that one tears down
  the caller's side and leaves the callee in the call [second].
- The state 'failed' hides the window while camera and call live on (app.js:825-828) [failed]. A missed call may be told
  two or three times.
- group_call.js:322-323, "our tracks too": a JOIN or OFFER that comes while the camera is being
  opened makes a connection without tracks, and nothing adds them. `participantCount`
  counts oneself, so "If nobody is left" (276) never holds. Leaving while the camera is being opened leaves it on [amiss].
- A replay's OFFER empties the blob of a file that is already whole (app.js:1556). Two functions
  that send one file at once spoil each other's (1587) [crossed]. An outbox row without a file ends every flush (3639).

## 6. Not modelled, and why

Cryptography is a verdict on the handshake's first frame or an unknown sender. Lengths of
timers are left out: a timer that is armed fires at some time. Sends to a socket are instantaneous
in `Relay`; a full buffer would block the sender, and the heartbeat under its lock (hub.rs:226), which
would double the phases of every task. In the client: ICE candidates, device switching, screen
sharing and statistics (webrtc.js 214-550, group_call.js 147-225), labels, types and presence of
contacts, settings, the call log, thumbnails, chats that are not saved, and rendering.
The notifier, the link previews and the terminal bridge are separate programs or caches whose
state nothing modelled here reads. Widgets, translations, generated WASM glue, the older copies of
the client under android/ and wasm/www have no logic of their own. `PROJECT.json` lists every
component with its reason; the hazards there that name no property are in section 5, or belong to these parts.

## 7. Plan

What is left, in the order of its worth: an abstract specification of what `Delivery` promises
its user (composed, stored, known to be stored) and its refinement; what the pairs of modules assume of each
other (`Relay` for `Delivery` and `WsClient`) as one composed model; bounded socket buffers in
`Relay`; the bridge's journal.
