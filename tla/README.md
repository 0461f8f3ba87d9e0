# Vimar Intercom: a TLA+ model of the integration

This directory specifies and checks the part of `custom_components/vimar_intercom` that is hard to test: what
happens when rings, calls, answers, hang-ups, views, packets and lost messages meet in one asyncio event loop. The
modules are written from the Python source; line numbers in `PROJECT.json` ("map") say which lines each definition
stands for.

## 1. The system

| Component | State | Operations | Hard behaviour | Module |
|---|---|---|---|---|
| Call control (`sip_client.py`, broadcasts of `hub.py`) | `in_call`, `calling`, `call_state`, `pending_incoming`, `pending_responses`, the hub's `_was_ringing` and call timer, open media | `do_call`, `do_hangup`, `handle_incoming_invite/cancel/bye`, ACK with SDP, `do_answer_incoming`, `do_decline_incoming`, ring and call timers | every handler is a task; guards are read once and several awaits follow; messages are lost and repeated on UDP | `SipCall`, `IntercomLine` |
| Auto-call and viewers (`hub.py`, `views.py`, HomeKit) | `_stream_viewers`, `_auto_called`, generations, delayed hang-up, hang-up guard, settle and cooldown times | `stream_opened/closed`, `_do_auto_call`, `_call_panel`, `_delayed_hangup`, `async_call`, `async_hangup`, `claim_call` | a view opens while a call is being hung up; a hang-up ends after a newer one; late `call_ended` | `AutoCall` |
| SIP connection (`sip_client.py`, keepalive of `hub.py`) | socket or TLS stream, `registered`, reconnect task | `connect`, `reader_task`, `do_register`, `_reconnect`, keepalive, `async_start`, `async_stop`, `reset_state` | reader, keepalive and WebSocket all reconnect; late REGISTER answers | `SipConnection` |
| Media (`media_handler.py`) | reorder buffers, fragments, GOP cache, NAL and voice queues | `setup_media`, `stop_media`, `datagram_received`, `_emit_nal`, `_audio_broadcast` | sequence numbers mod 2^16, lost packets, media of a finished call | `MediaVideo`, `MediaAudio` |
| SRTP (`srtp.py`) | replay window, roll-over counter per SSRC | `protect`, `unprotect` | late and repeated packets, wrap-around | `Srtp` |
| `/av` (`av_stream.py`) and its standby (`av_passive.py`) | one ffmpeg each, the clients' queues, idle timer, a lock | subscribe, unsubscribe, start, stop, unload | a start or stop cancelled half way, a start during a stop, a slow client | `AvStream`, `AvPassive` |
| HomeKit (`homekit_*.py`) | sessions, shared encoder, talk decoder, setup code | prepare, start and stop of a view, answer, hang-up of the last one, pairing, restamping of packets | close during start, the end of the call during either, code against file | `HomeKitViews`, `HomeKitPairing`, `HomeKitTalk`, `DirectVideo`, `AudioTap` |
| The ring (`hub.py`, `ring_media.py`, `ring_log.py`, `frame_grabber.py`) | `_was_ringing`, outcome flags, away task, log, grabber, recorder | `ring`, `ring_ended`, answer, decline, test ring, photo and clip | what is told late meets the next ring | `RingDesk`, `RingFiles` |
| Plant messages (`plant_messages.py`, `switch.py`, `select.py`, parts of `hub.py` and `sip_client.py`) | `stats`, waiters by ID, seen requests, the switch's supposed value | duplicate filter, status, `SET_APT_PARAMS`, `find_sga`, door | the 200 of a command and its effect come apart, in any order, late or never | `PlantModes`, `PlantMessages`, `AptParam`, `FindPicg` |
| WebSocket phones (`__init__.py`, `views.py`) | one queue and sender per client | `_ws_send_bytes`, `_drain`, connection and its end | a slow client | `WsClients` |
| Inventory, entities, flows, HTTP clients, card | none that others wait for | callers of the above | none here | none |

Components interact through three channels only: direct calls (views and entities call the hub, the hub calls
`sip_client`), the broadcast callback (`sip_client` tells the hub `ring`, `ring_ended`, `call_started`, `call_ended`,
`message`) and the state callback (every change of `registered`, `in_call`, `calling`). All of it runs in one event loop:
two handlers interleave only where one of them awaits something that really suspends.

## 2. Modules

Specifications, each with its properties at its end: `SipCall` and the abstract `IntercomLine` it implements, `AutoCall`,
`SipConnection`, `Srtp`, `MediaVideo`, `MediaAudio`, `DirectVideo`, `AudioTap`, `AvStream`, `AvPassive`, `HomeKitViews`,
`HomeKitPairing`, `HomeKitTalk`, `RingDesk`, `RingFiles`, `PlantModes`, `PlantMessages`, `AptParam`, `FindPicg`, `WsClients`.
Proofs: `SipCallSafety`, `SipConnectionSafety`, `SrtpSafety`, `StreamsSafety`; `AutoCallSafety` and, on it, `HubSafety`, as
the properties of `MCHub` span the viewers and the plant; `DoorbellSafety` and, on it, `HomeKitViewsSafety`, as those of
`MCDoorbell` span the ring, the views, the code, the voice and the pictures.
Instances for TLC: `MCSipCall`, `MCSipConnection` and `MCRingFiles` of one module; `MCSipCases`, `MCHub`, `MCPackets`,
`MCStreams` and `MCDoorbell` of several, or of one under several environments. The latter have a variable `case`, chosen in
the initial state: only the part the case is about moves, and the properties are those of the parts, each in its cases.
Parts put together this way share no state; where components do interact, one module holds both sides (the hub and the
line in `AutoCall`, the ring and the hub in `RingDesk`, the call and `/av`'s clients in `AvStream`).

A definition whose name is another one's with a suffix, as `Answers_Confirmed` is of `Answers`, is that definition with a
plausible mistake in it. No specification uses it: put in the place of the original, it breaks the property that
`PROJECT.json` names for it ("mutants"), which shows that the property depends on that piece of code.

Constants called `Faults`, `Cuttable`, `Troubles`, `Yields` or `LateBy` say which awkward events the environment may
produce. A run leaves out those under which the code is known to break a property; each one left out is in
"Disagreements" below.

### How SipCall corresponds to the code

A handler is one action per stretch between two awaits. A message takes effect at the call of `send`, the suspension
comes after it. `send` hardly ever suspends on UDP (`sock_sendto`), and on TLS only when `drain` waits. The await kinds:
`"stop"` is `stop_av_ffmpeg` waiting for ffmpeg to exit (real, common); `"emit"` is `_handle_broadcast` waiting for a
WebSocket client that is slow to read; `"setup"` is the opening of the RTCP probes, only with DEBUG logging; `"send"` is
back-pressure on TLS. asyncio runs ready tasks in order, which `WakeupDue` keeps.

Not in SipCall: authentication challenges, forked INVITEs answered 482, the keyframe INFO itself (its wait is), 200
without SDP, `setup_media` raising, `HANGUP_BYE_TIMEOUT`, `silenced()`. `_watch_ring_media` is merged with the 90 s
expiry: both end the ring. The ACK and the BYE that answer a late 200 (`_close_orphan_invite`) leave in one action, each
with a fate of its own: `send` lets nothing of ours run between them that looks at this dialog. That BYE, and those of a
call annulled after its 200 and of a hang-up cut short, are sent once: a `"lone BYE"`. `unclosed` is history: the dialogs
the panel holds because a BYE got lost that nothing repeats. The line that `setup_media` logs is broadcast and settles
the ring at the hub (`SettleRing`), as every broadcast does.

### How AutoCall corresponds to the code

The line is seen from outside: `do_call` and `do_hangup` with the points where they suspend. Timers fire only when no
created task waits to run (`Idle`): seconds are long against a turn of the loop. `tasks` is the order in which
`create_task` made them. The HomeKit view hangs up at once when it is the last one, before the 30 s delayed hang-up of
the same leaving. Rings are not in this module.

### How SipConnection corresponds to the code

`stream` is the pair `reader`, `writer`; `link` says of each connection opened so far how its two ends see it. Whoever
runs `do_register` (startup and keepalive, the reconnection, the SIP test of the options) has an entry in `register`:
opening a connection of its own, waiting for an answer, or told nothing any more. Only the reader hears answers: that is
`Heard`. `reader.of` is the connection whose `read` it awaits, not the current one. `attempt` is the reconnection task:
0 when there is none. Startup and keepalive are one actor: the first tick is due 120 s after both start, when startup's
REGISTER (45 s at most with one connection) is over; the two overlap only if opening connections takes longer than that.
On UDP there is one link from setup to unload, which falls silent and comes back; a lost answer there means all
retransmissions were lost. `"closing"` is a connection closed by us until the TLS shutdown is over: until then its
reader gets no EOF.

A reload is `Unloads` (`async_stop`: the hub's tasks and the reconnection are cancelled), `Resets` (the close and
`reset_state`) and `SetsUp` (`async_start`), which may fail and be repeated (`SetupFails`). The REGISTER that follows the SIP
test of the options is a background task of Home Assistant (options_flow.py:556) that nobody cancels: `reset_state` wakes
it when it waits for an answer, not when it is in `connect()`. Then it opens a connection after "the transport is closed
and forgotten" (sip_client.py:478): it takes the place of the new hub's, or, failing, leaves none. The reader and the
keepalive find the way back: `Settles` holds. This takes three faults of `{"cut", "connect", "options", "reload"}`, run by
hand (0.9 million states).

Not in SipConnection: the names and certificates `connect` tries, the lifetimes granted and the renewal delay, the
OPTIONS ping.

### How Srtp corresponds to the code

One SSRC. Keys and tags are left out: the tag covers the roll-over counter, so a packet authenticates exactly when the
receiver guesses the index the sender used (`Authentic`). The bitmap `seen` is the set of its bits. `taken` and `lost`
are history. The path either keeps the order (and the sender may jump, or strays come in between), or loses, repeats and
reorders. A far packet ahead "goes through once" outside the window and is not in `taken`: the code's own comment says
that two of them sent in turn go through again.

### How the media modules correspond to the code

The panel repeats a fixed group (`Groups`: parameter sets apart, in a STAP-A, or with IDRs of one packet), and the path
loses, repeats and reorders. `MediaVideo`: a packet is its number, type and part (whole, start, mid or end of an FU-A);
`buf` is the reorder buffer, `fua` the NAL being put together, `gop` the group kept for late viewers, `queue` and `item`
the way to the WebSocket; `dec` is history: whether each viewer's decoder stands on a whole picture. `MediaAudio`:
`next`, `buf` and `late` are those of `RTPAudioProtocol`; `blocks` says what was played when. The loops `_nal_sender`
and `_audio_broadcast` are single steps per item. `DirectVideo` and `AudioTap`: one HomeKit phone; `out` is all it got,
numbered and stamped. `seen` is the group in memory, which a restart of the panel's stream does not clear. Time is in
frames or in slots of 20 ms; the grace for late packets of the old stream (`old_until`) does not run out. Not modelled:
the talk direction, G.711, RTCP, keyframe requests, the echo gate.

### How AvStream and AvPassive correspond to the code

`at` is the await where a task stands, `lock` the FIFO of the asyncio lock, `life` of each ffmpeg whether it was spawned,
listens on its ports, is dying or gone. A task in `Cuttable` may be cancelled at its await; the handlers' `finally` and
`except` branches are what `Cut` does then. The pump is a thread-like task that ends when the pipe does. An ffmpeg that
exits by itself stays in `av_ffmpeg_proc`, with `forward_av` on, until the next start or stop: what is sent to its ports
meanwhile nobody reads, in the code as in the model. `AvPassive` is a
client of `AvStream` in the code; here its decoder attaches, decodes and leaves, which is what `AvStream` offers it.

### How the doorbell modules correspond to the code

`HomeKitViews`: `line` is what the hub shows of the call; `view[v]` holds where `start_stream` and `_do_close` stand and
what the session holds (`has`: sockets, tap, bridge, process, sink, viewer); `queue` and `job` are the tasks of the
shared encoder, `gen` the call an encoder was made for, `open` the encoders that were not stopped. A cancellation
reaches `job` at any of its awaits: a start is undone, a stop (that of an undo too) ends there, and its encoder is in
`lost`. `HomeKitPairing`: codes are numbers; `file`, `loaded` and `shown` are the code on disk, in the driver and on the
options page; `saves` the tasks that write it. `HomeKitTalk`: packets are numbers, `said` the last one the panel got.
`RingDesk`: `truth` (history) is what became of each ring, `log` what the file says, `endings` the `ring_ended` that are
not told yet. `RingFiles`: `rec[r]` is the recorder of ring `r`, `onDisk` the files.

### How the plant modules correspond to the code

`PlantModes`: `wire` and `news` are the two directions to the panel, each in order; the 200 (`answered`) overtakes or is
overtaken by the panel's own MESSAGE. `pending` is the switch's `_pending` with `due` for its expiry; `from` in it is
history. DND is the same switch without the away message. `AptParam`: `waiters` by ID; `accepted` is history. `FindPicg`:
one action per exit of the loop over the addresses; `replies` are those on their way. `PlantMessages`: `now` counts in
steps of which `Window` stand for the 30 s; MESSAGE and NOTIFY are treated alike by the code. `WsClients`: `senders` are
the queues; NALs are numbered as the media loop hands them over.

## 3. Runs

| Run | Question | Bounds |
|---|---|---|
| `calls_end` | one use of the line and no handing over, the handlers' invariant, media with an owner, timers and tasks that end each use, one final response; liveness: the line is free again and again | one call, one ring, one hang-up, one loss, any duration |
| `hangup_closes` | liveness: a call hung up is closed at the panel | three losses of a BYE, a lone BYE, an ACK or a 200; one call, one ring, one hang-up; ffmpeg slow to exit |
| `environments` | call, panel and hub; refinement of `IntercomLine` | eight cases, see below |
| `hub` | viewers, auto-calls, guard; plant modes, parameters, search, messages, door; phones' queues | casts of two or three; one or two users of each plant operation; two phones with a queue of two |
| `connection` | liveness: registered again over a connection that is read; the keepalive goes on | two faults of any kind |
| `packets` | replay window, video, voice, what HomeKit's phone gets | numbers mod 10, 16, 32; three packets in flight; two calls |
| `streams` | liveness and safety of the shared ffmpegs | two clients, one of them slow; one call, three processes; two encoders |
| `doorbell` | sessions, pairing, talk, ring, files: safety | two views, two calls, two controllers, two rings |
| `doorbell_ends` | liveness of the same | one view, one call, two rings |
| `second_call`, `reconnect_in_call`, `clip_of_last_ring` | disagreements between a comment and the code | one question each |

Bounds. `MaxLoss` is at most 3 because the BYE of a hang-up is sent four times in its 5 seconds: with a fourth loss
nothing could be promised. A BYE that is sent once may get lost at the first, and `HangupCloses` and `NoLeakedDialog`
leave that dialog (`unclosed`) to the panel; every other one is closed. `hangup_closes` has no re-INVITEs: under weak
fairness a panel that sends them without end keeps a hang-up from ever running. Two calls, rings, views or clients are
enough for "an earlier one and a newer one"; the guards never look further back. Who shows up in `AutoCall` is bounded
by `Casts`; a larger cast `{v1, v3, User}` was run by hand (19.5 million states) and satisfies the same properties.
`MaxTries` 2 stands for the INVITEs that fit the 21 s budget.

`connection`: two faults (a cut, a silence, a failed connect, a lost answer, a challenge, a refusal, a forced
reconnection, a SIP test, garbled bytes, a call, a reload) are enough for every pair of them to meet; two attempts and two
challenges, so that both run out within them. Five links: at most four are referred to at a time (current, read by the
reader, two REGISTERs), so a fifth can always be opened.

`packets`: for SRTP the numbers roll over several times in order (`MaxIndex` 40, mod 10) and once reordered; `Window` 3
and runs of 2 and 3 keep `ResyncRun <= PastRun <= Window` as 3, 50 and 128 do. `ShortLoss` is exact: a sender that goes
back by just over a window loses `Window + ResyncRun - 1` packets (130, not the 2 of a larger step back), since the run is
broken when its numbers enter the window. It is stated for jumps in `Followed`, see below. Video and voice begin two
numbers before the wrap; their buffers hold two packets, fewer than are in flight, so that they overflow.

`hub`: the plant cases need one user, one question of the hub and one change at the panel to meet; two users meet in
`m_two`. Three addresses have a first, a middle and a last one; the reply is in its window or in the pause after it.
Three copies of two messages and a window of two steps let a copy come inside, at the edge of and after the window.

The eight cases of `environments`: a call against a ring; two calls, one with a refused SDP; two rings with previews; a
late offer; a slow client; re-INVITEs; failing sends; two losses of any message on UDP. An invariant is stated for the
cases in which the code keeps it, and `MCSipCases` says which: for instance `CallEstablished` leaves out two rings,
because the INVITE of an old ring, sent again after it was answered and hung up, rings again under the same Call-ID.

Fairness. Each handler's next step is weakly fair: asyncio runs every ready task. Timers and deadlines fire. The
panel owes nothing. A message is not lost for ever because `MaxLoss` is finite. In `SipConnection` tasks run and timers
fire (weak fairness), and a connection nobody answers on is given up by the kernel. An answer to a REGISTER that is heard
may again be a challenge, so passing is strongly fair; faults are finite (`MaxTrouble`). In `AvStream` and `AvPassive` a
process that was killed exits and one that was spawned opens its input or exits; in `HomeKitViews` and `HomeKitTalk` what
ffmpeg is asked for comes to an end; in `RingDesk` a ring ends in 90 s. No fairness is assumed of phones, viewers and users,
with one exception: a handler of `/av` whose stream was ended is supposed to leave (`Leave`), although a viewer that
does not read may hold `_pump_response` in its `write` (views.py:484-497) for as long as its connection lasts.

### Disagreements

The three violation runs are the findings of `PROJECT.json`. More were met while modelling; they can be reproduced with
the constants given. Of `MCSipCall`:

* `ByeRepeated` (one call, one hang-up, `Yields = {"stop"}`, `Lossy = {"BYE"}`, one loss): a hang-up while `do_call` is
  still behind `call_started` or its keyframe INFO. `do_call` then removes the queue of the Call-ID (sip_client.py:1422,
  1454); the hang-up's `_send_request` takes that for the panel's own BYE and gives up (sip_client.py:901), so a BYE that
  was lost is not sent again and the panel stays busy, against sip_client.py:1635 ("su UDP ritrasmesso finché la targa
  risponde").
* `NoLeakedDialog` without its `unclosed`: the BYE after an orphan 200 is sent once (`sip_client.py:707`), and the
  maximum-duration timer cancels itself (`hub.py:809`) before its BYE is answered: one loss leaves the panel busy. So does,
  with `LongCalls = TRUE`, a BYE of that timer that cannot be sent.
* `CallingHasTask`: the first INVITE cannot be sent (`SendFails = TRUE`); it is outside `do_call`'s `try`, and `calling`
  stays set.
* `HubKnowsRing`: declining a ring while a `do_call` starts sends no `ring_ended` (`Yields = {"stop"}`, one call, one ring).
* `CallTimed`: `stale_end` is decided before the WebSocket clients are awaited (`Yields = {"stop", "emit"}`, two calls).
* `RingTimed`: the 180 or 183 cannot be sent (`SendFails = TRUE`): the ring is recorded and has no timer.
* `AnsweredUnlimited`: a failed view leaves its silence limit and a re-INVITE of the next answered ring applies it.
* `RingIsIncoming`: a re-INVITE that arrives when the call was just hung up rings the bell.

Of `AutoCall`: `AutoKept`. The `call_ended` of a call that the panel ended, told after `stop_media`, clears the flag of a
newer view's auto-call (`hub.py:1216`): that view gets no video.

Of `SipConnection`:

* `OneConnect` (`_reconnect_started`: "Una sola alla volta"): `do_register` opens a connection of its own when the
  stream is closing, in parallel with the reconnection's, and one of the two is orphaned.
* `ReaderThere` (`Troubles = {"force"}`): the reader that gets the old connection's EOF after `connect` has returned takes
  the new connection for the old one and waits for the reconnection, whose REGISTER only it could hear: that attempt
  times out. `Settles` holds all the same.
* a REGISTER that times out on an old connection clears `registered` after the reconnection has set it; the next tick
  reconnects. `Settles` holds all the same.

Of `Srtp`: without `Followed`, `ShortLoss` fails. A jump by half a wrap or more at roll-over counter 0 that lands
fewer than `RESYNC_RUN_PAST_HALF_WRAP` (50) numbers before the wrap, or one just under half a wrap later, is followed
until its run crosses that edge and is then refused for good: the estimate, still from the old place, takes the other
side ("a real jump or a long loss goes on", srtp.py:183).

Of what a property leaves out by its words. `NoDyingCall`: on local UDP a second hang-up finishes at once with the first
BYE unanswered (hub.py:772), and a view may then be given that call. `CallTimed`: telling the hub of an end suspends
("emit"), see above.

Of the media: `ReplayWhole` of `MediaVideo`: the group kept for a late viewer may lack packets of its IDR that were lost.
`NumberOnce` of `DirectVideo` with `Reorders` and two streams: late packets of the old stream, after those of the new one,
get numbers already used. `NumbersContinue` of `DirectVideo` with two streams, whatever the path does: the panel's
stream restarts, and a phone joins before the new one has sent a parameter set. The resynchronisation does not clear
`_gop` (media_handler.py:603-608), so the group holds packets of both streams, sorted by numbers that have nothing to do
with each other: the phone's numbers jump by the distance between them, against homekit_video.py:12 ("continuous sequence
numbers"). `NumberOnce`, `TimePerFrame` and `OrderKept` therefore speak of phones whose group was of one stream
(`OneStream`). `PicturesDecode` and `VoiceInTime` follow a chain of packets within the first
stream of a call (`stream = begun`), and a block of voice counts as of the call in which it was played out of the buffer.

Of the streams: with "unsub" in `Cuttable` a handler cancelled in its `finally` leaves its client behind, with "kill" a
cancelled stop leaves a process nobody waits for: both break `NoneLeftRunning`. In `AvPassive` it is broken with "gather" in
`StandbyCuttable` (a handler cancelled once more while it waits for the run cuts the run's `finally` short), and
`NobodyHangs` with "unsub".

Of the doorbell: in `HomeKitViews` the faults "tap" (a start cancelled while it makes the tap leaves the tap) and "told"
(a call that ends while its answer is told leaves `_answered` set); `start_stream` does not look at `_closed`.
`EncodersHeld` is broken with any fault that cancels a view: a cancellation that comes while `_ensure_transcoder` stops
an encoder (homekit_accessory.py:331, 361, 368) cuts the stop short. The encoder was forgotten before, its ffmpeg has
had one SIGTERM, which it may ignore (homekit_audio.py:471): "the encoder was nobody's, and ran until Home Assistant
restarted", as tests/test_homekit_lifecycle.py:846 says of another such cancellation. `Released` leaves that encoder out
(`lost`) and no other. A view on its way out may still attach itself to an encoder, that of an ended call too:
`_open_video` looks at `stopping` before its sleep of 20 ms, not after it. `_do_close` detaches it, and `ReadsItsCall`
speaks of the views that stay. A cancelled `start_stream` is over at once here; in the code it holds the session's lock
until its halves have undone what they began. In `HomeKitPairing` "starting" and "stopping" (an unpairing while the
server starts or stops is not seen by the options page), "across" (a pair-setup that began with the old code succeeds
after it was replaced) and "order" (two saves in the executor may overtake each other). In `RingDesk` "overlap" (a ring
accepted before the end of the one before is told: no doorbell event, the outcome on the wrong entry;
sip_client.py:2034, hub.py:1243), "early" (a ring that ends before the hub is told of it is counted as missed without an
entry), "both" (a ring answered while its decline is being sent: the log may say either) and "cut" (the away message,
cancelled while it answers, takes the ring's end with it: no end is told and nobody is counted as missed). In
`RingFiles` "soon" (the next visitor rings while photo or clip of the one before are made: `NotifiesOwn`) and "view" (a
view placed while the photo is waited for: the photo shows the view).

Of the plant: in `AptParam` a change of the panel read between a reply and the task that waits for it is overwritten by
the older value (`crossed`). In `FindPicg` with `LateBy = {"probe"}` a late reply that falls into the next probe's window
is taken for that probe's, though hub.py:1471 says "Una reply fuori finestra quindi non identifica nessuno". In
`PlantMessages` a MESSAGE read while a change of panel silences the broadcasts (sip_client.py:60-73) is noted as seen,
answered and never told (`muted`); two changes of panel at once un-silence each other; a door answered 202 counts as
opened, though the relay only queued the command. In `PlantModes` with a change made at the panel while the switch is being
used (`crossed`) both voicemails may end up on.

## 4. Proofs

A run looks at small instances, a theorem at every value of the constants: any calls, rings, views, codes, packets and
bounds. Each theorem about a run's property has the inductive invariant it needs, kept by every action (one lemma per
action or group of actions), and TLC checked that invariant on the run's instance before it was proved.

### The call

`SipCallSafety` proves `TypeCorrect` (`TypeOK`), `HandlersAgree` (`HandlerInv`), `OneUse` (`LineExclusive`) and `MediaOwned`
(`NoOrphanMedia`), for any calls, rings, hang-ups, losses and failing sends. `LineExclusive` is not inductive: a handler
that has passed its guard and awaits knows something about the line that the variables do not show. `HandlerInv` says it:
the task that owes the rest of a step holds the event loop, and finds the line and the media as it left them. The
assumption `Unsuspended` says that sending and the RTCP probes do not suspend; with them suspending TLC finds
counterexamples, so it is needed.

Two action properties and a further invariant follow from it. `NeverHandedOver`: SipCall implements `IntercomLine` with
`ForgetfulSpec` (`KeepsToTheLine`): the line goes from one use to the next only as a telephone's does, and never from
one call to another without being free. The strict refinement, `RefinesLine`, cannot be a theorem: `_clear_call_state`
of a call that was annulled makes a later use forget its call's name (two rings, one repeated, or a re-INVITE), and
`Forgotten` is that step and no other. The proof classifies every action by how it moves the line (`VarMoves`,
`PcMoves`); `AnswerInv` (who picks up does so for the ring that was closed last) is what keeps a 200 from making a call
of another's ring. `FinalKept`: no final response is followed by one of another kind (`FinalIsFinal`), from
`ProvisionalInv`: a ring that is on has only had 1xx, unless its CANCEL is at that moment being answered. It needs
`~SendFails`: an exception in `send` leaves a ring on whose 200 was already recorded.

`EndsSet`: whatever takes the line has something that will end it (`EndsAreSet`, of `CallTimed`, `RingTimed` and
`CallingHasTask`). None of the three is inductive. `TimedInv`: a call that is up has the hub's timer, or the hub has still to
be told of it, or a hang-up is about to end it; and who told the hub of an end holds the loop and nobody talks (this needs
`"emit" \notin Yields`). `ArmedInv`: a ring that is on has its timer, or the INVITE's handler has still to arm it, or
somebody is closing it. `HeldInv`: `calling` has a `do_call` that waits for its answer or holds the loop; that nobody else
takes its response queue, its name or its dialog away is `Apart` (no ring with its Call-ID, no hang-up of it, no BYE for it on
the way), which holds from before the call is placed (`FreshInv`) and which every other handler's step leaves
(`OthersSpare`). The last two need `~SendFails`. The hypotheses are the ones whose absence breaks the property in TLC
("Disagreements"). The run has one call and one ring; before the proof TLC also checked the invariants with three calls, with
two rings, and with two calls and a ring. It is no liveness theorem: that the timer fires and the task goes on is the
fairness of `LineFreed`.

### The connection and SRTP

`SipConnectionSafety` proves `TypeOK` and `WaitsForOne` (the keepalive waits for a reconnection only while one runs),
together inductive. `SrtpSafety` proves `TypeOK`, `TakenOnce` and `NoFalseRepeat` for every sequence space, window and run
length with `ResyncRun <= PastRun <= Window < SeqMod`. Its invariant is `Exact`: the bits of the window are the indices
taken, shifted by `top`; that a run fits the window is what makes the bits set by a resynchronisation truthful.

### Viewers and hang-ups

`AutoCallSafety` proves `TypeOK`, `GuardEnds`, `OneDelayed`, `NoDyingCall` and `UnwatchedHasHangup` of `AutoCall` for any
views, users, casts and number of INVITEs. `GuardEnds` is not inductive: a hang-up that ends takes the guard down only if
it is the latest, and to know that no older one is still to run one needs the order of asyncio's ready queue. `HubInv`
adds it: whoever waits in `tasks` has not begun, stands there once, and the latest hang-up stands behind the others
(`TasksInv`); a call is placed once (`CallersInv`); a hang-up is asked for once (`UnaskedInv`); a hang-up that has not run
keeps the guard up, and on local UDP one without a guard has finished (`GuardInv`, from which `NoDyingCall` follows).
`NoneUnwatched` (`UnwatchedHasHangup`) rests on `WatchInv`: with somebody counted no delayed hang-up is kept, the view that
asked last is the last in the queue, its connected call holds the line unless the user dials over it, and when it asked
with the guard down no hang-up runs, so that `ComesLate` finds nothing in its way. The assumption `HangupAssumption` says
that hang-ups are neither views nor `None`.

### The plant and the phones

`HubSafety` proves the remaining properties of the run `hub` (`PlantAnswers`, `MessagesOnce`, `PhonesServed`, `HubTyped`), for
any users and setters of switch and select, addresses, messages, doors, phones and queue lengths, in any cases of which
`ModesAssumption`, `SearchAssumption` and `MessagesAssumption` hold. Each part has an invariant of its own; `HubPart` puts them
together, as the parts share no state.

* `MessagesInv`, from which `ToldOfOnce` follows. "Told once" is not inductive: the filter forgets. `NotedInv` says that a
  message that was told is still noted at its last copy, or a copy of it is waiting and the note is younger than
  `Window`; once swept, no copy of it can come any more. It needs that no second passes while a request waits (`ComesInv`).
* `SearchInv`: whoever searches goes on with nothing found (`GoesOn`), and a count that has moved tells of a reply to this
  probe or to the one before (`Provoked`), which is why `async_find_picg` names two candidates.
* `ParamInv`: the last change on its way is the panel's delay, and so is the value of a success with no change behind it
  (`DelayInv`).
* `ModesInv`: what the switch supposes dates from the news before the command (`PendingInv`); with a panel that obeys and lines
  that lose nothing, the last news on its way is the panel's mode (`LastWord`), a task has one message on its way (`WireInv`),
  who has the 200 of a question has its reply too (`AnsweredInv`), and once a command was read the panel is off (`OneInv`).
* `PhonesInv`: a phone's queue has no hole and begins where the phone ends or anew (`Chained`), and it ends with the last NAL
  or waits for a parameter set without holding video. What a newcomer is handed is computed by a recursive function; the
  induction over it, for which the library's theorem cannot be used, is by the least number that fails (`Least`).

The assumptions: a question of the hub's own is not one of a user's; a search has an address, and where replies may be as
late as the next probe they name whose they are (otherwise TLC finds the wrong unit named, see above); a case has finitely
many doors; the group begins with video; and `None` is none of the things it stands for.

### The streams

`StreamsSafety` proves the safety of the run `streams`: `StreamsTyped` (`TypeOK`), `NothingLeftRunning` (`NoneLeftRunning`) and
`StreamsServed` (the action property `Served`), for any clients, stops, slow clients, processes, encoders and calls.

* Both services work under an asyncio lock, and every await inside it is a step of its own. `Line` says what such a lock
  gives: whoever waits or is inside is in its queue once, and only the first is inside, so there is one `Place`. The lemmas
  about it (to append, to leave, to be cancelled in the middle) are of any tasks and stages, and serve both services.
* `LiveInv`, of `AvStream`. `ProcInv`: what runs is the process of `av_ffmpeg_proc` and has the ports; what dies is waited for by
  a stop or by `_reap_task`; what is being launched is some start's, or `_reap_task`'s. `SectionInv`: what a section has
  undone before it suspends (`forward_av` off, `av_ffmpeg_proc` forgotten, no clients) and what it may rely on when it
  resumes; RTP is forwarded only with a process in `av_ffmpeg_proc` and no reaping (`ForwardedToItsOwn`: never to one being
  started or stopped; one that exited by itself is still sent to, see section 2).
  `WatchInv`: an ffmpeg that runs has a client or the grace behind it. `PortsFree` alone is not inductive: a start
  cancelled at its `Popen` leaves a process that will bind the ports later.
* `StandbyInv`, of `AvPassive`. `RunInv`: the run that feeds an encoder is the one of `_task`; one interrupted in its `finally`
  is being stopped, and who stops it kills the encoder it may have left.

`CuttableAssumption` names the awaits at which a handler may be cancelled; it leaves out only those for which TLC finds
`NoneLeftRunning` broken ("unsub", "kill"; in the standby "gather").

### The doorbell

The two modules prove all the safety properties of the run `doorbell`, for any views, calls, encoders, controllers,
codes, failures, packets, visitors, test rings, frames, and with the away message on or off.

* `DoorbellSafety!RingsToldHold` (`RingsTold`). `DeskInv`: the ring the hub knows, the answer, the ends under way and the
  call are all of the last visitor (`PhaseInv`): a ring may be over while its decline is being sent, and its end then told
  twice, the second time as declined, and a call be over before its start is told; an event without its end is a test ring or a ring in hand
  (`HookInv`); the outcome flags are those of the ring in hand (`FlagInv`); the away message acts in its own ring (`AwayInv`);
  the missed ones are counted, but for a ring still in hand (`TruthInv`, `CountedInv`, with cardinalities). For the log,
  `LogInv`: for each visitor the last queued change is its outcome, and no change comes before the line it changes.
* `CodeAndTalkHold` (`CodeAndTalk`), from `PairInv` (the code in force is the last one saved or about to be,
  and a code that was replaced is saved nowhere unless a save was lost) and `TalkInv` (the decoder that runs is the one
  `_talk_proc` names). `PicturesHold` (`PicturesOfRing`), from `FilesInv`: video, grabber, photo and recorder are of the
  visitor at the door.
* `HomeKitViewsSafety!SessionsHold` (`SessionsInOrder`), and the same for each environment of its own in `DoorbellInOrder`.
  `ViewsInv`: of each session, what it holds at each point of `start_stream` and `_do_close`, and whether what it shows is
  of this call (`SessionInv`); whose call the line's is and who will hang it up (`LineInv`: as long as HomeKit is on, its
  call was answered, is about to be told, or is hung up); of the encoder's lock, who waits and for what (`QueueInv`: an
  encoder of an earlier call has a stop behind it, a view waits at most once), and whose each encoder is that was not stopped
  (`HeldInv`: kept, in the job of the lock, or cut short in its stop). None of `Released`,
  `EndsWithLastView`, `OldEncoderGoes` is inductive alone: `OldEncoderGoes` needs the generation in which a job began,
  `EndsWithLastView` the interval between the 200 and its broadcast.
* `KeptToItsOwn` (`KeepsToItsOwn`), from `ViewsInv`, `DeskInv`, `PairInv`, `TalkInv` and `OrderInv` (packets in the pipe and
  those held are in the order they were spoken, none older than what was said).

Their hypotheses are the awkward events under which TLC finds the property broken; each is listed in "Disagreements":
`Orderly` (no "starting", "stopping", "order") and no "across" for the code; `OneAtATime` (no "soon", "view") for the
pictures; in `Legal`, for the sessions, no "tap", "told"; in `Apart`, for the ring, no "overlap", "early", "both",
"cut". The cases of `MCDoorbell` satisfy `Legal` and `Apart`, the constants of `doorbell.cfg` the other two, so that the run
is an instance of the theorems. A save that is lost, a crash and a disk that fails are allowed in all of them.

Of the constants it is assumed only that limits are naturals, that `None` is none of the things it may stand for, and
that no view is called "other", the name of the cards' viewer (`ViewsAssumption`).

### Only model-checked

* Liveness: `LineFreed`, `HangupCloses`, `Settles`, `KeepaliveLives`, `NobodyHangs`, `AllEnd`. The prover does not reason about fairness.
* `RefinesLine`, `CallIsWhole`, `NeighboursAgree`: stated for the environments in which the code keeps them.
* `ShortLoss` (a count over a run of at most one jump), `PicturesDecode`, `VoiceInTime` and `PhoneMedia` (packets in flight in any order).

## 5. Not modelled, and what is left

Not modelled, and not worth a model: text building and parsing (SDP, message framing), single HTTP requests, the
configuration wizards, entities, logs, the card; `PROJECT.json` lists each component with its reason. Not modelled yet,
in the order in which they would be taken up:

1. The talk direction of the media (`send_audio`, `send_pcm`, `_tx_loop`) and the answer by voice.
2. Unload during a call, with what it cancels of the call, the ring and the viewers.
3. The keyframe requests and their shared response queue; the SRTCP window; the device inventory.
4. Theorems: the order of `MediaAudio` and `MediaVideo`, what HomeKit's phone gets (`PhoneMedia`).
