# Verification of the web tunnel

TLA+ models of the tunnel in `src/web-tunnel`, the TLC runs that check them and
the TLAPS proofs about them. Paths below are relative to `src/web-tunnel` unless
they say otherwise.

## The system

A client behind a censored network reaches the internet through a server that
shares only a chat service with it (Bale). The client calls the server over
Bale Meet; both join a LiveKit room, shake hands, and carry TCP streams and UDP
flows as encrypted packets over the room. Where the room forbids data packets,
the packets travel inside the frames of a synthetic video track.

```
 applications          SOCKS5 listener                     egress sockets
      |                      |                                   |
      +----------------> mux v2 (client) <====packets====> mux v2 (server)
                             |                                   |
 client controller --- LiveKit transport                LiveKit transport --- dispatcher
 (start/stop/retry)          |                                   |          (accepts calls)
                        room: data packets or media-video carrier
                             +----------------- Meet --------------+
```

### Inventory

| component | state | operations | hard behaviour | correct when |
|---|---|---|---|---|
| media-video carrier, `shared/src/bale/media-video-carrier.ts` | pending fragments, ack repeats, seen numbers, partial and completed messages, expected id | `enqueueBytes`, frame ticker, `handlePacket`, `close` | frames lost, repeated, late; ids wrap; capacity wait | messages arrive whole, once, in order; nothing acknowledged is lost; everything arrives in the end |
| LiveKit transport, `shared/src/livekit-transport.ts` | two queues, `draining`, `closed` | `send`, `sendPriority`, `drain`, `close`, room events | control overtakes data; a close drops the queues | overtaking harms no stream |
| mux v2, `shared/src/mux-v2.ts` | stream and flow tables, heartbeat counters, bad-packet counter | open, write, close, `terminate`, `handleWire`, heartbeat | both ends act at once; a peer dies silently; limits | tables agree; bytes complete and in order; both ends close |
| SOCKS5 listener, `client/src/socks5.ts` | buffered reader, stream, UDP associations | request, CONNECT, UDP ASSOCIATE | requests in pieces, early close | any split parses; answers in order; no leak |
| egress and tunnel server, `server/src/egress.ts`, `tunnel.ts` | sockets per stream and flow, early writes | bind, connect, data, end, error, idle | socket and stream end in any order | bytes before connect are kept, both sides closed |
| handshake, `shared/src/handshake-v2.ts`, and room factory, `shared/src/bale/meet-factory.ts` | call, room, done flags | call, join, hellos, admission, leave, discard | time limits at both ends, nobody says goodbye | the two halves match; no end waits alone; calls discarded |
| client controller, `client-electron/src/main/controller.ts` | `mux`, `currentTransport`, `socksServer`, `userCancelled`, `reconnectTimer`, `status` | `startTunnel`, `stopTunnel`, `handleUnexpectedDrop`, mux callbacks | calls suspended at awaits share the fields | the status is true; one connection; starts settle; drops reconnect |
| meet dispatcher, `server/src/bale-session/server-dispatcher.ts` | pending offers, calls in progress, recent calls, running tunnels | offer, incoming call, accept with retry, fallback, idle close, `stop` | duplicate offers, events racing timers, overtaken fallbacks, stop during accept | one tunnel per call; an offer is not left alone |
| server controller, `server-electron/src/main/controller.ts` | configs, `status`, cached users, three files | start, stop, admit, create, delete, reset, account, save | awaits between check and use; crashes | one connection per config; deleted clients cut off; totals true |
| tunnel manager, `server/src/dashboard/manager.ts` | tunnels, users, lifetime counters | open, add bytes, close, update, reset | late callbacks after close | nothing counted twice |
| call watcher, `shared/src/bale/update-socket.ts` | socket, two timers, ready promise | `start`, `restart`, `close`, socket events | restart and close race the timers | one socket; never after close; always back |
| message poller, `shared/src/bale/native-sidecar.ts` | watermark per dialog, poll timer | poll, seed, history, close | shared dates, pages, failures, an empty dialog | every message once, in order |
| Bale API client, `shared/src/bale/client.ts`, `grpc-web.ts`, `messages.ts`, `proto.ts` | session | 12 requests, framing, encoding | fields missing, failures in three places | both sides mean the same |
| Android client, `client-android` | its own controller, mux and carrier | as on the desktop | threads instead of one event loop | as on the desktop |
| codecs, sign-in windows, dashboards, shells | files, windows | pure functions, I/O | none of order or time | not a protocol of this code |

How they interact: the controller creates transport, mux and SOCKS listener in
this order and is called back by the mux (`onClose`, `onTerminate`) and by the
listener (`onError`); the listener opens streams on the mux; the mux calls the
transport's `send*` and is called back with packets and with its close; the
transport awaits the room's `publishData`, which for the video track is the
carrier's `enqueueBytes`. On the server the watcher pushes calls and the poller
offers to the dispatcher, which accepts them through the API client, creates the
same stack, lets the controller admit the client, and binds each stream to an
egress socket whose bytes the manager counts.

`PROJECT.json` lists every hazard at its line with the properties that watch it.

## Modules

| module | models |
|---|---|
| `OrderedChannel` | what a packet carrier promises: delivery of a growing prefix of what was sent |
| `MediaCarrier` | both ends of the video carrier over a lossy, repeating, reordering track; implements `OrderedChannel` in each direction |
| `TunnelMux` | mux v2 and LiveKit transport at both ends, over links that behave like `OrderedChannel` until an end leaves |
| `StreamPath` | one SOCKS connection from the application to the destination: listener, streams and flows, egress |
| `TunnelSession` | calls, rooms, handshake and admission at both ends |
| `ClientController` | the tunnel lifecycle of the desktop client |
| `ServerSide` | the server: start and stop of its controller, the dispatcher of calls, admission and deletion of clients |
| `TrafficLedger` | who moved how many bytes: manager, controller and files |
| `CallWatcher` | the update socket that hears of calls |
| `MessagePoller` | the poll of dialogs that finds offers |
| `Protobuf`, `BaleMessages`, `BaleClient` | wire format, messages, and requests of the API client against a service that follows the documented messages |
| `...Proofs` | theorems about the module they are named after; `IncomingCallsProofs` about `CallWatcher`, `MessagePoller` and `Protobuf` |
| `MC...` | values and bounds for the runs of the module they are named after |

Three compositions: `MediaCarrier` shows that a direction of the carrier is an
`OrderedChannel`; `TunnelMux` assumes nothing else of its links and shows that a
direction of a channel is one again; `StreamPath` puts listener and egress at the
ends of such channels (data in order, control overtaking, either end closing
without a word). `TunnelSession` composes client controller, room factory,
handshake, dispatcher and admission, each cut down to what the other end can see;
`ClientController` and `ServerSide` have them in full, one end at a time.

**MediaCarrier.** The variables are those of `makeRtcNodeVideoPacketCarrier`.
`Send` and `EnqueueFragment` are `enqueueBytes` up to its loop and one turn of
it; `TickAck`, `TickData` and `TickIdle` are the three results of
`selectFramePacket`; `Receive` is `handlePacket` with everything it calls.
Time is three ages of a pending fragment. A frame that was received may be seen
again (`net'` may keep it), lost, or overtaken. Payloads name their message and
place, so that a fragment in the wrong message would show. The ids keep their
wrap (`NextId`) and the codec its reserved value (`PiggybackAck`).
`completedMessages` and `expectedMsgIds` are kept per sender in the code; a call
has one peer. Abstracted: `MEDIA_VIDEO_PAYLOAD_BYTES`, the I420 picture, and the
limit on numbers in one ack frame, which `MAX_PENDING_PACKETS` keeps from being
reached.

**TunnelMux.** One action per operation of the mux; `Enqueue`, `Advance`,
`Published` and `Sever` are the transport. Whatever takes a transport down
(`close`, a failed publish, a disconnect, the death of the process) runs
`shutdown` and loses a suffix of what the end had under way; these are one
action, `LinkEnds`, and the last conjuncts of `Terminate`, `Stray` and
`Heartbeat`. `wrote` and `got` are history. A UDP flow differs
from a TCP stream in its limit only. At most one ping and one pong of an end are
under way (`SendBeat`); a lost heartbeat is one that has not been sent.
How much an end may write is bounded by `Chunks`, per end and channel.
Not modelled: log packets, `measurePingRtt`, and a control message that decrypts
but does not decode (both ends would have to differ in version).

**ClientController.** The controller is single threaded, so an action is what
runs between two awaits, callbacks included. `pc` says where each suspended call
is. `StopTunnel` is the synchronous part of `stopTunnel`; it takes the fields it
sees as parameters because an attempt that fails has just changed them, and the
nested call that a closing mux makes is folded into it (the outer call then finds
no listener to wait for, which is what `Waits` says). `Drained` is the event that
resumes whoever awaits a listener's close. Under-approximations: another program
taking the port between the probe and the listener, more than one live mux beside
the one that drops, and calls of `signOut` and the short log connection in
between. The start button's guard is the renderer's (`renderer/index.html:244`).

**ServerSide.** Each `startServer` makes a dispatcher, a tunnel manager and a watcher of
its own; closures keep them together after the controller has dropped them, so the
dispatchers' state is indexed by this generation and the fields of the controller
(`manager`, `dispatcher`, `watcher`) hold one, or 0 for null. `StartServer`,
`StartSucceeds` and `StartFails` are the parts of `startServer` around its await of the
watcher; `BeginStop`, `WatcherClosed` and `StopEnds` are `stopServer` between its
awaits, and `StopDispatcher` is the dispatcher's `stop`. `Offer`, `Push`,
`FallbackTimer` and `FallbackResumes` lead to `Spawn`, the synchronous head of
`spawnMeetTunnel`. A fallback that asks for a restart (`RestartWatcher`) takes the
watcher's newest promise away from those that asked before: any of them may be overtaken
and never resume. Which of them are is a matter of the socket's events (`CallWatcher`),
so here it is any subset. What follows it is a record in `tunnels`: accepting with its
retries and joining the room are its stage "accept", then come the handshake and the
run; `Finish` is `finishMeetCall`. `HandshakeDone` is `handleClientMetadata` with its
answer. Terminating a tunnel closes its mux in the same turn, so `DeleteClient` ends
them. The guards of starts and stops are the panel's: its start button is disabled while
a start is under way, its stop button is not disabled during a stop (`DoubleStop`). Left
out: the caller's identity, which labels the dashboard; the filter of stale dates;
creation of configs and usage accounting; `idleMs`, which ends a tunnel like any other
close. `DoubleStop = TRUE` allows overlapping stops (deviation 4).

**StreamPath.** The application's bytes are pieces: four of the request (the
reads of `BufferedReader` and `parseAddr`), then data. `ChunkArrives` is the
`data` event with all that the reads it resolves go on to do: `RequestComes` up to
`Connect` (`handleConnect`), `Associate` (`handleUdpAssociate`) or `Refuse`, or
`DataComes`. `AppGone` is `end`, `close` and `error`; `OpenArrives` to `Dropped`
are `bindEgress`, the `Flow...` actions the association's flows at both ends,
`MuxCloses` the shutdown of either mux. Only the opening, closing and expiry of
flows are modelled: a datagram on an open one changes nothing. Left out of `bindEgress`:
an address that is neither a host nor an IP address, which its listener never sends and
which closes the stream at once (`server/src/egress.ts:61`), and the two hosts that the
server answers itself, without a socket (`wt-speedtest`, `wt-sendlog`). Control packets of
flows under way when a mux closes all get to the peer.

**TunnelSession.** A call has a number, an end at each side, a room, and hellos on
their way. `program`, `try` and `cancelled` are the client's controller, as far as it
decides when a call is made: `NextTry` is the loop of `startTunnel` with its three
attempts, `AttemptFails` what a failed attempt leads to, `Loses` adds `mux.onClose` of a
tunnel that was up, `UserStops` is `stopTunnel`. `StartCall` and `CannotCall`,
`ClientJoins` and `Left` are the factory, `ServerAccepts` to
`ServerJoins` the dispatcher and its factory, `ServerShakes` and `ClientShakes` the
two handshakes with what follows in their turn (admission; the check of the
server's key), `...TimesOut`, `...GivesUp` the time limits and heartbeats, `ServerIdles`
the timer that ends a tunnel on which no byte of a TCP stream has moved within a minute,
`ServerCutsOff` the operator's terminate and `ClientTerminated` the client that hears of it,
`...Breaks` a transport that closes itself and therefore leaves nobody to leave
the room. What fails by itself costs a fault; a timer does not, once what it waits for can
no longer come, nor does the idle timer where the applications are silent
(`given.traffic`). `Forget` lets a number be used again. Flows of the controller that
overlap and the SOCKS port are in `ClientController`.

**CallWatcher.** Sockets carry numbers so that an event of an old socket can meet
a newer one. `Restart` and `RestartGoesOn` are `restart` before and after it awaits
the close of its socket (or two seconds); `Closes` is the `close` handler with
`scheduleReconnect` or `connect`; `ready` keeps every promise ever handed out.

**TrafficLedger.** `manager`, `shown` and `cached`, `profiles` and `disk` are the
copies of each counter; `Tick` is the one-second timer with
`updateManagedClientUsage`, `Save` `persistStats`. `CrashWhileSaving` leaves a file
that does not parse, which loads as an absent one. A tunnel that outlives
`stopServer` goes on counting in a manager nobody reads and is not listed.
History variables (`moved`, `since`, `used`, `forgiven`) say what is true.

**MessagePoller.** `Poll` lists dialogs; `Seed`, `Skip`, `History` and their failures
are the turns of the loop of `pollOnce`. A dialog without a message is seeded in two
steps, because the local clock is read after the answer was awaited: Bale finds nothing
(`FoundEmpty`), messages may come, and the clock is read (`SeedEmpty`), at Bale's last
date or up to `Ahead` later. The other requests are one step: what comes after Bale has
answered them is found by the next poll. Bale is external: `Lists` and `Pages` say that
answers are ordered by date and nothing else. `Absorbed` is the loop over a sorted
history. Fewer messages share a date than fit a page (`Send`): Bale can be asked for
what is newer than a date only, so the code could not get past a fuller one. Names that
`CallWatcher` has too bear the prefix `Poller`, so that one module can be about both.
`old` and `since` are history: what Bale had when it answered the seed, and the time an
empty dialog was seeded with.

**Protobuf, BaleMessages, BaleClient.** The wire format with its
widths as constants: the run keeps groups of 7 bits but has words of 24 bits in at most
4 groups for the code's 64 bits in 10, so that TLC can compute with negative numbers;
the theorems hold for any widths whose words fit their groups (`WidthsAssumption`). `BaleMessages`
has one operator per encoder and decoder. In `BaleClient` the service is described by
tables of the documented fields (`RequestType`, `AnswerType`), from which it reads
requests and writes answers, with undocumented fields between them; `Fails`, `StatusOf`
and `Outcome` are `grpcUnary` and `handleValidateResponse`.

## Runs

| run | asks | bounds |
|---|---|---|
| `carrier_two_way` | Is nothing lost, is every step one of the channel? | 2 + 1 messages of 1 or too many fragments, acks riding on data, 1 frame in flight each way |
| `carrier_wrap` | Do wrapped ids, a forgetting window and a full pending set do harm, and does everything arrive? | 5 messages over 3 ids, window 2, 1 pending |
| `client` | Is the status true; one connection; do starts settle, do drops recover? | 3 live attempts, 2 drops, 2 starts, 1 stop, 2 tries, port taken once |
| `mux_channels` | Do tables agree, is data complete and in order, whatever overtakes? | 2 flows against a server limit of 1, up to 2 chunks on one and 1 on the other, 2 bad packets |
| `mux_heartbeat` | Does the other end always notice? | 1 stream, 2 missed heartbeats |
| `streams` | Bytes in order, no leak at either end, every request answered? | 3 pieces up, 2 down, 2 destinations, 4 flows, limit 2 |
| `session` | Do the halves match, is nobody alone, are calls discarded, does the reconnect loop win? | 2 calls at once, 1 fault, 2 presses, 3 tries, clients that differ from the usual in one respect |
| `server_calls` | Is a call served once, an offer left alone only by an overtaking restart, a config used once, a deleted client cut off? | 2 interchangeable calls, 1 config, 2 starts, 1 stop beside failed starts, 1 forgotten call |
| `watcher` | One socket, none after close, always back, callers answered? | 4 calls of start or restart, 2 losses |
| `ledger` | Nothing twice, resets stick, totals explained and growing? | 2 peers, 1 config, 2 tunnels, 2 bytes, 2 starts, 1 crash, 1 reset |
| `poller` | Every message handed on once, in order, in the end? | a busy dialog of 3 messages, one of 1 that is listed while empty, clock up to 1 ahead, pages of 3, lists of 2 |
| `bale_client` | Do client and service understand each other? | all requests; a negative, a zero and a long number; three texts |

Why these bounds: out-of-order completion needs two messages, of which one has too many
fragments to be released at once; a retransmitted copy needs one frame that may stay in
the network while its successor is sent; wrap needs more messages than ids. A session
whose traffic lasts a whole trip round the id space while one frame stays in the network
can lose data: the acknowledgement in that frame has no epoch. The code's 65535 ids make
that half an hour, so the wrap run is one-way (acks then travel in frames of their own,
which `TickAck` consumes) and keeps window and pending set smaller than the id space, as
8192 and 192 are smaller than 65535. For the mux, overtaking needs one packet being
published, one queued on each side; a refusal needs one flow more than the server takes.
Two drops at once and a second start cover every pair of flows of the controller that
share its fields; `SingleConnection`, `StartSettles` and `Recovers` are stated until the
second start is pressed or the port is taken, because the code does not keep them
afterwards. For the server, two generations and two calls let a call of the first run,
be accepted or await a fallback while the second starts and meets it again, and let one
fallback overtake another's restart. Stops are kept from overlapping (`DoubleStop`):
with two of them `OneUse` fails (deviation 4). For a stream, three pieces are one that
comes with the request, one that waits for the connection and one after it; four flows
over two keys let a key be freed and taken again while the old flow's close is under
way, and meet the limit. In a session two calls are one the server still holds and one
that replaces it, one fault breaks either end, and two presses are a start and a stop or
a second start. The watcher's four calls overtake each other with a socket closing, one
opening and one refused. One crash and two starts let every file be read by a manager
that did not write it. Three messages in pages of three, of which one is asked for again
each time, end a page within a date; the dialog that is listed while empty gets its
message before the answer, while it is awaited, or after it, with a date before or after
the clock that is read. No dialog is pushed off the list in the run: one beyond the 40
that are listed waits until it is written to again, so nothing holds of it but what is
proved for lists of any length.

`CHECK_DEADLOCK FALSE` everywhere but in `bale_client`: a closed carrier, watcher or poller, a tunnel
that ended and a program whose bounds are used up have nothing left to do.

### Fairness

- `MediaCarrier!FairSpec`: the ticker is an interval timer, so a fragment that is
  ready is published again and again and acks are not postponed for ever; of
  infinitely many data frames, and of infinitely many frames that acknowledge
  something, one gets through. Nothing is assumed of any single frame, and
  `close` is never forced.
- `TunnelMux!FairSpec`: only the heartbeat timer and the handling of packets that
  have arrived. Publishing may stall and the room may never report a loss.
- `ClientController!FairSpec`: timers fire, every request and handshake settles
  (`withTimeout`; requests to Bale carry no timeout of their own, so their ends are the
  network's), the connections of a closed listener end, and attempts made for ever
  do not all fail to reach the server.
- `StreamPath!FairSpec`: what is under way arrives while its ends live, a
  mux whose peer is gone closes (heartbeats), and an application closes a connection the
  listener has ended. Application and destination may otherwise do nothing for ever.
- `TunnelSession!FairSpec`: of each call something that can go on does: requests
  are answered, hellos a carrier still has are delivered, and a timer fires when what
  it waits for can no longer come. Faults are bounded, and need not happen. Where no
  application moves a byte the idle timer does fire, again and again; `ConnectedInTheEnd`
  speaks of clients whose applications do.
- `CallWatcher!FairSpec`: timers run, and a socket that closes is done some day (`ws`
  gives up waiting by itself). That a connecting socket is answered some day is assumed of
  the network: no `handshakeTimeout` is passed to `ws`. Connections may be refused as often
  as the bound allows.
- `MessagePoller!PollerFairness`: the poll timer runs and a history, or a seed, that is asked
  for again and again is loaded some day.
- `ServerSide`, `TrafficLedger`, `BaleClient` have none: their properties are safety.

## What is proved

`MediaCarrierProofs`, for every value of the constants that
`ConstantsAssumption` and `BoundsAssumption` allow:

- `TypeCorrect`: `Spec => []TypeOK`, wrapping included.
- `CarrierInvariant`: `NoWrap => (Spec => []CarrierInv)`.
- `InOrderDelivery`: `NoWrap => (Spec => []InOrder)`.
- `NothingIsLost`: `NoWrap => (Spec => []((\A x \in Ends : FirstTrip(x)) => NothingLost))`.
- `CarrierRefinement`: `NoWrap => (Spec => ImplementsChannel)`.

`NoWrap` says that no end sends more messages than there are message ids. It is
needed: with a fragment of the previous trip still in the network, a message id
names two messages. The wrap run shows order on a small instance where the
window and the network are small enough.

`InOrder` is not inductive: it says nothing of fragments that are pending, in the
network or half assembled. `CarrierInv` adds that each of them is `Truthful`
(its id is the number of a message that was sent, its count that message's
length, its payload what belongs at its index), that a call in progress works on
the message it took its id for, and that the expected id is one more than the
number of messages handed over. A step of the receiver then reassembles a message
that was sent (`AssembledTruth`), and `HandOver` appends consecutive ones
(`HandOverTruth`). Loss, repetition, acknowledgements and the size of every
buffer play no part in this argument, so the theorem holds for any of them.

`NothingLost` is about sequence numbers, which wrap on their own; `FirstTrip` says of
an end that it has not numbered more fragments than there are. `LossInv` adds what makes
an acknowledgement mean the fragment it names: no two fragments that are pending or in
the network bear the same number (`Cut`), every number the peer remembers, still has to
acknowledge or has acknowledged in a frame under way (`Acked`) has been given out, and a
fragment whose number is among these is held by the peer. Past the first trip this is
false (the first hazard without a property), so the condition is needed.

Refinement follows from `CarrierInv`: `Send` appends to the channel's `sent`, a `Receive` that hands
over is a `Deliver`, everything else stutters.

`ServerSideProofs`, for every number of calls, configs, starts and stops:

- `TypeCorrect`: `Spec => []TypeOK`.
- `AdmissionInvariant`: `~DoubleStop` gives `Spec => []AdmissionInv`.
- `OneUsePerConfig`: `~DoubleStop` gives `Spec => []OneUse`.
- `DeletedAreCutOff`: `~DoubleStop` gives `Spec => []DeletedCutOff`.
- `OffersLeftByRestart`: `Spec => LeftOnlyByRestart`, an action property.
- `OneTunnelEachCall`: `Spec => []OneTunnelPerCall`.
- `EachCallServedOnce`: `Spec => ServedOnce`, an action property.

`OneUse` and `DeletedCutOff` speak of the tunnels of the dispatcher that runs and of the
configs their clients presented, the code of the ids its manager has on record, so
neither is inductive. `AdmissionInv` adds three things. The dispatcher that runs has the
manager of its own start (`StopsApart`); this is where stops must not overlap, and
deviation 4 is what happens when they do. Records and presented configs agree for
tunnels the manager knows (`RecordsTrue`). And a manager starts without any: nothing is at
work for a generation that has not been started (`FreshGenerations`), which keeps a
tunnel whose handshake ends in an old generation away from the current manager.
`LeftOnlyByRestart` follows from the types and from an offer that waits and is not served
when its timer fires. The last three need nothing of stops.
`OneTunnelPerCall` speaks of dispatchers that listen, so a dispatcher that starts must
find its books empty: `CallsInv` adds that nothing is at work for the generation that is
about to start (`Untouched`). A step that `CallsInv` allows is one that `ServedOnce`
allows, because the calls being served and those remembered are disjoint before it.

`ClientControllerProofs`, for every number of attempts, reconnect loops, starts and
stops: `TypeCorrect`, `NoGhost` (`NoGhostTunnel`) and `OneConnection`
(`SingleConnection`). The types need `RetryInv`,
startTunnel sleeps only when a try is left. `NoGhostTunnel` is not inductive: an attempt
whose mux closed while it looked for its port would come up without one. `MuxInv` says
that such a mux is in `muxClosedDuringStart`, and `NumbersInv` that the attempt is not yet
marked ready, since closing the mux of a ready one is not recorded there.
`SingleConnection` says nothing of why a second transport is never asked for; `OneInv`
does. What is open is what `mux`, `currentTransport` and `socksServer` name, so that
`stopTunnel`, which closes what they name, closes everything. One flow at most is at
work, and before its attempt has a transport nothing is open (`Got`). A mux that closed
during a start was closed by a `stopTunnel`, so `userCancelled` is set and the attempt
that finds it closed ends the reconnect loop instead of leaving its transport behind a
timer. `WaitInv`, that the one who awaits a listener is where the code says it is, makes
a listener that drains wake the only flow at work. `OneInv` holds until a second start
or a port held by another program, as `SingleConnection` does.

`IncomingCallsProofs`, of the watcher, for every number of calls and losses: `WatcherInvariant`
(`Spec => []WatcherInv`), and from it `ListensOnce` (`OneSocket`), `StaysClosed`
(`ClosedForGood`) and `NeverIdle` (`NeverAbandoned`). `WatcherInv` says exactly which
sockets live: of an open watcher the current one and no other, of a closed one at most
one that is leaving. With less, a timer that fires while an old socket is closing could
not be excluded.

Of the poller, for any dialogs, pages, lists and failures, from `PollerAssumption`:

- `HandedOnInOrder`: `PollerSpec => []HandedInOrder`.
- `HandedOnExactly`: `PollerSpec => []HandedExactly`.

The second has no condition on clocks; what they cost (deviation 7) is in `HandedExactly`
itself, which leaves out of a dialog that was found empty what is dated before the local
time read then. Neither property is inductive. `Behind` adds that the watermark has passed
all that was handed on; a message that is fresh for it is therefore no repetition and not
older. For `Exact` the watermark must pass one message at a time, and it passes every message
that is older than the one it moves to. So whatever else is older must have been passed
before: `Row` says this of a sorted page, whose lower end is a tick before the
watermark (`historyOffsetFor`) and which leaves nothing out that is older than what is in
it (`SortedIsRow`). Nor may a message that arrives be behind a watermark already: it is of
now or later, no watermark is later than now except one that still is where an empty
dialog was seeded, and the ids at the watermark are those of other messages
(`ArrivedFresh`). When a dialog is first
seen its newest messages all must be in the page, which is where the bound on messages of
one date is used (`NewestInPage`). What the loop keeps is shown by a least
counterexample among its turns; that numbers have one follows from `WFMin` on intervals
(`LeastNumber`).

Of the wire format, for every width with `WidthsAssumption`:

- `IntegersReadBack`: an integer of the signed range, negative ones included, is read back
  as itself, whatever its field number and whatever stands behind it.
- `BytesReadBack`: so is any byte string shorter than a word.

Both say that the reader then stands right behind the field, so a message written field
by field is read field by field, in order. They cover what the run cannot: all numbers,
lengths and tails, and the code's own widths. The recursive functions come with
no equations for the prover, only with a `CHOOSE`. That a function with the equations
exists (`RecursionExists`) is shown by a least counterexample, once, for any recursion
that descends (`Descends`), and applied to the writer, the value of a row of groups, the
fields of a message and `Fit`. The application to `Fields` needs that the reader gets on
with every byte string, broken ones included (`FirstFieldIs`). `VarintGroups` says that
every group but the last has its top bit set, so `LeadingGroups` finds
the end where the writer put it; `VarintFits` that a word needs no more groups than
the reader takes. Field numbers are unbounded in the model, where the code's `>>> 3`
takes 29 bits of them; those in use are below 20.

`TunnelSessionProofs`, for every number of calls, tries and faults: `TypeCorrect`, and
`HalvesBelong` (`HalvesMatch`). `HalvesMatch` speaks of ends that are up, and `Halves`
adds what brings one there. An end that shakes hands or is up is in the room, and nobody
takes it out before it is over. A call that neither end has left is open. The client's
hello is sent before it can be up and is read by the server before the server's own can
get to the client; and a server that has sent its hello has a client that is up, has it
on the way, or is over. `HalvesInv` says this of every call. The client's program and
tries take no part.

`TrafficLedgerProofs`: `LedgerInvariant`, `ResetsStick` (`ResetSticks`) and the action
property `NeverBack` (`TotalsGrow`); `CountedOnce` (`NothingTwice`) and
`EveryByteExplained` (`TotalExplained`). `LedgerInv` orders the copies: what is saved is
at most what is shown, and what is shown at most what the manager has while there is
one. A start copies upwards, a tick and a save downwards, so no copy ever overwrites
a larger one. `ConfigInv` bounds each config's charge by what it used. A tick adds what a
tunnel moved since the last one, so the charge and what is yet to be added must be
bounded together; that this is one tunnel's traffic, and not that of several, is the part
of the invariant that says a config has at most one listed tunnel. It needs `None`, the
config of a tunnel that has not identified itself, to be no id of a config.
`ExplainedInv` bounds the manager's, the shown and the saved total each by the sum over
the users' accounts beside it and what resets took off. Sums are over finite sets of any
size: that `MapThenSumSet` obeys its two equations, and that to change one term changes
the sum by as much, is proved by taking a least counterexample among the subsets, which
exists because strict inclusion of finite sets is well-founded (`FiniteSetTheorems`,
`WFMin`).

`StreamPathProofs`, for every number of pieces, destinations and flows and every limit:
`PathInvariant` (`Spec => [](PathInv /\ FlowInv)`), and from it `InOrderBothWays`
(`BytesInOrder`), `SocketsFollow` (`NoStraySocket`) and `TableFollows` (`FlowsAgree`).
`BytesInOrder` speaks of what has arrived only; `UpInv` adds that what the destination
got, what waits for its connection and what is on the wire are consecutive numbers, and
that as long as the client's stream is open they are all that was read after the
request. `DownInv` says the same of the way back, `ReplyInv` that no data precedes the
replies, and `OpenedOnce` that a stream opens once, which is what keeps an overtaking
`open` or `close` from mixing two streams. `FlowInv` adds to `FlowsAgree` the types that
let a freed key be taken again while the close of its old flow is under way.

`TunnelMuxProofs`, for every limit and any number of streams, flows and chunks:

- `TypeCorrect`: `Spec => []TypeOK`.
- `TablesAlwaysAgree`: `Spec => []TablesAgree`.
- `NothingMissing`: `Spec => []StreamIntact`.
- `MuxRefinement`: `Spec => ImplementsChannel`, for each direction of each channel.

Neither invariant is inductive, because opens and closes overtake data and each other's
answers. `IInv` follows a direction of a channel through the peer's two queues and the
link (`Way`). Of a channel that has not been opened there is nothing anywhere; without
that an id could be opened on top of what an earlier one left. On the way to the server
nothing of a channel precedes its open (`Ordered`), which holds because `enqueue` puts
only control packets ahead and a channel is written only after it was opened. The data
of a channel is one row of consecutive numbers along link, packet being sent and normal
queue (`Flow`), and the server may rely on that before the open has reached it, not only
once the channel is in its table. It is claimed only of an end that still wants the data:
a close that overtakes data makes the receiver drop it (deviation 3), and then there
is nothing to claim. When an end goes down a suffix is lost, and what is left on the link
still goes on from what was handed over (`InTurn`). `Agreed` is `TablesAgree` with the
cases that keep it true: an end whose close is under way has let go of the channel,
the server has answered no open that it has yet to see, and a client that
dropped a channel the server holds, or will hold, has a close on its way. `HandedInv`, that an end has been handed
the first chunks written and no more, gives the refinement.

Model-checked only: `BaleMessages` and `BaleClient`, whose texts are read by RECURSIVE
operators, which the prover does not take (`RequestUnderstood`, `AnswerUnderstood`); and liveness under fairness, which is beyond it.

## Known deviations

Places where the models show the code doing other than its comments say or its users
would expect. No run claims the contrary; constants named here switch a case on.

1. A tunnel that came up at the second or third attempt does not reconnect when it
   drops: the clean-up of the failed attempt (`stopTunnel`,
   `client-electron/src/main/controller.ts:981`) leaves `userCancelled` set, which only a
   start resets. The comment at line 652 promises a reconnect.
2. `stopTunnel` while a reconnect attempt awaits its transport does not cancel the
   attempt (line 1054); the tunnel comes up after the user stopped it. Lines 980 and
   1015 say it bails out.
3. The close of a stream is a control packet and overtakes data queued before it
   (`shared/src/mux-v2.ts:256`); the receiver drops that data, so a response larger than
   what the room has taken is cut off at its end.
4. `stopServer` leaves tunnels running and forgets them; deleting the config of a client
   that is still connected then cuts nothing off. Overlapping stops (the stop button stays
   enabled during one) can clear the manager of a server that was started in between,
   which then admits any config twice: `DoubleStop = TRUE` with `MaxStops = 2` violates
   `OneUse`.
5. A user name that Bale puts in a message of its own is shown with its tag and length
   bytes when these happen to be valid text (`shared/src/bale/messages.ts:499`):
   `WrappedNames = TRUE` violates `AnswerUnderstood`.
6. With `WT_DEBUG_BALE_WS` set, describing a frame may throw on one that is perfectly
   decoded otherwise, and the call in it is missed (`update-socket.ts:130`):
   `Debug = TRUE` violates `AnswerUnderstood`.
7. A dialog that is listed while empty is seeded with the local time
   (`native-sidecar.ts:163`). A local clock that is ahead of Bale's makes the poller take its
   first messages for old. So does the order of two lines when the clocks agree: the time is read
   after Bale's answer was awaited, and what comes while the answer is under way is dated before
   it. These are the messages `HandedExactly` leaves out as `Overlooked`.
8. A new dialog whose history can never be loaded keeps those behind it in the list from
   being looked at (`native-sidecar.ts:109`): `Unloadable = {sara}` violates `HandedInTheEnd`.
9. A fallback that awaits the restart of the watcher never resumes when the fallback of
   another offer restarts it again: the second call of `restart` replaces the promise of the
   first (`update-socket.ts:162-165`) and the rejection of the socket it hangs up goes to the
   newer one, so the await of `server-dispatcher.ts:557` does not end. The offer still counts as
   waiting, so its repeats are ignored too (`queueMeetOffer`); only a push takes the call up.
   `LeftOnlyByRestart` says that offers are left alone in no other way.
10. A reconnect attempt that finds the SOCKS port taken by another program
   (`client-electron/src/main/controller.ts:665`) leaves its mux and transport open: nothing
   closes them, and the next attempt overwrites the fields that name them. `SingleConnection`,
   `StartSettles` and `Recovers` are stated until the port is taken.

## Plan

Done: carrier, mux, client controller and server (first); watcher, ledger, session,
stream path, API client and poller (second). Next:

1. Codecs (`protocol-v2.ts`, `open.ts`, `frame.ts`) as operators with bounded
   round-trip checks, beside `Protobuf`.
2. The Android client's controller and transport, where they differ from the desktop's.
3. The sign-in stages of both controllers, on top of `BaleClient`.
4. `StreamPath` over `TunnelMux` by refinement in place of the abstraction its comment
   describes.

## Not modelled

Cryptography (a packet decrypts or is a stray one, a hello is right or wrong), the
inside of the Bale and LiveKit services, windows, system proxy settings, dashboards'
HTML, test doubles, the Python sidecar, and the v1 mux that no application starts any
more. `PROJECT.json` gives the reason for each component.
