----------------------------- MODULE ServerSide -----------------------------
(***************************************************************************)
(* The server: its controller (server-electron/src/main/controller.ts)     *)
(* starts and stops a dispatcher of Meet calls                             *)
(* (server/src/bale-session/server-dispatcher.ts) with a tunnel manager    *)
(* (server/src/dashboard/manager.ts), admits clients by the id in their    *)
(* config, and cuts off a client whose config is deleted.                  *)
(*                                                                         *)
(* Every startServer makes a dispatcher, a manager and an incoming-call    *)
(* watcher of its own: a generation.  The constructors' closures keep a    *)
(* generation's parts together after the controller has moved on, so the   *)
(* state of dispatchers is indexed by generation, and the controller's     *)
(* fields hold a generation, or 0 for null.                                *)
(*                                                                         *)
(* Who calls is left out: it decides what the dashboard shows.             *)
(*                                                                         *)
(* The code is single threaded: an action is what runs between two awaits. *)
(***************************************************************************)
EXTENDS Naturals

CONSTANTS Calls,      \* Meet calls
          Clients,    \* ids of the client configs the server has made
          Legacy,     \* stands for the id of a client that names no config
          MaxStarts,  \* bound: calls of startServer
          MaxStops,   \* bound: calls of stopServer
          MaxForgets, \* bound: handled calls that are forgotten
          DoubleStop  \* whether a stop may begin while another is under way

ASSUME LegacyAssumption == Legacy \notin Clients
ASSUME BoundsAssumption ==
  /\ MaxStarts \in Nat /\ MaxStops \in Nat /\ MaxForgets \in Nat
  /\ DoubleStop \in BOOLEAN

Gens == 1..MaxStarts
Fields == 0..MaxStarts

(* Whoever can be inside stopServer: the operator, or the start that failed. *)
Stoppers == 0..MaxStops
FailedStart == 0

VARIABLES
  running,    \* status.running
  manager,    \* this.manager
  dispatcher, \* this.dispatcher
  watcher,    \* this.incomingCalls
  watching,   \* watchers that are not closed
  started,    \* calls of startServer so far
  starting,   \* the generation whose start awaits its watcher
  stops,      \* where each call of stopServer is
  profiles,   \* clientProfiles
  listening,  \* of each dispatcher: it is subscribed to chat messages
  source,     \* its incomingCallSource: the generation of a watcher
  active,     \* activeMeetCalls
  offers,     \* pendingMeetOffers
  timers,     \* those of their timers that have not fired
  recent,     \* recentlyFinishedMeetCalls
  fallbacks,  \* runMeetOfferFallback calls that have asked for a restart
  forgets,    \* calls forgotten so far
  tunnels     \* what spawnMeetTunnel has under way, or left running

controllerVars == <<running, manager, dispatcher, watcher, watching, started, starting, stops>>
offerVars == <<offers, timers, fallbacks>>
callVars == <<active, offerVars, recent>>
vars == <<controllerVars, profiles, listening, source, callVars, forgets, tunnels>>

(* A tunnel of a dispatcher: the call it serves, how far it has got, the
   config its client presented, and the clientId its manager has on record. *)
Stages == {"accept", "handshake", "run"}
Ids == Clients \cup {Legacy}
Tunnels == [gen : Gens, call : Calls, at : Stages, client : Ids, record : Ids]

NewTunnel(g, c) ==
  [gen |-> g, call |-> c, at |-> "accept", client |-> Legacy, record |-> Legacy]

(* A fallback of an offer, and the watcher it has asked to restart: 0 if there
   was none. *)
Fallbacks == [call : Calls, on : Fields]

(* The tunnels the controller's manager knows: from openTunnel to close. *)
Known == {t \in tunnels : t.gen = manager /\ t.at \in {"handshake", "run"}}

Init ==
  /\ running = FALSE /\ manager = 0 /\ dispatcher = 0 /\ watcher = 0
  /\ watching = {} /\ started = 0 /\ starting = 0
  /\ stops = [k \in Stoppers |-> "unused"]
  /\ profiles = Clients
  /\ listening = [g \in Gens |-> FALSE] /\ source = [g \in Gens |-> 0]
  /\ active = [g \in Gens |-> {}] /\ offers = [g \in Gens |-> {}]
  /\ timers = [g \in Gens |-> {}] /\ recent = [g \in Gens |-> {}]
  /\ fallbacks = [g \in Gens |-> {}]
  /\ forgets = 0
  /\ tunnels = {}

-----------------------------------------------------------------------------
(* The controller: startServer and stopServer. *)

(* The panel offers to start only a server that is not running, and disables
   its buttons until the call returns. *)
StartServer ==
  LET g == started + 1
  IN /\ ~running /\ starting = 0 /\ started < MaxStarts
     /\ started' = g /\ starting' = g
     /\ manager' = g /\ watcher' = g /\ watching' = watching \cup {g}
     /\ UNCHANGED <<running, dispatcher, stops, profiles, listening, source, callVars,
                    forgets, tunnels>>

(* The watcher is connected. *)
StartSucceeds ==
  /\ starting \in watching /\ stops[FailedStart] = "unused"
  /\ dispatcher' = starting /\ running' = TRUE /\ starting' = 0
  /\ listening' = [listening EXCEPT ![starting] = TRUE]
  /\ source' = [source EXCEPT ![starting] = watcher]
  /\ UNCHANGED <<manager, watcher, watching, started, stops, profiles, callVars, forgets,
                 tunnels>>

(* dispatcher.stop: calls that are being accepted go on, tunnels run on. *)
StopDispatcher ==
  LET cleared(f) == IF dispatcher = 0 THEN f ELSE [f EXCEPT ![dispatcher] = {}]
  IN /\ dispatcher' = 0
     /\ listening' = IF dispatcher = 0 THEN listening
                     ELSE [listening EXCEPT ![dispatcher] = FALSE]
     /\ active' = cleared(active) /\ offers' = cleared(offers)
     /\ timers' = cleared(timers) /\ recent' = cleared(recent)

(* What stopServer does before its first await. *)
BeginStop(k) ==
  /\ stops' = [stops EXCEPT ![k] = IF watcher = 0 THEN "dashboard" ELSE "watcher"]
  /\ StopDispatcher
  /\ watching' = watching \ {watcher}
  /\ UNCHANGED <<running, manager, watcher, started, starting, profiles, source,
                 fallbacks, forgets, tunnels>>

(* The stop button stays enabled while a stop is under way. *)
AtWork(k) == stops[k] \in {"watcher", "dashboard"}
Stopping == \E k \in Stoppers : AtWork(k)

StopServer(k) ==
  /\ running /\ k # FailedStart /\ stops[k] = "unused"
  /\ Stopping => DoubleStop
  /\ BeginStop(k)

StartFails ==
  /\ starting # 0 /\ stops[FailedStart] = "unused"
  /\ BeginStop(FailedStart)

WatcherClosed(k) ==
  /\ stops[k] = "watcher"
  /\ stops' = [stops EXCEPT ![k] = "dashboard"]
  /\ watcher' = 0
  /\ UNCHANGED <<running, manager, dispatcher, watching, started, starting, profiles,
                 listening, source, callVars, forgets, tunnels>>

StopEnds(k) ==
  /\ stops[k] = "dashboard"
  /\ stops' = [stops EXCEPT ![k] = IF k = FailedStart THEN "unused" ELSE "done"]
  /\ starting' = IF k = FailedStart THEN 0 ELSE starting
  /\ manager' = 0 /\ running' = FALSE
  /\ UNCHANGED <<dispatcher, watcher, watching, started, profiles, listening, source,
                 callVars, forgets, tunnels>>

-----------------------------------------------------------------------------
(* The dispatcher: from an offer or a push to spawnMeetTunnel. *)

Without(f, g, c) == [f EXCEPT ![g] = @ \ {c}]

(* Mutant of ClearPending: the offer still counts as waiting. *)
ClearTimerOnly(g, c) ==
  /\ timers' = Without(timers, g, c)
  /\ UNCHANGED offers

(* clearPendingMeetOffer *)
ClearPending(g, c) ==
  /\ offers' = Without(offers, g, c) /\ timers' = Without(timers, g, c)

(* Mutant of Spawn: a call that is being served is not looked for. *)
SpawnTwice(g, c) ==
  /\ ClearPending(g, c)
  /\ \/ /\ c \in recent[g]
        /\ UNCHANGED <<active, tunnels>>
     \/ /\ c \notin recent[g]
        /\ active' = [active EXCEPT ![g] = @ \cup {c}]
        /\ tunnels' = tunnels \cup {NewTunnel(g, c)}
  /\ UNCHANGED recent

(* spawnMeetTunnel up to its first await. *)
Spawn(g, c) ==
  /\ ClearPending(g, c)
  /\ \/ /\ c \in recent[g] \cup active[g]
        /\ UNCHANGED <<active, tunnels>>
     \/ /\ c \notin recent[g] \cup active[g]
        /\ active' = [active EXCEPT ![g] = @ \cup {c}]
        /\ tunnels' = tunnels \cup {NewTunnel(g, c)}
  /\ UNCHANGED recent

(* queueMeetOffer *)
QueueOffer(g, c) ==
  IF c \in recent[g] \cup active[g] \cup offers[g]
  THEN UNCHANGED <<callVars, tunnels>>
  ELSE /\ offers' = [offers EXCEPT ![g] = @ \cup {c}]
       /\ timers' = [timers EXCEPT ![g] = @ \cup {c}]
       /\ UNCHANGED <<active, recent, fallbacks, tunnels>>

(* A chat message offers a call; the caller may repeat it.  (An offer for a
   tunnel that runs does no more than tell the manager the caller.) *)
Offer(g, c) ==
  /\ listening[g]
  /\ IF source[g] # 0 THEN QueueOffer(g, c) ELSE Spawn(g, c) /\ UNCHANGED fallbacks
  /\ UNCHANGED <<controllerVars, profiles, listening, source, forgets>>

(* The watcher hears of a call. *)
Push(g, c) ==
  /\ listening[g] /\ source[g] \in watching
  /\ Spawn(g, c)
  /\ UNCHANGED <<controllerVars, profiles, listening, source, fallbacks, forgets>>

(* restartIncomingCalls up to its await.  A watcher that is closed throws, and
   where there is none nothing is awaited.  Otherwise a new promise replaces the
   watcher's newest, which nothing settles any more: the fallbacks that await it
   are overtaken and never go on.  The others still await the close of a socket
   or have had their answer; which are which is CallWatcher's affair. *)
RestartWatcher(g, c) ==
  LET asked == {f \in UNION {fallbacks[h] : h \in Gens} : f.on = watcher /\ watcher \in watching}
  IN \E overtaken \in SUBSET asked :
       fallbacks' = [h \in Gens |-> (fallbacks[h] \ overtaken)
                                     \cup (IF h = g THEN {[call |-> c, on |-> watcher]} ELSE {})]

(* No push has come for an offer: runMeetOfferFallback up to its await. *)
FallbackTimer(g, c) ==
  /\ c \in timers[g]
  /\ \/ /\ c \in active[g]
        /\ ClearPending(g, c) /\ UNCHANGED fallbacks
     \/ /\ c \notin active[g]
        /\ timers' = Without(timers, g, c)
        /\ RestartWatcher(g, c)
        /\ UNCHANGED offers
  /\ UNCHANGED <<controllerVars, profiles, listening, source, active, recent, forgets,
                 tunnels>>

(* The watcher has been restarted or could not be, and the delay after it has
   passed.  The second look at activeMeetCalls is repeated in Spawn. *)
FallbackResumes(g, f) ==
  /\ f \in fallbacks[g]
  /\ fallbacks' = [fallbacks EXCEPT ![g] = @ \ {f}]
  /\ Spawn(g, f.call)
  /\ UNCHANGED <<controllerVars, profiles, listening, source, forgets>>

(* RECENT_MEET_CALL_TTL_MS has passed since the call ended. *)
Forget(g, c) ==
  /\ c \in recent[g] /\ forgets < MaxForgets
  /\ forgets' = forgets + 1
  /\ recent' = Without(recent, g, c)
  /\ UNCHANGED <<controllerVars, profiles, listening, source, active, offerVars, tunnels>>

-----------------------------------------------------------------------------
(* The life of a tunnel. *)

(* Mutant of Finish: the call is not remembered. *)
FinishForgets(gone) ==
  /\ active' = [g \in Gens |-> active[g] \ {t.call : t \in {u \in gone : u.gen = g}}]
  /\ UNCHANGED <<offers, timers, recent>>

(* finishMeetCall for each of the tunnels that end. *)
Finish(gone) ==
  LET ended(g) == {t.call : t \in {u \in gone : u.gen = g}}
  IN /\ active' = [g \in Gens |-> active[g] \ ended(g)]
     /\ offers' = [g \in Gens |-> offers[g] \ ended(g)]
     /\ timers' = [g \in Gens |-> timers[g] \ ended(g)]
     /\ recent' = [g \in Gens |-> recent[g] \cup ended(g)]

End(gone) ==
  /\ Finish(gone)
  /\ tunnels' = tunnels \ gone
  /\ UNCHANGED fallbacks

Becomes(t, u) == tunnels' = (tunnels \ {t}) \cup {u}

(* The call is accepted, after what retries it takes, and the room joined;
   the manager of t's generation opens a tunnel. *)
Joined(t) ==
  /\ t.at = "accept"
  /\ Becomes(t, [t EXCEPT !.at = "handshake"])
  /\ UNCHANGED <<controllerVars, profiles, listening, source, callVars, forgets>>

(* Mutant of Admits: the controller does not look for another connection. *)
AdmitsAny(t, id) == id \in profiles

(* handleClientMetadata: a config that is on file, and not in use by another
   tunnel the manager knows. *)
Admits(t, id) == id \in profiles /\ \A u \in Known \ {t} : u.record # id

(* updateTunnel reaches tunnels of the current manager only. *)
Recorded(t, id) == IF t.gen = manager THEN id ELSE Legacy

HandshakeDone(t, id) ==
  /\ t.at = "handshake"
  /\ \/ /\ id = Legacy \/ Admits(t, id)
        /\ Becomes(t, [t EXCEPT !.at = "run", !.client = id, !.record = Recorded(t, id)])
        /\ UNCHANGED callVars
     \/ /\ id # Legacy /\ ~Admits(t, id)
        /\ End({t})
  /\ UNCHANGED <<controllerVars, profiles, listening, source, forgets>>

(* acceptCall, the room or the handshake fails or times out; the mux closes,
   because the client left, the link broke or the operator terminated it. *)
Ends(t) ==
  /\ End({t})
  /\ UNCHANGED <<controllerVars, profiles, listening, source, forgets>>

(* Mutant of DeleteClient: the tunnel is left alone. *)
DeleteProfile(id) ==
  /\ id \in profiles
  /\ profiles' = profiles \ {id}
  /\ UNCHANGED <<controllerVars, listening, source, callVars, forgets, tunnels>>

(* The config is removed, and the tunnels the manager has on record for it
   are terminated; the mux of a tunnel closes in the same turn. *)
DeleteClient(id) ==
  /\ id \in profiles
  /\ profiles' = profiles \ {id}
  /\ End({t \in Known : t.at = "run" /\ t.record = id})
  /\ UNCHANGED <<controllerVars, listening, source, forgets>>

-----------------------------------------------------------------------------
Next ==
  \/ StartServer \/ StartSucceeds \/ StartFails
  \/ \E k \in Stoppers : StopServer(k) \/ WatcherClosed(k) \/ StopEnds(k)
  \/ \E g \in Gens, c \in Calls :
       Offer(g, c) \/ Push(g, c) \/ FallbackTimer(g, c) \/ Forget(g, c)
  \/ \E g \in Gens : \E f \in fallbacks[g] : FallbackResumes(g, f)
  \/ \E t \in tunnels :
       \/ Joined(t) \/ Ends(t)
       \/ \E id \in Ids : HandshakeDone(t, id)
  \/ \E id \in Clients : DeleteClient(id)

Spec == Init /\ [][Next]_vars

-----------------------------------------------------------------------------
TypeOK ==
  /\ running \in BOOLEAN /\ manager \in Fields /\ dispatcher \in Fields
  /\ watcher \in Fields /\ watching \subseteq Gens
  /\ started \in Fields /\ starting \in Fields
  /\ stops \in [Stoppers -> {"unused", "watcher", "dashboard", "done"}]
  /\ profiles \subseteq Clients
  /\ listening \in [Gens -> BOOLEAN] /\ source \in [Gens -> Fields]
  /\ active \in [Gens -> SUBSET Calls] /\ offers \in [Gens -> SUBSET Calls]
  /\ timers \in [Gens -> SUBSET Calls] /\ recent \in [Gens -> SUBSET Calls]
  /\ fallbacks \in [Gens -> SUBSET Fallbacks]
  /\ forgets \in Nat
  /\ tunnels \subseteq Tunnels

(* While a dispatcher is at work, each call has one tunnel or none, its
   bookkeeping names exactly the calls that have one, and a call that waits
   or has ended is not among them: neither repeated offers nor a push that
   races the fallback timer serve a call twice. *)
OneTunnelPerCall ==
  \A g \in Gens : listening[g] =>
    /\ \A t, u \in tunnels : t.gen = g /\ u.gen = g /\ t.call = u.call => t = u
    /\ active[g] = {t.call : t \in {u \in tunnels : u.gen = g}}
    /\ active[g] \cap (recent[g] \cup offers[g]) = {}

(* The dispatcher serves a call once: while it is at work, a call it has
   taken up stays in its books until it is forgotten, and is not taken up
   again, whichever of offer, push and fallback comes late. *)
ServedOnce ==
  [][\A g \in Gens : listening[g] /\ listening'[g] =>
       /\ active[g] \subseteq active'[g] \cup recent'[g]
       /\ recent[g] \cap active'[g] = {}]_vars

(* An offer that waits for its push and has neither its timer nor a fallback
   that will go on: nobody takes it up, and as long as it waits its repeats are
   ignored. *)
LeftAlone(g) == offers[g] \ (timers[g] \cup {f.call : f \in fallbacks[g]})

(* The fallback of another offer restarts the watcher. *)
Restarting(h, d) ==
  d \in timers[h] \ timers'[h] /\ [call |-> d, on |-> watcher] \in fallbacks'[h]

(* No offer is left alone, in whatever order offers, repeats, pushes, timers,
   restarts, ends of calls and stops come, except in one way: its fallback
   waits for the restart of a watcher when the fallback of another offer
   restarts the same watcher again (README, deviation 9). *)
LeftOnlyByRestart ==
  [][\A g \in Gens : \A c \in LeftAlone(g)' \ LeftAlone(g) :
       /\ watcher \in watching /\ [call |-> c, on |-> watcher] \in fallbacks[g]
       /\ \E h \in Gens, d \in Calls : <<h, d>> # <<g, c>> /\ Restarting(h, d)]_vars

(* The tunnels of the server: of its dispatcher, and while it has none because
   it starts or stops, of its manager. *)
OfServer == {t \in tunnels : t.gen \in {dispatcher, manager}}
InUse == {t \in OfServer : t.at = "run" /\ t.client # Legacy}

(* No config is used by two connections of the server at once
   (CONFIG_ALREADY_CONNECTED): admission looks at what the manager has on
   record, which must be what clients presented, and must be the manager of
   the dispatcher that runs. *)
OneUse == \A t, u \in InUse : t.client = u.client => t = u

(* Deleting a config cuts its client off from the server, whether it is
   connected, connecting or being called. *)
DeletedCutOff == \A t \in InUse : t.client \in profiles

(* Why both hold while stops do not overlap: the dispatcher that runs has the
   manager of its own start, because a stop is over before the next start
   begins. *)
StopsApart ==
  /\ \A k \in Stoppers : AtWork(k) =>
       dispatcher = 0 /\ (IF k = FailedStart THEN starting # 0 ELSE running)
  /\ \A j, k \in Stoppers : AtWork(j) /\ AtWork(k) => j = k
  /\ starting # 0 => ~running /\ dispatcher = 0 /\ manager = starting
  /\ dispatcher # 0 => running /\ manager = dispatcher

(* What the manager has on record for a tunnel it knows is what the client
   presented.  A manager knows none but the tunnels of its own generation, and
   a generation begins without any: nothing is at work for one that has not
   been started. *)
RecordsTrue ==
  /\ \A t \in tunnels : t.at # "run" => t.record = Legacy
  /\ \A t \in Known : t.at = "run" => t.record = t.client

FreshGenerations ==
  /\ manager <= started /\ starting <= started
  /\ \A t \in tunnels : t.gen <= started
  /\ \A g \in Gens : g > started =>
       ~listening[g] /\ timers[g] = {} /\ fallbacks[g] = {}

AdmissionInv == StopsApart /\ RecordsTrue /\ FreshGenerations /\ OneUse /\ DeletedCutOff

=============================================================================
