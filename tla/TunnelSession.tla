---------------------------- MODULE TunnelSession ----------------------------
(***************************************************************************)
(* One client and the server, from StartCall to DiscardCall: the client    *)
(* calls, both join the LiveKit room of the call, shake hands (v2) and put *)
(* a mux on the transport; each end goes when it is stopped, times out or  *)
(* hears nothing, and says nothing to the other when it goes.              *)
(*   shared/src/handshake-v2.ts, client/src/tunnel.ts, server/src/tunnel.ts*)
(*   shared/src/bale/meet-factory.ts, and the steps of the two controllers *)
(*   and the dispatcher that run them                                      *)
(* The client makes its calls as its controller does: startTunnel tries    *)
(* three times, and a tunnel that came up at the first try is brought back *)
(* by the reconnect loop.  ClientController has this in full, with flows   *)
(* that overlap and the SOCKS port, which here is free: the user starts    *)
(* only when the last flow has ended, and the listener comes up with the   *)
(* mux.  The server takes calls as they come (ServerSide).  A turn of      *)
(* either program is one action: a hello that arrives is checked,          *)
(* answered, admitted and given its mux in one.                            *)
(*                                                                         *)
(* Time is abstracted.  A timer may always fire when what it waits for can *)
(* no longer come; that it fires early is a fault, and faults are bounded. *)
(***************************************************************************)
EXTENDS Naturals

CONSTANTS Given,      \* the kinds of client and room looked at: see Givens
          MaxTries,   \* maxAttempts of startTunnel; 3 in the code
          MaxCalls,   \* bound: calls with something left of them at once
          MaxFaults,  \* bound: failures of the network, of Bale, of a peer
          MaxToggles  \* bound: the user starts and stops the tunnel

(* Packets go over the data channel or over the video carrier, which repeats
   them until the peer is there; the client's config is registered with the
   server, is not, or there is none; it names the server's key or another;
   the applications move bytes over a TCP stream of each new tunnel, or not. *)
Givens == [carrier : {"data", "video"},
           config : {"registered", "unknown", "none"},
           key : {"right", "wrong"},
           traffic : {"some", "none"}]

ASSUME GivenAssumption == Given \subseteq Givens

ASSUME BoundsAssumption ==
  MaxTries \in Nat \ {0} /\ MaxCalls \in Nat \ {0} /\ MaxFaults \in Nat /\ MaxToggles \in Nat

Calls == 1..MaxCalls
Ends == {"client", "server"}

VARIABLES
  given,    \* what does not change
  program,  \* what the client's controller is at
  try,      \* startTunnel's loop counter, 0 outside it
  cancelled, \* its userCancelled
  other,    \* another device has a tunnel with the same config
  call,     \* what Bale knows of each call
  client,   \* the client's end of each call
  server,   \* the server's end of each call
  room,     \* who is in its LiveKit room
  leaving,  \* ends whose room.disconnect is under way
  hello,    \* the ends a hello is on its way to
  faults, toggles  \* history: for the bounds

sessionVars == <<call, client, server, room, leaving, hello>>
programVars == <<program, try, cancelled>>
userVars == <<programVars, toggles>>
vars == <<given, other, sessionVars, userVars, faults>>

(* startTunnel; a tunnel; the loop of handleUnexpectedDrop. *)
Programs == {"idle", "starting", "connected", "retrying"}

(* "shaking": in the room, waiting for the other's hello.  "missed": neither
   push nor offer of the call reached the server.  "refused" is "over" for a
   client that was not admitted, "cut" for one the operator terminated. *)
ClientStates == {"none", "joining", "shaking", "up", "over"}
ServerStates == {"none", "missed", "joining", "shaking", "up", "refused", "cut", "over"}
CallStates == {"none", "open", "over", "undiscarded"}

Init ==
  /\ given \in Given /\ other = FALSE
  /\ program = "idle" /\ try = 0 /\ cancelled = FALSE
  /\ call = [k \in Calls |-> "none"]
  /\ client = [k \in Calls |-> "none"] /\ server = [k \in Calls |-> "none"]
  /\ room = [k \in Calls |-> {}] /\ leaving = [k \in Calls |-> {}]
  /\ hello = [k \in Calls |-> {}]
  /\ faults = 0 /\ toggles = 0

(* An action that takes n faults. *)
Costs(n) == faults + n <= MaxFaults /\ faults' = faults + n

(* discardCall is best effort. *)
Discard(k, n) ==
  \/ /\ Costs(n)
     /\ call' = [call EXCEPT ![k] = "over"]
  \/ /\ Costs(n + 1)
     /\ call' = [call EXCEPT ![k] = IF @ = "open" THEN "undiscarded" ELSE @]

Leave(k, e) == leaving' = [leaving EXCEPT ![k] = @ \cup ({e} \cap room[k])]
Arrives(k, e) == hello' = [hello EXCEPT ![k] = @ \ {e}]

Gone(k, e) == IF e = "client" THEN client[k] = "over" ELSE server[k] \in {"refused", "cut", "over"}

(* The client has no call under way. *)
NoAttempt == \A k \in Calls : client[k] \in {"none", "over"}

-----------------------------------------------------------------------------
(* The client's controller. *)

(* An attempt of startTunnel has failed and stopTunnel has cleaned up. *)
NextTry(isFatal) ==
  \/ ~isFatal /\ try < MaxTries /\ try' = try + 1 /\ UNCHANGED program
  \/ (isFatal \/ try >= MaxTries) /\ try' = 0 /\ program' = "idle"

(* The attempt under way fails. *)
AttemptFails(isFatal) ==
  \/ program = "starting" /\ NextTry(isFatal) /\ cancelled' = TRUE
  \/ /\ program = "retrying" /\ program' = (IF cancelled THEN "idle" ELSE "retrying")
     /\ UNCHANGED <<try, cancelled>>

(* The client's end of call k goes by itself: the attempt fails, or mux.onClose
   finds a tunnel that was up. *)
Loses(k, isFatal) ==
  \/ client[k] # "up" /\ AttemptFails(isFatal)
  \/ /\ client[k] = "up" /\ program' = (IF cancelled THEN "idle" ELSE "retrying")
     /\ UNCHANGED <<try, cancelled>>

UserStarts ==
  /\ program = "idle" /\ toggles < MaxToggles
  /\ program' = "starting" /\ try' = 1 /\ cancelled' = FALSE /\ toggles' = toggles + 1
  /\ UNCHANGED <<given, other, sessionVars, faults>>

(* stopTunnel closes the tunnel, or the transport of an attempt that has one,
   and ends the loop if it sleeps.  An end that is still joining goes on, and
   so does startTunnel with its next attempt. *)
UserStops ==
  /\ program # "idle" /\ toggles < MaxToggles
  /\ cancelled' = TRUE /\ toggles' = toggles + 1
  /\ LET stopped == {k \in Calls : client[k] \in {"shaking", "up"}}
     IN /\ client' = [k \in Calls |-> IF k \in stopped THEN "over" ELSE client[k]]
        /\ leaving' = [k \in Calls |->
                         IF k \in stopped THEN leaving[k] \cup {"client"} ELSE leaving[k]]
        /\ \/ program = "starting" /\ stopped # {} /\ NextTry(FALSE)
           \/ /\ program # "starting" /\ (stopped # {} \/ NoAttempt)
              /\ program' = "idle" /\ UNCHANGED try
           \/ /\ stopped = {} /\ (program = "starting" \/ ~NoAttempt)
              /\ UNCHANGED <<program, try>>
  /\ UNCHANGED <<given, other, call, server, room, hello, faults>>

-----------------------------------------------------------------------------
(* The other device. *)

ServedCalls == {k \in Calls : server[k] = "up"}

(* It is admitted as this client would be. *)
OtherComes ==
  /\ given.config = "registered" /\ ~other /\ ServedCalls = {}
  /\ other' = TRUE /\ Costs(1)
  /\ UNCHANGED <<given, sessionVars, userVars>>

OtherGoes ==
  /\ other /\ other' = FALSE
  /\ UNCHANGED <<given, sessionVars, userVars, faults>>

-----------------------------------------------------------------------------
(* The call and the room. *)

(* The factory at the client, up to room.connect: StartCall has answered. *)
StartCall(k) ==
  /\ program \in {"starting", "retrying"} /\ NoAttempt /\ call[k] = "none"
  /\ call' = [call EXCEPT ![k] = "open"]
  /\ client' = [client EXCEPT ![k] = "joining"]
  /\ UNCHANGED <<given, other, server, room, leaving, hello, userVars, faults>>

CannotCall ==
  /\ program \in {"starting", "retrying"} /\ NoAttempt
  /\ AttemptFails(FALSE) /\ Costs(1)
  /\ UNCHANGED <<given, other, sessionVars, toggles>>

(* The room is joined and the hello is sent: clientHandshakeV2. *)
ClientJoins(k) ==
  /\ client[k] = "joining"
  /\ client' = [client EXCEPT ![k] = "shaking"]
  /\ room' = [room EXCEPT ![k] = @ \cup {"client"}]
  /\ hello' = [hello EXCEPT ![k] = @ \cup {"server"}]
  /\ UNCHANGED <<given, other, call, server, leaving, userVars, faults>>

ClientCannotJoin(k) ==
  /\ client[k] = "joining"
  /\ client' = [client EXCEPT ![k] = "over"]
  /\ Discard(k, 1) /\ Loses(k, FALSE)
  /\ UNCHANGED <<given, other, server, room, leaving, hello, toggles>>

(* The server hears of the call and accepts it, if it is still there. *)
ServerAccepts(k) ==
  /\ server[k] = "none" /\ call[k] = "open"
  /\ server' = [server EXCEPT ![k] = "joining"]
  /\ UNCHANGED <<given, other, call, client, room, leaving, hello, userVars, faults>>

ServerMisses(k) ==
  /\ server[k] = "none" /\ call[k] = "open"
  /\ server' = [server EXCEPT ![k] = "missed"] /\ Costs(1)
  /\ UNCHANGED <<given, other, call, client, room, leaving, hello, userVars>>

ServerJoins(k) ==
  /\ server[k] = "joining"
  /\ server' = [server EXCEPT ![k] = "shaking"]
  /\ room' = [room EXCEPT ![k] = @ \cup {"server"}]
  /\ UNCHANGED <<given, other, call, client, leaving, hello, userVars, faults>>

ServerCannotJoin(k) ==
  /\ server[k] = "joining"
  /\ server' = [server EXCEPT ![k] = "over"]
  /\ Discard(k, 1)
  /\ UNCHANGED <<given, other, client, room, leaving, hello, userVars>>

(* room.disconnect is done; at the client DiscardCall follows it. *)
Left(k, e) ==
  /\ e \in leaving[k]
  /\ room' = [room EXCEPT ![k] = @ \ {e}]
  /\ leaving' = [leaving EXCEPT ![k] = @ \ {e}]
  /\ IF e = "client" THEN Discard(k, 0) ELSE UNCHANGED <<call, faults>>
  /\ UNCHANGED <<given, other, client, server, hello, userVars>>

-----------------------------------------------------------------------------
(* The handshake. *)

(* An end stops: it takes its transport down with it and leaves the room; the
   dispatcher discards the call at once. *)
ClientEnds(k, n) ==
  /\ client' = [client EXCEPT ![k] = "over"]
  /\ Leave(k, "client") /\ Costs(n)
  /\ UNCHANGED <<given, other, call, server, room, toggles>>

(* Mutant of ServerEnds: the call is not discarded. *)
ServerEndsQuietly(k, as, n) ==
  /\ server' = [server EXCEPT ![k] = as]
  /\ Leave(k, "server") /\ Costs(n)
  /\ UNCHANGED <<given, other, call, client, room, userVars>>

ServerEnds(k, as, n) ==
  /\ server' = [server EXCEPT ![k] = as]
  /\ Leave(k, "server") /\ Discard(k, n)
  /\ UNCHANGED <<given, other, client, room, userVars>>

(* handleClientMetadata: a hello without a config is an old client's. *)
Admitted(k) ==
  \/ given.config = "none"
  \/ given.config = "registered" /\ ~other /\ ServedCalls \ {k} = {}

(* Mutant of ServerShakes: a client that is not admitted gets no hello, one
   that is gets it before its own is looked at. *)
ServerShakesEarly(k) ==
  /\ server[k] = "shaking"
  /\ hello' = [hello EXCEPT ![k] = {"client"}]
  /\ Admitted(k) /\ server' = [server EXCEPT ![k] = "up"]
  /\ UNCHANGED <<given, other, call, client, room, leaving, userVars, faults>>

(* serverHandshakeV2 sends its own hello before anyone asks whether the
   client is to be admitted; runServerTunnelV2 closes on one that is not. *)
ServerShakes(k) ==
  /\ server[k] = "shaking" /\ "server" \in hello[k]
  /\ hello' = [hello EXCEPT ![k] = {"client"}]
  /\ \/ /\ Admitted(k)
        /\ server' = [server EXCEPT ![k] = "up"]
        /\ UNCHANGED <<given, other, call, client, room, leaving, userVars, faults>>
     \/ /\ ~Admitted(k)
        /\ ServerEnds(k, "refused", 0)

(* clientHandshakeV2, assertServerIdentityTrusted, the mux.  startTunnel does
   not retry a wrong key. *)
ClientShakes(k) ==
  /\ client[k] = "shaking" /\ "client" \in hello[k]
  /\ Arrives(k, "client")
  /\ \/ /\ given.key = "right"
        /\ client' = [client EXCEPT ![k] = "up"]
        /\ program' = "connected" /\ try' = 0
        /\ UNCHANGED <<given, other, call, server, room, leaving, cancelled, toggles, faults>>
     \/ /\ given.key = "wrong"
        /\ ClientEnds(k, 0) /\ Loses(k, TRUE)

(* A hello is lost: over the data channel when the other end is not there to
   hear it, over either when an end is on its way out. *)
HelloLost(k, e) ==
  /\ e \in hello[k]
  /\ \/ given.carrier = "data" /\ e \notin room[k]
     \/ \E f \in Ends : Gone(k, f)
  /\ Arrives(k, e)
  /\ UNCHANGED <<given, other, call, client, server, room, leaving, userVars, faults>>

(* The hello that e waits for is on its way, or will be. *)
WillHear(k, e) ==
  \/ e \in hello[k]
  \/ e = "client" /\ "server" \in hello[k] /\ server[k] \in {"joining", "shaking"}
  \/ e = "client" /\ "server" \in hello[k] /\ server[k] = "none" /\ call[k] = "open"
  \/ e = "server" /\ client[k] = "joining"

Early(in_time) == IF in_time THEN 0 ELSE 1

(* Mutant of ClientTimesOut: no limit. *)
ClientWaitsOn(k) == FALSE /\ UNCHANGED vars

(* V2_HANDSHAKE_TIMEOUT_MS *)
ClientTimesOut(k) ==
  /\ client[k] = "shaking"
  /\ ClientEnds(k, Early(~WillHear(k, "client"))) /\ Loses(k, FALSE) /\ UNCHANGED hello

(* HANDSHAKE_HARD_TIMEOUT_MS *)
ServerTimesOut(k) ==
  /\ server[k] = "shaking"
  /\ ServerEnds(k, "over", Early(~WillHear(k, "server"))) /\ UNCHANGED hello

-----------------------------------------------------------------------------
(* The tunnel. *)

(* Heartbeats: an end that hears nothing closes. *)
ClientGivesUp(k) ==
  /\ client[k] = "up"
  /\ ClientEnds(k, Early(server[k] # "up")) /\ Loses(k, FALSE) /\ UNCHANGED hello

(* Mutant of ServerGivesUp: only the client keeps watch. *)
ServerNeverGivesUp(k) == FALSE /\ UNCHANGED vars

ServerGivesUp(k) ==
  /\ server[k] = "up"
  /\ ServerEnds(k, "over", Early(client[k] = "over")) /\ UNCHANGED hello

(* The idle timer of spawnMeetTunnel: a minute after the call was taken up, and
   so long after the handshakes, no stream has carried a byte. *)
ServerIdles(k) ==
  /\ server[k] = "up"
  /\ ServerEnds(k, "over", Early(given.traffic = "none" \/ client[k] = "over"))
  /\ UNCHANGED hello

(* The operator terminates the tunnel. *)
ServerCutsOff(k) ==
  /\ server[k] = "up"
  /\ ServerEnds(k, "cut", 1) /\ UNCHANGED hello

(* The client hears of it, if the packet left before the server did: no
   reconnect. *)
ClientTerminated(k) ==
  /\ client[k] = "up" /\ server[k] = "cut"
  /\ ClientEnds(k, 0) /\ UNCHANGED hello
  /\ program' = "idle" /\ cancelled' = TRUE /\ UNCHANGED try

(* A packet cannot be sent, or LiveKit drops the end: the transport is closed
   already when the mux and the controller close it, so nobody leaves the
   room, and at the client nobody discards the call. *)
ClientBreaks(k) ==
  /\ client[k] \in {"shaking", "up"}
  /\ client' = [client EXCEPT ![k] = "over"] /\ Costs(1) /\ Loses(k, FALSE)
  /\ \/ UNCHANGED room
     \/ room' = [room EXCEPT ![k] = @ \ {"client"}]
  /\ UNCHANGED <<given, other, call, server, leaving, hello, toggles>>

ServerBreaks(k) ==
  /\ server[k] \in {"shaking", "up"}
  /\ server' = [server EXCEPT ![k] = "over"]
  /\ \/ UNCHANGED room
     \/ room' = [room EXCEPT ![k] = @ \ {"server"}]
  /\ Discard(k, 1)
  /\ UNCHANGED <<given, other, client, leaving, hello, userVars>>

(* Nothing is left of a call: its number may be used again. *)
Forget(k) ==
  /\ client[k] = "over" /\ server[k] \in {"none", "missed", "refused", "cut", "over"}
  /\ call[k] \in {"over", "undiscarded"} /\ leaving[k] = {}
  /\ call' = [call EXCEPT ![k] = "none"]
  /\ client' = [client EXCEPT ![k] = "none"] /\ server' = [server EXCEPT ![k] = "none"]
  /\ room' = [room EXCEPT ![k] = {}] /\ hello' = [hello EXCEPT ![k] = {}]
  /\ UNCHANGED <<given, other, leaving, userVars, faults>>

(* What happens by itself, in time. *)
Goes(k) ==
  \/ ClientJoins(k) \/ ServerAccepts(k) \/ ServerJoins(k)
  \/ Left(k, "client") \/ Left(k, "server")
  \/ ServerShakes(k) \/ ClientShakes(k)

Expires(k) ==
  \/ ClientTimesOut(k) \/ ServerTimesOut(k) \/ ClientGivesUp(k) \/ ServerGivesUp(k)
  \/ ServerIdles(k) \/ ClientTerminated(k)

Fails(k) ==
  \/ ClientCannotJoin(k) \/ ServerMisses(k) \/ ServerCannotJoin(k) \/ ServerCutsOff(k)
  \/ ClientBreaks(k) \/ ServerBreaks(k) \/ \E e \in Ends : HelloLost(k, e)

Next ==
  \/ UserStarts \/ UserStops \/ OtherComes \/ OtherGoes \/ CannotCall
  \/ \E k \in Calls : StartCall(k) \/ Goes(k) \/ Expires(k) \/ Fails(k) \/ Forget(k)

Spec == Init /\ [][Next]_vars

(* Both programs go on, Bale and LiveKit answer, what a carrier still has it
   delivers, and a timer fires when what it waits for can no longer come: of
   each call, something that can go on does. *)
InTime(k) ==
  \/ ~WillHear(k, "client") /\ ClientTimesOut(k)
  \/ ~WillHear(k, "server") /\ ServerTimesOut(k)
  \/ server[k] # "up" /\ ClientGivesUp(k)
  \/ client[k] = "over" /\ ServerGivesUp(k)
  \/ given.traffic = "none" /\ ServerIdles(k)

FairSpec ==
  /\ Spec
  /\ \A k \in Calls : WF_vars(StartCall(k) \/ Goes(k) \/ InTime(k) \/ Forget(k))

-----------------------------------------------------------------------------
TypeOK ==
  /\ given \in Given /\ other \in BOOLEAN
  /\ program \in Programs /\ try \in 0..MaxTries /\ cancelled \in BOOLEAN
  /\ call \in [Calls -> CallStates] /\ client \in [Calls -> ClientStates]
  /\ server \in [Calls -> ServerStates]
  /\ room \in [Calls -> SUBSET Ends] /\ leaving \in [Calls -> SUBSET Ends]
  /\ hello \in [Calls -> SUBSET Ends]
  /\ faults \in 0..MaxFaults /\ toggles \in 0..MaxToggles

Connected(k) == client[k] = "up" /\ server[k] = "up"

(* The two halves of a handshake belong together, although the server answers
   before it has asked whether the client is admitted, either end may time out
   with the other's hello under way, and neither says that it goes.  An end
   that is up has the other, or the other is gone, or the hello that brings the
   other up is on its way to an end that still waits for it; and while both are
   up the call is not hung up, by either end or for an earlier call, and both
   are in the room. *)
HalvesMatch ==
  \A k \in Calls :
    /\ server[k] = "up" =>
         client[k] \in {"up", "over"} \/ (client[k] = "shaking" /\ "client" \in hello[k])
    /\ client[k] = "up" => server[k] \in {"up", "refused", "cut", "over"}
    /\ Connected(k) => call[k] = "open" /\ room[k] = Ends

(* Neither end is left alone for good: an end of a call that is joining,
   waiting for a hello or up either has the other or comes to an end itself,
   though no end ever tells the other that it goes. *)
NoEndStaysAlone ==
  \A k \in Calls :
    /\ client[k] \in {"joining", "shaking", "up"} ~>
         Connected(k) \/ client[k] \in {"none", "over"}
    /\ server[k] \in {"joining", "shaking", "up"} ~>
         Connected(k) \/ server[k] \in {"none", "refused", "cut", "over"}

(* A call whose client is gone is discarded by one of the two, even if the
   client broke and left it to the server; only a call the server never heard
   of can stay behind. *)
CallsAreDiscarded ==
  \A k \in Calls : client[k] = "over" ~> call[k] # "open" \/ server[k] = "missed"

(* The reconnect loop wins: where the config is good, the carrier repeats what
   is not heard and the applications use the tunnel, a client that is neither
   idle nor cancelled any more and has no rival ends with a connection that
   stays, although losses at either end, timers that fire early and a server
   that still holds the last tunnel, and refuses the next, delay it.  What
   cancels is the user, the operator's terminate, and the failure of a first
   attempt: from then on nothing is promised, and after three of them, or when
   a later one's tunnel drops, the client is idle (README, deviation 1). *)
ConnectedInTheEnd ==
  (given = [carrier |-> "video", config |-> "registered", key |-> "right", traffic |-> "some"]
     /\ <>[](program # "idle" /\ ~cancelled /\ ~other))
  => <>[](\E k \in Calls : Connected(k))

=============================================================================
