--------------------------- MODULE ClientController ---------------------------
(***************************************************************************)
(* The tunnel lifecycle of the desktop client                              *)
(* (client-electron/src/main/controller.ts): startTunnel with its retries, *)
(* startTunnelOnce, stopTunnel and the reconnect loop that runs after an   *)
(* unexpected drop.                                                        *)
(*                                                                         *)
(* The controller is single threaded: a handler runs to its next await     *)
(* without interruption, and so is one action here, together with all the  *)
(* handlers it calls synchronously (closing a mux runs the mux's onClose). *)
(* The calls that are suspended at an await are flows: flow 0 is           *)
(* startTunnel, of which the start button allows one at a time; the others *)
(* are handleUnexpectedDrop.  Each call of startTunnelOnce is an attempt;  *)
(* the transport, the mux and the SOCKS5 listener it creates carry its     *)
(* number, which is used again when nothing of the attempt is left.        *)
(***************************************************************************)
EXTENDS Naturals, FiniteSets

CONSTANTS MaxLive,     \* bound: attempts alive at once
          MaxDrops,    \* bound: handleUnexpectedDrop calls alive at once
          MaxStarts,   \* bound: presses of the start button
          MaxStops,    \* bound: stopTunnel calls made by the user
          MaxTries,    \* maxAttempts of startTunnel; 3 in the code
          MaxBusy      \* bound: another program is found to hold the SOCKS port

ASSUME BoundsAssumption ==
  /\ MaxLive \in Nat \ {0} /\ MaxDrops \in Nat \ {0} /\ MaxTries \in Nat \ {0}
  /\ MaxStarts \in Nat /\ MaxStops \in Nat /\ MaxBusy \in Nat

Attempts == 1..MaxLive
Drops == 1..MaxDrops
Flows == {0} \cup Drops

VARIABLES
  pc,           \* where each flow is suspended; "none" for no call
  at,           \* the attempt a flow is making, 0 for none
  waitOn,       \* the listener whose close a flow awaits, 0 for none
  try, fatal,   \* startTunnel: its loop counter, and not to be retried
  held,         \* this.mux, this.currentTransport, this.socksServer
  open,         \* what is really open
  draining,     \* listeners told to close that still have connections
  pendingStops, \* listeners whose close a stopTunnel call awaits
  ready,        \* attempts with tunnelMarkedReady
  during,       \* attempts with muxClosedDuringStart
  userCancelled,
  timer,        \* the flow whose timer reconnectTimer holds, 0 for null
  status,       \* status.tunnel, whether status.connecting, retryState
  starts, stops, busy \* history: for the bounds

flowVars  == <<pc, at, waitOn, try, fatal>>
closeVars == <<held, open, draining, pendingStops>>
flagVars  == <<ready, during>>
userVars  == <<starts, stops>>
vars == <<flowVars, closeVars, flagVars, userCancelled, timer, status, userVars, busy>>

Nothing == [mux |-> 0, transport |-> 0, socks |-> 0]
Cleared == [tunnel |-> 0, connecting |-> FALSE, retry |-> "idle"]
Connecting(s) == [s EXCEPT !.connecting = TRUE]

Attempting == {"create", "handshake", "portcheck"}

(* The number of a new attempt: the least one nothing uses. *)
InUse == open.mux \cup open.transport \cup open.listener \cup draining
           \cup {held.mux, held.transport, held.socks, status.tunnel}
           \cup {at[f] : f \in Flows}
NewAttempt == {n \in Attempts \ InUse : \A m \in Attempts \ InUse : n <= m}

Init ==
  /\ pc = [f \in Flows |-> "none"] /\ at = [f \in Flows |-> 0]
  /\ waitOn = [f \in Flows |-> 0] /\ try = 0 /\ fatal = FALSE
  /\ held = Nothing /\ open = [mux |-> {}, transport |-> {}, listener |-> {}]
  /\ draining = {} /\ pendingStops = {} /\ ready = {} /\ during = {}
  /\ userCancelled = FALSE /\ timer = 0 /\ status = Cleared
  /\ starts = 0 /\ stops = 0 /\ busy = 0

-----------------------------------------------------------------------------
(* stopTunnel, run to its first await with the fields h, when o is open and
   d closed during their start.  Closing the mux runs its onClose, which
   calls stopTunnel again: that call takes the listener and awaits its
   close, and the outer call finds nothing left to wait for. *)
Named(h) == {h.mux, h.transport}
Waits(h, o) == h.socks # 0 /\ Named(h) \cap o.mux = {}

StopTunnel(h, o, d) ==
  /\ userCancelled' = TRUE
  /\ timer' = 0
  /\ held' = Nothing
  /\ open' = [mux |-> o.mux \ Named(h), transport |-> o.transport \ Named(h),
              listener |-> o.listener \ {h.socks}]
  /\ during' = d \cup ((Named(h) \cap o.mux) \ ready)
  /\ draining' = draining \cup ({h.socks} \ {0})
  /\ pendingStops' = pendingStops \cup ({h.socks} \ {0})
  /\ UNCHANGED ready

(* The status it leaves when control returns to its caller. *)
Stopped(h, o) == IF Waits(h, o) THEN status ELSE Cleared

(* A reconnect timer that is cleared never resumes the flow waiting for it. *)
PcStopped == [f \in Flows |-> IF f # 0 /\ f = timer THEN "none" ELSE pc[f]]

-----------------------------------------------------------------------------
(* One attempt: startTunnelOnce, for startTunnel or for the reconnect loop. *)

Begin(f, s) ==
  \E n \in NewAttempt :
    /\ at' = [at EXCEPT ![f] = n]
    /\ pc' = [pc EXCEPT ![f] = "create"]
    /\ ready' = ready \ {n} /\ during' = during \ {n}
    /\ status' = Connecting(s)

(* startTunnel, up to the await of the transport.  The renderer offers the
   button only in this state, and disables it while a call is pending. *)
Start ==
  /\ pc[0] = "none" /\ status.tunnel = 0 /\ ~status.connecting
  /\ starts < MaxStarts
  /\ userCancelled' = FALSE /\ try' = 1 /\ fatal' = FALSE
  /\ Begin(0, Cleared)
  /\ starts' = starts + 1
  /\ UNCHANGED <<waitOn, closeVars, timer, stops, busy>>

(* startTunnel after stopTunnel has cleaned up a failed attempt: sleep and
   try again, or give up. *)
RetryOrFail(isFatal) ==
  \/ /\ ~isFatal /\ try < MaxTries
     /\ pc' = [PcStopped EXCEPT ![0] = "sleep"]
     /\ status' = Connecting(Cleared)
  \/ /\ isFatal \/ try >= MaxTries
     /\ pc' = [PcStopped EXCEPT ![0] = "none"]
     /\ status' = [Cleared EXCEPT !.retry = "failed"]

(* Attempt of f fails with the fields h and with o open.  startTunnel calls
   stopTunnel; the reconnect loop only looks at userCancelled. *)
StartFails(h, o, isFatal) ==
  /\ StopTunnel(h, o, during)
  /\ at' = [at EXCEPT ![0] = 0] /\ fatal' = (isFatal /\ Waits(h, o))
  /\ \/ /\ Waits(h, o)
        /\ pc' = [PcStopped EXCEPT ![0] = "stopping"]
        /\ waitOn' = [waitOn EXCEPT ![0] = h.socks]
        /\ UNCHANGED status
     \/ /\ ~Waits(h, o) /\ RetryOrFail(isFatal)
        /\ UNCHANGED waitOn
  /\ UNCHANGED <<try, userVars>>

(* Mutant: the reconnect loop ends at its first failure. *)
ReconnectGivesUp(f, h, o) ==
  /\ held' = h /\ open' = o
  /\ at' = [at EXCEPT ![f] = 0] /\ pc' = [pc EXCEPT ![f] = "none"]
  /\ status' = [status EXCEPT !.connecting = FALSE, !.retry = "idle"]
  /\ UNCHANGED <<waitOn, try, fatal, draining, pendingStops, flagVars, userCancelled,
                 timer, userVars>>

ReconnectFails(f, h, o) ==
  /\ held' = h /\ open' = o
  /\ at' = [at EXCEPT ![f] = 0]
  /\ \/ /\ userCancelled
        /\ pc' = [pc EXCEPT ![f] = "none"]
        /\ status' = [status EXCEPT !.connecting = FALSE, !.retry = "idle"]
        /\ UNCHANGED timer
     \/ /\ ~userCancelled
        /\ pc' = [pc EXCEPT ![f] = "timer"] /\ timer' = f
        /\ status' = Connecting(status)
  /\ UNCHANGED <<waitOn, try, fatal, draining, pendingStops, flagVars, userCancelled, userVars>>

Fails(f, h, o, isFatal) ==
  \/ f = 0 /\ StartFails(h, o, isFatal)
  \/ f # 0 /\ ReconnectFails(f, h, o)

TransportOk(f) ==
  /\ pc[f] = "create"
  /\ held' = [held EXCEPT !.transport = at[f]]
  /\ open' = [open EXCEPT !.transport = @ \cup {at[f]}]
  /\ pc' = [pc EXCEPT ![f] = "handshake"]
  /\ status' = Connecting(status)
  /\ UNCHANGED <<at, waitOn, try, fatal, draining, pendingStops, flagVars,
                 userCancelled, timer, userVars, busy>>

TransportFails(f) ==
  /\ pc[f] = "create"
  /\ \E isFatal \in BOOLEAN : Fails(f, held, open, isFatal)
  /\ UNCHANGED busy

HandshakeOk(f) ==
  /\ pc[f] = "handshake" /\ at[f] \in open.transport
  /\ held' = [held EXCEPT !.mux = at[f]]
  /\ open' = [open EXCEPT !.mux = @ \cup {at[f]}]
  /\ pc' = [pc EXCEPT ![f] = "portcheck"]
  /\ status' = Connecting(status)
  /\ UNCHANGED <<at, waitOn, try, fatal, draining, pendingStops, flagVars,
                 userCancelled, timer, userVars, busy>>

(* Mutant: a failed handshake leaves its transport open. *)
HandshakeLeaks(f) ==
  /\ pc[f] = "handshake"
  /\ \E isFatal \in BOOLEAN : Fails(f, [held EXCEPT !.transport = 0], open, isFatal)
  /\ UNCHANGED busy

(* Mutant: neither a timeout nor a closed transport ends a handshake. *)
HandshakeHangs(f) ==
  /\ pc[f] = "handshake" /\ at[f] \in open.transport
  /\ \E isFatal \in BOOLEAN :
       Fails(f, [held EXCEPT !.transport = 0],
                [open EXCEPT !.transport = @ \ {at[f]}], isFatal)
  /\ UNCHANGED busy

(* The handshake fails, times out, or its transport was closed. *)
HandshakeFails(f) ==
  /\ pc[f] = "handshake"
  /\ \E isFatal \in BOOLEAN :
       Fails(f, [held EXCEPT !.transport = 0],
                [open EXCEPT !.transport = @ \ {at[f]}], isFatal)
  /\ UNCHANGED busy

(* assertTcpPortAvailable fails: the port is bound by a listener of ours, by
   the probe of another flow, or by another program. *)
PortBusy(f) ==
  /\ pc[f] = "portcheck"
  /\ \/ /\ open.listener # {} \/ \E g \in Flows \ {f} : pc[g] = "portcheck"
        /\ UNCHANGED busy
     \/ busy < MaxBusy /\ busy' = busy + 1
  /\ Fails(f, held, open, TRUE)

(* Mutant: a mux that closed during the start goes unnoticed. *)
ListenUnchecked(f) ==
  LET n == at[f]
  IN /\ pc[f] = "portcheck" /\ open.listener = {}
     /\ held' = [held EXCEPT !.socks = n]
     /\ open' = [open EXCEPT !.listener = @ \cup {n}]
     /\ ready' = ready \cup {n} /\ status' = [Cleared EXCEPT !.tunnel = n]
     /\ pc' = [pc EXCEPT ![f] = "none"] /\ at' = [at EXCEPT ![f] = 0]
     /\ UNCHANGED <<waitOn, try, fatal, draining, pendingStops, during,
                    userCancelled, timer, userVars, busy>>

(* The probe succeeds, the listener is created, and the attempt ends: in
   failure if the mux has closed since the handshake. *)
Listen(f) ==
  LET n == at[f]
      h == [held EXCEPT !.socks = n]
      o == [open EXCEPT !.listener = @ \cup {n}]
  IN /\ pc[f] = "portcheck" /\ open.listener = {}
     /\ \/ /\ n \in during /\ UNCHANGED busy
           /\ \E isFatal \in BOOLEAN : Fails(f, h, o, isFatal)
        \/ /\ n \notin during
           /\ held' = h /\ open' = o /\ ready' = ready \cup {n}
           /\ status' = [Cleared EXCEPT !.tunnel = n]
           /\ pc' = [pc EXCEPT ![f] = "none"] /\ at' = [at EXCEPT ![f] = 0]
           /\ UNCHANGED <<waitOn, try, fatal, draining, pendingStops, during,
                          userCancelled, timer, userVars, busy>>

(* startTunnel wakes from its sleep between two attempts. *)
SleepOver ==
  /\ pc[0] = "sleep"
  /\ try' = try + 1
  /\ Begin(0, [status EXCEPT !.retry = "retrying"])
  /\ UNCHANGED <<waitOn, fatal, closeVars, userCancelled, timer, userVars, busy>>

-----------------------------------------------------------------------------
(* The user stops the tunnel. *)
Stop ==
  /\ stops < MaxStops
  /\ StopTunnel(held, open, during)
  /\ status' = Stopped(held, open)
  /\ pc' = PcStopped
  /\ stops' = stops + 1
  /\ UNCHANGED <<at, waitOn, try, fatal, starts, busy>>

(* The server's terminate message arrives on mux n. *)
Terminated(n) ==
  LET o == IF n \in Named(held) THEN open ELSE [open EXCEPT !.mux = @ \ {n}]
  IN /\ n \in open.mux
     /\ StopTunnel(held, o, during \cup ({n} \ ready))
     /\ status' = Stopped(held, o)
     /\ pc' = PcStopped
     /\ UNCHANGED <<at, waitOn, try, fatal, starts, stops, busy>>

(* A CONNECT arrives on a SOCKS connection whose mux is closed: onError. *)
SocksError(s) ==
  /\ s \in open.listener \cup draining /\ s \notin open.mux
  /\ StopTunnel(held, open, during)
  /\ status' = Stopped(held, open)
  /\ pc' = PcStopped
  /\ UNCHANGED <<at, waitOn, try, fatal, userVars, busy>>

-----------------------------------------------------------------------------
(* Mux n closes by itself.  Its transport is closed too, unless the mux gave
   up on what the peer sent. *)

(* handleUnexpectedDrop as flow f, up to its first await, once the listener
   is gone: it arms the reconnect timer. *)
Reconnecting == [tunnel |-> 0, connecting |-> TRUE, retry |-> "reconnecting"]

DropThenReconnect(f, o) ==
  /\ pc[f] = "none"
  /\ Named(held) \cap o.mux = {}
  /\ \/ /\ held.socks # 0
        /\ pc' = [pc EXCEPT ![f] = "teardown"]
        /\ waitOn' = [waitOn EXCEPT ![f] = held.socks]
        /\ UNCHANGED <<timer, status>>
     \/ /\ held.socks = 0
        /\ pc' = [pc EXCEPT ![f] = "timer"] /\ timer' = f
        /\ status' = Reconnecting
        /\ UNCHANGED waitOn

(* The controller holds another live mux m, which it now closes as well: its
   onClose starts a second reconnect loop, or stops everything. *)
DropBoth(f, g, o) ==
  /\ f # g /\ pc[f] = "none" /\ pc[g] = "none"
  /\ Named(held) \cap o.mux # {} /\ Named(held) \cap o.mux \subseteq ready
  /\ pc' = [pc EXCEPT ![f] = "timer",
                      ![g] = IF held.socks # 0 THEN "teardown" ELSE "timer"]
  /\ waitOn' = [waitOn EXCEPT ![g] = held.socks]
  /\ timer' = f /\ status' = Reconnecting

Drop(n) ==
  \E o \in {[open EXCEPT !.mux = @ \ {n}, !.transport = @ \ {n}],
            [open EXCEPT !.mux = @ \ {n}]} :
    /\ n \in open.mux
    /\ \/ /\ n \notin ready \/ userCancelled
          /\ StopTunnel(held, o, during \cup ({n} \ ready))
          /\ status' = Stopped(held, o) /\ pc' = PcStopped
          /\ UNCHANGED waitOn
       \/ /\ n \in ready /\ ~userCancelled
          /\ ~(Named(held) \cap o.mux \subseteq ready)
          /\ StopTunnel(held, o, during)
          /\ status' = Cleared /\ pc' = PcStopped
          /\ UNCHANGED waitOn
       \/ /\ n \in ready /\ ~userCancelled
          /\ \/ \E f \in Drops : DropThenReconnect(f, o)
             \/ \E f, g \in Drops : DropBoth(f, g, o)
          /\ held' = Nothing
          /\ open' = [mux |-> o.mux \ Named(held), transport |-> o.transport \ Named(held),
                      listener |-> o.listener \ {held.socks}]
          /\ draining' = draining \cup ({held.socks} \ {0})
          /\ UNCHANGED <<pendingStops, flagVars, userCancelled>>
    /\ UNCHANGED <<at, try, fatal, userVars, busy>>

(* The last connection of a closed listener ends: whoever awaits that goes
   on, a stopTunnel call, startTunnel behind it, or a reconnect loop. *)
Drained(s) ==
  /\ s \in draining
  /\ draining' = draining \ {s}
  /\ pendingStops' = pendingStops \ {s}
  /\ waitOn' = [f \in Flows |-> IF waitOn[f] = s THEN 0 ELSE waitOn[f]]
  /\ \/ /\ s \in pendingStops /\ waitOn[0] # s
        /\ status' = Cleared
        /\ UNCHANGED <<pc, timer>>
     \/ /\ s \in pendingStops /\ waitOn[0] = s
        /\ \/ /\ ~fatal /\ try < MaxTries
              /\ pc' = [pc EXCEPT ![0] = "sleep"]
              /\ status' = Connecting(Cleared)
           \/ /\ fatal \/ try >= MaxTries
              /\ pc' = [pc EXCEPT ![0] = "none"]
              /\ status' = [Cleared EXCEPT !.retry = "failed"]
        /\ UNCHANGED timer
     \/ \E f \in Drops :
          /\ waitOn[f] = s
          /\ \/ /\ userCancelled
                /\ pc' = [pc EXCEPT ![f] = "none"]
                /\ status' = Cleared
                /\ UNCHANGED timer
             \/ /\ ~userCancelled
                /\ pc' = [pc EXCEPT ![f] = "timer"] /\ timer' = f
                /\ status' = Reconnecting
  /\ UNCHANGED <<at, try, fatal, held, open, flagVars, userCancelled, userVars, busy>>

(* The reconnect timer of f fires. *)
TimerFires(f) ==
  /\ pc[f] = "timer"
  /\ timer' = 0
  /\ \/ /\ userCancelled
        /\ pc' = [pc EXCEPT ![f] = "none"]
        /\ status' = [status EXCEPT !.connecting = FALSE, !.retry = "idle"]
        /\ UNCHANGED <<at, flagVars>>
     \/ /\ ~userCancelled
        /\ Begin(f, status)
  /\ UNCHANGED <<waitOn, try, fatal, closeVars, userCancelled, userVars, busy>>

-----------------------------------------------------------------------------
Settle(f) == TransportOk(f) \/ TransportFails(f) \/ HandshakeOk(f) \/ HandshakeFails(f)
               \/ PortBusy(f) \/ Listen(f)

Next ==
  \/ Start \/ SleepOver \/ Stop
  \/ \E f \in Flows : Settle(f)
  \/ \E f \in Drops : TimerFires(f)
  \/ \E n \in Attempts : Drop(n) \/ Terminated(n) \/ SocksError(n) \/ Drained(n)

Spec == Init /\ [][Next]_vars

(* Timers fire, requests and handshakes end one way or the other (each has
   a timeout), and the applications behind the proxy close connections the
   tunnel has dropped. *)
Fairness ==
  /\ WF_vars(Settle(0) \/ SleepOver)
  /\ \A f \in Drops : WF_vars(Settle(f) \/ TimerFires(f))
  /\ WF_vars(\E n \in Attempts : Drained(n))

(* A reconnect loop tries for ever, and the network lets some attempt
   through. *)
Network == \A f \in Drops : SF_vars(TransportOk(f)) /\ SF_vars(HandshakeOk(f))

FairSpec == Spec /\ Fairness /\ Network

-----------------------------------------------------------------------------
TypeOK ==
  /\ pc \in [Flows -> Attempting \cup {"none", "sleep", "stopping", "teardown", "timer"}]
  /\ at \in [Flows -> 0..MaxLive] /\ waitOn \in [Flows -> 0..MaxLive]
  /\ try \in 0..MaxTries /\ fatal \in BOOLEAN
  /\ held \in [mux : 0..MaxLive, transport : 0..MaxLive, socks : 0..MaxLive]
  /\ open \in [mux : SUBSET Attempts, transport : SUBSET Attempts,
               listener : SUBSET Attempts]
  /\ draining \subseteq Attempts /\ pendingStops \subseteq draining
  /\ ready \subseteq Attempts /\ during \subseteq Attempts
  /\ userCancelled \in BOOLEAN /\ timer \in 0..MaxDrops
  /\ status \in [tunnel : 0..MaxLive, connecting : BOOLEAN,
                 retry : {"idle", "retrying", "reconnecting", "failed"}]
  /\ starts \in 0..MaxStarts /\ stops \in 0..MaxStops /\ busy \in 0..MaxBusy

(* The user is never left looking at a tunnel that is gone: when the mux of
   the tunnel shown in the status has closed, some stopTunnel call or some
   reconnect loop is already on its way to clear the status. *)
NoGhostTunnel ==
  status.tunnel \notin open.mux \cup {0} =>
    pendingStops # {} \/ \E f \in Drops : pc[f] = "teardown"

(* Until start is pressed again or another program takes the SOCKS port. *)
FirstStart == starts <= 1 /\ busy = 0

(* The client never holds two connections to the server at once, so that the
   server, which refuses a second use of the same config, does not refuse a
   client because of itself.  Every path that ends an attempt, a drop or a
   stop closes the transport before another one is asked for. *)
SingleConnection == FirstStart => Cardinality(open.transport) <= 1

(* Every startTunnel call returns: it comes up, or it fails after at most
   three attempts. *)
StartSettles == FirstStart /\ pc[0] # "none" ~> pc[0] = "none" \/ ~FirstStart

(* With a network that lets some attempt through, a reconnect loop brings the
   tunnel back, unless something calls stopTunnel meanwhile: the timer chain
   is never dropped and the loop never waits for what cannot come. *)
Recovers ==
  FirstStart /\ status.retry = "reconnecting"
    ~> status.tunnel # 0 \/ userCancelled \/ ~FirstStart
=============================================================================
