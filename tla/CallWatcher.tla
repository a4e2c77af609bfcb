------------------------------ MODULE CallWatcher ------------------------------
(***************************************************************************)
(* The server's listener on Bale's update stream                           *)
(* (BaleIncomingCallWatcher, shared/src/bale/update-socket.ts): one        *)
(* WebSocket that is opened again after every loss, and on demand when an  *)
(* offer was seen whose call was not.  A socket is what the ws package     *)
(* makes of it: a connection that cannot be made is an error and a close   *)
(* in one turn, closing one that is being made is the same a turn later,   *)
(* and no socket opens once it was told to close.                          *)
(*                                                                         *)
(* start() and restart() each hand out a promise, initialReady; the        *)
(* watcher can settle only the newest one.  What the frames say is the     *)
(* business of BaleClient.                                                   *)
(***************************************************************************)
EXTENDS Naturals, Sequences

CONSTANTS MaxCalls,      \* bound: calls of start and restart
          MaxDrops       \* bound: connections refused or lost

ASSUME BoundsAssumption == MaxCalls \in Nat /\ MaxDrops \in Nat

VARIABLES
  started,           \* the flag of that name
  closed,            \* the flag of that name
  sock,              \* every WebSocket made so far, and how it is
  ws,                \* the number of the current one, 0 for null
  pinging,           \* pingTimer is set
  reconnect,         \* reconnectTimer is set
  restartRequested,  \* the flag of that name
  ready,             \* every initialReady so far, and how it was settled
  calls,             \* calls of start and restart: see Call
  drops              \* bound: losses so far

timers == <<pinging, reconnect>>
vars == <<started, closed, sock, ws, timers, restartRequested, ready, calls, drops>>

SocketStates == {"connecting", "open",
                 "closing",     \* closing, or broken and about to close
                 "aborting",    \* told to close before it was open
                 "gone"}

(* A call made the promise number own; while it waits for a socket to close,
   gen is 0; then it waits for the promise gen. *)
Call(own, gen) == [own |-> own, gen |-> gen]

Init ==
  /\ started = FALSE /\ closed = FALSE /\ sock = <<>> /\ ws = 0
  /\ pinging = FALSE /\ reconnect = FALSE /\ restartRequested = FALSE
  /\ ready = <<>> /\ calls = <<>> /\ drops = 0

(* The socket s gets the state st. *)
Now(s, st) == [sock EXCEPT ![s] = st]

(* resolveInitialReady, rejectInitialReady: the newest promise, once. *)
Settle(how) ==
  ready' = [g \in 1..Len(ready) |->
              IF g = Len(ready) /\ ready[g] = "pending" THEN how ELSE ready[g]]

(* connect(), where the sockets are socks and the current one is current. *)
Connect(socks, current) ==
  IF closed \/ current # 0 THEN sock' = socks /\ ws' = current
  ELSE /\ sock' = Append(socks, "connecting")
       /\ ws' = Len(socks) + 1

Start ==
  /\ ~closed /\ Len(calls) < MaxCalls
  /\ \/ /\ started
        /\ calls' = Append(calls, Call(Len(ready), Len(ready)))
        /\ UNCHANGED <<started, sock, ws, ready>>
     \/ /\ ~started
        /\ started' = TRUE
        /\ ready' = Append(ready, "pending")
        /\ calls' = Append(calls, Call(Len(ready) + 1, Len(ready) + 1))
        /\ Connect(sock, ws)
  /\ UNCHANGED <<closed, timers, restartRequested, drops>>

(* ws.close(): a socket that is closing already is left alone. *)
Hangup(s) ==
  Now(s, IF sock[s] = "connecting" THEN "aborting"
         ELSE IF sock[s] = "open" THEN "closing" ELSE sock[s])

(* Mutants of Restart: a second socket is opened at once, or the first is
   never told to close. *)
RestartAtOnce ==
  /\ ~closed /\ Len(calls) < MaxCalls
  /\ started' = TRUE /\ reconnect' = FALSE /\ pinging' = FALSE
  /\ ready' = Append(ready, "pending")
  /\ restartRequested' = FALSE
  /\ sock' = Append(IF ws = 0 THEN sock ELSE Hangup(ws), "connecting")
  /\ ws' = Len(sock) + 1
  /\ calls' = Append(calls, Call(Len(ready) + 1, Len(ready) + 1))
  /\ UNCHANGED <<closed, drops>>

RestartWithoutHangup ==
  /\ ~closed /\ Len(calls) < MaxCalls
  /\ started' = TRUE /\ reconnect' = FALSE /\ pinging' = FALSE
  /\ ready' = Append(ready, "pending")
  /\ \/ /\ ws = 0
        /\ restartRequested' = FALSE
        /\ Connect(sock, ws)
        /\ calls' = Append(calls, Call(Len(ready) + 1, Len(ready) + 1))
     \/ /\ ws # 0
        /\ restartRequested' = TRUE
        /\ calls' = Append(calls, Call(Len(ready) + 1, 0))
        /\ UNCHANGED <<sock, ws>>
  /\ UNCHANGED <<closed, drops>>

Restart ==
  /\ ~closed /\ Len(calls) < MaxCalls
  /\ started' = TRUE /\ reconnect' = FALSE /\ pinging' = FALSE
  /\ ready' = Append(ready, "pending")
  /\ \/ /\ ws = 0
        /\ restartRequested' = FALSE
        /\ Connect(sock, ws)
        /\ calls' = Append(calls, Call(Len(ready) + 1, Len(ready) + 1))
     \/ /\ ws # 0
        /\ restartRequested' = TRUE
        /\ sock' = Hangup(ws) /\ ws' = ws
        /\ calls' = Append(calls, Call(Len(ready) + 1, 0))
  /\ UNCHANGED <<closed, drops>>

(* restart() goes on: its socket has closed, or two seconds have passed. *)
RestartGoesOn(i) ==
  /\ calls[i].gen = 0
  /\ calls' = [calls EXCEPT ![i] = Call(@.own, Len(ready))]
  /\ IF ws = 0 /\ restartRequested
       THEN restartRequested' = FALSE /\ Connect(sock, ws)
       ELSE UNCHANGED <<restartRequested, sock, ws>>
  /\ UNCHANGED <<started, closed, timers, ready, drops>>

(* Mutant of Close: the reconnect timer is forgotten. *)
CloseKeepsTimer ==
  /\ ~closed
  /\ closed' = TRUE /\ started' = FALSE /\ restartRequested' = FALSE
  /\ pinging' = FALSE
  /\ sock' = IF ws = 0 THEN sock ELSE Hangup(ws)
  /\ ws' = 0
  /\ UNCHANGED <<reconnect, ready, calls, drops>>

Close ==
  /\ ~closed
  /\ closed' = TRUE /\ started' = FALSE /\ restartRequested' = FALSE
  /\ pinging' = FALSE /\ reconnect' = FALSE
  /\ sock' = IF ws = 0 THEN sock ELSE Hangup(ws)
  /\ ws' = 0
  /\ UNCHANGED <<ready, calls, drops>>

-----------------------------------------------------------------------------
(* What the sockets do. *)

(* Mutant of ClosedThen: a restart was asked for, and the timer is set. *)
ClosedThenTimerOnly(socks, current) ==
  /\ restartRequested' = FALSE /\ sock' = socks /\ ws' = current
  /\ reconnect' = (~closed /\ ~restartRequested)

(* The close handler, past its first lines. *)
ClosedThen(socks, current) ==
  \/ /\ closed
     /\ sock' = socks /\ ws' = current
     /\ UNCHANGED <<restartRequested, reconnect>>
  \/ /\ ~closed /\ restartRequested
     /\ restartRequested' = FALSE /\ UNCHANGED reconnect
     /\ Connect(socks, current)
  \/ /\ ~closed /\ ~restartRequested
     /\ reconnect' = TRUE /\ UNCHANGED restartRequested
     /\ sock' = socks /\ ws' = current

(* The close event of s. *)
Closes(s) ==
  /\ pinging' = FALSE
  /\ ClosedThen(Now(s, "gone"), IF ws = s THEN 0 ELSE ws)
  /\ UNCHANGED <<started, closed, calls>>

Opened(s) ==
  /\ sock[s] = "connecting"
  /\ sock' = Now(s, "open") /\ pinging' = TRUE
  /\ Settle("ok")
  /\ UNCHANGED <<started, closed, ws, reconnect, restartRequested, calls, drops>>

(* The connection cannot be made: error, then close. *)
Refused(s) ==
  /\ sock[s] = "connecting" /\ drops < MaxDrops
  /\ drops' = drops + 1
  /\ Settle("failed")
  /\ Closes(s)

(* The same for one that was told to close before it was open. *)
Aborted(s) ==
  /\ sock[s] = "aborting"
  /\ Settle("failed")
  /\ Closes(s) /\ UNCHANGED drops

(* The connection is lost. *)
Lost(s) ==
  /\ sock[s] = "open" /\ drops < MaxDrops
  /\ drops' = drops + 1
  /\ Closes(s) /\ UNCHANGED ready

(* A frame that is no WebSocket frame: error now, close to follow. *)
Broken(s) ==
  /\ sock[s] = "open" /\ drops < MaxDrops
  /\ drops' = drops + 1
  /\ sock' = Now(s, "closing")
  /\ Settle("failed")
  /\ UNCHANGED <<started, closed, ws, timers, restartRequested, calls>>

ClosingDone(s) ==
  /\ sock[s] = "closing"
  /\ Closes(s) /\ UNCHANGED <<ready, drops>>

ReconnectTimer ==
  /\ reconnect
  /\ reconnect' = FALSE
  /\ Connect(sock, ws)
  /\ UNCHANGED <<started, closed, pinging, restartRequested, ready, calls, drops>>

SocketStep(s) ==
  Opened(s) \/ Refused(s) \/ Aborted(s) \/ Lost(s) \/ Broken(s) \/ ClosingDone(s)

Next ==
  \/ Start \/ Restart \/ Close \/ ReconnectTimer
  \/ \E i \in 1..Len(calls) : RestartGoesOn(i)
  \/ \E s \in 1..Len(sock) : SocketStep(s)

Spec == Init /\ [][Next]_vars

(* The bound of the sockets ever made: one for each call and each loss. *)
MaxSockets == MaxCalls + MaxDrops + 1

(* The timers run, and ws closes a socket within its own time limit (half a
   minute).  That a connection is answered one way or the other is assumed of the
   network: connect gives ws no handshakeTimeout, so nothing in the code ends a
   connection that is never answered. *)
FairSpec ==
  /\ Spec /\ WF_vars(ReconnectTimer)
  /\ \A i \in 1..MaxCalls : WF_vars(i <= Len(calls) /\ RestartGoesOn(i))
  /\ \A s \in 1..MaxSockets :
       WF_vars(s <= Len(sock) /\ (Opened(s) \/ Refused(s) \/ Aborted(s) \/ ClosingDone(s)))

-----------------------------------------------------------------------------
TypeOK ==
  /\ started \in BOOLEAN /\ closed \in BOOLEAN
  /\ sock \in Seq(SocketStates) /\ ws \in 0..Len(sock)
  /\ pinging \in BOOLEAN /\ reconnect \in BOOLEAN /\ restartRequested \in BOOLEAN
  /\ ready \in Seq({"pending", "ok", "failed"})
  /\ calls \in Seq([own : Nat, gen : Nat])
  /\ drops \in Nat

(* The watcher never listens twice: whatever restarts, losses and timers
   interleave, no socket is alive but the current one, so no call is pushed
   to the dispatcher by two sockets.  Once closed it has no current one, and
   what is left of the last one is on its way out. *)
OneSocket ==
  \A s \in 1..Len(sock) : sock[s] # "gone" =>
    IF closed THEN \A r \in 1..Len(sock) : sock[r] # "gone" => r = s
    ELSE s = ws

(* close() is final: no timer that could connect or ping survives it, and no
   socket that could open. *)
ClosedForGood ==
  closed => /\ ~reconnect /\ ~pinging /\ ws = 0
            /\ \A s \in 1..Len(sock) : sock[s] \in {"closing", "aborting", "gone"}

(* A watcher that was started is never left with nothing under way: it has a
   socket, or the timer that will make one. *)
NeverAbandoned == started /\ ~closed => (ws # 0 /\ sock[ws] # "gone") \/ reconnect

(* How a call of start or restart stands. *)
Overtaken(i) == calls[i].own < Len(ready)
Answered(i) == calls[i].gen # 0 /\ ready[calls[i].gen] # "pending"

(* The newest caller is answered: a restart that no later one overtakes and
   that close() does not cut off succeeds or fails in the end.  (An overtaken
   one need not be: its promise may have been replaced.) *)
NewestAnswered ==
  \A i \in 1..MaxCalls :
    i <= Len(calls) ~> closed \/ (i <= Len(calls) /\ (Answered(i) \/ Overtaken(i)))

(* The watcher always comes back: once started it is connected sooner or
   later, unless closed, and no number of restarts and losses leaves it
   without a connection for good. *)
ComesBack ==
  (started /\ ~closed) ~> (closed \/ \E s \in 1..Len(sock) : s = ws /\ sock[s] = "open")
=============================================================================
