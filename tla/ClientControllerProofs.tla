------------------------ MODULE ClientControllerProofs ------------------------
(***************************************************************************)
(* Proofs about ClientController, for any number of attempts, reconnect    *)
(* loops, starts and stops: the types, that the status never shows a       *)
(* tunnel that is gone with nobody on the way to clear it, and that the    *)
(* client never has two connections to the server.                         *)
(***************************************************************************)
EXTENDS ClientController, FiniteSetTheorems, TLAPS

USE BoundsAssumption

Pcs == Attempting \cup {"none", "sleep", "stopping", "teardown", "timer"}
Helds == [mux : 0..MaxLive, transport : 0..MaxLive, socks : 0..MaxLive]
Opens == [mux : SUBSET Attempts, transport : SUBSET Attempts, listener : SUBSET Attempts]
Statuses == [tunnel : 0..MaxLive, connecting : BOOLEAN,
             retry : {"idle", "retrying", "reconnecting", "failed"}]

(* startTunnel sleeps only when a try is left; attempts being made are
   numbered apart from each other and from those that came up; the mux of an
   attempt that looks for its port is open, or known to have closed. *)
RetryInv == pc[0] = "sleep" => try < MaxTries
NumbersInv ==
  /\ \A f \in Flows : pc[f] \in Attempting => at[f] \in Attempts \ ready
  /\ \A f, g \in Flows : pc[f] \in Attempting /\ pc[g] \in Attempting /\ f # g => at[f] # at[g]
MuxInv == \A f \in Flows : pc[f] = "portcheck" => at[f] \in open.mux \cup during

Inv == TypeOK /\ RetryInv /\ NumbersInv /\ MuxInv /\ NoGhostTunnel

-----------------------------------------------------------------------------
(* Types. *)

LEMMA StatusTypes ==
  /\ Cleared \in Statuses /\ [Cleared EXCEPT !.retry = "failed"] \in Statuses
  /\ Reconnecting \in Statuses
  /\ \A s \in Statuses :
       /\ Connecting(s) \in Statuses /\ [s EXCEPT !.retry = "retrying"] \in Statuses
       /\ [s EXCEPT !.connecting = FALSE, !.retry = "idle"] \in Statuses
  /\ \A n \in Attempts : [Cleared EXCEPT !.tunnel = n] \in Statuses
<1>1. Cleared \in Statuses /\ Reconnecting \in Statuses
  BY DEF Statuses, Cleared, Reconnecting
<1>2. \A s \in Statuses :
       /\ Connecting(s) \in Statuses /\ [s EXCEPT !.retry = "retrying"] \in Statuses
       /\ [s EXCEPT !.connecting = FALSE, !.retry = "idle"] \in Statuses
       /\ [s EXCEPT !.retry = "failed"] \in Statuses
  BY DEF Statuses, Connecting
<1>3. \A s \in Statuses, n \in Attempts : [s EXCEPT !.tunnel = n] \in Statuses
  BY DEF Statuses, Attempts
<1> QED BY <1>1, <1>2, <1>3

LEMMA BeginTypes ==
  ASSUME TypeOK, NEW f \in Flows, NEW s \in Statuses, Begin(f, s)
  PROVE  /\ at' \in [Flows -> 0..MaxLive] /\ pc' \in [Flows -> Pcs]
         /\ ready' \subseteq Attempts /\ during' \subseteq Attempts /\ status' \in Statuses
<1>1. PICK n \in NewAttempt :
        /\ at' = [at EXCEPT ![f] = n] /\ pc' = [pc EXCEPT ![f] = "create"]
        /\ ready' = ready \ {n} /\ during' = during \ {n} /\ status' = Connecting(s)
  BY DEF Begin
<1>2. n \in 0..MaxLive
  BY DEF NewAttempt, Attempts
<1> QED BY <1>1, <1>2, StatusTypes DEF TypeOK, Pcs, Attempting

LEMMA StopTypes ==
  ASSUME TypeOK, NEW h \in Helds, NEW o \in Opens, NEW d \in SUBSET Attempts, StopTunnel(h, o, d)
  PROVE  /\ userCancelled' \in BOOLEAN /\ timer' \in 0..MaxDrops /\ held' \in Helds
         /\ open' \in Opens /\ during' \subseteq Attempts /\ ready' = ready
         /\ draining' \subseteq Attempts /\ pendingStops' \subseteq draining'
         /\ PcStopped \in [Flows -> Pcs] /\ Stopped(h, o) \in Statuses
         /\ h.socks \in 0..MaxLive
<1>1. {h.socks} \ {0} \subseteq Attempts /\ h.socks \in 0..MaxLive
  BY DEF Helds, Attempts
<1>2. open' \in Opens
  BY DEF StopTunnel, Opens
<1>3. during' \subseteq Attempts
  BY DEF StopTunnel, Opens
<1>4. held' \in Helds
  BY DEF StopTunnel, Helds, Nothing
<1>5. PcStopped \in [Flows -> Pcs]
  BY DEF PcStopped, TypeOK, Pcs
<1>6. Stopped(h, o) \in Statuses
  BY StatusTypes DEF Stopped, TypeOK, Statuses
<1> QED BY <1>1, <1>2, <1>3, <1>4, <1>5, <1>6 DEF StopTunnel, TypeOK

LEMMA HeldTypes ==
  ASSUME TypeOK
  PROVE  /\ held \in Helds /\ open \in Opens /\ status \in Statuses /\ pc \in [Flows -> Pcs]
         /\ during \subseteq Attempts /\ ready \subseteq Attempts
BY DEF TypeOK, Helds, Opens, Statuses, Pcs

LEMMA StartFailsTypes ==
  ASSUME TypeOK, NEW h \in Helds, NEW o \in Opens, NEW b \in BOOLEAN, StartFails(h, o, b),
         busy' \in 0..MaxBusy
  PROVE  TypeOK'
<1>1. StopTunnel(h, o, during)
  BY DEF StartFails
<1>2. /\ userCancelled' \in BOOLEAN /\ timer' \in 0..MaxDrops /\ held' \in Helds
      /\ open' \in Opens /\ during' \subseteq Attempts /\ ready' = ready
      /\ draining' \subseteq Attempts /\ pendingStops' \subseteq draining'
      /\ PcStopped \in [Flows -> Pcs] /\ h.socks \in 0..MaxLive
  BY <1>1, HeldTypes, StopTypes
<1>3. /\ at' \in [Flows -> 0..MaxLive] /\ fatal' \in BOOLEAN
      /\ try' = try /\ starts' = starts /\ stops' = stops
  <2>1. at' = [at EXCEPT ![0] = 0]
    BY DEF StartFails
  <2>2. fatal' = (b /\ Waits(h, o))
    BY DEF StartFails
  <2>3. (b /\ Waits(h, o)) \in BOOLEAN
    OBVIOUS
  <2>4. at' \in [Flows -> 0..MaxLive]
    <3>1. at \in [Flows -> 0..MaxLive] /\ 0 \in 0..MaxLive
      BY DEF TypeOK
    <3> QED BY <2>1, <3>1
  <2>5. fatal' \in BOOLEAN
    BY <2>2, <2>3
  <2> QED BY <2>4, <2>5 DEF StartFails, userVars
<1>4. pc' \in [Flows -> Pcs] /\ status' \in Statuses /\ waitOn' \in [Flows -> 0..MaxLive]
  <2>1. CASE Waits(h, o)
    <3>1. /\ pc' = [PcStopped EXCEPT ![0] = "stopping"]
          /\ waitOn' = [waitOn EXCEPT ![0] = h.socks] /\ status' = status
      BY <2>1 DEF StartFails
    <3> QED BY <3>1, <1>2, HeldTypes DEF TypeOK, Pcs
  <2>2. CASE ~Waits(h, o)
    <3>1. RetryOrFail(b) /\ waitOn' = waitOn
      BY <2>2 DEF StartFails
    <3>2. status' \in Statuses
      BY <3>1, StatusTypes DEF RetryOrFail
    <3>3. pc' \in [Flows -> Pcs]
      BY <3>1, <1>2 DEF RetryOrFail, Pcs
    <3> QED BY <3>1, <3>2, <3>3 DEF TypeOK
  <2> QED BY <2>1, <2>2
<1> QED BY <1>2, <1>3, <1>4 DEF TypeOK, Helds, Opens, Statuses, Pcs

LEMMA ReconnectFailsTypes ==
  ASSUME TypeOK, NEW f \in Drops, NEW h \in Helds, NEW o \in Opens, ReconnectFails(f, h, o),
         busy' \in 0..MaxBusy
  PROVE  TypeOK'
<1>1. f \in Flows /\ f \in 0..MaxDrops
  BY DEF Flows, Drops
<1>2. pc' \in [Flows -> Pcs] /\ status' \in Statuses /\ timer' \in 0..MaxDrops
  <2>1. status' \in Statuses
    BY HeldTypes, StatusTypes DEF ReconnectFails
  <2>2. pc' \in [Flows -> Pcs] /\ timer' \in 0..MaxDrops
    BY <1>1, HeldTypes DEF ReconnectFails, TypeOK, Pcs
  <2> QED BY <2>1, <2>2
<1>3. at' \in [Flows -> 0..MaxLive]
  BY <1>1 DEF ReconnectFails, TypeOK
<1> QED BY <1>2, <1>3 DEF ReconnectFails, TypeOK, Helds, Opens, Statuses, Pcs, flagVars, userVars

LEMMA FailsTypes ==
  ASSUME TypeOK, NEW f \in Flows, NEW h \in Helds, NEW o \in Opens, NEW b \in BOOLEAN,
         Fails(f, h, o, b), busy' \in 0..MaxBusy
  PROVE  TypeOK'
BY StartFailsTypes, ReconnectFailsTypes DEF Fails, Flows

LEMMA SettleTypes ==
  ASSUME TypeOK, NumbersInv, NEW f \in Flows, Settle(f)
  PROVE  TypeOK'
<1>0. /\ held \in Helds /\ open \in Opens /\ busy \in 0..MaxBusy
      /\ pc[f] \in Attempting => at[f] \in Attempts
  BY HeldTypes DEF TypeOK, NumbersInv
<1>1. CASE TransportOk(f)
  <2>1. pc[f] \in Attempting
    BY <1>1 DEF TransportOk, Attempting
  <2>2. [held EXCEPT !.transport = at[f]] \in Helds
        /\ [open EXCEPT !.transport = @ \cup {at[f]}] \in Opens
    BY <1>0, <2>1 DEF Helds, Opens, Attempts
  <2> QED BY <1>1, <2>2, HeldTypes, StatusTypes
          DEF TransportOk, TypeOK, Helds, Opens, Statuses, Pcs, Attempting, flagVars, userVars
<1>2. CASE TransportFails(f)
  BY <1>0, <1>2, FailsTypes DEF TransportFails
<1>3. CASE HandshakeOk(f)
  <2>1. pc[f] \in Attempting
    BY <1>3 DEF HandshakeOk, Attempting
  <2>2. [held EXCEPT !.mux = at[f]] \in Helds
        /\ [open EXCEPT !.mux = @ \cup {at[f]}] \in Opens
    BY <1>0, <2>1 DEF Helds, Opens, Attempts
  <2> QED BY <1>3, <2>2, HeldTypes, StatusTypes
          DEF HandshakeOk, TypeOK, Helds, Opens, Statuses, Pcs, Attempting, flagVars, userVars
<1>4. CASE HandshakeFails(f)
  <2>1. [held EXCEPT !.transport = 0] \in Helds
        /\ [open EXCEPT !.transport = @ \ {at[f]}] \in Opens
    BY <1>0 DEF Helds, Opens
  <2> QED BY <1>0, <1>4, <2>1, FailsTypes DEF HandshakeFails
<1>5. CASE PortBusy(f)
  <2>1. busy' \in 0..MaxBusy
    BY <1>0, <1>5 DEF PortBusy
  <2> QED BY <1>0, <1>5, <2>1, FailsTypes DEF PortBusy
<1>6. CASE Listen(f)
  <2> DEFINE n == at[f]
             h == [held EXCEPT !.socks = n]
             o == [open EXCEPT !.listener = @ \cup {n}]
  <2>1. n \in Attempts
    BY <1>0, <1>6 DEF Listen, Attempting
  <2>2. h \in Helds /\ o \in Opens
    BY <1>0, <2>1 DEF Helds, Opens, Attempts
  <2>3. CASE n \in during
    <3>1. busy' = busy /\ \E b \in BOOLEAN : Fails(f, h, o, b)
      BY <1>6, <2>3 DEF Listen
    <3> QED BY <1>0, <2>2, <3>1, FailsTypes
  <2>4. CASE n \notin during
    <3>1. /\ held' = h /\ open' = o /\ ready' = ready \cup {n}
          /\ status' = [Cleared EXCEPT !.tunnel = n]
          /\ pc' = [pc EXCEPT ![f] = "none"] /\ at' = [at EXCEPT ![f] = 0]
          /\ UNCHANGED <<waitOn, try, fatal, draining, pendingStops, during,
                         userCancelled, timer, userVars, busy>>
      BY <1>6, <2>4 DEF Listen
    <3>2. status' \in Statuses
      BY <2>1, <3>1, StatusTypes
    <3> HIDE DEF n, h, o
    <3> QED BY <2>1, <2>2, <3>1, <3>2 DEF TypeOK, Helds, Opens, Statuses, userVars
  <2> QED BY <2>3, <2>4
<1> QED BY <1>1, <1>2, <1>3, <1>4, <1>5, <1>6 DEF Settle

LEMMA DropTypes ==
  ASSUME TypeOK, NEW n \in Attempts, Drop(n)
  PROVE  TypeOK'
<1>1. PICK o \in {[open EXCEPT !.mux = @ \ {n}, !.transport = @ \ {n}],
                  [open EXCEPT !.mux = @ \ {n}]} :
        \/ /\ StopTunnel(held, o, during \cup ({n} \ ready))
           /\ status' = Stopped(held, o) /\ pc' = PcStopped /\ UNCHANGED waitOn
        \/ /\ StopTunnel(held, o, during)
           /\ status' = Cleared /\ pc' = PcStopped /\ UNCHANGED waitOn
        \/ /\ \/ \E f \in Drops : DropThenReconnect(f, o)
              \/ \E f, g \in Drops : DropBoth(f, g, o)
           /\ held' = Nothing
           /\ open' = [mux |-> o.mux \ Named(held), transport |-> o.transport \ Named(held),
                       listener |-> o.listener \ {held.socks}]
           /\ draining' = draining \cup ({held.socks} \ {0})
           /\ UNCHANGED <<pendingStops, flagVars, userCancelled>>
  BY DEF Drop
<1>2. UNCHANGED <<at, try, fatal, userVars, busy>>
  BY DEF Drop
<1>3. o \in Opens /\ held \in Helds
  <2>1. open \in Opens
    BY HeldTypes
  <2> QED BY <1>1, <2>1, HeldTypes DEF Opens
<1>4. during \in SUBSET Attempts /\ during \cup ({n} \ ready) \in SUBSET Attempts
  BY DEF TypeOK
<1>5. ASSUME NEW d \in SUBSET Attempts, StopTunnel(held, o, d), status' \in Statuses,
             pc' = PcStopped, waitOn' = waitOn
      PROVE  TypeOK'
  <2>1. /\ userCancelled' \in BOOLEAN /\ timer' \in 0..MaxDrops /\ held' \in Helds
        /\ open' \in Opens /\ during' \subseteq Attempts /\ ready' = ready
        /\ draining' \subseteq Attempts /\ pendingStops' \subseteq draining'
        /\ PcStopped \in [Flows -> Pcs]
    BY <1>3, <1>5, StopTypes
  <2> QED BY <1>2, <1>5, <2>1 DEF TypeOK, Helds, Opens, Statuses, Pcs, userVars
<1>6. ASSUME StopTunnel(held, o, during), status' = Cleared, pc' = PcStopped, waitOn' = waitOn
      PROVE  TypeOK'
  BY <1>4, <1>5, <1>6, StatusTypes
<1>7. ASSUME StopTunnel(held, o, during \cup ({n} \ ready)), status' = Stopped(held, o),
             pc' = PcStopped, waitOn' = waitOn
      PROVE  TypeOK'
  <2>1. status' \in Statuses
    BY <1>3, <1>4, <1>7, StopTypes
  <2> QED BY <1>4, <1>5, <1>7, <2>1
<1>8. ASSUME \/ \E f \in Drops : DropThenReconnect(f, o)
             \/ \E f, g \in Drops : DropBoth(f, g, o),
             held' = Nothing,
             open' = [mux |-> o.mux \ Named(held), transport |-> o.transport \ Named(held),
                       listener |-> o.listener \ {held.socks}],
             draining' = draining \cup ({held.socks} \ {0}),
             UNCHANGED <<pendingStops, flagVars, userCancelled>>
      PROVE  TypeOK'
  <2>1. held.socks \in 0..MaxLive /\ {held.socks} \ {0} \subseteq Attempts /\ Drops \subseteq Flows
        /\ Drops \subseteq 0..MaxDrops
    BY <1>3 DEF Helds, Attempts, Drops, Flows
  <2>2. open' \in Opens /\ held' \in Helds
    BY <1>3, <1>8 DEF Opens, Helds, Nothing
  <2>3. /\ pc' \in [Flows -> Pcs] /\ waitOn' \in [Flows -> 0..MaxLive] /\ timer' \in 0..MaxDrops
        /\ status' \in Statuses
    <3>1. ASSUME NEW f \in Drops, DropThenReconnect(f, o)
          PROVE  /\ pc' \in [Flows -> Pcs] /\ waitOn' \in [Flows -> 0..MaxLive]
                 /\ timer' \in 0..MaxDrops /\ status' \in Statuses
      <4>1. status' \in Statuses
        BY <3>1, HeldTypes, StatusTypes DEF DropThenReconnect
      <4>2. pc' \in [Flows -> Pcs]
        BY <2>1, <3>1, HeldTypes DEF DropThenReconnect, Pcs
      <4>3. waitOn' \in [Flows -> 0..MaxLive] /\ timer' \in 0..MaxDrops
        BY <2>1, <3>1 DEF DropThenReconnect, TypeOK
      <4> QED BY <4>1, <4>2, <4>3
    <3>2. ASSUME NEW f \in Drops, NEW g \in Drops, DropBoth(f, g, o)
          PROVE  /\ pc' \in [Flows -> Pcs] /\ waitOn' \in [Flows -> 0..MaxLive]
                 /\ timer' \in 0..MaxDrops /\ status' \in Statuses
      BY <2>1, <3>2, HeldTypes, StatusTypes DEF DropBoth, TypeOK, Pcs
    <3> QED BY <1>8, <3>1, <3>2
  <2> QED BY <1>2, <1>8, <2>1, <2>2, <2>3 DEF TypeOK, Helds, Opens, Statuses, Pcs, flagVars, userVars
<1> QED BY <1>1, <1>6, <1>7, <1>8

LEMMA DrainedTypes ==
  ASSUME TypeOK, NEW s \in Attempts, Drained(s)
  PROVE  TypeOK'
<1>1. /\ pc' \in [Flows -> Pcs] /\ timer' \in 0..MaxDrops /\ status' \in Statuses
  <2>1. Drops \subseteq Flows /\ Drops \subseteq 0..MaxDrops
    BY DEF Drops, Flows
  <2>2. status' \in Statuses
    BY StatusTypes DEF Drained
  <2> QED BY <2>1, <2>2, HeldTypes DEF Drained, TypeOK, Pcs
<1>2. waitOn' \in [Flows -> 0..MaxLive]
  BY DEF Drained, TypeOK
<1> QED BY <1>1, <1>2 DEF Drained, TypeOK, Statuses, Pcs, flagVars, userVars

(* A stopTunnel call of the user, of a terminate message or of an error. *)
LEMMA StopStepTypes ==
  ASSUME TypeOK, NEW o \in Opens, NEW d \in SUBSET Attempts, StopTunnel(held, o, d),
         status' = Stopped(held, o), pc' = PcStopped, UNCHANGED <<at, waitOn, try, fatal, busy>>,
         starts' \in 0..MaxStarts, stops' \in 0..MaxStops
  PROVE  TypeOK'
<1>1. /\ userCancelled' \in BOOLEAN /\ timer' \in 0..MaxDrops /\ held' \in Helds
      /\ open' \in Opens /\ during' \subseteq Attempts /\ ready' = ready
      /\ draining' \subseteq Attempts /\ pendingStops' \subseteq draining'
      /\ PcStopped \in [Flows -> Pcs] /\ Stopped(held, o) \in Statuses
  BY HeldTypes, StopTypes
<1> QED BY <1>1 DEF TypeOK, Helds, Opens, Statuses, Pcs

LEMMA StepTypes ==
  ASSUME TypeOK, NumbersInv, RetryInv, [Next]_vars
  PROVE  TypeOK'
<1>1. CASE Start
  <2>1. /\ Begin(0, Cleared) /\ userCancelled' = FALSE /\ try' = 1 /\ fatal' = FALSE
        /\ starts < MaxStarts /\ starts' = starts + 1
        /\ UNCHANGED <<waitOn, closeVars, timer, stops, busy>> /\ 0 \in Flows
    BY <1>1 DEF Start, Flows
  <2>2. /\ at' \in [Flows -> 0..MaxLive] /\ pc' \in [Flows -> Pcs]
        /\ ready' \subseteq Attempts /\ during' \subseteq Attempts /\ status' \in Statuses
    BY <2>1, BeginTypes, StatusTypes
  <2>3. starts' \in 0..MaxStarts /\ try' \in 0..MaxTries
    BY <2>1 DEF TypeOK
  <2> QED BY <2>1, <2>2, <2>3 DEF TypeOK, Statuses, Pcs, closeVars
<1>2. CASE SleepOver
  <2>1. /\ Begin(0, [status EXCEPT !.retry = "retrying"]) /\ try' = try + 1 /\ pc[0] = "sleep"
        /\ UNCHANGED <<waitOn, fatal, closeVars, userCancelled, timer, userVars, busy>> /\ 0 \in Flows
    BY <1>2 DEF SleepOver, Flows
  <2>2. [status EXCEPT !.retry = "retrying"] \in Statuses
    BY HeldTypes, StatusTypes
  <2>3. /\ at' \in [Flows -> 0..MaxLive] /\ pc' \in [Flows -> Pcs]
        /\ ready' \subseteq Attempts /\ during' \subseteq Attempts /\ status' \in Statuses
    BY <2>1, <2>2, BeginTypes
  <2>4. try' \in 0..MaxTries
    BY <2>1 DEF RetryInv, TypeOK
  <2> QED BY <2>1, <2>3, <2>4 DEF TypeOK, Statuses, Pcs, closeVars, userVars
<1>3. CASE Stop
  <2>1. starts' \in 0..MaxStarts /\ stops' \in 0..MaxStops
    BY <1>3 DEF Stop, TypeOK
  <2> QED BY <1>3, <2>1, HeldTypes, StopStepTypes DEF Stop
<1>4. ASSUME NEW f \in Flows, Settle(f) PROVE TypeOK'
  BY <1>4, SettleTypes
<1>5. ASSUME NEW f \in Drops, TimerFires(f) PROVE TypeOK'
  <2>1. f \in Flows /\ timer' = 0 /\ UNCHANGED <<waitOn, try, fatal, closeVars, userCancelled, userVars, busy>>
    BY <1>5 DEF TimerFires, Flows
  <2>2. /\ at' \in [Flows -> 0..MaxLive] /\ pc' \in [Flows -> Pcs]
        /\ ready' \subseteq Attempts /\ during' \subseteq Attempts /\ status' \in Statuses
    <3>1. CASE Begin(f, status)
      BY <2>1, <3>1, BeginTypes, HeldTypes
    <3>2. CASE /\ pc' = [pc EXCEPT ![f] = "none"] /\ UNCHANGED <<at, flagVars>>
               /\ status' = [status EXCEPT !.connecting = FALSE, !.retry = "idle"]
      <4>1. status' \in Statuses
        BY <3>2, HeldTypes, StatusTypes
      <4> QED BY <3>2, <4>1, <2>1 DEF TypeOK, Pcs, flagVars
    <3> QED BY <1>5, <3>1, <3>2 DEF TimerFires
  <2> QED BY <2>1, <2>2 DEF TypeOK, Statuses, Pcs, closeVars, userVars
<1>6. ASSUME NEW n \in Attempts, Drop(n) PROVE TypeOK'
  BY <1>6, DropTypes
<1>7. ASSUME NEW n \in Attempts, Terminated(n) PROVE TypeOK'
  <2> DEFINE o == IF n \in Named(held) THEN open ELSE [open EXCEPT !.mux = @ \ {n}]
  <2>1. o \in Opens /\ during \cup ({n} \ ready) \in SUBSET Attempts
    <3>1. open \in Opens
      BY HeldTypes
    <3> QED BY <3>1 DEF Opens, TypeOK
  <2>2. /\ StopTunnel(held, o, during \cup ({n} \ ready)) /\ status' = Stopped(held, o)
        /\ pc' = PcStopped /\ UNCHANGED <<at, waitOn, try, fatal, starts, stops, busy>>
    BY <1>7 DEF Terminated
  <2> HIDE DEF o
  <2>3. starts' \in 0..MaxStarts /\ stops' \in 0..MaxStops
    BY <2>2 DEF TypeOK
  <2> QED BY <2>1, <2>2, <2>3, StopStepTypes
<1>8. ASSUME NEW n \in Attempts, SocksError(n) PROVE TypeOK'
  <2>1. starts' \in 0..MaxStarts /\ stops' \in 0..MaxStops
    BY <1>8 DEF SocksError, TypeOK, userVars
  <2> QED BY <1>8, <2>1, HeldTypes, StopStepTypes DEF SocksError
<1>9. ASSUME NEW n \in Attempts, Drained(n) PROVE TypeOK'
  BY <1>9, DrainedTypes
<1>10. CASE UNCHANGED vars
  BY <1>10 DEF TypeOK, vars, flowVars, closeVars, flagVars, userVars
<1> QED BY <1>1, <1>2, <1>3, <1>4, <1>5, <1>6, <1>7, <1>8, <1>9, <1>10 DEF Next

-----------------------------------------------------------------------------
(* What each step keeps. *)

LEMMA InitInv == Init => Inv
<1>1. ASSUME Init PROVE TypeOK
  <2>1. /\ 0 \in 0..MaxLive /\ 0 \in 0..MaxTries /\ 0 \in 0..MaxDrops /\ 0 \in 0..MaxStarts
        /\ 0 \in 0..MaxStops /\ 0 \in 0..MaxBusy
    BY BoundsAssumption
  <2>2. /\ pc \in [Flows -> Pcs] /\ at \in [Flows -> 0..MaxLive]
        /\ waitOn \in [Flows -> 0..MaxLive]
    BY <1>1, <2>1 DEF Init, Pcs
  <2>3. held \in Helds /\ open \in Opens /\ status \in Statuses
    BY <1>1, <2>1, StatusTypes DEF Init, Helds, Opens, Nothing
  <2> QED BY <1>1, <2>1, <2>2, <2>3 DEF Init, TypeOK, Pcs, Helds, Opens, Statuses
<1>2. ASSUME Init PROVE \A f \in Flows : pc[f] = "none"
  BY <1>2 DEF Init
<1>3. ASSUME Init PROVE NoGhostTunnel /\ 0 \in Flows
  BY <1>3 DEF Init, NoGhostTunnel, Cleared, Flows
<1> QED BY <1>1, <1>2, <1>3 DEF Inv, RetryInv, NumbersInv, MuxInv, Attempting

(* A step that starts no attempt and loses no mux of one. *)
LEMMA NoNewAttempt ==
  ASSUME NumbersInv, MuxInv, ready' = ready,
         \A f \in Flows : pc'[f] \in Attempting => pc'[f] = pc[f] /\ at'[f] = at[f],
         (open.mux \cup during) \ ready \subseteq open'.mux \cup during'
  PROVE  NumbersInv' /\ MuxInv'
<1>1. NumbersInv'
  BY DEF NumbersInv
<1>2. MuxInv'
  BY DEF NumbersInv, MuxInv, Attempting
<1> QED BY <1>1, <1>2

LEMMA StopKeeps ==
  ASSUME NumbersInv, MuxInv, NEW h, NEW o, NEW d, StopTunnel(h, o, d),
         \A f \in Flows : pc'[f] \in Attempting => pc'[f] = pc[f] /\ at'[f] = at[f],
         (open.mux \cup during) \ ready \subseteq o.mux \cup d
  PROVE  NumbersInv' /\ MuxInv'
<1>1. /\ open'.mux = o.mux \ Named(h) /\ ready' = ready
      /\ during' = d \cup ((Named(h) \cap o.mux) \ ready)
  BY DEF StopTunnel
<1>2. (open.mux \cup during) \ ready \subseteq open'.mux \cup during'
  BY <1>1
<1> QED BY <1>1, <1>2, NoNewAttempt

(* A stopTunnel that leaves the status to another call has that call's
   listener to wait for. *)
LEMMA StopNoGhost ==
  ASSUME NEW h, NEW o, NEW d, StopTunnel(h, o, d), status'.tunnel = 0 \/ Waits(h, o)
  PROVE  NoGhostTunnel'
BY DEF StopTunnel, Waits, NoGhostTunnel

LEMMA StoppedStatus ==
  ASSUME NEW h, NEW o, status' = Stopped(h, o)
  PROVE  status'.tunnel = 0 \/ Waits(h, o)
BY DEF Stopped, Cleared

LEMMA PcStoppedKeeps ==
  ASSUME TypeOK, NEW f \in Flows
  PROVE  PcStopped[f] \in {"none", pc[f]} /\ PcStopped[0] = pc[0]
BY DEF PcStopped, Flows

LEMMA BeginKeeps ==
  ASSUME Inv, NEW f \in Flows, NEW s, Begin(f, s), pc[f] # "teardown", UNCHANGED closeVars,
         s.tunnel \in {0, status.tunnel}, s \in Statuses
  PROVE  NumbersInv' /\ MuxInv' /\ NoGhostTunnel'
<1>1. PICK n \in NewAttempt :
        /\ at' = [at EXCEPT ![f] = n] /\ pc' = [pc EXCEPT ![f] = "create"]
        /\ ready' = ready \ {n} /\ during' = during \ {n} /\ status' = Connecting(s)
  BY DEF Begin
<1>2. n \in Attempts /\ \A g \in Flows : at[g] # n
  BY DEF NewAttempt, InUse
<1>3. /\ at \in [Flows -> 0..MaxLive] /\ pc \in [Flows -> Pcs]
      /\ open' = open /\ pendingStops' = pendingStops
  BY DEF Inv, TypeOK, Pcs, closeVars
<1>4. at'[f] = n /\ pc'[f] = "create"
      /\ \A g \in Flows \ {f} : at'[g] = at[g] /\ pc'[g] = pc[g]
  BY <1>1, <1>3
<1>5. NumbersInv'
  BY <1>1, <1>2, <1>4 DEF Inv, NumbersInv
<1>6. MuxInv'
  BY <1>1, <1>2, <1>3, <1>4 DEF Inv, MuxInv
<1>7. status'.tunnel = s.tunnel
  BY <1>1 DEF Connecting, Statuses
<1>8. NoGhostTunnel'
  BY <1>3, <1>4, <1>7 DEF Inv, NoGhostTunnel, Drops, Flows
<1> QED BY <1>5, <1>6, <1>8

LEMMA FailsKeeps ==
  ASSUME Inv, NEW f \in Flows, NEW h, NEW o, NEW b, Fails(f, h, o, b), pc[f] \in Attempting,
         o.mux = open.mux
  PROVE  RetryInv' /\ NumbersInv' /\ MuxInv' /\ NoGhostTunnel'
<1>0. /\ at \in [Flows -> 0..MaxLive] /\ pc \in [Flows -> Pcs] /\ 0 \in Flows
      /\ waitOn \in [Flows -> 0..MaxLive] /\ status \in Statuses
      /\ PcStopped \in [Flows -> Pcs] /\ Drops \subseteq Flows /\ 0 \notin Drops
  BY DEF Inv, TypeOK, Pcs, Flows, Statuses, PcStopped, Drops
<1>1. CASE f = 0 /\ StartFails(h, o, b)
  <2>1. StopTunnel(h, o, during) /\ at' = [at EXCEPT ![0] = 0] /\ try' = try
    BY <1>1 DEF StartFails
  <2>2. /\ status'.tunnel = 0 \/ Waits(h, o)
        /\ pc'[0] = "sleep" => try < MaxTries
        /\ \A g \in Flows \ {0} : pc'[g] = PcStopped[g]
    <3>1. CASE Waits(h, o)
      BY <1>0, <1>1, <3>1 DEF StartFails, Attempting
    <3>2. CASE RetryOrFail(b)
      <4>1. status'.tunnel = 0
        BY <3>2 DEF RetryOrFail, Connecting, Cleared
      <4> QED BY <1>0, <3>2, <4>1 DEF RetryOrFail, Attempting
    <3> QED BY <1>1, <3>1, <3>2 DEF StartFails
  <2>3. pc'[0] \notin Attempting
    <3>1. CASE Waits(h, o)
      BY <1>0, <1>1, <3>1 DEF StartFails, Attempting
    <3>2. CASE RetryOrFail(b)
      BY <1>0, <3>2 DEF RetryOrFail, Attempting
    <3> QED BY <1>1, <3>1, <3>2 DEF StartFails
  <2>4. \A g \in Flows : pc'[g] \in Attempting => pc'[g] = pc[g] /\ at'[g] = at[g]
    BY <1>0, <2>1, <2>2, <2>3, PcStoppedKeeps DEF Inv, Attempting
  <2>5. NumbersInv' /\ MuxInv'
    BY <2>1, <2>4, StopKeeps DEF Inv
  <2>6. NoGhostTunnel'
    BY <2>1, <2>2, StopNoGhost
  <2> QED BY <2>1, <2>2, <2>5, <2>6 DEF RetryInv
<1>2. CASE f # 0 /\ ReconnectFails(f, h, o)
  <2>1. /\ f \in Drops /\ open' = o /\ ready' = ready /\ during' = during /\ try' = try
        /\ pendingStops' = pendingStops /\ at' = [at EXCEPT ![f] = 0]
    BY <1>2 DEF ReconnectFails, Flows, flagVars
  <2>2. pc'[f] \in {"none", "timer"} /\ \A g \in Flows \ {f} : pc'[g] = pc[g] /\ at'[g] = at[g]
    BY <1>0, <1>2, <2>1 DEF ReconnectFails
  <2>3. status'.tunnel = status.tunnel
    BY <1>0, <1>2 DEF ReconnectFails, Connecting, Statuses
  <2>4. NumbersInv' /\ MuxInv'
    BY <2>1, <2>2, NoNewAttempt DEF Inv, Attempting
  <2>5. NoGhostTunnel'
    BY <1>0, <2>1, <2>2, <2>3 DEF Inv, NoGhostTunnel, Attempting
  <2>6. RetryInv'
    BY <1>0, <1>2, <2>1, <2>2 DEF Inv, RetryInv
  <2> QED BY <2>4, <2>5, <2>6
<1> QED BY <1>1, <1>2 DEF Fails

LEMMA SettleKeeps ==
  ASSUME Inv, NEW f \in Flows, Settle(f)
  PROVE  RetryInv' /\ NumbersInv' /\ MuxInv' /\ NoGhostTunnel'
<1>0. /\ at \in [Flows -> 0..MaxLive] /\ pc \in [Flows -> Pcs] /\ 0 \in Flows
      /\ Drops \subseteq Flows /\ open \in Opens /\ status \in Statuses /\ held \in Helds
  BY HeldTypes DEF Inv, TypeOK, Flows
<1>1. CASE TransportOk(f)
  <2>1. /\ pc[f] = "create" /\ at' = at /\ ready' = ready /\ during' = during /\ try' = try
        /\ open' = [open EXCEPT !.transport = @ \cup {at[f]}] /\ pendingStops' = pendingStops
        /\ pc' = [pc EXCEPT ![f] = "handshake"] /\ status' = Connecting(status)
    BY <1>1 DEF TransportOk, flagVars
  <2>2. open'.mux = open.mux /\ status'.tunnel = status.tunnel
    BY <1>0, <2>1 DEF Opens, Statuses, Connecting
  <2>3. pc'[f] = "handshake" /\ \A g \in Flows \ {f} : pc'[g] = pc[g]
    BY <1>0, <2>1
  <2>4. NumbersInv'
    BY <2>1, <2>3 DEF Inv, NumbersInv, Attempting
  <2>5. RetryInv' /\ MuxInv'
    BY <1>0, <2>1, <2>2, <2>3 DEF Inv, RetryInv, MuxInv
  <2>6. NoGhostTunnel'
    BY <1>0, <2>1, <2>2, <2>3 DEF Inv, NoGhostTunnel
  <2> QED BY <2>4, <2>5, <2>6
<1>2. CASE TransportFails(f)
  BY <1>2, FailsKeeps DEF TransportFails, Attempting
<1>3. CASE HandshakeOk(f)
  <2>1. /\ pc[f] = "handshake" /\ at' = at /\ ready' = ready /\ during' = during /\ try' = try
        /\ open' = [open EXCEPT !.mux = @ \cup {at[f]}] /\ pendingStops' = pendingStops
        /\ pc' = [pc EXCEPT ![f] = "portcheck"] /\ status' = Connecting(status)
    BY <1>3 DEF HandshakeOk, flagVars
  <2>2. open'.mux = open.mux \cup {at[f]} /\ status'.tunnel = status.tunnel
    BY <1>0, <2>1 DEF Opens, Statuses, Connecting
  <2>3. pc'[f] = "portcheck" /\ \A g \in Flows \ {f} : pc'[g] = pc[g]
    BY <1>0, <2>1
  <2>4. NumbersInv'
    BY <2>1, <2>3 DEF Inv, NumbersInv, Attempting
  <2>5. RetryInv' /\ MuxInv'
    BY <1>0, <2>1, <2>2, <2>3 DEF Inv, RetryInv, MuxInv
  <2>6. NoGhostTunnel'
    BY <1>0, <2>1, <2>2, <2>3 DEF Inv, NoGhostTunnel
  <2> QED BY <2>4, <2>5, <2>6
<1>4. CASE HandshakeFails(f)
  <2>1. [open EXCEPT !.transport = @ \ {at[f]}].mux = open.mux
    BY <1>0 DEF Opens
  <2> QED BY <1>4, <2>1, FailsKeeps DEF HandshakeFails, Attempting
<1>5. CASE PortBusy(f)
  BY <1>5, FailsKeeps DEF PortBusy, Attempting
<1>6. CASE Listen(f)
  <2> DEFINE n == at[f]
             h == [held EXCEPT !.socks = n]
             o == [open EXCEPT !.listener = @ \cup {n}]
  <2>1. o.mux = open.mux /\ pc[f] = "portcheck"
    BY <1>0, <1>6 DEF Opens, Listen
  <2>2. CASE n \in during
    <3>1. \E b \in BOOLEAN : Fails(f, h, o, b)
      BY <1>6, <2>2 DEF Listen
    <3> HIDE DEF n, h, o
    <3> QED BY <2>1, <3>1, FailsKeeps DEF Attempting
  <2>3. CASE n \notin during
    <3>1. /\ open' = o /\ ready' = ready \cup {n} /\ during' = during /\ try' = try
          /\ status' = [Cleared EXCEPT !.tunnel = n]
          /\ pc' = [pc EXCEPT ![f] = "none"] /\ at' = [at EXCEPT ![f] = 0]
      BY <1>6, <2>3 DEF Listen
    <3>2. pc'[f] = "none" /\ \A g \in Flows \ {f} : pc'[g] = pc[g] /\ at'[g] = at[g]
      BY <1>0, <3>1
    <3>3. n \in open'.mux /\ open'.mux = open.mux
      BY <2>1, <2>3, <3>1 DEF Inv, MuxInv
    <3>4. NumbersInv'
      BY <2>1, <3>1, <3>2 DEF Inv, NumbersInv, Attempting
    <3>5. RetryInv' /\ MuxInv'
      BY <1>0, <3>1, <3>2, <3>3 DEF Inv, RetryInv, MuxInv
    <3>6. status'.tunnel = n
      BY <3>1 DEF Cleared
    <3>7. NoGhostTunnel'
      BY <3>3, <3>6 DEF NoGhostTunnel
    <3> QED BY <3>4, <3>5, <3>7
  <2> QED BY <2>2, <2>3
<1> QED BY <1>1, <1>2, <1>3, <1>4, <1>5, <1>6 DEF Settle

(* A stopTunnel call that no attempt makes: of the user, of a terminate
   message, of an error, or of a mux that closes before its tunnel is up. *)
LEMMA StopStepKeeps ==
  ASSUME Inv, NEW o, NEW d, StopTunnel(held, o, d), pc' = PcStopped, at' = at, try' = try,
         status'.tunnel = 0 \/ Waits(held, o),
         (open.mux \cup during) \ ready \subseteq o.mux \cup d
  PROVE  RetryInv' /\ NumbersInv' /\ MuxInv' /\ NoGhostTunnel'
<1>1. \A f \in Flows : pc'[f] \in Attempting => pc'[f] = pc[f] /\ at'[f] = at[f]
  BY PcStoppedKeeps DEF Inv, Attempting
<1>2. NumbersInv' /\ MuxInv'
  BY <1>1, StopKeeps DEF Inv
<1>3. pc'[0] = pc[0]
  BY DEF PcStopped, Flows
<1>4. RetryInv'
  BY <1>3 DEF Inv, RetryInv
<1> QED BY <1>2, <1>4, StopNoGhost

LEMMA DropKeeps ==
  ASSUME Inv, NEW n \in Attempts, Drop(n)
  PROVE  RetryInv' /\ NumbersInv' /\ MuxInv' /\ NoGhostTunnel'
<1>0. /\ at \in [Flows -> 0..MaxLive] /\ pc \in [Flows -> Pcs] /\ 0 \in Flows
      /\ Drops \subseteq Flows /\ 0 \notin Drops /\ open \in Opens
  BY HeldTypes DEF Inv, TypeOK, Flows, Drops
<1>1. PICK o \in {[open EXCEPT !.mux = @ \ {n}, !.transport = @ \ {n}],
                  [open EXCEPT !.mux = @ \ {n}]} :
        \/ /\ StopTunnel(held, o, during \cup ({n} \ ready))
           /\ status' = Stopped(held, o) /\ pc' = PcStopped
        \/ /\ n \in ready /\ StopTunnel(held, o, during)
           /\ status' = Cleared /\ pc' = PcStopped
        \/ /\ n \in ready
           /\ \/ \E f \in Drops : DropThenReconnect(f, o)
              \/ \E f, g \in Drops : DropBoth(f, g, o)
           /\ open' = [mux |-> o.mux \ Named(held), transport |-> o.transport \ Named(held),
                       listener |-> o.listener \ {held.socks}]
           /\ UNCHANGED flagVars
  BY DEF Drop
<1>2. at' = at /\ try' = try
  BY DEF Drop
<1>3. o.mux = open.mux \ {n}
  BY <1>0, <1>1 DEF Opens
<1>4. CASE /\ StopTunnel(held, o, during \cup ({n} \ ready))
           /\ status' = Stopped(held, o) /\ pc' = PcStopped
  <2>1. (open.mux \cup during) \ ready \subseteq o.mux \cup (during \cup ({n} \ ready))
    BY <1>3
  <2>2. status'.tunnel = 0 \/ Waits(held, o)
    BY <1>4, StoppedStatus
  <2> QED BY <1>2, <1>4, <2>1, <2>2, StopStepKeeps
<1>5. CASE /\ n \in ready /\ StopTunnel(held, o, during)
           /\ status' = Cleared /\ pc' = PcStopped
  <2>1. (open.mux \cup during) \ ready \subseteq o.mux \cup during
    BY <1>3, <1>5
  <2>2. status'.tunnel = 0
    BY <1>5 DEF Cleared
  <2> QED BY <1>2, <1>5, <2>1, <2>2, StopStepKeeps
<1>6. ASSUME n \in ready, open'.mux = o.mux \ Named(held), ready' = ready, during' = during,
             Named(held) \cap o.mux \subseteq ready,
             \A f \in Flows : pc'[f] \in {pc[f], "teardown", "timer"}, pc'[0] = pc[0],
             status'.tunnel = 0 \/ \E f \in Drops : pc'[f] = "teardown"
      PROVE  RetryInv' /\ NumbersInv' /\ MuxInv' /\ NoGhostTunnel'
  <2>1. (open.mux \cup during) \ ready \subseteq open'.mux \cup during'
    BY <1>3, <1>6
  <2>2. NumbersInv' /\ MuxInv'
    BY <1>2, <1>6, <2>1, NoNewAttempt DEF Inv, Attempting
  <2> QED BY <1>2, <1>6, <2>2 DEF Inv, RetryInv, NoGhostTunnel
<1>7. ASSUME n \in ready, NEW f \in Drops, DropThenReconnect(f, o),
             open' = [mux |-> o.mux \ Named(held), transport |-> o.transport \ Named(held),
                      listener |-> o.listener \ {held.socks}],
             UNCHANGED flagVars
      PROVE  RetryInv' /\ NumbersInv' /\ MuxInv' /\ NoGhostTunnel'
  <2>1. /\ \A g \in Flows : pc'[g] \in {pc[g], "teardown", "timer"}
        /\ pc'[0] = pc[0] /\ Named(held) \cap o.mux = {}
    BY <1>0, <1>7 DEF DropThenReconnect
  <2>2. status'.tunnel = 0 \/ pc'[f] = "teardown"
    BY <1>0, <1>7 DEF DropThenReconnect, Reconnecting
  <2>3. Named(held) \cap o.mux \subseteq ready
    BY <2>1
  <2> QED BY <1>6, <1>7, <2>1, <2>2, <2>3 DEF flagVars
<1>8. ASSUME n \in ready, NEW f \in Drops, NEW g \in Drops, DropBoth(f, g, o),
             open' = [mux |-> o.mux \ Named(held), transport |-> o.transport \ Named(held),
                      listener |-> o.listener \ {held.socks}],
             UNCHANGED flagVars
      PROVE  RetryInv' /\ NumbersInv' /\ MuxInv' /\ NoGhostTunnel'
  <2>1. /\ \A k \in Flows : pc'[k] \in {pc[k], "teardown", "timer"}
        /\ pc'[0] = pc[0] /\ Named(held) \cap o.mux \subseteq ready
    BY <1>0, <1>8 DEF DropBoth
  <2>2. status'.tunnel = 0
    BY <1>8 DEF DropBoth, Reconnecting
  <2> QED BY <1>6, <1>8, <2>1, <2>2 DEF flagVars
<1> QED BY <1>1, <1>4, <1>5, <1>7, <1>8

LEMMA DrainedKeeps ==
  ASSUME Inv, NEW s \in Attempts, Drained(s)
  PROVE  RetryInv' /\ NumbersInv' /\ MuxInv' /\ NoGhostTunnel'
<1>0. pc \in [Flows -> Pcs] /\ 0 \in Flows /\ Drops \subseteq Flows /\ 0 \notin Drops
  BY DEF Inv, TypeOK, Pcs, Flows, Drops
<1>1. at' = at /\ try' = try /\ open' = open /\ ready' = ready /\ during' = during
  BY DEF Drained, flagVars
<1>2. status'.tunnel = 0
  BY DEF Drained, Connecting, Cleared, Reconnecting
<1>3. /\ \A f \in Flows : pc'[f] \in {pc[f], "none", "timer", "sleep"}
      /\ pc'[0] = "sleep" => try < MaxTries
  BY <1>0 DEF Drained, Inv, RetryInv
<1>4. NumbersInv' /\ MuxInv'
  BY <1>1, <1>3, NoNewAttempt DEF Inv, Attempting
<1> QED BY <1>1, <1>2, <1>3, <1>4 DEF RetryInv, NoGhostTunnel

LEMMA StepInv == Inv /\ [Next]_vars => Inv'
<1> SUFFICES ASSUME Inv, [Next]_vars PROVE Inv'
  OBVIOUS
<1>0. TypeOK'
  BY StepTypes DEF Inv
<1>f. /\ at \in [Flows -> 0..MaxLive] /\ pc \in [Flows -> Pcs] /\ 0 \in Flows
      /\ Drops \subseteq Flows /\ 0 \notin Drops /\ open \in Opens /\ status \in Statuses
  BY HeldTypes DEF Inv, TypeOK, Flows, Drops
<1>1. CASE Start
  <2>1. Begin(0, Cleared) /\ pc[0] = "none" /\ UNCHANGED closeVars
    BY <1>1 DEF Start, closeVars
  <2>2. NumbersInv' /\ MuxInv' /\ NoGhostTunnel'
    <3>1. Cleared.tunnel = 0
      BY DEF Cleared
    <3> QED BY <1>f, <2>1, <3>1, StatusTypes, BeginKeeps
  <2>3. RetryInv'
    BY <1>f, <2>1 DEF Begin, RetryInv
  <2> QED BY <1>0, <2>2, <2>3 DEF Inv
<1>2. CASE SleepOver
  <2>1. /\ Begin(0, [status EXCEPT !.retry = "retrying"]) /\ pc[0] = "sleep"
        /\ UNCHANGED closeVars
    BY <1>2 DEF SleepOver, closeVars
  <2>2. NumbersInv' /\ MuxInv' /\ NoGhostTunnel'
    <3>1. [status EXCEPT !.retry = "retrying"].tunnel = status.tunnel
      BY <1>f DEF Statuses
    <3> QED BY <1>f, <2>1, <3>1, StatusTypes, BeginKeeps
  <2>3. RetryInv'
    BY <1>f, <2>1 DEF Begin, RetryInv
  <2> QED BY <1>0, <2>2, <2>3 DEF Inv
<1>3. CASE Stop
  <2>1. /\ StopTunnel(held, open, during) /\ status' = Stopped(held, open) /\ pc' = PcStopped
        /\ at' = at /\ try' = try
    BY <1>3 DEF Stop
  <2>2. status'.tunnel = 0 \/ Waits(held, open)
    BY <2>1, StoppedStatus
  <2> QED BY <1>0, <2>1, <2>2, StopStepKeeps DEF Inv
<1>4. ASSUME NEW f \in Flows, Settle(f) PROVE Inv'
  BY <1>0, <1>4, SettleKeeps DEF Inv
<1>5. ASSUME NEW f \in Drops, TimerFires(f) PROVE Inv'
  <2>1. /\ pc[f] = "timer" /\ UNCHANGED closeVars /\ try' = try /\ f # 0 /\ f \in Flows
        /\ open' = open /\ pendingStops' = pendingStops
    BY <1>f, <1>5 DEF TimerFires, closeVars
  <2>2. CASE Begin(f, status)
    <3>1. NumbersInv' /\ MuxInv' /\ NoGhostTunnel'
      BY <1>f, <2>1, <2>2, BeginKeeps
    <3>2. RetryInv'
      BY <1>f, <2>1, <2>2 DEF Begin, Inv, RetryInv
    <3> QED BY <1>0, <3>1, <3>2 DEF Inv
  <2>3. CASE /\ pc' = [pc EXCEPT ![f] = "none"] /\ UNCHANGED <<at, flagVars>>
             /\ status' = [status EXCEPT !.connecting = FALSE, !.retry = "idle"]
    <3>1. pc'[f] = "none" /\ \A g \in Flows \ {f} : pc'[g] = pc[g]
      BY <1>f, <2>3
    <3>2. NumbersInv' /\ MuxInv'
      BY <2>1, <2>3, <3>1, NoNewAttempt DEF Inv, Attempting, flagVars
    <3>3. status'.tunnel = status.tunnel
      BY <1>f, <2>3 DEF Statuses
    <3>4. NoGhostTunnel'
      BY <1>f, <2>1, <3>1, <3>3 DEF Inv, NoGhostTunnel
    <3> QED BY <1>0, <1>f, <2>1, <3>1, <3>2, <3>4 DEF Inv, RetryInv
  <2> QED BY <1>5, <2>2, <2>3 DEF TimerFires
<1>6. ASSUME NEW n \in Attempts, Drop(n) PROVE Inv'
  BY <1>0, <1>6, DropKeeps DEF Inv
<1>7. ASSUME NEW n \in Attempts, Terminated(n) PROVE Inv'
  <2> DEFINE o == IF n \in Named(held) THEN open ELSE [open EXCEPT !.mux = @ \ {n}]
  <2>1. /\ StopTunnel(held, o, during \cup ({n} \ ready)) /\ status' = Stopped(held, o)
        /\ pc' = PcStopped /\ at' = at /\ try' = try
    BY <1>7 DEF Terminated
  <2>2. (open.mux \cup during) \ ready \subseteq o.mux \cup (during \cup ({n} \ ready))
    BY <1>f DEF Opens
  <2> HIDE DEF o
  <2>3. status'.tunnel = 0 \/ Waits(held, o)
    BY <2>1, StoppedStatus
  <2> QED BY <1>0, <2>1, <2>2, <2>3, StopStepKeeps DEF Inv
<1>8. ASSUME NEW n \in Attempts, SocksError(n) PROVE Inv'
  <2>1. /\ StopTunnel(held, open, during) /\ status' = Stopped(held, open) /\ pc' = PcStopped
        /\ at' = at /\ try' = try
    BY <1>8 DEF SocksError
  <2>2. status'.tunnel = 0 \/ Waits(held, open)
    BY <2>1, StoppedStatus
  <2> QED BY <1>0, <2>1, <2>2, StopStepKeeps DEF Inv
<1>9. ASSUME NEW n \in Attempts, Drained(n) PROVE Inv'
  BY <1>0, <1>9, DrainedKeeps DEF Inv
<1>10. CASE UNCHANGED vars
  BY <1>0, <1>10 DEF Inv, RetryInv, NumbersInv, MuxInv, NoGhostTunnel,
                    vars, flowVars, closeVars, flagVars
<1> QED BY <1>1, <1>2, <1>3, <1>4, <1>5, <1>6, <1>7, <1>8, <1>9, <1>10 DEF Next

-----------------------------------------------------------------------------
(* One connection.  Only what waits is waited for, and the timer is that of
   the flow it wakes. *)
WaitInv ==
  /\ waitOn[0] # 0 => pc[0] = "stopping"
  /\ \A f \in Drops : waitOn[f] # 0 => pc[f] = "teardown"
  /\ timer # 0 => pc[timer] = "timer"

Shut(o) == o.mux = {} /\ o.transport = {} /\ o.listener = {}
HeldBy(o, h) ==
  o.mux \subseteq {h.mux} /\ o.transport \subseteq {h.transport} /\ o.listener \subseteq {h.socks}

(* What an attempt has got so far is all that is open. *)
Got(f) ==
  /\ pc[f] \notin {"none", "handshake", "portcheck"} => Shut(open)
  /\ pc[f] \in {"handshake", "portcheck"} =>
       open.transport \subseteq {at[f]} /\ open.mux \subseteq {at[f]} /\ open.listener = {}
  /\ pc[f] = "handshake" => open.mux = {}

OneFlow == \A f, g \in Flows : pc[f] # "none" /\ pc[g] # "none" => f = g
Unstarted == Shut(open) /\ during = {} /\ \A f \in Flows : pc[f] = "none"

(* Until the second start: what is open is what the controller holds, one
   flow at most is at work, and a mux that closed during a start was closed
   by a stop. *)
OneInv ==
  /\ HeldBy(open, held) /\ OneFlow
  /\ \A f \in Flows : Got(f)
  /\ during # {} => userCancelled
  /\ starts = 0 => Unstarted

LEMMA FewerFlows ==
  ASSUME OneFlow, \A f \in Flows : pc'[f] # "none" => pc[f] # "none"
  PROVE  OneFlow'
BY DEF OneFlow

(* A step that leaves nothing open. *)
LEMMA ShutOne ==
  ASSUME Shut(open'), OneFlow', during' # {} => userCancelled',
         starts' = 0 => during' = {} /\ \A f \in Flows : pc'[f] = "none"
  PROVE  OneInv'
BY DEF OneInv, HeldBy, Got, Shut, Unstarted

(* stopTunnel closes whatever its fields hold. *)
LEMMA StopShuts ==
  ASSUME NEW h, NEW o, NEW d, StopTunnel(h, o, d), HeldBy(o, h)
  PROVE  Shut(open') /\ userCancelled'
BY DEF StopTunnel, HeldBy, Named, Shut

LEMMA StopStepOne ==
  ASSUME OneInv, NEW o, NEW d, StopTunnel(held, o, d), HeldBy(o, held), pc' = PcStopped,
         starts' = starts, starts = 0 => d = {} /\ o.mux = {}
  PROVE  OneInv'
<1>1. Shut(open') /\ userCancelled'
  BY StopShuts
<1>2. \A f \in Flows : pc'[f] # "none" => pc[f] # "none"
  BY DEF PcStopped
<1>3. OneFlow'
  BY <1>2, FewerFlows DEF OneInv
<1>4. starts = 0 => during' = {}
  BY DEF StopTunnel
<1> QED BY <1>1, <1>2, <1>3, <1>4, ShutOne DEF OneInv, Unstarted

LEMMA StopStepWait ==
  ASSUME TypeOK, WaitInv, timer' = 0, waitOn' = waitOn, pc' = PcStopped
  PROVE  WaitInv'
<1>1. 0 \in Flows /\ Drops \subseteq Flows /\ 0 \notin Drops
  BY DEF Flows, Drops
<1>2. pc'[0] = pc[0]
  BY <1>1 DEF PcStopped
<1>3. \A f \in Drops : waitOn[f] # 0 => pc'[f] = pc[f]
  BY <1>1 DEF PcStopped, WaitInv
<1> QED BY <1>2, <1>3 DEF WaitInv

LEMMA FailsWait ==
  ASSUME TypeOK, WaitInv, NEW f \in Flows, NEW h, NEW o, NEW b, Fails(f, h, o, b),
         pc[f] \in Attempting
  PROVE  WaitInv'
<1>0. /\ 0 \in Flows /\ Drops \subseteq Flows /\ 0 \notin Drops /\ timer \in {0} \cup Drops
      /\ pc \in [Flows -> Pcs] /\ waitOn \in [Flows -> 0..MaxLive] /\ PcStopped \in [Flows -> Pcs]
  BY DEF TypeOK, Flows, Drops, Pcs, PcStopped
<1>1. CASE f = 0 /\ StartFails(h, o, b)
  <2>1. timer' = 0 /\ waitOn[0] = 0
    BY <1>1 DEF StartFails, StopTunnel, WaitInv, Attempting
  <2>2. /\ \A g \in Drops : pc'[g] = PcStopped[g] /\ waitOn'[g] = waitOn[g]
        /\ waitOn'[0] # 0 => pc'[0] = "stopping"
    <3>1. CASE Waits(h, o)
      BY <1>0, <1>1, <3>1 DEF StartFails
    <3>2. CASE RetryOrFail(b) /\ waitOn' = waitOn
      BY <1>0, <2>1, <3>2 DEF RetryOrFail
    <3> QED BY <1>1, <3>1, <3>2 DEF StartFails
  <2>3. \A g \in Drops : waitOn[g] # 0 => PcStopped[g] = pc[g]
    BY <1>0 DEF PcStopped, WaitInv
  <2> QED BY <2>1, <2>2, <2>3 DEF WaitInv
<1>2. CASE f # 0 /\ ReconnectFails(f, h, o)
  <2>1. /\ f \in Drops /\ waitOn' = waitOn /\ waitOn[f] = 0 /\ timer # f
        /\ \A g \in Flows \ {f} : pc'[g] = pc[g]
    BY <1>0, <1>2 DEF ReconnectFails, Flows, WaitInv, Attempting
  <2>2. timer' = timer \/ (timer' = f /\ pc'[f] = "timer")
    BY <1>0, <1>2 DEF ReconnectFails
  <2> QED BY <1>0, <2>1, <2>2 DEF WaitInv
<1> QED BY <1>1, <1>2 DEF Fails

(* A failed attempt leaves nothing open, unless the user has stopped. *)
LEMMA FailsOne ==
  ASSUME TypeOK, WaitInv, OneInv, NEW f \in Flows, NEW h, NEW o, NEW b, Fails(f, h, o, b),
         pc[f] \in Attempting, HeldBy(o, h), Shut(o) \/ userCancelled
  PROVE  OneInv'
<1>0. /\ 0 \in Flows /\ Drops \subseteq Flows /\ 0 \notin Drops
      /\ pc \in [Flows -> Pcs] /\ PcStopped \in [Flows -> Pcs]
  BY DEF TypeOK, Flows, Drops, Pcs, PcStopped
<1>1. pc[f] # "none" /\ starts # 0
  BY DEF Attempting, OneInv, Unstarted
<1>2. CASE f = 0 /\ StartFails(h, o, b)
  <2>1. Shut(open') /\ userCancelled' /\ starts' = starts
    BY <1>2, StopShuts DEF StartFails, userVars
  <2>2. \A g \in Flows \ {0} : pc'[g] = PcStopped[g]
    <3>1. CASE Waits(h, o)
      BY <1>0, <1>2, <3>1 DEF StartFails
    <3>2. CASE RetryOrFail(b)
      BY <1>0, <3>2 DEF RetryOrFail
    <3> QED BY <1>2, <3>1, <3>2 DEF StartFails
  <2>3. \A g \in Flows : pc'[g] # "none" => pc[g] # "none"
    BY <1>1, <1>2, <2>2 DEF PcStopped
  <2> QED BY <1>1, <2>1, <2>3, FewerFlows, ShutOne DEF OneInv
<1>3. CASE f # 0 /\ ReconnectFails(f, h, o)
  <2>1. /\ open' = o /\ held' = h /\ during' = during /\ userCancelled' = userCancelled
        /\ starts' = starts /\ \A g \in Flows \ {f} : pc'[g] = pc[g]
    BY <1>0, <1>3 DEF ReconnectFails, flagVars, userVars
  <2>2. OneFlow'
    BY <1>1, <2>1, FewerFlows DEF OneInv
  <2>3. CASE Shut(o)
    BY <1>1, <2>1, <2>2, <2>3, ShutOne DEF OneInv
  <2>4. CASE userCancelled
    <3>1. \A g \in Flows : pc'[g] = "none"
      BY <1>0, <1>1, <1>3, <2>1, <2>4 DEF ReconnectFails, OneInv, OneFlow
    <3> QED BY <1>1, <2>1, <2>2, <3>1 DEF OneInv, Got
  <2> QED BY <2>3, <2>4
<1> QED BY <1>2, <1>3 DEF Fails

LEMMA BeginWait ==
  ASSUME TypeOK, WaitInv, NEW f \in Flows, NEW s, Begin(f, s),
         pc[f] \in {"none", "sleep", "timer"}, waitOn' = waitOn, timer' \in {0, timer},
         timer = f => timer' = 0
  PROVE  WaitInv'
<1>1. pc'[f] = "create" /\ \A g \in Flows \ {f} : pc'[g] = pc[g]
  BY DEF Begin, TypeOK
<1>2. timer \in {0} \cup Drops /\ 0 \in Flows /\ Drops \subseteq Flows /\ 0 \notin Drops
  BY DEF TypeOK, Flows, Drops
<1> QED BY <1>1, <1>2 DEF WaitInv

LEMMA BeginOne ==
  ASSUME TypeOK, OneInv, NEW f \in Flows, NEW s, Begin(f, s), open' = open, Shut(open),
         \A g \in Flows \ {f} : pc[g] = "none",
         starts' # 0, during # {} => userCancelled'
  PROVE  OneInv'
<1>1. /\ \A g \in Flows \ {f} : pc'[g] = "none"
      /\ during' \subseteq during
  BY DEF Begin, TypeOK
<1>2. OneFlow'
  BY <1>1 DEF OneFlow
<1> QED BY <1>1, <1>2, ShutOne

LEMMA SettleWait ==
  ASSUME TypeOK, WaitInv, NEW f \in Flows, Settle(f)
  PROVE  WaitInv'
<1>0. /\ 0 \in Flows /\ Drops \subseteq Flows /\ 0 \notin Drops /\ timer \in {0} \cup Drops
      /\ pc \in [Flows -> Pcs]
  BY DEF TypeOK, Flows, Drops, Pcs
<1>1. ASSUME NEW h, NEW o, NEW b, Fails(f, h, o, b), pc[f] \in Attempting PROVE WaitInv'
  BY <1>1, FailsWait
<1>2. ASSUME pc[f] \in Attempting, \A g \in Flows \ {f} : pc'[g] = pc[g], waitOn' = waitOn,
             timer' = timer
      PROVE  WaitInv'
  BY <1>0, <1>2 DEF WaitInv, Attempting
<1>3. CASE TransportOk(f) \/ HandshakeOk(f)
  BY <1>0, <1>2, <1>3 DEF TransportOk, HandshakeOk, Attempting
<1>4. CASE TransportFails(f)
  BY <1>1, <1>4 DEF TransportFails, Attempting
<1>5. CASE HandshakeFails(f)
  BY <1>1, <1>5 DEF HandshakeFails, Attempting
<1>6. CASE PortBusy(f)
  BY <1>1, <1>6 DEF PortBusy, Attempting
<1>7. CASE Listen(f)
  <2>1. pc[f] \in Attempting
    BY <1>7 DEF Listen, Attempting
  <2>2. CASE at[f] \in during
    BY <1>1, <1>7, <2>1, <2>2 DEF Listen
  <2>3. CASE at[f] \notin during
    BY <1>0, <1>2, <1>7, <2>1, <2>3 DEF Listen
  <2> QED BY <2>2, <2>3
<1> QED BY <1>3, <1>4, <1>5, <1>6, <1>7 DEF Settle

LEMMA SettleOne ==
  ASSUME Inv, WaitInv, OneInv, NEW f \in Flows, Settle(f), busy' = busy
  PROVE  OneInv'
<1>0. /\ pc \in [Flows -> Pcs] /\ open \in Opens /\ held \in Helds /\ at[f] \in 0..MaxLive
      /\ Got(f) /\ HeldBy(open, held) /\ OneFlow
  BY HeldTypes DEF Inv, TypeOK, OneInv
<1>n. /\ pc[f] \in Attempting
      /\ starts # 0 /\ \A g \in Flows \ {f} : pc[g] = "none"
  <2>1. pc[f] \in Attempting
    BY DEF Settle, TransportOk, TransportFails, HandshakeOk, HandshakeFails, PortBusy, Listen,
           Attempting
  <2> QED BY <1>0, <2>1 DEF OneInv, Unstarted, OneFlow, Attempting
<1>1. CASE TransportOk(f)
  <2>1. /\ held' = [held EXCEPT !.transport = at[f]]
        /\ open' = [open EXCEPT !.transport = @ \cup {at[f]}]
        /\ pc' = [pc EXCEPT ![f] = "handshake"] /\ at' = at /\ during' = during
        /\ userCancelled' = userCancelled /\ starts' = starts /\ Shut(open)
    BY <1>0, <1>1 DEF TransportOk, flagVars, userVars, Got
  <2>2. /\ open'.mux = {} /\ open'.listener = {} /\ open'.transport = {at[f]}
        /\ held'.transport = at[f]
    BY <1>0, <2>1 DEF Shut, Opens, Helds
  <2>3. HeldBy(open', held')
    BY <2>2 DEF HeldBy
  <2>4. OneFlow' /\ \A g \in Flows : Got(g)'
    BY <1>0, <1>n, <2>1, <2>2 DEF OneFlow, Got
  <2> QED BY <1>n, <2>1, <2>3, <2>4 DEF OneInv
<1>2. CASE TransportFails(f)
  <2>1. Shut(open)
    BY <1>0, <1>2 DEF TransportFails, Got
  <2> QED BY <1>0, <1>2, <1>n, <2>1, FailsOne DEF TransportFails, Inv
<1>3. CASE HandshakeOk(f)
  <2>1. /\ held' = [held EXCEPT !.mux = at[f]]
        /\ open' = [open EXCEPT !.mux = @ \cup {at[f]}]
        /\ pc' = [pc EXCEPT ![f] = "portcheck"] /\ at' = at /\ during' = during
        /\ userCancelled' = userCancelled /\ starts' = starts /\ pc[f] = "handshake"
    BY <1>3 DEF HandshakeOk, flagVars, userVars
  <2>2. /\ open'.mux = {at[f]} /\ open'.listener = {} /\ open'.transport \subseteq {at[f]}
        /\ open'.transport = open.transport
        /\ held'.mux = at[f] /\ held'.transport = held.transport
    BY <1>0, <2>1 DEF Got, Opens, Helds
  <2>3. HeldBy(open', held')
    BY <1>0, <2>2 DEF HeldBy
  <2>4. OneFlow' /\ \A g \in Flows : Got(g)'
    BY <1>0, <1>n, <2>1, <2>2 DEF OneFlow, Got
  <2> QED BY <1>n, <2>1, <2>3, <2>4 DEF OneInv
<1>4. CASE HandshakeFails(f)
  <2> DEFINE h == [held EXCEPT !.transport = 0]
             o == [open EXCEPT !.transport = @ \ {at[f]}]
  <2>1. o.mux = {} /\ o.transport = {} /\ o.listener = {}
    BY <1>0, <1>4 DEF HandshakeFails, Got, Opens
  <2>2. \E b \in BOOLEAN : Fails(f, h, o, b)
    BY <1>4 DEF HandshakeFails
  <2> HIDE DEF h, o
  <2>3. Shut(o) /\ HeldBy(o, h)
    BY <2>1 DEF Shut, HeldBy
  <2> QED BY <1>n, <2>2, <2>3, FailsOne DEF Inv
<1>5. ~PortBusy(f)
  <2>1. SUFFICES ASSUME PortBusy(f) PROVE FALSE
    OBVIOUS
  <2>2. pc[f] = "portcheck" /\ open.listener = {}
    BY <1>0, <2>1 DEF PortBusy, Got
  <2>3. busy \in Nat
    BY DEF Inv, TypeOK
  <2> QED BY <1>n, <2>1, <2>2, <2>3 DEF PortBusy
<1>6. CASE Listen(f)
  <2> DEFINE n == at[f]
             h == [held EXCEPT !.socks = n]
             o == [open EXCEPT !.listener = @ \cup {n}]
  <2>1. HeldBy(o, h)
    <3>1. /\ o.mux = open.mux /\ o.transport = open.transport /\ o.listener = {n}
          /\ h.mux = held.mux /\ h.transport = held.transport /\ h.socks = n
      BY <1>0, <1>6 DEF Listen, Opens, Helds
    <3> QED BY <1>0, <3>1 DEF HeldBy
  <2>2. CASE n \in during
    <3>1. \E b \in BOOLEAN : Fails(f, h, o, b)
      BY <1>6, <2>2 DEF Listen
    <3>2. userCancelled
      BY <2>2 DEF OneInv
    <3> HIDE DEF n, h, o
    <3> QED BY <1>n, <2>1, <3>1, <3>2, FailsOne DEF Inv
  <2>3. CASE n \notin during
    <3>1. /\ held' = h /\ open' = o /\ pc' = [pc EXCEPT ![f] = "none"]
          /\ during' = during /\ userCancelled' = userCancelled /\ starts' = starts
      BY <1>6, <2>3 DEF Listen, userVars
    <3>2. \A g \in Flows : pc'[g] = "none"
      BY <1>0, <1>n, <3>1
    <3> HIDE DEF n, h, o
    <3> QED BY <1>n, <2>1, <3>1, <3>2 DEF OneInv, OneFlow, Got
  <2> QED BY <2>2, <2>3
<1> QED BY <1>1, <1>2, <1>3, <1>4, <1>5, <1>6 DEF Settle

LEMMA DropWait ==
  ASSUME TypeOK, WaitInv, NEW n \in Attempts, Drop(n)
  PROVE  WaitInv'
<1>0. /\ 0 \in Flows /\ Drops \subseteq Flows /\ 0 \notin Drops /\ timer \in {0} \cup Drops
      /\ pc \in [Flows -> Pcs] /\ waitOn \in [Flows -> 0..MaxLive]
  BY DEF TypeOK, Flows, Drops, Pcs
<1>1. PICK o :
        \/ /\ \E d : StopTunnel(held, o, d)
           /\ pc' = PcStopped /\ waitOn' = waitOn
        \/ \E f \in Drops : DropThenReconnect(f, o)
        \/ \E f, g \in Drops : DropBoth(f, g, o)
  BY DEF Drop
<1>2. CASE /\ \E d : StopTunnel(held, o, d)
           /\ pc' = PcStopped /\ waitOn' = waitOn
  BY <1>2, StopStepWait DEF StopTunnel
<1>3. ASSUME NEW f \in Drops, DropThenReconnect(f, o) PROVE WaitInv'
  <2>1. pc[f] = "none" /\ \A g \in Flows \ {f} : pc'[g] = pc[g] /\ waitOn'[g] = waitOn[g]
    BY <1>0, <1>3 DEF DropThenReconnect
  <2>2. \/ waitOn'[f] = waitOn[f] /\ timer' = f /\ pc'[f] = "timer"
        \/ timer' = timer /\ pc'[f] = "teardown"
    BY <1>0, <1>3 DEF DropThenReconnect
  <2> QED BY <1>0, <2>1, <2>2 DEF WaitInv
<1>4. ASSUME NEW f \in Drops, NEW g \in Drops, DropBoth(f, g, o) PROVE WaitInv'
  <2>1. /\ pc[f] = "none" /\ pc[g] = "none" /\ f # g /\ timer' = f /\ pc'[f] = "timer"
        /\ waitOn'[g] = held.socks /\ waitOn'[f] = waitOn[f]
        /\ pc'[g] = IF held.socks # 0 THEN "teardown" ELSE "timer"
        /\ \A k \in Flows \ {f, g} : pc'[k] = pc[k] /\ waitOn'[k] = waitOn[k]
    BY <1>0, <1>4 DEF DropBoth
  <2> QED BY <1>0, <2>1 DEF WaitInv
<1> QED BY <1>1, <1>2, <1>3, <1>4

LEMMA DropOne ==
  ASSUME Inv, OneInv, NEW n \in Attempts, Drop(n)
  PROVE  OneInv'
<1>0. /\ 0 \in Flows /\ Drops \subseteq Flows /\ pc \in [Flows -> Pcs] /\ open \in Opens
      /\ HeldBy(open, held) /\ n \in open.mux /\ open.mux = {n} /\ held.mux = n
  BY HeldTypes DEF Inv, TypeOK, Flows, Drops, Pcs, OneInv, HeldBy, Drop
<1>1. PICK o \in {[open EXCEPT !.mux = @ \ {n}, !.transport = @ \ {n}],
                  [open EXCEPT !.mux = @ \ {n}]} :
        \/ /\ StopTunnel(held, o, during \cup ({n} \ ready)) \/ StopTunnel(held, o, during)
           /\ pc' = PcStopped
        \/ /\ n \in ready /\ ~userCancelled
           /\ \/ \E f \in Drops : DropThenReconnect(f, o)
              \/ \E f, g \in Drops : DropBoth(f, g, o)
           /\ open' = [mux |-> o.mux \ Named(held), transport |-> o.transport \ Named(held),
                       listener |-> o.listener \ {held.socks}]
           /\ UNCHANGED <<pendingStops, flagVars, userCancelled>>
  BY DEF Drop
<1>2. starts' = starts /\ starts # 0
  BY <1>0 DEF Drop, userVars, OneInv, Unstarted, Shut
<1>3. o.mux = {} /\ HeldBy(o, held)
  <2>1. o.mux = open.mux \ {n} /\ o.transport \subseteq open.transport
        /\ o.listener = open.listener
    <3>1. CASE o = [open EXCEPT !.mux = @ \ {n}, !.transport = @ \ {n}]
      BY <1>0, <3>1 DEF Opens
    <3>2. CASE o = [open EXCEPT !.mux = @ \ {n}]
      BY <1>0, <3>2 DEF Opens
    <3> QED BY <1>1, <3>1, <3>2
  <2> QED BY <1>0, <2>1 DEF HeldBy
<1>4. ASSUME NEW d, StopTunnel(held, o, d), pc' = PcStopped PROVE OneInv'
  BY <1>2, <1>3, <1>4, StopStepOne
<1>5. ASSUME n \in ready, ~userCancelled, NEW f \in Drops, DropThenReconnect(f, o),
             open' = [mux |-> o.mux \ Named(held), transport |-> o.transport \ Named(held),
                       listener |-> o.listener \ {held.socks}],
             UNCHANGED <<pendingStops, flagVars, userCancelled>>
      PROVE OneInv'
  <2>1. Shut(open')
    BY <1>3, <1>5 DEF HeldBy, Named, Shut
  <2>2. \A g \in Flows : pc[g] = "none"
    <3> SUFFICES ASSUME NEW g \in Flows, pc[g] # "none" PROVE FALSE
      OBVIOUS
    <3>1. Got(g)
      BY DEF OneInv
    <3>2. pc[g] = "portcheck" /\ n = at[g]
      BY <1>0, <3>1 DEF Got, Shut
    <3> QED BY <1>5, <3>2 DEF Inv, NumbersInv, Attempting
  <2>3. \A g \in Flows \ {f} : pc'[g] = "none"
    BY <1>0, <1>5, <2>2 DEF DropThenReconnect
  <2>4. OneFlow'
    BY <2>3 DEF OneFlow
  <2> QED BY <1>2, <1>5, <2>1, <2>4, ShutOne DEF flagVars, OneInv
<1>6. ASSUME NEW f \in Drops, NEW g \in Drops, DropBoth(f, g, o) PROVE FALSE
  BY <1>3, <1>6 DEF DropBoth
<1> QED BY <1>1, <1>4, <1>5, <1>6

LEMMA DrainedOne ==
  ASSUME TypeOK, WaitInv, NEW s \in Attempts, Drained(s)
  PROVE  WaitInv' /\ (OneInv => OneInv')
<1>0. /\ 0 \in Flows /\ Drops \subseteq Flows /\ 0 \notin Drops /\ timer \in {0} \cup Drops
      /\ pc \in [Flows -> Pcs] /\ waitOn \in [Flows -> 0..MaxLive] /\ s # 0
  BY DEF TypeOK, Flows, Drops, Pcs, Attempts
<1>1. /\ \A f \in Flows : waitOn'[f] = IF waitOn[f] = s THEN 0 ELSE waitOn[f]
      /\ held' = held /\ open' = open /\ at' = at /\ during' = during
      /\ userCancelled' = userCancelled /\ starts' = starts
  BY DEF Drained, flagVars, userVars
<1>2. ASSUME pc' = pc, timer' = timer PROVE WaitInv' /\ (OneInv => OneInv')
  <2>1. WaitInv'
    BY <1>0, <1>1, <1>2 DEF WaitInv
  <2>2. OneInv => OneInv'
    BY <1>1, <1>2 DEF OneInv, OneFlow, Got, Unstarted
  <2> QED BY <2>1, <2>2
<1>3. ASSUME NEW f \in Flows, waitOn[f] = s, \A g \in Flows \ {f} : pc'[g] = pc[g],
             timer' = timer \/ (timer' = f /\ f \in Drops /\ pc'[f] = "timer")
      PROVE  WaitInv' /\ (OneInv => OneInv')
  <2>1. pc[f] \in {"stopping", "teardown"}
    BY <1>0, <1>3 DEF WaitInv, Flows
  <2>2. WaitInv'
    BY <1>0, <1>1, <1>3, <2>1 DEF WaitInv
  <2>3. ASSUME OneInv PROVE OneInv'
    <3>1. Got(f)
      BY <2>3 DEF OneInv
    <3>2. Shut(open') /\ starts # 0
      BY <1>1, <2>1, <2>3, <3>1 DEF Got, OneInv, Unstarted
    <3>3. \A g \in Flows : pc'[g] # "none" => pc[g] # "none"
      BY <1>3, <2>1
    <3>4. OneFlow'
      BY <2>3, <3>3, FewerFlows DEF OneInv
    <3> QED BY <1>1, <2>3, <3>2, <3>4, ShutOne DEF OneInv
  <2> QED BY <2>2, <2>3
<1>4. \/ pc' = pc /\ timer' = timer
      \/ /\ waitOn[0] = s /\ timer' = timer /\ \A g \in Flows \ {0} : pc'[g] = pc[g]
      \/ \E f \in Drops :
           /\ waitOn[f] = s /\ \A g \in Flows \ {f} : pc'[g] = pc[g]
           /\ timer' = timer \/ (timer' = f /\ pc'[f] = "timer")
  BY <1>0 DEF Drained
<1> QED BY <1>0, <1>2, <1>3, <1>4

LEMMA StepWait ==
  ASSUME TypeOK, WaitInv, [Next]_vars
  PROVE  WaitInv'
<1>1. CASE Start
  BY <1>1, BeginWait DEF Start, Flows, closeVars
<1>2. CASE SleepOver
  BY <1>2, BeginWait DEF SleepOver, Flows
<1>3. ASSUME NEW o, NEW d, StopTunnel(held, o, d), pc' = PcStopped, waitOn' = waitOn
      PROVE  WaitInv'
  BY <1>3, StopStepWait DEF StopTunnel
<1>4. CASE Stop
  BY <1>3, <1>4 DEF Stop
<1>5. ASSUME NEW f \in Flows, Settle(f) PROVE WaitInv'
  BY <1>5, SettleWait
<1>6. ASSUME NEW f \in Drops, TimerFires(f) PROVE WaitInv'
  <2>1. pc[f] = "timer" /\ timer' = 0 /\ waitOn' = waitOn /\ f \in Flows /\ f # 0
    BY <1>6 DEF TimerFires, Flows, Drops
  <2>2. CASE Begin(f, status)
    BY <2>1, <2>2, BeginWait
  <2>3. CASE pc' = [pc EXCEPT ![f] = "none"]
    <3>1. \A g \in Flows \ {f} : pc'[g] = pc[g]
      BY <2>3 DEF TypeOK
    <3> QED BY <2>1, <3>1 DEF WaitInv, Flows
  <2> QED BY <1>6, <2>2, <2>3 DEF TimerFires
<1>7. ASSUME NEW n \in Attempts, Drop(n) PROVE WaitInv'
  BY <1>7, DropWait
<1>8. ASSUME NEW n \in Attempts, Terminated(n) PROVE WaitInv'
  BY <1>3, <1>8 DEF Terminated
<1>9. ASSUME NEW n \in Attempts, SocksError(n) PROVE WaitInv'
  BY <1>3, <1>9 DEF SocksError
<1>10. ASSUME NEW n \in Attempts, Drained(n) PROVE WaitInv'
  BY <1>10, DrainedOne
<1>11. CASE UNCHANGED vars
  BY <1>11 DEF vars, flowVars, WaitInv
<1> QED BY <1>1, <1>2, <1>4, <1>5, <1>6, <1>7, <1>8, <1>9, <1>10, <1>11 DEF Next

(* The counts of FirstStart never go down. *)
LEMMA CountsGrow ==
  ASSUME TypeOK, [Next]_vars
  PROVE  starts' \in {starts, starts + 1} /\ busy' \in {busy, busy + 1}
<1>1. ASSUME NEW f, NEW h, NEW o, NEW b, Fails(f, h, o, b) PROVE starts' = starts
  BY <1>1 DEF Fails, StartFails, ReconnectFails, userVars
<1>2. ASSUME NEW f \in Flows, Settle(f)
      PROVE  starts' = starts /\ busy' \in {busy, busy + 1}
  <2>1. CASE TransportOk(f) \/ HandshakeOk(f)
    BY <2>1 DEF TransportOk, HandshakeOk, userVars
  <2>2. CASE TransportFails(f) \/ HandshakeFails(f)
    BY <1>1, <2>2 DEF TransportFails, HandshakeFails
  <2>3. CASE PortBusy(f)
    BY <1>1, <2>3 DEF PortBusy
  <2>4. CASE Listen(f)
    BY <1>1, <2>4 DEF Listen, userVars
  <2> QED BY <1>2, <2>1, <2>2, <2>3, <2>4 DEF Settle
<1>3. ASSUME Start \/ SleepOver \/ Stop
      PROVE  starts' \in {starts, starts + 1} /\ busy' = busy
  BY <1>3 DEF Start, SleepOver, Stop, userVars
<1>4. ASSUME NEW n, TimerFires(n) \/ Drop(n) \/ Terminated(n) \/ SocksError(n) \/ Drained(n)
      PROVE  starts' = starts /\ busy' = busy
  BY <1>4 DEF TimerFires, Drop, Terminated, SocksError, Drained, userVars
<1>5. CASE UNCHANGED vars
  BY <1>5 DEF vars, userVars
<1> QED BY <1>2, <1>3, <1>4, <1>5 DEF Next

LEMMA StepOne ==
  ASSUME Inv, WaitInv, FirstStart => OneInv, [Next]_vars, FirstStart'
  PROVE  OneInv'
<1>0. /\ OneInv /\ TypeOK /\ starts \in Nat /\ busy' = busy /\ 0 \in Flows /\ Drops \subseteq Flows
      /\ pc \in [Flows -> Pcs] /\ open \in Opens /\ HeldBy(open, held)
      /\ starts = 0 => starts' \in {0, 1}
  <2>1. starts \in Nat /\ busy \in Nat /\ TypeOK
    BY DEF Inv, TypeOK
  <2>2. starts' \in {starts, starts + 1} /\ busy' \in {busy, busy + 1}
    BY <2>1, CountsGrow
  <2>3. FirstStart /\ busy' = busy
    BY <2>1, <2>2 DEF FirstStart
  <2> QED BY <2>1, <2>2, <2>3, HeldTypes DEF Flows, OneInv
<1>1. CASE Start
  <2>1. starts = 0 /\ starts' = 1
    BY <1>0, <1>1 DEF Start, FirstStart
  <2>2. Shut(open) /\ during = {} /\ \A f \in Flows : pc[f] = "none"
    BY <1>0, <2>1 DEF OneInv, Unstarted
  <2> QED BY <1>0, <1>1, <2>1, <2>2, BeginOne DEF Start, closeVars
<1>2. ASSUME NEW f \in Flows, NEW s, Begin(f, s), pc[f] \in {"sleep", "timer"}, open' = open,
             userCancelled' = userCancelled, starts' = starts
      PROVE  OneInv'
  <2>1. Shut(open) /\ starts # 0 /\ \A g \in Flows \ {f} : pc[g] = "none"
    BY <1>0, <1>2 DEF OneInv, Got, OneFlow, Unstarted
  <2> QED BY <1>0, <1>2, <2>1, BeginOne DEF OneInv
<1>3. CASE SleepOver
  BY <1>0, <1>2, <1>3 DEF SleepOver, closeVars, userVars
<1>4. CASE Stop
  <2>1. starts = 0 => during = {} /\ open.mux = {}
    BY <1>0 DEF OneInv, Unstarted, Shut
  <2> QED BY <1>0, <1>4, <2>1, StopStepOne DEF Stop
<1>5. ASSUME NEW f \in Flows, Settle(f) PROVE OneInv'
  BY <1>0, <1>5, SettleOne
<1>6. ASSUME NEW f \in Drops, TimerFires(f) PROVE OneInv'
  <2>1. /\ pc[f] = "timer" /\ f \in Flows /\ open' = open /\ held' = held
        /\ userCancelled' = userCancelled /\ starts' = starts
    BY <1>0, <1>6 DEF TimerFires, closeVars, userVars
  <2>2. CASE Begin(f, status)
    BY <1>2, <2>1, <2>2
  <2>3. CASE pc' = [pc EXCEPT ![f] = "none"] /\ UNCHANGED <<at, flagVars>>
    <3>1. Shut(open') /\ starts # 0
      BY <1>0, <2>1 DEF OneInv, Got, Unstarted
    <3>2. \A g \in Flows : pc'[g] # "none" => pc[g] # "none"
      BY <1>0, <2>1, <2>3
    <3>3. OneFlow'
      BY <1>0, <3>2, FewerFlows DEF OneInv
    <3> QED BY <1>0, <2>1, <2>3, <3>1, <3>3, ShutOne DEF OneInv, flagVars
  <2> QED BY <1>6, <2>2, <2>3 DEF TimerFires
<1>7. ASSUME NEW n \in Attempts, Drop(n) PROVE OneInv'
  BY <1>0, <1>7, DropOne
<1>8. ASSUME NEW n \in Attempts, Terminated(n) PROVE OneInv'
  <2> DEFINE o == IF n \in Named(held) THEN open ELSE [open EXCEPT !.mux = @ \ {n}]
  <2>1. /\ StopTunnel(held, o, during \cup ({n} \ ready)) /\ pc' = PcStopped /\ starts' = starts
        /\ n \in open.mux
    BY <1>8 DEF Terminated
  <2>2. /\ o.mux \subseteq open.mux /\ o.transport = open.transport
        /\ o.listener = open.listener
    BY <1>0 DEF Opens
  <2>3. HeldBy(o, held) /\ starts # 0
    BY <1>0, <2>1, <2>2 DEF HeldBy, OneInv, Unstarted, Shut
  <2> HIDE DEF o
  <2> QED BY <1>0, <2>1, <2>3, StopStepOne
<1>9. ASSUME NEW n \in Attempts, SocksError(n) PROVE OneInv'
  <2>1. starts = 0 => during = {} /\ open.mux = {}
    BY <1>0 DEF OneInv, Unstarted, Shut
  <2> QED BY <1>0, <1>9, <2>1, StopStepOne DEF SocksError, userVars
<1>10. ASSUME NEW n \in Attempts, Drained(n) PROVE OneInv'
  BY <1>0, <1>10, DrainedOne
<1>11. CASE UNCHANGED vars
  BY <1>0, <1>11 DEF vars, flowVars, closeVars, flagVars, userVars, OneInv, OneFlow, Got, Unstarted
<1> QED BY <1>1, <1>3, <1>4, <1>5, <1>6, <1>7, <1>8, <1>9, <1>10, <1>11 DEF Next

-----------------------------------------------------------------------------
(* Every variable of the client controller keeps its type: a number stored
   for an attempt is that of an attempt or 0, and the counter of the retry
   loop never passes maxAttempts. *)
THEOREM TypeCorrect == Spec => []TypeOK
<1>1. Inv => TypeOK
  BY DEF Inv
<1> QED BY <1>1, InitInv, StepInv, PTL DEF Spec

(* Whatever the order of starts, retries, drops, timers, stops and closing
   listeners, a status that shows a tunnel whose mux has closed is one that
   a pending stopTunnel call or reconnect loop is about to clear. *)
THEOREM NoGhost == Spec => []NoGhostTunnel
<1>1. Inv => NoGhostTunnel
  BY DEF Inv
<1> QED BY <1>1, InitInv, StepInv, PTL DEF Spec

(* Until start is pressed again or another program takes the SOCKS port, the
   client never has two transports open, whatever the order in which
   attempts fail, drops reconnect, timers fire, the user stops and listeners
   close: what is open is always what the controller holds. *)
THEOREM OneConnection == Spec => []SingleConnection
<1> DEFINE J == Inv /\ WaitInv /\ (FirstStart => OneInv)
<1>1. Init => J
  <2> SUFFICES ASSUME Init PROVE J
    OBVIOUS
  <2>1. \A f \in Flows : pc[f] = "none" /\ waitOn[f] = 0
    BY DEF Init
  <2>2. WaitInv
    BY <2>1 DEF Init, WaitInv, Flows
  <2>3. OneInv
    BY <2>1 DEF Init, OneInv, OneFlow, HeldBy, Got, Unstarted, Shut
  <2> QED BY <2>2, <2>3, InitInv
<1>2. J /\ [Next]_vars => J'
  BY StepInv, StepWait, StepOne DEF Inv
<1>3. J => SingleConnection
  <2>1. SUFFICES ASSUME open.transport \subseteq {held.transport}
                 PROVE  Cardinality(open.transport) <= 1
    BY DEF SingleConnection, OneInv, HeldBy
  <2>2. open.transport = {} \/ open.transport = {held.transport}
    BY <2>1
  <2>3. Cardinality({}) = 0 /\ Cardinality({held.transport}) = 1
    BY FS_EmptySet, FS_Singleton
  <2> QED BY <2>2, <2>3
<1> QED BY <1>1, <1>2, <1>3, PTL DEF Spec
=============================================================================
