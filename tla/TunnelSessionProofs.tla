-------------------------- MODULE TunnelSessionProofs --------------------------
(***************************************************************************)
(* Proofs about TunnelSession, for any number of calls, tries and faults:  *)
(* its types, and that the two halves of a handshake belong together.      *)
(***************************************************************************)
EXTENDS TunnelSession, TLAPS

(* The bounds are numbers. *)
LEMMA Bounds == MaxTries \in Nat /\ 1 \in 0..MaxTries /\ 0 \in 0..MaxTries /\ MaxFaults \in Nat /\ MaxToggles \in Nat
  BY BoundsAssumption

(* The client's controller keeps its types. *)
ProgramOK == program \in Programs /\ try \in 0..MaxTries /\ cancelled \in BOOLEAN

LEMMA AttemptTypes ==
  ASSUME ProgramOK, NEW isFatal \in BOOLEAN
  PROVE  /\ NextTry(isFatal) => program' \in Programs /\ try' \in 0..MaxTries
         /\ AttemptFails(isFatal) => ProgramOK'
         /\ \A k \in Calls : Loses(k, isFatal) => ProgramOK'
<1>1. NextTry(isFatal) => program' \in Programs /\ try' \in 0..MaxTries
  BY Bounds DEF NextTry, ProgramOK, Programs
<1>2. AttemptFails(isFatal) => ProgramOK'
  BY <1>1 DEF AttemptFails, ProgramOK, Programs
<1> QED BY <1>1, <1>2 DEF Loses, ProgramOK, Programs

(* The types, step by step: what each kind of step writes. *)
CallsOK ==
  /\ call \in [Calls -> CallStates] /\ client \in [Calls -> ClientStates]
  /\ server \in [Calls -> ServerStates]
  /\ room \in [Calls -> SUBSET Ends] /\ leaving \in [Calls -> SUBSET Ends]
  /\ hello \in [Calls -> SUBSET Ends]

RestOK ==
  given \in Given /\ other \in BOOLEAN /\ faults \in 0..MaxFaults /\ toggles \in 0..MaxToggles

LEMMA TypeParts == TypeOK <=> ProgramOK /\ CallsOK /\ RestOK
BY DEF TypeOK, ProgramOK, CallsOK, RestOK

LEMMA TypeStep ==
  ASSUME TypeOK, [Next]_vars
  PROVE  TypeOK'
<1>t. ProgramOK /\ CallsOK /\ RestOK
  BY TypeParts
<1>s. SUFFICES ProgramOK' /\ CallsOK' /\ RestOK'
  BY DEF TypeOK, ProgramOK, CallsOK, RestOK
<1> USE Bounds
<1>p. ASSUME UNCHANGED programVars PROVE ProgramOK'
  BY <1>t, <1>p DEF ProgramOK, programVars
<1>l. ASSUME NEW k \in Calls, Loses(k, FALSE) \/ Loses(k, TRUE) PROVE ProgramOK'
  BY <1>t, <1>l, AttemptTypes
<1> USE DEF CallsOK, RestOK, ClientStates, ServerStates, CallStates, Ends, Costs, Discard,
            Leave, Arrives, userVars, sessionVars
<1>1. CASE UserStarts
  <2>1. program' = "starting" /\ try' = 1 /\ cancelled' \in BOOLEAN
    BY <1>1 DEF UserStarts
  <2>2. ProgramOK'
    BY <2>1 DEF ProgramOK, Programs
  <2>3. toggles' \in 0..MaxToggles /\ UNCHANGED <<given, other, faults>>
    BY <1>t, <1>1 DEF UserStarts
  <2> QED BY <1>t, <1>1, <2>2, <2>3 DEF UserStarts
<1>2. CASE UserStops
  <2>1. client' \in [Calls -> ClientStates] /\ leaving' \in [Calls -> SUBSET Ends]
    BY <1>t, <1>2 DEF UserStops
  <2>2. UNCHANGED <<given, other, call, server, room, hello, faults>>
    BY <1>2 DEF UserStops
  <2>3. toggles' \in 0..MaxToggles
    BY <1>t, <1>2 DEF UserStops
  <2>4. ProgramOK'
    <3>1. NextTry(FALSE) => program' \in Programs /\ try' \in 0..MaxTries
      BY <1>t, AttemptTypes
    <3>2. cancelled' = TRUE
          /\ (NextTry(FALSE) \/ (program' = "idle" /\ UNCHANGED try) \/ UNCHANGED <<program, try>>)
      BY <1>2 DEF UserStops
    <3> QED BY <1>t, <3>1, <3>2 DEF ProgramOK, Programs
  <2> QED BY <1>t, <2>1, <2>2, <2>3, <2>4
<1>3. CASE OtherComes
  BY <1>t, <1>p, <1>3 DEF OtherComes
<1>4. CASE OtherGoes
  BY <1>t, <1>p, <1>4 DEF OtherGoes
<1>5. CASE CannotCall
  <2>1. ProgramOK'
    BY <1>t, <1>5, AttemptTypes DEF CannotCall
  <2> QED BY <1>t, <1>5, <2>1 DEF CannotCall
<1>6. ASSUME NEW k \in Calls, StartCall(k) \/ Forget(k) PROVE ProgramOK' /\ CallsOK' /\ RestOK'
  BY <1>t, <1>p, <1>6 DEF StartCall, Forget
<1>7. ASSUME NEW k \in Calls, ClientJoins(k) \/ ServerAccepts(k) \/ ServerJoins(k)
      PROVE  ProgramOK' /\ CallsOK' /\ RestOK'
  BY <1>t, <1>p, <1>7 DEF ClientJoins, ServerAccepts, ServerJoins
<1>8. ASSUME NEW k \in Calls, NEW e \in Ends, Left(k, e) PROVE ProgramOK' /\ CallsOK' /\ RestOK'
  BY <1>t, <1>p, <1>8 DEF Left
<1>9. ASSUME NEW k \in Calls, ServerShakes(k) PROVE ProgramOK' /\ CallsOK' /\ RestOK'
  BY <1>t, <1>p, <1>9 DEF ServerShakes, ServerEnds
<1>10. ASSUME NEW k \in Calls, ClientShakes(k) PROVE ProgramOK' /\ CallsOK' /\ RestOK'
  <2>a. \/ client' = [client EXCEPT ![k] = "up"] /\ leaving' = leaving /\ faults' = faults
        \/ client' = [client EXCEPT ![k] = "over"] /\ Leave(k, "client") /\ Costs(0)
    BY <1>10 DEF ClientShakes, ClientEnds
  <2>1. client' \in [Calls -> ClientStates] /\ leaving' \in [Calls -> SUBSET Ends]
    BY <1>t, <2>a
  <2>2. hello' \in [Calls -> SUBSET Ends]
    BY <1>t, <1>10 DEF ClientShakes
  <2>3. UNCHANGED <<given, other, call, server, room, toggles>> /\ faults' \in 0..MaxFaults
    <3>1. UNCHANGED <<given, other, call, server, room, toggles>>
      BY <1>10 DEF ClientShakes, ClientEnds
    <3> QED BY <1>t, <2>a, <3>1
  <2>4. ProgramOK'
    <3>1. Loses(k, TRUE) \/ (program' = "connected" /\ try' = 0 /\ UNCHANGED cancelled)
      BY <1>10 DEF ClientShakes
    <3> QED BY <1>t, <1>l, <3>1 DEF ProgramOK, Programs
  <2> QED BY <1>t, <2>1, <2>2, <2>3, <2>4
<1>11. ASSUME NEW k \in Calls, ClientTimesOut(k) \/ ClientGivesUp(k)
       PROVE  ProgramOK' /\ CallsOK' /\ RestOK'
  <2>1. Loses(k, FALSE) /\ UNCHANGED hello
    BY <1>11 DEF ClientTimesOut, ClientGivesUp
  <2>2. ClientEnds(k, 0) \/ ClientEnds(k, 1)
    BY <1>11 DEF ClientTimesOut, ClientGivesUp, Early
  <2>3. ProgramOK'
    BY <1>l, <2>1
  <2>4. UNCHANGED hello
    BY <2>1
  <2>5. /\ client' = [client EXCEPT ![k] = "over"] /\ Leave(k, "client")
        /\ Costs(0) \/ Costs(1)
        /\ UNCHANGED <<given, other, call, server, room, toggles>>
    BY <2>2 DEF ClientEnds
  <2> QED BY <1>t, <2>3, <2>4, <2>5
<1>12. ASSUME NEW k \in Calls, ClientTerminated(k) PROVE ProgramOK' /\ CallsOK' /\ RestOK'
  BY <1>t, <1>12 DEF ClientTerminated, ClientEnds, ProgramOK, Programs
<1>13. ASSUME NEW k \in Calls,
              ServerTimesOut(k) \/ ServerGivesUp(k) \/ ServerIdles(k) \/ ServerCutsOff(k)
       PROVE  ProgramOK' /\ CallsOK' /\ RestOK'
  BY <1>t, <1>p, <1>13
  DEF ServerTimesOut, ServerGivesUp, ServerIdles, ServerCutsOff, ServerEnds, Early
<1>14. ASSUME NEW k \in Calls, ClientCannotJoin(k) \/ ClientBreaks(k)
       PROVE  ProgramOK' /\ CallsOK' /\ RestOK'
  <2>1. Loses(k, FALSE)
    BY <1>14 DEF ClientCannotJoin, ClientBreaks
  <2>2. ProgramOK'
    BY <1>l, <2>1
  <2>3. /\ client' = [client EXCEPT ![k] = "over"]
        /\ Discard(k, 1) \/ (UNCHANGED call /\ Costs(1))
        /\ room' = room \/ room' = [room EXCEPT ![k] = @ \ {"client"}]
        /\ UNCHANGED <<given, other, server, leaving, hello, toggles>>
    BY <1>14 DEF ClientCannotJoin, ClientBreaks
  <2>4. client' \in [Calls -> ClientStates] /\ room' \in [Calls -> SUBSET Ends]
    BY <1>t, <2>3
  <2>5. call' \in [Calls -> CallStates] /\ faults' \in 0..MaxFaults
    BY <1>t, <2>3
  <2> QED BY <1>t, <2>2, <2>3, <2>4, <2>5
<1>15. ASSUME NEW k \in Calls, ServerMisses(k) \/ ServerCannotJoin(k) \/ ServerBreaks(k)
       PROVE  ProgramOK' /\ CallsOK' /\ RestOK'
  BY <1>t, <1>p, <1>15 DEF ServerMisses, ServerCannotJoin, ServerBreaks
<1>16. ASSUME NEW k \in Calls, NEW e \in Ends, HelloLost(k, e)
       PROVE  ProgramOK' /\ CallsOK' /\ RestOK'
  BY <1>t, <1>p, <1>16 DEF HelloLost
<1>17. CASE UNCHANGED vars
  BY <1>t, <1>p, <1>17 DEF vars
<1> QED
  BY <1>1, <1>2, <1>3, <1>4, <1>5, <1>6, <1>7, <1>8, <1>9, <1>10, <1>11, <1>12, <1>13, <1>14,
     <1>15, <1>16, <1>17
  DEF Next, Goes, Expires, Fails

(* The state of a session keeps its types, whatever either end does. *)
THEOREM TypeCorrect == Spec => []TypeOK
<1>1. Init => TypeOK
  <2> SUFFICES ASSUME Init PROVE TypeOK
    OBVIOUS
  <2>1. CallsOK
    BY DEF Init, CallsOK, ClientStates, ServerStates, CallStates
  <2>2. ProgramOK
    BY Bounds DEF Init, ProgramOK, Programs
  <2>3. RestOK
    <3>1. given \in Given /\ other \in BOOLEAN
      BY DEF Init
    <3>2. faults \in 0..MaxFaults /\ toggles \in 0..MaxToggles
      BY Bounds DEF Init
    <3> QED BY <3>1, <3>2 DEF RestOK
  <2> QED BY <2>1, <2>2, <2>3, TypeParts
<1> QED
  BY <1>1, TypeStep, PTL DEF Spec

-----------------------------------------------------------------------------
(* The two halves of a handshake. *)

ServerDone == {"refused", "cut", "over"}

(* Why they belong together, call by call.  An end that shakes or is up is in
   the room and on nobody's way out of it; a call that neither end has left is
   open; the client's hello is sent once, before it can be up, and is read by
   the server before its own can reach the client; and a server's hello is lost
   only where one of the two is gone. *)
Halves(k) ==
  /\ call[k] = "none" <=> client[k] = "none"
  /\ call[k] = "none" => server[k] = "none" /\ hello[k] = {} /\ leaving[k] = {}
  /\ "client" \in leaving[k] => client[k] = "over"
  /\ "server" \in leaving[k] => server[k] \in ServerDone
  /\ client[k] \in {"shaking", "up"} => "client" \in room[k]
  /\ server[k] \in {"shaking", "up"} => "server" \in room[k]
  /\ client[k] # "over" /\ server[k] \notin ServerDone => call[k] \in {"none", "open"}
  /\ client[k] \in {"joining", "up"} => hello[k] = {}
  /\ "client" \in hello[k] => hello[k] = {"client"} /\ server[k] \in {"up"} \cup ServerDone
  /\ server[k] = "up" =>
       client[k] \in {"up", "over"} \/ (client[k] = "shaking" /\ "client" \in hello[k])
  /\ client[k] = "up" => server[k] \in {"up"} \cup ServerDone

HalvesInv == \A k \in Calls : Halves(k)

(* What a step says of call k. *)
State(k) == <<call[k], client[k], server[k], room[k], leaving[k], hello[k]>>

LEMMA HalvesAlone ==
  ASSUME NEW k, Halves(k), State(k)' = State(k)
  PROVE  Halves(k)'
BY DEF Halves, State

(* The ends of call k, one kind of step after another. *)
LEMMA CallMade ==
  ASSUME TypeOK, NEW k \in Calls, Halves(k), StartCall(k) \/ Forget(k)
  PROVE  Halves(k)' /\ \A j \in Calls \ {k} : State(j)' = State(j)
BY DEF TypeOK, Halves, State, StartCall, Forget, ServerDone

LEMMA RoomJoined ==
  ASSUME TypeOK, NEW k \in Calls, Halves(k),
         ClientJoins(k) \/ ServerAccepts(k) \/ ServerMisses(k) \/ ServerJoins(k)
  PROVE  Halves(k)' /\ \A j \in Calls \ {k} : State(j)' = State(j)
BY DEF TypeOK, Halves, State, ClientJoins, ServerAccepts, ServerMisses, ServerJoins, ServerDone

LEMMA Discarded ==
  ASSUME TypeOK, NEW k \in Calls, NEW n, Discard(k, n)
  PROVE  /\ \A j \in Calls \ {k} : call'[j] = call[j]
         /\ call'[k] = "none" => call[k] = "none"
BY DEF TypeOK, Discard

LEMMA RoomLeft ==
  ASSUME TypeOK, NEW k \in Calls, NEW e \in Ends, Halves(k), Left(k, e)
  PROVE  Halves(k)' /\ \A j \in Calls \ {k} : State(j)' = State(j)
<1>1. /\ \A j \in Calls \ {k} : call'[j] = call[j]
      /\ call'[k] = "none" => call[k] = "none"
      /\ e # "client" => call' = call
  BY Discarded DEF Left
<1>2. /\ room' = [room EXCEPT ![k] = @ \ {e}] /\ leaving' = [leaving EXCEPT ![k] = @ \ {e}]
      /\ UNCHANGED <<client, server, hello>> /\ e \in leaving[k]
  BY DEF Left
<1>3. \A j \in Calls \ {k} : State(j)' = State(j)
  BY <1>1, <1>2 DEF TypeOK, State
<1>4. e = "client" => client[k] = "over"
  BY <1>2 DEF Halves
<1>5. e = "server" => server[k] \in ServerDone
  BY <1>2 DEF Halves
<1>6. Halves(k)'
  BY <1>1, <1>2, <1>4, <1>5 DEF TypeOK, Halves, Ends, ServerDone
<1> QED BY <1>3, <1>6

(* An end goes: what is left in common of all the ways. *)
ClientGoes(k) ==
  /\ client[k] # "none" /\ client' = [client EXCEPT ![k] = "over"]
  /\ server' = server /\ \A j \in Calls \ {k} : State(j)' = State(j)
  /\ call'[k] = "none" => call[k] = "none"
  /\ leaving'[k] \subseteq leaving[k] \cup {"client"}
  /\ room' = room \/ room' = [room EXCEPT ![k] = @ \ {"client"}]
  /\ hello'[k] \subseteq hello[k]

ServerGoes(k) ==
  /\ server[k] # "none" /\ \E done \in ServerDone : server' = [server EXCEPT ![k] = done]
  /\ client' = client /\ \A j \in Calls \ {k} : State(j)' = State(j)
  /\ call'[k] = "none" => call[k] = "none"
  /\ leaving'[k] \subseteq leaving[k] \cup {"server"}
  /\ room' = room \/ room' = [room EXCEPT ![k] = @ \ {"server"}]
  /\ hello'[k] \subseteq hello[k] \/ (hello'[k] = {"client"} /\ client[k] \notin {"joining", "up"})

LEMMA ClientGoesHalves ==
  ASSUME TypeOK, NEW k \in Calls, Halves(k), ClientGoes(k)
  PROVE  Halves(k)'
<1>1. client'[k] = "over" /\ server'[k] = server[k] /\ call'[k] # "none"
  BY DEF TypeOK, ClientGoes, Halves
<1>2. "server" \in room[k] => "server" \in room'[k]
  BY DEF TypeOK, ClientGoes
<1>3. "server" \in leaving'[k] => "server" \in leaving[k]
  BY DEF ClientGoes
<1> QED BY <1>1, <1>2, <1>3 DEF ClientGoes, Halves, ServerDone

LEMMA ServerGoesHalves ==
  ASSUME TypeOK, NEW k \in Calls, Halves(k), ServerGoes(k)
  PROVE  Halves(k)'
<1>1. client'[k] = client[k] /\ server'[k] \in ServerDone /\ call'[k] # "none" /\ client[k] # "none"
  <2>1. client' = client /\ server'[k] \in ServerDone
    BY DEF TypeOK, ServerGoes
  <2>2. call[k] # "none"
    BY DEF ServerGoes, Halves
  <2> QED BY <2>1, <2>2 DEF ServerGoes, Halves
<1>2. "client" \in room[k] => "client" \in room'[k]
  BY DEF TypeOK, ServerGoes
<1>3. "client" \in leaving'[k] => "client" \in leaving[k]
  BY DEF ServerGoes
<1> QED BY <1>1, <1>2, <1>3 DEF ServerGoes, Halves, ServerDone

(* Each of the ways. *)
LEMMA ClientWays ==
  ASSUME TypeOK, NEW k \in Calls, Halves(k),
         \/ ClientCannotJoin(k) \/ ClientBreaks(k) \/ ClientTimesOut(k)
         \/ ClientGivesUp(k) \/ ClientTerminated(k)
  PROVE  ClientGoes(k)
<1>1. CASE ClientCannotJoin(k)
  <2>1. Discard(k, 1)
    BY <1>1 DEF ClientCannotJoin
  <2> QED BY <1>1, <2>1, Discarded DEF ClientCannotJoin, ClientGoes, State, TypeOK
<1>2. CASE ClientBreaks(k)
  BY <1>2 DEF ClientBreaks, ClientGoes, State, TypeOK
<1>3. CASE ClientTimesOut(k) \/ ClientGivesUp(k) \/ ClientTerminated(k)
  <2>1. /\ client[k] # "none" /\ client' = [client EXCEPT ![k] = "over"] /\ Leave(k, "client")
        /\ UNCHANGED <<call, server, room, hello>>
    BY <1>3 DEF ClientTimesOut, ClientGivesUp, ClientTerminated, ClientEnds
  <2> QED BY <2>1 DEF Leave, ClientGoes, State, TypeOK
<1> QED BY <1>1, <1>2, <1>3

LEMMA ServerWays ==
  ASSUME TypeOK, NEW k \in Calls, Halves(k),
         \/ ServerCannotJoin(k) \/ ServerBreaks(k) \/ ServerTimesOut(k) \/ ServerGivesUp(k)
         \/ ServerIdles(k) \/ ServerCutsOff(k)
  PROVE  ServerGoes(k)
<1>1. CASE ServerCannotJoin(k) \/ ServerBreaks(k)
  <2>1. /\ server[k] # "none" /\ server' = [server EXCEPT ![k] = "over"] /\ Discard(k, 1)
        /\ room' = room \/ room' = [room EXCEPT ![k] = @ \ {"server"}]
        /\ UNCHANGED <<client, leaving, hello>>
    BY <1>1 DEF ServerCannotJoin, ServerBreaks
  <2> QED BY <2>1, Discarded DEF ServerGoes, State, TypeOK, ServerDone
<1>2. CASE ServerTimesOut(k) \/ ServerGivesUp(k) \/ ServerIdles(k) \/ ServerCutsOff(k)
  <2>1. /\ server[k] # "none" /\ hello' = hello
        /\ \E done \in ServerDone, n \in {0, 1} : ServerEnds(k, done, n)
    BY <1>2 DEF ServerTimesOut, ServerGivesUp, ServerIdles, ServerCutsOff, Early, ServerDone
  <2>2. PICK done \in ServerDone, n \in {0, 1} : ServerEnds(k, done, n)
    BY <2>1
  <2>3. /\ server' = [server EXCEPT ![k] = done] /\ Leave(k, "server") /\ Discard(k, n)
        /\ UNCHANGED <<client, room>>
    BY <2>2 DEF ServerEnds
  <2> QED BY <2>1, <2>3, Discarded DEF Leave, ServerGoes, State, TypeOK
<1> QED BY <1>1, <1>2

(* The server answers a hello, and the client its answer. *)
LEMMA ServerAnswers ==
  ASSUME TypeOK, NEW k \in Calls, Halves(k), ServerShakes(k)
  PROVE  Halves(k)' /\ \A j \in Calls \ {k} : State(j)' = State(j)
<1>1. /\ server[k] = "shaking" /\ "server" \in hello[k] /\ hello' = [hello EXCEPT ![k] = {"client"}]
  BY DEF ServerShakes
<1>2. client[k] \in {"shaking", "over"} /\ call[k] # "none"
  BY <1>1 DEF TypeOK, Halves, ClientStates
<1>3. CASE /\ server' = [server EXCEPT ![k] = "up"]
           /\ UNCHANGED <<call, client, room, leaving>>
  BY <1>1, <1>2, <1>3 DEF TypeOK, Halves, State, ServerDone
<1>4. CASE ServerEnds(k, "refused", 0)
  <2>1. /\ server' = [server EXCEPT ![k] = "refused"] /\ Leave(k, "server") /\ Discard(k, 0)
        /\ UNCHANGED <<client, room>>
    BY <1>4 DEF ServerEnds
  <2>2. ServerGoes(k)
    BY <1>1, <1>2, <2>1, Discarded DEF Leave, ServerGoes, State, TypeOK, ServerDone
  <2> QED BY <2>2, ServerGoesHalves DEF ServerGoes
<1> QED BY <1>3, <1>4 DEF ServerShakes

LEMMA ClientHears ==
  ASSUME TypeOK, NEW k \in Calls, Halves(k), ClientShakes(k)
  PROVE  Halves(k)' /\ \A j \in Calls \ {k} : State(j)' = State(j)
<1>1. /\ client[k] = "shaking" /\ "client" \in hello[k]
      /\ hello' = [hello EXCEPT ![k] = @ \ {"client"}]
  BY DEF ClientShakes, Arrives
<1>2. hello'[k] = {} /\ server[k] \in {"up"} \cup ServerDone
  BY <1>1 DEF TypeOK, Halves
<1>3. \/ /\ client' = [client EXCEPT ![k] = "up"] /\ UNCHANGED <<call, server, room, leaving>>
      \/ ClientEnds(k, 0)
  BY DEF ClientShakes
<1>4. CASE /\ client' = [client EXCEPT ![k] = "up"] /\ UNCHANGED <<call, server, room, leaving>>
  BY <1>1, <1>2, <1>4 DEF TypeOK, Halves, State, ServerDone
<1>5. CASE ClientEnds(k, 0)
  <2>1. ClientGoes(k)
    BY <1>1, <1>5 DEF ClientEnds, Leave, ClientGoes, State, TypeOK
  <2> QED BY <2>1, ClientGoesHalves DEF ClientGoes
<1> QED BY <1>3, <1>4, <1>5

LEMMA HelloGone ==
  ASSUME TypeOK, NEW k \in Calls, NEW e \in Ends, Halves(k), HelloLost(k, e)
  PROVE  Halves(k)' /\ \A j \in Calls \ {k} : State(j)' = State(j)
<1>1. /\ UNCHANGED <<call, client, server, room, leaving>>
      /\ hello' = [hello EXCEPT ![k] = @ \ {e}]
  BY DEF HelloLost, Arrives
<1>2. hello'[k] = hello[k] \ {e} /\ \A j \in Calls \ {k} : hello'[j] = hello[j]
  BY <1>1 DEF TypeOK
<1>3. e \notin room[k] \/ client[k] = "over" \/ server[k] \in ServerDone
  BY DEF HelloLost, Gone, Ends, ServerDone
<1>4. server[k] = "up" /\ client[k] = "shaking" => e # "client"
  BY <1>3 DEF Halves, ServerDone
<1>5. Halves(k)'
  BY <1>1, <1>2, <1>4 DEF Halves, Ends
<1> QED BY <1>1, <1>2, <1>5 DEF State

(* The user stops what is under way. *)
LEMMA UserGoes ==
  ASSUME TypeOK, NEW k \in Calls, Halves(k), UserStops
  PROVE  Halves(k)'
<1>1. UNCHANGED <<call, server, room, hello>>
  BY DEF UserStops
<1>2. CASE client[k] \in {"shaking", "up"}
  <2>1. client'[k] = "over" /\ leaving'[k] = leaving[k] \cup {"client"}
    BY <1>2 DEF UserStops
  <2> QED BY <1>1, <1>2, <2>1 DEF Halves, ServerDone
<1>3. CASE client[k] \notin {"shaking", "up"}
  <2>1. client'[k] = client[k] /\ leaving'[k] = leaving[k]
    BY <1>3 DEF UserStops
  <2> QED BY <1>1, <2>1, HalvesAlone DEF State
<1> QED BY <1>2, <1>3

LEMMA HalvesStep ==
  ASSUME TypeOK, HalvesInv, [Next]_vars
  PROVE  HalvesInv'
<1>1. ASSUME NEW k \in Calls, Halves(k)', \A j \in Calls \ {k} : State(j)' = State(j)
      PROVE  HalvesInv'
  BY <1>1, HalvesAlone DEF HalvesInv
<1>2. ASSUME UNCHANGED sessionVars PROVE HalvesInv'
  BY <1>2, HalvesAlone DEF HalvesInv, State, sessionVars
<1>3. CASE UserStarts \/ OtherComes \/ OtherGoes \/ CannotCall \/ UNCHANGED vars
  BY <1>2, <1>3 DEF UserStarts, OtherComes, OtherGoes, CannotCall, vars
<1>4. CASE UserStops
  BY <1>4, UserGoes DEF HalvesInv
<1>5. ASSUME NEW k \in Calls, StartCall(k) \/ Forget(k) PROVE HalvesInv'
  BY <1>1, <1>5, CallMade DEF HalvesInv
<1>6. ASSUME NEW k \in Calls,
             ClientJoins(k) \/ ServerAccepts(k) \/ ServerMisses(k) \/ ServerJoins(k)
      PROVE  HalvesInv'
  BY <1>1, <1>6, RoomJoined DEF HalvesInv
<1>7. ASSUME NEW k \in Calls, NEW e \in Ends, Left(k, e) \/ HelloLost(k, e) PROVE HalvesInv'
  BY <1>1, <1>7, RoomLeft, HelloGone DEF HalvesInv
<1>8. ASSUME NEW k \in Calls, ServerShakes(k) \/ ClientShakes(k) PROVE HalvesInv'
  BY <1>1, <1>8, ServerAnswers, ClientHears DEF HalvesInv
<1>9. ASSUME NEW k \in Calls,
             \/ ClientCannotJoin(k) \/ ClientBreaks(k) \/ ClientTimesOut(k)
             \/ ClientGivesUp(k) \/ ClientTerminated(k)
      PROVE  HalvesInv'
  <2>1. ClientGoes(k)
    BY <1>9, ClientWays DEF HalvesInv
  <2> QED BY <1>1, <2>1, ClientGoesHalves DEF HalvesInv, ClientGoes
<1>10. ASSUME NEW k \in Calls,
              \/ ServerCannotJoin(k) \/ ServerBreaks(k) \/ ServerTimesOut(k) \/ ServerGivesUp(k)
              \/ ServerIdles(k) \/ ServerCutsOff(k)
       PROVE  HalvesInv'
  <2>1. ServerGoes(k)
    BY <1>10, ServerWays DEF HalvesInv
  <2> QED BY <1>1, <2>1, ServerGoesHalves DEF HalvesInv, ServerGoes
<1>11. "client" \in Ends /\ "server" \in Ends
  BY DEF Ends
<1> QED
  BY <1>3, <1>4, <1>5, <1>6, <1>7, <1>8, <1>9, <1>10, <1>11 DEF Next, Goes, Expires, Fails

(* However timers, breaks, refusals, stops and hellos under way interleave, an
   end that is up has the other, or the other has gone, or will still hear the
   answer that brings it up; and nobody has hung up on two ends that are up
   (serverHandshakeV2, clientHandshakeV2, runServerTunnelV2, spawnMeetTunnel). *)
THEOREM HalvesBelong == Spec => []HalvesMatch
<1>1. Init => HalvesInv
  BY DEF Init, HalvesInv, Halves
<1>2. TypeOK /\ HalvesInv => HalvesMatch
  <2> SUFFICES ASSUME TypeOK, HalvesInv, NEW k \in Calls
               PROVE  /\ server[k] = "up" =>
                           client[k] \in {"up", "over"}
                             \/ (client[k] = "shaking" /\ "client" \in hello[k])
                      /\ client[k] = "up" => server[k] \in {"up", "refused", "cut", "over"}
                      /\ Connected(k) => call[k] = "open" /\ room[k] = Ends
    BY DEF HalvesMatch
  <2>1. Halves(k)
    BY DEF HalvesInv
  <2>2. Connected(k) => room[k] = Ends
    BY <2>1 DEF Halves, Connected, TypeOK, Ends
  <2>3. Connected(k) => call[k] = "open"
    BY <2>1 DEF Halves, Connected, ServerDone
  <2> QED BY <2>1, <2>2, <2>3 DEF Halves, ServerDone
<1> QED
  BY <1>1, <1>2, HalvesStep, TypeCorrect, PTL DEF Spec
=============================================================================
