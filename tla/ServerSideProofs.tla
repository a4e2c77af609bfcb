-------------------------- MODULE ServerSideProofs --------------------------
(* Theorems about ServerSide.  However often the server is started and      *)
(* stopped, overlapping stops included, a dispatcher at work serves each    *)
(* call once, and no offer is left alone but by one restart that overtakes  *)
(* another.  While stops do not overlap, a config has one connection to the *)
(* server, and none once it is deleted.                                     *)
EXTENDS ServerSide, TLAPS

USE LegacyAssumption, BoundsAssumption

(* The initial state has the right types. *)
LEMMA InitTypes == Init => TypeOK
<1> SUFFICES ASSUME Init PROVE TypeOK
  OBVIOUS
<1>1. 0 \in Fields /\ 0 \in Nat
  BY DEF Fields
<1> QED BY <1>1 DEF Init, TypeOK

(* What the parts of an action that are shared do to the types. *)
LEMMA SpawnTypes ==
  ASSUME TypeOK, NEW g \in Gens, NEW c \in Calls, Spawn(g, c)
  PROVE  /\ active' \in [Gens -> SUBSET Calls] /\ offers' \in [Gens -> SUBSET Calls]
         /\ timers' \in [Gens -> SUBSET Calls] /\ recent' = recent
         /\ tunnels' \subseteq Tunnels
BY DEF TypeOK, Spawn, ClearPending, Without, NewTunnel, Tunnels, Ids, Stages

LEMMA RestartTypes ==
  ASSUME TypeOK, NEW g \in Gens, NEW c \in Calls, RestartWatcher(g, c)
  PROVE  fallbacks' \in [Gens -> SUBSET Fallbacks]
<1>1. [call |-> c, on |-> watcher] \in Fallbacks
  BY DEF TypeOK, Fallbacks
<1> QED BY <1>1 DEF TypeOK, RestartWatcher

LEMMA EndTypes ==
  ASSUME TypeOK, NEW gone \in SUBSET tunnels, End(gone)
  PROVE  /\ active' \in [Gens -> SUBSET Calls] /\ offers' \in [Gens -> SUBSET Calls]
         /\ timers' \in [Gens -> SUBSET Calls] /\ recent' \in [Gens -> SUBSET Calls]
         /\ fallbacks' = fallbacks /\ tunnels' \subseteq tunnels
<1> DEFINE ended(g) == {t.call : t \in {u \in gone : u.gen = g}}
<1>1. \A g \in Gens : ended(g) \subseteq Calls
  BY DEF TypeOK, Tunnels
<1> HIDE DEF ended
<1>2. /\ active' = [g \in Gens |-> active[g] \ ended(g)]
      /\ offers' = [g \in Gens |-> offers[g] \ ended(g)]
      /\ timers' = [g \in Gens |-> timers[g] \ ended(g)]
      /\ recent' = [g \in Gens |-> recent[g] \cup ended(g)]
  BY DEF End, Finish, ended
<1> QED BY <1>1, <1>2 DEF TypeOK, End

LEMMA StopTypes ==
  ASSUME TypeOK, NEW k \in Stoppers, BeginStop(k)
  PROVE  TypeOK'
BY DEF TypeOK, BeginStop, StopDispatcher, Fields, Gens, Stoppers

(* Every step keeps the types. *)
LEMMA StepTypes == TypeOK /\ [Next]_vars => TypeOK'
<1> SUFFICES ASSUME TypeOK, [Next]_vars PROVE TypeOK'
  OBVIOUS
<1> USE DEF TypeOK
<1>1. CASE StartServer
  BY <1>1 DEF StartServer, Gens, Fields, callVars, offerVars
<1>2. CASE StartSucceeds
  BY <1>2 DEF StartSucceeds, Fields, callVars, offerVars
<1>3. CASE StartFails
  BY <1>3, StopTypes DEF StartFails, FailedStart, Stoppers
<1>4. ASSUME NEW k \in Stoppers, StopServer(k) PROVE TypeOK'
  BY <1>4, StopTypes DEF StopServer
<1>5. ASSUME NEW k \in Stoppers, WatcherClosed(k) PROVE TypeOK'
  BY <1>5 DEF WatcherClosed, Fields, callVars, offerVars
<1>6. ASSUME NEW k \in Stoppers, StopEnds(k) PROVE TypeOK'
  <2>1. stops' \in [Stoppers -> {"unused", "watcher", "dashboard", "done"}]
    <3> DEFINE where == IF k = FailedStart THEN "unused" ELSE "done"
    <3>1. stops' = [stops EXCEPT ![k] = where]
      BY <1>6 DEF StopEnds
    <3>2. where \in {"unused", "watcher", "dashboard", "done"}
      OBVIOUS
    <3> HIDE DEF where
    <3> QED BY <3>1, <3>2
  <2>3. starting' \in Fields /\ manager' \in Fields /\ running' \in BOOLEAN
    <3>1. 0 \in Fields
      BY DEF Fields
    <3>2. running' = FALSE /\ manager' = 0 /\ starting' \in {0, starting}
      BY <1>6 DEF StopEnds
    <3> QED BY <3>1, <3>2
  <2>2. UNCHANGED <<dispatcher, watcher, watching, started, profiles, listening, source,
                    active, offers, timers, fallbacks, recent, forgets, tunnels>>
    BY <1>6 DEF StopEnds, callVars, offerVars
  <2> QED BY <2>1, <2>2, <2>3
<1>7. ASSUME NEW g \in Gens, NEW c \in Calls, Offer(g, c) PROVE TypeOK'
  BY <1>7, SpawnTypes DEF Offer, QueueOffer, controllerVars, callVars, offerVars
<1>8. ASSUME NEW g \in Gens, NEW c \in Calls, Push(g, c) PROVE TypeOK'
  BY <1>8, SpawnTypes DEF Push, controllerVars
<1>9. ASSUME NEW g \in Gens, NEW c \in Calls, FallbackTimer(g, c) PROVE TypeOK'
  <2>1. fallbacks' \in [Gens -> SUBSET Fallbacks]
    <3>1. CASE UNCHANGED fallbacks
      BY <3>1
    <3>2. CASE RestartWatcher(g, c)
      BY <3>2, RestartTypes
    <3> QED BY <1>9, <3>1, <3>2 DEF FallbackTimer
  <2>2. offers' \in [Gens -> SUBSET Calls] /\ timers' \in [Gens -> SUBSET Calls]
    BY <1>9 DEF FallbackTimer, ClearPending, Without
  <2>3. UNCHANGED <<running, manager, dispatcher, watcher, watching, started, starting, stops,
                    profiles, listening, source, active, recent, forgets, tunnels>>
    BY <1>9 DEF FallbackTimer, controllerVars
  <2> QED BY <2>1, <2>2, <2>3
<1>10. ASSUME NEW g \in Gens, NEW f \in fallbacks[g], FallbackResumes(g, f) PROVE TypeOK'
  <2>1. f.call \in Calls
    BY DEF Fallbacks
  <2> QED BY <1>10, <2>1, SpawnTypes DEF FallbackResumes, controllerVars
<1>11. ASSUME NEW g \in Gens, NEW c \in Calls, Forget(g, c) PROVE TypeOK'
  BY <1>11 DEF Forget, Without, controllerVars, offerVars
<1>12. ASSUME NEW t \in tunnels, Joined(t) PROVE TypeOK'
  BY <1>12 DEF Joined, Becomes, Tunnels, Stages, controllerVars, callVars, offerVars
<1>13. ASSUME NEW t \in tunnels, Ends(t) PROVE TypeOK'
  BY <1>13, EndTypes DEF Ends, controllerVars
<1>14. ASSUME NEW t \in tunnels, NEW id \in Ids, HandshakeDone(t, id) PROVE TypeOK'
  <2>1. CASE Becomes(t, [t EXCEPT !.at = "run", !.client = id, !.record = Recorded(t, id)])
             /\ UNCHANGED callVars
    BY <1>14, <2>1 DEF HandshakeDone, Becomes, Recorded, Tunnels, Stages, Ids,
       controllerVars, callVars, offerVars
  <2>2. CASE End({t})
    BY <1>14, <2>2, EndTypes DEF HandshakeDone, controllerVars
  <2> QED BY <1>14, <2>1, <2>2 DEF HandshakeDone
<1>15. ASSUME NEW id \in Clients, DeleteClient(id) PROVE TypeOK'
  <2>1. {t \in Known : t.at = "run" /\ t.record = id} \in SUBSET tunnels
    BY DEF Known
  <2> QED BY <1>15, <2>1, EndTypes DEF DeleteClient, controllerVars
<1>16. CASE UNCHANGED vars
  BY <1>16 DEF vars, controllerVars, callVars, offerVars
<1> QED
  BY <1>1, <1>2, <1>3, <1>4, <1>5, <1>6, <1>7, <1>8, <1>9, <1>10, <1>11, <1>12, <1>13,
     <1>14, <1>15, <1>16 DEF Next

-----------------------------------------------------------------------------
(* Admission, in parts: what is known of the tunnels, and of generations.   *)

(* The tunnels the manager has on record for a config, and admission as the
   manager sees it. *)
KnownUse == {t \in Known : t.at = "run" /\ t.client # Legacy}
KnownOnce == \A t, u \in KnownUse : t.client = u.client => t = u
KnownOnFile == \A t \in KnownUse : t.client \in profiles

KnownInv == RecordsTrue /\ FreshGenerations /\ KnownOnce /\ KnownOnFile

(* Fewer tunnels are no harm. *)
LEMMA FewerTunnels ==
  ASSUME RecordsTrue, KnownOnce, KnownOnFile,
         manager' = manager, profiles' = profiles, tunnels' \subseteq tunnels
  PROVE  RecordsTrue' /\ KnownOnce' /\ KnownOnFile'
BY DEF RecordsTrue, KnownOnce, KnownOnFile, KnownUse, Known

(* Nor is a call that is taken up: its client has presented no config. *)
LEMMA SpawnAdmits ==
  ASSUME RecordsTrue, KnownOnce, KnownOnFile, NEW g, NEW c, Spawn(g, c),
         manager' = manager, profiles' = profiles
  PROVE  RecordsTrue' /\ KnownOnce' /\ KnownOnFile'
<1>1. tunnels' \subseteq tunnels \cup {NewTunnel(g, c)}
  BY DEF Spawn
<1>2. NewTunnel(g, c).at = "accept" /\ NewTunnel(g, c).record = Legacy
  BY DEF NewTunnel
<1>3. KnownUse' \subseteq KnownUse /\ Known' \subseteq Known
  BY <1>1, <1>2 DEF KnownUse, Known
<1>4. RecordsTrue'
  BY <1>1, <1>2, <1>3 DEF RecordsTrue
<1> QED BY <1>3, <1>4 DEF KnownOnce, KnownOnFile

(* Nor is a manager that knows no tunnel. *)
LEMMA UnknownTunnels ==
  ASSUME RecordsTrue, tunnels' = tunnels, \A t \in tunnels : t.gen # manager'
  PROVE  RecordsTrue' /\ KnownOnce' /\ KnownOnFile'
<1>1. Known' = {}
  BY DEF Known
<1> QED BY <1>1 DEF RecordsTrue, KnownOnce, KnownOnFile, KnownUse

(* The answer to a client that presents a config. *)
LEMMA HandshakeAdmits ==
  ASSUME TypeOK, RecordsTrue, KnownOnce, KnownOnFile,
         NEW t \in tunnels, NEW id \in Ids, HandshakeDone(t, id)
  PROVE  RecordsTrue' /\ KnownOnce' /\ KnownOnFile'
<1>1. manager' = manager /\ profiles' = profiles
  BY DEF HandshakeDone, controllerVars
<1>2. CASE End({t})
  BY <1>1, <1>2, FewerTunnels DEF End
<1>3. CASE /\ id = Legacy \/ Admits(t, id)
           /\ Becomes(t, [t EXCEPT !.at = "run", !.client = id, !.record = Recorded(t, id)])
  <2> DEFINE new == [t EXCEPT !.at = "run", !.client = id, !.record = Recorded(t, id)]
  <2>1. /\ new.gen = t.gen /\ new.at = "run" /\ new.client = id
        /\ new.record = Recorded(t, id)
    BY DEF TypeOK, Tunnels
  <2>2. t.gen = manager => Recorded(t, id) = id
    BY DEF Recorded
  <2>3. tunnels' = (tunnels \ {t}) \cup {new}
    BY <1>3 DEF Becomes
  <2> HIDE DEF new
  <2>4. \A u \in Known' : (u = new /\ t.gen = manager) \/ u \in Known \ {t}
    BY <1>1, <2>1, <2>3 DEF Known
  <2>5. t.at = "handshake"
    BY DEF HandshakeDone
  <2>6. RecordsTrue'
    <3>1. \A u \in tunnels' : u.at # "run" => u.record = Legacy
      BY <2>1, <2>3 DEF RecordsTrue
    <3>2. \A u \in Known' : u.at = "run" => u.record = u.client
      BY <2>1, <2>2, <2>4 DEF RecordsTrue
    <3> QED BY <3>1, <3>2 DEF RecordsTrue
  <2>7. id # Legacy => id \in profiles /\ \A u \in Known \ {t} : u.record # id
    BY <1>3 DEF Admits
  <2>8. \A u \in KnownUse' : 
        (u = new /\ id # Legacy) \/ (u \in KnownUse /\ u # t)
    BY <2>1, <2>4 DEF KnownUse
  <2>9. \A u \in KnownUse : u # t /\ id # Legacy => u.client # id
    <3>1. \A u \in KnownUse : u \in Known /\ u.record = u.client
      BY DEF RecordsTrue, KnownUse
    <3> QED BY <2>7, <3>1
  <2>10. KnownOnce'
    BY <2>1, <2>8, <2>9 DEF KnownOnce
  <2>11. KnownOnFile'
    BY <1>1, <2>1, <2>7, <2>8 DEF KnownOnFile
  <2> QED BY <2>6, <2>10, <2>11
<1> QED BY <1>2, <1>3 DEF HandshakeDone

(* A deleted config takes its client with it. *)
LEMMA DeleteCutsOff ==
  ASSUME RecordsTrue, KnownOnce, KnownOnFile, NEW id \in Clients, DeleteClient(id)
  PROVE  RecordsTrue' /\ KnownOnce' /\ KnownOnFile'
<1>1. manager' = manager /\ profiles' = profiles \ {id}
  BY DEF DeleteClient, controllerVars
<1>2. tunnels' = tunnels \ {t \in Known : t.at = "run" /\ t.record = id}
  BY DEF DeleteClient, End
<1>3. Known' = Known \ {t \in Known : t.at = "run" /\ t.record = id}
  BY <1>1, <1>2 DEF Known
<1>4. RecordsTrue'
  BY <1>2, <1>3 DEF RecordsTrue
<1>5. KnownOnce'
  BY <1>3 DEF KnownOnce, KnownUse
<1>6. KnownOnFile'
  BY <1>1, <1>3 DEF KnownOnFile, KnownUse, RecordsTrue
<1> QED BY <1>4, <1>5, <1>6

(* Every step keeps the records true, and admission with them. *)
LEMMA AdmissionStep ==
  ASSUME TypeOK, KnownInv, [Next]_vars
  PROVE  RecordsTrue' /\ KnownOnce' /\ KnownOnFile'
<1> USE DEF KnownInv
<1>1. CASE StartServer
  <2>1. \A t \in tunnels : t.gen # started + 1
    BY DEF FreshGenerations, TypeOK, Tunnels, Gens, Fields
  <2> QED BY <1>1, <2>1, UnknownTunnels DEF StartServer
<1>2. CASE StartSucceeds
  BY <1>2, FewerTunnels DEF StartSucceeds
<1>3. ASSUME NEW k \in Stoppers, BeginStop(k)
      PROVE  RecordsTrue' /\ KnownOnce' /\ KnownOnFile'
  BY <1>3, FewerTunnels DEF BeginStop
<1>4. ASSUME NEW k \in Stoppers, WatcherClosed(k)
      PROVE  RecordsTrue' /\ KnownOnce' /\ KnownOnFile'
  BY <1>4, FewerTunnels DEF WatcherClosed
<1>5. ASSUME NEW k \in Stoppers, StopEnds(k)
      PROVE  RecordsTrue' /\ KnownOnce' /\ KnownOnFile'
  <2>1. \A t \in tunnels : t.gen # 0
    BY DEF TypeOK, Tunnels, Gens
  <2> QED BY <1>5, <2>1, UnknownTunnels DEF StopEnds
<1>6. ASSUME NEW g \in Gens, NEW c \in Calls, Offer(g, c) \/ Push(g, c)
      PROVE  RecordsTrue' /\ KnownOnce' /\ KnownOnFile'
  <2>1. manager' = manager /\ profiles' = profiles
    BY <1>6 DEF Offer, Push, controllerVars
  <2>2. Spawn(g, c) \/ tunnels' = tunnels
    BY <1>6 DEF Offer, QueueOffer, Push
  <2> QED BY <2>1, <2>2, FewerTunnels, SpawnAdmits
<1>11. ASSUME NEW g \in Gens, NEW f \in fallbacks[g], FallbackResumes(g, f)
       PROVE  RecordsTrue' /\ KnownOnce' /\ KnownOnFile'
  BY <1>11, SpawnAdmits DEF FallbackResumes, controllerVars
<1>7. ASSUME NEW g \in Gens, NEW c \in Calls, FallbackTimer(g, c) \/ Forget(g, c)
      PROVE  RecordsTrue' /\ KnownOnce' /\ KnownOnFile'
  BY <1>7, FewerTunnels DEF FallbackTimer, Forget, controllerVars
<1>8. ASSUME NEW t \in tunnels, Joined(t)
      PROVE  RecordsTrue' /\ KnownOnce' /\ KnownOnFile'
  <2> DEFINE new == [t EXCEPT !.at = "handshake"]
  <2>1. /\ new.gen = t.gen /\ new.at = "handshake" /\ new.record = t.record
    BY DEF TypeOK, Tunnels
  <2>2. /\ tunnels' = (tunnels \ {t}) \cup {new} /\ t.at = "accept"
        /\ manager' = manager /\ profiles' = profiles
    BY <1>8 DEF Joined, Becomes, controllerVars
  <2> HIDE DEF new
  <2>3. RecordsTrue'
    BY <2>1, <2>2 DEF RecordsTrue, Known
  <2>4. KnownUse' \subseteq KnownUse
    BY <2>1, <2>2 DEF KnownUse, Known
  <2> QED BY <2>2, <2>3, <2>4 DEF KnownOnce, KnownOnFile
<1>9. ASSUME NEW t \in tunnels, Ends(t)
      PROVE  RecordsTrue' /\ KnownOnce' /\ KnownOnFile'
  BY <1>9, FewerTunnels DEF Ends, End, controllerVars
<1>10. CASE UNCHANGED vars
  BY <1>10, FewerTunnels DEF vars, controllerVars
<1> QED
  BY <1>1, <1>2, <1>3, <1>4, <1>5, <1>6, <1>7, <1>8, <1>9, <1>10, <1>11, HandshakeAdmits,
     DeleteCutsOff DEF Next, StopServer, StartFails, FailedStart, Stoppers, BoundsAssumption

(* Nothing is at work for a generation that has not been started. *)
LEMMA FreshStep ==
  ASSUME TypeOK, KnownInv, [Next]_vars
  PROVE  FreshGenerations'
<1> USE DEF KnownInv, FreshGenerations
<1>1. CASE StartServer
  BY <1>1 DEF StartServer, callVars, offerVars, TypeOK, Tunnels, Gens, Fields
<1>2. CASE StartSucceeds
  BY <1>2 DEF StartSucceeds, callVars, offerVars, TypeOK, Fields, Gens
<1>3. ASSUME NEW k \in Stoppers, BeginStop(k)
      PROVE  FreshGenerations'
  <2>1. \A g \in Gens : listening'[g] => listening[g]
    BY <1>3 DEF BeginStop, StopDispatcher, TypeOK
  <2>2. \A g \in Gens : timers'[g] \subseteq timers[g]
    BY <1>3 DEF BeginStop, StopDispatcher, TypeOK
  <2>3. UNCHANGED <<manager, started, starting, fallbacks, tunnels>>
    BY <1>3 DEF BeginStop
  <2> QED BY <2>1, <2>2, <2>3
<1>4. ASSUME NEW k \in Stoppers, WatcherClosed(k)
      PROVE  FreshGenerations'
  BY <1>4 DEF WatcherClosed, callVars, offerVars
<1>5. ASSUME NEW k \in Stoppers, StopEnds(k)
      PROVE  FreshGenerations'
  <2>1. UNCHANGED <<started, listening, timers, fallbacks, tunnels>>
    BY <1>5 DEF StopEnds, callVars, offerVars
  <2>2. manager' <= started /\ starting' <= started
    BY <1>5 DEF StopEnds, TypeOK, Fields
  <2> QED BY <2>1, <2>2
<1>6. ASSUME NEW g \in Gens, NEW c \in Calls, Spawn(g, c), g <= started,
             UNCHANGED <<manager, started, starting, listening>>,
             \A h \in Gens : fallbacks'[h] \subseteq fallbacks[h]
      PROVE  FreshGenerations'
  <2>1. tunnels' \subseteq tunnels \cup {NewTunnel(g, c)} /\ NewTunnel(g, c).gen = g
    BY <1>6 DEF Spawn, NewTunnel
  <2>2. \A h \in Gens : timers'[h] \subseteq timers[h]
    BY <1>6 DEF Spawn, ClearPending, Without, TypeOK
  <2> QED BY <1>6, <2>1, <2>2
<1>7. ASSUME NEW g \in Gens, NEW c \in Calls, Offer(g, c) \/ Push(g, c)
      PROVE  FreshGenerations'
  <2>1. UNCHANGED <<manager, started, starting, listening>>
    BY <1>7 DEF Offer, Push, controllerVars
  <2>2. listening[g] /\ g <= started
    BY <1>7 DEF Offer, Push, TypeOK, Fields, Gens
  <2>3. CASE Spawn(g, c) /\ UNCHANGED fallbacks
    BY <1>6, <2>1, <2>2, <2>3
  <2>4. CASE QueueOffer(g, c)
    <3>1. tunnels' = tunnels /\ fallbacks' = fallbacks
      BY <2>4 DEF QueueOffer, callVars, offerVars
    <3>2. \A h \in Gens : h # g => timers'[h] = timers[h]
      BY <2>4 DEF QueueOffer, callVars, offerVars, TypeOK
    <3> QED BY <2>1, <2>2, <3>1, <3>2 DEF TypeOK, Fields, Gens
  <2>5. (Spawn(g, c) /\ UNCHANGED fallbacks) \/ QueueOffer(g, c)
    <3>1. CASE Offer(g, c)
      BY <3>1 DEF Offer
    <3>2. CASE Push(g, c)
      BY <3>2 DEF Push
    <3> QED BY <1>7, <3>1, <3>2
  <2> QED BY <2>3, <2>4, <2>5
<1>8. ASSUME NEW g \in Gens, NEW c \in Calls, FallbackTimer(g, c)
      PROVE  FreshGenerations'
  <2>1. UNCHANGED <<manager, started, starting, listening, tunnels>>
    BY <1>8 DEF FallbackTimer, controllerVars
  <2>2. g <= started
    BY <1>8 DEF FallbackTimer, TypeOK, Fields, Gens
  <2>3. \A h \in Gens :
          timers'[h] \subseteq timers[h] /\ (h # g => fallbacks'[h] \subseteq fallbacks[h])
    BY <1>8 DEF FallbackTimer, RestartWatcher, ClearPending, Without, TypeOK
  <2>4. \A h \in Gens : h > started => h # g
    BY <2>2 DEF TypeOK, Fields, Gens
  <2>5. \A h \in Gens : h > started' => timers'[h] = {} /\ fallbacks'[h] = {} /\ ~listening'[h]
    BY <2>1, <2>3, <2>4
  <2> QED BY <2>1, <2>5
<1>9. ASSUME NEW g \in Gens, NEW f \in fallbacks[g], FallbackResumes(g, f)
      PROVE  FreshGenerations'
  <2>1. UNCHANGED <<manager, started, starting, listening>>
    BY <1>9 DEF FallbackResumes, controllerVars
  <2>2. g <= started
    BY DEF TypeOK, Fields, Gens
  <2>3. \A h \in Gens : fallbacks'[h] \subseteq fallbacks[h]
    BY <1>9 DEF FallbackResumes, TypeOK
  <2>4. f.call \in Calls
    BY DEF TypeOK, Fallbacks
  <2> QED BY <1>6, <1>9, <2>1, <2>2, <2>3, <2>4 DEF FallbackResumes
<1>10. ASSUME NEW g \in Gens, NEW c \in Calls, Forget(g, c)
       PROVE  FreshGenerations'
  BY <1>10 DEF Forget, controllerVars, offerVars
<1>11. ASSUME UNCHANGED <<manager, started, starting, listening, fallbacks>>,
              NEW t \in tunnels, NEW u, u.gen = t.gen,
              \/ Becomes(t, u) /\ timers' = timers
              \/ tunnels' \subseteq tunnels /\ \A g \in Gens : timers'[g] \subseteq timers[g]
       PROVE  FreshGenerations'
  BY <1>11 DEF Becomes
<1>12. ASSUME NEW gone, End(gone)
       PROVE  /\ tunnels' \subseteq tunnels /\ fallbacks' = fallbacks
              /\ \A g \in Gens : timers'[g] \subseteq timers[g]
  BY <1>12 DEF End, Finish, TypeOK
<1>13. ASSUME UNCHANGED controllerVars, UNCHANGED listening, NEW gone, End(gone)
       PROVE  FreshGenerations'
  BY <1>12, <1>13 DEF controllerVars
<1>14. ASSUME NEW t \in tunnels, Joined(t)
       PROVE  FreshGenerations'
  <2>1. [t EXCEPT !.at = "handshake"].gen = t.gen
    BY DEF TypeOK, Tunnels
  <2> QED BY <1>11, <1>14, <2>1 DEF Joined, controllerVars, callVars, offerVars
<1>15. ASSUME NEW t \in tunnels, NEW id \in Ids, HandshakeDone(t, id)
       PROVE  FreshGenerations'
  <2>1. [t EXCEPT !.at = "run", !.client = id, !.record = Recorded(t, id)].gen = t.gen
    BY DEF TypeOK, Tunnels
  <2>2. CASE End({t})
    BY <1>13, <1>15, <2>2 DEF HandshakeDone
  <2>3. CASE Becomes(t, [t EXCEPT !.at = "run", !.client = id, !.record = Recorded(t, id)])
             /\ UNCHANGED callVars
    BY <1>11, <1>15, <2>1, <2>3 DEF HandshakeDone, controllerVars, callVars, offerVars
  <2> QED BY <1>15, <2>2, <2>3 DEF HandshakeDone
<1>16. ASSUME NEW t \in tunnels, Ends(t)
       PROVE  FreshGenerations'
  BY <1>13, <1>16 DEF Ends
<1>17. ASSUME NEW id \in Clients, DeleteClient(id)
       PROVE  FreshGenerations'
  BY <1>13, <1>17 DEF DeleteClient
<1>18. CASE UNCHANGED vars
  BY <1>18 DEF vars, controllerVars, callVars, offerVars
<1> QED
  BY <1>1, <1>2, <1>3, <1>4, <1>5, <1>7, <1>8, <1>9, <1>10, <1>14, <1>15, <1>16, <1>17,
     <1>18 DEF Next, StopServer, StartFails, FailedStart, Stoppers, BoundsAssumption

-----------------------------------------------------------------------------

(* The state of the server keeps its types, whichever handler runs. *)
THEOREM TypeCorrect == Spec => []TypeOK
<1>1. Init => TypeOK BY InitTypes
<1>2. TypeOK /\ [Next]_vars => TypeOK' BY StepTypes
<1> QED BY <1>1, <1>2, PTL DEF Spec

(* What the manager has on record, whether or not stops overlap. *)
LEMMA KnownInvariant == Spec => []KnownInv
<1>1. Init => KnownInv
  BY DEF Init, KnownInv, RecordsTrue, FreshGenerations, KnownOnce, KnownOnFile, KnownUse,
     Known
<1>2. TypeOK /\ KnownInv /\ [Next]_vars => KnownInv'
  BY AdmissionStep, FreshStep DEF KnownInv
<1> QED BY <1>1, <1>2, TypeCorrect, PTL DEF Spec

(* While stops do not overlap, a stop is over before the next start begins. *)
LEMMA StopsApartStep ==
  ASSUME ~DoubleStop, TypeOK, StopsApart, [Next]_vars
  PROVE  StopsApart'
<1> USE DEF StopsApart, AtWork
<1>1. ASSUME UNCHANGED controllerVars PROVE StopsApart'
  BY <1>1 DEF controllerVars
<1>2. CASE StartServer
  <2>1. started + 1 # 0
    BY DEF TypeOK, Fields
  <2> QED BY <1>2, <2>1 DEF StartServer
<1>3. CASE StartSucceeds
  <2>1. starting # 0
    BY <1>3 DEF StartSucceeds, TypeOK, Gens
  <2> QED BY <1>3, <2>1 DEF StartSucceeds
<1>4. ASSUME NEW k \in Stoppers, BeginStop(k), \A j \in Stoppers : ~AtWork(j),
             IF k = FailedStart THEN starting # 0 ELSE running
      PROVE  StopsApart'
  <2>1. /\ dispatcher' = 0 /\ UNCHANGED <<running, manager, starting>>
        /\ \A j \in Stoppers : j # k => stops'[j] = stops[j]
    BY <1>4 DEF BeginStop, StopDispatcher, TypeOK
  <2>2. \A j \in Stoppers : AtWork(j)' => j = k
    BY <1>4, <2>1
  <2> QED BY <1>4, <2>1, <2>2
<1>5. ASSUME NEW k \in Stoppers, StopServer(k) PROVE StopsApart'
  <2>1. \A j \in Stoppers : ~AtWork(j)
    BY <1>5 DEF StopServer, Stopping
  <2> QED BY <1>4, <1>5, <2>1 DEF StopServer
<1>6. CASE StartFails
  <2>1. FailedStart \in Stoppers
    BY DEF FailedStart, Stoppers
  <2>2. \A j \in Stoppers : ~AtWork(j)
    BY <1>6 DEF StartFails
  <2> QED BY <1>4, <1>6, <2>1, <2>2 DEF StartFails
<1>7. ASSUME NEW k \in Stoppers, WatcherClosed(k) PROVE StopsApart'
  <2>1. \A j \in Stoppers : AtWork(j)' <=> AtWork(j)
    BY <1>7 DEF WatcherClosed, TypeOK
  <2> QED BY <1>7, <2>1 DEF WatcherClosed
<1>8. ASSUME NEW k \in Stoppers, StopEnds(k) PROVE StopsApart'
  <2>1. AtWork(k) /\ dispatcher' = dispatcher /\ manager' = 0 /\ running' = FALSE
    BY <1>8 DEF StopEnds
  <2>2. \A j \in Stoppers : ~AtWork(j)'
    <3>1. \A j \in Stoppers : j # k => stops'[j] = stops[j] /\ ~AtWork(j)
      BY <1>8, <2>1 DEF StopEnds, TypeOK
    <3>2. stops'[k] \in {"unused", "done"}
      BY <1>8 DEF StopEnds, TypeOK
    <3> QED BY <3>1, <3>2
  <2>3. dispatcher = 0 /\ starting' = 0
    BY <1>8, <2>1 DEF StopEnds
  <2> QED BY <2>1, <2>2, <2>3
<1>9. ASSUME NEW g \in Gens, NEW c \in Calls,
             Offer(g, c) \/ Push(g, c) \/ FallbackTimer(g, c) \/ Forget(g, c)
      PROVE  StopsApart'
  BY <1>1, <1>9 DEF Offer, Push, FallbackTimer, Forget
<1>10. ASSUME NEW g \in Gens, NEW f \in fallbacks[g], FallbackResumes(g, f)
       PROVE  StopsApart'
  BY <1>1, <1>10 DEF FallbackResumes
<1>11. ASSUME NEW t \in tunnels, Joined(t) \/ Ends(t) \/ \E id \in Ids : HandshakeDone(t, id)
       PROVE  StopsApart'
  BY <1>1, <1>11 DEF Joined, Ends, HandshakeDone
<1>12. ASSUME NEW id \in Clients, DeleteClient(id) PROVE StopsApart'
  BY <1>1, <1>12 DEF DeleteClient
<1>13. CASE UNCHANGED vars
  BY <1>1, <1>13 DEF vars
<1> QED
  BY <1>2, <1>3, <1>5, <1>6, <1>7, <1>8, <1>9, <1>10, <1>11, <1>12, <1>13 DEF Next

(* While stops do not overlap (stopServer, startServer), the dispatcher that
   runs has the manager of its own start, what that manager has on record is
   true of its tunnels, and admission, which rests on both, is right
   (manager.ts, controller.ts). *)
THEOREM AdmissionInvariant == ASSUME ~DoubleStop PROVE Spec => []AdmissionInv
<1>1. Init => StopsApart
  BY DEF Init, StopsApart, AtWork
<1>2. TypeOK /\ StopsApart /\ [Next]_vars => StopsApart'
  BY StopsApartStep
<1>3. TypeOK /\ StopsApart /\ KnownInv => AdmissionInv
  <2>1. ASSUME TypeOK, StopsApart PROVE InUse \subseteq KnownUse
    BY <2>1 DEF StopsApart, InUse, OfServer, KnownUse, Known, TypeOK, Tunnels, Gens
  <2> QED BY <2>1 DEF KnownInv, KnownOnce, KnownOnFile, AdmissionInv, OneUse, DeletedCutOff
<1> QED BY <1>1, <1>2, <1>3, KnownInvariant, TypeCorrect, PTL DEF Spec

(* While stops do not overlap, no config is used by two connections of the
   server at once, however their handshakes interleave with each other, with
   starts and with a stop (handleClientMetadata). *)
THEOREM OneUsePerConfig == ASSUME ~DoubleStop PROVE Spec => []OneUse
<1>1. AdmissionInv => OneUse BY DEF AdmissionInv
<1> QED BY <1>1, AdmissionInvariant, PTL

(* While stops do not overlap, a client whose config is deleted is not
   connected to the server, whenever the deletion comes (deleteClient). *)
THEOREM DeletedAreCutOff == ASSUME ~DoubleStop PROVE Spec => []DeletedCutOff
<1>1. AdmissionInv => DeletedCutOff BY DEF AdmissionInv
<1> QED BY <1>1, AdmissionInvariant, PTL

-----------------------------------------------------------------------------
(* The step that LeftOnlyByRestart allows. *)
RestartOnly ==
  \A g \in Gens : \A c \in LeftAlone(g)' \ LeftAlone(g) :
    /\ watcher \in watching /\ [call |-> c, on |-> watcher] \in fallbacks[g]
    /\ \E h \in Gens, d \in Calls : <<h, d>> # <<g, c>> /\ Restarting(h, d)

(* Taking a call up, or ending tunnels, leaves no offer alone. *)
LEMMA SpawnLeavesNone ==
  ASSUME TypeOK, NEW g \in Gens, NEW c, Spawn(g, c),
         \A h \in Gens : \A f \in fallbacks[h] \ fallbacks'[h] : h = g /\ f.call = c
  PROVE  RestartOnly
<1>1. \A h \in Gens : /\ offers'[h] = offers[h] \ (IF h = g THEN {c} ELSE {})
                      /\ timers'[h] = timers[h] \ (IF h = g THEN {c} ELSE {})
  BY DEF Spawn, ClearPending, Without, TypeOK
<1>2. \A h \in Gens : LeftAlone(h)' \subseteq LeftAlone(h)
  BY <1>1 DEF LeftAlone
<1> QED BY <1>2 DEF RestartOnly

LEMMA EndLeavesNone ==
  ASSUME NEW gone, End(gone)
  PROVE  RestartOnly
<1>1. \A g \in Gens : LeftAlone(g)' \subseteq LeftAlone(g)
  BY DEF LeftAlone, End, Finish
<1> QED BY <1>1 DEF RestartOnly

(* A fallback timer leaves alone only calls whose fallback awaits the restart
   that its own restart overtakes. *)
LEMMA TimerLeavesOvertaken ==
  ASSUME TypeOK, NEW h \in Gens, NEW d \in Calls, FallbackTimer(h, d)
  PROVE  RestartOnly
<1>1. CASE ClearPending(h, d) /\ UNCHANGED fallbacks
  <2>1. \A g \in Gens : /\ offers'[g] = offers[g] \ (IF g = h THEN {d} ELSE {})
                        /\ timers'[g] = timers[g] \ (IF g = h THEN {d} ELSE {})
    BY <1>1 DEF ClearPending, Without, TypeOK
  <2>2. \A g \in Gens : LeftAlone(g)' \subseteq LeftAlone(g)
    BY <1>1, <2>1 DEF LeftAlone
  <2> QED BY <2>2 DEF RestartOnly
<1>2. CASE timers' = Without(timers, h, d) /\ RestartWatcher(h, d) /\ UNCHANGED offers
  <2> DEFINE asked == {f \in UNION {fallbacks[g] : g \in Gens} : f.on = watcher /\ watcher \in watching}
  <2>1. PICK overtaken \in SUBSET asked :
          fallbacks' = [g \in Gens |->
                          (fallbacks[g] \ overtaken)
                            \cup (IF g = h THEN {[call |-> d, on |-> watcher]} ELSE {})]
    BY <1>2 DEF RestartWatcher
  <2>2. \A f \in overtaken : f.on = watcher /\ watcher \in watching
    OBVIOUS
  <2> HIDE DEF asked
  <2>3. [call |-> d, on |-> watcher] \in fallbacks'[h] /\ d \in timers[h] \ timers'[h]
    BY <1>2, <2>1 DEF FallbackTimer, Without, TypeOK
  <2>4. ASSUME NEW g \in Gens, NEW c \in LeftAlone(g)' \ LeftAlone(g)
        PROVE  /\ watcher \in watching /\ [call |-> c, on |-> watcher] \in fallbacks[g]
               /\ <<h, d>> # <<g, c>>
    <3>1. \A e \in timers[g] \ timers'[g] : g = h /\ e = d
      BY <1>2 DEF Without, TypeOK
    <3>2. <<h, d>> # <<g, c>>
      BY <2>3, <2>4 DEF LeftAlone
    <3>3. PICK f \in fallbacks[g] : f.call = c
      BY <1>2, <2>4, <3>1, <3>2 DEF LeftAlone
    <3>4. f \in overtaken
      BY <2>1, <2>4, <3>3 DEF LeftAlone
    <3>5. f = [call |-> c, on |-> watcher]
      BY <2>2, <3>3, <3>4 DEF TypeOK, Fallbacks
    <3> QED BY <2>2, <3>2, <3>3, <3>4, <3>5
  <2>5. \A g \in Gens : \A c \in LeftAlone(g)' \ LeftAlone(g) :
          /\ watcher \in watching /\ [call |-> c, on |-> watcher] \in fallbacks[g]
          /\ <<h, d>> # <<g, c>> /\ Restarting(h, d)
    BY <2>3, <2>4 DEF Restarting
  <2> QED BY <2>5 DEF RestartOnly
<1> QED BY <1>1, <1>2 DEF FallbackTimer

LEMMA OffersStep == TypeOK /\ [Next]_vars => RestartOnly
<1> SUFFICES ASSUME TypeOK, [Next]_vars PROVE RestartOnly
  OBVIOUS
<1>1. ASSUME \A g \in Gens : LeftAlone(g)' \subseteq LeftAlone(g) PROVE RestartOnly
  BY <1>1 DEF RestartOnly
<1>2. ASSUME UNCHANGED offerVars PROVE RestartOnly
  BY <1>1, <1>2 DEF LeftAlone, offerVars
<1>3. CASE StartServer \/ StartSucceeds \/ UNCHANGED vars
  BY <1>2, <1>3 DEF StartServer, StartSucceeds, callVars, vars
<1>4. ASSUME NEW k \in Stoppers, BeginStop(k) PROVE RestartOnly
  <2>1. \A g \in Gens : \/ offers'[g] = {}
                        \/ UNCHANGED <<offers[g], timers[g], fallbacks[g]>>
    BY <1>4 DEF BeginStop, StopDispatcher, TypeOK
  <2> QED BY <1>1, <2>1 DEF LeftAlone
<1>5. ASSUME NEW k \in Stoppers, WatcherClosed(k) \/ StopEnds(k) PROVE RestartOnly
  BY <1>2, <1>5 DEF WatcherClosed, StopEnds, callVars
<1>6. ASSUME NEW g \in Gens, NEW c \in Calls, Offer(g, c) PROVE RestartOnly
  <2>1. CASE Spawn(g, c) /\ UNCHANGED fallbacks
    BY <2>1, SpawnLeavesNone
  <2>2. CASE UNCHANGED callVars
    BY <1>2, <2>2 DEF callVars
  <2>3. CASE /\ offers' = [offers EXCEPT ![g] = @ \cup {c}]
             /\ timers' = [timers EXCEPT ![g] = @ \cup {c}]
             /\ UNCHANGED fallbacks
    <3>1. \A h \in Gens : LeftAlone(h)' \subseteq LeftAlone(h)
      BY <2>3 DEF LeftAlone, TypeOK
    <3> QED BY <1>1, <3>1
  <2> QED BY <1>6, <2>1, <2>2, <2>3 DEF Offer, QueueOffer
<1>7. ASSUME NEW g \in Gens, NEW c \in Calls, Push(g, c) PROVE RestartOnly
  BY <1>7, SpawnLeavesNone DEF Push
<1>8. ASSUME NEW g \in Gens, NEW f \in fallbacks[g], FallbackResumes(g, f) PROVE RestartOnly
  <2>1. \A h \in Gens : \A e \in fallbacks[h] \ fallbacks'[h] : h = g /\ e.call = f.call
    BY <1>8 DEF FallbackResumes, TypeOK
  <2> QED BY <1>8, <2>1, SpawnLeavesNone DEF FallbackResumes
<1>9. ASSUME NEW g \in Gens, NEW c \in Calls, Forget(g, c) PROVE RestartOnly
  BY <1>2, <1>9 DEF Forget
<1>10. ASSUME NEW t \in tunnels, Joined(t) \/ Ends(t) PROVE RestartOnly
  BY <1>2, <1>10, EndLeavesNone DEF Joined, Ends, callVars
<1>11. ASSUME NEW t \in tunnels, NEW id \in Ids, HandshakeDone(t, id) PROVE RestartOnly
  BY <1>2, <1>11, EndLeavesNone DEF HandshakeDone, callVars
<1>12. ASSUME NEW id \in Clients, DeleteClient(id) PROVE RestartOnly
  BY <1>12, EndLeavesNone DEF DeleteClient
<1> QED
  BY <1>3, <1>4, <1>5, <1>6, <1>7, <1>8, <1>9, <1>10, <1>11, <1>12, TimerLeavesOvertaken
  DEF Next, StopServer, StartFails, FailedStart, Stoppers, BoundsAssumption

(* A waiting offer is left without its timer and without a fallback that will
   go on only when its fallback waits for a restart of the watcher and the
   fallback of another offer restarts that watcher (queueMeetOffer,
   runMeetOfferFallback, clearPendingMeetOffer, stop). *)
THEOREM OffersLeftByRestart == Spec => LeftOnlyByRestart
<1>1. TypeOK /\ [Next]_vars =>
        [\A g \in Gens : \A c \in LeftAlone(g)' \ LeftAlone(g) :
           /\ watcher \in watching /\ [call |-> c, on |-> watcher] \in fallbacks[g]
           /\ \E h \in Gens, d \in Calls : <<h, d>> # <<g, c>> /\ Restarting(h, d)]_vars
  BY OffersStep DEF RestartOnly
<1> QED BY <1>1, TypeCorrect, PTL DEF Spec, LeftOnlyByRestart

-----------------------------------------------------------------------------
(* The books of a dispatcher. *)

TunnelsOf(g) == {t \in tunnels : t.gen = g}

(* Nothing is at work for the generation whose dispatcher is yet to start. *)
Untouched(g) ==
  /\ ~listening[g] /\ active[g] = {} /\ offers[g] = {} /\ timers[g] = {} /\ recent[g] = {}
  /\ fallbacks[g] = {} /\ TunnelsOf(g) = {}

Served(g) ==
  /\ \A t, u \in TunnelsOf(g) : t.call = u.call => t = u
  /\ active[g] = {t.call : t \in TunnelsOf(g)}
  /\ active[g] \cap (recent[g] \cup offers[g]) = {}

CallsInv ==
  /\ starting <= started
  /\ \A g \in Gens : /\ g > started \/ g = starting => Untouched(g)
                     /\ listening[g] => Served(g)

(* The step that ServedOnce allows. *)
Once ==
  \A g \in Gens : listening[g] /\ listening'[g] =>
    /\ active[g] \subseteq active'[g] \cup recent'[g]
    /\ recent[g] \cap active'[g] = {}

LEMMA ServedIsOneTunnel == OneTunnelPerCall <=> \A g \in Gens : listening[g] => Served(g)
<1>1. ASSUME NEW g \in Gens
      PROVE  Served(g) <=>
               /\ \A t, u \in tunnels : t.gen = g /\ u.gen = g /\ t.call = u.call => t = u
               /\ active[g] = {t.call : t \in {u \in tunnels : u.gen = g}}
               /\ active[g] \cap (recent[g] \cup offers[g]) = {}
  BY DEF Served, TunnelsOf
<1> QED BY <1>1 DEF OneTunnelPerCall

(* A generation whose books a step leaves alone. *)
LEMMA BooksAlone ==
  ASSUME NEW g, UNCHANGED <<active[g], offers[g], timers[g], recent[g]>>,
         fallbacks'[g] \subseteq fallbacks[g], TunnelsOf(g)' = TunnelsOf(g)
  PROVE  /\ Served(g) => Served(g)'
         /\ Untouched(g) /\ ~listening'[g] => Untouched(g)'
BY DEF Served, Untouched

(* Taking a call up gives it its one tunnel. *)
LEMMA SpawnServes ==
  ASSUME TypeOK, NEW g \in Gens, NEW c \in Calls, Spawn(g, c)
  PROVE  /\ Served(g) => Served(g)'
         /\ \A h \in Gens \ {g} :
              /\ UNCHANGED <<active[h], offers[h], timers[h], recent[h]>>
              /\ TunnelsOf(h)' = TunnelsOf(h)
         /\ active[g] \subseteq active'[g] /\ recent[g] \cap active'[g] \subseteq active[g]
         /\ recent' = recent
<1>1. NewTunnel(g, c).gen = g /\ NewTunnel(g, c).call = c
  BY DEF NewTunnel
<1>2. /\ offers'[g] = offers[g] \ {c} /\ recent' = recent
      /\ \A h \in Gens \ {g} : offers'[h] = offers[h] /\ timers'[h] = timers[h]
  BY DEF Spawn, ClearPending, Without, TypeOK
<1>3. CASE UNCHANGED <<active, tunnels>>
  BY <1>2, <1>3 DEF Served, TunnelsOf
<1>4. CASE /\ c \notin recent[g] \cup active[g]
           /\ active' = [active EXCEPT ![g] = @ \cup {c}]
           /\ tunnels' = tunnels \cup {NewTunnel(g, c)}
  <2>1. /\ active'[g] = active[g] \cup {c}
        /\ \A h \in Gens \ {g} : active'[h] = active[h]
    BY <1>4 DEF TypeOK
  <2>2. /\ TunnelsOf(g)' = TunnelsOf(g) \cup {NewTunnel(g, c)}
        /\ \A h \in Gens \ {g} : TunnelsOf(h)' = TunnelsOf(h)
    BY <1>1, <1>4 DEF TunnelsOf
  <2>3. Served(g) => Served(g)'
    BY <1>1, <1>2, <1>4, <2>1, <2>2 DEF Served
  <2> QED BY <1>2, <1>4, <2>1, <2>2, <2>3
<1> QED BY <1>3, <1>4 DEF Spawn

(* Tunnels that end take their calls from one book to another. *)
LEMMA EndServes ==
  ASSUME TypeOK, NEW gone \in SUBSET tunnels, End(gone), NEW g \in Gens
  PROVE  /\ Served(g) => Served(g)'
         /\ Untouched(g) /\ ~listening'[g] => Untouched(g)'
         /\ active[g] \subseteq active'[g] \cup recent'[g] /\ active'[g] \subseteq active[g]
<1> DEFINE ended == {t.call : t \in {u \in gone : u.gen = g}}
<1>1. /\ active'[g] = active[g] \ ended /\ offers'[g] = offers[g] \ ended
      /\ timers'[g] = timers[g] \ ended /\ recent'[g] = recent[g] \cup ended
      /\ TunnelsOf(g)' = TunnelsOf(g) \ gone /\ fallbacks' = fallbacks
  BY DEF End, Finish, TunnelsOf
<1>2. ended = {t.call : t \in TunnelsOf(g) \cap gone}
  BY DEF TunnelsOf
<1> HIDE DEF ended
<1>3. ASSUME Served(g) PROVE Served(g)'
  BY <1>1, <1>2, <1>3 DEF Served
<1>4. ASSUME Untouched(g), ~listening'[g] PROVE Untouched(g)'
  BY <1>1, <1>2, <1>4 DEF Untouched
<1> QED BY <1>1, <1>3, <1>4

(* A tunnel that goes on to another stage keeps its call. *)
LEMMA BecomesServes ==
  ASSUME NEW t \in tunnels, NEW u, u.gen = t.gen, u.call = t.call, Becomes(t, u),
         UNCHANGED callVars, UNCHANGED listening, NEW g
  PROVE  /\ Served(g) => Served(g)'
         /\ Untouched(g) => Untouched(g)'
<1>1. CASE t.gen = g
  <2>1. TunnelsOf(g)' = (TunnelsOf(g) \ {t}) \cup {u} /\ t \in TunnelsOf(g)
    BY <1>1 DEF TunnelsOf, Becomes
  <2> QED BY <2>1 DEF Served, Untouched, callVars, offerVars
<1>2. CASE t.gen # g
  <2>1. TunnelsOf(g)' = TunnelsOf(g)
    BY <1>2 DEF TunnelsOf, Becomes
  <2> QED BY <2>1 DEF Served, Untouched, callVars, offerVars
<1> QED BY <1>1, <1>2

LEMMA CallsStep ==
  ASSUME TypeOK, CallsInv, [Next]_vars
  PROVE  CallsInv' /\ Once
<1>f. /\ started \in Nat /\ starting \in Nat /\ Gens \subseteq Nat
      /\ \A g \in Gens : listening[g] => active[g] \cap recent[g] = {}
      /\ \A g \in Gens : listening[g] => g <= started /\ g # starting
  <2>1. started \in Nat /\ starting \in Nat /\ Gens \subseteq Nat
    BY DEF TypeOK, Fields, Gens
  <2>2. \A g \in Gens : listening[g] => active[g] \cap recent[g] = {}
    BY DEF CallsInv, Served
  <2>3. ASSUME NEW g \in Gens, listening[g] PROVE g <= started /\ g # starting
    <3>1. ~(g > started) /\ g # starting
      BY <2>3 DEF CallsInv, Untouched
    <3> QED BY <2>1, <3>1
  <2> QED BY <2>1, <2>2, <2>3
<1>1. ASSUME UNCHANGED <<active, recent>> PROVE Once
  BY <1>1, <1>f DEF Once
<1>2. ASSUME UNCHANGED callVars, tunnels' = tunnels, NEW g \in Gens
      PROVE  /\ Served(g) => Served(g)'
             /\ Untouched(g) /\ ~listening'[g] => Untouched(g)'
  BY <1>2, BooksAlone DEF callVars, offerVars, TunnelsOf
<1>3. ASSUME UNCHANGED <<started, starting, listening>>,
             \A g \in Gens : /\ Served(g) => Served(g)'
                             /\ Untouched(g) /\ ~listening'[g] => Untouched(g)'
      PROVE  CallsInv'
  BY <1>3 DEF CallsInv, Untouched
<1>4. CASE StartServer
  <2>1. /\ started' = started + 1 /\ starting' = started + 1 /\ UNCHANGED callVars
        /\ tunnels' = tunnels /\ listening' = listening
    BY <1>4 DEF StartServer
  <2>2. Once
    BY <1>1, <2>1 DEF callVars
  <2>3. CallsInv'
    <3>1. \A g \in Gens : g > started' \/ g = starting' => g > started
      BY <1>f, <2>1
    <3> QED BY <1>f, <1>2, <2>1, <3>1 DEF CallsInv, Untouched
  <2> QED BY <2>2, <2>3
<1>5. CASE StartSucceeds
  <2>1. /\ started' = started /\ starting' = 0 /\ UNCHANGED callVars /\ tunnels' = tunnels
        /\ listening' = [listening EXCEPT ![starting] = TRUE] /\ starting \in Gens
    BY <1>5 DEF StartSucceeds, TypeOK
  <2>2. Once
    BY <1>1, <2>1 DEF callVars
  <2>3. ASSUME NEW g \in Gens, g # starting
        PROVE  /\ g > started' \/ g = starting' => Untouched(g)'
               /\ listening'[g] => Served(g)'
    <3>1. listening'[g] = listening[g] /\ g # 0
      BY <2>1, <2>3 DEF TypeOK, Gens
    <3>2. g > started => Untouched(g)
      BY DEF CallsInv
    <3>3. listening[g] => Served(g)
      BY DEF CallsInv
    <3>4. Untouched(g) => ~listening[g]
      BY DEF Untouched
    <3> QED BY <1>2, <2>1, <3>1, <3>2, <3>3, <3>4
  <2>4. ASSUME NEW g \in Gens, g = starting PROVE Served(g)' /\ g # 0 /\ g <= started'
    <3>1. Untouched(g)
      BY <2>4 DEF CallsInv
    <3>2. Served(g)
      BY <3>1 DEF Untouched, Served
    <3> QED BY <1>2, <1>f, <2>1, <2>4, <3>2 DEF Gens, CallsInv
  <2>5. starting' <= started'
    BY <1>f, <2>1
  <2> QED BY <1>f, <2>1, <2>2, <2>3, <2>4, <2>5 DEF CallsInv
<1>6. ASSUME NEW k \in Stoppers, BeginStop(k) PROVE CallsInv' /\ Once
  <2>1. UNCHANGED <<started, starting, fallbacks, tunnels>>
    BY <1>6 DEF BeginStop
  <2>2. ASSUME NEW g \in Gens, g = dispatcher
        PROVE  /\ ~listening'[g] /\ active'[g] = {} /\ offers'[g] = {} /\ timers'[g] = {}
               /\ recent'[g] = {}
    BY <1>6, <2>2 DEF BeginStop, StopDispatcher, TypeOK, Gens
  <2>3. ASSUME NEW g \in Gens, g # dispatcher
        PROVE  UNCHANGED <<listening[g], active[g], offers[g], timers[g], recent[g]>>
    BY <1>6, <2>3 DEF BeginStop, StopDispatcher, TypeOK
  <2>4. ASSUME NEW g \in Gens
        PROVE  /\ Untouched(g) => Untouched(g)'
               /\ listening'[g] => listening[g] /\ (Served(g) => Served(g)')
    BY <2>1, <2>2, <2>3 DEF Untouched, Served, TunnelsOf
  <2>5. CallsInv'
    BY <2>1, <2>4 DEF CallsInv
  <2>6. Once
    BY <1>f, <2>2, <2>3 DEF Once
  <2> QED BY <2>5, <2>6
<1>7. ASSUME NEW k \in Stoppers, WatcherClosed(k) PROVE CallsInv' /\ Once
  <2>1. UNCHANGED <<started, starting, listening, tunnels>> /\ UNCHANGED callVars
    BY <1>7 DEF WatcherClosed
  <2>2. Once
    BY <1>1, <2>1 DEF callVars
  <2> QED BY <1>2, <1>3, <2>1, <2>2
<1>8. ASSUME NEW k \in Stoppers, StopEnds(k) PROVE CallsInv' /\ Once
  <2>1. /\ UNCHANGED <<started, listening, tunnels>> /\ UNCHANGED callVars
        /\ starting' = starting \/ starting' = 0
    BY <1>8 DEF StopEnds
  <2>2. Once
    BY <1>1, <2>1 DEF callVars
  <2>3. starting' <= started' /\ \A g \in Gens : g # 0
    BY <1>f, <2>1 DEF CallsInv, Gens
  <2>4. CallsInv'
    BY <1>2, <2>1, <2>3 DEF CallsInv, Untouched
  <2> QED BY <2>2, <2>4
<1>9. ASSUME NEW g \in Gens, NEW c \in Calls, Spawn(g, c), ~Untouched(g),
             UNCHANGED <<started, starting, listening>>,
             \A h \in Gens \ {g} : fallbacks'[h] = fallbacks[h]
      PROVE  CallsInv' /\ Once
  <2>1. /\ Served(g) => Served(g)'
        /\ \A h \in Gens \ {g} :
             /\ UNCHANGED <<active[h], offers[h], timers[h], recent[h]>>
             /\ TunnelsOf(h)' = TunnelsOf(h)
        /\ active[g] \subseteq active'[g] /\ recent[g] \cap active'[g] \subseteq active[g]
        /\ recent' = recent
    BY <1>9, SpawnServes
  <2>2. ASSUME NEW h \in Gens \ {g}
        PROVE  /\ Served(h) => Served(h)'
               /\ Untouched(h) /\ ~listening'[h] => Untouched(h)'
    BY <1>9, <2>1, BooksAlone
  <2>3. CallsInv'
    BY <1>3, <1>9, <2>1, <2>2
  <2>4. Once
    BY <1>f, <2>1 DEF Once
  <2> QED BY <2>3, <2>4
<1>10. ASSUME NEW g \in Gens, NEW c \in Calls, Offer(g, c) \/ Push(g, c) PROVE CallsInv' /\ Once
  <2>1. UNCHANGED <<started, starting, listening>> /\ listening[g]
    BY <1>10 DEF Offer, Push, controllerVars
  <2>2. CASE Spawn(g, c) /\ UNCHANGED fallbacks
    BY <1>9, <2>1, <2>2 DEF Untouched
  <2>3. CASE UNCHANGED callVars /\ UNCHANGED tunnels
    <3>1. Once
      BY <1>1, <2>3 DEF callVars
    <3> QED BY <1>2, <1>3, <2>1, <2>3, <3>1
  <2>4. CASE /\ c \notin recent[g] \cup active[g] \cup offers[g]
             /\ offers' = [offers EXCEPT ![g] = @ \cup {c}]
             /\ timers' = [timers EXCEPT ![g] = @ \cup {c}]
             /\ UNCHANGED <<active, recent, fallbacks, tunnels>>
    <3>1. \A h \in Gens \ {g} : UNCHANGED <<offers[h], timers[h]>>
      BY <2>4 DEF TypeOK
    <3>2. offers'[g] = offers[g] \cup {c}
      BY <2>4 DEF TypeOK
    <3>3. Served(g) => Served(g)'
      BY <2>4, <3>2 DEF Served, TunnelsOf
    <3>4. ASSUME NEW h \in Gens \ {g}
          PROVE  /\ Served(h) => Served(h)'
                 /\ Untouched(h) /\ ~listening'[h] => Untouched(h)'
      BY <2>4, <3>1, BooksAlone DEF TunnelsOf
    <3>5. Once
      BY <1>1, <2>4
    <3> QED BY <1>3, <2>1, <3>3, <3>4, <3>5 DEF Untouched
  <2>5. \/ Spawn(g, c) /\ UNCHANGED fallbacks
        \/ UNCHANGED callVars /\ UNCHANGED tunnels
        \/ /\ c \notin recent[g] \cup active[g] \cup offers[g]
           /\ offers' = [offers EXCEPT ![g] = @ \cup {c}]
           /\ timers' = [timers EXCEPT ![g] = @ \cup {c}]
           /\ UNCHANGED <<active, recent, fallbacks, tunnels>>
    BY <1>10 DEF Offer, Push, QueueOffer
  <2> QED BY <2>2, <2>3, <2>4, <2>5
<1>11. ASSUME NEW g \in Gens, NEW c \in Calls, FallbackTimer(g, c) PROVE CallsInv' /\ Once
  <2>1. /\ UNCHANGED <<started, starting, listening, active, recent, tunnels>>
        /\ c \in timers[g]
    BY <1>11 DEF FallbackTimer, controllerVars
  <2>2. offers'[g] \subseteq offers[g] /\ \A h \in Gens \ {g} :
          UNCHANGED <<offers[h], timers[h]>> /\ fallbacks'[h] \subseteq fallbacks[h]
    BY <1>11 DEF FallbackTimer, RestartWatcher, ClearPending, Without, TypeOK
  <2>3. ASSUME NEW h \in Gens \ {g}
        PROVE  /\ Served(h) => Served(h)'
               /\ Untouched(h) /\ ~listening'[h] => Untouched(h)'
    BY <2>1, <2>2, BooksAlone DEF TunnelsOf
  <2>4. ~Untouched(g) /\ (Served(g) => Served(g)')
    BY <2>1, <2>2 DEF Untouched, Served, TunnelsOf
  <2> QED BY <1>1, <1>3, <2>1, <2>3, <2>4
<1>12. ASSUME NEW g \in Gens, NEW f \in fallbacks[g], FallbackResumes(g, f)
       PROVE  CallsInv' /\ Once
  <2>1. UNCHANGED <<started, starting, listening>> /\ Spawn(g, f.call) /\ f.call \in Calls
    BY <1>12 DEF FallbackResumes, controllerVars, TypeOK, Fallbacks
  <2>2. \A h \in Gens \ {g} : fallbacks'[h] = fallbacks[h]
    BY <1>12 DEF FallbackResumes, TypeOK
  <2>3. ~Untouched(g)
    BY <2>1 DEF Untouched
  <2> QED BY <1>9, <2>1, <2>2, <2>3
<1>13. ASSUME NEW g \in Gens, NEW c \in Calls, Forget(g, c) PROVE CallsInv' /\ Once
  <2>1. /\ UNCHANGED <<started, starting, listening, active, offers, timers, fallbacks, tunnels>>
        /\ c \in recent[g]
    BY <1>13 DEF Forget, controllerVars, offerVars
  <2>2. recent'[g] \subseteq recent[g] /\ \A h \in Gens \ {g} : recent'[h] = recent[h]
    BY <1>13 DEF Forget, Without, TypeOK
  <2>3. ASSUME NEW h \in Gens \ {g}
        PROVE  /\ Served(h) => Served(h)'
               /\ Untouched(h) /\ ~listening'[h] => Untouched(h)'
    BY <2>1, <2>2, BooksAlone DEF TunnelsOf
  <2>4. ~Untouched(g) /\ (Served(g) => Served(g)')
    BY <2>1, <2>2 DEF Untouched, Served, TunnelsOf
  <2>5. Once
    BY <1>f, <2>1 DEF Once
  <2> QED BY <1>3, <2>1, <2>3, <2>4, <2>5
<1>14. ASSUME NEW gone \in SUBSET tunnels, End(gone), UNCHANGED controllerVars,
              UNCHANGED listening
       PROVE  CallsInv' /\ Once
  <2>1. ASSUME NEW g \in Gens
        PROVE  /\ Served(g) => Served(g)'
               /\ Untouched(g) /\ ~listening'[g] => Untouched(g)'
               /\ active[g] \subseteq active'[g] \cup recent'[g] /\ active'[g] \subseteq active[g]
    BY <1>14, EndServes
  <2>2. CallsInv'
    BY <1>3, <1>14, <2>1 DEF controllerVars
  <2>3. Once
    BY <1>f, <2>1 DEF Once
  <2> QED BY <2>2, <2>3
<1>15. ASSUME NEW t \in tunnels, NEW u, u.gen = t.gen, u.call = t.call, Becomes(t, u),
              UNCHANGED callVars, UNCHANGED controllerVars, UNCHANGED listening
       PROVE  CallsInv' /\ Once
  <2>1. ASSUME NEW g \in Gens
        PROVE  (Served(g) => Served(g)') /\ (Untouched(g) => Untouched(g)')
    BY <1>15, BecomesServes
  <2>2. CallsInv'
    BY <1>3, <1>15, <2>1 DEF controllerVars
  <2>3. Once
    BY <1>1, <1>15 DEF callVars
  <2> QED BY <2>2, <2>3
<1>16. ASSUME NEW t \in tunnels, Joined(t) PROVE CallsInv' /\ Once
  <2>1. /\ [t EXCEPT !.at = "handshake"].gen = t.gen
        /\ [t EXCEPT !.at = "handshake"].call = t.call
    BY DEF TypeOK, Tunnels
  <2> QED BY <1>15, <1>16, <2>1 DEF Joined
<1>17. ASSUME NEW t \in tunnels, Ends(t) PROVE CallsInv' /\ Once
  BY <1>14, <1>17 DEF Ends
<1>18. ASSUME NEW t \in tunnels, NEW id \in Ids, HandshakeDone(t, id) PROVE CallsInv' /\ Once
  <2> DEFINE u == [t EXCEPT !.at = "run", !.client = id, !.record = Recorded(t, id)]
  <2>1. u.gen = t.gen /\ u.call = t.call
    BY DEF TypeOK, Tunnels
  <2>2. UNCHANGED controllerVars /\ UNCHANGED listening
    BY <1>18 DEF HandshakeDone
  <2>3. \/ Becomes(t, u) /\ UNCHANGED callVars
        \/ End({t})
    BY <1>18 DEF HandshakeDone
  <2> HIDE DEF u
  <2> QED BY <1>14, <1>15, <2>1, <2>2, <2>3
<1>19. ASSUME NEW id \in Clients, DeleteClient(id) PROVE CallsInv' /\ Once
  <2>1. {t \in Known : t.at = "run" /\ t.record = id} \subseteq tunnels
    BY DEF Known
  <2> QED BY <1>14, <1>19, <2>1 DEF DeleteClient
<1>20. CASE UNCHANGED vars
  <2>1. /\ UNCHANGED <<started, starting, listening, tunnels>> /\ UNCHANGED callVars
    BY <1>20 DEF vars, controllerVars
  <2>2. Once
    BY <1>1, <2>1 DEF callVars
  <2> QED BY <1>2, <1>3, <2>1, <2>2
<1> QED
  BY <1>4, <1>5, <1>6, <1>7, <1>8, <1>10, <1>11, <1>12, <1>13, <1>16, <1>17, <1>18, <1>19, <1>20
  DEF Next, StopServer, StartFails, FailedStart, Stoppers, BoundsAssumption

(* While a dispatcher listens, each call it has taken up has one tunnel,
   however often offers are repeated and whichever of push and fallback
   comes first (spawnMeetTunnel, finishMeetCall, stop). *)
THEOREM OneTunnelEachCall == Spec => []OneTunnelPerCall
<1>1. Init => CallsInv
  BY DEF Init, CallsInv, Untouched, TunnelsOf, Gens
<1>2. CallsInv => OneTunnelPerCall
  BY ServedIsOneTunnel DEF CallsInv
<1> QED BY <1>1, <1>2, CallsStep, TypeCorrect, PTL DEF Spec

(* A call that was taken up stays in the books of a dispatcher at work until
   it is forgotten, and is not taken up again (recentlyFinishedMeetCalls). *)
THEOREM EachCallServedOnce == Spec => ServedOnce
<1>1. Init => CallsInv
  BY DEF Init, CallsInv, Untouched, TunnelsOf, Gens
<1>2. TypeOK /\ CallsInv /\ [Next]_vars =>
        [\A g \in Gens : listening[g] /\ listening'[g] =>
           /\ active[g] \subseteq active'[g] \cup recent'[g]
           /\ recent[g] \cap active'[g] = {}]_vars
  BY CallsStep DEF Once
<1> QED BY <1>1, <1>2, CallsStep, TypeCorrect, PTL DEF Spec, ServedOnce
=============================================================================
