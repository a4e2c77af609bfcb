------------------------- MODULE IncomingCallsProofs -------------------------
(***************************************************************************)
(* Proofs about the two ways a server hears of calls, and about the wire   *)
(* format it hears them in.                                                *)
(*                                                                         *)
(* CallWatcher: its types, and the three invariants that make the listener *)
(* safe, for any number of calls and losses.                               *)
(*                                                                         *)
(* MessagePoller: what it hands on is in order and without a repetition,   *)
(* and is exactly what its watermarks have passed, for any dialogs, pages  *)
(* and failures.                                                           *)
(*                                                                         *)
(* Protobuf: the reader gets back what the writer wrote, for every number, *)
(* byte string and width.                                                  *)
(***************************************************************************)
EXTENDS CallWatcher, MessagePoller, Protobuf, SequenceTheorems, FiniteSetTheorems, TLAPS

-----------------------------------------------------------------------------
(* CallWatcher *)

Leaving == {"closing", "aborting", "gone"}

(* How the sockets socks stand when current is the current one: an open
   watcher has no live socket but that one, and it is alive; of a closed one
   a single socket may be on its way out. *)
Safe(socks, current, shut) ==
  /\ socks \in Seq(SocketStates) /\ current \in 0..Len(socks)
  /\ ~shut => \A s \in 1..Len(socks) : socks[s] # "gone" <=> s = current
  /\ shut => /\ current = 0
             /\ \A s \in 1..Len(socks) : socks[s] \in Leaving
             /\ \A s, r \in 1..Len(socks) : socks[s] # "gone" /\ socks[r] # "gone" => r = s

(* The inductive invariant: the sockets are safe, a closed watcher has no
   timer, and one that runs has a socket or the timer that makes one. *)
WatcherInv ==
  /\ TypeOK
  /\ Safe(sock, ws, closed)
  /\ closed => ~reconnect /\ ~pinging
  /\ started /\ ~closed => ws # 0 \/ reconnect

(* The invariant gives the three properties. *)
LEMMA WatcherSafe == WatcherInv => OneSocket /\ ClosedForGood /\ NeverAbandoned
  BY DEF WatcherInv, Safe, Leaving, OneSocket, ClosedForGood, NeverAbandoned, TypeOK

LEMMA InitWatcher == Init => WatcherInv
<1> SUFFICES ASSUME Init PROVE WatcherInv
  OBVIOUS
<1>1. sock = <<>> /\ ready = <<>> /\ calls = <<>> /\ Len(sock) = 0
  BY DEF Init
<1>2. /\ sock \in Seq(SocketStates)
      /\ ready \in Seq({"pending", "ok", "failed"})
      /\ calls \in Seq([own : Nat, gen : Nat])
  BY <1>1, EmptySeq
<1>3. /\ started = FALSE /\ closed = FALSE /\ ws = 0 /\ pinging = FALSE
      /\ reconnect = FALSE /\ restartRequested = FALSE /\ drops = 0
  BY DEF Init
<1>4. ws \in 0..Len(sock)
  BY <1>1, <1>3
<1>5. TypeOK
  BY <1>2, <1>3, <1>4 DEF TypeOK
<1> QED
  BY <1>1, <1>2, <1>3, <1>4, <1>5 DEF WatcherInv, Safe

-----------------------------------------------------------------------------
(* What the operations do to sockets that are safe. *)

(* Writing one socket. *)
LEMMA NowIs ==
  ASSUME sock \in Seq(SocketStates), NEW s \in 1..Len(sock), NEW st \in SocketStates
  PROVE  /\ Now(s, st) \in Seq(SocketStates) /\ Len(Now(s, st)) = Len(sock)
         /\ \A r \in 1..Len(sock) : Now(s, st)[r] = IF r = s THEN st ELSE sock[r]
  BY ExceptSeq DEF Now

(* Closing the current socket, in a restart or for good. *)
LEMMA HangupSafe ==
  ASSUME Safe(sock, ws, FALSE), ws # 0
  PROVE  Safe(Hangup(ws), ws, FALSE) /\ Safe(Hangup(ws), 0, TRUE)
<1> DEFINE st == IF sock[ws] = "connecting" THEN "aborting"
                 ELSE IF sock[ws] = "open" THEN "closing" ELSE sock[ws]
<1>1. /\ sock \in Seq(SocketStates) /\ ws \in 1..Len(sock)
      /\ \A s \in 1..Len(sock) : sock[s] # "gone" <=> s = ws
  BY DEF Safe
<1>2. sock[ws] \in SocketStates /\ sock[ws] # "gone"
  BY <1>1, ElementOfSeq
<1>3. st \in Leaving \ {"gone"} /\ st \in SocketStates
  BY <1>2 DEF Leaving, SocketStates
<1> HIDE DEF st
<1>4. /\ Now(ws, st) \in Seq(SocketStates) /\ Len(Now(ws, st)) = Len(sock)
      /\ \A r \in 1..Len(sock) : Now(ws, st)[r] = IF r = ws THEN st ELSE sock[r]
  BY <1>1, <1>3, NowIs
<1>5. Hangup(ws) = Now(ws, st)
  BY DEF Hangup, st
<1> QED
  BY <1>1, <1>3, <1>4, <1>5 DEF Safe, Leaving

(* A socket that was alive is gone. *)
LEMMA GoneSafe ==
  ASSUME Safe(sock, ws, closed), closed \in BOOLEAN, NEW s \in 1..Len(sock)
  PROVE  Safe(Now(s, "gone"), IF ws = s THEN 0 ELSE ws, closed)
<1>1. sock \in Seq(SocketStates) /\ ws \in 0..Len(sock) /\ "gone" \in SocketStates
  BY DEF Safe, SocketStates
<1>2. /\ Now(s, "gone") \in Seq(SocketStates) /\ Len(Now(s, "gone")) = Len(sock)
      /\ \A r \in 1..Len(sock) : Now(s, "gone")[r] = IF r = s THEN "gone" ELSE sock[r]
  BY <1>1, NowIs
<1> QED
  BY <1>1, <1>2 DEF Safe, Leaving

(* A live socket of a watcher that is open changes, and stays alive. *)
LEMMA ChangeSafe ==
  ASSUME Safe(sock, ws, FALSE), NEW s \in 1..Len(sock), sock[s] # "gone",
         NEW st \in SocketStates, st # "gone"
  PROVE  Safe(Now(s, st), ws, FALSE)
<1>1. sock \in Seq(SocketStates)
  BY DEF Safe
<1>2. /\ Now(s, st) \in Seq(SocketStates) /\ Len(Now(s, st)) = Len(sock)
      /\ \A r \in 1..Len(sock) : Now(s, st)[r] = IF r = s THEN st ELSE sock[r]
  BY <1>1, NowIs
<1> QED
  BY <1>1, <1>2 DEF Safe

(* connect() makes a socket only where there is none. *)
LEMMA ConnectSafe ==
  ASSUME closed \in BOOLEAN, NEW socks, NEW current, Safe(socks, current, closed),
         Connect(socks, current)
  PROVE  Safe(sock', ws', closed) /\ (~closed => ws' # 0)
<1>1. CASE closed \/ current # 0
  BY <1>1 DEF Connect
<1>2. CASE ~closed /\ current = 0
  <2>1. /\ sock' = Append(socks, "connecting") /\ ws' = Len(socks) + 1
        /\ socks \in Seq(SocketStates) /\ "connecting" \in SocketStates
    BY <1>2 DEF Connect, Safe, SocketStates
  <2>2. /\ sock' \in Seq(SocketStates) /\ Len(sock') = Len(socks) + 1
        /\ \A s \in 1..Len(socks) : sock'[s] = socks[s]
        /\ sock'[Len(socks) + 1] = "connecting" /\ Len(socks) \in Nat
    BY <2>1, AppendProperties, LenProperties
  <2>3. \A s \in 1..Len(socks) : socks[s] = "gone"
    BY <1>2, <2>2 DEF Safe
  <2> QED
    BY <1>2, <2>1, <2>2, <2>3 DEF Safe
<1> QED
  BY <1>1, <1>2

-----------------------------------------------------------------------------
(* Promises and calls keep their types. *)

LEMMA SettleType ==
  ASSUME ready \in Seq({"pending", "ok", "failed"}), NEW how \in {"ok", "failed"}, Settle(how)
  PROVE  ready' \in Seq({"pending", "ok", "failed"})
<1>1. Len(ready) \in Nat /\ \A g \in 1..Len(ready) : ready[g] \in {"pending", "ok", "failed"}
  BY LenProperties, ElementOfSeq
<1> QED
  BY <1>1 DEF Settle

LEMMA AppendPending ==
  ASSUME ready \in Seq({"pending", "ok", "failed"})
  PROVE  Len(ready) \in Nat /\ Append(ready, "pending") \in Seq({"pending", "ok", "failed"})
  BY LenProperties, AppendProperties

LEMMA CallsType ==
  ASSUME calls \in Seq([own : Nat, gen : Nat]), NEW own \in Nat, NEW gen \in Nat
  PROVE  Append(calls, Call(own, gen)) \in Seq([own : Nat, gen : Nat])
  BY DEF Call

(* The close handler, and all that closes a socket. *)
LEMMA ClosesStep ==
  ASSUME WatcherInv, NEW s \in 1..Len(sock), sock[s] # "gone", Closes(s)
  PROVE  /\ Safe(sock', ws', closed') /\ started' = started /\ closed' = closed
         /\ (closed' => ~reconnect' /\ ~pinging')
         /\ (started' /\ ~closed' => ws' # 0 \/ reconnect')
         /\ pinging' \in BOOLEAN /\ reconnect' \in BOOLEAN
         /\ restartRequested' \in BOOLEAN /\ calls' = calls
<1> DEFINE socks == Now(s, "gone")
           current == IF ws = s THEN 0 ELSE ws
<1>1. Safe(socks, current, closed)
  BY GoneSafe DEF WatcherInv, TypeOK
<1> HIDE DEF socks, current
<1>2. /\ ClosedThen(socks, current)
      /\ pinging' = FALSE /\ UNCHANGED <<started, closed, calls>>
  BY DEF Closes, socks, current
<1>3. CASE closed
  <2>1. /\ sock' = socks /\ ws' = current
        /\ UNCHANGED <<restartRequested, reconnect>>
    BY <1>2, <1>3 DEF ClosedThen
  <2> QED
    BY <1>1, <1>2, <1>3, <2>1 DEF WatcherInv, TypeOK
<1>4. CASE ~closed /\ restartRequested
  <2>1. Connect(socks, current) /\ restartRequested' = FALSE /\ UNCHANGED reconnect
    BY <1>2, <1>4 DEF ClosedThen
  <2>2. Safe(sock', ws', closed) /\ ws' # 0
    BY <1>1, <1>4, <2>1, ConnectSafe DEF WatcherInv, TypeOK
  <2> QED
    BY <1>2, <1>4, <2>1, <2>2 DEF WatcherInv, TypeOK
<1>5. CASE ~closed /\ ~restartRequested
  BY <1>1, <1>2, <1>5 DEF ClosedThen, WatcherInv, TypeOK
<1> QED
  BY <1>3, <1>4, <1>5 DEF WatcherInv, TypeOK

-----------------------------------------------------------------------------
(* Every step keeps the invariant. *)

LEMMA StartStep ==
  ASSUME WatcherInv, Start
  PROVE  WatcherInv'
<1> USE DEF WatcherInv, TypeOK
<1>1. /\ Len(ready) \in Nat /\ Len(ready) + 1 \in Nat
      /\ Append(ready, "pending") \in Seq({"pending", "ok", "failed"})
  BY AppendPending
<1>2. ready' \in Seq({"pending", "ok", "failed"})
  BY <1>1 DEF Start
<1>3. \A own, gen \in Nat : Append(calls, Call(own, gen)) \in Seq([own : Nat, gen : Nat])
  BY CallsType
<1>4. calls' \in Seq([own : Nat, gen : Nat])
  BY <1>1, <1>3 DEF Start
<1>5. Safe(sock', ws', closed) /\ (started' /\ ~closed => ws' # 0 \/ reconnect)
  <2>1. CASE started
    BY <2>1 DEF Start
  <2>2. CASE ~started
    BY <2>2, ConnectSafe DEF Start
  <2> QED BY <2>1, <2>2
<1>6. /\ started' \in BOOLEAN /\ UNCHANGED <<closed, pinging, reconnect, restartRequested, drops>>
  BY DEF Start, timers
<1> QED
  BY <1>2, <1>4, <1>5, <1>6 DEF Safe

LEMMA RestartStep ==
  ASSUME WatcherInv, Restart
  PROVE  WatcherInv'
<1> USE DEF WatcherInv, TypeOK
<1>1. /\ Len(ready) \in Nat /\ Len(ready) + 1 \in Nat
      /\ Append(ready, "pending") \in Seq({"pending", "ok", "failed"})
  BY AppendPending
<1>2. ready' \in Seq({"pending", "ok", "failed"})
  BY <1>1 DEF Restart
<1>3. \A own, gen \in Nat : Append(calls, Call(own, gen)) \in Seq([own : Nat, gen : Nat])
  BY CallsType
<1>4. calls' \in Seq([own : Nat, gen : Nat])
  BY <1>1, <1>3 DEF Restart
<1>5. ~closed /\ closed' = FALSE /\ started' = TRUE /\ drops' = drops
      /\ pinging' = FALSE /\ reconnect' = FALSE /\ restartRequested' \in BOOLEAN
  BY DEF Restart
<1>6. Safe(sock', ws', FALSE) /\ ws' # 0
  <2>1. CASE ws = 0
    BY <1>5, <2>1, ConnectSafe DEF Restart
  <2>2. CASE ws # 0
    <3>1. sock' = Hangup(ws) /\ ws' = ws
      BY <2>2 DEF Restart
    <3> QED
      BY <1>5, <2>2, <3>1, HangupSafe
  <2> QED BY <2>1, <2>2
<1> QED
  BY <1>2, <1>4, <1>5, <1>6 DEF Safe

LEMMA CloseStep ==
  ASSUME WatcherInv, Close
  PROVE  WatcherInv'
<1> USE DEF WatcherInv, TypeOK
<1>1. Safe(sock, ws, FALSE)
  BY DEF Close
<1>2. Safe(sock', 0, TRUE)
  <2>1. CASE ws = 0
    BY <1>1, <2>1 DEF Close, Safe, Leaving
  <2>2. CASE ws # 0
    BY <1>1, <2>2, HangupSafe DEF Close
  <2> QED BY <2>1, <2>2
<1>3. /\ closed' = TRUE /\ started' = FALSE /\ restartRequested' = FALSE
      /\ pinging' = FALSE /\ reconnect' = FALSE /\ ws' = 0
      /\ UNCHANGED <<ready, calls, drops>>
  BY DEF Close
<1> QED
  BY <1>2, <1>3 DEF Safe

LEMMA ReconnectStep ==
  ASSUME WatcherInv, ReconnectTimer
  PROVE  WatcherInv'
<1> USE DEF WatcherInv, TypeOK
<1>1. Connect(sock, ws) /\ reconnect' = FALSE
      /\ UNCHANGED <<started, closed, pinging, restartRequested, ready, calls, drops>>
  BY DEF ReconnectTimer
<1>2. Safe(sock', ws', closed) /\ (~closed => ws' # 0)
  BY <1>1, ConnectSafe
<1> QED
  BY <1>1, <1>2 DEF Safe

LEMMA RestartGoesOnStep ==
  ASSUME WatcherInv, NEW i \in 1..Len(calls), RestartGoesOn(i)
  PROVE  WatcherInv'
<1> USE DEF WatcherInv, TypeOK
<1>1. calls' \in Seq([own : Nat, gen : Nat])
  <2>1. calls[i] \in [own : Nat, gen : Nat] /\ Len(ready) \in Nat
    BY ElementOfSeq, LenProperties
  <2>2. Call(calls[i].own, Len(ready)) \in [own : Nat, gen : Nat]
    BY <2>1 DEF Call
  <2> QED
    BY <2>2, ExceptSeq DEF RestartGoesOn
<1>2. /\ UNCHANGED <<started, closed, pinging, reconnect, ready, drops>>
      /\ restartRequested' \in BOOLEAN
  BY DEF RestartGoesOn, timers
<1>3. Safe(sock', ws', closed) /\ (started /\ ~closed => ws' # 0 \/ reconnect)
  <2>1. CASE ws = 0 /\ restartRequested
    BY <2>1, ConnectSafe DEF RestartGoesOn
  <2>2. CASE ~(ws = 0 /\ restartRequested)
    BY <2>2 DEF RestartGoesOn
  <2> QED BY <2>1, <2>2
<1> QED
  BY <1>1, <1>2, <1>3 DEF Safe

LEMMA SocketStepKeeps ==
  ASSUME WatcherInv, NEW s \in 1..Len(sock), SocketStep(s)
  PROVE  WatcherInv'
<1> USE DEF WatcherInv, TypeOK
<1>1. ASSUME Refused(s) \/ Aborted(s) \/ Lost(s) \/ ClosingDone(s) PROVE WatcherInv'
  <2>1. sock[s] # "gone" /\ Closes(s) /\ drops' \in Nat
    BY <1>1 DEF Refused, Aborted, Lost, ClosingDone
  <2>2. ready' \in Seq({"pending", "ok", "failed"})
    BY <1>1, SettleType DEF Refused, Aborted, Lost, ClosingDone
  <2> QED
    BY <2>1, <2>2, ClosesStep DEF Safe
<1>2. ASSUME Opened(s) \/ Broken(s) PROVE WatcherInv'
  <2>1. PICK st \in {"open", "closing"} : sock' = Now(s, st)
    BY <1>2 DEF Opened, Broken
  <2>2. sock[s] \in {"connecting", "open"} /\ drops' \in Nat /\ pinging' \in BOOLEAN
        /\ UNCHANGED <<started, closed, ws, reconnect, restartRequested, calls>>
    <3>1. CASE Opened(s)
      BY <3>1 DEF Opened
    <3>2. CASE Broken(s)
      BY <3>2 DEF Broken, timers
    <3> QED BY <1>2, <3>1, <3>2
  <2>3. ~closed
    BY <2>2 DEF Safe, Leaving
  <2>4. Safe(sock', ws', FALSE)
    BY <2>1, <2>2, <2>3, ChangeSafe DEF SocketStates
  <2>5. ready' \in Seq({"pending", "ok", "failed"})
    BY <1>2, SettleType DEF Opened, Broken
  <2> QED
    BY <2>2, <2>3, <2>4, <2>5 DEF Safe
<1> QED
  BY <1>1, <1>2 DEF SocketStep

(* The invariant holds of every behaviour, with any number of calls of start
   and restart and any number of losses. *)
THEOREM WatcherInvariant == Spec => []WatcherInv
<1>1. WatcherInv /\ [Next]_vars => WatcherInv'
  <2> SUFFICES ASSUME WatcherInv, [Next]_vars PROVE WatcherInv'
    OBVIOUS
  <2>1. CASE UNCHANGED vars
    BY <2>1 DEF vars, timers, WatcherInv, TypeOK, Safe
  <2>2. CASE Next
    BY <2>2, StartStep, RestartStep, CloseStep, ReconnectStep, RestartGoesOnStep,
       SocketStepKeeps DEF Next
  <2> QED BY <2>1, <2>2
<1> QED
  BY <1>1, InitWatcher, PTL DEF Spec

(* The watcher never listens twice. *)
THEOREM ListensOnce == Spec => []OneSocket
  BY WatcherInvariant, WatcherSafe, PTL

(* Nothing opens or pings after close(). *)
THEOREM StaysClosed == Spec => []ClosedForGood
  BY WatcherInvariant, WatcherSafe, PTL

(* A watcher that runs always has a socket or the timer that makes one. *)
THEOREM NeverIdle == Spec => []NeverAbandoned
  BY WatcherInvariant, WatcherSafe, PTL
-----------------------------------------------------------------------------
(* MessagePoller: what is proved by counting. *)

(* A set of natural numbers has a least one: among the intervals that end in
   one of its elements one is least. *)
LEMMA LeastNumber ==
  ASSUME NEW C \in SUBSET Nat, C # {}
  PROVE  \E n \in C : \A k \in C : n <= k
<1>1. PICK x \in C : TRUE
  OBVIOUS
<1> DEFINE D == {T \in SUBSET (0..x) : \E n \in C : T = 0..n}
<1>2. IsWellFoundedOn(StrictSubsetOrdering(0..x), SUBSET (0..x))
  <2>1. IsFiniteSet(0..x)
    BY FS_Interval
  <2> QED BY <2>1, FS_StrictSubsetOrderingWellFounded, FS_FiniteSubsetsOfFinite
<1>3. D \subseteq SUBSET (0..x) /\ 0..x \in D
  BY <1>1
<1>4. \E T \in D : \A U \in D : ~(<<U, T>> \in StrictSubsetOrdering(0..x))
  <2> HIDE DEF D
  <2> QED BY <1>2, <1>3, WFMin
<1>5. \E T \in D : \A U \in D : U \subseteq T => U = T
  <2> HIDE DEF D
  <2> QED BY <1>3, <1>4 DEF StrictSubsetOrdering
<1>6. PICK n \in C : n \in Nat /\ 0..n \in D /\ \A U \in D : U \subseteq 0..n => U = 0..n
  BY <1>5
<1>7. ASSUME NEW k \in C, k < n PROVE FALSE
  <2>1. k \in Nat /\ 0..k \subseteq 0..n /\ n \notin 0..k /\ n \in 0..n
    BY <1>6, <1>7
  <2>2. 0..k \in D
    BY <1>6, <1>7, <2>1
  <2>3. 0..k = 0..n
    <3> HIDE DEF D
    <3> QED BY <1>6, <2>1, <2>2
  <2> QED BY <2>1, <2>3
<1> QED BY <1>6, <1>7

LEMMA GreatestNumber ==
  ASSUME NEW C \in SUBSET Nat, C # {}, NEW b \in Nat, \A n \in C : n <= b
  PROVE  \E n \in C : \A k \in C : k <= n
<1> DEFINE D == {b - n : n \in C}
<1>1. D \in SUBSET Nat /\ D # {}
  <2>1. \A n \in C : b - n \in Nat /\ b - n \in D
    OBVIOUS
  <2> QED BY <2>1
<1>2. PICK d \in D : \A k \in D : d <= k
  <2> HIDE DEF D
  <2> QED BY <1>1, LeastNumber
<1>3. PICK n \in C : d = b - n
  BY <1>2
<1>4. ASSUME NEW k \in C PROVE k <= n
  <2>1. b - k \in D
    BY <1>4
  <2>2. b - n <= b - k
    BY <1>2, <1>3, <2>1
  <2> QED BY <1>3, <1>4, <2>2
<1> QED BY <1>4

-----------------------------------------------------------------------------
(* The loop over a history.  Absorbed is the last value of a function defined
   by recursion; that there is one is shown by induction on how far it goes. *)

Loop(g, s, w, out, n) ==
  g = [i \in 0..n |-> IF i = 0 THEN [w |-> w, out |-> out] ELSE Taken(g[i - 1], s[i])]

TheLoop(s, w, out) == CHOOSE g : Loop(g, s, w, out, Len(s))

LEMMA AbsorbedIsLast ==
  ASSUME NEW s, NEW w, NEW out
  PROVE  Absorbed(s, w, out) = TheLoop(s, w, out)[Len(s)]
BY DEF Absorbed, TheLoop, Loop

LEMMA LoopExists ==
  ASSUME NEW s, NEW w, NEW out
  PROVE  \A n \in Nat : \E g : Loop(g, s, w, out, n)
<1> DEFINE C == {n \in Nat : ~ \E g : Loop(g, s, w, out, n)}
<1>1. SUFFICES ASSUME C # {} PROVE FALSE
  OBVIOUS
<1>2. PICK n \in C : \A k \in C : n <= k
  <2>1. C \in SUBSET Nat
    OBVIOUS
  <2> HIDE DEF C
  <2> QED BY <1>1, <2>1, LeastNumber
<1>3. n \in Nat /\ ~ \E g : Loop(g, s, w, out, n)
  BY <1>2
<1>4. CASE n = 0
  <2>1. Loop([i \in 0..0 |-> [w |-> w, out |-> out]], s, w, out, 0)
    BY DEF Loop
  <2> QED BY <1>3, <1>4, <2>1
<1>5. CASE n # 0
  <2>1. n - 1 \in Nat /\ n - 1 \notin C
    BY <1>2, <1>3, <1>5
  <2>2. PICK g : Loop(g, s, w, out, n - 1)
    BY <2>1
  <2> DEFINE First(i) == IF i = 0 THEN [w |-> w, out |-> out] ELSE Taken(g[i - 1], s[i])
             h == [i \in 0..n |-> First(i)]
  <2>3. \A i \in 0..(n - 1) : g[i] = First(i)
    BY <2>2 DEF Loop
  <2> HIDE DEF First
  <2>4. \A i \in 0..(n - 1) : h[i] = g[i]
    BY <1>3, <1>5, <2>3
  <2>5. \A i \in 0..n : First(i) = IF i = 0 THEN [w |-> w, out |-> out] ELSE Taken(h[i - 1], s[i])
    <3> HIDE DEF h
    <3> QED BY <1>3, <1>5, <2>4 DEF First
  <2>6. Loop(h, s, w, out, n)
    BY <2>5 DEF Loop
  <2> QED BY <1>3, <2>6
<1> QED BY <1>4, <1>5

(* What the loop does at each turn. *)
LEMMA LoopTurns ==
  ASSUME NEW s, Len(s) \in Nat, NEW w, NEW out, NEW acc, acc = TheLoop(s, w, out)
  PROVE  /\ acc[0] = [w |-> w, out |-> out]
         /\ \A n \in 1..Len(s) : acc[n] = Taken(acc[n - 1], s[n])
         /\ Absorbed(s, w, out) = acc[Len(s)]
<1>1. Loop(acc, s, w, out, Len(s))
  BY LoopExists DEF TheLoop
<1>2. acc[0] = [w |-> w, out |-> out]
  BY <1>1 DEF Loop
<1>3. ASSUME NEW n \in 1..Len(s) PROVE acc[n] = Taken(acc[n - 1], s[n])
  <2>1. n \in 0..Len(s) /\ n # 0
    BY <1>3
  <2> QED BY <1>1, <2>1 DEF Loop
<1> QED BY <1>2, <1>3, AbsorbedIsLast

-----------------------------------------------------------------------------
(* The watermark, and the order of what is handed on. *)

Msg == [id : Int, date : Nat, own : BOOLEAN]
Mark == [date : Nat, ids : SUBSET Int, seeded : BOOLEAN]

LEMMA MovedIs ==
  ASSUME NEW w \in Mark, NEW m \in Msg
  PROVE  /\ Moved(w, m) \in Mark
         /\ Moved(w, m).date = m.date /\ Moved(w, m).seeded = w.seeded
         /\ Moved(w, m).ids = (IF m.date > w.date THEN {} ELSE w.ids) \cup {m.id}
<1>1. /\ w.date \in Nat /\ w.ids \in SUBSET Int /\ m.id \in Int /\ m.date \in Nat
  BY DEF Mark, Msg
<1> DEFINE ids == (IF m.date > w.date THEN {} ELSE w.ids) \cup {m.id}
<1>2. Moved(w, m) = [w EXCEPT !.date = m.date, !.ids = ids]
  BY DEF Moved
<1>3. ids \in SUBSET Int
  BY <1>1
<1> HIDE DEF ids
<1>4. /\ [w EXCEPT !.date = m.date, !.ids = ids] \in Mark
      /\ [w EXCEPT !.date = m.date, !.ids = ids].date = m.date
      /\ [w EXCEPT !.date = m.date, !.ids = ids].seeded = w.seeded
      /\ [w EXCEPT !.date = m.date, !.ids = ids].ids = ids
  BY <1>1, <1>3 DEF Mark
<1> QED BY <1>2, <1>4 DEF ids

(* A fresh message moves the watermark on: past itself, and never back. *)
LEMMA MovedOn ==
  ASSUME NEW w \in Mark, NEW m \in Msg, Fresh(m, w)
  PROVE  /\ ~Fresh(m, Moved(w, m))
         /\ \A x \in Msg : ~Fresh(x, w) => ~Fresh(x, Moved(w, m))
         /\ w.date <= Moved(w, m).date
<1>1. w.date \in Nat /\ m.date \in Nat /\ \A x \in Msg : x.date \in Nat
  BY DEF Mark, Msg
<1> QED BY <1>1, MovedIs DEF Fresh

Ordered(out) ==
  \A i, j \in 1..Len(out) : i < j => out[i] # out[j] /\ out[i].date <= out[j].date

(* What was handed on is in order, and the watermark has passed it. *)
Behind(w, out) ==
  /\ w \in Mark /\ out \in Seq(Msg) /\ Ordered(out)
  /\ \A i \in 1..Len(out) : ~Fresh(out[i], w)

LEMMA TakenBehind ==
  ASSUME NEW acc, Behind(acc.w, acc.out), NEW m \in Msg
  PROVE  Behind(Taken(acc, m).w, Taken(acc, m).out) /\ Taken(acc, m).w.seeded = acc.w.seeded
<1> DEFINE w == acc.w
           out == acc.out
           next == Moved(w, m)
<1>1. /\ w \in Mark /\ out \in Seq(Msg) /\ Ordered(out) /\ Len(out) \in Nat
      /\ \A i \in 1..Len(out) : ~Fresh(out[i], w) /\ out[i] \in Msg
  BY LenProperties, ElementOfSeq DEF Behind
<1>2. CASE ~Fresh(m, w)
  BY <1>2 DEF Taken
<1>3. CASE Fresh(m, w)
  <2>1. /\ next \in Mark /\ next.seeded = w.seeded /\ ~Fresh(m, next)
        /\ \A i \in 1..Len(out) : ~Fresh(out[i], next)
    BY <1>1, <1>3, MovedIs, MovedOn
  <2>2. CASE m.own
    <3>1. Taken(acc, m).w = next /\ Taken(acc, m).out = out
      BY <1>3, <2>2 DEF Taken
    <3> QED BY <1>1, <2>1, <3>1 DEF Behind
  <2>3. CASE ~m.own
    <3> DEFINE new == Append(out, m)
    <3>1. Taken(acc, m).w = next /\ Taken(acc, m).out = new
      BY <1>3, <2>3 DEF Taken
    <3>2. /\ new \in Seq(Msg) /\ Len(new) = Len(out) + 1 /\ new[Len(out) + 1] = m
          /\ \A i \in 1..Len(out) : new[i] = out[i]
      BY <1>1, AppendProperties
    <3>3. \A i \in 1..Len(out) : out[i] # m /\ out[i].date <= m.date
      <4>1. w.date \in Nat /\ m.date \in Nat /\ \A i \in 1..Len(out) : out[i].date \in Nat
        BY <1>1 DEF Mark, Msg
      <4> QED BY <1>1, <1>3, <4>1 DEF Fresh
    <3>6. Taken(acc, m).w.seeded = acc.w.seeded
      BY <2>1, <3>1
    <3> HIDE DEF new, next, w, out
    <3>4. Ordered(new)
      BY <1>1, <3>2, <3>3 DEF Ordered
    <3>5. \A i \in 1..Len(new) : ~Fresh(new[i], next)
      BY <1>1, <2>1, <3>2
    <3> QED BY <2>1, <3>1, <3>2, <3>4, <3>5, <3>6 DEF Behind
  <2> QED BY <2>2, <2>3
<1> QED BY <1>2, <1>3

(* So it is at the end of the loop. *)
LEMMA AbsorbedBehind ==
  ASSUME NEW s, Len(s) \in Nat, \A i \in 1..Len(s) : s[i] \in Msg,
         NEW w, NEW out, Behind(w, out)
  PROVE  /\ Behind(Absorbed(s, w, out).w, Absorbed(s, w, out).out)
         /\ Absorbed(s, w, out).w.seeded = w.seeded
<1> DEFINE acc == TheLoop(s, w, out)
           C == {n \in 0..Len(s) : ~(Behind(acc[n].w, acc[n].out) /\ acc[n].w.seeded = w.seeded)}
<1>0. /\ acc[0] = [w |-> w, out |-> out]
      /\ \A i \in 1..Len(s) : acc[i] = Taken(acc[i - 1], s[i])
      /\ Absorbed(s, w, out) = acc[Len(s)]
  <2> HIDE DEF C
  <2> QED BY LoopTurns
<1>1. SUFFICES ASSUME C # {} PROVE FALSE
  <2>1. Len(s) \notin C => Behind(acc[Len(s)].w, acc[Len(s)].out) /\ acc[Len(s)].w.seeded = w.seeded
    OBVIOUS
  <2> HIDE DEF C, acc
  <2> QED BY <1>0, <1>1, <2>1
<1>2. PICK n \in C : \A k \in C : n <= k
  <2>1. C \in SUBSET Nat
    OBVIOUS
  <2> HIDE DEF C
  <2> QED BY <1>1, <2>1, LeastNumber
<1>3. n \in 0..Len(s) /\ ~(Behind(acc[n].w, acc[n].out) /\ acc[n].w.seeded = w.seeded)
  BY <1>2
<1>5. n # 0
  BY <1>0, <1>3
<1>6. n \in 1..Len(s) /\ n - 1 \in 0..Len(s) /\ n - 1 \notin C
  BY <1>2, <1>3, <1>5
<1>7. Behind(acc[n - 1].w, acc[n - 1].out) /\ acc[n - 1].w.seeded = w.seeded
  BY <1>6
<1> HIDE DEF acc, C
<1> QED BY <1>0, <1>3, <1>6, <1>7, TakenBehind

-----------------------------------------------------------------------------
(* What Bale has. *)

(* A dialog's messages at the time now: their ids tell them apart and are those
   of as many messages, and fewer than a page have one date. *)
Proper(msgs, now) ==
  /\ msgs \in SUBSET Msg /\ IsFiniteSet(msgs)
  /\ \A m \in msgs : /\ 1 <= m.date /\ m.date <= now
                     /\ -Cardinality(msgs) <= m.id /\ m.id <= Cardinality(msgs)
  /\ \A m, o \in msgs : m.id = o.id => m = o
  /\ \A d \in Nat : Cardinality({m \in msgs : m.date = d}) < Page

BaleInv ==
  /\ clock \in Nat \ {0} /\ sent \in [Peers -> SUBSET Msg]
  /\ \A p \in Peers : Proper(sent[p], clock)

(* The message that arrives, and what its arrival does. *)
New(p, own, before, date) ==
  [id |-> IF before THEN -(Cardinality(sent[p]) + 1) ELSE Cardinality(sent[p]) + 1,
   date |-> date, own |-> own]

Arrived(p, m) ==
  /\ sent' = [sent EXCEPT ![p] = @ \cup {m}] /\ clock' = m.date /\ clock <= m.date
  /\ UNCHANGED <<walk, looked, mark, pollerClosed, handed, old, since>>
  /\ m.id = Cardinality(sent[p]) + 1 \/ m.id = -(Cardinality(sent[p]) + 1)
  /\ \A o \in sent[p] : o.id # m.id
  /\ Cardinality({o \in sent[p] : o.date = m.date}) < Page - 1

LEMMA SendIs ==
  ASSUME BaleInv, NEW p \in Peers, NEW own \in BOOLEAN, NEW before \in BOOLEAN,
         NEW date \in {clock, clock + 1}, Send(p, own, before, date)
  PROVE  \E m \in Msg : Arrived(p, m)
<1> DEFINE m == New(p, own, before, date)
<1>1. /\ Cardinality(sent[p]) \in Nat /\ clock \in Nat /\ sent[p] \in SUBSET Msg
      /\ \A o \in sent[p] : /\ o.id \in Int
                            /\ -Cardinality(sent[p]) <= o.id /\ o.id <= Cardinality(sent[p])
  BY FS_CardinalityType DEF BaleInv, Proper, Msg
<1>2. date \in Nat /\ clock <= date
  BY <1>1
<1>3. m.id \in Int /\ m.date = date /\ m.own = own /\ m \in Msg
  BY <1>1, <1>2 DEF New, Msg
<1>4. \A o \in sent[p] : o.id # m.id
  BY <1>1 DEF New
<1>6. m.id = Cardinality(sent[p]) + 1 \/ m.id = -(Cardinality(sent[p]) + 1)
  BY DEF New
<1>5. /\ sent' = [sent EXCEPT ![p] = @ \cup {m}] /\ clock' = date
      /\ UNCHANGED <<walk, looked, mark, pollerClosed, handed, old, since>>
      /\ Cardinality({o \in sent[p] : o.date = date}) < Page - 1
  BY DEF Send, New, Dated
<1> QED BY <1>2, <1>3, <1>4, <1>5, <1>6 DEF Arrived

LEMMA ArrivalIs ==
  ASSUME BaleInv, Arrival
  PROVE  \E p \in Peers : \E m \in Msg : Arrived(p, m)
BY SendIs DEF Arrival

LEMMA ProperLater ==
  ASSUME NEW msgs, NEW now \in Nat, NEW later \in Nat, now <= later, Proper(msgs, now)
  PROVE  Proper(msgs, later)
<1>1. \A m \in msgs : m.date \in Nat
  BY DEF Proper, Msg
<1> QED BY <1>1 DEF Proper

(* A dialog stays proper when a message with a new id arrives. *)
LEMMA ProperWithNew ==
  ASSUME NEW msgs, NEW now \in Nat, NEW later \in Nat, now <= later, Proper(msgs, now),
         NEW m \in Msg, m.date = later, 1 <= later,
         m.id = Cardinality(msgs) + 1 \/ m.id = -(Cardinality(msgs) + 1),
         Cardinality({o \in msgs : o.date = later}) < Page - 1
  PROVE  Proper(msgs \cup {m}, later)
<1> DEFINE new == msgs \cup {m}
<1>1. /\ IsFiniteSet(msgs) /\ Cardinality(msgs) \in Nat /\ msgs \in SUBSET Msg /\ Page \in Nat
      /\ \A o \in msgs : o.id \in Int /\ o.date \in Nat
  BY FS_CardinalityType, PollerAssumption DEF Proper, Msg
<1>2. \A o \in msgs : o.id # m.id
  BY <1>1 DEF Proper
<1>3. m \notin msgs
  BY <1>2
<1>4. IsFiniteSet(new) /\ Cardinality(new) = Cardinality(msgs) + 1
  BY <1>1, <1>3, FS_AddElement
<1>5. ASSUME NEW d \in Nat PROVE Cardinality({o \in new : o.date = d}) < Page
  <2> DEFINE dated == {o \in msgs : o.date = d}
  <2>1. CASE d = later
    <3>1. {o \in new : o.date = d} = dated \cup {m}
      BY <2>1
    <3>2. IsFiniteSet(dated) /\ Cardinality(dated) \in Nat
      <4>1. dated \in SUBSET msgs
        OBVIOUS
      <4> QED BY <1>1, <4>1, FS_Subset, FS_CardinalityType
    <3>3. Cardinality(dated \cup {m}) <= Cardinality(dated) + 1
      <4> HIDE DEF dated
      <4> QED BY <3>2, FS_AddElement
    <3>4. Cardinality(dated) < Page - 1
      BY <2>1
    <3>5. Cardinality(dated \cup {m}) \in Nat
      <4> HIDE DEF dated
      <4> QED BY <3>2, FS_AddElement, FS_CardinalityType
    <3>6. Cardinality(dated \cup {m}) < Page
      <4> HIDE DEF dated
      <4> QED BY <1>1, <3>2, <3>3, <3>4, <3>5
    <3> QED BY <3>1, <3>6
  <2>2. CASE d # later
    <3>1. {o \in new : o.date = d} = dated
      BY <2>2
    <3> QED BY <3>1 DEF Proper
  <2> QED BY <2>1, <2>2
<1>6. \A o \in new : /\ 1 <= o.date /\ o.date <= later
                     /\ -Cardinality(new) <= o.id /\ o.id <= Cardinality(new)
  <2>1. \A o \in msgs : /\ 1 <= o.date /\ o.date <= later
                        /\ -Cardinality(msgs) <= o.id /\ o.id <= Cardinality(msgs)
    BY <1>1 DEF Proper
  <2> HIDE DEF new
  <2>2. \A o \in msgs : /\ 1 <= o.date /\ o.date <= later
                        /\ -Cardinality(new) <= o.id /\ o.id <= Cardinality(new)
    BY <1>1, <1>4, <2>1
  <2>3. /\ 1 <= m.date /\ m.date <= later
        /\ -Cardinality(new) <= m.id /\ m.id <= Cardinality(new)
    BY <1>1, <1>4
  <2> QED BY <2>2, <2>3 DEF new
<1>7. \A a, b \in new : a.id = b.id => a = b
  BY <1>2 DEF Proper
<1>8. new \in SUBSET Msg
  BY <1>1
<1> HIDE DEF new
<1>9. Proper(new, later)
  BY <1>4, <1>5, <1>6, <1>7, <1>8 DEF Proper
<1> QED BY <1>9 DEF new

LEMMA BaleStep ==
  ASSUME BaleInv, [PollerNext]_pollerVars
  PROVE  BaleInv'
<1>1. CASE UNCHANGED <<sent, clock>>
  BY <1>1 DEF BaleInv
<1>2. CASE Arrival
  <2>1. PICK p \in Peers : \E m \in Msg : Arrived(p, m)
    BY <1>2, ArrivalIs
  <2>2. PICK m \in Msg : Arrived(p, m)
    BY <2>1
  <2>3. /\ clock \in Nat \ {0} /\ sent \in [Peers -> SUBSET Msg] /\ Proper(sent[p], clock)
        /\ m.date \in Nat /\ clock <= m.date /\ 1 <= m.date
    BY <2>2 DEF BaleInv, Msg, Arrived
  <2>5. Proper(sent[p] \cup {m}, m.date)
    BY <2>2, <2>3, ProperWithNew DEF Arrived
  <2>6. \A q \in Peers : Proper(sent[q], m.date)
    BY <2>3, ProperLater DEF BaleInv
  <2>7. /\ sent' \in [Peers -> SUBSET Msg] /\ sent'[p] = sent[p] \cup {m}
        /\ \A q \in Peers \ {p} : sent'[q] = sent[q]
    BY <2>2, <2>3 DEF Arrived
  <2>8. \A q \in Peers : Proper(sent'[q], m.date)
    BY <2>5, <2>6, <2>7
  <2>9. clock' = m.date
    BY <2>2 DEF Arrived
  <2>10. \A q \in Peers : Proper(sent'[q], clock')
    BY <2>8, <2>9
  <2>11. clock' \in Nat \ {0}
    BY <2>3, <2>9
  <2> QED BY <2>7, <2>10, <2>11 DEF BaleInv
<1> QED
  BY <1>1, <1>2 DEF PollerNext, pollerVars, Poll, PollerClose, Walk, Seed, FoundEmpty, SeedEmpty,
     SeedFails, Skip, History, HistoryFails, Pages

-----------------------------------------------------------------------------
(* What the two requests of the poller find. *)

LEMMA NewestIs ==
  ASSUME NEW msgs \in SUBSET Msg, msgs # {}, NEW b \in Nat, \A m \in msgs : m.date <= b
  PROVE  Newest(msgs) # {} /\ Newest(msgs) \subseteq msgs
<1> DEFINE dates == {m.date : m \in msgs}
<1>1. dates \in SUBSET Nat /\ dates # {} /\ \A d \in dates : d <= b
  BY DEF Msg
<1>2. PICK d \in dates : \A k \in dates : k <= d
  <2> HIDE DEF dates
  <2> QED BY <1>1, GreatestNumber
<1>3. PICK m \in msgs : m.date = d
  BY <1>2
<1>4. \A o \in msgs : o.date <= m.date
  BY <1>2, <1>3
<1> QED BY <1>3, <1>4 DEF Newest

(* The page that a seed asks for: it holds all that is newest. *)
LatestPage(page, msgs) ==
  /\ page \in SUBSET msgs
  /\ Cardinality(page) = IF Cardinality(msgs) < Page THEN Cardinality(msgs) ELSE Page
  /\ \A m \in page, o \in msgs \ page : ~(o.date > m.date)

(* The newest messages all are in a page of the latest ones: fewer than a page
   have one date. *)
LEMMA NewestInPage ==
  ASSUME NEW msgs, NEW now \in Nat, Proper(msgs, now),
         NEW page, LatestPage(page, msgs)
  PROVE  /\ page \in SUBSET msgs
         /\ msgs # {} => page # {} /\ Newest(page) # {} /\ Newest(page) = Newest(msgs)
<1>1. /\ page \in SUBSET msgs
      /\ Cardinality(page) = IF Cardinality(msgs) < Page THEN Cardinality(msgs) ELSE Page
      /\ \A m \in page, o \in msgs \ page : ~(o.date > m.date)
  BY DEF LatestPage
<1>2. /\ IsFiniteSet(msgs) /\ Cardinality(msgs) \in Nat /\ Page \in Nat \ {0} /\ msgs \in SUBSET Msg
      /\ \A m \in msgs : m.date \in Nat /\ m.date <= now
      /\ IsFiniteSet(page) /\ Cardinality(page) \in Nat
  BY <1>1, PollerAssumption, FS_CardinalityType, FS_Subset DEF Proper, Msg
<1>3. SUFFICES ASSUME msgs # {} PROVE page # {} /\ Newest(page) # {} /\ Newest(page) = Newest(msgs)
  BY <1>1
<1>4. page # {}
  BY <1>1, <1>2, <1>3, FS_EmptySet
<1>5. Newest(msgs) # {} /\ Newest(page) # {}
  BY <1>1, <1>2, <1>3, <1>4, NewestIs
<1>6. Newest(msgs) \subseteq page
  <2> SUFFICES ASSUME NEW o \in Newest(msgs), o \notin page PROVE FALSE
    OBVIOUS
  <2>1. o \in msgs /\ \A m \in msgs : m.date <= o.date
    BY DEF Newest
  <2>2. Cardinality(page) # Cardinality(msgs)
    BY <1>1, <1>2, <2>1, FS_Subset
  <2>3. Cardinality(page) = Page
    BY <1>1, <2>2
  <2> DEFINE dated == {m \in msgs : m.date = o.date}
  <2>4. page \in SUBSET dated
    <3>1. ASSUME NEW m \in page PROVE m.date = o.date
      <4>1. m \in msgs /\ m.date \in Nat /\ o.date \in Nat /\ m.date <= o.date
        BY <1>1, <1>2, <2>1
      <4>2. ~(o.date > m.date)
        BY <1>1, <2>1
      <4> QED BY <4>1, <4>2
    <3> QED BY <1>1, <3>1
  <2>5. IsFiniteSet(dated) /\ Cardinality(dated) < Page /\ Cardinality(dated) \in Nat
    <3>1. dated \in SUBSET msgs
      OBVIOUS
    <3>2. Cardinality(dated) < Page
      BY <1>2, <2>1 DEF Proper
    <3> HIDE DEF dated
    <3> QED BY <1>2, <3>1, <3>2, FS_Subset, FS_CardinalityType
  <2>6. Cardinality(page) <= Cardinality(dated)
    <3> HIDE DEF dated
    <3> QED BY <2>4, <2>5, FS_Subset
  <2>7. Page \in Nat
    BY <1>2
  <2> HIDE DEF dated
  <2> QED BY <2>3, <2>5, <2>6, <2>7
<1>7. Newest(page) = Newest(msgs)
  <2>1. PICK o \in Newest(msgs) : o \in page /\ o \in msgs /\ \A m \in msgs : m.date <= o.date
    BY <1>5, <1>6 DEF Newest
  <2>2. ASSUME NEW m \in Newest(page) PROVE m \in Newest(msgs)
    <3>1. m \in msgs /\ o.date <= m.date /\ m.date \in Nat /\ o.date \in Nat
      BY <1>1, <1>2, <2>1 DEF Newest
    <3>2. ASSUME NEW x \in msgs PROVE x.date <= m.date
      <4>1. x.date \in Nat /\ x.date <= o.date
        BY <1>2, <2>1
      <4> QED BY <3>1, <4>1
    <3> QED BY <3>1, <3>2 DEF Newest
  <2>3. \A m \in Newest(msgs) : m \in Newest(page)
    BY <1>1, <1>6 DEF Newest
  <2> QED BY <2>2, <2>3 DEF Newest
<1> QED BY <1>4, <1>5, <1>7

(* A watermark that is set when the dialog holds msgs: it has passed them all. *)
SetAt(w, msgs) ==
  /\ w \in Mark /\ w.seeded /\ w.date <= clock
  /\ \A m \in msgs : ~Fresh(m, w)
  /\ \A k \in w.ids : \E m \in msgs : m.id = k

LEMMA SeedIs ==
  ASSUME BaleInv, NEW p \in Peers, Seed(p)
  PROVE  \E w : /\ SetAt(w, sent[p]) /\ mark' = [mark EXCEPT ![p] = w]
                /\ old' = [old EXCEPT ![p] = sent[p]] /\ ~mark[p].seeded
                /\ UNCHANGED <<sent, clock, handed, since>>
<1> DEFINE msgs == sent[p]
           W(page) == [date |-> (CHOOSE m \in Newest(page) : TRUE).date,
                       ids |-> {m.id : m \in Newest(page)}, seeded |-> TRUE]
<1>1. PICK page : LatestPage(page, msgs) /\ mark' = [mark EXCEPT ![p] = W(page)]
  BY DEF Seed, Pages, LatestPage
<1>2. /\ old' = [old EXCEPT ![p] = sent[p]] /\ ~mark[p].seeded /\ msgs # {}
      /\ UNCHANGED <<sent, clock, handed, since>>
  BY DEF Seed, At, Pages
<1>3. /\ Proper(msgs, clock) /\ clock \in Nat
      /\ msgs \in SUBSET Msg /\ \A m \in msgs : m.date \in Nat /\ m.id \in Int /\ m.date <= clock
  <2>1. Proper(msgs, clock) /\ clock \in Nat
    BY DEF BaleInv
  <2> HIDE DEF msgs
  <2> QED BY <2>1 DEF Proper, Msg
<1>4. page \in SUBSET msgs /\ page # {} /\ Newest(page) # {} /\ Newest(page) = Newest(msgs)
  <2> HIDE DEF msgs
  <2> QED BY <1>1, <1>2, <1>3, NewestInPage
<1> HIDE DEF msgs
<1> DEFINE n == CHOOSE m \in Newest(page) : TRUE
<1>5. n \in msgs /\ \A m \in msgs : m.date <= n.date
  BY <1>4 DEF Newest
<1>6. W(page) = [date |-> n.date, ids |-> {m.id : m \in Newest(page)}, seeded |-> TRUE]
  OBVIOUS
<1> HIDE DEF n, W
<1>7. ASSUME NEW m \in msgs, m.date = n.date PROVE m \in Newest(page)
  BY <1>4, <1>5, <1>7 DEF Newest
<1>8. W(page).date = n.date /\ W(page).seeded = TRUE /\ W(page).ids = {m.id : m \in Newest(page)}
  BY <1>6
<1>9. Newest(page) \subseteq msgs
  BY <1>4 DEF Newest
<1>10. W(page) \in Mark
  <2> DEFINE ids == {m.id : m \in Newest(page)}
  <2>1. ids \in SUBSET Int /\ n.date \in Nat
    BY <1>3, <1>5, <1>9
  <2>2. W(page) = [date |-> n.date, ids |-> ids, seeded |-> TRUE]
    BY <1>6
  <2> HIDE DEF ids
  <2> QED BY <2>1, <2>2 DEF Mark
<1>11. ASSUME NEW m \in msgs PROVE ~Fresh(m, W(page))
  <2>1. m.date \in Nat /\ n.date \in Nat /\ m.date <= n.date
    BY <1>3, <1>5
  <2>2. CASE m.date = n.date
    <3>1. m.id \in W(page).ids
      BY <1>7, <1>8, <2>2
    <3> QED BY <1>8, <2>2, <3>1 DEF Fresh
  <2>3. CASE m.date # n.date
    BY <1>8, <2>1, <2>3 DEF Fresh
  <2> QED BY <2>2, <2>3
<1>12. W(page).date <= clock /\ \A k \in W(page).ids : \E m \in msgs : m.id = k
  BY <1>3, <1>5, <1>8, <1>9
<1>13. SetAt(W(page), msgs)
  BY <1>8, <1>10, <1>11, <1>12 DEF SetAt
<1> QED BY <1>1, <1>2, <1>13 DEF msgs

(* A watermark that is set when the dialog was found empty: it has seen nothing. *)
BlankMark(w, now) == w \in Mark /\ w.seeded /\ w.date = now /\ w.ids = {}

LEMMA SeedEmptyIs ==
  ASSUME BaleInv, NEW p \in Peers, SeedEmpty(p)
  PROVE  \E now \in Nat : \E w :
           /\ BlankMark(w, now) /\ clock <= now /\ ~mark[p].seeded
           /\ mark' = [mark EXCEPT ![p] = w] /\ since' = [since EXCEPT ![p] = now]
           /\ UNCHANGED <<sent, clock, handed, old>>
<1>1. PICK now \in clock..(clock + Ahead) :
        /\ mark' = [mark EXCEPT ![p] = [date |-> now, ids |-> {}, seeded |-> TRUE]]
        /\ since' = [since EXCEPT ![p] = now]
  BY DEF SeedEmpty
<1>2. clock \in Nat /\ Ahead \in Nat
  BY PollerAssumption DEF BaleInv
<1>3. now \in Nat /\ clock <= now
  BY <1>2
<1> DEFINE w == [date |-> now, ids |-> {}, seeded |-> TRUE]
<1>4. w \in Mark /\ w.seeded /\ w.date = now /\ w.ids = {}
  BY <1>3 DEF Mark
<1>5. ~mark[p].seeded /\ UNCHANGED <<sent, clock, handed, old>>
  BY DEF SeedEmpty, At
<1> HIDE DEF w
<1>6. BlankMark(w, now)
  BY <1>4 DEF BlankMark
<1> QED BY <1>1, <1>3, <1>5, <1>6 DEF w

(* A row of messages as the loop goes over it: of msgs, none twice, and none
   before one that is as old as the watermark w or newer and has a lower date. *)
Row(s, msgs, w) ==
  /\ Len(s) \in Nat /\ \A i \in 1..Len(s) : s[i] \in msgs
  /\ \A i, j \in 1..Len(s) : i < j => s[i] # s[j]
  /\ \A x \in msgs : \A i \in 1..Len(s) :
       w.date <= x.date /\ x.date < s[i].date => \E j \in 1..Len(s) : j < i /\ s[j] = x

(* The page that is asked for from the watermark on. *)
NextPage(page, msgs) ==
  /\ page \in SUBSET msgs
  /\ Cardinality(page) = IF Cardinality(msgs) < Page THEN Cardinality(msgs) ELSE Page
  /\ \A m \in page, o \in msgs \ page : ~(o.date < m.date)

(* The sorted page is such a row: what was left out is no older than what is in,
   and what is not asked for is older than the watermark. *)
LEMMA SortedIsRow ==
  ASSUME NEW all, NEW now \in Nat, Proper(all, now), NEW w \in Mark,
         NEW page, NextPage(page, {m \in all : m.date > Offset(w.date)}), NEW s \in Sorted(page)
  PROVE  Row(s, all, w)
<1> DEFINE msgs == {m \in all : m.date > Offset(w.date)}
<1>1. page \in SUBSET msgs /\ \A m \in page, o \in msgs \ page : ~(o.date < m.date)
  BY DEF NextPage
<1>2. /\ all \in SUBSET Msg /\ IsFiniteSet(all) /\ w.date \in Nat
      /\ \A m \in all : m.date \in Nat /\ m.id \in Int /\ 1 <= m.date
  BY DEF Proper, Msg, Mark
<1>3. IsFiniteSet(page) /\ Cardinality(page) \in Nat
  <2>1. page \in SUBSET all
    BY <1>1
  <2> QED BY <1>2, <2>1, FS_Subset, FS_CardinalityType
<1>4. /\ s \in [1..Cardinality(page) -> page] /\ Range(s) = page
      /\ \A i, j \in DOMAIN s : i < j => Before(s[i], s[j])
  BY DEF Sorted
<1>5. Len(s) = Cardinality(page) /\ DOMAIN s = 1..Len(s) /\ Len(s) \in Nat
      /\ \A i \in 1..Len(s) : s[i] \in page
  <2>1. s \in Seq(page)
    BY <1>3, <1>4
  <2> QED BY <1>3, <1>4, <2>1, LenProperties
<1>6. \A m \in page : \E i \in 1..Len(s) : s[i] = m
  BY <1>4, <1>5 DEF Range
<1>7. ASSUME NEW i \in 1..Len(s), NEW j \in 1..Len(s), i < j PROVE s[i] # s[j]
  <2>1. Before(s[i], s[j])
    BY <1>4, <1>5, <1>7
  <2>2. s[i] \in all
    BY <1>1, <1>5
  <2> QED BY <1>2, <2>1, <2>2 DEF Before
<1>8. ASSUME NEW x \in all, NEW i \in 1..Len(s), w.date <= x.date, x.date < s[i].date
      PROVE  \E j \in 1..Len(s) : j < i /\ s[j] = x
  <2>1. x.date > Offset(w.date)
    BY <1>2, <1>8 DEF Offset
  <2>2. s[i] \in page /\ s[i] \in all /\ x \in msgs
    BY <1>1, <1>5, <2>1
  <2>3. x \in page
    BY <1>1, <1>8, <2>2
  <2>4. PICK j \in 1..Len(s) : s[j] = x
    BY <1>6, <2>3
  <2>5. CASE i <= j
    <3>1. i = j \/ Before(s[i], s[j])
      BY <1>4, <1>5, <2>5
    <3>2. x.date \in Nat /\ s[i].date \in Nat
      BY <1>2, <2>2
    <3> QED BY <1>8, <2>4, <3>1, <3>2 DEF Before
  <2> QED BY <2>4, <2>5
<1>9. \A i \in 1..Len(s) : s[i] \in all
  BY <1>1, <1>5
<1> QED BY <1>5, <1>7, <1>8, <1>9 DEF Row

(* A history that is loaded, without the page. *)
LEMMA HistoryIs ==
  ASSUME BaleInv, mark \in [Peers -> Mark], NEW p \in Peers, History(p)
  PROVE  \E s : /\ Row(s, sent[p], mark[p]) /\ mark[p].seeded
                /\ mark' = [mark EXCEPT ![p] = Absorbed(s, mark[p], handed[p]).w]
                /\ handed' = [handed EXCEPT ![p] = Absorbed(s, mark[p], handed[p]).out]
                /\ UNCHANGED <<sent, clock, old, since>>
<1>1. PICK page, s : /\ NextPage(page, {m \in sent[p] : m.date > Offset(mark[p].date)})
                     /\ s \in Sorted(page)
                     /\ mark' = [mark EXCEPT ![p] = Absorbed(s, mark[p], handed[p]).w]
                     /\ handed' = [handed EXCEPT ![p] = Absorbed(s, mark[p], handed[p]).out]
  BY DEF History, Pages, NextPage
<1>2. UNCHANGED <<sent, clock, old, since>> /\ mark[p].seeded
  BY DEF History, Pages, At
<1>3. Proper(sent[p], clock) /\ clock \in Nat /\ mark[p] \in Mark
  BY DEF BaleInv
<1>4. Row(s, sent[p], mark[p])
  BY <1>1, <1>3, SortedIsRow
<1> QED BY <1>1, <1>2, <1>4

-----------------------------------------------------------------------------
(* Order. *)

HandInv ==
  /\ mark \in [Peers -> Mark] /\ handed \in [Peers -> Seq(Msg)]
  /\ \A p \in Peers : /\ Behind(mark[p], handed[p])
                      /\ ~mark[p].seeded => handed[p] = <<>>

LEMMA InitBale == PollerInit => BaleInv
<1> SUFFICES ASSUME PollerInit PROVE BaleInv
  OBVIOUS
<1>1. sent = [p \in Peers |-> {}] /\ clock = 1
  BY DEF PollerInit
<1>2. Proper({}, 1)
  <2>1. IsFiniteSet({}) /\ Cardinality({}) = 0 /\ 0 < Page
    BY FS_EmptySet, PollerAssumption
  <2>2. \A d \in Nat : {m \in {} : m.date = d} = {}
    OBVIOUS
  <2>3. \A d \in Nat : Cardinality({m \in {} : m.date = d}) < Page
    BY <2>1, <2>2
  <2> QED BY <2>1, <2>3 DEF Proper
<1> QED BY <1>1, <1>2 DEF BaleInv

LEMMA InitHand == PollerInit => HandInv
<1> SUFFICES ASSUME PollerInit PROVE HandInv
  OBVIOUS
<1>1. /\ mark = [p \in Peers |-> [date |-> 0, ids |-> {}, seeded |-> FALSE]]
      /\ handed = [p \in Peers |-> <<>>]
  BY DEF PollerInit
<1>2. [date |-> 0, ids |-> {}, seeded |-> FALSE] \in Mark
  BY DEF Mark
<1>3. <<>> \in Seq(Msg) /\ Len(<<>>) = 0
  BY EmptySeq
<1>4. Behind([date |-> 0, ids |-> {}, seeded |-> FALSE], <<>>)
  BY <1>2, <1>3 DEF Behind, Ordered
<1>5. mark \in [Peers -> Mark] /\ handed \in [Peers -> Seq(Msg)]
  BY <1>1, <1>2, <1>3
<1> QED BY <1>1, <1>4, <1>5 DEF HandInv

LEMMA HandStep ==
  ASSUME BaleInv, HandInv, [PollerNext]_pollerVars
  PROVE  HandInv'
<1>1. CASE UNCHANGED <<mark, handed>>
  BY <1>1 DEF HandInv
<1>2. ASSUME NEW p \in Peers, Seed(p) \/ SeedEmpty(p) PROVE HandInv'
  <2>1. PICK w : /\ w \in Mark /\ w.seeded /\ mark' = [mark EXCEPT ![p] = w] /\ ~mark[p].seeded
                 /\ handed' = handed
    <3>1. CASE Seed(p)
      BY <3>1, SeedIs DEF SetAt
    <3>2. CASE SeedEmpty(p)
      BY <3>2, SeedEmptyIs DEF BlankMark
    <3> QED BY <1>2, <3>1, <3>2
  <2>2. handed[p] = <<>>
    BY <2>1 DEF HandInv
  <2>3. Behind(w, <<>>)
    <3>1. <<>> \in Seq(Msg) /\ Len(<<>>) = 0
      BY EmptySeq
    <3> QED BY <2>1, <3>1 DEF Behind, Ordered
  <2>4. mark' \in [Peers -> Mark] /\ mark'[p] = w /\ \A q \in Peers \ {p} : mark'[q] = mark[q]
    BY <2>1 DEF HandInv
  <2>5. \A q \in Peers : Behind(mark'[q], handed'[q]) /\ (~mark'[q].seeded => handed'[q] = <<>>)
    BY <2>1, <2>2, <2>3, <2>4 DEF HandInv
  <2> QED BY <2>1, <2>4, <2>5 DEF HandInv
<1>3. ASSUME NEW p \in Peers, History(p) PROVE HandInv'
  <2>0. /\ mark \in [Peers -> Mark] /\ handed \in [Peers -> Seq(Msg)]
        /\ \A q \in Peers : Behind(mark[q], handed[q]) /\ (~mark[q].seeded => handed[q] = <<>>)
    BY DEF HandInv
  <2>1. PICK s : /\ Row(s, sent[p], mark[p]) /\ mark[p].seeded
                 /\ mark' = [mark EXCEPT ![p] = Absorbed(s, mark[p], handed[p]).w]
                 /\ handed' = [handed EXCEPT ![p] = Absorbed(s, mark[p], handed[p]).out]
    BY <1>3, <2>0, HistoryIs
  <2> DEFINE w == Absorbed(s, mark[p], handed[p]).w
             out == Absorbed(s, mark[p], handed[p]).out
  <2>2. Len(s) \in Nat /\ \A i \in 1..Len(s) : s[i] \in Msg
    BY <2>1 DEF Row, BaleInv, Proper
  <2>3. Behind(w, out) /\ w.seeded = mark[p].seeded
    BY <2>0, <2>2, AbsorbedBehind
  <2>4. w.seeded
    BY <2>1, <2>3
  <2> HIDE DEF w, out
  <2>5. w \in Mark /\ out \in Seq(Msg)
    BY <2>3 DEF Behind
  <2>6. /\ mark' \in [Peers -> Mark] /\ handed' \in [Peers -> Seq(Msg)]
        /\ mark'[p] = w /\ handed'[p] = out
        /\ \A q \in Peers \ {p} : mark'[q] = mark[q] /\ handed'[q] = handed[q]
    BY <2>0, <2>1, <2>5 DEF w, out
  <2>7. \A q \in Peers : Behind(mark'[q], handed'[q]) /\ (~mark'[q].seeded => handed'[q] = <<>>)
    BY <2>0, <2>3, <2>4, <2>6
  <2> QED BY <2>6, <2>7 DEF HandInv
<1> QED
  BY <1>1, <1>2, <1>3 DEF PollerNext, pollerVars, Poll, PollerClose, Walk, FoundEmpty,
     SeedFails, Skip, HistoryFails, Arrival, Send

(* No message is handed on twice, and those of a dialog in the order of their
   dates: whatever the clocks, the pages and the failures. *)
THEOREM HandedOnInOrder == PollerSpec => []HandedInOrder
<1>1. PollerInit => BaleInv /\ HandInv
  BY InitBale, InitHand
<1>2. BaleInv /\ HandInv /\ [PollerNext]_pollerVars => BaleInv' /\ HandInv'
  BY BaleStep, HandStep
<1>3. HandInv => HandedInOrder
  <2> SUFFICES ASSUME HandInv, NEW p \in Peers
               PROVE  \A i, j \in DOMAIN handed[p] :
                        i < j => handed[p][i] # handed[p][j] /\ handed[p][i].date <= handed[p][j].date
    BY DEF HandedInOrder
  <2>1. handed[p] \in Seq(Msg) /\ Ordered(handed[p])
    BY DEF HandInv, Behind
  <2>2. DOMAIN handed[p] = 1..Len(handed[p])
    BY <2>1, LenProperties
  <2> QED BY <2>1, <2>2 DEF Ordered
<1> QED BY <1>1, <1>2, <1>3, PTL DEF PollerSpec

-----------------------------------------------------------------------------
(* Exactness. *)

(* What was handed on (out) is what the watermark w has passed of the other
   side's messages, except those that were there when it was set (was) and those
   dated before the time at which the dialog was found empty (late).  The
   watermark is at that time until a message moves it on. *)
Exact(w, msgs, out, was, late, now) ==
  /\ late \in Nat
  /\ ~w.seeded => was = {} /\ out = <<>> /\ late = 0
  /\ w.seeded => /\ w.date <= now \/ w.date = late
                 /\ late <= w.date
                 /\ \A k \in w.ids : \E m \in msgs : m.id = k
                 /\ was \subseteq msgs /\ \A m \in was : ~Fresh(m, w)
                 /\ Range(out) = {m \in msgs : ~m.own /\ ~Fresh(m, w) /\ late <= m.date} \ was

ExactInv ==
  \A p \in Peers : Exact(mark[p], sent[p], handed[p], old[p], since[p], clock)

LEMMA RangeOfAppend ==
  ASSUME NEW out \in Seq(Msg), NEW m \in Msg
  PROVE  Range(Append(out, m)) = Range(out) \cup {m}
<1> DEFINE new == Append(out, m)
<1>1. /\ new \in Seq(Msg) /\ Len(new) = Len(out) + 1 /\ new[Len(out) + 1] = m
      /\ \A i \in 1..Len(out) : new[i] = out[i]
      /\ Len(out) \in Nat
  BY AppendProperties, LenProperties
<1>2. DOMAIN out = 1..Len(out) /\ DOMAIN new = 1..(Len(out) + 1)
  BY <1>1, LenProperties
<1> HIDE DEF new
<1>3. Range(new) = {new[i] : i \in 1..(Len(out) + 1)} /\ Range(out) = {out[i] : i \in 1..Len(out)}
  BY <1>2 DEF Range
<1>4. ASSUME NEW x \in Range(new) PROVE x \in Range(out) \cup {m}
  BY <1>1, <1>3
<1>5. ASSUME NEW x \in Range(out) PROVE x \in Range(new)
  <2>1. PICK i \in 1..Len(out) : x = out[i]
    BY <1>3
  <2>2. i \in 1..(Len(out) + 1) /\ x = new[i]
    BY <1>1, <2>1
  <2> QED BY <1>3, <2>2
<1>6. m \in Range(new)
  BY <1>1, <1>3
<1>7. Range(new) = Range(out) \cup {m}
  BY <1>4, <1>5, <1>6
<1> QED BY <1>7 DEF new

(* The watermark that m moves passes m and nothing else, when what is of a lower
   date has been passed. *)
LEMMA MovedPastOne ==
  ASSUME NEW msgs, NEW now, Proper(msgs, now), NEW w \in Mark, NEW m \in msgs, Fresh(m, w),
         \A x \in msgs : w.date <= x.date /\ x.date < m.date => ~Fresh(x, w)
  PROVE  \A x \in msgs : ~Fresh(x, Moved(w, m)) <=> ~Fresh(x, w) \/ x = m
<1>1. /\ msgs \in SUBSET Msg /\ m \in Msg /\ w.date \in Nat /\ \A x \in msgs : x.date \in Nat
      /\ \A x \in msgs : x.id = m.id => x = m
  BY DEF Proper, Msg, Mark
<1>2. /\ Moved(w, m).date = m.date
      /\ Moved(w, m).ids = (IF m.date > w.date THEN {} ELSE w.ids) \cup {m.id}
  BY <1>1, MovedIs
<1>3. ASSUME NEW x \in msgs, ~Fresh(x, w) \/ x = m PROVE ~Fresh(x, Moved(w, m))
  <2>1. x \in Msg
    BY <1>1
  <2> QED BY <1>1, <1>3, <2>1, MovedOn
<1>4. ASSUME NEW x \in msgs, ~Fresh(x, Moved(w, m)), x # m PROVE ~Fresh(x, w)
  <2>1. /\ x.date \in Nat /\ m.date \in Nat /\ w.date \in Nat /\ x.id # m.id /\ w.date <= m.date
        /\ w.date <= x.date /\ x.date < m.date => ~Fresh(x, w)
    BY <1>1, <1>4 DEF Fresh
  <2>2. CASE x.date < w.date
    BY <2>1, <2>2 DEF Fresh
  <2>3. CASE w.date <= x.date /\ x.date < m.date
    BY <2>1, <2>3
  <2>4. CASE w.date <= x.date /\ ~(x.date < m.date)
    <3>1. x.date = m.date /\ x.id \in Moved(w, m).ids
      BY <1>2, <1>4, <2>1, <2>4 DEF Fresh
    <3>2. ~(m.date > w.date) /\ x.id \in w.ids
      BY <1>2, <2>1, <3>1
    <3> QED BY <2>1, <3>1, <3>2 DEF Fresh
  <2> QED BY <2>1, <2>2, <2>3, <2>4
<1> QED BY <1>3, <1>4

(* One turn of the loop. *)
LEMMA TakenExact ==
  ASSUME NEW msgs, NEW now \in Nat, Proper(msgs, now), NEW was, NEW late,
         NEW acc, acc.w \in Mark, acc.out \in Seq(Msg), acc.w.seeded,
         Exact(acc.w, msgs, acc.out, was, late, now), NEW m \in msgs,
         \A x \in msgs : acc.w.date <= x.date /\ x.date < m.date => ~Fresh(x, acc.w)
  PROVE  /\ Exact(Taken(acc, m).w, msgs, Taken(acc, m).out, was, late, now)
         /\ acc.w.date <= Taken(acc, m).w.date
         /\ ~Fresh(m, Taken(acc, m).w)
         /\ \A x \in msgs : ~Fresh(x, acc.w) => ~Fresh(x, Taken(acc, m).w)
<1> DEFINE w == acc.w
           out == acc.out
           next == Moved(w, m)
<1>1. /\ w \in Mark /\ out \in Seq(Msg) /\ w.seeded /\ w.date \in Nat /\ late \in Nat /\ late <= w.date
      /\ \A k \in w.ids : \E x \in msgs : x.id = k
      /\ was \subseteq msgs /\ \A x \in was : ~Fresh(x, w)
      /\ Range(out) = {x \in msgs : ~x.own /\ ~Fresh(x, w) /\ late <= x.date} \ was
  BY DEF Exact, Mark
<1>2. msgs \in SUBSET Msg /\ m \in Msg /\ m.date \in Nat /\ m.date <= now
  BY DEF Proper, Msg
<1>3. CASE ~Fresh(m, w)
  BY <1>1, <1>3 DEF Taken
<1>4. CASE Fresh(m, w)
  <2>1. /\ next.date = m.date /\ next.seeded = w.seeded /\ w.date <= next.date /\ ~Fresh(m, next)
        /\ next.ids = (IF m.date > w.date THEN {} ELSE w.ids) \cup {m.id}
    BY <1>1, <1>2, <1>4, MovedIs, MovedOn
  <2>2. \A x \in msgs : ~Fresh(x, next) <=> ~Fresh(x, w) \/ x = m
    BY <1>1, <1>4, MovedPastOne
  <2>3. Taken(acc, m).w = next /\ Taken(acc, m).out = IF m.own THEN out ELSE Append(out, m)
    BY <1>4 DEF Taken
  <2>7. late <= m.date
    <3>1. w.date <= m.date
      BY <1>4 DEF Fresh
    <3> QED BY <1>1, <1>2, <3>1
  <2>4. Range(Taken(acc, m).out) = {x \in msgs : ~x.own /\ ~Fresh(x, next) /\ late <= x.date} \ was
    <3>1. m \notin was
      BY <1>1, <1>4
    <3>2. CASE m.own
      <4>1. {x \in msgs : ~x.own /\ ~Fresh(x, next) /\ late <= x.date}
              = {x \in msgs : ~x.own /\ ~Fresh(x, w) /\ late <= x.date}
        BY <2>2, <3>2
      <4> QED BY <1>1, <2>3, <3>2, <4>1
    <3>3. CASE ~m.own
      <4>1. {x \in msgs : ~x.own /\ ~Fresh(x, next) /\ late <= x.date}
              = {x \in msgs : ~x.own /\ ~Fresh(x, w) /\ late <= x.date} \cup {m}
        BY <2>2, <2>7, <3>3
      <4>2. Range(Append(out, m)) = Range(out) \cup {m}
        BY <1>1, <1>2, RangeOfAppend
      <4>3. Range(Append(out, m)) = {x \in msgs : ~x.own /\ ~Fresh(x, next) /\ late <= x.date} \ was
        BY <1>1, <3>1, <4>1, <4>2
      <4> QED BY <2>3, <3>3, <4>3
    <3> QED BY <3>2, <3>3
  <2>5. \A k \in next.ids : \E x \in msgs : x.id = k
    BY <1>1, <2>1
  <2> HIDE DEF next, w, out
  <2>6. Exact(next, msgs, Taken(acc, m).out, was, late, now)
    BY <1>1, <1>2, <2>1, <2>2, <2>4, <2>5, <2>7 DEF Exact
  <2> QED BY <2>1, <2>2, <2>3, <2>6 DEF w
<1> QED BY <1>3, <1>4

(* The whole loop, over a row of the dialog's messages. *)
LEMMA AbsorbedExact ==
  ASSUME NEW msgs, NEW now \in Nat, Proper(msgs, now), NEW was, NEW late,
         NEW w, NEW out, Behind(w, out), w.seeded, Exact(w, msgs, out, was, late, now),
         NEW s, Row(s, msgs, w)
  PROVE  Exact(Absorbed(s, w, out).w, msgs, Absorbed(s, w, out).out, was, late, now)
<1> DEFINE acc == TheLoop(s, w, out)
           Good(n) == /\ Behind(acc[n].w, acc[n].out) /\ acc[n].w.seeded
                      /\ Exact(acc[n].w, msgs, acc[n].out, was, late, now)
                      /\ w.date <= acc[n].w.date
                      /\ \A i \in 1..n : ~Fresh(s[i], acc[n].w)
           C == {n \in 0..Len(s) : ~Good(n)}
<1>1. Len(s) \in Nat /\ msgs \in SUBSET Msg /\ \A i \in 1..Len(s) : s[i] \in msgs /\ s[i] \in Msg
  BY DEF Row, Proper
<1>2. /\ acc[0] = [w |-> w, out |-> out]
      /\ \A i \in 1..Len(s) : acc[i] = Taken(acc[i - 1], s[i])
      /\ Absorbed(s, w, out) = acc[Len(s)]
  <2> HIDE DEF C, Good
  <2> QED BY <1>1, LoopTurns
<1> HIDE DEF acc
<1>3. Good(0)
  <2>1. w.date \in Nat
    BY DEF Behind, Mark
  <2>2. acc[0].w = w /\ acc[0].out = out
    BY <1>2
  <2> QED BY <2>1, <2>2
<1>4. ASSUME NEW n \in 1..Len(s), Good(n - 1) PROVE Good(n)
  <2> DEFINE a == acc[n - 1]
             b == acc[n]
  <2>1. /\ Behind(a.w, a.out) /\ a.w \in Mark /\ a.out \in Seq(Msg) /\ a.w.seeded
        /\ Exact(a.w, msgs, a.out, was, late, now) /\ w.date <= a.w.date
        /\ \A i \in 1..(n - 1) : ~Fresh(s[i], a.w)
    BY <1>4 DEF Behind
  <2>2. b = Taken(a, s[n]) /\ s[n] \in msgs /\ s[n] \in Msg
    BY <1>1, <1>2
  <2> HIDE DEF a, b, Good, C
  <2>3. ASSUME NEW x \in msgs, a.w.date <= x.date, x.date < s[n].date PROVE ~Fresh(x, a.w)
    <3>1. w.date \in Nat /\ a.w.date \in Nat /\ x.date \in Nat
      BY <1>1, <2>1 DEF Behind, Mark, Msg
    <3>2. w.date <= x.date
      BY <2>1, <2>3, <3>1
    <3>3. PICK j \in 1..Len(s) : j < n /\ s[j] = x
      BY <2>3, <3>2 DEF Row
    <3>4. j \in 1..(n - 1)
      BY <1>1, <3>3
    <3> QED BY <2>1, <3>3, <3>4
  <2>4. /\ Exact(b.w, msgs, b.out, was, late, now) /\ a.w.date <= b.w.date /\ ~Fresh(s[n], b.w)
        /\ \A x \in msgs : ~Fresh(x, a.w) => ~Fresh(x, b.w)
    BY <2>1, <2>2, <2>3, TakenExact
  <2>5. Behind(b.w, b.out) /\ b.w.seeded
    BY <2>1, <2>2, TakenBehind
  <2>6. w.date <= b.w.date
    <3>1. w.date \in Nat /\ a.w.date \in Nat /\ b.w.date \in Nat
      BY <2>1, <2>5 DEF Behind, Mark
    <3> QED BY <2>1, <2>4, <3>1
  <2>7. ASSUME NEW i \in 1..n PROVE ~Fresh(s[i], b.w)
    <3>1. i \in 1..Len(s) /\ (i = n \/ i \in 1..(n - 1))
      BY <1>1
    <3>2. s[i] \in msgs
      BY <1>1, <3>1
    <3> QED BY <2>1, <2>4, <3>1, <3>2
  <2> QED BY <2>4, <2>5, <2>6, <2>7 DEF Good, b
<1>5. C = {}
  <2> SUFFICES ASSUME C # {} PROVE FALSE
    OBVIOUS
  <2>1. C \in SUBSET Nat /\ \A n \in C : n \in 0..Len(s) /\ ~Good(n)
    OBVIOUS
  <2>2. \A n \in 0..Len(s) : n \notin C => Good(n)
    OBVIOUS
  <2> HIDE DEF C, Good
  <2>3. PICK n \in C : \A k \in C : n <= k
    BY <2>1, LeastNumber
  <2>4. n \in 0..Len(s) /\ n # 0 /\ n - 1 \in 0..Len(s) /\ n \in 1..Len(s) /\ n - 1 \notin C
    BY <1>1, <1>3, <2>1, <2>3
  <2> QED BY <1>4, <2>1, <2>2, <2>3, <2>4
<1>6. Good(Len(s))
  BY <1>1, <1>5
<1> QED BY <1>2, <1>6

(* A message that arrives is fresh for the watermark, as no id at the watermark
   is its own; or the dialog was found empty and it is dated before that. *)
LEMMA ArrivedFresh ==
  ASSUME NEW w \in Mark, NEW msgs, NEW out, NEW was, NEW late, NEW now \in Nat,
         Exact(w, msgs, out, was, late, now),
         NEW m \in Msg, now <= m.date, \A o \in msgs : o.id # m.id
  PROVE  Exact(w, msgs \cup {m}, out, was, late, m.date)
<1>1. CASE ~w.seeded
  BY <1>1 DEF Exact
<1>2. CASE w.seeded
  <2>1. /\ w.date \in Nat /\ m.date \in Nat /\ late \in Nat
        /\ w.date <= now \/ w.date = late
    BY <1>2 DEF Exact, Mark, Msg
  <2>2. late <= m.date => Fresh(m, w)
    BY <1>2, <2>1 DEF Exact, Fresh
  <2>3. {x \in msgs \cup {m} : ~x.own /\ ~Fresh(x, w) /\ late <= x.date}
          = {x \in msgs : ~x.own /\ ~Fresh(x, w) /\ late <= x.date}
    BY <2>2
  <2>4. w.date <= m.date \/ w.date = late
    BY <2>1
  <2> QED BY <1>2, <2>1, <2>3, <2>4 DEF Exact
<1> QED BY <1>1, <1>2

(* All there is when the watermark is set is old. *)
LEMMA SeededExact ==
  ASSUME NEW w, NEW msgs, SetAt(w, msgs)
  PROVE  Exact(w, msgs, <<>>, msgs, 0, clock)
<1>1. w.date <= clock /\ w.date \in Nat /\ 0 <= w.date
  BY DEF SetAt, Mark
<1>2. \A k \in w.ids : \E m \in msgs : m.id = k
  BY DEF SetAt
<1>3. Range(<<>>) = {}
  BY DEF Range
<1> QED BY <1>1, <1>2, <1>3 DEF SetAt, Exact

(* What comes into a dialog before the time at which it was found empty is
   overlooked, and the rest is fresh. *)
LEMMA SeededEmptyExact ==
  ASSUME NEW w, NEW late \in Nat, BlankMark(w, late), NEW msgs \in SUBSET Msg
  PROVE  Exact(w, msgs, <<>>, {}, late, clock)
<1>1. w.date = late /\ w.ids = {} /\ w.seeded
  BY DEF BlankMark
<1>2. \A m \in msgs : m.date \in Nat /\ (late <= m.date => Fresh(m, w))
  BY <1>1 DEF Fresh, Msg
<1>3. Range(<<>>) = {}
  BY DEF Range
<1>4. {m \in msgs : ~m.own /\ ~Fresh(m, w) /\ late <= m.date} = {}
  BY <1>2
<1> QED BY <1>1, <1>3, <1>4 DEF Exact

LEMMA InitExact == PollerInit => ExactInv
<1> SUFFICES ASSUME PollerInit PROVE ExactInv
  OBVIOUS
<1>2. \A p \in Peers : /\ mark[p] = [date |-> 0, ids |-> {}, seeded |-> FALSE]
                       /\ handed[p] = <<>> /\ old[p] = {} /\ since[p] = 0
  BY DEF PollerInit
<1>3. \A p \in Peers : ~mark[p].seeded
  BY <1>2
<1> QED BY <1>2, <1>3 DEF ExactInv, Exact

Records == old \in [Peers -> SUBSET Msg] /\ since \in [Peers -> Nat]

LEMMA ExactStep ==
  ASSUME BaleInv, HandInv, ExactInv, Records, [PollerNext]_pollerVars
  PROVE  ExactInv' /\ Records'
<1>0. /\ clock \in Nat /\ sent \in [Peers -> SUBSET Msg] /\ \A p \in Peers : Proper(sent[p], clock)
      /\ mark \in [Peers -> Mark] /\ handed \in [Peers -> Seq(Msg)]
      /\ old \in [Peers -> SUBSET Msg] /\ since \in [Peers -> Nat]
      /\ \A p \in Peers : /\ Behind(mark[p], handed[p]) /\ (~mark[p].seeded => handed[p] = <<>>)
                          /\ Exact(mark[p], sent[p], handed[p], old[p], since[p], clock)
  BY DEF BaleInv, HandInv, ExactInv, Records
<1>1. CASE UNCHANGED <<sent, clock, mark, handed, old, since>>
  BY <1>1 DEF ExactInv, Records
<1>2. CASE Arrival
  <2>1. PICK p \in Peers : \E m \in Msg : Arrived(p, m)
    BY <1>2, ArrivalIs
  <2>2. PICK m \in Msg : Arrived(p, m)
    BY <2>1
  <2>3. /\ UNCHANGED <<mark, handed, old, since>> /\ clock' = m.date /\ clock <= m.date
        /\ sent'[p] = sent[p] \cup {m} /\ \A q \in Peers \ {p} : sent'[q] = sent[q]
    BY <1>0, <2>2 DEF Arrived
  <2>4. Exact(mark[p], sent[p] \cup {m}, handed[p], old[p], since[p], m.date)
    BY <1>0, <2>2, <2>3, ArrivedFresh DEF Arrived
  <2>5. ASSUME NEW q \in Peers PROVE Exact(mark[q], sent[q], handed[q], old[q], since[q], m.date)
    <3>1. mark[q].date \in Nat /\ m.date \in Nat
      BY <1>0 DEF Mark, Msg
    <3>2. mark[q].date <= clock => mark[q].date <= m.date
      BY <1>0, <2>3, <3>1
    <3> QED BY <1>0, <3>2 DEF Exact
  <2>6. ASSUME NEW q \in Peers
        PROVE  Exact(mark'[q], sent'[q], handed'[q], old'[q], since'[q], clock')
    <3>1. CASE q = p
      BY <2>3, <2>4, <3>1
    <3>2. CASE q # p
      BY <2>3, <2>5, <3>2
    <3> QED BY <3>1, <3>2
  <2> QED BY <1>0, <2>3, <2>6 DEF ExactInv, Records
<1>3. ASSUME NEW p \in Peers, Seed(p) PROVE ExactInv' /\ Records'
  <2>1. PICK w : /\ SetAt(w, sent[p]) /\ mark' = [mark EXCEPT ![p] = w]
                 /\ old' = [old EXCEPT ![p] = sent[p]] /\ ~mark[p].seeded
                 /\ UNCHANGED <<sent, clock, handed, since>>
    BY <1>3, SeedIs
  <2>2. Exact(w, sent[p], <<>>, sent[p], 0, clock)
    BY <2>1, SeededExact
  <2>3. handed[p] = <<>> /\ since[p] = 0
    BY <1>0, <2>1 DEF Exact
  <2>4. /\ mark'[p] = w /\ old'[p] = sent[p]
        /\ \A q \in Peers \ {p} : mark'[q] = mark[q] /\ old'[q] = old[q]
        /\ old' \in [Peers -> SUBSET Msg]
    BY <1>0, <2>1
  <2>5. \A q \in Peers : Exact(mark'[q], sent'[q], handed'[q], old'[q], since'[q], clock')
    BY <1>0, <2>1, <2>2, <2>3, <2>4
  <2> QED BY <1>0, <2>1, <2>4, <2>5 DEF ExactInv, Records
<1>4. ASSUME NEW p \in Peers, SeedEmpty(p) PROVE ExactInv' /\ Records'
  <2>1. PICK now \in Nat : \E w :
          /\ BlankMark(w, now) /\ clock <= now /\ ~mark[p].seeded
          /\ mark' = [mark EXCEPT ![p] = w] /\ since' = [since EXCEPT ![p] = now]
          /\ UNCHANGED <<sent, clock, handed, old>>
    BY <1>4, SeedEmptyIs
  <2>2. PICK w : /\ BlankMark(w, now) /\ ~mark[p].seeded
                 /\ mark' = [mark EXCEPT ![p] = w] /\ since' = [since EXCEPT ![p] = now]
                 /\ UNCHANGED <<sent, clock, handed, old>>
    BY <2>1
  <2>3. Exact(w, sent[p], <<>>, {}, now, clock)
    <3>1. sent[p] \in SUBSET Msg
      BY <1>0
    <3> QED BY <2>2, <3>1, SeededEmptyExact
  <2>4. handed[p] = <<>> /\ old[p] = {}
    BY <1>0, <2>2 DEF Exact
  <2>5. /\ mark'[p] = w /\ since'[p] = now
        /\ \A q \in Peers \ {p} : mark'[q] = mark[q] /\ since'[q] = since[q]
        /\ since' \in [Peers -> Nat]
    BY <1>0, <2>2
  <2>6. \A q \in Peers : Exact(mark'[q], sent'[q], handed'[q], old'[q], since'[q], clock')
    BY <1>0, <2>2, <2>3, <2>4, <2>5
  <2> QED BY <1>0, <2>2, <2>5, <2>6 DEF ExactInv, Records
<1>5. ASSUME NEW p \in Peers, History(p) PROVE ExactInv' /\ Records'
  <2>1. PICK s : /\ Row(s, sent[p], mark[p]) /\ mark[p].seeded
                 /\ mark' = [mark EXCEPT ![p] = Absorbed(s, mark[p], handed[p]).w]
                 /\ handed' = [handed EXCEPT ![p] = Absorbed(s, mark[p], handed[p]).out]
                 /\ UNCHANGED <<sent, clock, old, since>>
    BY <1>0, <1>5, HistoryIs
  <2> DEFINE w == Absorbed(s, mark[p], handed[p]).w
             out == Absorbed(s, mark[p], handed[p]).out
  <2>2. Exact(w, sent[p], out, old[p], since[p], clock)
    BY <1>0, <2>1, AbsorbedExact
  <2> HIDE DEF w, out
  <2>3. /\ mark'[p] = w /\ handed'[p] = out
        /\ \A q \in Peers \ {p} : mark'[q] = mark[q] /\ handed'[q] = handed[q]
    BY <1>0, <2>1 DEF w, out
  <2>4. \A q \in Peers : Exact(mark'[q], sent'[q], handed'[q], old'[q], since'[q], clock')
    BY <1>0, <2>1, <2>2, <2>3
  <2> QED BY <1>0, <2>1, <2>4 DEF ExactInv, Records
<1> QED
  BY <1>1, <1>2, <1>3, <1>4, <1>5 DEF PollerNext, pollerVars, Poll, PollerClose, Walk, FoundEmpty,
     SeedFails, Skip, HistoryFails, Arrival, Send

(* What is handed on is exactly what came from the other side since the dialog
   was first looked into and the watermark has passed, for any number of dialogs
   and messages, any page, any failures and any clocks; except that of a dialog
   found empty what is dated before the local time read then is overlooked. *)
THEOREM HandedOnExactly == PollerSpec => []HandedExactly
<1> DEFINE Inv == BaleInv /\ HandInv /\ ExactInv /\ Records
<1>1. PollerInit => Inv
  <2>1. PollerInit => Records
    BY DEF PollerInit, Records
  <2> QED BY <2>1, InitBale, InitHand, InitExact
<1>2. Inv /\ [PollerNext]_pollerVars => Inv'
  <2> SUFFICES ASSUME Inv, [PollerNext]_pollerVars PROVE Inv'
    OBVIOUS
  <2>1. BaleInv' /\ HandInv'
    BY BaleStep, HandStep
  <2>2. ExactInv' /\ Records'
    BY ExactStep
  <2> QED BY <2>1, <2>2
<1>3. Inv => HandedExactly
  <2> SUFFICES ASSUME Inv, NEW p \in Peers
               PROVE  Range(handed[p]) = {m \in Passed(p) : ~m.own} \ (old[p] \cup Overlooked(p))
    BY DEF HandedExactly
  <2>1. Exact(mark[p], sent[p], handed[p], old[p], since[p], clock)
    BY DEF ExactInv
  <2>2. CASE ~mark[p].seeded
    <3>1. handed[p] = <<>> /\ Range(<<>>) = {} /\ Passed(p) = {}
      BY <2>1, <2>2 DEF Exact, Range, Passed
    <3> QED BY <3>1
  <2>3. CASE mark[p].seeded
    <3>1. /\ Range(handed[p]) = {m \in sent[p] : ~m.own /\ ~Fresh(m, mark[p]) /\ since[p] <= m.date} \ old[p]
          /\ since[p] \in Nat
      BY <2>1, <2>3 DEF Exact
    <3>2. {m \in Passed(p) : ~m.own} = {m \in sent[p] : ~m.own /\ ~Fresh(m, mark[p])}
      BY <2>3 DEF Passed
    <3>3. \A m \in sent[p] : (since[p] <= m.date) <=> ~(m.date < since[p])
      <4>1. sent[p] \in SUBSET Msg
        BY DEF BaleInv
      <4> QED BY <3>1, <4>1 DEF Msg
    <3> QED BY <3>1, <3>2, <3>3 DEF Overlooked
  <2> QED BY <2>2, <2>3
<1> HIDE DEF Inv
<1> QED BY <1>1, <1>2, <1>3, PTL DEF PollerSpec

-----------------------------------------------------------------------------
(* Protobuf: what its recursive functions compute, by least counterexamples. *)

(* A set whose members have a rank has a member of the least. *)
LEMMA LeastOfSet ==
  ASSUME NEW S, NEW rank \in [S -> Nat], NEW Some \in SUBSET S, Some # {}
  PROVE  \E x \in Some : \A y \in S : rank[y] < rank[x] => y \notin Some
<1> DEFINE C == {rank[x] : x \in Some}
<1>1. C \in SUBSET Nat /\ C # {}
  OBVIOUS
<1>2. PICK k \in C : \A i \in C : k <= i
  <2> HIDE DEF C
  <2> QED BY <1>1, LeastNumber
<1>3. PICK x \in Some : k = rank[x]
  BY <1>2
<1>4. ASSUME NEW y \in S, rank[y] < rank[x] PROVE y \notin Some
  <2>1. rank[y] \in Nat /\ rank[x] \in Nat
    OBVIOUS
  <2>2. y \in Some => rank[x] <= rank[y]
    BY <1>2, <1>3
  <2> QED BY <1>4, <2>1, <2>2
<1> QED BY <1>4

LEMMA WidthsAre ==
  Group \in Nat /\ Group > 1 /\ MaxGroups \in Nat \ {0} /\ Word \in Nat \ {0} /\ Word % 2 = 0
BY WidthsAssumption

LEMMA DivSmaller ==
  ASSUME NEW v \in Nat, v >= Group
  PROVE  v \div Group \in Nat /\ v \div Group < v /\ v % Group \in 0..(Group - 1)
         /\ v = Group * (v \div Group) + (v % Group)
<1>1. Group \in Nat /\ Group > 1
  BY WidthsAre
<1> QED BY <1>1

LEMMA MoreGroups ==
  ASSUME NEW x \in Nat, NEW k \in Nat
  PROVE  (x % Group) + Group * k \in Nat
BY WidthsAre

(* A function that is defined by recursion on something that becomes smaller. *)

Rule(g, x, base, next, val, comb) ==
  g[x] = IF x \in base THEN val[x] ELSE comb[<<x, g[next[x]]>>]

Below(n, g, S, T, rank, base, next, val, comb) ==
  /\ g \in [S -> T]
  /\ \A x \in S : rank[x] <= n => Rule(g, x, base, next, val, comb)

Descends(S, rank, base, next) ==
  /\ rank \in [S -> Nat] /\ base \in SUBSET S /\ next \in [S -> S]
  /\ \A x \in S \ base : rank[next[x]] < rank[x]

LEMMA RecursionExists ==
  ASSUME NEW S, NEW T, NEW rank, NEW base, NEW next, Descends(S, rank, base, next),
         NEW val \in [S -> T], NEW comb \in [S \X T -> T]
  PROVE  \E g \in [S -> T] : \A x \in S : Rule(g, x, base, next, val, comb)
<1> DEFINE Good(n, g) == Below(n, g, S, T, rank, base, next, val, comb)
<1>0. /\ rank \in [S -> Nat] /\ base \in SUBSET S /\ next \in [S -> S]
      /\ \A x \in S \ base : rank[next[x]] < rank[x]
  BY DEF Descends
<1>1. ASSUME NEW n \in Nat, NEW g, NEW h, Good(n, g), Good(n, h)
      PROVE  \A x \in S : rank[x] <= n => g[x] = h[x]
  <2> DEFINE Differ == {x \in S : rank[x] <= n /\ g[x] # h[x]}
  <2>1. SUFFICES ASSUME Differ # {} PROVE FALSE
    OBVIOUS
  <2>2. PICK x \in Differ : \A y \in S : rank[y] < rank[x] => y \notin Differ
    <3>1. Differ \in SUBSET S
      OBVIOUS
    <3> HIDE DEF Differ
    <3> QED BY <1>0, <2>1, <3>1, LeastOfSet
  <2>3. x \in S /\ rank[x] <= n /\ g[x] # h[x]
    BY <2>2
  <2>4. Rule(g, x, base, next, val, comb) /\ Rule(h, x, base, next, val, comb)
    BY <1>1, <2>3 DEF Below
  <2>5. x \notin base
    BY <2>3, <2>4 DEF Rule
  <2>6. rank[next[x]] < rank[x] /\ next[x] \in S /\ rank[x] \in Nat /\ rank[next[x]] \in Nat
    BY <1>0, <2>3, <2>5
  <2>7. rank[next[x]] <= n
    BY <1>1, <2>3, <2>6
  <2>8. g[next[x]] = h[next[x]]
    BY <2>2, <2>6, <2>7
  <2> QED BY <2>3, <2>4, <2>8 DEF Rule
<1>2. ASSUME NEW n \in Nat PROVE \E g : Good(n, g)
  <2> DEFINE C == {k \in Nat : ~ \E g : Good(k, g)}
  <2>1. SUFFICES ASSUME C # {} PROVE FALSE
    OBVIOUS
  <2>2. PICK k \in C : \A i \in C : k <= i
    <3>1. C \in SUBSET Nat
      OBVIOUS
    <3> HIDE DEF C
    <3> QED BY <2>1, <3>1, LeastNumber
  <2>3. k \in Nat /\ ~ \E g : Good(k, g)
    BY <2>2
  <2>4. CASE k = 0
    <3>1. ASSUME NEW x \in S, rank[x] <= 0 PROVE Rule(val, x, base, next, val, comb)
      <4>1. x \in base
        <5>1. rank[x] \in Nat /\ next[x] \in S /\ rank[next[x]] \in Nat
          BY <1>0
        <5> QED BY <1>0, <3>1, <5>1
      <4> QED BY <4>1 DEF Rule
    <3>2. Good(0, val)
      BY <1>0, <3>1 DEF Below
    <3> QED BY <2>3, <2>4, <3>2
  <2>5. CASE k # 0
    <3>1. k - 1 \in Nat /\ k - 1 \notin C
      BY <2>2, <2>3, <2>5
    <3>2. PICK g : Good(k - 1, g)
      BY <3>1
    <3> DEFINE Value(x) == IF x \in base THEN val[x] ELSE comb[<<x, g[next[x]]>>]
               h == [x \in S |-> Value(x)]
    <3>3. g \in [S -> T] /\ \A x \in S : rank[x] <= k - 1 => g[x] = Value(x)
      BY <3>2 DEF Below, Rule
    <3>4. \A x \in S : Value(x) \in T
      BY <1>0, <3>3
    <3>5. h \in [S -> T] /\ \A x \in S : h[x] = Value(x)
      BY <3>4
    <3>6. ASSUME NEW x \in S, rank[x] <= k PROVE Rule(h, x, base, next, val, comb)
      <4>1. CASE x \in base
        BY <3>5, <4>1 DEF Rule
      <4>2. CASE x \notin base
        <5>1. rank[next[x]] < rank[x] /\ next[x] \in S /\ rank[x] \in Nat /\ rank[next[x]] \in Nat
          BY <1>0, <4>2
        <5>2. rank[next[x]] <= k - 1
          BY <2>3, <3>6, <5>1
        <5>3. h[next[x]] = g[next[x]]
          BY <3>3, <3>5, <5>1, <5>2
        <5> HIDE DEF h
        <5> QED BY <3>5, <4>2, <5>3 DEF Rule
      <4> QED BY <4>1, <4>2
    <3>7. Good(k, h)
      <4> HIDE DEF h
      <4> QED BY <3>5, <3>6 DEF Below
    <3> QED BY <2>3, <3>7
  <2> QED BY <2>4, <2>5
<1> DEFINE H(n) == CHOOSE g : Good(n, g)
           f == [x \in S |-> H(rank[x])[x]]
<1>3. \A n \in Nat : Good(n, H(n))
  BY <1>2
<1> HIDE DEF H
<1>4. ASSUME NEW x \in S PROVE H(rank[x])[x] \in T /\ Rule(f, x, base, next, val, comb)
  <2>1. Good(rank[x], H(rank[x])) /\ rank[x] \in Nat
    BY <1>0, <1>3
  <2>2. H(rank[x]) \in [S -> T] /\ Rule(H(rank[x]), x, base, next, val, comb)
    BY <2>1 DEF Below
  <2>3. CASE x \in base
    BY <2>2, <2>3 DEF Rule
  <2>4. CASE x \notin base
    <3>1. rank[next[x]] < rank[x] /\ next[x] \in S /\ rank[next[x]] \in Nat
      BY <1>0, <2>4
    <3>2. Good(rank[next[x]], H(rank[next[x]]))
      BY <1>3, <3>1
    <3>3. Good(rank[next[x]], H(rank[x]))
      <4>1. \A y \in S : rank[y] \in Nat
        BY <1>0
      <4> QED BY <2>1, <3>1, <4>1 DEF Below
    <3>4. H(rank[x])[next[x]] = H(rank[next[x]])[next[x]]
      BY <1>1, <3>1, <3>2, <3>3
    <3>5. f[next[x]] = H(rank[x])[next[x]] /\ f[x] = H(rank[x])[x]
      BY <3>1, <3>4
    <3> HIDE DEF f
    <3> QED BY <2>2, <2>4, <3>5 DEF Rule
  <2> QED BY <2>2, <2>3, <2>4
<1>5. f \in [S -> T]
  BY <1>4
<1> QED BY <1>4, <1>5

Carried(g, S, T, base, next) ==
  /\ \A x \in base : g[x] \in T
  /\ \A x \in S \ base : g[next[x]] \in T => g[x] \in T

LEMMA RecursionTyped ==
  ASSUME NEW S, NEW T, NEW rank, NEW base, NEW next, Descends(S, rank, base, next),
         NEW g, Carried(g, S, T, base, next)
  PROVE  \A x \in S : g[x] \in T
<1> DEFINE Bad == {x \in S : g[x] \notin T}
<1>1. SUFFICES ASSUME Bad # {} PROVE FALSE
  OBVIOUS
<1>2. PICK x \in Bad : \A y \in S : rank[y] < rank[x] => y \notin Bad
  <2>1. Bad \in SUBSET S
    OBVIOUS
  <2> HIDE DEF Bad
  <2> QED BY <1>1, <2>1, LeastOfSet DEF Descends
<1>3. x \in S /\ g[x] \notin T /\ x \notin base
  BY <1>2 DEF Carried
<1>4. next[x] \in S /\ g[next[x]] \in T
  BY <1>2, <1>3 DEF Descends
<1> QED BY <1>3, <1>4 DEF Carried

(* The three recursive definitions of the wire format are such functions. *)

LEMMA VarintIs ==
  /\ VarintOf \in [Nat -> Seq(Nat)]
  /\ \A v \in Nat : VarintOf[v] = IF v < Group THEN <<v>>
                                  ELSE <<Group + (v % Group)>> \o VarintOf[v \div Group]
<1> DEFINE S == Nat
           T == Seq(Nat)
           rank == [v \in S |-> v]
           base == {v \in S : v < Group}
           next == [v \in S |-> IF v < Group THEN v ELSE v \div Group]
           val == [v \in S |-> <<v>>]
           comb == [p \in S \X T |-> <<Group + (p[1] % Group)>> \o p[2]]
           Is(g) == g = [v \in Nat |-> IF v < Group THEN <<v>>
                                       ELSE <<Group + (v % Group)>> \o g[v \div Group]]
<1>1. Descends(S, rank, base, next)
  <2>1. \A v \in Nat : v >= Group => v \div Group \in Nat /\ v \div Group < v
    BY DivSmaller
  <2>2. Group \in Nat
    BY WidthsAre
  <2> QED BY <2>1, <2>2 DEF Descends
<1>2. val \in [S -> T]
  OBVIOUS
<1>3. comb \in [S \X T -> T]
  <2>1. \A v \in Nat, t \in Seq(Nat) : <<Group + (v % Group)>> \o t \in Seq(Nat)
    <3>1. \A v \in Nat : Group + (v % Group) \in Nat
      BY WidthsAre
    <3>2. \A v \in Nat : <<Group + (v % Group)>> \in Seq(Nat)
      BY <3>1
    <3> QED BY <3>2, ConcatProperties
  <2> QED BY <2>1
<1>4. PICK g \in [S -> T] : \A v \in S : Rule(g, v, base, next, val, comb)
  <2> HIDE DEF S, T, rank, base, next, val, comb
  <2> QED BY <1>1, <1>2, <1>3, RecursionExists
<1>5. ASSUME NEW v \in Nat
      PROVE  g[v] = IF v < Group THEN <<v>> ELSE <<Group + (v % Group)>> \o g[v \div Group]
  <2>1. Rule(g, v, base, next, val, comb)
    BY <1>4
  <2>2. CASE v < Group
    BY <2>1, <2>2 DEF Rule
  <2>3. CASE ~(v < Group)
    <3>1. v \div Group \in Nat /\ next[v] = v \div Group /\ v \notin base
      BY <2>3, DivSmaller, WidthsAre
    <3>2. g[v] = comb[<<v, g[v \div Group]>>] /\ g[v \div Group] \in Seq(Nat)
      BY <1>4, <2>1, <3>1 DEF Rule
    <3> QED BY <2>3, <3>1, <3>2
  <2> QED BY <2>2, <2>3
<1>6. Is(g)
  BY <1>4, <1>5
<1>7. VarintOf = CHOOSE h : Is(h)
  BY DEF VarintOf
<1>8. Is(VarintOf)
  <2> HIDE DEF Is
  <2> QED BY <1>6, <1>7
<1>9. \A v \in Nat : VarintOf[v] \in Seq(Nat)
  <2>1. \A v \in base : VarintOf[v] \in T
    BY <1>8
  <2>2. ASSUME NEW v \in S \ base, VarintOf[next[v]] \in T PROVE VarintOf[v] \in T
    <3>0. v \in Nat /\ ~(v < Group) /\ next[v] = v \div Group /\ v % Group \in Nat
      BY WidthsAre
    <3>1. VarintOf[v] = <<Group + (v % Group)>> \o VarintOf[next[v]] /\ v % Group \in Nat
      BY <1>8, <3>0
    <3>2. <<Group + (v % Group)>> \in Seq(Nat)
      BY <3>1, WidthsAre
    <3> QED BY <2>2, <3>1, <3>2, ConcatProperties
  <2>3. Carried(VarintOf, S, T, base, next)
    BY <2>1, <2>2 DEF Carried
  <2> HIDE DEF rank, base, next, S, T
  <2>4. \A v \in S : VarintOf[v] \in T
    BY <1>1, <2>3, RecursionTyped
  <2> QED BY <2>4 DEF S, T
<1> QED BY <1>8, <1>9

(* What is left of a byte string, and what a concatenation leaves. *)
LEMMA FromIs ==
  ASSUME NEW b \in Bytes, NEW at \in Nat \ {0}
  PROVE  From(b, at) \in Bytes /\ Len(From(b, at)) = IF at <= Len(b) THEN Len(b) - at + 1 ELSE 0
<1>1. Len(b) \in Nat /\ \A i \in at..Len(b) : b[i] \in Nat
  BY LenProperties, ElementOfSeq DEF Bytes
<1> QED BY <1>1, SubSeqProperties DEF From, Bytes

LEMMA FromConcat ==
  ASSUME NEW a \in Bytes, NEW b \in Bytes
  PROVE  From(a \o b, Len(a) + 1) = b
<1> DEFINE c == a \o b
<1>1. /\ Len(a) \in Nat /\ Len(b) \in Nat /\ c \in Bytes /\ Len(c) = Len(a) + Len(b)
      /\ \A i \in 1..Len(b) : c[Len(a) + i] = b[i]
  BY ConcatProperties, LenProperties DEF Bytes
<1> HIDE DEF c
<1>2. \A i \in (Len(a) + 1)..Len(c) : c[i] \in Nat
  BY <1>1, ElementOfSeq DEF Bytes
<1> DEFINE r == SubSeq(c, Len(a) + 1, Len(c))
<1>3. /\ r \in Seq(Nat) /\ Len(r) = Len(b)
      /\ \A i \in 1..Len(b) : r[i] = c[Len(a) + i]
  <2>1. Len(a) + 1 \in Int /\ Len(c) \in Int
    BY <1>1
  <2>2. /\ r \in Seq(Nat)
        /\ Len(r) = IF Len(a) + 1 <= Len(c) THEN Len(c) - (Len(a) + 1) + 1 ELSE 0
        /\ \A i \in 1..(Len(c) - (Len(a) + 1) + 1) : r[i] = c[Len(a) + 1 + i - 1]
    BY <1>2, <2>1, SubSeqProperties
  <2> HIDE DEF r
  <2>3. \A i \in 1..Len(b) : i \in 1..(Len(c) - (Len(a) + 1) + 1) /\ Len(a) + 1 + i - 1 = Len(a) + i
    BY <1>1
  <2> QED BY <1>1, <2>2, <2>3
<1> HIDE DEF r
<1>4. r = b
  BY <1>1, <1>3, SeqEqual DEF Bytes
<1> QED BY <1>4 DEF From, r, c

LEMMA PrefixConcat ==
  ASSUME NEW a \in Bytes, NEW b \in Bytes
  PROVE  SubSeq(a \o b, 1, Len(a)) = a
<1> DEFINE c == a \o b
<1>1. /\ Len(a) \in Nat /\ Len(b) \in Nat /\ c \in Bytes /\ Len(c) = Len(a) + Len(b)
      /\ \A i \in 1..Len(a) : c[i] = a[i]
  BY ConcatProperties, LenProperties DEF Bytes
<1> HIDE DEF c
<1>2. \A i \in 1..Len(a) : c[i] \in Nat
  BY <1>1, ElementOfSeq DEF Bytes
<1> DEFINE r == SubSeq(c, 1, Len(a))
<1>3. r \in Seq(Nat) /\ Len(r) = Len(a) /\ \A i \in 1..Len(a) : r[i] = c[i]
  <2>1. /\ r \in Seq(Nat)
        /\ Len(r) = IF 1 <= Len(a) THEN Len(a) - 1 + 1 ELSE 0
        /\ \A i \in 1..(Len(a) - 1 + 1) : r[i] = c[1 + i - 1]
    BY <1>1, <1>2, SubSeqProperties
  <2> HIDE DEF r
  <2>2. \A i \in 1..Len(a) : i \in 1..(Len(a) - 1 + 1) /\ 1 + i - 1 = i
    BY <1>1
  <2> QED BY <1>1, <2>1, <2>2
<1> HIDE DEF r
<1>4. r = a
  BY <1>1, <1>3, SeqEqual DEF Bytes
<1> QED BY <1>4 DEF r, c

LEMMA FrontIs ==
  ASSUME NEW b \in Bytes, NEW n \in Nat, n <= Len(b)
  PROVE  SubSeq(b, 1, n) \in Bytes /\ Len(SubSeq(b, 1, n)) = n
<1>1. Len(b) \in Nat /\ \A i \in 1..n : b[i] \in Nat
  <2>1. Len(b) \in Nat
    BY LenProperties DEF Bytes
  <2>2. \A i \in 1..n : i \in 1..Len(b)
    BY <2>1
  <2> QED BY <2>1, <2>2, ElementOfSeq DEF Bytes
<1>2. /\ SubSeq(b, 1, n) \in Seq(Nat)
      /\ Len(SubSeq(b, 1, n)) = IF 1 <= n THEN n - 1 + 1 ELSE 0
  BY <1>1, SubSeqProperties
<1> QED BY <1>2 DEF Bytes

LEMMA ValueIs ==
  /\ \A b \in Bytes : ValueOf[b] \in Nat
  /\ \A b \in Bytes : ValueOf[b] = IF b = <<>> THEN 0 ELSE (Head(b) % Group) + Group * ValueOf[Tail(b)]
<1> DEFINE rank == [b \in Bytes |-> Len(b)]
           base == {<<>>}
           next == [b \in Bytes |-> IF b = <<>> THEN b ELSE Tail(b)]
           val == [b \in Bytes |-> 0]
           comb == [p \in Bytes \X Nat |->
                      IF p[1] = <<>> THEN 0 ELSE (Head(p[1]) % Group) + Group * p[2]]
           Is(g) == g = [b \in Bytes |-> IF b = <<>> THEN 0 ELSE (Head(b) % Group) + Group * g[Tail(b)]]
<1>0. /\ <<>> \in Bytes /\ Group \in Nat \ {0}
      /\ \A b \in Bytes : Len(b) \in Nat
      /\ \A b \in Bytes \ {<<>>} : Head(b) \in Nat /\ Tail(b) \in Bytes /\ Len(Tail(b)) < Len(b)
  <2>1. ASSUME NEW b \in Seq(Nat), b # <<>>
        PROVE  Head(b) \in Nat /\ Tail(b) \in Seq(Nat) /\ Len(Tail(b)) < Len(b)
    BY <2>1, HeadTailProperties, LenProperties
  <2> QED BY <2>1, EmptySeq, LenProperties, WidthsAre DEF Bytes
<1>1. Descends(Bytes, rank, base, next)
  BY <1>0 DEF Descends
<1>2. val \in [Bytes -> Nat]
  OBVIOUS
<1>3. comb \in [Bytes \X Nat -> Nat]
  <2>1. \A x \in Nat, k \in Nat : (x % Group) + Group * k \in Nat
    BY MoreGroups
  <2> QED BY <1>0, <2>1
<1>4. PICK g \in [Bytes -> Nat] : \A b \in Bytes : Rule(g, b, base, next, val, comb)
  <2> HIDE DEF rank, base, next, val, comb
  <2> QED BY <1>1, <1>2, <1>3, RecursionExists
<1>5. ASSUME NEW b \in Bytes
      PROVE  g[b] = IF b = <<>> THEN 0 ELSE (Head(b) % Group) + Group * g[Tail(b)]
  <2>1. Rule(g, b, base, next, val, comb)
    BY <1>4
  <2>2. CASE b = <<>>
    BY <2>1, <2>2 DEF Rule
  <2>3. CASE b # <<>>
    <3>1. Tail(b) \in Bytes /\ next[b] = Tail(b) /\ b \notin base
      BY <1>0, <2>3
    <3>2. g[b] = comb[<<b, g[Tail(b)]>>] /\ g[Tail(b)] \in Nat
      BY <1>4, <2>1, <3>1 DEF Rule
    <3> QED BY <2>3, <3>1, <3>2
  <2> QED BY <2>2, <2>3
<1>6. Is(g)
  BY <1>4, <1>5
<1>7. ValueOf = CHOOSE h : Is(h)
  BY DEF ValueOf
<1>8. Is(ValueOf)
  <2> HIDE DEF Is
  <2> QED BY <1>6, <1>7
<1>9. \A b \in Bytes : ValueOf[b] = IF b = <<>> THEN 0 ELSE (Head(b) % Group) + Group * ValueOf[Tail(b)]
  BY <1>8
<1>10. \A b \in Bytes : ValueOf[b] \in Nat
  <2>1. \A b \in base : ValueOf[b] \in Nat
    BY <1>0, <1>9
  <2>2. ASSUME NEW b \in Bytes \ base, ValueOf[next[b]] \in Nat PROVE ValueOf[b] \in Nat
    <3>1. ValueOf[b] = (Head(b) % Group) + Group * ValueOf[next[b]] /\ Head(b) \in Nat
      BY <1>0, <1>9
    <3>2. \A x \in Nat, k \in Nat : (x % Group) + Group * k \in Nat
      BY MoreGroups
    <3> HIDE DEF next
    <3> QED BY <2>2, <3>1, <3>2
  <2>3. Carried(ValueOf, Bytes, Nat, base, next)
    BY <2>1, <2>2 DEF Carried
  <2> HIDE DEF rank, base, next
  <2> QED BY <1>1, <2>3, RecursionTyped
<1> QED BY <1>9, <1>10

-----------------------------------------------------------------------------
(* The reader. *)

LEMMA LeadingIs ==
  ASSUME NEW b \in Bytes, HasVarint(b)
  PROVE  /\ Leading(b).value \in Nat /\ Leading(b).rest \in Bytes
         /\ Len(Leading(b).rest) < Len(b)
<1> DEFINE end == CHOOSE e \in LastGroups(b) : \A o \in LastGroups(b) : e <= o
<1>1. LastGroups(b) \in SUBSET Nat /\ LastGroups(b) # {}
  BY WidthsAre DEF LastGroups, HasVarint
<1>2. end \in LastGroups(b)
  BY <1>1, LeastNumber
<1>3. end \in Nat \ {0} /\ end <= Len(b) /\ Len(b) \in Nat
  <2>1. Len(b) \in Nat
    BY LenProperties DEF Bytes
  <2>2. end \in 1..MaxGroups /\ end <= Len(b)
    BY <1>2 DEF LastGroups
  <2> HIDE DEF end
  <2> QED BY <2>1, <2>2, WidthsAre
<1>4. Leading(b) = [value |-> ValueOf[SubSeq(b, 1, end)], rest |-> From(b, end + 1)]
  BY DEF Leading
<1> HIDE DEF end
<1>5. SubSeq(b, 1, end) \in Bytes
  BY <1>3, FrontIs
<1>6. From(b, end + 1) \in Bytes /\ Len(From(b, end + 1)) = IF end + 1 <= Len(b) THEN Len(b) - end ELSE 0
  <2>1. /\ end + 1 \in Nat \ {0}
        /\ end + 1 <= Len(b) => Len(b) - (end + 1) + 1 = Len(b) - end
    BY <1>3
  <2> DEFINE at == end + 1
  <2> HIDE DEF at
  <2>2. From(b, at) \in Bytes /\ Len(From(b, at)) = IF at <= Len(b) THEN Len(b) - at + 1 ELSE 0
    BY <2>1, FromIs DEF at
  <2> QED BY <2>1, <2>2 DEF at
<1>7. Len(From(b, end + 1)) < Len(b)
  BY <1>3, <1>6
<1> QED BY <1>4, <1>5, <1>6, <1>7, ValueIs

\* A field as the reader yields it.
FieldRecord == [num : Nat, wire : Nat, int : Nat, bytes : Bytes]

LEMMA FieldIs ==
  ASSUME NEW n \in Nat, NEW w \in Nat, NEW v \in Nat, NEW bytes \in Bytes
  PROVE  Field(n, w, v, bytes) \in FieldRecord /\ <<Field(n, w, v, bytes)>> \in Seq(FieldRecord)
BY DEF Field, FieldRecord

LEMMA NoBytes == <<>> \in Bytes /\ Len(<<>>) = 0
BY EmptySeq DEF Bytes

\* The reader got a field, or skipped one, and has less of b before it.
Onward(one, b) ==
  one.fields \in Seq(FieldRecord) /\ one.rest \in Bytes /\ Len(one.rest) < Len(b)

(* Each field the reader meets is a field, and takes it on. *)
LEMMA FirstFieldIs ==
  ASSUME NEW b \in Bytes, b # <<>>
  PROVE  /\ FirstField(b).fields \in Seq(FieldRecord)
         /\ FirstField(b).rest \in Bytes /\ Len(FirstField(b).rest) < Len(b)
<1> SUFFICES Onward(FirstField(b), b)
  BY DEF Onward
<1>1. Len(b) \in Nat /\ 0 < Len(b)
  BY EmptySeq, LenProperties DEF Bytes
<1>2. Thrown \in FieldRecord /\ <<Thrown>> \in Seq(FieldRecord)
  BY NoBytes, FieldIs DEF Thrown
<1>3. Onward(One(Thrown, <<>>), b)
  BY <1>1, <1>2, NoBytes DEF One, Onward
<1>4. CASE ~HasVarint(b)
  BY <1>3, <1>4 DEF FirstField
<1>5. CASE HasVarint(b)
  <2> DEFINE key == Leading(b).value
             r == Leading(b).rest
  <2>1. key \in Nat /\ r \in Bytes /\ Len(r) \in Nat /\ Len(r) < Len(b)
    BY <1>5, LeadingIs, LenProperties DEF Bytes
  <2>2. FirstField(b) = FieldAfter(key, r)
    BY <1>5 DEF FirstField
  <2> HIDE DEF key, r
  <2> SUFFICES Onward(FieldAfter(key, r), b)
    BY <2>2
  <2>3. ASSUME NEW at \in Nat \ {0} PROVE Onward([fields |-> <<>>, rest |-> From(r, at)], b)
    <3>1. <<>> \in Seq(FieldRecord)
      BY EmptySeq
    <3>2. /\ From(r, at) \in Bytes
          /\ Len(From(r, at)) = IF at <= Len(r) THEN Len(r) - at + 1 ELSE 0
      BY <2>1, FromIs
    <3>3. Len(From(r, at)) < Len(b)
      BY <1>1, <2>1, <3>2
    <3> QED BY <3>1, <3>2, <3>3 DEF Onward
  <2>6. CASE key % 8 = 1
    <3>1. FieldAfter(key, r) = [fields |-> <<>>, rest |-> From(r, 9)]
      BY <2>6 DEF FieldAfter
    <3> QED BY <2>3, <3>1
  <2>7. CASE key % 8 = 5
    <3>1. FieldAfter(key, r) = [fields |-> <<>>, rest |-> From(r, 5)]
      BY <2>7 DEF FieldAfter
    <3> QED BY <2>3, <3>1
  <2>8. CASE key % 8 \notin {0, 1, 2, 5}
    <3>1. FieldAfter(key, r) = One(Thrown, <<>>)
      BY <2>8 DEF FieldAfter
    <3> QED BY <1>3, <3>1
  <2>4. CASE HasVarint(r)
    <3> DEFINE v == Leading(r).value
               q == Leading(r).rest
    <3>1. v \in Nat /\ q \in Bytes /\ Len(q) \in Nat /\ Len(q) < Len(r)
      BY <2>1, <2>4, LeadingIs, LenProperties DEF Bytes
    <3>2. key \div 8 \in Nat
      BY <2>1
    <3>3. Onward(IntAfter(key, Leading(r)), b)
      <4>1. IntAfter(key, Leading(r)) = [fields |-> <<Field(key \div 8, 0, v, <<>>)>>, rest |-> q]
        BY DEF IntAfter, One
      <4> HIDE DEF v, q
      <4>2. <<Field(key \div 8, 0, v, <<>>)>> \in Seq(FieldRecord)
        BY <3>1, <3>2, NoBytes, FieldIs
      <4> QED BY <1>1, <2>1, <3>1, <4>1, <4>2 DEF Onward
    <3>4. Onward(BytesAfter(key, Leading(r)), b)
      <4>1. CASE v > Len(q)
        BY <1>3, <4>1 DEF BytesAfter
      <4>2. CASE ~(v > Len(q))
        <5>1. BytesAfter(key, Leading(r)) =
                [fields |-> <<Field(key \div 8, 2, 0, SubSeq(q, 1, v))>>, rest |-> From(q, v + 1)]
          BY <4>2 DEF BytesAfter, One
        <5> HIDE DEF v, q
        <5>2. SubSeq(q, 1, v) \in Bytes
          BY <3>1, <4>2, FrontIs
        <5>3. <<Field(key \div 8, 2, 0, SubSeq(q, 1, v))>> \in Seq(FieldRecord)
          BY <3>1, <3>2, <5>2, FieldIs
        <5>4. /\ From(q, v + 1) \in Bytes
              /\ Len(From(q, v + 1)) = IF v + 1 <= Len(q) THEN Len(q) - (v + 1) + 1 ELSE 0
          <6>1. v + 1 \in Nat \ {0}
            BY <3>1
          <6> DEFINE at == v + 1
          <6> HIDE DEF at
          <6>2. /\ From(q, at) \in Bytes
                /\ Len(From(q, at)) = IF at <= Len(q) THEN Len(q) - at + 1 ELSE 0
            BY <3>1, <6>1, FromIs DEF at
          <6> QED BY <6>2 DEF at
        <5>5. Len(From(q, v + 1)) < Len(b)
          BY <1>1, <2>1, <3>1, <5>4
        <5> QED BY <5>1, <5>3, <5>4, <5>5 DEF Onward
      <4> QED BY <4>1, <4>2
    <3>5. CASE key % 8 = 0
      BY <2>4, <3>3, <3>5 DEF FieldAfter
    <3>6. CASE key % 8 = 2
      BY <2>4, <3>4, <3>6 DEF FieldAfter
    <3> QED BY <2>6, <2>7, <2>8, <3>5, <3>6
  <2>5. CASE ~HasVarint(r)
    <3>1. CASE key % 8 \in {0, 2}
      BY <1>3, <2>5, <3>1 DEF FieldAfter
    <3> QED BY <2>6, <2>7, <2>8, <3>1
  <2> QED BY <2>4, <2>5
<1> QED BY <1>4, <1>5

LEMMA FieldsIs ==
  /\ \A b \in Bytes : Fields[b] \in Seq(FieldRecord)
  /\ \A b \in Bytes : Fields[b] = IF b = <<>> THEN <<>>
                                  ELSE FirstField(b).fields \o Fields[FirstField(b).rest]
<1> DEFINE T == Seq(FieldRecord)
           rank == [b \in Bytes |-> Len(b)]
           base == {<<>>}
           next == [b \in Bytes |-> IF b = <<>> THEN b ELSE FirstField(b).rest]
           val == [b \in Bytes |-> <<>>]
           comb == [p \in Bytes \X T |-> IF p[1] = <<>> THEN <<>> ELSE FirstField(p[1]).fields \o p[2]]
           Is(g) == g = [b \in Bytes |-> IF b = <<>> THEN <<>>
                                         ELSE FirstField(b).fields \o g[FirstField(b).rest]]
<1>0. /\ <<>> \in Bytes /\ <<>> \in T
      /\ \A b \in Bytes : Len(b) \in Nat
      /\ \A b \in Bytes \ {<<>>} : /\ FirstField(b).fields \in T
                                   /\ FirstField(b).rest \in Bytes /\ Len(FirstField(b).rest) < Len(b)
  BY EmptySeq, LenProperties, FirstFieldIs DEF Bytes
<1>1. Descends(Bytes, rank, base, next)
  BY <1>0 DEF Descends
<1>2. val \in [Bytes -> T]
  BY <1>0
<1>3. comb \in [Bytes \X T -> T]
  <2>1. \A a \in T, b \in T : a \o b \in T
    BY ConcatProperties
  <2> HIDE DEF T
  <2> QED BY <1>0, <2>1
<1>4. PICK g \in [Bytes -> T] : \A b \in Bytes : Rule(g, b, base, next, val, comb)
  <2> HIDE DEF T, rank, base, next, val, comb
  <2> QED BY <1>1, <1>2, <1>3, RecursionExists
<1>5. ASSUME NEW b \in Bytes
      PROVE  g[b] = IF b = <<>> THEN <<>> ELSE FirstField(b).fields \o g[FirstField(b).rest]
  <2>1. Rule(g, b, base, next, val, comb)
    BY <1>4
  <2>2. CASE b = <<>>
    BY <2>1, <2>2 DEF Rule
  <2>3. CASE b # <<>>
    <3>1. FirstField(b).rest \in Bytes /\ next[b] = FirstField(b).rest /\ b \notin base
      BY <1>0, <2>3
    <3> DEFINE r == FirstField(b).rest
    <3>2. g[b] = comb[<<b, g[r]>>] /\ g[r] \in T
      <4> HIDE DEF T, comb
      <4> QED BY <1>4, <2>1, <3>1 DEF Rule
    <3>3. comb[<<b, g[r]>>] = FirstField(b).fields \o g[r]
      <4> HIDE DEF T, r
      <4> QED BY <2>3, <3>2
    <3> QED BY <2>3, <3>2, <3>3
  <2> QED BY <2>2, <2>3
<1>6. Is(g)
  <2> HIDE DEF T
  <2> QED BY <1>4, <1>5
<1>7. Fields = CHOOSE h : Is(h)
  BY DEF Fields
<1>8. Is(Fields)
  <2> HIDE DEF Is
  <2> QED BY <1>6, <1>7
<1>9. \A b \in Bytes : Fields[b] = IF b = <<>> THEN <<>>
                                   ELSE FirstField(b).fields \o Fields[FirstField(b).rest]
  BY <1>8
<1>10. \A b \in Bytes : Fields[b] \in T
  <2>1. \A b \in base : Fields[b] \in T
    BY <1>0, <1>9
  <2>2. ASSUME NEW b \in Bytes \ base, Fields[next[b]] \in T PROVE Fields[b] \in T
    <3>1. Fields[b] = FirstField(b).fields \o Fields[next[b]] /\ FirstField(b).fields \in T
      BY <1>0, <1>9
    <3> HIDE DEF next
    <3> QED BY <2>2, <3>1, ConcatProperties
  <2>3. Carried(Fields, Bytes, T, base, next)
    BY <2>1, <2>2 DEF Carried
  <2> HIDE DEF rank, base, next, T
  <2> QED BY <1>1, <2>3, RecursionTyped
<1> QED BY <1>9, <1>10

-----------------------------------------------------------------------------
(* What is written is read. *)

(* The groups of a number: all but the last say that more follow. *)
Groups(g, v) ==
  /\ g \in Bytes /\ 1 <= Len(g) /\ g[Len(g)] < Group /\ ValueOf[g] = v
  /\ \A i \in 1..(Len(g) - 1) : g[i] >= Group

LEMMA OneGroup ==
  ASSUME NEW v \in Nat, v < Group
  PROVE  Groups(<<v>>, v)
<1>1. <<v>> \in Bytes /\ Len(<<v>>) = 1 /\ <<v>>[1] = v /\ Head(<<v>>) = v /\ Tail(<<v>>) = <<>>
  BY DEF Bytes
<1>2. v % Group = v
  BY WidthsAre
<1>3. ValueOf[<<>>] = 0
  BY NoBytes, ValueIs
<1>4. ValueOf[<<v>>] = v
  <2>1. ValueOf[<<v>>] = (v % Group) + Group * 0
    BY <1>1, <1>3, ValueIs
  <2> QED BY <1>2, <2>1, WidthsAre
<1> QED BY <1>1, <1>4 DEF Groups

LEMMA OneMoreGroup ==
  ASSUME NEW x \in 0..(Group - 1), NEW g, NEW v \in Nat, Groups(g, v)
  PROVE  Groups(<<Group + x>> \o g, x + Group * v)
<1> DEFINE more == <<Group + x>> \o g
<1>1. x \in Nat /\ x < Group /\ Group \in Nat /\ Group > 1 /\ Group + x \in Nat /\ (Group + x) % Group = x
  BY WidthsAre
<1>2. g \in Bytes /\ Len(g) \in Nat /\ 1 <= Len(g)
  BY LenProperties DEF Groups, Bytes
<1>3. <<Group + x>> \in Bytes /\ Len(<<Group + x>>) = 1 /\ <<Group + x>>[1] = Group + x
  BY <1>1 DEF Bytes
<1>4. /\ more \in Bytes /\ Len(more) = Len(g) + 1 /\ more[1] = Group + x
      /\ \A i \in 1..Len(g) : more[i + 1] = g[i]
  <2>1. /\ more \in Seq(Nat) /\ Len(more) = 1 + Len(g)
        /\ \A i \in 1..(1 + Len(g)) : more[i] = IF i <= 1 THEN <<Group + x>>[i] ELSE g[i - 1]
    BY <1>2, <1>3, ConcatProperties DEF Bytes
  <2> HIDE DEF more
  <2>2. more[1] = Group + x
    BY <1>2, <1>3, <2>1
  <2>3. ASSUME NEW i \in 1..Len(g) PROVE more[i + 1] = g[i]
    <3>1. i + 1 \in 1..(1 + Len(g)) /\ ~(i + 1 <= 1) /\ i + 1 - 1 = i
      BY <1>2
    <3> QED BY <2>1, <3>1
  <2> QED BY <1>2, <2>1, <2>2, <2>3 DEF Bytes
<1> HIDE DEF more
<1>5. Head(more) = Group + x /\ Tail(more) = g /\ more # <<>>
  <2>1. more # <<>>
    BY <1>2, <1>4, EmptySeq
  <2>2. Tail(more) \in Seq(Nat) /\ Len(Tail(more)) = Len(g) /\ \A i \in 1..Len(g) : Tail(more)[i] = more[i + 1]
    BY <1>2, <1>4, <2>1, HeadTailProperties DEF Bytes
  <2>3. Tail(more) = g
    BY <1>2, <1>4, <2>2, SeqEqual DEF Bytes
  <2> QED BY <1>4, <2>1, <2>3
<1>6. ValueOf[more] = x + Group * v
  BY <1>1, <1>4, <1>5, ValueIs DEF Groups
<1>7. ASSUME NEW i \in 1..(Len(more) - 1) PROVE more[i] >= Group
  <2>1. CASE i = 1
    BY <1>1, <1>4, <2>1
  <2>2. CASE i # 1
    <3>1. i - 1 \in 1..(Len(g) - 1) /\ i - 1 \in 1..Len(g) /\ i - 1 + 1 = i
      BY <1>2, <1>4, <2>2
    <3>2. more[i] = g[i - 1]
      BY <1>4, <3>1
    <3> QED BY <3>1, <3>2 DEF Groups
  <2> QED BY <2>1, <2>2
<1>8. more[Len(more)] < Group
  BY <1>2, <1>4 DEF Groups
<1>9. Groups(more, x + Group * v)
  BY <1>2, <1>4, <1>6, <1>7, <1>8 DEF Groups
<1> QED BY <1>9 DEF more

LEMMA VarintGroups == \A v \in Nat : Groups(VarintOf[v], v)
<1> DEFINE rank == [v \in Nat |-> v]
           Bad == {v \in Nat : ~Groups(VarintOf[v], v)}
<1>1. SUFFICES ASSUME Bad # {} PROVE FALSE
  OBVIOUS
<1>2. PICK v \in Bad : \A y \in Nat : rank[y] < rank[v] => y \notin Bad
  <2>1. Bad \in SUBSET Nat /\ rank \in [Nat -> Nat]
    OBVIOUS
  <2> HIDE DEF Bad, rank
  <2> QED BY <1>1, <2>1, LeastOfSet
<1>3. v \in Nat /\ ~Groups(VarintOf[v], v)
  BY <1>2
<1>4. VarintOf[v] = IF v < Group THEN <<v>> ELSE <<Group + (v % Group)>> \o VarintOf[v \div Group]
  BY <1>3, VarintIs
<1>5. CASE v < Group
  BY <1>3, <1>4, <1>5, OneGroup
<1>6. CASE ~(v < Group)
  <2>1. v >= Group
    BY <1>3, <1>6, WidthsAre
  <2>2. /\ v \div Group \in Nat /\ v \div Group < v /\ v % Group \in 0..(Group - 1)
        /\ v = (v % Group) + Group * (v \div Group)
    <3>1. /\ v \div Group \in Nat /\ v \div Group < v /\ v % Group \in 0..(Group - 1)
          /\ v = Group * (v \div Group) + (v % Group)
      BY <1>3, <2>1, DivSmaller
    <3> QED BY <3>1, WidthsAre
  <2>3. Groups(VarintOf[v \div Group], v \div Group)
    BY <1>2, <1>3, <2>2
  <2>4. Groups(<<Group + (v % Group)>> \o VarintOf[v \div Group], (v % Group) + Group * (v \div Group))
    BY <2>2, <2>3, OneMoreGroup
  <2> QED BY <1>3, <1>4, <1>6, <2>2, <2>4
<1> QED BY <1>5, <1>6

(* Groups are read back from the head of whatever they stand before. *)
LEMMA LeadingGroups ==
  ASSUME NEW v \in Nat, NEW g, Groups(g, v), Len(g) <= MaxGroups, NEW rest \in Bytes
  PROVE  HasVarint(g \o rest) /\ Leading(g \o rest) = [value |-> v, rest |-> rest]
<1> DEFINE b == g \o rest
           end == CHOOSE e \in LastGroups(b) : \A o \in LastGroups(b) : e <= o
<1>1. /\ g \in Bytes /\ Len(g) \in Nat /\ 1 <= Len(g) /\ g[Len(g)] < Group /\ ValueOf[g] = v
      /\ Len(rest) \in Nat /\ MaxGroups \in Nat
      /\ \A i \in 1..(Len(g) - 1) : g[i] >= Group /\ g[i] \in Nat
  BY LenProperties, ElementOfSeq, WidthsAre DEF Groups, Bytes
<1>2. Len(b) = Len(g) + Len(rest) /\ \A i \in 1..Len(g) : b[i] = g[i]
  BY <1>1, ConcatProperties DEF Bytes
<1> HIDE DEF b
<1>3. Len(g) \in LastGroups(b)
  BY <1>1, <1>2 DEF LastGroups
<1>4. ASSUME NEW e \in LastGroups(b) PROVE Len(g) <= e
  <2>1. e \in 1..MaxGroups /\ b[e] < Group
    BY DEF LastGroups
  <2>2. CASE e < Len(g)
    <3>1. e \in 1..(Len(g) - 1) /\ e \in 1..Len(g)
      BY <1>1, <2>1, <2>2
    <3> QED BY <1>1, <1>2, <2>1, <3>1, WidthsAre
  <2> QED BY <1>1, <2>1, <2>2
<1>5. end = Len(g)
  <2>1. \A e \in LastGroups(b) : (\A o \in LastGroups(b) : e <= o) => e = Len(g)
    <3> SUFFICES ASSUME NEW e \in LastGroups(b), \A o \in LastGroups(b) : e <= o PROVE e = Len(g)
      OBVIOUS
    <3>1. e \in Nat /\ e <= Len(g) /\ Len(g) <= e
      BY <1>1, <1>3, <1>4 DEF LastGroups
    <3> QED BY <1>1, <3>1
  <2> QED BY <1>3, <1>4, <2>1
<1>6. Leading(b) = [value |-> ValueOf[SubSeq(b, 1, Len(g))], rest |-> From(b, Len(g) + 1)]
  <2>1. Leading(b) = [value |-> ValueOf[SubSeq(b, 1, end)], rest |-> From(b, end + 1)]
    BY DEF Leading
  <2> HIDE DEF end
  <2> QED BY <1>5, <2>1
<1>7. HasVarint(b)
  BY <1>3 DEF HasVarint
<1>8. SubSeq(b, 1, Len(g)) = g /\ From(b, Len(g) + 1) = rest
  BY <1>1, PrefixConcat, FromConcat DEF b
<1> QED BY <1>1, <1>6, <1>7, <1>8 DEF b

(* A number that n groups have room for goes out in at most n of them. *)
LEMMA FitIs ==
  /\ \A n \in Nat : Fit[n] \in Nat
  /\ \A n \in Nat : Fit[n] = IF n = 0 THEN 1 ELSE Group * Fit[n - 1]
<1> DEFINE rank == [n \in Nat |-> n]
           base == {0}
           next == [n \in Nat |-> IF n = 0 THEN 0 ELSE n - 1]
           val == [n \in Nat |-> 1]
           comb == [p \in Nat \X Nat |-> Group * p[2]]
           Is(g) == g = [n \in Nat |-> IF n = 0 THEN 1 ELSE Group * g[n - 1]]
<1>0. Group \in Nat /\ \A n \in Nat \ {0} : n - 1 \in Nat
  BY WidthsAre
<1>1. Descends(Nat, rank, base, next)
  BY <1>0 DEF Descends
<1>2. val \in [Nat -> Nat] /\ comb \in [Nat \X Nat -> Nat]
  BY <1>0
<1>3. PICK g \in [Nat -> Nat] : \A n \in Nat : Rule(g, n, base, next, val, comb)
  <2> HIDE DEF rank, base, next, val, comb
  <2> QED BY <1>1, <1>2, RecursionExists
<1>4. ASSUME NEW n \in Nat PROVE g[n] = IF n = 0 THEN 1 ELSE Group * g[n - 1]
  <2>1. Rule(g, n, base, next, val, comb)
    BY <1>3
  <2>2. CASE n = 0
    BY <2>1, <2>2 DEF Rule
  <2>3. CASE n # 0
    BY <1>0, <2>1, <2>3 DEF Rule
  <2> QED BY <2>2, <2>3
<1>5. Is(g)
  BY <1>3, <1>4
<1>6. Fit = CHOOSE h : Is(h)
  BY DEF Fit
<1>7. Is(Fit)
  <2> HIDE DEF Is
  <2> QED BY <1>5, <1>6
<1>8. Carried(Fit, Nat, Nat, base, next)
  <2>1. Fit[0] \in Nat
    BY <1>7
  <2>2. ASSUME NEW n \in Nat \ base, Fit[next[n]] \in Nat PROVE Fit[n] \in Nat
    <3>1. n \in Nat /\ n # 0 /\ next[n] = n - 1
      OBVIOUS
    <3>2. Fit[n] = Group * Fit[next[n]]
      BY <1>7, <3>1
    <3> QED BY <1>0, <2>2, <3>2
  <2> QED BY <2>1, <2>2 DEF Carried
<1>9. \A n \in Nat : Fit[n] \in Nat
  <2> HIDE DEF rank, base, next
  <2> QED BY <1>1, <1>8, RecursionTyped
<1> QED BY <1>7, <1>9

LEMMA FewerGroups ==
  ASSUME NEW v \in Nat, NEW f \in Nat, v >= Group, v < Group * f
  PROVE  v \div Group < f
<1> DEFINE q == v \div Group
<1>1. q \in Nat /\ v = Group * q + (v % Group) /\ v % Group \in Nat /\ Group \in Nat /\ Group > 1
  BY DivSmaller, WidthsAre
<1> HIDE DEF q
<1>2. Group * q \in Nat /\ Group * f \in Nat /\ Group * q < Group * f
  BY <1>1
<1>3. CASE q >= f
  <2>1. PICK k \in Nat : q = f + k
    <3>1. q - f \in Nat /\ q = f + (q - f)
      BY <1>1, <1>3
    <3> QED BY <3>1
  <2>2. Group * q = Group * f + Group * k /\ Group * k \in Nat
    BY <1>1, <2>1
  <2> QED BY <1>2, <2>2
<1>4. CASE ~(q >= f)
  BY <1>1, <1>4 DEF q
<1> QED BY <1>3, <1>4

LEMMA VarintFits ==
  ASSUME NEW n \in Nat, n # 0, NEW v \in Nat, v < Fit[n]
  PROVE  Len(VarintOf[v]) <= n
<1> DEFINE Short(m) == \A w \in Nat : w < Fit[m] => Len(VarintOf[w]) <= m
           Long == {m \in Nat \ {0} : ~Short(m)}
<1>1. SUFFICES ASSUME Long # {} PROVE FALSE
  <2>1. n \notin Long => Short(n)
    OBVIOUS
  <2> QED BY <2>1
<1>2. PICK m \in Long : \A k \in Long : m <= k
  <2>1. Long \in SUBSET Nat
    OBVIOUS
  <2> HIDE DEF Long
  <2> QED BY <1>1, <2>1, LeastNumber
<1>3. m \in Nat /\ m # 0
  BY <1>2
<1>4. ASSUME NEW w \in Nat, w < Fit[m] PROVE Len(VarintOf[w]) <= m
  <2>1. VarintOf[w] = IF w < Group THEN <<w>> ELSE <<Group + (w % Group)>> \o VarintOf[w \div Group]
    BY VarintIs
  <2>2. CASE w < Group
    <3>1. Len(VarintOf[w]) = 1
      BY <2>1, <2>2
    <3> QED BY <1>3, <3>1
  <2>3. CASE ~(w < Group)
    <3>1. w >= Group
      BY <2>3, WidthsAre
    <3> DEFINE q == w \div Group
    <3>2. q \in Nat /\ Group + (w % Group) \in Nat
      BY <3>1, DivSmaller, WidthsAre
    <3>3. Len(VarintOf[w]) = 1 + Len(VarintOf[q]) /\ Len(VarintOf[q]) \in Nat
      <4>1. VarintOf[q] \in Seq(Nat) /\ <<Group + (w % Group)>> \in Seq(Nat) /\ Len(<<Group + (w % Group)>>) = 1
        BY <3>2, VarintIs
      <4>2. VarintOf[w] = <<Group + (w % Group)>> \o VarintOf[q]
        BY <2>1, <2>3
      <4> HIDE DEF q
      <4> QED BY <4>1, <4>2, ConcatProperties, LenProperties
    <3>4. m - 1 \in Nat /\ Fit[m - 1] \in Nat /\ Fit[m] = Group * Fit[m - 1]
      BY <1>3, FitIs
    <3>5. q < Fit[m - 1]
      BY <1>4, <3>1, <3>4, FewerGroups
    <3> HIDE DEF q
    <3>6. CASE m = 1
      <4>1. Fit[m - 1] = 1
        BY <3>6, FitIs
      <4>2. Fit[m] = Group
        BY <3>4, <4>1, WidthsAre
      <4> QED BY <1>4, <2>3, <4>2
    <3>7. CASE m # 1
      <4>1. m - 1 \in Nat \ {0} /\ ~(m <= m - 1)
        BY <1>3, <3>7
      <4>2. m - 1 \notin Long
        BY <1>2, <4>1
      <4>3. Len(VarintOf[q]) <= m - 1
        BY <3>2, <3>5, <4>1, <4>2
      <4> QED BY <1>3, <3>3, <4>3
    <3> QED BY <3>6, <3>7
  <2> QED BY <2>2, <2>3
<1> QED BY <1>2, <1>4

\* The numbers an integer field can carry.
Writable == -(Word \div 2)..(Word \div 2 - 1)

\* A negative one goes out as its two's complement.
Raw(v) == IF v < 0 THEN v + Word ELSE v

LEMMA RawIs ==
  ASSUME NEW v \in Writable
  PROVE  Raw(v) \in 0..(Word - 1) /\ Signed(Raw(v)) = v /\ Varint(v) = VarintOf[Raw(v)]
<1>1. Word \in Nat \ {0} /\ Word % 2 = 0
  BY WidthsAre
<1> DEFINE h == Word \div 2
<1>2. h \in Nat /\ Word = h + h
  BY <1>1
<1> HIDE DEF h
<1>3. v \in Int /\ -h <= v /\ v <= h - 1
  BY <1>2 DEF Writable, h
<1>4. Raw(v) \in 0..(Word - 1)
  BY <1>2, <1>3 DEF Raw
<1>5. (Raw(v) >= h) <=> (v < 0)
  BY <1>2, <1>3 DEF Raw
<1>6. Signed(Raw(v)) = IF Raw(v) >= h THEN Raw(v) - Word ELSE Raw(v)
  BY DEF Signed, h
<1>7. Signed(Raw(v)) = v
  BY <1>2, <1>3, <1>5, <1>6 DEF Raw
<1> QED BY <1>4, <1>7 DEF Varint, Raw

LEMMA RoomFor ==
  ASSUME NEW v \in Nat, v < Word
  PROVE  /\ VarintOf[v] \in Bytes /\ Groups(VarintOf[v], v) /\ Len(VarintOf[v]) <= MaxGroups
         /\ Varint(v) = VarintOf[v]
<1>1. v < Fit[MaxGroups] /\ MaxGroups \in Nat \ {0}
  <2>1. Word <= Fit[MaxGroups] /\ MaxGroups \in Nat \ {0} /\ Word \in Nat
    BY WidthsAssumption
  <2>2. Fit[MaxGroups] \in Nat
    BY <2>1, FitIs
  <2> QED BY <2>1, <2>2
<1>2. Len(VarintOf[v]) <= MaxGroups
  BY <1>1, VarintFits
<1>3. Groups(VarintOf[v], v)
  BY VarintGroups
<1>4. Varint(v) = VarintOf[v]
  BY DEF Varint
<1> QED BY <1>2, <1>3, <1>4 DEF Groups

(* A varint in front of anything is read, and the reader stands behind it. *)
LEMMA VarintRead ==
  ASSUME NEW v \in Nat, v < Word, NEW rest \in Bytes
  PROVE  /\ Varint(v) \in Bytes /\ Varint(v) \o rest \in Bytes /\ Varint(v) \o rest # <<>>
         /\ HasVarint(Varint(v) \o rest)
         /\ Leading(Varint(v) \o rest) = [value |-> v, rest |-> rest]
<1>1. /\ Varint(v) \in Bytes /\ Groups(Varint(v), v) /\ Len(Varint(v)) <= MaxGroups
  BY RoomFor
<1> DEFINE g == Varint(v)
<1> HIDE DEF g
<1>2. g \in Bytes /\ Groups(g, v) /\ Len(g) <= MaxGroups
  BY <1>1 DEF g
<1>3. HasVarint(g \o rest) /\ Leading(g \o rest) = [value |-> v, rest |-> rest]
  BY <1>2, LeadingGroups
<1>4. Len(g) \in Nat /\ 1 <= Len(g) /\ Len(rest) \in Nat
  BY <1>2, LenProperties DEF Groups, Bytes
<1>5. g \o rest \in Bytes /\ Len(g \o rest) = Len(g) + Len(rest)
  BY <1>2, ConcatProperties DEF Bytes
<1>6. g \o rest # <<>>
  BY <1>4, <1>5, NoBytes
<1> QED BY <1>2, <1>3, <1>5, <1>6 DEF g

LEMMA KeyIs ==
  ASSUME NEW n \in Nat
  PROVE  /\ 8 * n \in Nat /\ (8 * n) % 8 = 0 /\ (8 * n) \div 8 = n
         /\ 8 * n + 2 \in Nat /\ (8 * n + 2) % 8 = 2 /\ (8 * n + 2) \div 8 = n
OBVIOUS

LEMMA Grouped ==
  ASSUME NEW a \in Bytes, NEW b \in Bytes, NEW c \in Bytes
  PROVE  a \o b \in Bytes /\ (a \o b) \o c = a \o (b \o c)
BY ConcatProperties, ConcatAssociative DEF Bytes

LEMMA Regrouped ==
  \A a \in Bytes : \A b \in Bytes : \A c \in Bytes : (a \o b) \o c = a \o (b \o c)
BY Grouped

LEMMA OneFieldRead ==
  ASSUME NEW b \in Bytes, b # <<>>, NEW field, NEW rest, FirstField(b) = One(field, rest)
  PROVE  Fields[b] = <<field>> \o Fields[rest]
<1>1. FirstField(b).fields = <<field>> /\ FirstField(b).rest = rest
  BY DEF One
<1> QED BY <1>1, FieldsIs

(* Whatever stands behind it, an integer field that the writer wrote is read as
   the one field with its number and a raw value that Signed (toSignedInt64 of
   proto.ts) turns into the integer written; the reader goes on right behind it. *)
THEOREM IntegersReadBack ==
  ASSUME NEW n \in Nat, 8 * n < Word, NEW v \in Writable, NEW rest \in Bytes
  PROVE  \E raw \in Nat : /\ Signed(raw) = v
                          /\ Fields[IntField(n, v) \o rest] = <<Field(n, 0, raw, <<>>)>> \o Fields[rest]
<1> DEFINE raw == Raw(v)
           key == 8 * n
<1>1. raw \in Nat /\ raw < Word /\ Signed(raw) = v /\ Varint(raw) = VarintOf[raw] /\ Varint(v) = Varint(raw)
  <2>1. Raw(v) \in 0..(Word - 1) /\ Signed(Raw(v)) = v /\ Varint(v) = VarintOf[Raw(v)]
    BY RawIs
  <2>2. Raw(v) \in Nat /\ Raw(v) < Word
    BY <2>1, WidthsAre
  <2> QED BY <2>1, <2>2, RoomFor
<1>2. key \in Nat /\ key < Word /\ key % 8 = 0 /\ key \div 8 = n
  BY KeyIs
<1> HIDE DEF raw, key
<1> DEFINE tail == Varint(raw) \o rest
           b == Varint(key) \o tail
<1>3. Varint(raw) \in Bytes /\ tail \in Bytes /\ HasVarint(tail) /\ Leading(tail) = [value |-> raw, rest |-> rest]
  BY <1>1, VarintRead
<1>4. IntField(n, v) \o rest = b
  <2>1. IntField(n, v) = Varint(key) \o Varint(raw)
    BY <1>1 DEF IntField, key
  <2>2. Varint(key) \in Bytes
    BY <1>2, <1>3, VarintRead
  <2> QED BY <1>3, <2>1, <2>2, ConcatAssociative DEF Bytes
<1> HIDE DEF tail
<1>5. b \in Bytes /\ b # <<>> /\ HasVarint(b) /\ Leading(b) = [value |-> key, rest |-> tail]
  BY <1>2, <1>3, VarintRead
<1> HIDE DEF b
<1>6. FirstField(b) = FieldAfter(key, tail)
  BY <1>5 DEF FirstField
<1>7. FieldAfter(key, tail) = One(Field(n, 0, raw, <<>>), rest)
  BY <1>2, <1>3 DEF FieldAfter, IntAfter
<1>8. Fields[b] = <<Field(n, 0, raw, <<>>)>> \o Fields[rest]
  BY <1>5, <1>6, <1>7, OneFieldRead
<1> QED BY <1>1, <1>4, <1>8

(* Whatever stands behind it, and whatever bytes it carries, a length-prefixed
   field that the writer wrote is read as the one field with its number and those
   bytes; the reader goes on right behind it. *)
THEOREM BytesReadBack ==
  ASSUME NEW n \in Nat, 8 * n + 2 < Word, NEW bytes \in Bytes, Len(bytes) < Word, NEW rest \in Bytes
  PROVE  Fields[BytesField(n, bytes) \o rest] = <<Field(n, 2, 0, bytes)>> \o Fields[rest]
<1> DEFINE len == Len(bytes)
           key == 8 * n + 2
           after == bytes \o rest
           tail == Varint(len) \o after
           b == Varint(key) \o tail
<1>1. len \in Nat /\ len < Word
  BY LenProperties DEF Bytes
<1>2. key \in Nat /\ key < Word /\ key % 8 = 2 /\ key \div 8 = n
  BY KeyIs
<1>3. /\ after \in Bytes /\ Len(after) = len + Len(rest) /\ Len(rest) \in Nat
      /\ SubSeq(after, 1, len) = bytes /\ From(after, len + 1) = rest
  BY ConcatProperties, LenProperties, PrefixConcat, FromConcat DEF Bytes
<1> HIDE DEF key, len
<1>4. Varint(len) \in Bytes /\ Varint(key) \in Bytes
  BY <1>1, <1>2, NoBytes, VarintRead
<1>5. BytesField(n, bytes) \o rest = b
  <2>1. BytesField(n, bytes) = Varint(key) \o Varint(len) \o bytes
    BY DEF BytesField, key, len
  <2>2. (Varint(key) \o Varint(len)) \o bytes \o rest = (Varint(key) \o Varint(len)) \o (bytes \o rest)
    <3> DEFINE head == Varint(key) \o Varint(len)
    <3>1. head \in Bytes
      BY <1>4, Grouped
    <3> HIDE DEF head, tail
    <3>2. (head \o bytes) \o rest = head \o (bytes \o rest)
      BY <3>1, Grouped
    <3> QED BY <3>2 DEF head
  <2>3. (Varint(key) \o Varint(len)) \o after = Varint(key) \o (Varint(len) \o after)
    <3> DEFINE k == Varint(key)
               l == Varint(len)
    <3>1. k \in Bytes /\ l \in Bytes /\ after \in Bytes
      BY <1>3, <1>4
    <3> HIDE DEF after, k, l, tail
    <3>2. (k \o l) \o after = k \o (l \o after)
      BY <3>1, Regrouped, Zenon
    <3> QED BY <3>2 DEF k, l
  <2> QED BY <2>1, <2>2, <2>3
<1> HIDE DEF after
<1>6. tail \in Bytes /\ HasVarint(tail) /\ Leading(tail) = [value |-> len, rest |-> after]
  BY <1>1, <1>3, VarintRead
<1> HIDE DEF tail
<1>7. b \in Bytes /\ b # <<>> /\ HasVarint(b) /\ Leading(b) = [value |-> key, rest |-> tail]
  BY <1>2, <1>6, VarintRead
<1> HIDE DEF b
<1>8. FirstField(b) = FieldAfter(key, tail)
  BY <1>7 DEF FirstField
<1>9. BytesAfter(key, Leading(tail)) = One(Field(n, 2, 0, bytes), rest)
  <2>1. ~(len > Len(after))
    BY <1>1, <1>3
  <2>2. Leading(tail).value = len /\ Leading(tail).rest = after
    BY <1>6
  <2> QED BY <1>2, <1>3, <2>1, <2>2 DEF BytesAfter
<1>10. FieldAfter(key, tail) = BytesAfter(key, Leading(tail))
  BY <1>2, <1>6 DEF FieldAfter
<1>11. Fields[b] = <<Field(n, 2, 0, bytes)>> \o Fields[rest]
  BY <1>7, <1>8, <1>9, <1>10, OneFieldRead
<1> QED BY <1>5, <1>11
=============================================================================
