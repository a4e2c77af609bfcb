-------------------------- MODULE TrafficLedgerProofs --------------------------
(***************************************************************************)
(* Proofs about TrafficLedger, for any number of callers, configs,         *)
(* tunnels, bytes, stops and crashes: a reset sticks, the total never goes *)
(* back, nothing is counted twice, and every byte of the total is on some  *)
(* user's account or forgiven.                                             *)
(***************************************************************************)
EXTENDS TrafficLedger, FiniteSetTheorems, TLAPS

Tunnel == [open : BOOLEAN, listed : BOOLEAN, peer : Peers \cup {None},
           config : Clients \cup {None}, bytes : Nat]

(* The types the proofs need: those of what is not summed. *)
Types ==
  /\ phase \in {"down", "starting", "up", "stopping"}
  /\ manager \in [lifetime : Nat, users : [Peers -> Nat]]
  /\ shown \in Nat /\ cached \in [Peers -> Nat]
  /\ disk = [lifetime |-> disk.lifetime, users |-> disk.users, profiles |-> disk.profiles]
  /\ disk.lifetime \in Nat /\ disk.users \in [Peers -> Nat]
  /\ tunnels \in [Tunnels -> Tunnel]
  /\ \A t \in Tunnels : tunnels[t].open => tunnels[t].peer \in Peers
  /\ moved \in Nat /\ since \in [Peers -> Nat]
  /\ bounds \in [starts : Nat, crashes : Nat, resets : Nat]

(* The totals are in order: what is saved has been shown, what is shown is
   known to the manager, and the manager knows no more than was moved; while the
   server is down there is none, and no tunnel is on its list. *)
TotalsInOrder ==
  /\ disk.lifetime <= shown /\ shown <= moved
  /\ manager.lifetime <= moved
  /\ phase # "down" => shown <= manager.lifetime
  /\ phase = "down" => manager = NoManager /\ \A t \in Tunnels : ~tunnels[t].listed

LedgerInv == Types /\ TotalsInOrder /\ ResetSticks

LEMMA InitLedger == Init => LedgerInv
  BY DEF Init, LedgerInv, Types, TotalsInOrder, ResetSticks, NoManager, NoBytes, NoTunnel,
     NoProfiles, Tunnel

-----------------------------------------------------------------------------
(* What a step leaves of the counters of users and of the totals. *)

LEMMA StartStep ==
  ASSUME LedgerInv, StartServer \/ StartSucceeds \/ StopEnds
  PROVE  LedgerInv'
<1> USE DEF LedgerInv, Types, TotalsInOrder, ResetSticks, memory, history, Tunnel
<1>1. CASE StartServer
  BY <1>1 DEF StartServer
<1>2. CASE StartSucceeds
  BY <1>2 DEF StartSucceeds
<1>3. CASE StopEnds
  <2>1. /\ NoManager \in [lifetime : Nat, users : [Peers -> Nat]] /\ NoManager.lifetime = 0
        /\ \A p \in Peers : NoManager.users[p] = 0
    BY DEF NoManager, NoBytes
  <2>2. /\ tunnels' \in [Tunnels -> Tunnel]
        /\ \A t \in Tunnels : tunnels'[t].open => tunnels'[t].peer \in Peers
        /\ \A t \in Tunnels : ~tunnels'[t].listed
    <3>1. tunnels' = [t \in Tunnels |-> [tunnels[t] EXCEPT !.listed = FALSE]]
      BY <1>3 DEF StopEnds
    <3>2. \A t \in Tunnels : [tunnels[t] EXCEPT !.listed = FALSE] \in Tunnel
      OBVIOUS
    <3> QED BY <3>1, <3>2
  <2>3. /\ manager' = NoManager /\ phase' = "down"
        /\ UNCHANGED <<shown, cached, disk, moved, since, bounds>>
    BY <1>3 DEF StopEnds
  <2> QED BY <2>1, <2>2, <2>3
<1> QED BY <1>1, <1>2, <1>3

LEMMA SaveStep ==
  ASSUME LedgerInv, BeginStop \/ PersistTimer \/ Tick
  PROVE  LedgerInv'
<1> USE DEF LedgerInv, Types, TotalsInOrder, ResetSticks, memory, history, Tunnel
<1>1. CASE BeginStop
  BY <1>1 DEF BeginStop, Save
<1>2. CASE PersistTimer
  BY <1>2 DEF PersistTimer, Save
<1>3. CASE Tick
  BY <1>3 DEF Tick
<1> QED BY <1>1, <1>2, <1>3

LEMMA OpenStep ==
  ASSUME LedgerInv, NEW p \in Peers, OpenTunnel(p)
  PROVE  LedgerInv'
  BY DEF LedgerInv, Types, TotalsInOrder, ResetSticks, memory, history, Tunnel, OpenTunnel, NoTunnel

LEMMA CloseStep ==
  ASSUME LedgerInv, NEW t \in Tunnels, CloseTunnel(t)
  PROVE  LedgerInv'
  BY ZenonT(30) DEF LedgerInv, Types, TotalsInOrder, ResetSticks, memory, history, Tunnel, CloseTunnel

LEMMA NameStep ==
  ASSUME LedgerInv, NEW t \in Tunnels, NEW p \in Peers, NameCaller(t, p)
  PROVE  LedgerInv'
  BY SMTT(30) DEF LedgerInv, Types, TotalsInOrder, ResetSticks, memory, history, Tunnel, NameCaller

(* Configs come and go: neither users nor totals are touched. *)
LEMMA ConfigStep ==
  ASSUME LedgerInv, NEW c \in Clients,
         (\E t \in Tunnels : Identify(t, c)) \/ CreateClient(c) \/ DeleteClient(c)
  PROVE  LedgerInv'
<1> USE DEF LedgerInv, Types, memory, history
<1>1. /\ UNCHANGED <<phase, manager, shown, cached, moved, since, bounds>>
      /\ \E f : disk' = [disk EXCEPT !.profiles = f]
  BY DEF Identify, CreateClient, DeleteClient
<1>2. disk'.lifetime = disk.lifetime /\ disk'.users = disk.users
      /\ disk' = [lifetime |-> disk'.lifetime, users |-> disk'.users, profiles |-> disk'.profiles]
  BY <1>1
<1>3. /\ tunnels' \in [Tunnels -> Tunnel]
      /\ \A t \in Tunnels : tunnels'[t].open => tunnels'[t].peer \in Peers
      /\ \A t \in Tunnels : tunnels'[t].listed => tunnels[t].listed
  <2>1. ASSUME NEW t \in Tunnels, Identify(t, c)
        PROVE  /\ tunnels' \in [Tunnels -> Tunnel]
               /\ \A u \in Tunnels : tunnels'[u].open => tunnels'[u].peer \in Peers
               /\ \A u \in Tunnels : tunnels'[u].listed => tunnels[u].listed
    BY <2>1 DEF Identify, Tunnel
  <2>2. CASE CreateClient(c)
    BY <2>2 DEF CreateClient
  <2>3. CASE DeleteClient(c)
    <3>1. tunnels' = [t \in Tunnels |->
            IF t \in OfConfig(c) THEN [tunnels[t] EXCEPT !.open = FALSE, !.listed = FALSE]
            ELSE tunnels[t]]
      BY <2>3 DEF DeleteClient
    <3>2. \A t \in Tunnels : [tunnels[t] EXCEPT !.open = FALSE, !.listed = FALSE] \in Tunnel
      BY DEF Tunnel
    <3> QED BY <3>1, <3>2 DEF Tunnel
  <2> QED BY <2>1, <2>2, <2>3
<1>4. Types'
  BY <1>1, <1>2, <1>3
<1>5. TotalsInOrder'
  BY <1>1, <1>2, <1>3 DEF TotalsInOrder
<1>6. ResetSticks'
  BY <1>1, <1>2 DEF ResetSticks
<1> QED BY <1>4, <1>5, <1>6

LEMMA MoveStep ==
  ASSUME LedgerInv, NEW t \in Tunnels, Move(t)
  PROVE  LedgerInv'
<1> USE DEF LedgerInv, Types, memory, history
<1> DEFINE peer == tunnels[t].peer
<1>1. /\ tunnels[t].open /\ peer \in Peers /\ tunnels[t] \in Tunnel
      /\ moved' = moved + 1 /\ since' = [since EXCEPT ![peer] = @ + 1]
      /\ tunnels' = [tunnels EXCEPT ![t].bytes = @ + 1]
      /\ UNCHANGED <<phase, shown, cached, disk, bounds>>
  BY DEF Move
<1>2. \/ manager' = manager
      \/ manager' = [manager EXCEPT !.lifetime = @ + 1, !.users[peer] = @ + 1]
  BY DEF Move, Count
<1> HIDE DEF peer
<1>3. /\ since' \in [Peers -> Nat]
      /\ \A p \in Peers : since'[p] = IF p = peer THEN since[p] + 1 ELSE since[p]
  BY <1>1
<1>4. /\ manager' \in [lifetime : Nat, users : [Peers -> Nat]]
      /\ manager'.lifetime \in {manager.lifetime, manager.lifetime + 1}
      /\ \A p \in Peers : manager'.users[p] = manager.users[p]
                          \/ (p = peer /\ manager'.users[p] = manager.users[p] + 1)
  <2>1. CASE manager' = manager
    BY <2>1
  <2>2. CASE manager' = [manager EXCEPT !.lifetime = @ + 1, !.users[peer] = @ + 1]
    <3>1. /\ manager'.lifetime = manager.lifetime + 1
          /\ manager'.users = [manager.users EXCEPT ![peer] = @ + 1]
          /\ manager' = [lifetime |-> manager'.lifetime, users |-> manager'.users]
      BY <2>2
    <3>2. manager'.users \in [Peers -> Nat]
      BY <1>1, <3>1
    <3>3. manager' \in [lifetime : Nat, users : [Peers -> Nat]]
      BY <3>1, <3>2
    <3> QED BY <1>1, <3>1, <3>3
  <2> QED BY <1>2, <2>1, <2>2
<1>5. /\ tunnels' \in [Tunnels -> Tunnel]
      /\ \A u \in Tunnels : tunnels'[u].open => tunnels'[u].peer \in Peers
  BY <1>1 DEF Tunnel
<1>6. Types'
  BY <1>1, <1>3, <1>4, <1>5
<1>7. TotalsInOrder'
  <2>1. CASE phase = "down"
    <3>1. ~tunnels[t].listed /\ manager' = manager
      BY <2>1 DEF TotalsInOrder, Move
    <3> QED BY <1>1, <2>1, <3>1 DEF TotalsInOrder, Tunnel
  <2>2. CASE phase # "down"
    BY <1>1, <1>4, <2>2 DEF TotalsInOrder
  <2> QED BY <2>1, <2>2
<1>8. ResetSticks'
  BY <1>1, <1>3, <1>4 DEF ResetSticks
<1> QED BY <1>6, <1>7, <1>8

LEMMA ResetStep ==
  ASSUME LedgerInv, NEW p \in Peers, ResetUser(p)
  PROVE  LedgerInv'
<1> USE DEF LedgerInv, Types, memory, history
<1>1. /\ since' = [since EXCEPT ![p] = 0]
      /\ disk' = [lifetime |-> shown, users |-> cached', profiles |-> profiles]
      /\ UNCHANGED <<phase, shown, tunnels, moved>>
      /\ bounds' = [bounds EXCEPT !.resets = @ + 1]
  BY DEF ResetUser, Save
<1>2. CASE phase # "down"
  <2>1. /\ manager' = [manager EXCEPT !.users[p] = 0] /\ cached' = manager'.users
    BY <1>2 DEF ResetUser
  <2>2. /\ manager' \in [lifetime : Nat, users : [Peers -> Nat]]
        /\ manager'.lifetime = manager.lifetime
        /\ \A q \in Peers : manager'.users[q] = IF q = p THEN 0 ELSE manager.users[q]
    BY <2>1
  <2>3. Types'
    BY <1>1, <2>1, <2>2
  <2>4. TotalsInOrder'
    BY <1>1, <1>2, <2>1, <2>2 DEF TotalsInOrder
  <2>5. ResetSticks'
    BY <1>1, <2>1, <2>2 DEF ResetSticks
  <2> QED BY <2>3, <2>4, <2>5
<1>3. CASE phase = "down"
  <2>1. manager' = manager /\ cached' = [cached EXCEPT ![p] = 0]
    BY <1>3 DEF ResetUser
  <2>2. \A q \in Peers : manager.users[q] = 0
    BY <1>3 DEF TotalsInOrder, NoManager, NoBytes
  <2> QED
    BY <1>1, <1>3, <2>1, <2>2 DEF TotalsInOrder, ResetSticks
<1> QED BY <1>2, <1>3

(* A reload of files that are in order and forget no reset. *)
LEMMA ReloadStep ==
  ASSUME LedgerInv, NEW files, Reload(files), files.lifetime \in Nat, files.lifetime <= moved,
         files.users \in [Peers -> Nat], UNCHANGED <<moved, since>>,
         files = [lifetime |-> files.lifetime, users |-> files.users, profiles |-> files.profiles],
         \A p \in Peers : files.users[p] <= since[p]
  PROVE  LedgerInv'
<1> USE DEF LedgerInv, Types, memory, history
<1>1. /\ phase' = "down" /\ manager' = NoManager /\ disk' = files
      /\ shown' = files.lifetime /\ cached' = files.users
      /\ bounds' = [bounds EXCEPT !.crashes = @ + 1]
  BY DEF Reload
<1>2. /\ NoManager \in [lifetime : Nat, users : [Peers -> Nat]] /\ NoManager.lifetime = 0
      /\ \A p \in Peers : NoManager.users[p] = 0
  BY DEF NoManager, NoBytes
<1>3. /\ tunnels' \in [Tunnels -> Tunnel]
      /\ \A t \in Tunnels : tunnels'[t].open => tunnels'[t].peer \in Peers
      /\ \A t \in Tunnels : ~tunnels'[t].listed
  <2>1. tunnels' = [t \in Tunnels |-> [tunnels[t] EXCEPT !.open = FALSE, !.listed = FALSE]]
    BY DEF Reload
  <2>2. \A t \in Tunnels : [tunnels[t] EXCEPT !.open = FALSE, !.listed = FALSE] \in Tunnel
    BY DEF Tunnel
  <2> QED BY <2>1, <2>2 DEF Tunnel
<1>4. Types'
  BY <1>1, <1>2, <1>3
<1>5. TotalsInOrder'
  BY <1>1, <1>2, <1>3 DEF TotalsInOrder
<1>6. ResetSticks'
  BY <1>1, <1>2 DEF ResetSticks
<1> QED BY <1>4, <1>5, <1>6

LEMMA CrashStep ==
  ASSUME LedgerInv, Crash \/ CrashWhileSaving
  PROVE  LedgerInv'
<1> USE DEF LedgerInv, Types, memory, history
<1>1. UNCHANGED <<moved, since>>
  BY DEF Crash, CrashWhileSaving, Reload
<1>2. CASE Crash
  BY <1>1, <1>2, ReloadStep DEF Crash, TotalsInOrder, ResetSticks
<1>3. CASE CrashWhileSaving
  <2> DEFINE Torn == {[disk EXCEPT !.lifetime = 0],
                      [disk EXCEPT !.lifetime = shown, !.users = NoBytes],
                      [lifetime |-> shown, users |-> cached, profiles |-> NoProfiles],
                      [disk EXCEPT !.profiles = NoProfiles],
                      [disk EXCEPT !.lifetime = shown],
                      [disk EXCEPT !.lifetime = shown, !.users = cached]}
  <2>1. PICK files \in Torn : Reload(files)
    BY <1>3 DEF CrashWhileSaving
  <2>2. /\ files.lifetime \in {0, shown, disk.lifetime}
        /\ files.users \in {NoBytes, cached, disk.users}
        /\ files = [lifetime |-> files.lifetime, users |-> files.users, profiles |-> files.profiles]
    <3>1. CASE files = [disk EXCEPT !.lifetime = 0]
      BY <3>1
    <3>2. CASE files = [disk EXCEPT !.lifetime = shown, !.users = NoBytes]
      BY <3>2
    <3>3. CASE files = [lifetime |-> shown, users |-> cached, profiles |-> NoProfiles]
      BY <3>3
    <3>4. CASE files = [disk EXCEPT !.profiles = NoProfiles]
      BY <3>4
    <3>5. CASE files = [disk EXCEPT !.lifetime = shown]
      BY <3>5
    <3>6. CASE files = [disk EXCEPT !.lifetime = shown, !.users = cached]
      BY <3>6
    <3> QED BY <3>1, <3>2, <3>3, <3>4, <3>5, <3>6
  <2>4. NoBytes \in [Peers -> Nat] /\ \A p \in Peers : NoBytes[p] = 0
    BY DEF NoBytes
  <2>5. files.lifetime \in Nat /\ files.lifetime <= moved /\ files.users \in [Peers -> Nat]
    BY <2>2, <2>4 DEF TotalsInOrder
  <2>6. \A p \in Peers : files.users[p] <= since[p]
    BY <2>2, <2>4 DEF ResetSticks
  <2> QED
    BY <1>1, <2>1, <2>2, <2>5, <2>6, ReloadStep
<1> QED BY <1>2, <1>3

LEMMA LedgerStep == LedgerInv /\ [Next]_vars => LedgerInv'
<1> SUFFICES ASSUME LedgerInv, [Next]_vars PROVE LedgerInv'
  OBVIOUS
<1>1. CASE UNCHANGED vars
  BY <1>1 DEF vars, memory, history, LedgerInv, Types, TotalsInOrder, ResetSticks
<1>2. CASE Next
  BY <1>2, StartStep, SaveStep, OpenStep, CloseStep, NameStep, ConfigStep, MoveStep, ResetStep,
     CrashStep DEF Next
<1> QED BY <1>1, <1>2

-----------------------------------------------------------------------------
(* Sums.  MapThenSumSet is the value, at the whole set, of a function defined
   by recursion over its subsets.  That such a function exists, and what it
   computes, is shown by induction over the finite set: a set of subsets has
   one that is least. *)

(* The sum of f over S. *)
Total(f, S) == MapThenSumSet(LAMBDA x : f[x], S)

LEMMA Least ==
  ASSUME NEW S, IsFiniteSet(S), NEW C, C \subseteq SUBSET S, C # {}
  PROVE  \E T \in C : \A U \in C : U \subseteq T => U = T
<1>1. IsWellFoundedOn(StrictSubsetOrdering(S), SUBSET S)
  BY FS_StrictSubsetOrderingWellFounded, FS_FiniteSubsetsOfFinite
<1>2. \E T \in C : \A U \in C : ~(<<U, T>> \in StrictSubsetOrdering(S))
  BY <1>1, WFMin
<1> QED BY <1>2 DEF StrictSubsetOrdering

Some(s) == CHOOSE x \in s : TRUE
Rest(s) == s \ {Some(s)}
SumOf(g, f, s) == IF s = {} THEN 0 ELSE f[Some(s)] + g[Rest(s)]
IsSum(g, f, T) == g = [s \in SUBSET T |-> SumOf(g, f, s)]
TheSum(f, T) == CHOOSE g : IsSum(g, f, T)

LEMMA TotalIsTheSum ==
  ASSUME NEW f, NEW S
  PROVE  Total(f, S) = TheSum(f, S)[S]
BY DEF Total, MapThenSumSet, MapThenFoldSet, TheSum, IsSum, SumOf, Some, Rest

LEMMA RestIsLess ==
  ASSUME NEW s, s # {}
  PROVE  Some(s) \in s /\ Rest(s) \subseteq s /\ Rest(s) # s
BY DEF Some, Rest

LEMMA SumsAgree ==
  ASSUME NEW f, NEW U, NEW T \in SUBSET U, IsFiniteSet(T),
         NEW g, IsSum(g, f, T), NEW h, IsSum(h, f, U), NEW r \in SUBSET T
  PROVE  g[r] = h[r]
<1> DEFINE C == {s \in SUBSET T : g[s] # h[s]}
<1>1. SUFFICES ASSUME C # {} PROVE FALSE
  OBVIOUS
<1>2. PICK s \in C : \A u \in C : u \subseteq s => u = s
  <2>1. C \subseteq SUBSET T
    OBVIOUS
  <2> HIDE DEF C
  <2> QED BY <1>1, <2>1, Least
<1>3. s \in SUBSET T /\ s \in SUBSET U /\ g[s] # h[s]
  BY <1>2
<1>4. g[s] = SumOf(g, f, s) /\ h[s] = SumOf(h, f, s)
  BY <1>3 DEF IsSum
<1>5. s # {}
  BY <1>3, <1>4 DEF SumOf
<1>6. Rest(s) \in SUBSET T /\ g[Rest(s)] = h[Rest(s)]
  BY <1>2, <1>3, <1>5, RestIsLess
<1> QED BY <1>3, <1>4, <1>5, <1>6 DEF SumOf

LEMMA SumExists ==
  ASSUME NEW f, NEW S, IsFiniteSet(S)
  PROVE  IsSum(TheSum(f, S), f, S)
<1> DEFINE C == {T \in SUBSET S : ~ \E g : IsSum(g, f, T)}
<1>1. SUFFICES ASSUME C # {} PROVE FALSE
  <2>1. S \notin C => \E g : IsSum(g, f, S)
    OBVIOUS
  <2> HIDE DEF C
  <2> QED BY <2>1 DEF TheSum
<1>2. PICK T \in C : \A u \in C : u \subseteq T => u = T
  <2>1. C \subseteq SUBSET S
    OBVIOUS
  <2> HIDE DEF C
  <2> QED BY <1>1, <2>1, Least
<1>3. T \in SUBSET S /\ IsFiniteSet(T)
  BY <1>2, FS_Subset
<1>4. ASSUME NEW u, u \subseteq T, u # T
      PROVE  IsSum(TheSum(f, u), f, u)
  <2>1. \E g : IsSum(g, f, u)
    BY <1>2, <1>3, <1>4
  <2> QED BY <2>1 DEF TheSum
<1> DEFINE H(u) == TheSum(f, u)[u]
           G == [s \in SUBSET T |-> IF s = {} THEN 0 ELSE f[Some(s)] + H(Rest(s))]
<1>5. ASSUME NEW s \in SUBSET T, s # {}
      PROVE  G[Rest(s)] = H(Rest(s))
  <2> DEFINE u == Rest(s)
             k == TheSum(f, u)
  <2>1. u \subseteq T /\ u # T
    BY <1>5, RestIsLess
  <2>2. IsSum(k, f, u) /\ IsFiniteSet(u)
    BY <1>3, <1>4, <2>1, FS_Subset
  <2>3. k[u] = SumOf(k, f, u)
    BY <2>2 DEF IsSum
  <2>4. CASE u = {}
    BY <2>1, <2>3, <2>4 DEF SumOf
  <2>5. CASE u # {}
    <3>1. /\ Rest(u) \subseteq u /\ Rest(u) # T /\ Rest(u) \subseteq T /\ IsFiniteSet(Rest(u))
      BY <2>1, <2>2, <2>5, RestIsLess, FS_Subset
    <3>2. IsSum(TheSum(f, Rest(u)), f, Rest(u))
      BY <1>4, <3>1
    <3>3. k[Rest(u)] = H(Rest(u))
      BY <2>2, <3>1, <3>2, SumsAgree
    <3>4. G[u] = f[Some(u)] + H(Rest(u))
      BY <2>1, <2>5
    <3> QED BY <2>3, <2>5, <3>3, <3>4 DEF SumOf
  <2> QED BY <2>4, <2>5
<1>6. IsSum(G, f, T)
  <2>1. \A s \in SUBSET T : (IF s = {} THEN 0 ELSE f[Some(s)] + H(Rest(s))) = SumOf(G, f, s)
    BY <1>5 DEF SumOf
  <2> QED BY <2>1 DEF IsSum
<1> HIDE DEF G
<1> QED BY <1>2, <1>6

(* The two equations of a sum, whatever element is taken first. *)
LEMMA TotalOfNone == \A f : Total(f, {}) = 0
<1> TAKE f
<1>1. IsSum(TheSum(f, {}), f, {})
  BY SumExists, FS_EmptySet
<1>2. TheSum(f, {})[{}] = SumOf(TheSum(f, {}), f, {})
  BY <1>1 DEF IsSum
<1> QED BY <1>2, TotalIsTheSum DEF SumOf

LEMMA TotalOfSome ==
  ASSUME NEW f, NEW T, IsFiniteSet(T), T # {}
  PROVE  Total(f, T) = f[Some(T)] + Total(f, Rest(T))
<1>1. Rest(T) \subseteq T /\ IsFiniteSet(Rest(T))
  BY RestIsLess, FS_Subset
<1>2. IsSum(TheSum(f, T), f, T) /\ IsSum(TheSum(f, Rest(T)), f, Rest(T))
  BY <1>1, SumExists
<1>3. TheSum(f, T)[Rest(T)] = TheSum(f, Rest(T))[Rest(T)]
  BY <1>1, <1>2, SumsAgree
<1>4. TheSum(f, T)[T] = f[Some(T)] + TheSum(f, T)[Rest(T)]
  <2>1. TheSum(f, T)[T] = SumOf(TheSum(f, T), f, T)
    BY <1>2 DEF IsSum
  <2> QED BY <2>1 DEF SumOf
<1> QED BY <1>3, <1>4, TotalIsTheSum

LEMMA TotalOfOne ==
  ASSUME NEW f, NEW x, f[x] \in Nat
  PROVE  Total(f, {x}) = f[x]
<1>1. Some({x}) = x /\ Rest({x}) = {}
  BY DEF Some, Rest
<1>2. Total(f, {x}) = f[Some({x})] + Total(f, Rest({x}))
  <2>1. IsFiniteSet({x}) /\ {x} # {}
    BY FS_Singleton
  <2> QED BY <2>1, TotalOfSome
<1> QED BY <1>1, <1>2, TotalOfNone

LEMMA TotalIsNat ==
  ASSUME NEW S, IsFiniteSet(S), NEW f \in [S -> Nat]
  PROVE  \A T \in SUBSET S : Total(f, T) \in Nat
<1> DEFINE C == {T \in SUBSET S : Total(f, T) \notin Nat}
<1>1. SUFFICES ASSUME C # {} PROVE FALSE
  OBVIOUS
<1>2. PICK T \in C : \A u \in C : u \subseteq T => u = T
  <2>1. C \subseteq SUBSET S
    OBVIOUS
  <2> HIDE DEF C
  <2> QED BY <1>1, <2>1, Least
<1>3. T \in SUBSET S /\ IsFiniteSet(T) /\ Total(f, T) \notin Nat
  BY <1>2, FS_Subset
<1>4. T # {}
  BY <1>3, TotalOfNone
<1>5. Some(T) \in S /\ Total(f, Rest(T)) \in Nat
  BY <1>2, <1>3, <1>4, RestIsLess
<1> QED BY <1>3, <1>4, <1>5, TotalOfSome

(* To change one term is to change the sum by as much. *)
LEMMA TotalWithout ==
  ASSUME NEW S, IsFiniteSet(S), NEW f \in [S -> Nat], NEW h \in [S -> Nat],
         NEW p \in S, \A x \in S \ {p} : h[x] = f[x]
  PROVE  \A T \in SUBSET S :
           Total(h, T) + (IF p \in T THEN f[p] ELSE 0)
             = Total(f, T) + (IF p \in T THEN h[p] ELSE 0)
<1> DEFINE Differs(T) == Total(h, T) + (IF p \in T THEN f[p] ELSE 0)
                           # Total(f, T) + (IF p \in T THEN h[p] ELSE 0)
           C == {T \in SUBSET S : Differs(T)}
<1>1. SUFFICES ASSUME C # {} PROVE FALSE
  OBVIOUS
<1>2. PICK T \in C : \A u \in C : u \subseteq T => u = T
  <2>1. C \subseteq SUBSET S
    OBVIOUS
  <2> HIDE DEF C
  <2> QED BY <1>1, <2>1, Least
<1>3. T \in SUBSET S /\ IsFiniteSet(T) /\ Differs(T)
  BY <1>2, FS_Subset
<1>4. T # {}
  BY <1>3, TotalOfNone
<1>5. Some(T) \in T /\ Some(T) \in S /\ Rest(T) \in SUBSET S /\ ~Differs(Rest(T))
  BY <1>2, <1>3, <1>4, RestIsLess
<1>6. /\ Total(h, T) = h[Some(T)] + Total(h, Rest(T))
      /\ Total(f, T) = f[Some(T)] + Total(f, Rest(T))
  BY <1>3, <1>4, TotalOfSome
<1>7. Total(h, Rest(T)) \in Nat /\ Total(f, Rest(T)) \in Nat
  BY <1>5, TotalIsNat
<1>8. p \in Rest(T) <=> p \in T /\ p # Some(T)
  BY DEF Rest
<1> QED BY <1>3, <1>5, <1>6, <1>7, <1>8

-----------------------------------------------------------------------------
(* No config is charged twice. *)

Usage(f) == /\ DOMAIN f \subseteq made
            /\ \A c \in DOMAIN f : f[c] \in Nat /\ f[c] <= used[c]

(* A registered config is charged for no more than it used, even when the
   next tick has added what its tunnel has moved since the last; it has one
   tunnel at most, and a config that is not made has none. *)
ConfigInv ==
  /\ made \subseteq Clients /\ used \in [Clients -> Nat] /\ accounted \in [Tunnels -> Nat]
  /\ Usage(profiles) /\ Usage(disk.profiles)
  /\ \A t \in Listed : tunnels[t].config \in made \cup {None}
  /\ \A t, u \in Listed : tunnels[t].config = tunnels[u].config /\ tunnels[t].config # None => t = u
  /\ \A t \in Listed : tunnels[t].config \in DOMAIN profiles =>
       profiles[tunnels[t].config] + Fresh[t] <= used[tunnels[t].config]

LEMMA InitConfigs == Init => ConfigInv
BY DEF Init, ConfigInv, Usage, Listed, NoTunnel, NoProfiles

LEMMA FreshIsNat ==
  ASSUME Types, ConfigInv
  PROVE  /\ \A t \in Tunnels : Fresh[t] \in Nat /\ tunnels[t].bytes \in Nat /\ tunnels[t] \in Tunnel
         /\ Listed \subseteq Tunnels
BY DEF Types, ConfigInv, Tunnel, Fresh, Listed

(* A step that charges nothing: some tunnels leave the table, the others stay
   as they are. *)
LEMMA ConfigsStay ==
  ASSUME LedgerInv, ConfigInv, UNCHANGED <<made, used>>, accounted' \in [Tunnels -> Nat],
         DOMAIN profiles' \subseteq DOMAIN profiles, \A c \in DOMAIN profiles' : profiles'[c] = profiles[c],
         Usage(disk'.profiles), Listed' \subseteq Listed,
         \A t \in Listed' : tunnels'[t].config = tunnels[t].config /\ Fresh'[t] = Fresh[t]
  PROVE  ConfigInv'
<1>1. Usage(profiles)' /\ Usage(disk.profiles)'
  BY DEF ConfigInv, Usage
<1> QED BY <1>1 DEF ConfigInv, Usage

LEMMA ReloadConfigs ==
  ASSUME LedgerInv, ConfigInv, NEW files, Reload(files), Usage(files.profiles)
  PROVE  ConfigInv'
<1>1. /\ UNCHANGED <<made, used>> /\ accounted' = [t \in Tunnels |-> 0]
      /\ profiles' = files.profiles /\ disk' = files
      /\ tunnels' = [t \in Tunnels |-> [tunnels[t] EXCEPT !.open = FALSE, !.listed = FALSE]]
  BY DEF Reload
<1>2. \A t \in Tunnels : ~tunnels'[t].listed
  BY <1>1 DEF LedgerInv, Types, Tunnel
<1>3. Listed' = {}
  BY <1>2 DEF Listed
<1> QED BY <1>1, <1>3 DEF ConfigInv, Usage

(* The tick adds to a config what its tunnel, if it has one, has moved. *)
LEMMA TickCharges ==
  ASSUME LedgerInv, ConfigInv, UpdateUsage
  PROVE  /\ DOMAIN profiles' = DOMAIN profiles
         /\ \A c \in DOMAIN profiles : profiles'[c] \in Nat /\ profiles'[c] <= used[c]
<1>1. /\ DOMAIN profiles' = DOMAIN profiles
      /\ \A c \in DOMAIN profiles : profiles'[c] = profiles[c] + Total(Fresh, OfConfig(c))
  BY DEF UpdateUsage, Total
<1> SUFFICES ASSUME NEW c \in DOMAIN profiles PROVE profiles'[c] \in Nat /\ profiles'[c] <= used[c]
  BY <1>1
<1>2. c \in Clients /\ c # None /\ profiles[c] \in Nat /\ profiles[c] <= used[c] /\ used[c] \in Nat
  BY BoundsAssumption DEF ConfigInv, Usage
<1>3. CASE OfConfig(c) = {}
  BY <1>1, <1>2, <1>3, TotalOfNone
<1>4. CASE OfConfig(c) # {}
  <2>1. PICK t \in Listed : OfConfig(c) = {t} /\ tunnels[t].config = c
    BY <1>2, <1>4 DEF OfConfig, ConfigInv
  <2>2. Fresh[t] \in Nat /\ profiles[c] + Fresh[t] <= used[c]
    BY <2>1, FreshIsNat DEF LedgerInv, ConfigInv
  <2>3. Total(Fresh, OfConfig(c)) = Fresh[t]
    BY <2>1, <2>2, TotalOfOne
  <2> QED BY <1>1, <1>2, <2>2, <2>3
<1> QED BY <1>3, <1>4

LEMMA TickConfigs ==
  ASSUME LedgerInv, ConfigInv, Tick
  PROVE  ConfigInv'
<1>1. /\ UNCHANGED <<tunnels, made, used>>
      /\ accounted' = [t \in Tunnels |->
           IF t \in Listed /\ tunnels[t].config \in DOMAIN profiles THEN tunnels[t].bytes
           ELSE IF t \in Listed THEN accounted[t] ELSE 0]
      /\ disk' = [disk EXCEPT !.profiles = IF profiles' = profiles THEN @ ELSE profiles']
  BY DEF Tick, UpdateUsage, history
<1>2. /\ DOMAIN profiles' = DOMAIN profiles
      /\ \A c \in DOMAIN profiles : profiles'[c] \in Nat /\ profiles'[c] <= used[c]
  BY TickCharges DEF Tick
<1>3. Usage(profiles)'
  BY <1>1, <1>2 DEF ConfigInv, Usage
<1>4. disk'.profiles \in {disk.profiles, profiles'}
  BY <1>1 DEF LedgerInv, Types
<1>5. Usage(disk.profiles)'
  BY <1>1, <1>3, <1>4 DEF ConfigInv, Usage
<1>6. accounted' \in [Tunnels -> Nat] /\ Listed' = Listed /\ Listed \subseteq Tunnels
  BY <1>1, FreshIsNat DEF ConfigInv, LedgerInv, Listed
<1>7. \A t \in Listed : tunnels[t].config \in DOMAIN profiles => Fresh'[t] = 0
  BY <1>1, <1>6, FreshIsNat DEF LedgerInv, Fresh
<1> QED BY <1>1, <1>2, <1>3, <1>5, <1>6, <1>7 DEF ConfigInv

LEMMA MoveConfigs ==
  ASSUME LedgerInv, ConfigInv, NEW t \in Tunnels, Move(t)
  PROVE  ConfigInv'
<1>1. /\ tunnels' = [tunnels EXCEPT ![t].bytes = @ + 1]
      /\ used' = [c \in Clients |-> IF c = tunnels[t].config THEN used[c] + 1 ELSE used[c]]
      /\ UNCHANGED <<made, profiles, disk, accounted>>
  BY DEF Move, memory
<1>2. /\ \A u \in Tunnels : tunnels'[u].config = tunnels[u].config
                            /\ tunnels'[u].listed = tunnels[u].listed
                            /\ tunnels'[u].bytes = IF u = t THEN tunnels[u].bytes + 1 ELSE tunnels[u].bytes
      /\ Listed' = Listed
  BY <1>1, FreshIsNat DEF LedgerInv, Types, Tunnel, Listed
<1>3. /\ used' \in [Clients -> Nat]
      /\ \A c \in Clients : used'[c] = IF c = tunnels[t].config THEN used[c] + 1 ELSE used[c]
      /\ \A c \in Clients : used[c] \in Nat /\ used[c] <= used'[c]
  BY <1>1 DEF ConfigInv
<1>4. Usage(profiles)' /\ Usage(disk.profiles)'
  BY <1>1, <1>3 DEF ConfigInv, Usage
<1>5. \A u \in Tunnels : Fresh'[u] \in Nat /\ Fresh'[u] <= Fresh[u] + (IF u = t THEN 1 ELSE 0)
  BY <1>1, <1>2, FreshIsNat DEF LedgerInv, ConfigInv, Fresh
<1>6. ASSUME NEW u \in Listed, tunnels[u].config \in DOMAIN profiles
      PROVE  profiles[tunnels[u].config] + Fresh'[u] <= used'[tunnels[u].config]
  <2>1. /\ tunnels[u].config \in Clients /\ profiles[tunnels[u].config] \in Nat /\ u \in Tunnels
        /\ profiles[tunnels[u].config] + Fresh[u] <= used[tunnels[u].config]
        /\ Fresh[u] \in Nat
    BY <1>6, FreshIsNat DEF LedgerInv, ConfigInv, Usage
  <2> QED BY <1>3, <1>5, <2>1
<1> QED BY <1>1, <1>2, <1>3, <1>4, <1>6, FreshIsNat DEF LedgerInv, ConfigInv

LEMMA IdentifyConfigs ==
  ASSUME LedgerInv, ConfigInv, NEW t \in Tunnels, NEW c \in Clients, Identify(t, c)
  PROVE  ConfigInv'
<1>1. /\ tunnels[t].bytes = 0 /\ c \in DOMAIN profiles /\ OfConfig(c) = {} /\ t \in Listed
      /\ tunnels' = [tunnels EXCEPT ![t].config = c]
      /\ disk' = [disk EXCEPT !.profiles = profiles]
      /\ UNCHANGED <<made, used, profiles, accounted>>
  BY DEF Identify, Listed, memory, history
<1>2. /\ \A u \in Tunnels : tunnels'[u].config = (IF u = t THEN c ELSE tunnels[u].config)
                            /\ tunnels'[u].listed = tunnels[u].listed
                            /\ tunnels'[u].bytes = tunnels[u].bytes
      /\ Listed' = Listed
  BY <1>1, FreshIsNat DEF LedgerInv, Types, Tunnel, Listed
<1>3. disk'.profiles = profiles
  BY <1>1 DEF LedgerInv, Types
<1>4. \A u \in Tunnels : Fresh'[u] = Fresh[u]
  BY <1>1, <1>2 DEF Fresh
<1>5. Fresh[t] = 0
  BY <1>1, FreshIsNat DEF LedgerInv, ConfigInv, Fresh
<1>6. \A u \in Listed : tunnels[u].config # c
  BY <1>1 DEF OfConfig
<1>7. Usage(profiles)' /\ Usage(disk.profiles)'
  BY <1>1, <1>3 DEF ConfigInv, Usage
<1>8. profiles[c] + 0 <= used[c] /\ c \in made
  BY <1>1 DEF ConfigInv, Usage
<1>9. \A u \in Listed : u \in Tunnels
  BY DEF Listed
<1> QED BY <1>1, <1>2, <1>4, <1>5, <1>6, <1>7, <1>8, <1>9 DEF ConfigInv

LEMMA CreateConfigs ==
  ASSUME LedgerInv, ConfigInv, NEW c \in Clients, CreateClient(c)
  PROVE  ConfigInv'
<1>1. /\ c \notin made /\ made' = made \cup {c}
      /\ profiles' = [d \in DOMAIN profiles \cup {c} |-> IF d = c THEN 0 ELSE profiles[d]]
      /\ disk' = [disk EXCEPT !.profiles = profiles']
      /\ UNCHANGED <<tunnels, used, accounted>>
  BY DEF CreateClient, history
<1>2. disk'.profiles = profiles' /\ Listed' = Listed /\ Fresh' = Fresh
  BY <1>1 DEF LedgerInv, Types, Listed, Fresh
<1>3. c # None /\ used[c] \in Nat /\ c \notin DOMAIN profiles
  BY <1>1, BoundsAssumption DEF ConfigInv, Usage
<1>4. Usage(profiles)'
  BY <1>1, <1>3 DEF ConfigInv, Usage
<1>5. Usage(disk.profiles)'
  BY <1>2, <1>4 DEF Usage
<1>6. \A t \in Listed : tunnels[t].config # c
  BY <1>1, <1>3 DEF ConfigInv
<1>7. \A d \in DOMAIN profiles : d \in DOMAIN profiles' /\ profiles'[d] = profiles[d]
  BY <1>1, <1>3
<1>8. DOMAIN profiles' = DOMAIN profiles \cup {c}
  BY <1>1
<1> QED BY <1>1, <1>2, <1>4, <1>5, <1>6, <1>7, <1>8 DEF ConfigInv

LEMMA OtherConfigs ==
  ASSUME LedgerInv, ConfigInv,
         \/ StartServer \/ StartSucceeds \/ BeginStop \/ StopEnds \/ PersistTimer
         \/ \E p \in Peers : ResetUser(p)
         \/ \E t \in Tunnels : CloseTunnel(t)
         \/ \E t \in Tunnels, p \in Peers : NameCaller(t, p)
         \/ \E c \in Clients : DeleteClient(c)
  PROVE  ConfigInv'
<1> USE DEF memory, history
<1>0. tunnels \in [Tunnels -> Tunnel]
  BY DEF LedgerInv, Types
<1>1. ASSUME UNCHANGED <<made, used, accounted, profiles>>,
             disk'.profiles \in {disk.profiles, profiles},
             \A t \in Tunnels : /\ tunnels'[t].config = tunnels[t].config
                                /\ tunnels'[t].bytes = tunnels[t].bytes
                                /\ tunnels'[t].listed => tunnels[t].listed
      PROVE  ConfigInv'
  <2>1. Listed' \subseteq Listed
    BY <1>1 DEF Listed
  <2>2. \A t \in Tunnels : Fresh'[t] = Fresh[t]
    BY <1>1 DEF Fresh
  <2>3. Usage(disk'.profiles) /\ accounted' \in [Tunnels -> Nat]
    BY <1>1 DEF ConfigInv
  <2>4. \A t \in Listed' : t \in Tunnels
    BY DEF Listed
  <2> QED BY <1>1, <2>1, <2>2, <2>3, <2>4, ConfigsStay
<1>2. CASE StartServer \/ StartSucceeds
  BY <1>1, <1>2 DEF StartServer, StartSucceeds
<1>3. CASE BeginStop \/ PersistTimer
  BY <1>1, <1>3 DEF BeginStop, PersistTimer, Save
<1>4. CASE StopEnds
  <2>1. tunnels' = [t \in Tunnels |-> [tunnels[t] EXCEPT !.listed = FALSE]]
        /\ UNCHANGED <<made, used, accounted, profiles, disk>>
    BY <1>4 DEF StopEnds
  <2>2. \A t \in Tunnels : /\ tunnels'[t].config = tunnels[t].config
                           /\ tunnels'[t].bytes = tunnels[t].bytes
                           /\ tunnels'[t].listed => tunnels[t].listed
    BY <1>0, <2>1 DEF Tunnel
  <2> QED BY <1>1, <2>1, <2>2
<1>5. ASSUME NEW p \in Peers, ResetUser(p) PROVE ConfigInv'
  BY <1>1, <1>5 DEF ResetUser, Save
<1>6. ASSUME NEW t \in Tunnels, CloseTunnel(t) PROVE ConfigInv'
  <2>1. tunnels' = [tunnels EXCEPT ![t].open = FALSE, ![t].listed = FALSE]
        /\ UNCHANGED <<made, used, accounted, profiles, disk>>
    BY <1>6 DEF CloseTunnel
  <2>2. \A u \in Tunnels : /\ tunnels'[u].config = tunnels[u].config
                           /\ tunnels'[u].bytes = tunnels[u].bytes
                           /\ tunnels'[u].listed => tunnels[u].listed
    BY <1>0, <2>1 DEF Tunnel
  <2> QED BY <1>1, <2>1, <2>2
<1>7. ASSUME NEW t \in Tunnels, NEW p \in Peers, NameCaller(t, p) PROVE ConfigInv'
  <2>1. tunnels' = [tunnels EXCEPT ![t].peer = p]
        /\ UNCHANGED <<made, used, accounted, profiles, disk>>
    BY <1>7 DEF NameCaller
  <2>2. \A u \in Tunnels : /\ tunnels'[u].config = tunnels[u].config
                           /\ tunnels'[u].bytes = tunnels[u].bytes
                           /\ tunnels'[u].listed => tunnels[u].listed
    BY <1>0, <2>1 DEF Tunnel
  <2> QED BY <1>1, <2>1, <2>2
<1>8. ASSUME NEW c \in Clients, DeleteClient(c) PROVE ConfigInv'
  <2>1. /\ profiles' = [d \in DOMAIN profiles \ {c} |-> profiles[d]]
        /\ accounted' = [t \in Tunnels |-> IF t \in OfConfig(c) THEN 0 ELSE accounted[t]]
        /\ tunnels' = [t \in Tunnels |->
             IF t \in OfConfig(c) THEN [tunnels[t] EXCEPT !.open = FALSE, !.listed = FALSE]
             ELSE tunnels[t]]
        /\ disk' = [disk EXCEPT !.profiles = profiles']
        /\ UNCHANGED <<made, used>>
    BY <1>8 DEF DeleteClient
  <2>2. /\ DOMAIN profiles' \subseteq DOMAIN profiles
        /\ \A d \in DOMAIN profiles' : profiles'[d] = profiles[d]
    BY <2>1
  <2>3. disk'.profiles = profiles'
    BY <2>1 DEF LedgerInv, Types
  <2>4. Usage(disk'.profiles)
    BY <2>2, <2>3 DEF ConfigInv, Usage
  <2>5. \A t \in Tunnels : tunnels'[t].listed => t \notin OfConfig(c) /\ tunnels'[t] = tunnels[t]
    BY <1>0, <2>1 DEF Tunnel
  <2>6. /\ Listed' \subseteq Listed
        /\ \A t \in Listed' : tunnels'[t] = tunnels[t] /\ accounted'[t] = accounted[t] /\ t \in Tunnels
    BY <2>1, <2>5 DEF Listed
  <2>7. \A t \in Listed' : Fresh'[t] = Fresh[t]
    BY <2>6 DEF Fresh
  <2>8. accounted' \in [Tunnels -> Nat]
    BY <2>1 DEF ConfigInv
  <2> QED BY <2>1, <2>2, <2>4, <2>6, <2>7, <2>8, ConfigsStay
<1> QED BY <1>2, <1>3, <1>4, <1>5, <1>6, <1>7, <1>8

LEMMA OpenConfigs ==
  ASSUME LedgerInv, ConfigInv, NEW p \in Peers, OpenTunnel(p)
  PROVE  ConfigInv'
<1> DEFINE n == opened + 1
           new == [NoTunnel EXCEPT !.open = TRUE, !.listed = TRUE, !.peer = p]
<1>1. tunnels' = [tunnels EXCEPT ![n] = new]
      /\ UNCHANGED <<made, used, accounted, profiles, disk>>
  BY DEF OpenTunnel, memory, history
<1>2. new.config = None
  BY DEF NoTunnel
<1>3. None \notin DOMAIN profiles
  BY BoundsAssumption DEF ConfigInv, Usage
<1> HIDE DEF n, new
<1>4. /\ \A t \in Tunnels \ {n} : tunnels'[t] = tunnels[t]
      /\ n \in Tunnels => tunnels'[n] = new
  BY <1>1 DEF LedgerInv, Types
<1>5. \A t \in Listed' : /\ t \in Tunnels
                         /\ t # n => t \in Listed /\ tunnels'[t] = tunnels[t] /\ Fresh'[t] = Fresh[t]
                         /\ t = n => tunnels'[t].config = None
  BY <1>1, <1>2, <1>4 DEF Listed, Fresh
<1>6. Usage(profiles)' /\ Usage(disk.profiles)'
  BY <1>1 DEF ConfigInv, Usage
<1> QED BY <1>1, <1>3, <1>5, <1>6 DEF ConfigInv

LEMMA CrashConfigs ==
  ASSUME LedgerInv, ConfigInv, Crash \/ CrashWhileSaving
  PROVE  ConfigInv'
<1>1. Usage(NoProfiles) /\ Usage(profiles) /\ Usage(disk.profiles)
  BY DEF ConfigInv, Usage, NoProfiles
<1>2. CASE Crash
  BY <1>1, <1>2, ReloadConfigs DEF Crash
<1>3. CASE CrashWhileSaving
  <2>1. PICK files : /\ Reload(files)
                     /\ \/ files = [disk EXCEPT !.lifetime = 0]
                        \/ files = [disk EXCEPT !.lifetime = shown, !.users = NoBytes]
                        \/ files = [lifetime |-> shown, users |-> cached, profiles |-> NoProfiles]
                        \/ files = [disk EXCEPT !.profiles = NoProfiles]
                        \/ files = [disk EXCEPT !.lifetime = shown]
                        \/ files = [disk EXCEPT !.lifetime = shown, !.users = cached]
    BY <1>3 DEF CrashWhileSaving
  <2>2. files.profiles \in {NoProfiles, disk.profiles}
    <3>1. disk = [lifetime |-> disk.lifetime, users |-> disk.users, profiles |-> disk.profiles]
      BY DEF LedgerInv, Types
    <3>2. CASE files = [disk EXCEPT !.lifetime = 0]
      BY <3>1, <3>2
    <3>3. CASE files = [disk EXCEPT !.lifetime = shown, !.users = NoBytes]
      BY <3>1, <3>3
    <3>4. CASE files = [lifetime |-> shown, users |-> cached, profiles |-> NoProfiles]
      BY <3>4
    <3>5. CASE files = [disk EXCEPT !.profiles = NoProfiles]
      BY <3>1, <3>5
    <3>6. CASE files = [disk EXCEPT !.lifetime = shown]
      BY <3>1, <3>6
    <3>7. CASE files = [disk EXCEPT !.lifetime = shown, !.users = cached]
      BY <3>1, <3>7
    <3> QED BY <2>1, <3>2, <3>3, <3>4, <3>5, <3>6, <3>7
  <2> QED BY <1>1, <2>1, <2>2, ReloadConfigs
<1> QED BY <1>2, <1>3

LEMMA ConfigStepInv == LedgerInv /\ ConfigInv /\ [Next]_vars => ConfigInv'
<1> SUFFICES ASSUME LedgerInv, ConfigInv, [Next]_vars PROVE ConfigInv'
  OBVIOUS
<1>1. CASE UNCHANGED vars
  BY <1>1 DEF vars, memory, history, ConfigInv, Usage, Listed, Fresh
<1>2. CASE Next
  BY <1>2, OtherConfigs, TickConfigs, MoveConfigs, IdentifyConfigs, CreateConfigs, OpenConfigs,
     CrashConfigs DEF Next
<1> QED BY <1>1, <1>2

-----------------------------------------------------------------------------
(* The total is explained. *)

(* What is shown, what is saved and what the manager knows are each explained
   by the accounts of users beside it. *)
ExplainedInv ==
  /\ forgiven \in Nat /\ torn \in BOOLEAN
  /\ ~torn => /\ shown <= Total(cached, Peers) + forgiven
              /\ disk.lifetime <= Total(disk.users, Peers) + forgiven
              /\ phase # "down" => manager.lifetime <= Total(manager.users, Peers) + forgiven

(* The sum over all users when the account of one is changed. *)
LEMMA AccountChanged ==
  ASSUME NEW f \in [Peers -> Nat], NEW p \in Peers, NEW v \in Nat
  PROVE  /\ Total([f EXCEPT ![p] = v], Peers) + f[p] = Total(f, Peers) + v
         /\ Total([f EXCEPT ![p] = v], Peers) \in Nat /\ Total(f, Peers) \in Nat
<1> DEFINE h == [f EXCEPT ![p] = v]
<1>1. IsFiniteSet(Peers) /\ Peers \in SUBSET Peers
  BY BoundsAssumption
<1>2. h \in [Peers -> Nat] /\ h[p] = v /\ \A x \in Peers \ {p} : h[x] = f[x]
  OBVIOUS
<1> HIDE DEF h
<1>3. \A T \in SUBSET Peers : Total(h, T) + (IF p \in T THEN f[p] ELSE 0)
                               = Total(f, T) + (IF p \in T THEN h[p] ELSE 0)
  BY <1>1, <1>2, TotalWithout
<1>4. Total(h, Peers) + f[p] = Total(f, Peers) + v
  BY <1>1, <1>2, <1>3
<1>5. Total(h, Peers) \in Nat /\ Total(f, Peers) \in Nat
  BY <1>1, <1>2, TotalIsNat
<1> QED BY <1>4, <1>5 DEF h

LEMMA AccountsSum == \A f \in [Peers -> Nat] : Total(f, Peers) \in Nat
BY BoundsAssumption, TotalIsNat

LEMMA InitExplained == Init => ExplainedInv
<1> SUFFICES ASSUME Init PROVE ExplainedInv
  OBVIOUS
<1>1. NoBytes \in [Peers -> Nat]
  BY DEF NoBytes
<1>2. /\ cached = NoBytes /\ disk.users = NoBytes /\ disk.lifetime = 0 /\ shown = 0
      /\ forgiven = 0 /\ torn = FALSE /\ phase = "down"
  BY DEF Init
<1>3. Total(NoBytes, Peers) \in Nat
  BY <1>1, AccountsSum
<1>4. Total(cached, Peers) \in Nat /\ Total(disk.users, Peers) \in Nat
  BY <1>2, <1>3
<1>5. 0 <= Total(cached, Peers) + 0 /\ 0 <= Total(disk.users, Peers) + 0
  BY <1>4
<1> QED BY <1>2, <1>5 DEF ExplainedInv

LEMMA MoveExplained ==
  ASSUME LedgerInv, ExplainedInv, NEW t \in Tunnels, Move(t)
  PROVE  ExplainedInv'
<1> DEFINE peer == tunnels[t].peer
<1>1. /\ UNCHANGED <<phase, shown, cached, disk, forgiven, torn>>
      /\ peer \in Peers
      /\ \/ manager' = manager
         \/ manager' = [manager EXCEPT !.lifetime = @ + 1, !.users[peer] = @ + 1]
  BY DEF Move, Count, LedgerInv, Types, memory
<1> HIDE DEF peer
<1>2. CASE manager' = manager
  BY <1>1, <1>2 DEF ExplainedInv
<1>3. CASE manager' = [manager EXCEPT !.lifetime = @ + 1, !.users[peer] = @ + 1]
  <2>1. manager \in [lifetime : Nat, users : [Peers -> Nat]]
    BY DEF LedgerInv, Types
  <2>2. /\ manager'.lifetime = manager.lifetime + 1
        /\ manager'.users = [manager.users EXCEPT ![peer] = manager.users[peer] + 1]
        /\ manager.lifetime \in Nat /\ manager.users \in [Peers -> Nat]
        /\ manager.users[peer] \in Nat
    BY <1>1, <1>3, <2>1
  <2>3. Total(manager'.users, Peers) = Total(manager.users, Peers) + 1
        /\ Total(manager.users, Peers) \in Nat
    BY <1>1, <2>2, AccountChanged
  <2> QED BY <1>1, <2>2, <2>3 DEF ExplainedInv
<1> QED BY <1>1, <1>2, <1>3

(* What a reset takes off a user's account it adds to what is forgiven. *)
LEMMA ResetExplained ==
  ASSUME LedgerInv, ExplainedInv, NEW p \in Peers, ResetUser(p)
  PROVE  ExplainedInv'
<1> USE DEF memory, history
<1>0. /\ manager \in [lifetime : Nat, users : [Peers -> Nat]] /\ cached \in [Peers -> Nat]
      /\ manager.users \in [Peers -> Nat] /\ manager.lifetime \in Nat /\ shown \in Nat
      /\ forgiven \in Nat
  BY DEF LedgerInv, Types, ExplainedInv
<1>1. UNCHANGED <<phase, shown, torn>> /\ disk'.lifetime = shown /\ disk'.users = cached'
  BY DEF ResetUser, Save
<1>2. CASE phase # "down"
  <2>1. /\ manager' = [manager EXCEPT !.users[p] = 0] /\ cached' = manager'.users
        /\ forgiven' = forgiven + manager.users[p]
    BY <1>2 DEF ResetUser
  <2>2. /\ manager'.users = [manager.users EXCEPT ![p] = 0] /\ manager.users[p] \in Nat
        /\ manager'.lifetime = manager.lifetime
    BY <1>0, <2>1
  <2>3. /\ Total(manager'.users, Peers) + manager.users[p] = Total(manager.users, Peers)
        /\ Total(manager'.users, Peers) \in Nat /\ Total(manager.users, Peers) \in Nat
    BY <1>0, <2>2, AccountChanged
  <2>4. shown <= manager.lifetime
    BY <1>2 DEF LedgerInv, TotalsInOrder
  <2>5. Total(cached', Peers) = Total(manager'.users, Peers)
        /\ Total(disk'.users, Peers) = Total(manager'.users, Peers)
    BY <1>1, <2>1
  <2>6. ~torn => manager.lifetime <= Total(manager'.users, Peers) + forgiven'
    BY <1>0, <1>2, <2>1, <2>2, <2>3 DEF ExplainedInv
  <2>7. forgiven' \in Nat
    BY <1>0, <2>1, <2>2
  <2> QED BY <1>0, <1>1, <2>2, <2>3, <2>4, <2>5, <2>6, <2>7 DEF ExplainedInv
<1>3. CASE phase = "down"
  <2>1. cached' = [cached EXCEPT ![p] = 0] /\ forgiven' = forgiven + cached[p] /\ cached[p] \in Nat
    BY <1>0, <1>3 DEF ResetUser
  <2>2. /\ Total(cached', Peers) + cached[p] = Total(cached, Peers)
        /\ Total(cached', Peers) \in Nat /\ Total(cached, Peers) \in Nat
    <3>1. /\ Total([cached EXCEPT ![p] = 0], Peers) + cached[p] = Total(cached, Peers) + 0
          /\ Total([cached EXCEPT ![p] = 0], Peers) \in Nat /\ Total(cached, Peers) \in Nat
      BY <1>0, AccountChanged
    <3>2. Total(cached', Peers) = Total([cached EXCEPT ![p] = 0], Peers)
      BY <2>1
    <3> QED BY <1>0, <2>1, <3>1, <3>2
  <2>3. Total(disk'.users, Peers) = Total(cached', Peers)
    BY <1>1
  <2> QED BY <1>0, <1>1, <1>3, <2>1, <2>2, <2>3 DEF ExplainedInv
<1> QED BY <1>2, <1>3

LEMMA ExplainedStep == LedgerInv /\ ExplainedInv /\ [Next]_vars => ExplainedInv'
<1> SUFFICES ASSUME LedgerInv, ExplainedInv, [Next]_vars PROVE ExplainedInv'
  OBVIOUS
<1> USE DEF memory, history
<1>0. disk = [lifetime |-> disk.lifetime, users |-> disk.users, profiles |-> disk.profiles]
  BY DEF LedgerInv, Types
<1>1. ASSUME UNCHANGED <<phase, manager, shown, cached, forgiven, torn>>,
             disk'.lifetime = disk.lifetime, disk'.users = disk.users
      PROVE  ExplainedInv'
  BY <1>1 DEF ExplainedInv
<1>2. CASE StartServer
  <2>1. /\ manager'.lifetime = shown /\ manager'.users = cached
        /\ UNCHANGED <<shown, cached, disk, forgiven, torn>>
    BY <1>2 DEF StartServer
  <2> QED BY <2>1 DEF ExplainedInv
<1>3. CASE StartSucceeds \/ StopEnds
  <2>1. /\ phase' # "down" => phase # "down" /\ manager' = manager
        /\ UNCHANGED <<shown, cached, disk, forgiven, torn>>
    BY <1>3 DEF StartSucceeds, StopEnds
  <2> QED BY <2>1 DEF ExplainedInv
<1>4. CASE BeginStop
  <2>1. /\ phase # "down" /\ shown' = manager.lifetime /\ cached' = manager.users
        /\ disk'.lifetime = manager.lifetime /\ disk'.users = manager.users
        /\ UNCHANGED <<manager, forgiven, torn>>
    BY <1>4 DEF BeginStop, Save
  <2> QED BY <2>1 DEF ExplainedInv
<1>5. CASE Tick
  <2>1. /\ phase # "down" /\ shown' = manager.lifetime /\ cached' = manager.users
        /\ UNCHANGED <<manager, forgiven, torn>>
    BY <1>5 DEF Tick
  <2>2. disk'.lifetime = disk.lifetime /\ disk'.users = disk.users
    BY <1>0, <1>5 DEF Tick
  <2> QED BY <2>1, <2>2 DEF ExplainedInv
<1>6. CASE PersistTimer
  <2>1. /\ disk'.lifetime = shown /\ disk'.users = cached
        /\ UNCHANGED <<phase, manager, shown, cached, forgiven, torn>>
    BY <1>6 DEF PersistTimer, Save
  <2> QED BY <2>1 DEF ExplainedInv
<1>7. ASSUME NEW p \in Peers, OpenTunnel(p) PROVE ExplainedInv'
  BY <1>1, <1>7 DEF OpenTunnel
<1>8. ASSUME NEW p \in Peers, ResetUser(p) PROVE ExplainedInv'
  BY <1>8, ResetExplained
<1>9. ASSUME NEW t \in Tunnels, Move(t) PROVE ExplainedInv'
  BY <1>9, MoveExplained
<1>10. ASSUME NEW t \in Tunnels, CloseTunnel(t) PROVE ExplainedInv'
  BY <1>1, <1>10 DEF CloseTunnel
<1>11. ASSUME NEW t \in Tunnels, NEW p \in Peers, NameCaller(t, p) PROVE ExplainedInv'
  BY <1>1, <1>11 DEF NameCaller
<1>12. ASSUME NEW c \in Clients,
              (\E t \in Tunnels : Identify(t, c)) \/ CreateClient(c) \/ DeleteClient(c)
       PROVE  ExplainedInv'
  <2>1. /\ UNCHANGED <<phase, manager, shown, cached, forgiven, torn>>
        /\ \E f : disk' = [disk EXCEPT !.profiles = f]
    BY <1>12 DEF Identify, CreateClient, DeleteClient
  <2>2. disk'.lifetime = disk.lifetime /\ disk'.users = disk.users
    BY <1>0, <2>1
  <2> QED BY <1>1, <2>1, <2>2
<1>13. CASE Crash
  <2>1. /\ phase' = "down" /\ disk' = disk /\ shown' = disk.lifetime /\ cached' = disk.users
        /\ UNCHANGED <<forgiven, torn>>
    BY <1>13 DEF Crash, Reload
  <2> QED BY <2>1 DEF ExplainedInv
<1>14. CASE CrashWhileSaving
  BY <1>14 DEF CrashWhileSaving, Reload, ExplainedInv
<1>15. CASE UNCHANGED vars
  BY <1>1, <1>15 DEF vars
<1> QED BY <1>2, <1>3, <1>4, <1>5, <1>6, <1>7, <1>8, <1>9, <1>10, <1>11, <1>12, <1>13, <1>14, <1>15
        DEF Next

-----------------------------------------------------------------------------
(* The totals are in order and resets stick, always. *)
THEOREM LedgerInvariant == Spec => []LedgerInv
  BY InitLedger, LedgerStep, PTL DEF Spec

(* No tick, save, stop, start or crash brings reset bytes back. *)
THEOREM ResetsStick == Spec => []ResetSticks
<1>1. LedgerInv => ResetSticks BY DEF LedgerInv
<1> QED BY <1>1, LedgerInvariant, PTL

(* Neither the total shown nor the one saved ever goes back. *)
THEOREM NeverBack == Spec => TotalsGrow
<1> DEFINE Grows == /\ bounds'.crashes = bounds.crashes => shown' >= shown
                    /\ ~torn' => disk'.lifetime >= disk.lifetime
<1>1. LedgerInv /\ [Next]_vars => [Grows]_vars
  <2> SUFFICES ASSUME LedgerInv, Next PROVE Grows
    OBVIOUS
  <2> USE DEF LedgerInv, Types, TotalsInOrder, memory, history
  <2>1. CASE StartServer \/ StartSucceeds \/ StopEnds
    BY <2>1 DEF StartServer, StartSucceeds, StopEnds
  <2>2. CASE BeginStop \/ PersistTimer \/ Tick
    BY <2>2 DEF BeginStop, PersistTimer, Tick, Save
  <2>3. ASSUME UNCHANGED shown, disk'.lifetime = disk.lifetime PROVE Grows
    BY <2>3
  <2>4. ASSUME NEW t \in Tunnels, CloseTunnel(t) \/ Move(t) PROVE Grows
    BY <2>3, <2>4 DEF CloseTunnel, Move
  <2>5. ASSUME NEW t \in Tunnels, NEW p \in Peers, NameCaller(t, p) PROVE Grows
    BY <2>3, <2>5 DEF NameCaller
  <2>6. ASSUME NEW p \in Peers, OpenTunnel(p) PROVE Grows
    BY <2>3, <2>6 DEF OpenTunnel
  <2>7. ASSUME NEW c \in Clients,
               (\E t \in Tunnels : Identify(t, c)) \/ CreateClient(c) \/ DeleteClient(c)
        PROVE  Grows
    <3>1. shown' = shown /\ \E f : disk' = [disk EXCEPT !.profiles = f]
      BY <2>7 DEF Identify, CreateClient, DeleteClient
    <3> QED BY <2>3, <3>1
  <2>8. ASSUME NEW p \in Peers, ResetUser(p) PROVE Grows
    <3>1. shown' = shown /\ disk'.lifetime = shown
      BY <2>8 DEF ResetUser, Save
    <3> QED BY <3>1
  <2>9. ASSUME NEW files, Reload(files) PROVE bounds'.crashes # bounds.crashes /\ disk' = files
    <3>1. bounds' = [bounds EXCEPT !.crashes = @ + 1] /\ disk' = files
      BY <2>9 DEF Reload
    <3>2. bounds'.crashes = bounds.crashes + 1 /\ bounds.crashes \in Nat
      BY <3>1
    <3> QED BY <3>1, <3>2
  <2>10. CASE Crash
    BY <2>9, <2>10 DEF Crash
  <2>11. CASE CrashWhileSaving
    <3>1. torn' = TRUE /\ \E files : Reload(files)
      BY <2>11 DEF CrashWhileSaving
    <3> QED BY <2>9, <3>1
  <2> HIDE DEF Grows
  <2> QED
    BY <2>1, <2>2, <2>4, <2>5, <2>6, <2>7, <2>8, <2>10, <2>11 DEF Next
<1> QED
  BY <1>1, LedgerInvariant, PTL DEF Spec, TotalsGrow

(* No byte is counted twice, for any number of users, configs, tunnels, stops
   and crashes: neither total nor file runs ahead of what was relayed, and no
   config is charged for more than it used. *)
THEOREM CountedOnce == Spec => []NothingTwice
<1>1. LedgerInv /\ ConfigInv => NothingTwice
  BY DEF LedgerInv, Types, TotalsInOrder, ConfigInv, Usage, NothingTwice
<1> QED BY <1>1, InitLedger, LedgerStep, InitConfigs, ConfigStepInv, PTL DEF Spec

(* As long as no crash has left a file half written, every byte of the total
   on the panel, and of the one in the file, is on some user's account there
   or was taken off by a reset. *)
THEOREM EveryByteExplained == Spec => []TotalExplained
<1>1. LedgerInv /\ ExplainedInv => TotalExplained
  BY DEF ExplainedInv, TotalExplained, Total
<1> QED BY <1>1, InitLedger, LedgerStep, InitExplained, ExplainedStep, PTL DEF Spec
=============================================================================
