----------------------------- MODULE TrafficLedger -----------------------------
(***************************************************************************)
(* Who has moved how many bytes through the server: the tunnel manager     *)
(* (server/src/dashboard/manager.ts) counts as bytes move, the server      *)
(* controller (server-electron/src/main/controller.ts) copies its counters *)
(* once a second, adds what each config used, and writes all to three      *)
(* files now and then.  A manager lives from a start of the server to the  *)
(* end of its stop; tunnels may outlive it.                                *)
(*                                                                         *)
(* The two directions are counted alike; there is one here.  UDP datagrams *)
(* are counted nowhere and are left out.                                   *)
(***************************************************************************)
EXTENDS Naturals, FiniteSetsExt

CONSTANTS Peers,         \* callers, peerKey in the code
          Clients,       \* ids of client configs
          MaxTunnels,    \* bound: tunnels opened
          MaxBytes,      \* bound: bytes moved
          MaxStarts,     \* bound: starts of the server
          MaxCrashes,    \* bound: crashes of the program
          MaxResets      \* bound: counters reset by the operator

None == "none"

ASSUME BoundsAssumption ==
  /\ IsFiniteSet(Peers) /\ Peers # {} /\ None \notin Clients
  /\ MaxTunnels \in Nat /\ MaxBytes \in Nat /\ MaxStarts \in Nat
  /\ MaxCrashes \in Nat /\ MaxResets \in Nat

Tunnels == 1..MaxTunnels

VARIABLES
  phase,       \* of the server: "down", "starting", "up", "stopping"
  manager,     \* counters of this.manager: all bytes, and those of each user
  shown,       \* status.lifetimeBytes
  cached,      \* cachedUserStats
  profiles,    \* clientProfiles: bytes by registered config
  disk,        \* the three files
  tunnels,     \* see NoTunnel
  accounted,   \* managedConnectionBytes
  opened,      \* tunnels opened so far
  made,        \* configs made so far
  moved,       \* history: bytes relayed
  since,       \* history: bytes of each user since the last reset
  used,        \* history: bytes of each config
  forgiven,    \* history: bytes taken off by resets
  torn,        \* history: a crash has left a file half written
  bounds       \* starts, crashes and resets so far

memory == <<shown, cached, profiles>>
history == <<moved, since, used, forgiven, torn>>
vars == <<phase, manager, memory, disk, tunnels, accounted, opened, made,
          history, bounds>>

NoBytes == [p \in Peers |-> 0]
NoProfiles == [c \in {} |-> 0]

(* listed: the current manager has it.  An outlived tunnel is open still. *)
NoTunnel == [open |-> FALSE, listed |-> FALSE, peer |-> None, config |-> None, bytes |-> 0]
NoManager == [lifetime |-> 0, users |-> NoBytes]
Listed == {t \in Tunnels : tunnels[t].listed}

Init ==
  /\ phase = "down" /\ manager = NoManager
  /\ shown = 0 /\ cached = NoBytes /\ profiles = NoProfiles
  /\ disk = [lifetime |-> 0, users |-> NoBytes, profiles |-> NoProfiles]
  /\ tunnels = [t \in Tunnels |-> NoTunnel]
  /\ accounted = [t \in Tunnels |-> 0]
  /\ opened = 0 /\ made = {}
  /\ moved = 0 /\ since = NoBytes /\ used = [c \in Clients |-> 0]
  /\ forgiven = 0 /\ torn = FALSE
  /\ bounds = [starts |-> 0, crashes |-> 0, resets |-> 0]

-----------------------------------------------------------------------------
(* The server starts and stops. *)

(* persistStats *)
Save(lifetime, users) ==
  disk' = [lifetime |-> lifetime, users |-> users, profiles |-> profiles]

(* Mutants of StartServer: the new manager does not get the old totals. *)
StartWithoutLifetime ==
  /\ phase = "down" /\ bounds.starts < MaxStarts
  /\ phase' = "starting"
  /\ manager' = [lifetime |-> 0, users |-> cached]
  /\ bounds' = [bounds EXCEPT !.starts = @ + 1]
  /\ UNCHANGED <<memory, disk, tunnels, accounted, opened, made, history>>

StartWithoutUsers ==
  /\ phase = "down" /\ bounds.starts < MaxStarts
  /\ phase' = "starting"
  /\ manager' = [lifetime |-> shown, users |-> NoBytes]
  /\ bounds' = [bounds EXCEPT !.starts = @ + 1]
  /\ UNCHANGED <<memory, disk, tunnels, accounted, opened, made, history>>

(* loadLifetime, loadUserStats *)
StartServer ==
  /\ phase = "down" /\ bounds.starts < MaxStarts
  /\ phase' = "starting"
  /\ manager' = [lifetime |-> shown, users |-> cached]
  /\ bounds' = [bounds EXCEPT !.starts = @ + 1]
  /\ UNCHANGED <<memory, disk, tunnels, accounted, opened, made, history>>

StartSucceeds ==
  /\ phase = "starting" /\ phase' = "up"
  /\ UNCHANGED <<manager, memory, disk, tunnels, accounted, opened, made, history, bounds>>

(* stopServer up to its first await; a start that fails runs it too. *)
BeginStop ==
  /\ phase \in {"starting", "up"} /\ phase' = "stopping"
  /\ shown' = manager.lifetime /\ cached' = manager.users
  /\ Save(manager.lifetime, manager.users)
  /\ UNCHANGED <<manager, profiles, tunnels, accounted, opened, made, history, bounds>>

(* Its end: the manager is dropped, and what it alone knew. *)
StopEnds ==
  /\ phase = "stopping" /\ phase' = "down"
  /\ manager' = NoManager
  /\ tunnels' = [t \in Tunnels |-> [tunnels[t] EXCEPT !.listed = FALSE]]
  /\ UNCHANGED <<memory, disk, accounted, opened, made, history, bounds>>

-----------------------------------------------------------------------------
(* The timers of the controller. *)

(* What each tunnel has moved since the last tick. *)
Fresh == [t \in Tunnels |->
  IF tunnels[t].bytes > accounted[t] THEN tunnels[t].bytes - accounted[t] ELSE 0]
OfConfig(c) == {t \in Listed : tunnels[t].config = c}

(* Mutant of UpdateUsage: a tunnel's whole count is added at every tick. *)
UsageFromStart ==
  /\ accounted' = accounted
  /\ profiles' = [c \in DOMAIN profiles |->
       profiles[c] + MapThenSumSet(LAMBDA t : tunnels[t].bytes, OfConfig(c))]

(* updateManagedClientUsage: what was noted of a tunnel that is gone, or that
   has no registered config, is not kept. *)
UpdateUsage ==
  /\ accounted' = [t \in Tunnels |->
       IF t \in Listed /\ tunnels[t].config \in DOMAIN profiles
         THEN tunnels[t].bytes
       ELSE IF t \in Listed THEN accounted[t] ELSE 0]
  /\ profiles' = [c \in DOMAIN profiles |->
       profiles[c] + MapThenSumSet(LAMBDA t : Fresh[t], OfConfig(c))]

Tick ==
  /\ phase = "up"
  /\ shown' = manager.lifetime /\ cached' = manager.users
  /\ UpdateUsage
  /\ disk' = [disk EXCEPT !.profiles = IF profiles' = profiles THEN @ ELSE profiles']
  /\ UNCHANGED <<phase, manager, tunnels, opened, made, history, bounds>>

PersistTimer ==
  /\ phase = "up"
  /\ Save(shown, cached)
  /\ UNCHANGED <<phase, manager, memory, tunnels, accounted, opened, made, history, bounds>>

-----------------------------------------------------------------------------
(* Tunnels. *)

(* openTunnel, touchUser.  A call that was being accepted when the server was
   stopped may still get here. *)
OpenTunnel(p) ==
  /\ phase \in {"up", "stopping"} /\ opened < MaxTunnels
  /\ opened' = opened + 1
  /\ tunnels' = [tunnels EXCEPT ![opened + 1] =
       [NoTunnel EXCEPT !.open = TRUE, !.listed = TRUE, !.peer = p]]
  /\ UNCHANGED <<phase, manager, memory, disk, accounted, made, history, bounds>>

(* handleClientMetadata takes a registered config that no other tunnel uses. *)
Identify(t, c) ==
  /\ tunnels[t].open /\ tunnels[t].listed
  /\ tunnels[t].config = None /\ tunnels[t].bytes = 0
  /\ c \in DOMAIN profiles /\ OfConfig(c) = {}
  /\ tunnels' = [tunnels EXCEPT ![t].config = c]
  /\ disk' = [disk EXCEPT !.profiles = profiles]
  /\ UNCHANGED <<phase, manager, memory, accounted, opened, made, history, bounds>>

(* A late offer tells who calls: updateTunnel. *)
NameCaller(t, p) ==
  /\ tunnels[t].open /\ tunnels[t].peer # p
  /\ tunnels' = [tunnels EXCEPT ![t].peer = p]
  /\ UNCHANGED <<phase, manager, memory, disk, accounted, opened, made, history, bounds>>

(* addBytes, for a tunnel of the current manager. *)
Count(t) ==
  manager' = [manager EXCEPT !.lifetime = @ + 1, !.users[tunnels[t].peer] = @ + 1]

(* One byte is relayed.  A tunnel that outlives its manager counts in the old
   one, where nobody looks any more. *)
Move(t) ==
  /\ tunnels[t].open /\ moved < MaxBytes
  /\ IF tunnels[t].listed THEN Count(t) ELSE UNCHANGED manager
  /\ tunnels' = [tunnels EXCEPT ![t].bytes = @ + 1]
  /\ moved' = moved + 1
  /\ since' = [since EXCEPT ![tunnels[t].peer] = @ + 1]
  /\ used' = [c \in Clients |-> IF c = tunnels[t].config THEN used[c] + 1 ELSE used[c]]
  /\ UNCHANGED <<phase, memory, disk, accounted, opened, made, forgiven, torn, bounds>>

(* The tunnel ends and leaves the manager's table. *)
CloseTunnel(t) ==
  /\ tunnels[t].open
  /\ tunnels' = [tunnels EXCEPT ![t].open = FALSE, ![t].listed = FALSE]
  /\ UNCHANGED <<phase, manager, memory, disk, accounted, opened, made, history, bounds>>

-----------------------------------------------------------------------------
(* The operator. *)

(* Mutant of ResetUser: the manager is not told. *)
ResetCacheOnly(p) ==
  /\ bounds.resets < MaxResets
  /\ bounds' = [bounds EXCEPT !.resets = @ + 1]
  /\ manager' = manager /\ cached' = [cached EXCEPT ![p] = 0]
  /\ forgiven' = forgiven + cached[p]
  /\ since' = [since EXCEPT ![p] = 0]
  /\ Save(shown, cached')
  /\ UNCHANGED <<phase, shown, profiles, tunnels, accounted, opened, made, moved, used, torn>>

ResetUser(p) ==
  /\ bounds.resets < MaxResets
  /\ bounds' = [bounds EXCEPT !.resets = @ + 1]
  /\ \/ /\ phase # "down"
        /\ manager' = [manager EXCEPT !.users[p] = 0]
        /\ cached' = manager'.users
        /\ forgiven' = forgiven + manager.users[p]
     \/ /\ phase = "down" /\ UNCHANGED manager
        /\ cached' = [cached EXCEPT ![p] = 0]
        /\ forgiven' = forgiven + cached[p]
  /\ since' = [since EXCEPT ![p] = 0]
  /\ Save(shown, cached')
  /\ UNCHANGED <<phase, shown, profiles, tunnels, accounted, opened, made, moved, used, torn>>

(* createClient makes a new id. *)
CreateClient(c) ==
  /\ c \notin made
  /\ made' = made \cup {c}
  /\ profiles' = [d \in DOMAIN profiles \cup {c} |-> IF d = c THEN 0 ELSE profiles[d]]
  /\ disk' = [disk EXCEPT !.profiles = profiles']
  /\ UNCHANGED <<phase, manager, shown, cached, tunnels, accounted, opened, history, bounds>>

(* deleteClient, which ends the tunnels the current manager has for it. *)
DeleteClient(c) ==
  /\ c \in DOMAIN profiles
  /\ profiles' = [d \in DOMAIN profiles \ {c} |-> profiles[d]]
  /\ accounted' = [t \in Tunnels |-> IF t \in OfConfig(c) THEN 0 ELSE accounted[t]]
  /\ tunnels' = [t \in Tunnels |->
       IF t \in OfConfig(c) THEN [tunnels[t] EXCEPT !.open = FALSE, !.listed = FALSE]
       ELSE tunnels[t]]
  /\ disk' = [disk EXCEPT !.profiles = profiles']
  /\ UNCHANGED <<phase, manager, shown, cached, opened, made, history, bounds>>

-----------------------------------------------------------------------------
(* The program dies and its next run loads the files as they are: the
   constructor.  Tunnels die with it. *)
Reload(files) ==
  /\ bounds.crashes < MaxCrashes
  /\ bounds' = [bounds EXCEPT !.crashes = @ + 1]
  /\ phase' = "down" /\ manager' = NoManager
  /\ disk' = files
  /\ shown' = files.lifetime /\ cached' = files.users /\ profiles' = files.profiles
  /\ tunnels' = [t \in Tunnels |-> [tunnels[t] EXCEPT !.open = FALSE, !.listed = FALSE]]
  /\ accounted' = [t \in Tunnels |-> 0]
  /\ UNCHANGED <<opened, made, moved, since, used, forgiven>>

Crash == Reload(disk) /\ UNCHANGED torn

(* It dies while it saves: persistStats writes the totals, then the users, then
   the configs, each file emptied before it is written, and other handlers write
   the configs alone.  A file that does not parse counts as one that is not
   there. *)
CrashWhileSaving ==
  /\ torn' = TRUE
  /\ \/ Reload([disk EXCEPT !.lifetime = 0])
     \/ Reload([disk EXCEPT !.lifetime = shown, !.users = NoBytes])
     \/ Reload([lifetime |-> shown, users |-> cached, profiles |-> NoProfiles])
     \/ Reload([disk EXCEPT !.profiles = NoProfiles])
     \/ Reload([disk EXCEPT !.lifetime = shown])
     \/ Reload([disk EXCEPT !.lifetime = shown, !.users = cached])

Next ==
  \/ StartServer \/ StartSucceeds \/ BeginStop \/ StopEnds \/ Tick \/ PersistTimer
  \/ \E p \in Peers : OpenTunnel(p) \/ ResetUser(p)
  \/ \E t \in Tunnels : Move(t) \/ CloseTunnel(t)
  \/ \E t \in Tunnels, c \in Clients : Identify(t, c)
  \/ \E t \in Tunnels, p \in Peers : NameCaller(t, p)
  \/ \E c \in Clients : CreateClient(c) \/ DeleteClient(c)
  \/ Crash \/ CrashWhileSaving

Spec == Init /\ [][Next]_vars

-----------------------------------------------------------------------------
TypeOK ==
  /\ phase \in {"down", "starting", "up", "stopping"}
  /\ manager \in [lifetime : Nat, users : [Peers -> Nat]]
  /\ shown \in Nat /\ cached \in [Peers -> Nat]
  /\ DOMAIN profiles \subseteq made /\ profiles \in [DOMAIN profiles -> Nat]
  /\ disk.lifetime \in Nat /\ disk.users \in [Peers -> Nat]
  /\ DOMAIN disk.profiles \subseteq made /\ disk.profiles \in [DOMAIN disk.profiles -> Nat]
  /\ tunnels \in [Tunnels -> [open : BOOLEAN, listed : BOOLEAN, peer : Peers \cup {None},
                              config : Clients \cup {None}, bytes : Nat]]
  /\ accounted \in [Tunnels -> Nat] /\ opened \in 0..MaxTunnels /\ made \subseteq Clients
  /\ moved \in Nat /\ since \in [Peers -> Nat] /\ used \in [Clients -> Nat]
  /\ forgiven \in Nat /\ torn \in BOOLEAN
  /\ bounds \in [starts : Nat, crashes : Nat, resets : Nat]

(* No byte is ever counted twice: whatever is started, stopped, reloaded,
   renamed or deleted, neither the total on the panel, nor the manager's, nor
   the saved one exceeds what was relayed, and no config is charged for more
   than it used. *)
NothingTwice ==
  /\ shown <= moved /\ manager.lifetime <= moved /\ disk.lifetime <= moved
  /\ \A c \in DOMAIN profiles : profiles[c] <= used[c]
  /\ \A c \in DOMAIN disk.profiles : disk.profiles[c] <= used[c]

(* A reset sticks: no tick, save, stop, start or crash brings back bytes that
   the operator has taken off a user's account. *)
ResetSticks ==
  \A p \in Peers :
    /\ manager.users[p] <= since[p] /\ cached[p] <= since[p] /\ disk.users[p] <= since[p]

(* The total is explained: every byte in the total on the panel or in the file
   is on some user's account there, or was taken off by a reset. *)
TotalExplained ==
  ~torn =>
    /\ shown <= MapThenSumSet(LAMBDA p : cached[p], Peers) + forgiven
    /\ disk.lifetime <= MapThenSumSet(LAMBDA p : disk.users[p], Peers) + forgiven

(* The total on the panel never goes back while the program runs, and the
   saved one not even when it dies, unless it dies in the middle of a save. *)
TotalsGrow ==
  [][/\ bounds'.crashes = bounds.crashes => shown' >= shown
     /\ ~torn' => disk'.lifetime >= disk.lifetime]_vars

=============================================================================
