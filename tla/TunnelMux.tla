------------------------------ MODULE TunnelMux ------------------------------
(***************************************************************************)
(* The multiplexer of a running tunnel (shared/src/mux-v2.ts) over its     *)
(* transport (shared/src/livekit-transport.ts): TCP streams and UDP flows  *)
(* of one client and one server share a packet link.                       *)
(*                                                                         *)
(* The transport publishes one packet at a time and keeps two queues:      *)
(* control packets overtake the data that waits.  The link of each end is  *)
(* the channel OrderedChannel describes, which MediaCarrier implements:    *)
(* packets arrive in order, and when a side leaves, what it had not got    *)
(* across is lost.  Encryption, compression and addresses are left out; a  *)
(* packet that does not decrypt is a stray one.                            *)
(***************************************************************************)
EXTENDS Naturals, FiniteSets, Sequences

CONSTANTS MaxUdpFlows,   \* maxUdpFlows of each end; 1024 in the code
          MaxMissed,     \* maxMissedPongs; 6 in the code
          MaxBad,        \* maxBadPeerPackets; 8 in the code
          Heartbeats,    \* whether heartbeats run: not disableHeartbeat
          MaxStreams,    \* bound: TCP streams opened
          MaxFlows,      \* bound: UDP flows opened
          Chunks         \* bound: chunks each end writes to each channel

Ends == {"client", "server"}
Peer(e) == IF e = "client" THEN "server" ELSE "client"

Bound(proto) == IF proto = "tcp" THEN MaxStreams ELSE MaxFlows
Channels == ({"tcp"} \X (1..MaxStreams)) \cup ({"udp"} \X (1..MaxFlows))

ASSUME LimitsAssumption ==
  /\ MaxUdpFlows \in [Ends -> Nat \ {0}]
  /\ MaxMissed \in Nat \ {0} /\ MaxBad \in Nat \ {0}
  /\ Heartbeats \in BOOLEAN
  /\ MaxStreams \in Nat /\ MaxFlows \in Nat /\ Chunks \in [Ends -> [Channels -> Nat]]

VARIABLES
  closed,     \* the closed flag of each mux
  chans,      \* its maps streams and udpFlows
  opened,     \* channels opened so far: nextClientStreamId, nextClientFlowId
  quiet,      \* nothing has come from the peer since the last heartbeat
  missed,     \* missedHeartbeats
  bad,        \* badPeerPackets
  down,       \* the closed flag of each transport
  queue,      \* the packet being published, and the two queues behind it
  link,       \* packets on their way to an end
  wrote,      \* history: chunks each end has written to each channel
  got         \* history: chunks each end was handed from each channel

muxVars == <<closed, chans>>
peerVars == <<quiet, missed, bad>>
wireVars == <<down, queue, link>>
history == <<wrote, got>>
vars == <<muxVars, opened, peerVars, wireVars, history>>

NoQueue == [busy |-> <<>>, high |-> <<>>, normal |-> <<>>]
Data(c, n) == [kind |-> "data", chan |-> c, n |-> n]
Control(k, c) == [kind |-> k, chan |-> c, n |-> 0]
Note(k) == Control(k, <<"tcp", 0>>)

Flows(e) == {c \in chans[e] : c[1] = "udp"}

(* The first heartbeat interval may be found a moment longer than nominal,
   and then counts as quiet. *)
Init ==
  /\ closed = [e \in Ends |-> FALSE] /\ chans = [e \in Ends |-> {}]
  /\ opened = [p \in {"tcp", "udp"} |-> 0]
  /\ quiet \in [Ends -> {FALSE, Heartbeats}] /\ missed = [e \in Ends |-> 0]
  /\ bad = [e \in Ends |-> 0]
  /\ down = [e \in Ends |-> FALSE] /\ queue = [e \in Ends |-> NoQueue]
  /\ link = [e \in Ends |-> <<>>]
  /\ wrote = [e \in Ends |-> [c \in Channels |-> 0]]
  /\ got = [e \in Ends |-> [c \in Channels |-> <<>>]]

-----------------------------------------------------------------------------
(* The transport. *)

(* Mutants of Enqueue: an open waits in line, and a close or the data of the
   channel overtakes it. *)
OpensWait(q, p) ==
  IF q.busy = <<>> THEN [q EXCEPT !.busy = <<p>>]
  ELSE IF p.kind \in {"data", "open"} THEN [q EXCEPT !.normal = Append(@, p)]
  ELSE [q EXCEPT !.high = Append(@, p)]

DataOvertakes(q, p) ==
  IF q.busy = <<>> THEN [q EXCEPT !.busy = <<p>>]
  ELSE IF p.kind = "open" THEN [q EXCEPT !.normal = Append(@, p)]
  ELSE [q EXCEPT !.high = Append(@, p)]

(* enqueue and the synchronous part of drain. *)
Enqueue(q, p) ==
  IF q.busy = <<>> THEN [q EXCEPT !.busy = <<p>>]
  ELSE IF p.kind = "data" THEN [q EXCEPT !.normal = Append(@, p)]
  ELSE [q EXCEPT !.high = Append(@, p)]

(* Mutant of Advance: the newest waiting data first. *)
NewestFirst(q) ==
  CASE q.high # <<>> -> [q EXCEPT !.busy = <<Head(q.high)>>, !.high = Tail(@)]
    [] q.high = <<>> /\ q.normal # <<>> ->
         [q EXCEPT !.busy = <<q.normal[Len(q.normal)]>>,
                   !.normal = SubSeq(@, 1, Len(@) - 1)]
    [] q.high = <<>> /\ q.normal = <<>> -> NoQueue

(* drain goes on with the next packet: high priority first. *)
Advance(q) ==
  CASE q.high # <<>> -> [q EXCEPT !.busy = <<Head(q.high)>>, !.high = Tail(@)]
    [] q.high = <<>> /\ q.normal # <<>> ->
         [q EXCEPT !.busy = <<Head(q.normal)>>, !.normal = Tail(@)]
    [] q.high = <<>> /\ q.normal = <<>> -> NoQueue

(* e sends p; a closed mux sends nothing. *)
SendPacket(e, p) == queue' = [queue EXCEPT ![e] = Enqueue(@, p)]

(* publishData resolves.  A transport that is down ignores what arrives. *)
Published(e) ==
  /\ ~down[e] /\ queue[e].busy # <<>>
  /\ queue' = [queue EXCEPT ![e] = Advance(@)]
  /\ link' = IF down[Peer(e)] THEN link
             ELSE [link EXCEPT ![Peer(e)] = @ \o queue[e].busy]
  /\ UNCHANGED <<muxVars, opened, peerVars, down, history>>

(* The transport of e closes with q queued: the queues are dropped, and of
   what is under way to the peer only a prefix gets there. *)
Sever(e, q) ==
  /\ down' = [down EXCEPT ![e] = TRUE]
  /\ queue' = [queue EXCEPT ![e] = NoQueue]
  /\ LET out == link[Peer(e)] \o q.busy
     IN \E k \in 0..Len(out) :
          link' = [link EXCEPT ![e] = <<>>,
                     ![Peer(e)] = IF down[Peer(e)] THEN <<>> ELSE SubSeq(out, 1, k)]

(* shutdown: every stream and flow is closed without a word to the peer, and
   the heartbeat stops.  (What it counted is never read again: the model
   forgets it.) *)
Shutdown(e) ==
  /\ closed' = [closed EXCEPT ![e] = TRUE]
  /\ chans' = [chans EXCEPT ![e] = {}]
  /\ quiet' = [quiet EXCEPT ![e] = FALSE]
  /\ missed' = [missed EXCEPT ![e] = 0] /\ bad' = [bad EXCEPT ![e] = 0]

-----------------------------------------------------------------------------
(* What the applications at both ends do. *)

(* openStream and openUdpFlow. *)
Open(proto) ==
  LET c == <<proto, opened[proto] + 1>>
  IN /\ ~closed["client"] /\ opened[proto] < Bound(proto)
     /\ proto = "udp" => Cardinality(Flows("client")) < MaxUdpFlows["client"]
     /\ opened' = [opened EXCEPT ![proto] = @ + 1]
     /\ chans' = [chans EXCEPT !["client"] = @ \cup {c}]
     /\ SendPacket("client", Control("open", c))
     /\ UNCHANGED <<closed, peerVars, down, link, history>>

Write(e, c) ==
  /\ c \in chans[e] /\ wrote[e][c] < Chunks[e][c]
  /\ wrote' = [wrote EXCEPT ![e][c] = @ + 1]
  /\ SendPacket(e, Data(c, wrote[e][c] + 1))
  /\ UNCHANGED <<muxVars, opened, peerVars, down, link, got>>

CloseChannel(e, c) ==
  /\ c \in chans[e]
  /\ chans' = [chans EXCEPT ![e] = @ \ {c}]
  /\ SendPacket(e, Control("close", c))
  /\ UNCHANGED <<closed, opened, peerVars, down, link, history>>

(* terminate: the message is sent, and the transport closed behind it. *)
Terminate ==
  /\ ~closed["server"] /\ ~down["server"]
  /\ Shutdown("server") /\ Sever("server", Enqueue(queue["server"], Note("terminate")))
  /\ UNCHANGED <<opened, wrote, got>>

-----------------------------------------------------------------------------
(* Packets arrive: handleWire. *)

(* A packet that decodes is a sign of life. *)
Alive(e) ==
  /\ quiet' = [quiet EXCEPT ![e] = FALSE]
  /\ missed' = [missed EXCEPT ![e] = 0] /\ bad' = [bad EXCEPT ![e] = 0]

ReceiveOpen(e, c) ==
  /\ Alive(e) /\ UNCHANGED <<closed, got>>
  /\ \/ /\ c[1] = "udp" /\ c \notin chans[e]
        /\ Cardinality(Flows(e)) >= MaxUdpFlows[e]
        /\ SendPacket(e, Control("close", c))
        /\ UNCHANGED chans
     \/ /\ c[1] = "udp" => c \in chans[e] \/ Cardinality(Flows(e)) < MaxUdpFlows[e]
        /\ chans' = [chans EXCEPT ![e] = @ \cup {c}]
        /\ UNCHANGED queue

ReceiveClose(e, c) ==
  /\ Alive(e) /\ UNCHANGED <<closed, queue, got>>
  /\ chans' = [chans EXCEPT ![e] = @ \ {c}]

(* Data for a channel the map does not hold is dropped. *)
ReceiveData(e, p) ==
  /\ Alive(e) /\ UNCHANGED <<muxVars, queue>>
  /\ got' = IF p.chan \in chans[e]
            THEN [got EXCEPT ![e][p.chan] = Append(@, p.n)] ELSE got

(* The transport stays open: closing it is left to the application. *)
ReceiveTerminate(e) ==
  /\ Shutdown(e) /\ UNCHANGED <<queue, got>>

(* A ping or pong is not sent while an earlier one is under way: the bound
   on heartbeat traffic. *)
BeatUnderWay(e, k) ==
  LET q == queue[e]
      ahead == q.busy \o q.high \o link[Peer(e)]
  IN \E i \in 1..Len(ahead) : ahead[i].kind = k
SendBeat(e, k) == IF BeatUnderWay(e, k) THEN UNCHANGED queue ELSE SendPacket(e, Note(k))

ReceivePing(e) ==
  /\ Alive(e) /\ SendBeat(e, "pong")
  /\ UNCHANGED <<muxVars, got>>

ReceivePong(e) == Alive(e) /\ UNCHANGED <<muxVars, queue, got>>

Receive(e) ==
  LET p == Head(link[e])
  IN /\ ~down[e] /\ link[e] # <<>>
     /\ link' = [link EXCEPT ![e] = Tail(@)]
     /\ \/ closed[e] /\ UNCHANGED <<muxVars, peerVars, queue, got>>
        \/ /\ ~closed[e]
           /\ \/ p.kind = "open" /\ ReceiveOpen(e, p.chan)
              \/ p.kind = "close" /\ ReceiveClose(e, p.chan)
              \/ p.kind = "data" /\ ReceiveData(e, p)
              \/ p.kind = "terminate" /\ ReceiveTerminate(e)
              \/ p.kind = "ping" /\ ReceivePing(e)
              \/ p.kind = "pong" /\ ReceivePong(e)
     /\ UNCHANGED <<opened, down, wrote>>

(* A packet that does not decrypt or decode, of a third party in the room
   for instance; it is no sign of life from the peer. *)
Stray(e) ==
  /\ ~down[e] /\ ~closed[e]
  /\ \/ /\ bad[e] + 1 < MaxBad
        /\ bad' = [bad EXCEPT ![e] = @ + 1]
        /\ UNCHANGED <<muxVars, quiet, missed, wireVars>>
     \/ /\ bad[e] + 1 >= MaxBad
        /\ Shutdown(e) /\ Sever(e, queue[e])
  /\ UNCHANGED <<opened, history>>

-----------------------------------------------------------------------------
(* How a tunnel ends. *)

(* Mutant of Heartbeat: the misses are not added up. *)
HeartbeatForgets(e) ==
  /\ Heartbeats /\ ~closed[e]
  /\ quiet' = [quiet EXCEPT ![e] = TRUE]
  /\ missed' = [missed EXCEPT ![e] = IF quiet[e] THEN 1 ELSE 0]
  /\ SendBeat(e, "ping")
  /\ UNCHANGED <<muxVars, bad, down, link, opened, history>>

(* The heartbeat interval of e ends. *)
Heartbeat(e) ==
  LET m == missed[e] + (IF quiet[e] THEN 1 ELSE 0)
  IN /\ Heartbeats /\ ~closed[e]
     /\ \/ /\ m < MaxMissed
           /\ missed' = [missed EXCEPT ![e] = m]
           /\ quiet' = [quiet EXCEPT ![e] = TRUE]
           /\ SendBeat(e, "ping")
           /\ UNCHANGED <<muxVars, bad, down, link>>
        \/ /\ m >= MaxMissed
           /\ Shutdown(e) /\ Sever(e, queue[e])
     /\ UNCHANGED <<opened, history>>

(* The transport of e goes down, and its mux with it: close is called (of a
   mux that may have shut down before), publishData throws, the room reports
   that it or the peer is gone, or the process of e dies. *)
LinkEnds(e) ==
  /\ ~down[e]
  /\ Shutdown(e) /\ Sever(e, queue[e])
  /\ UNCHANGED <<opened, history>>

-----------------------------------------------------------------------------
Next ==
  \/ \E proto \in {"tcp", "udp"} : Open(proto)
  \/ Terminate
  \/ \E e \in Ends :
       \/ \E c \in Channels : Write(e, c) \/ CloseChannel(e, c)
       \/ Published(e) \/ Receive(e) \/ Stray(e)
       \/ Heartbeat(e) \/ LinkEnds(e)

Spec == Init /\ [][Next]_vars

(* The heartbeat timer runs, and packets that have arrived are handled.
   Nothing else is promised: publishing may stall for ever, and the room may
   never report that the peer has left. *)
Fairness == \A e \in Ends : WF_vars(Heartbeat(e)) /\ WF_vars(Receive(e))

FairSpec == Spec /\ Fairness

-----------------------------------------------------------------------------
Packets ==
  [kind : {"data", "open", "close"}, chan : Channels, n : Nat]
    \cup [kind : {"terminate", "ping", "pong"}, chan : {<<"tcp", 0>>}, n : {0}]

TypeOK ==
  /\ closed \in [Ends -> BOOLEAN] /\ chans \in [Ends -> SUBSET Channels]
  /\ opened \in [{"tcp", "udp"} -> Nat]
  /\ quiet \in [Ends -> BOOLEAN] /\ missed \in [Ends -> 0..MaxMissed]
  /\ bad \in [Ends -> 0..(MaxBad - 1)]
  /\ down \in [Ends -> BOOLEAN]
  /\ queue \in [Ends -> [busy : Seq(Packets), high : Seq(Packets), normal : Seq(Packets)]]
  /\ link \in [Ends -> Seq(Packets)]
  /\ wrote \in [Ends -> [Channels -> Nat]]
  /\ got \in [Ends -> [Channels -> Seq(Nat)]]

(* What is under way to an end, in the order in which it would arrive if
   nothing else were sent. *)
UnderWay(e) == LET q == queue[Peer(e)] IN link[e] \o q.busy \o q.high \o q.normal
Coming(e, k, c) ==
  \E i \in 1..Len(UnderWay(e)) : UnderWay(e)[i].kind = k /\ UnderWay(e)[i].chan = c

Running == \A e \in Ends : ~closed[e] /\ ~down[e]

(* While both muxes run, their channel tables agree but for the messages
   under way: a channel only the client has is about to be opened at the
   server, or to be closed at the client; one only the server has is about
   to be closed.  No channel is left half open for ever, and none is opened
   again by a late message. *)
TablesAgree ==
  Running =>
    /\ \A c \in chans["client"] \ chans["server"] :
         Coming("server", "open", c) \/ Coming("client", "close", c)
    /\ \A c \in chans["server"] \ chans["client"] : Coming("server", "close", c)

(* The data of channel c among the packets s are chunks a + 1 to b, in order. *)
IsData(p, c) == p.kind = "data" /\ p.chan = c

Carries(s, c, a, b) ==
  /\ a <= b
  /\ \A i \in 1..Len(s) : IsData(s[i], c) => s[i].n \in (a + 1)..b
  /\ \A n \in (a + 1)..b : \E i \in 1..Len(s) : IsData(s[i], c) /\ s[i].n = n
  /\ \A i, j \in 1..Len(s) : i < j /\ IsData(s[i], c) /\ IsData(s[j], c) => s[i].n < s[j].n

(* While an end holds a channel, none of the bytes its peer has written to
   it is missing: what it was handed and what is under way, in that order,
   is everything written. *)
StreamIntact ==
  \A e \in Ends : ~down[e] /\ ~down[Peer(e)] =>
    \A c \in chans[e] :
      /\ \A i \in 1..Len(got[e][c]) : got[e][c][i] = i
      /\ Carries(UnderWay(e), c, Len(got[e][c]), wrote[Peer(e)][c])

(* Each direction of each channel implements the abstract channel: bytes
   arrive in order, once, without a gap, whatever overtakes whatever. *)
Channel(e, c) == INSTANCE OrderedChannel WITH
  Messages <- 1..Chunks[Peer(e)][c],
  sent <- [i \in 1..wrote[Peer(e)][c] |-> i],
  delivered <- got[e][c]

ImplementsChannel ==
  /\ \A e \in Ends, c \in Channels : Channel(e, c)!Init
  /\ [][\A e \in Ends, c \in Channels : [Channel(e, c)!Next]_(Channel(e, c)!chanVars)]_vars

(* When the mux of one end has closed, however that happened and whatever
   the peer is told, the mux of the other end closes too. *)
BothEndsClose == \A e \in Ends : closed[e] ~> closed[Peer(e)]

=============================================================================
