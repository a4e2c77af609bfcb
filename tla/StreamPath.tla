------------------------------ MODULE StreamPath ------------------------------
(***************************************************************************)
(* One connection to the SOCKS5 listener of the client                     *)
(* (client/src/socks5.ts), from the application that made it to the socket *)
(* that the server opens for it (server/src/egress.ts): the request in     *)
(* pieces, CONNECT and the bytes of its stream both ways, UDP ASSOCIATE    *)
(* and its flows, and every way in which any of the four ends goes first.  *)
(* Of the mux between them (TunnelMux) is left what streams see of it:     *)
(* control packets overtake data, data arrives in order, and either end    *)
(* may close without a word.                                               *)
(*                                                                         *)
(* What the application writes are pieces: four of the request (greeting,  *)
(* methods, header, address: the reads of the listener), then data.  A     *)
(* piece of data is its number.  A turn of either program is one action:   *)
(* what a read resolves goes on before the next event of the socket.       *)
(***************************************************************************)
EXTENDS Naturals, Sequences, FiniteSets

CONSTANTS MaxUp, MaxDown,  \* bounds: pieces of data each way
          Keys,            \* the destinations of datagrams
          MaxFlows,        \* bound: flows opened
          FlowLimit        \* maxUdpFlows of either mux; 1024 in the code

ASSUME BoundsAssumption ==
  /\ MaxUp \in Nat /\ MaxDown \in Nat /\ MaxFlows \in Nat /\ FlowLimit \in Nat \ {0}

Ends == {"client", "server"}
Flows == 1..MaxFlows

VARIABLES
  ask,      \* what the application asks for: see Requests
  app,      \* its socket: "open", "fin" sent, "reset"
  sent, taken,  \* pieces it has written, and of these come to the listener
  stage,    \* where handleClient is: "reading", "relay", "udp", "over"
  sock,     \* the listener's socket: "open", "ended" by it, "closed"
  replies, appGot,  \* what the application was sent: replies of SOCKS, then data
  alive,    \* the mux of each end is open
  stream,   \* the stream at each end: "none", "open", "closed"
  control, data,  \* its packets on the way to each end
  egress,   \* the server's socket: "none", "connecting", "connected", "closed"
  pendingWrites, destGot,  \* kept until it is connected; what the destination got
  destSent, \* pieces the destination has written
  udp,      \* the socket of the association: "none", "open", "closed"
  flowsByKey,  \* the flow of each destination, 0 for none
  flow      \* every flow: see NoFlow

tcpVars == <<stream, control, data, egress, pendingWrites, destGot, destSent>>
udpVars == <<udp, flowsByKey, flow>>
appVars == <<ask, app, sent>>
vars == <<appVars, taken, stage, sock, replies, appGot, alive, tcpVars, udpVars>>

Requests == {"connect", "udp", "bad version", "bad address", "bad command"}

(* A flow: its destination, whether each end has it, the server's socket for
   it, and its control packets on the way to each end.  Datagrams on an open
   flow change none of this and are left out. *)
NoFlow == [key |-> 0, client |-> FALSE, server |-> FALSE, socket |-> FALSE,
           control |-> [e \in Ends |-> <<>>]]

Nothing == [e \in Ends |-> <<>>]

Init ==
  /\ ask \in Requests /\ app = "open" /\ sent = 0 /\ taken = 0
  /\ stage = "reading" /\ sock = "open" /\ replies = <<>> /\ appGot = <<>>
  /\ alive = [e \in Ends |-> TRUE] /\ stream = [e \in Ends |-> "none"]
  /\ control = Nothing /\ data = Nothing
  /\ egress = "none" /\ pendingWrites = <<>> /\ destGot = <<>> /\ destSent = 0
  /\ udp = "none" /\ flowsByKey = [k \in Keys |-> 0] /\ flow = <<>>

-----------------------------------------------------------------------------
(* The application. *)

AppSends ==
  /\ app = "open" /\ sent < 4 + MaxUp
  /\ sent' = sent + 1
  /\ UNCHANGED <<ask, app, taken, stage, sock, replies, appGot, alive, tcpVars, udpVars>>

AppLeaves ==
  /\ app = "open" /\ app' \in {"fin", "reset"}
  /\ UNCHANGED <<ask, sent, taken, stage, sock, replies, appGot, alive, tcpVars, udpVars>>

-----------------------------------------------------------------------------
(* The listener reads the request. *)

Peer(e) == IF e = "client" THEN "server" ELSE "client"

(* A packet is sent unless the mux is closed. *)
Sent(wire, e, packets) ==
  IF alive[e] THEN [wire EXCEPT ![Peer(e)] = @ \o packets] ELSE wire

(* The pieces it reads before it knows what to do: a wrong version is seen
   first, a command or address type it does not know in the header. *)
Decides == IF ask = "bad version" THEN 1
           ELSE IF ask \in {"bad address", "bad command"} THEN 3 ELSE 4

Piece(i) == i - 4
PiecesFrom(i, n) == [j \in 1..n |-> Piece(i + j)]

(* Mutant of Connect: what was read past the request is left in the reader. *)
ConnectForgets(method, leftover) ==
  /\ alive["client"]
  /\ stage' = "relay" /\ sock' = sock
  /\ replies' = method \o <<"success">>
  /\ stream' = [stream EXCEPT !["client"] = "open"]
  /\ control' = Sent(control, "client", <<"open">>)
  /\ data' = data
  /\ UNCHANGED <<egress, pendingWrites, destGot, destSent, udpVars>>

(* Mutant of Connect: that the mux is closed is nobody's error. *)
ConnectSwallows(method, leftover) ==
  /\ stage' = "relay" /\ replies' = IF alive["client"] THEN method \o <<"success">> ELSE method
  /\ stream' = [stream EXCEPT !["client"] = IF alive["client"] THEN "open" ELSE @]
  /\ control' = Sent(control, "client", <<"open">>) /\ data' = Sent(data, "client", leftover)
  /\ UNCHANGED <<sock, egress, pendingWrites, destGot, destSent, udpVars>>

(* handleConnect: what was read past the request is data. *)
Connect(method, leftover) ==
  \/ /\ alive["client"]
     /\ stage' = "relay" /\ sock' = sock
     /\ replies' = method \o <<"success">>
     /\ stream' = [stream EXCEPT !["client"] = "open"]
     /\ control' = Sent(control, "client", <<"open">>)
     /\ data' = Sent(data, "client", leftover)
     /\ UNCHANGED <<egress, pendingWrites, destGot, destSent, udpVars>>
  \/ /\ ~alive["client"]
     /\ stage' = "over" /\ sock' = "closed"
     /\ replies' = method \o <<"failure">>
     /\ UNCHANGED <<tcpVars, udpVars>>

(* handleUdpAssociate: its socket is bound within the turn. *)
Associate(method) ==
  /\ stage' = "udp" /\ udp' = "open"
  /\ replies' = method \o <<"success">>
  /\ UNCHANGED <<sock, tcpVars, flowsByKey, flow>>

(* A wrong version or address type is not answered. *)
Refuse(method) ==
  /\ stage' = "over"
  /\ \/ /\ ask = "bad command"
        /\ sock' = "ended" /\ replies' = method \o <<"failure">>
     \/ /\ ask # "bad command"
        /\ sock' = "closed" /\ replies' = method
  /\ UNCHANGED <<tcpVars, udpVars>>

(* n pieces come in while the request is being read. *)
RequestComes(n) ==
  LET method == IF taken < 2 /\ taken + n >= 2 /\ ask # "bad version"
                   THEN <<"method">> ELSE replies
  IN /\ stage = "reading"
     /\ \/ /\ taken + n < Decides
           /\ replies' = method
           /\ UNCHANGED <<stage, sock, tcpVars, udpVars>>
        \/ /\ taken + n >= Decides
           /\ \/ ask = "connect" /\ Connect(method, PiecesFrom(4, taken + n - 4))
              \/ ask = "udp" /\ Associate(method)
              \/ ask \notin {"connect", "udp"} /\ Refuse(method)

(* n pieces come in later: bytes of the stream, or nothing to anybody. *)
DataComes(n) ==
  /\ stage # "reading"
  /\ data' = IF stage = "relay" /\ stream["client"] = "open"
               THEN Sent(data, "client", PiecesFrom(taken, n)) ELSE data
  /\ UNCHANGED <<stage, sock, replies, stream, control, egress, pendingWrites,
                 destGot, destSent, udpVars>>

(* The 'data' event. *)
ChunkArrives(n) ==
  /\ sock # "closed" /\ app # "reset"
  /\ taken' = taken + n
  /\ RequestComes(n) \/ DataComes(n)
  /\ UNCHANGED <<appVars, appGot, alive>>

(* stream.close() at end e. *)
CloseStream(e) ==
  /\ stream' = [stream EXCEPT ![e] = IF @ = "open" THEN "closed" ELSE @]
  /\ control' = IF stream[e] = "open" THEN Sent(control, e, <<"close">>) ELSE control

(* A flow that end e closes itself. *)
ClosedBy(f, e) ==
  IF ~f[e] THEN f
  ELSE [f EXCEPT ![e] = FALSE, !.socket = IF e = "server" THEN FALSE ELSE @,
                 !.control = Sent(@, e, <<"close">>)]

(* Mutant of CloseAll: the flows are left to their idle timers. *)
CloseSocketOnly ==
  /\ udp' = IF udp = "open" THEN "closed" ELSE udp
  /\ UNCHANGED <<flow, flowsByKey>>

(* closeAll *)
CloseAll ==
  /\ udp' = IF udp = "open" THEN "closed" ELSE udp
  /\ flow' = [i \in DOMAIN flow |-> ClosedBy(flow[i], "client")]
  /\ flowsByKey' = [k \in Keys |-> 0]

(* The connection is at its end: the FIN after all that was written, or a
   reset.  While the request is read this fails the read. *)
AppGone ==
  /\ sock # "closed"
  /\ app = "reset" \/ (app = "fin" /\ taken = sent)
  /\ sock' = "closed" /\ stage' = "over"
  /\ CloseStream("client") /\ CloseAll
  /\ UNCHANGED <<appVars, taken, replies, appGot, alive, data, egress, pendingWrites, destGot, destSent>>

-----------------------------------------------------------------------------
(* The stream at the server: bindEgress. *)

Took(wire, e) == [wire EXCEPT ![e] = Tail(@)]

FirstIs(packets, kind) == packets # <<>> /\ Head(packets) = kind

(* The address is a host or an IP address, as parseAddr of the listener makes it,
   and none of the two hosts the server answers itself (wt-speedtest, wt-sendlog):
   a socket is opened for it. *)
OpenArrives ==
  /\ FirstIs(control["server"], "open")
  /\ control' = Took(control, "server")
  /\ IF alive["server"]
       THEN stream' = [stream EXCEPT !["server"] = "open"] /\ egress' = "connecting"
       ELSE UNCHANGED <<stream, egress>>
  /\ UNCHANGED <<appVars, taken, stage, sock, replies, appGot, alive, data, pendingWrites,
                 destGot, destSent, udpVars>>

Connected ==
  /\ egress = "connecting" /\ egress' = "connected"
  /\ destGot' = destGot \o pendingWrites /\ pendingWrites' = <<>>
  /\ UNCHANGED <<appVars, taken, stage, sock, replies, appGot, alive, stream, control, data,
                 destSent, udpVars>>

(* Data that comes before the open is no longer under way. *)
UpArrives ==
  /\ data["server"] # <<>>
  /\ ~FirstIs(control["server"], "open")
  /\ data' = Took(data, "server")
  /\ LET n == Head(data["server"])
     IN IF stream["server"] # "open" THEN UNCHANGED <<pendingWrites, destGot>>
        ELSE IF egress = "connected" THEN destGot' = Append(destGot, n) /\ UNCHANGED pendingWrites
        ELSE pendingWrites' = Append(pendingWrites, n) /\ UNCHANGED destGot
  /\ UNCHANGED <<appVars, taken, stage, sock, replies, appGot, alive, stream, control, egress,
                 destSent, udpVars>>

(* Mutant of Dropped: the server's socket is left to its destination. *)
DroppedAlone ==
  /\ UNCHANGED egress /\ pendingWrites' = <<>>

(* What the stream's onClose does at the server. *)
Dropped ==
  /\ egress' = "closed" /\ pendingWrites' = <<>>

CloseArrivesUp ==
  /\ FirstIs(control["server"], "close")
  /\ control' = Took(control, "server")
  /\ IF stream["server"] = "open"
       THEN stream' = [stream EXCEPT !["server"] = "closed"] /\ Dropped
       ELSE UNCHANGED <<stream, egress, pendingWrites>>
  /\ UNCHANGED <<appVars, taken, stage, sock, replies, appGot, alive, data, destGot, destSent, udpVars>>

DestSends ==
  /\ egress = "connected" /\ destSent < MaxDown
  /\ destSent' = destSent + 1
  /\ data' = Sent(data, "server", <<destSent + 1>>)
  /\ UNCHANGED <<appVars, taken, stage, sock, replies, appGot, alive, stream, control, egress,
                 pendingWrites, destGot, udpVars>>

(* It ends, resets or refuses the connection. *)
DestGone ==
  /\ egress \in {"connecting", "connected"}
  /\ CloseStream("server") /\ Dropped
  /\ UNCHANGED <<appVars, taken, stage, sock, replies, appGot, alive, data, destGot, destSent, udpVars>>

-----------------------------------------------------------------------------
(* The stream at the client. *)

DownArrives ==
  /\ data["client"] # <<>>
  /\ data' = Took(data, "client")
  /\ appGot' = IF stream["client"] = "open" THEN Append(appGot, Head(data["client"])) ELSE appGot
  /\ UNCHANGED <<appVars, taken, stage, sock, replies, alive, stream, control, egress,
                 pendingWrites, destGot, destSent, udpVars>>

(* sock.end() *)
Ended == IF sock = "open" THEN "ended" ELSE sock

CloseArrivesDown ==
  /\ control["client"] # <<>>
  /\ control' = Took(control, "client")
  /\ stream' = [stream EXCEPT !["client"] = "closed"]
  /\ sock' = IF stream["client"] = "open" THEN Ended ELSE sock
  /\ UNCHANGED <<appVars, taken, stage, replies, appGot, alive, data, egress, pendingWrites,
                 destGot, destSent, udpVars>>

-----------------------------------------------------------------------------
(* Datagrams and their flows. *)

With(e) == {i \in DOMAIN flow : flow[i][e]}

(* The key of the flow i, if the table still has it, is free again. *)
FreeKey(i) == [k \in Keys |-> IF flowsByKey[k] = i THEN 0 ELSE flowsByKey[k]]

(* A datagram from the application to a new destination.  If no flow can be
   opened for it, openUdpFlow throws and the datagram is gone. *)
AppDatagram(k) ==
  /\ udp = "open" /\ flowsByKey[k] = 0
  /\ alive["client"] /\ Cardinality(With("client")) < FlowLimit /\ Len(flow) < MaxFlows
  /\ flow' = Append(flow, [NoFlow EXCEPT !.key = k, !.client = TRUE,
                                         !.control["server"] = <<"open">>])
  /\ flowsByKey' = [flowsByKey EXCEPT ![k] = Len(flow) + 1]
  /\ UNCHANGED <<appVars, taken, stage, sock, replies, appGot, alive, tcpVars, udp>>

Others == <<appVars, taken, stage, sock, replies, appGot, alive, tcpVars, udp>>

(* udp-open: the server has a limit of its own. *)
FlowOpenArrives(i) ==
  /\ FirstIs(flow[i].control["server"], "open")
  /\ LET f == [flow[i] EXCEPT !.control["server"] = Tail(@)]
     IN flow' = [flow EXCEPT ![i] =
          IF ~alive["server"] THEN f
          ELSE IF Cardinality(With("server")) >= FlowLimit
            THEN [f EXCEPT !.control["client"] = Append(@, "close")]
          ELSE [f EXCEPT !.server = TRUE, !.socket = TRUE]]
  /\ UNCHANGED <<Others, flowsByKey>>

FlowCloseArrivesUp(i) ==
  /\ FirstIs(flow[i].control["server"], "close")
  /\ flow' = [flow EXCEPT ![i].control["server"] = Tail(@),
                          ![i].server = FALSE, ![i].socket = FALSE]
  /\ UNCHANGED <<Others, flowsByKey>>

(* Mutant of FlowCloseArrivesDown: the table is not told. *)
FlowCloseKeepsKey(i) ==
  /\ flow[i].control["client"] # <<>>
  /\ flow' = [flow EXCEPT ![i].control["client"] = Tail(@), ![i].client = FALSE]
  /\ UNCHANGED <<Others, flowsByKey>>

FlowCloseArrivesDown(i) ==
  /\ flow[i].control["client"] # <<>>
  /\ flow' = [flow EXCEPT ![i].control["client"] = Tail(@), ![i].client = FALSE]
  /\ flowsByKey' = FreeKey(i)
  /\ UNCHANGED Others

(* bindUdpEgress: the idle timer, an error of the socket or of a send. *)
FlowExpires(i) ==
  /\ flow[i].server
  /\ flow' = [flow EXCEPT ![i] = ClosedBy(@, "server")]
  /\ UNCHANGED <<Others, flowsByKey>>

-----------------------------------------------------------------------------
(* The mux of e closes: its streams and flows close without a word, what was
   queued is dropped, and of the stream's packets under way a part gets there.
   Those of flows, each alone on its way, are taken to get there: the flow of one
   that does not would end at the peer when the peer's own mux closes. *)
Cut(wire, e) == {[wire EXCEPT ![e] = <<>>, ![Peer(e)] = SubSeq(@, 1, n)] : n \in 0..Len(wire[Peer(e)])}

MuxCloses(e) ==
  /\ alive[e] /\ alive' = [alive EXCEPT ![e] = FALSE]
  /\ stream' = [stream EXCEPT ![e] = IF @ = "open" THEN "closed" ELSE @]
  /\ control' \in Cut(control, e) /\ data' \in Cut(data, e)
  /\ flow' = [i \in DOMAIN flow |->
       [flow[i] EXCEPT ![e] = FALSE, !.control[e] = <<>>,
                       !.socket = IF e = "server" THEN FALSE ELSE @]]
  /\ \/ /\ e = "client"
        /\ sock' = IF stream["client"] = "open" THEN Ended ELSE sock
        /\ flowsByKey' = [k \in Keys |-> 0]
        /\ UNCHANGED <<egress, pendingWrites>>
     \/ /\ e = "server"
        /\ IF stream["server"] = "open" THEN Dropped ELSE UNCHANGED <<egress, pendingWrites>>
        /\ UNCHANGED <<sock, flowsByKey>>
  /\ UNCHANGED <<appVars, taken, stage, replies, appGot, destGot, destSent, udp>>

Wire ==
  \/ OpenArrives \/ UpArrives \/ CloseArrivesUp \/ DownArrives \/ CloseArrivesDown
  \/ \E i \in DOMAIN flow :
       FlowOpenArrives(i) \/ FlowCloseArrivesUp(i) \/ FlowCloseArrivesDown(i)

Next ==
  \/ AppSends \/ AppLeaves \/ AppGone \/ \E n \in 1..(sent - taken) : ChunkArrives(n)
  \/ Connected \/ DestSends \/ DestGone \/ Wire
  \/ \E k \in Keys : AppDatagram(k)
  \/ \E i \in DOMAIN flow : FlowExpires(i)
  \/ \E e \in Ends : MuxCloses(e)

Spec == Init /\ [][Next]_vars

(* Sockets report what came and that they ended, packets arrive, a mux whose
   peer is gone closes (its heartbeat: TunnelMux), and an application closes
   a connection that the listener has ended. *)
FairSpec ==
  /\ Spec
  /\ WF_vars(\E n \in 1..(sent - taken) : ChunkArrives(n)) /\ WF_vars(AppGone) /\ WF_vars(Wire)
  /\ \A e \in Ends : WF_vars(~alive[Peer(e)] /\ MuxCloses(e))
  /\ WF_vars(sock = "ended" /\ AppLeaves)

-----------------------------------------------------------------------------
FlowStates ==
  [key : Keys, client : BOOLEAN, server : BOOLEAN, socket : BOOLEAN,
   control : [Ends -> Seq({"open", "close"})]]

TypeOK ==
  /\ ask \in Requests /\ app \in {"open", "fin", "reset"}
  /\ sent \in 0..(4 + MaxUp) /\ taken \in 0..sent
  /\ stage \in {"reading", "relay", "udp", "over"} /\ sock \in {"open", "ended", "closed"}
  /\ replies \in Seq({"method", "success", "failure"}) /\ appGot \in Seq(Nat)
  /\ alive \in [Ends -> BOOLEAN] /\ stream \in [Ends -> {"none", "open", "closed"}]
  /\ control \in [Ends -> Seq({"open", "close"})] /\ data \in [Ends -> Seq(Nat)]
  /\ egress \in {"none", "connecting", "connected", "closed"}
  /\ pendingWrites \in Seq(Nat) /\ destGot \in Seq(Nat) /\ destSent \in 0..MaxDown
  /\ udp \in {"none", "open", "closed"} /\ flow \in Seq(FlowStates)
  /\ flowsByKey \in [Keys -> 0..Len(flow)]

(* Nothing is lost or out of place but at the end.  What the destination gets
   is what the application wrote after its request, from the first byte and
   without a gap, however the bytes were cut into chunks, sent along with the
   request, or kept until the server's socket was connected.  What the
   application gets are the two replies in their order and then, only after
   success, the bytes of the destination without a gap. *)
BytesInOrder ==
  /\ destGot = [i \in 1..Len(destGot) |-> i]
  /\ replies \in {<<>>, <<"method">>, <<"failure">>,
                 <<"method", "success">>, <<"method", "failure">>}
  /\ appGot = [i \in 1..Len(appGot) |-> i]
  /\ appGot # <<>> => replies = <<"method", "success">>

(* Sockets of the server live as long as what they serve: a stream has its
   connection and a flow its socket, whoever closes first. *)
NoStraySocket ==
  /\ (egress \in {"connecting", "connected"}) <=> (stream["server"] = "open")
  /\ \A i \in DOMAIN flow : flow[i].socket <=> flow[i].server

(* The association's table names the open flows: no datagram is sent on a
   flow that was closed, by whichever end, and no flow is forgotten. *)
FlowsAgree ==
  /\ \A k \in Keys : flowsByKey[k] # 0 =>
       flow[flowsByKey[k]].client /\ flow[flowsByKey[k]].key = k /\ udp = "open"
  /\ \A i \in With("client") : flowsByKey[flow[i].key] = i

(* Both ends are torn down: once the connection of the application is closed
   the server has neither stream nor flow nor socket left for it, and once the
   server's stream is closed, so in the end is the connection. *)
TornDown ==
  /\ sock = "closed" ~> (stream["server"] # "open" /\ With("server") = {} /\ udp # "open")
  /\ stream["server"] = "closed" ~> sock = "closed"

(* Whoever has made his request is answered, or cut off. *)
Answered == sent >= 4 ~> (Len(replies) = 2 \/ sock # "open")
=============================================================================
