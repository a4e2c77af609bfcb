--------------------------- MODULE StreamPathProofs ---------------------------
(***************************************************************************)
(* Proofs about StreamPath: bytes arrive in order, the server's sockets    *)
(* live as long as what they serve, and the association's table agrees     *)
(* with its flows, for any number of pieces, flows and destinations.       *)
(***************************************************************************)
EXTENDS StreamPath, SequenceTheorems, TLAPS

Packets == {"open", "close"}

-----------------------------------------------------------------------------
(* Flows: their sockets and the table of the association. *)

FlowInv ==
  /\ flow \in Seq(FlowStates) /\ flowsByKey \in [Keys -> Nat]
  /\ \A i \in 1..Len(flow) : flow[i].socket <=> flow[i].server
  /\ \A k \in Keys : flowsByKey[k] # 0 =>
       /\ flowsByKey[k] \in 1..Len(flow)
       /\ flow[flowsByKey[k]].client /\ flow[flowsByKey[k]].key = k /\ udp = "open"
  /\ \A i \in 1..Len(flow) : flow[i].client => flowsByKey[flow[i].key] = i

(* Every flow is replaced by another of the same destination, whose socket at
   the server follows the flow there. *)
LEMMA ChangedFlows ==
  ASSUME FlowInv, flow' \in Seq(FlowStates), Len(flow') = Len(flow),
         \A i \in 1..Len(flow) :
           /\ flow'[i].key = flow[i].key
           /\ flow'[i].socket <=> flow'[i].server
           /\ flow'[i].client <=> flow[i].client,
         UNCHANGED <<flowsByKey, udp>>
  PROVE  FlowInv'
<1>1. \A i \in 1..Len(flow) : flow[i] \in FlowStates
  BY ElementOfSeq DEF FlowInv
<1> QED
  BY <1>1 DEF FlowInv

(* The client gives up all its flows. *)
LEMMA ClosedFlows ==
  ASSUME FlowInv, flow' \in Seq(FlowStates), Len(flow') = Len(flow),
         \A i \in 1..Len(flow) :
           /\ flow'[i].socket <=> flow'[i].server
           /\ ~flow'[i].client,
         flowsByKey' = [k \in Keys |-> 0]
  PROVE  FlowInv'
  BY DEF FlowInv

(* One flow changes. *)
LEMMA OneFlow ==
  ASSUME flow \in Seq(FlowStates), NEW i \in 1..Len(flow), NEW f \in FlowStates,
         flow' = [flow EXCEPT ![i] = f]
  PROVE  /\ flow' \in Seq(FlowStates) /\ Len(flow') = Len(flow)
         /\ \A j \in 1..Len(flow) : flow'[j] = IF j = i THEN f ELSE flow[j]
  BY ExceptSeq

(* A function of each flow. *)
LEMMA EachFlow ==
  ASSUME flow \in Seq(FlowStates), NEW g \in [1..Len(flow) -> FlowStates]
  PROVE  /\ g \in Seq(FlowStates) /\ Len(g) = Len(flow)
  BY LenProperties

(* Packets of a flow. *)
LEMMA FlowSent ==
  ASSUME NEW wire \in [Ends -> Seq(Packets)], NEW e \in Ends, alive \in [Ends -> BOOLEAN],
         NEW p \in Packets
  PROVE  Sent(wire, e, <<p>>) \in [Ends -> Seq(Packets)]
<1>1. Peer(e) \in Ends /\ wire[Peer(e)] \in Seq(Packets) /\ <<p>> \in Seq(Packets)
  BY DEF Peer, Ends
<1>2. wire[Peer(e)] \o <<p>> \in Seq(Packets)
  BY <1>1, ConcatProperties
<1> QED
  BY <1>1, <1>2 DEF Sent

LEMMA ClosedByIs ==
  ASSUME NEW f \in FlowStates, NEW e \in Ends, alive \in [Ends -> BOOLEAN]
  PROVE  /\ ClosedBy(f, e) \in FlowStates /\ ~ClosedBy(f, e)[e]
         /\ ClosedBy(f, e).key = f.key /\ ClosedBy(f, e)[Peer(e)] = f[Peer(e)]
         /\ (f.socket <=> f.server) => (ClosedBy(f, e).socket <=> ClosedBy(f, e).server)
<1>1. CASE ~f[e]
  BY <1>1 DEF ClosedBy
<1>2. CASE f[e]
  <2>1. Sent(f.control, e, <<"close">>) \in [Ends -> Seq(Packets)]
    BY FlowSent DEF FlowStates, Packets
  <2>2. CASE e = "client"
    BY <1>2, <2>1, <2>2 DEF ClosedBy, FlowStates, Packets, Peer
  <2>3. CASE e = "server"
    BY <1>2, <2>1, <2>3 DEF ClosedBy, FlowStates, Packets, Peer
  <2> QED BY <2>2, <2>3 DEF Ends
<1> QED BY <1>1, <1>2

LEMMA TailIs ==
  ASSUME NEW S, NEW wire \in [Ends -> Seq(S)], NEW e \in Ends, wire[e] # <<>>
  PROVE  [wire EXCEPT ![e] = Tail(@)] \in [Ends -> Seq(S)]
<1>1. Tail(wire[e]) \in Seq(S)
  BY HeadTailProperties
<1> QED BY <1>1

(* The steps that reach flows, with the flow that each leaves. *)
LEMMA DatagramStep ==
  ASSUME FlowInv, NEW k \in Keys, AppDatagram(k)
  PROVE  FlowInv'
<1> DEFINE f == [NoFlow EXCEPT !.key = k, !.client = TRUE, !.control["server"] = <<"open">>]
<1>1. f \in FlowStates /\ f.key = k /\ f.client /\ ~f.socket /\ ~f.server
  <2>1. [e \in Ends |-> <<>>] \in [Ends -> Seq(Packets)] /\ <<"open">> \in Seq(Packets)
    BY DEF Packets
  <2> QED BY <2>1 DEF NoFlow, FlowStates, Packets
<1>2. /\ udp = "open" /\ flowsByKey[k] = 0 /\ udp' = udp
      /\ flow' = Append(flow, f) /\ flowsByKey' = [flowsByKey EXCEPT ![k] = Len(flow) + 1]
  BY DEF AppDatagram
<1> HIDE DEF f
<1>3. /\ flow' \in Seq(FlowStates) /\ Len(flow') = Len(flow) + 1 /\ Len(flow) \in Nat
      /\ \A i \in 1..Len(flow) : flow'[i] = flow[i]
      /\ flow'[Len(flow) + 1] = f
  BY <1>1, <1>2, AppendProperties, LenProperties DEF FlowInv
<1>4. \A i \in 1..Len(flow) : flow[i].client => flow[i].key # k
  BY <1>2 DEF FlowInv
<1>5. \A i \in 1..Len(flow) : flow[i].key \in Keys
  <2>1. \A i \in 1..Len(flow) : flow[i] \in FlowStates
    BY ElementOfSeq DEF FlowInv
  <2> QED BY <2>1 DEF FlowStates
<1> QED
  BY <1>1, <1>2, <1>3, <1>4, <1>5 DEF FlowInv

(* A flow that changes at the server only. *)
LEMMA ServerFlow ==
  ASSUME FlowInv, NEW i \in 1..Len(flow), NEW f \in FlowStates, flow' = [flow EXCEPT ![i] = f],
         f.key = flow[i].key, f.socket <=> f.server, f.client <=> flow[i].client,
         UNCHANGED <<flowsByKey, udp>>
  PROVE  FlowInv'
<1>1. flow \in Seq(FlowStates)
  BY DEF FlowInv
<1>2. /\ flow' \in Seq(FlowStates) /\ Len(flow') = Len(flow)
      /\ \A j \in 1..Len(flow) : flow'[j] = IF j = i THEN f ELSE flow[j]
  BY <1>1, OneFlow
<1>3. \A j \in 1..Len(flow) : /\ flow'[j].key = flow[j].key
                              /\ flow'[j].socket <=> flow'[j].server
                              /\ flow'[j].client <=> flow[j].client
  BY <1>2 DEF FlowInv
<1> QED
  BY <1>2, <1>3, ChangedFlows

LEMMA FlowOpenStep ==
  ASSUME FlowInv, NEW i \in 1..Len(flow), FlowOpenArrives(i)
  PROVE  FlowInv'
<1> DEFINE f == [flow[i] EXCEPT !.control["server"] = Tail(@)]
           g == IF ~alive["server"] THEN f
                ELSE IF Cardinality(With("server")) >= FlowLimit
                  THEN [f EXCEPT !.control["client"] = Append(@, "close")]
                ELSE [f EXCEPT !.server = TRUE, !.socket = TRUE]
<1>1. flow[i] \in FlowStates /\ (flow[i].socket <=> flow[i].server)
  BY ElementOfSeq DEF FlowInv
<1>2. /\ flow[i].control["server"] # <<>> /\ flow' = [flow EXCEPT ![i] = g]
      /\ UNCHANGED <<flowsByKey, udp>>
  BY DEF FlowOpenArrives, FirstIs, Others
<1>3. f.control = [flow[i].control EXCEPT !["server"] = Tail(@)]
  BY <1>1 DEF FlowStates
<1>4. f.control \in [Ends -> Seq(Packets)]
  BY <1>1, <1>2, <1>3, TailIs DEF FlowStates, Packets, Ends
<1>5. f \in FlowStates /\ f.key = flow[i].key /\ f.client = flow[i].client
      /\ f.server = flow[i].server /\ f.socket = flow[i].socket
  BY <1>1, <1>4 DEF FlowStates, Packets
<1>6. Append(f.control["client"], "close") \in Seq(Packets)
  BY <1>4, AppendProperties DEF Packets, Ends
<1> HIDE DEF f
<1>7. g \in FlowStates /\ g.key = f.key /\ (g.client <=> f.client)
      /\ (g.socket <=> g.server)
  <2>1. CASE ~alive["server"]
    BY <1>1, <1>5, <2>1
  <2>2. CASE alive["server"] /\ Cardinality(With("server")) >= FlowLimit
    BY <1>1, <1>4, <1>5, <1>6, <2>2 DEF FlowStates, Packets
  <2>3. CASE alive["server"] /\ ~(Cardinality(With("server")) >= FlowLimit)
    BY <1>5, <2>3 DEF FlowStates
  <2> QED BY <2>1, <2>2, <2>3
<1> HIDE DEF g
<1> QED
  BY <1>2, <1>5, <1>7, ServerFlow

LEMMA FlowCloseUpStep ==
  ASSUME FlowInv, NEW i \in 1..Len(flow), FlowCloseArrivesUp(i)
  PROVE  FlowInv'
<1> DEFINE f == [flow[i] EXCEPT !.control["server"] = Tail(@), !.server = FALSE, !.socket = FALSE]
<1>1. flow[i] \in FlowStates
  BY ElementOfSeq DEF FlowInv
<1>2. /\ flow[i].control["server"] # <<>> /\ UNCHANGED <<flowsByKey, udp>>
      /\ flow' = [flow EXCEPT ![i].control["server"] = Tail(@),
                              ![i].server = FALSE, ![i].socket = FALSE]
  BY DEF FlowCloseArrivesUp, FirstIs, Others
<1>3. flow' = [flow EXCEPT ![i] = f]
  BY <1>1, <1>2 DEF FlowStates
<1>4. [flow[i].control EXCEPT !["server"] = Tail(@)] \in [Ends -> Seq(Packets)]
  BY <1>1, <1>2, TailIs DEF FlowStates, Packets, Ends
<1>5. f \in FlowStates /\ f.key = flow[i].key /\ f.client = flow[i].client
      /\ ~f.server /\ ~f.socket
  BY <1>1, <1>4 DEF FlowStates, Packets
<1> HIDE DEF f
<1> QED
  BY <1>2, <1>3, <1>5, ServerFlow

LEMMA FlowExpiresStep ==
  ASSUME FlowInv, alive \in [Ends -> BOOLEAN], NEW i \in 1..Len(flow), FlowExpires(i)
  PROVE  FlowInv'
<1>1. flow[i] \in FlowStates /\ (flow[i].socket <=> flow[i].server)
  BY ElementOfSeq DEF FlowInv
<1>2. flow' = [flow EXCEPT ![i] = ClosedBy(flow[i], "server")] /\ UNCHANGED <<flowsByKey, udp>>
  BY DEF FlowExpires, Others
<1>3. /\ ClosedBy(flow[i], "server") \in FlowStates
      /\ ClosedBy(flow[i], "server").key = flow[i].key
      /\ ClosedBy(flow[i], "server")["client"] = flow[i]["client"]
      /\ ClosedBy(flow[i], "server").socket <=> ClosedBy(flow[i], "server").server
  BY <1>1, ClosedByIs DEF Ends, Peer
<1> QED
  BY <1>2, <1>3, ServerFlow

LEMMA FlowCloseDownStep ==
  ASSUME FlowInv, NEW i \in 1..Len(flow), FlowCloseArrivesDown(i)
  PROVE  FlowInv'
<1> DEFINE f == [flow[i] EXCEPT !.control["client"] = Tail(@), !.client = FALSE]
<1>1. flow[i] \in FlowStates /\ flow \in Seq(FlowStates) /\ (flow[i].socket <=> flow[i].server)
  BY ElementOfSeq DEF FlowInv
<1>2. /\ flow[i].control["client"] # <<>> /\ flowsByKey' = FreeKey(i) /\ udp' = udp
      /\ flow' = [flow EXCEPT ![i].control["client"] = Tail(@), ![i].client = FALSE]
  BY DEF FlowCloseArrivesDown, Others
<1>3. flow' = [flow EXCEPT ![i] = f]
  BY <1>1, <1>2 DEF FlowStates
<1>4. [flow[i].control EXCEPT !["client"] = Tail(@)] \in [Ends -> Seq(Packets)]
  BY <1>1, <1>2, TailIs DEF FlowStates, Packets, Ends
<1>5. f \in FlowStates /\ f.key = flow[i].key /\ ~f.client
      /\ f.server = flow[i].server /\ f.socket = flow[i].socket
  BY <1>1, <1>4 DEF FlowStates, Packets
<1> HIDE DEF f
<1>6. /\ flow' \in Seq(FlowStates) /\ Len(flow') = Len(flow)
      /\ \A j \in 1..Len(flow) : flow'[j] = IF j = i THEN f ELSE flow[j]
  BY <1>1, <1>3, <1>5, OneFlow
<1>7. /\ flowsByKey' \in [Keys -> Nat]
      /\ \A k \in Keys : flowsByKey'[k] = IF flowsByKey[k] = i THEN 0 ELSE flowsByKey[k]
  BY <1>2 DEF FlowInv, FreeKey
<1>8. \A j \in 1..Len(flow) : flow[j].key \in Keys
  <2>1. \A j \in 1..Len(flow) : flow[j] \in FlowStates
    BY <1>1, ElementOfSeq
  <2> QED BY <2>1 DEF FlowStates
<1> QED
  BY <1>1, <1>2, <1>5, <1>6, <1>7, <1>8, SMTT(30) DEF FlowInv

LEMMA CloseAllStep ==
  ASSUME FlowInv, alive \in [Ends -> BOOLEAN], CloseAll
  PROVE  FlowInv'
<1> DEFINE g == [i \in DOMAIN flow |-> ClosedBy(flow[i], "client")]
<1>1. /\ flow \in Seq(FlowStates) /\ DOMAIN flow = 1..Len(flow)
      /\ \A i \in 1..Len(flow) : flow[i] \in FlowStates /\ (flow[i].socket <=> flow[i].server)
  BY ElementOfSeq, LenProperties DEF FlowInv
<1>2. \A i \in 1..Len(flow) : /\ g[i] \in FlowStates /\ ~g[i].client
                              /\ g[i].socket <=> g[i].server
  BY <1>1, ClosedByIs DEF Ends
<1>3. g \in [1..Len(flow) -> FlowStates]
  BY <1>1, <1>2
<1>4. flow' = g /\ flowsByKey' = [k \in Keys |-> 0]
  BY DEF CloseAll
<1> HIDE DEF g
<1>5. flow' \in Seq(FlowStates) /\ Len(flow') = Len(flow)
  BY <1>1, <1>3, <1>4, EachFlow
<1> QED
  BY <1>2, <1>4, <1>5, ClosedFlows

LEMMA MuxClosesFlows ==
  ASSUME FlowInv, NEW e \in Ends, MuxCloses(e)
  PROVE  FlowInv'
<1> DEFINE g == [i \in DOMAIN flow |->
                   [flow[i] EXCEPT ![e] = FALSE, !.control[e] = <<>>,
                                   !.socket = IF e = "server" THEN FALSE ELSE @]]
<1>1. /\ flow \in Seq(FlowStates) /\ DOMAIN flow = 1..Len(flow)
      /\ \A i \in 1..Len(flow) : flow[i] \in FlowStates /\ (flow[i].socket <=> flow[i].server)
  BY ElementOfSeq, LenProperties DEF FlowInv
<1>2. \A i \in 1..Len(flow) :
        /\ g[i] \in FlowStates /\ g[i].key = flow[i].key /\ ~g[i][e]
        /\ g[i].socket <=> g[i].server
        /\ e = "server" => (g[i].client <=> flow[i].client)
  <2> SUFFICES ASSUME NEW i \in 1..Len(flow)
               PROVE  /\ g[i] \in FlowStates /\ g[i].key = flow[i].key /\ ~g[i][e]
                      /\ g[i].socket <=> g[i].server
                      /\ e = "server" => (g[i].client <=> flow[i].client)
    OBVIOUS
  <2>1. [flow[i].control EXCEPT ![e] = <<>>] \in [Ends -> Seq(Packets)]
    <3>1. <<>> \in Seq(Packets)
      BY EmptySeq
    <3> QED BY <1>1, <3>1 DEF FlowStates, Packets
  <2>2. CASE e = "client"
    BY <1>1, <2>1, <2>2 DEF FlowStates, Packets
  <2>3. CASE e = "server"
    BY <1>1, <2>1, <2>3 DEF FlowStates, Packets
  <2> QED BY <2>2, <2>3 DEF Ends
<1>3. g \in [1..Len(flow) -> FlowStates]
  BY <1>1, <1>2
<1>4. flow' = g /\ udp' = udp
  BY DEF MuxCloses
<1> HIDE DEF g
<1>5. flow' \in Seq(FlowStates) /\ Len(flow') = Len(flow)
  BY <1>1, <1>3, <1>4, EachFlow
<1>6. CASE e = "client"
  <2>1. flowsByKey' = [k \in Keys |-> 0]
    BY <1>6 DEF MuxCloses
  <2> QED
    BY <1>2, <1>4, <1>5, <1>6, <2>1, ClosedFlows
<1>7. CASE e = "server"
  <2>1. flowsByKey' = flowsByKey
    BY <1>7 DEF MuxCloses
  <2> QED
    BY <1>2, <1>4, <1>5, <1>7, <2>1, ChangedFlows
<1> QED BY <1>6, <1>7 DEF Ends

(* No other step reaches flows, but for the association itself. *)
LEMMA OtherFlows ==
  ASSUME FlowInv, UNCHANGED <<flow, flowsByKey>>, udp' \in {udp, "open"}
  PROVE  FlowInv'
  BY DEF FlowInv

-----------------------------------------------------------------------------
(* The stream and its bytes. *)

Streams == {"none", "open", "closed"}
Stages == {"reading", "relay", "udp", "over"}
Egresses == {"none", "connecting", "connected", "closed"}

(* Types of what the stream needs. *)
PathTypes ==
  /\ ask \in Requests /\ sent \in Nat /\ taken \in Nat /\ stage \in Stages
  /\ appGot \in Seq(Nat) /\ alive \in [Ends -> BOOLEAN] /\ stream \in [Ends -> Streams]
  /\ control \in [Ends -> Seq(Packets)] /\ data \in [Ends -> Seq(Nat)]
  /\ egress \in Egresses /\ pendingWrites \in Seq(Nat) /\ destGot \in Seq(Nat)
  /\ destSent \in Nat

(* The numbers that follow n. *)
Continues(s, n) == \A i \in 1..Len(s) : s[i] = n + i

(* The open of the stream is under way to the server. *)
OpenComing == control["server"] # <<>> /\ control["server"][1] = "open"

(* A stream is opened once, by a request, before anything is sent on it. *)
OpenedOnce ==
  /\ \A i \in 2..Len(control["server"]) : control["server"][i] = "close"
  /\ OpenComing => stream["server"] = "none"
  /\ stream["server"] = "none" =>
       /\ destGot = <<>> /\ pendingWrites = <<>> /\ destSent = 0
       /\ data["client"] = <<>> /\ appGot = <<>>
  /\ stream["client"] = "none" =>
       stream["server"] = "none" /\ control = Nothing /\ data = Nothing
  /\ stage = "reading" => stream["client"] = "none"
  /\ stream["client"] = "open" => stage = "relay" /\ taken >= 4
  /\ \A e \in Ends : stream[e] = "open" => alive[e]

(* The server's connection lives as long as its stream. *)
EgressInv ==
  /\ egress \in {"connecting", "connected"} <=> stream["server"] = "open"
  /\ egress = "connected" => pendingWrites = <<>>

(* Upwards: what the destination got, what waits for the connection and what
   is on its way are consecutive, and while the client's stream is open they
   are all that was read after the request. *)
UpInv ==
  /\ Continues(destGot, 0)
  /\ stream["server"] = "open" \/ OpenComing =>
       /\ Continues(pendingWrites, Len(destGot))
       /\ Continues(data["server"], Len(destGot) + Len(pendingWrites))
       /\ stream["client"] = "open" =>
            Len(destGot) + Len(pendingWrites) + Len(data["server"]) + 4 = taken

(* Downwards: what the application got and what is on its way are
   consecutive, and while the server's stream is open they are all that the
   destination sent. *)
DownInv ==
  /\ Continues(appGot, 0)
  /\ stream["client"] = "open" =>
       /\ Continues(data["client"], Len(appGot))
       /\ stream["server"] = "open" => Len(appGot) + Len(data["client"]) = destSent

(* The replies. *)
Succeeded == <<"method", "success">>
Replies == {<<>>, <<"method">>, <<"failure">>, Succeeded, <<"method", "failure">>}

ReplyInv ==
  /\ replies \in Replies
  /\ stage = "reading" => replies \in {<<>>, <<"method">>}
  /\ stage = "reading" /\ taken >= 2 /\ ask # "bad version" => replies = <<"method">>
  /\ stage = "reading" /\ ask = "bad version" => replies = <<>>
  /\ stream["client"] = "open" \/ appGot # <<>> => replies = Succeeded

StreamInv == OpenedOnce /\ EgressInv /\ UpInv /\ DownInv /\ ReplyInv
PathInv == PathTypes /\ StreamInv

LEMMA PathSafe ==
  ASSUME PathInv, FlowInv
  PROVE  BytesInOrder /\ NoStraySocket /\ FlowsAgree
<1>1. BytesInOrder
  <2>1. /\ destGot = [i \in 1..Len(destGot) |-> i]
        /\ appGot = [i \in 1..Len(appGot) |-> i]
    <3>1. destGot \in [1..Len(destGot) -> Nat] /\ appGot \in [1..Len(appGot) -> Nat]
      BY LenProperties DEF PathInv, PathTypes
    <3>2. /\ \A i \in 1..Len(destGot) : destGot[i] = i
          /\ \A i \in 1..Len(appGot) : appGot[i] = i
      BY DEF PathInv, StreamInv, UpInv, DownInv, Continues
    <3> QED BY <3>1, <3>2
  <2> QED
    BY <2>1 DEF BytesInOrder, PathInv, StreamInv, ReplyInv, Replies, Succeeded
<1>2. DOMAIN flow = 1..Len(flow)
  BY LenProperties DEF FlowInv
<1>3. NoStraySocket
  BY <1>2 DEF NoStraySocket, PathInv, StreamInv, EgressInv, FlowInv
<1>4. FlowsAgree
  BY <1>2 DEF FlowsAgree, FlowInv, With
<1> QED BY <1>1, <1>3, <1>4

LEMMA InitPath == Init => PathInv /\ FlowInv
<1> SUFFICES ASSUME Init PROVE PathInv /\ FlowInv
  OBVIOUS
<1>1. PathTypes
  BY DEF Init, PathTypes, Nothing, Stages, Streams, Egresses, Packets
<1>2. StreamInv
  BY DEF Init, StreamInv, OpenedOnce, EgressInv, UpInv, DownInv, ReplyInv, Replies, Continues,
     OpenComing, Nothing, Ends
<1>3. FlowInv
  BY DEF Init, FlowInv
<1> QED BY <1>1, <1>2, <1>3 DEF PathInv

-----------------------------------------------------------------------------
(* Every step keeps PathInv. *)

(* What is left of a wire when its first packet is read. *)
LEMMA TookIs ==
  ASSUME NEW S, NEW wire \in [Ends -> Seq(S)], NEW e \in Ends, wire[e] # <<>>
  PROVE  /\ Took(wire, e) \in [Ends -> Seq(S)] /\ Len(wire[e]) \in Nat \ {0}
         /\ Head(wire[e]) = wire[e][1] /\ wire[e][1] \in S
         /\ Len(Took(wire, e)[e]) = Len(wire[e]) - 1
         /\ \A i \in 1..(Len(wire[e]) - 1) : Took(wire, e)[e][i] = wire[e][i + 1]
         /\ Took(wire, e)[Peer(e)] = wire[Peer(e)]
<1>1. wire[e] \in Seq(S) /\ Len(wire[e]) \in Nat \ {0}
  BY EmptySeq
<1>2. /\ Tail(wire[e]) \in Seq(S) /\ Len(Tail(wire[e])) = Len(wire[e]) - 1
      /\ \A i \in 1..Len(Tail(wire[e])) : Tail(wire[e])[i] = wire[e][i + 1]
  BY <1>1, HeadTailProperties
<1>3. Head(wire[e]) = wire[e][1] /\ wire[e][1] \in S
  BY <1>1, ElementOfSeq
<1>4. Peer(e) \in Ends /\ Peer(e) # e
  BY DEF Peer, Ends
<1> QED BY <1>1, <1>2, <1>3, <1>4 DEF Took

(* Steps that reach no stream. *)
LEMMA QuietStep ==
  ASSUME PathInv, UNCHANGED <<ask, taken, stage, replies, appGot, alive, tcpVars>>, sent' \in Nat
  PROVE  PathInv'
<1> USE DEF tcpVars
<1>1. PathTypes'
  BY DEF PathInv, PathTypes
<1>2. OpenedOnce' /\ EgressInv'
  BY DEF PathInv, StreamInv, OpenedOnce, EgressInv, OpenComing
<1>3. UpInv' /\ DownInv' /\ ReplyInv'
  BY DEF PathInv, StreamInv, UpInv, DownInv, ReplyInv, OpenComing, Continues
<1> QED BY <1>1, <1>2, <1>3 DEF PathInv, StreamInv

(* Consecutive numbers: written to, read from, cut off. *)
LEMMA ContinuesOn ==
  ASSUME NEW s \in Seq(Nat), NEW p \in Seq(Nat), NEW n \in Nat,
         Continues(s, n), Continues(p, n + Len(s))
  PROVE  /\ Continues(s \o p, n) /\ s \o p \in Seq(Nat) /\ Len(s \o p) = Len(s) + Len(p)
         /\ Len(s) \in Nat /\ Len(p) \in Nat
<1>1. /\ s \o p \in Seq(Nat) /\ Len(s \o p) = Len(s) + Len(p)
      /\ Len(s) \in Nat /\ Len(p) \in Nat
      /\ \A i \in 1..(Len(s) + Len(p)) :
           (s \o p)[i] = IF i <= Len(s) THEN s[i] ELSE p[i - Len(s)]
  BY ConcatProperties, LenProperties
<1> DEFINE t == s \o p
<1> HIDE DEF t
<1>2. ASSUME NEW i \in 1..Len(t) PROVE t[i] = n + i
  <2>1. CASE i <= Len(s)
    BY <1>1, <2>1 DEF Continues, t
  <2>2. CASE ~(i <= Len(s))
    <3>1. i - Len(s) \in 1..Len(p)
      BY <1>1, <2>2 DEF t
    <3>2. p[i - Len(s)] = n + Len(s) + (i - Len(s))
      BY <3>1 DEF Continues
    <3> QED BY <1>1, <2>2, <3>2 DEF t
  <2> QED BY <2>1, <2>2
<1> QED BY <1>1, <1>2 DEF Continues, t

LEMMA ContinuesOne ==
  ASSUME NEW s \in Seq(Nat), NEW n \in Nat, NEW x \in Nat,
         Continues(s, n), x = n + Len(s) + 1
  PROVE  /\ Continues(Append(s, x), n) /\ Append(s, x) \in Seq(Nat)
         /\ Len(Append(s, x)) = Len(s) + 1 /\ Len(s) \in Nat
  BY AppendProperties, LenProperties, SMTT(30) DEF Continues

LEMMA ContinuesTail ==
  ASSUME NEW s \in Seq(Nat), NEW n \in Nat, Continues(s, n), s # <<>>
  PROVE  /\ Head(s) = n + 1 /\ Continues(Tail(s), n + 1)
         /\ Tail(s) \in Seq(Nat) /\ Len(Tail(s)) = Len(s) - 1 /\ Len(s) \in Nat \ {0}
<1>1. /\ Tail(s) \in Seq(Nat) /\ Len(Tail(s)) = Len(s) - 1
      /\ \A i \in 1..Len(Tail(s)) : Tail(s)[i] = s[i + 1]
  BY HeadTailProperties
<1>2. Len(s) \in Nat \ {0} /\ Head(s) = s[1]
  BY EmptySeq
<1> QED BY <1>1, <1>2 DEF Continues

LEMMA ContinuesPart ==
  ASSUME NEW s \in Seq(Nat), NEW n \in Nat, Continues(s, n), NEW k \in 0..Len(s)
  PROVE  Continues(SubSeq(s, 1, k), n) /\ SubSeq(s, 1, k) \in Seq(Nat)
<1>1. Len(s) \in Nat /\ k \in Nat /\ k <= Len(s)
  BY LenProperties
<1>2. /\ SubSeq(s, 1, k) \in Seq(Nat)
      /\ Len(SubSeq(s, 1, k)) = IF 1 <= k THEN k - 1 + 1 ELSE 0
      /\ \A i \in 1..(k - 1 + 1) : SubSeq(s, 1, k)[i] = s[1 + i - 1]
  BY <1>1, SubSeqProperties, ElementOfSeq
<1> QED BY <1>1, <1>2 DEF Continues

(* A close sent after whatever was. *)
LEMMA CloseAfter ==
  ASSUME NEW old \in Seq(Packets)
  PROVE  LET new == Append(old, "close") IN
         /\ (new # <<>> /\ new[1] = "open") <=> (old # <<>> /\ old[1] = "open")
         /\ (\A i \in 2..Len(old) : old[i] = "close") => \A i \in 2..Len(new) : new[i] = "close"
<1> DEFINE new == Append(old, "close")
<1>1. /\ new \in Seq(Packets) /\ Len(new) = Len(old) + 1 /\ Len(old) \in Nat
      /\ new[Len(old) + 1] = "close" /\ \A i \in 1..Len(old) : new[i] = old[i]
  BY AppendProperties, LenProperties DEF Packets
<1>2. (old # <<>> <=> Len(old) # 0) /\ (new # <<>> <=> Len(new) # 0)
  BY <1>1, EmptySeq
<1> HIDE DEF new
<1>3. CASE Len(old) = 0
  BY <1>1, <1>2, <1>3
<1>4. CASE Len(old) # 0
  <2>1. 1 \in 1..Len(old) /\ new[1] = old[1]
    BY <1>1, <1>4
  <2>2. ASSUME \A i \in 2..Len(old) : old[i] = "close", NEW i \in 2..Len(new)
        PROVE  new[i] = "close"
    BY <1>1, <2>2
  <2> QED BY <1>1, <1>2, <1>4, <2>1, <2>2
<1>5. QED BY <1>3, <1>4 DEF new

LEMMA ClosePacket ==
  ASSUME NEW c \in [Ends -> Seq(Packets)], NEW e \in Ends, NEW d \in Ends, d # e,
         alive \in [Ends -> BOOLEAN], NEW n, n = Sent(c, e, <<"close">>)
  PROVE  /\ n \in [Ends -> Seq(Packets)] /\ n[e] = c[e]
         /\ (n[d] # <<>> /\ n[d][1] = "open") <=> (c[d] # <<>> /\ c[d][1] = "open")
         /\ (\A i \in 2..Len(c[d]) : c[d][i] = "close")
              => \A i \in 2..Len(n[d]) : n[d][i] = "close"
<1>1. d = Peer(e) /\ c[d] \in Seq(Packets) /\ "close" \in Packets
  BY DEF Peer, Ends, Packets
<1>2. CASE ~alive[e]
  BY <1>2 DEF Sent
<1>3. CASE alive[e]
  <2>1. n = [c EXCEPT ![d] = Append(c[d], "close")]
    BY <1>1, <1>3, AppendIsConcat DEF Sent
  <2>2. Append(c[d], "close") \in Seq(Packets)
    BY <1>1, AppendProperties
  <2>3. n \in [Ends -> Seq(Packets)] /\ n[e] = c[e] /\ n[d] = Append(c[d], "close")
    BY <2>1, <2>2
  <2>4. LET new == Append(c[d], "close")
        IN  /\ (new # <<>> /\ new[1] = "open") <=> (c[d] # <<>> /\ c[d][1] = "open")
            /\ (\A i \in 2..Len(c[d]) : c[d][i] = "close")
                 => \A i \in 2..Len(new) : new[i] = "close"
    BY <1>1, CloseAfter
  <2> QED BY <2>3, <2>4
<1> QED BY <1>2, <1>3

(* stream.close() at end e. *)
LEMMA ClosesStream ==
  ASSUME PathTypes, NEW e \in Ends, CloseStream(e)
  PROVE  /\ stream' \in [Ends -> Streams] /\ stream'[e] # "open"
         /\ \A d \in Ends : /\ d # e => stream'[d] = stream[d] /\ control'[e] = control[e]
                            /\ (stream'[d] = "none") <=> (stream[d] = "none")
         /\ control' \in [Ends -> Seq(Packets)]
         /\ stream[e] # "open" => control' = control
         /\ OpenComing' <=> OpenComing
         /\ (\A i \in 2..Len(control["server"]) : control["server"][i] = "close")
              => \A i \in 2..Len(control'["server"]) : control'["server"][i] = "close"
<1>1. /\ stream \in [Ends -> Streams] /\ alive \in [Ends -> BOOLEAN]
      /\ control \in [Ends -> Seq(Packets)]
  BY DEF PathTypes
<1>2. stream' = [stream EXCEPT ![e] = IF @ = "open" THEN "closed" ELSE @]
  BY DEF CloseStream
<1>3. CASE stream[e] # "open"
  BY <1>1, <1>2, <1>3 DEF CloseStream, OpenComing
<1>4. CASE stream[e] = "open"
  <2>1. control' = Sent(control, e, <<"close">>)
    BY <1>4 DEF CloseStream
  <2>2. CASE e = "client"
    <3>1. "server" \in Ends /\ "server" # e
      BY <2>2 DEF Ends
    <3> QED
      BY <1>1, <1>2, <1>4, <2>1, <2>2, <3>1, ClosePacket DEF OpenComing, Ends, Streams
  <2>3. CASE e = "server"
    <3>1. "client" \in Ends /\ "client" # e
      BY <2>3 DEF Ends
    <3> QED
      BY <1>1, <1>2, <1>4, <2>1, <2>3, <3>1, ClosePacket DEF OpenComing, Ends, Streams
  <2> QED BY <2>2, <2>3 DEF Ends
<1> QED BY <1>3, <1>4

(* The application's connection ends. *)
LEMMA GoneStep ==
  ASSUME PathInv, AppGone
  PROVE  PathInv'
<1>1. PathTypes
  BY DEF PathInv
<1>2. /\ stage' = "over" /\ CloseStream("client") /\ "client" \in Ends /\ "server" \in Ends
      /\ UNCHANGED <<ask, sent, taken, replies, appGot, alive, data, egress, pendingWrites,
                     destGot, destSent>>
  BY DEF AppGone, appVars, Ends
<1>3. /\ stream' \in [Ends -> Streams] /\ stream'["client"] # "open"
      /\ stream'["server"] = stream["server"]
      /\ (stream'["client"] = "none") <=> (stream["client"] = "none")
      /\ control'["client"] = control["client"]
      /\ control' \in [Ends -> Seq(Packets)]
      /\ stream["client"] # "open" => control' = control
      /\ OpenComing' <=> OpenComing
      /\ (\A i \in 2..Len(control["server"]) : control["server"][i] = "close")
           => \A i \in 2..Len(control'["server"]) : control'["server"][i] = "close"
  <2>1. /\ stream' \in [Ends -> Streams] /\ stream'["client"] # "open"
        /\ \A d \in Ends :
             /\ d # "client" => stream'[d] = stream[d] /\ control'["client"] = control["client"]
             /\ (stream'[d] = "none") <=> (stream[d] = "none")
        /\ control' \in [Ends -> Seq(Packets)]
        /\ stream["client"] # "open" => control' = control
        /\ OpenComing' <=> OpenComing
        /\ (\A i \in 2..Len(control["server"]) : control["server"][i] = "close")
             => \A i \in 2..Len(control'["server"]) : control'["server"][i] = "close"
    BY <1>1, <1>2, ClosesStream, Zenon
  <2>2. /\ stream'["server"] = stream["server"] /\ control'["client"] = control["client"]
        /\ (stream'["client"] = "none") <=> (stream["client"] = "none")
    <3> HIDE DEF Ends
    <3> QED BY <1>2, <2>1
  <2> QED BY <2>1, <2>2, Zenon
<1>4. PathTypes'
  BY <1>1, <1>2, <1>3 DEF PathTypes, Stages
<1>5. OpenedOnce'
  BY <1>2, <1>3 DEF PathInv, StreamInv, OpenedOnce, Ends
<1>6. EgressInv' /\ UpInv'
  BY <1>2, <1>3 DEF PathInv, StreamInv, EgressInv, UpInv, Continues
<1>7. DownInv' /\ ReplyInv'
  BY <1>2, <1>3 DEF PathInv, StreamInv, DownInv, ReplyInv, Continues
<1> QED BY <1>4, <1>5, <1>6, <1>7 DEF PathInv, StreamInv

(* The first packet is taken; none is an open but that one. *)
LEMMA TailOfPackets ==
  ASSUME NEW q \in Seq(Packets), q # <<>>, \A i \in 2..Len(q) : q[i] = "close"
  PROVE  /\ \A i \in 2..Len(Tail(q)) : Tail(q)[i] = "close"
         /\ ~(Tail(q) # <<>> /\ Tail(q)[1] = "open")
<1>1. /\ Tail(q) \in Seq(Packets) /\ Len(Tail(q)) = Len(q) - 1
      /\ \A i \in 1..Len(Tail(q)) : Tail(q)[i] = q[i + 1]
  BY HeadTailProperties
<1>2. Len(q) \in Nat \ {0}
  BY EmptySeq
<1>3. ASSUME NEW i \in 1..Len(Tail(q)) PROVE Tail(q)[i] = "close"
  <2>1. i + 1 \in 2..Len(q) /\ Tail(q)[i] = q[i + 1]
    BY <1>1, <1>2
  <2> QED BY <2>1
<1>4. Tail(q) # <<>> => 1 \in 1..Len(Tail(q))
  <2>1. Tail(q) # <<>> => Len(Tail(q)) # 0
    BY <1>1, EmptySeq
  <2> QED BY <1>1, <1>2, <2>1
<1>5. \A i \in 2..Len(Tail(q)) : i \in 1..Len(Tail(q))
  BY <1>1, <1>2
<1> QED BY <1>3, <1>4, <1>5

LEMMA TookControl ==
  ASSUME NEW c \in [Ends -> Seq(Packets)], c["server"] # <<>>,
         \A i \in 2..Len(c["server"]) : c["server"][i] = "close"
  PROVE  LET d == Took(c, "server") IN
         /\ d \in [Ends -> Seq(Packets)] /\ d["client"] = c["client"]
         /\ \A i \in 2..Len(d["server"]) : d["server"][i] = "close"
         /\ ~(d["server"] # <<>> /\ d["server"][1] = "open")
         /\ Head(c["server"]) = c["server"][1]
<1> DEFINE d == Took(c, "server")
<1>1. "server" \in Ends /\ Peer("server") = "client" /\ c["server"] \in Seq(Packets)
  BY DEF Ends, Peer
<1>2. /\ d \in [Ends -> Seq(Packets)] /\ d["client"] = c["client"]
      /\ Head(c["server"]) = c["server"][1]
  BY <1>1, TookIs
<1>3. d["server"] = Tail(c["server"])
  BY <1>1 DEF Took
<1>4. /\ \A i \in 2..Len(Tail(c["server"])) : Tail(c["server"])[i] = "close"
      /\ ~(Tail(c["server"]) # <<>> /\ Tail(c["server"])[1] = "open")
  BY <1>1, TailOfPackets
<1> QED BY <1>2, <1>3, <1>4

(* The open arrives at the server. *)
LEMMA OpenStep ==
  ASSUME PathInv, OpenArrives
  PROVE  PathInv'
<1>1. /\ PathTypes /\ control["server"] # <<>> /\ Head(control["server"]) = "open"
      /\ control' = Took(control, "server")
      /\ \A i \in 2..Len(control["server"]) : control["server"][i] = "close"
      /\ UNCHANGED <<ask, sent, taken, stage, replies, appGot, alive, data, pendingWrites,
                     destGot, destSent>>
  BY DEF PathInv, StreamInv, OpenedOnce, OpenArrives, FirstIs, appVars
<1>2. /\ control' \in [Ends -> Seq(Packets)] /\ ~OpenComing'
      /\ \A i \in 2..Len(control'["server"]) : control'["server"][i] = "close"
      /\ OpenComing
  BY <1>1, TookControl DEF OpenComing, PathTypes
<1>3. /\ stream["server"] = "none" /\ stream["client"] # "none"
      /\ destGot = <<>> /\ pendingWrites = <<>> /\ destSent = 0
      /\ data["client"] = <<>> /\ appGot = <<>>
  <2>1. stream["client"] = "none" => control["server"] = <<>>
    BY DEF PathInv, StreamInv, OpenedOnce, Nothing, Ends
  <2> QED BY <1>1, <1>2, <2>1 DEF PathInv, StreamInv, OpenedOnce
<1>4. \/ /\ alive["server"] /\ stream' = [stream EXCEPT !["server"] = "open"]
         /\ egress' = "connecting"
      \/ UNCHANGED <<stream, egress>>
  BY DEF OpenArrives
<1>5. /\ stream' \in [Ends -> Streams] /\ stream'["client"] = stream["client"]
      /\ egress' \in Egresses
      /\ \/ stream'["server"] = "open" /\ egress' = "connecting" /\ alive["server"]
         \/ stream' = stream /\ egress' = egress
  BY <1>1, <1>4 DEF PathTypes, Ends, Streams, Egresses
<1>6. PathTypes'
  BY <1>1, <1>2, <1>5 DEF PathTypes
<1>7. OpenedOnce'
  BY <1>1, <1>2, <1>3, <1>5 DEF PathInv, StreamInv, OpenedOnce, Ends
<1>8. EgressInv'
  BY <1>1, <1>3, <1>5 DEF PathInv, StreamInv, EgressInv
<1>9. UpInv'
  BY <1>1, <1>2, <1>3, <1>5 DEF PathInv, StreamInv, UpInv, Continues
<1>10. DownInv'
  BY <1>1, <1>3, <1>5 DEF PathInv, StreamInv, DownInv, Continues
<1>11. ReplyInv'
  BY <1>1, <1>5 DEF PathInv, StreamInv, ReplyInv
<1> QED BY <1>6, <1>7, <1>8, <1>9, <1>10, <1>11 DEF PathInv, StreamInv

(* The server's socket is connected. *)
LEMMA ConnectedStep ==
  ASSUME PathInv, Connected
  PROVE  PathInv'
<1>1. /\ PathTypes /\ egress = "connecting" /\ egress' = "connected"
      /\ destGot' = destGot \o pendingWrites /\ pendingWrites' = <<>>
      /\ UNCHANGED <<ask, sent, taken, stage, replies, appGot, alive, stream, control, data,
                     destSent>>
  BY DEF PathInv, Connected, appVars
<1>2. stream["server"] = "open"
  BY <1>1 DEF PathInv, StreamInv, EgressInv
<1>3. /\ Continues(destGot, 0) /\ Continues(pendingWrites, Len(destGot))
      /\ Continues(data["server"], Len(destGot) + Len(pendingWrites))
      /\ stream["client"] = "open" =>
           Len(destGot) + Len(pendingWrites) + Len(data["server"]) + 4 = taken
  BY <1>2 DEF PathInv, StreamInv, UpInv
<1>4. /\ destGot' \in Seq(Nat) /\ Continues(destGot', 0)
      /\ Len(destGot') = Len(destGot) + Len(pendingWrites)
      /\ Len(destGot) \in Nat /\ Len(pendingWrites) \in Nat
  <2>1. destGot \in Seq(Nat) /\ pendingWrites \in Seq(Nat) /\ 0 + Len(destGot) = Len(destGot)
    BY <1>1, LenProperties DEF PathTypes
  <2> QED BY <1>1, <1>3, <2>1, ContinuesOn
<1>5. /\ pendingWrites' \in Seq(Nat) /\ Len(pendingWrites') = 0
      /\ Continues(pendingWrites', Len(destGot'))
      /\ Len(destGot') + Len(pendingWrites') = Len(destGot) + Len(pendingWrites)
  BY <1>1, <1>4, EmptySeq DEF Continues
<1>6. PathTypes'
  BY <1>1, <1>4, <1>5 DEF PathTypes, Egresses
<1>7. OpenedOnce' /\ EgressInv' /\ DownInv' /\ ReplyInv'
  BY <1>1, <1>2 DEF PathInv, StreamInv, OpenedOnce, OpenComing, EgressInv, DownInv, ReplyInv, Continues
<1>8. UpInv'
  BY <1>1, <1>3, <1>4, <1>5, ZenonT(30) DEF UpInv, Continues
<1> QED BY <1>6, <1>7, <1>8 DEF PathInv, StreamInv

(* Data arrives at the server: kept, handed on or ignored. *)
LEMMA UpStep ==
  ASSUME PathInv, UpArrives
  PROVE  PathInv'
<1>1. /\ PathTypes /\ data["server"] # <<>> /\ data' = Took(data, "server")
      /\ ~FirstIs(control["server"], "open")
      /\ UNCHANGED <<ask, sent, taken, stage, replies, appGot, alive, stream, control, egress,
                     destSent>>
  BY DEF PathInv, UpArrives, appVars
<1>2. /\ data' \in [Ends -> Seq(Nat)] /\ data'["client"] = data["client"]
      /\ data["server"] \in Seq(Nat) /\ Head(data["server"]) \in Nat
      /\ data'["server"] = Tail(data["server"])
  <2>1. "server" \in Ends /\ Peer("server") = "client" /\ data \in [Ends -> Seq(Nat)]
    BY <1>1 DEF Ends, Peer, PathTypes
  <2>2. /\ data' \in [Ends -> Seq(Nat)] /\ data'["client"] = data["client"]
        /\ Head(data["server"]) = data["server"][1] /\ data["server"][1] \in Nat
    BY <1>1, <2>1, TookIs
  <2> QED BY <1>1, <2>1, <2>2 DEF Took
<1>3. ~OpenComing /\ ~OpenComing'
  <2>1. control["server"] # <<>> => Head(control["server"]) = control["server"][1]
    BY <1>1 DEF PathTypes, Ends
  <2> QED BY <1>1, <2>1 DEF OpenComing, FirstIs
<1>4. stream["client"] # "none"
  <2>1. stream["client"] = "none" => data["server"] = <<>>
    BY DEF PathInv, StreamInv, OpenedOnce, Nothing, Ends
  <2> QED BY <1>1, <2>1
<1>5. CASE stream["server"] # "open"
  <2>1. UNCHANGED <<pendingWrites, destGot>>
    BY <1>5 DEF UpArrives
  <2>2. PathTypes'
    BY <1>1, <1>2, <2>1 DEF PathTypes
  <2>3. OpenedOnce'
    BY <1>1, <1>2, <1>3, <1>4, <2>1 DEF PathInv, StreamInv, OpenedOnce, OpenComing
  <2>4. EgressInv' /\ UpInv'
    BY <1>1, <1>3, <1>5, <2>1 DEF PathInv, StreamInv, EgressInv, UpInv, Continues
  <2>5. DownInv' /\ ReplyInv'
    BY <1>1, <1>2 DEF PathInv, StreamInv, DownInv, ReplyInv, Continues
  <2> QED BY <2>2, <2>3, <2>4, <2>5 DEF PathInv, StreamInv
<1>6. CASE stream["server"] = "open"
  <2> DEFINE got == Len(destGot)
             kept == Len(pendingWrites)
             n == Head(data["server"])
  <2>1. /\ Continues(destGot, 0) /\ Continues(pendingWrites, got)
        /\ Continues(data["server"], got + kept)
        /\ stream["client"] = "open" => got + kept + Len(data["server"]) + 4 = taken
        /\ destGot \in Seq(Nat) /\ pendingWrites \in Seq(Nat) /\ got \in Nat /\ kept \in Nat
    BY <1>1, <1>6, LenProperties DEF PathInv, StreamInv, UpInv, PathTypes
  <2>2. /\ n = got + kept + 1 /\ n \in Nat /\ Continues(data'["server"], got + kept + 1)
        /\ Len(data'["server"]) = Len(data["server"]) - 1 /\ Len(data["server"]) \in Nat
    <3>1. got + kept \in Nat
      BY <2>1
    <3> QED BY <1>1, <1>2, <2>1, <3>1, ContinuesTail
  <2>3. /\ destGot' \in Seq(Nat) /\ pendingWrites' \in Seq(Nat)
        /\ Continues(destGot', 0) /\ Continues(pendingWrites', Len(destGot'))
        /\ Len(destGot') + Len(pendingWrites') = got + kept + 1
        /\ egress = "connected" => pendingWrites' = <<>>
    <3>1. CASE egress = "connected"
      <4>1. destGot' = Append(destGot, n) /\ pendingWrites' = pendingWrites /\ pendingWrites = <<>>
        BY <1>6, <3>1 DEF UpArrives, PathInv, StreamInv, EgressInv
      <4>2. kept = 0 /\ n = 0 + got + 1
        BY <2>1, <2>2, <4>1
      <4>3. /\ Continues(destGot', 0) /\ destGot' \in Seq(Nat) /\ Len(destGot') = got + 1
        BY <2>1, <2>2, <4>1, <4>2, ContinuesOne
      <4>4. Continues(pendingWrites', Len(destGot'))
        BY <2>1, <4>1, EmptySeq DEF Continues
      <4> QED BY <2>1, <4>1, <4>2, <4>3, <4>4
    <3>2. CASE egress # "connected"
      <4>1. pendingWrites' = Append(pendingWrites, n) /\ destGot' = destGot
        BY <1>6, <3>2 DEF UpArrives
      <4>2. /\ Continues(pendingWrites', got) /\ pendingWrites' \in Seq(Nat)
            /\ Len(pendingWrites') = kept + 1
        BY <2>1, <2>2, <4>1, ContinuesOne
      <4> QED BY <2>1, <3>2, <4>1, <4>2
    <3> QED BY <3>1, <3>2
  <2>4. PathTypes'
    BY <1>1, <1>2, <2>3 DEF PathTypes
  <2>5. OpenedOnce'
    BY <1>1, <1>2, <1>3, <1>4, <1>6 DEF PathInv, StreamInv, OpenedOnce, OpenComing
  <2>6. EgressInv'
    BY <1>1, <2>3 DEF PathInv, StreamInv, EgressInv
  <2>7. UpInv'
    <3> HIDE DEF got, kept, n
    <3>1. Continues(data'["server"], Len(destGot') + Len(pendingWrites'))
      BY <2>2, <2>3
    <3>2. stream["client"] = "open" =>
            Len(destGot') + Len(pendingWrites') + Len(data'["server"]) + 4 = taken
      <4> DEFINE old == Len(data["server"])
                 new == Len(data'["server"])
      <4>1. /\ stream["client"] = "open" => got + kept + old + 4 = taken
            /\ Len(destGot') + Len(pendingWrites') = got + kept + 1 /\ new = old - 1
            /\ got \in Nat /\ kept \in Nat /\ old \in Nat
        BY <2>1, <2>2, <2>3
      <4>2. Len(destGot') \in Nat /\ Len(pendingWrites') \in Nat
        BY <2>3, LenProperties
      <4> HIDE DEF old, new
      <4>3. stream["client"] = "open" => Len(destGot') + Len(pendingWrites') + new + 4 = taken
        BY <4>1, <4>2
      <4> QED BY <4>3 DEF new
    <3> QED BY <1>1, <2>3, <3>1, <3>2 DEF UpInv, Continues
  <2>8. DownInv' /\ ReplyInv'
    BY <1>1, <1>2 DEF PathInv, StreamInv, DownInv, ReplyInv, Continues
  <2> QED BY <2>4, <2>5, <2>6, <2>7, <2>8 DEF PathInv, StreamInv
<1> QED BY <1>5, <1>6

(* The client's close arrives. *)
LEMMA CloseUpStep ==
  ASSUME PathInv, CloseArrivesUp
  PROVE  PathInv'
<1>1. /\ PathTypes /\ control["server"] # <<>> /\ Head(control["server"]) = "close"
      /\ control' = Took(control, "server")
      /\ \A i \in 2..Len(control["server"]) : control["server"][i] = "close"
      /\ UNCHANGED <<ask, sent, taken, stage, replies, appGot, alive, data, destGot, destSent>>
  BY DEF PathInv, StreamInv, OpenedOnce, CloseArrivesUp, FirstIs, appVars
<1>2. /\ control' \in [Ends -> Seq(Packets)] /\ ~OpenComing' /\ ~OpenComing
      /\ \A i \in 2..Len(control'["server"]) : control'["server"][i] = "close"
  BY <1>1, TookControl DEF OpenComing, PathTypes
<1>3. stream["client"] # "none"
  <2>1. stream["client"] = "none" => control["server"] = <<>>
    BY DEF PathInv, StreamInv, OpenedOnce, Nothing, Ends
  <2> QED BY <1>1, <2>1
<1>4. \/ /\ stream["server"] = "open" /\ stream' = [stream EXCEPT !["server"] = "closed"]
         /\ egress' = "closed" /\ pendingWrites' = <<>>
      \/ stream["server"] # "open" /\ UNCHANGED <<stream, egress, pendingWrites>>
  BY DEF CloseArrivesUp, Dropped
<1>5. /\ stream' \in [Ends -> Streams] /\ stream'["client"] = stream["client"]
      /\ egress' \in Egresses /\ pendingWrites' \in Seq(Nat)
      /\ \/ stream'["server"] = "closed" /\ egress' = "closed"
         \/ stream["server"] # "open" /\ stream' = stream /\ egress' = egress /\ pendingWrites' = pendingWrites
  <2>1. /\ stream \in [Ends -> Streams] /\ egress \in Egresses /\ pendingWrites \in Seq(Nat)
        /\ "server" \in Ends /\ "client" \in Ends /\ "server" # "client"
        /\ "closed" \in Streams /\ "closed" \in Egresses /\ <<>> \in Seq(Nat)
    BY <1>1 DEF PathTypes, Ends, Streams, Egresses
  <2> HIDE DEF Ends, Streams, Egresses
  <2>2. CASE stream["server"] # "open" /\ UNCHANGED <<stream, egress, pendingWrites>>
    BY <2>1, <2>2
  <2>3. CASE /\ stream["server"] = "open" /\ stream' = [stream EXCEPT !["server"] = "closed"]
             /\ egress' = "closed" /\ pendingWrites' = <<>>
    BY <2>1, <2>3
  <2> QED BY <1>4, <2>2, <2>3
<1>6. PathTypes'
  BY <1>1, <1>2, <1>5 DEF PathTypes
<1>7. OpenedOnce'
  BY <1>1, <1>2, <1>3, <1>5 DEF PathInv, StreamInv, OpenedOnce, Ends
<1>8. EgressInv'
  BY <1>5 DEF PathInv, StreamInv, EgressInv
<1>9. UpInv'
  BY <1>1, <1>2, <1>5 DEF PathInv, StreamInv, UpInv, Continues
<1>10. DownInv'
  BY <1>1, <1>5 DEF PathInv, StreamInv, DownInv, Continues
<1>11. ReplyInv'
  BY <1>1, <1>5 DEF PathInv, StreamInv, ReplyInv
<1> QED BY <1>6, <1>7, <1>8, <1>9, <1>10, <1>11 DEF PathInv, StreamInv

(* The destination sends. *)
LEMMA DestSendsStep ==
  ASSUME PathInv, DestSends
  PROVE  PathInv'
<1>1. /\ PathTypes /\ egress = "connected" /\ destSent' = destSent + 1
      /\ data' = Sent(data, "server", <<destSent + 1>>)
      /\ UNCHANGED <<ask, sent, taken, stage, replies, appGot, alive, stream, control, egress,
                     pendingWrites, destGot>>
  BY DEF PathInv, DestSends, appVars
<1>2. stream["server"] = "open" /\ stream["client"] # "none" /\ alive["server"]
  BY <1>1 DEF PathInv, StreamInv, EgressInv, OpenedOnce, Ends
<1>3. /\ data["client"] \in Seq(Nat) /\ destSent + 1 \in Nat /\ data \in [Ends -> Seq(Nat)]
      /\ appGot \in Seq(Nat) /\ Len(appGot) \in Nat
  BY <1>1, LenProperties DEF PathTypes, Ends
<1>4. /\ data' \in [Ends -> Seq(Nat)] /\ data'["server"] = data["server"]
      /\ data'["client"] = Append(data["client"], destSent + 1)
  <2>1. data' = [data EXCEPT !["client"] = Append(@, destSent + 1)]
    BY <1>1, <1>2, <1>3, AppendIsConcat DEF Sent, Peer
  <2>2. Append(data["client"], destSent + 1) \in Seq(Nat)
    BY <1>3, AppendProperties
  <2> QED BY <1>3, <2>1, <2>2 DEF Ends
<1>5. PathTypes'
  BY <1>1, <1>3, <1>4 DEF PathTypes
<1>6. OpenedOnce'
  BY <1>1, <1>2 DEF PathInv, StreamInv, OpenedOnce, OpenComing
<1>7. EgressInv' /\ UpInv' /\ ReplyInv'
  BY <1>1, <1>4 DEF PathInv, StreamInv, EgressInv, UpInv, ReplyInv, OpenComing, Continues
<1>8. DownInv'
  <2>1. CASE stream["client"] = "open"
    <3>1. Continues(data["client"], Len(appGot)) /\ Len(appGot) + Len(data["client"]) = destSent
      BY <1>2, <2>1 DEF PathInv, StreamInv, DownInv
    <3>2. /\ Continues(data'["client"], Len(appGot))
          /\ Len(data'["client"]) = Len(data["client"]) + 1 /\ Len(data["client"]) \in Nat
      BY <1>3, <1>4, <3>1, ContinuesOne
    <3>3. Len(appGot) + Len(data'["client"]) = destSent + 1
      BY <1>3, <3>1, <3>2
    <3> QED
      BY <1>1, <3>2, <3>3 DEF PathInv, StreamInv, DownInv, Continues
  <2>2. CASE stream["client"] # "open"
    BY <1>1, <2>2 DEF PathInv, StreamInv, DownInv, Continues
  <2> QED BY <2>1, <2>2
<1> QED BY <1>5, <1>6, <1>7, <1>8 DEF PathInv, StreamInv

(* The destination goes. *)
LEMMA DestGoneStep ==
  ASSUME PathInv, DestGone
  PROVE  PathInv'
<1>1. /\ PathTypes /\ CloseStream("server") /\ "client" \in Ends /\ "server" \in Ends
      /\ egress \in {"connecting", "connected"} /\ egress' = "closed" /\ pendingWrites' = <<>>
      /\ UNCHANGED <<ask, sent, taken, stage, replies, appGot, alive, data, destGot, destSent>>
  BY DEF PathInv, DestGone, Dropped, appVars, Ends
<1>2. /\ stream' \in [Ends -> Streams] /\ stream'["server"] # "open"
      /\ stream'["client"] = stream["client"]
      /\ (stream'["server"] = "none") <=> (stream["server"] = "none")
      /\ control' \in [Ends -> Seq(Packets)]
      /\ OpenComing' <=> OpenComing
      /\ (\A i \in 2..Len(control["server"]) : control["server"][i] = "close")
           => \A i \in 2..Len(control'["server"]) : control'["server"][i] = "close"
  BY <1>1, ClosesStream, SMTT(30)
<1>3. stream["server"] = "open" /\ stream["client"] # "none" /\ ~OpenComing
  BY <1>1 DEF PathInv, StreamInv, EgressInv, OpenedOnce
<1>4. PathTypes'
  BY <1>1, <1>2, EmptySeq DEF PathTypes, Egresses
<1>5. OpenedOnce'
  BY <1>1, <1>2, <1>3 DEF PathInv, StreamInv, OpenedOnce, Ends
<1>6. EgressInv' /\ UpInv'
  BY <1>1, <1>2, <1>3 DEF PathInv, StreamInv, EgressInv, UpInv, Continues
<1>7. DownInv' /\ ReplyInv'
  BY <1>1, <1>2, <1>3 DEF PathInv, StreamInv, DownInv, ReplyInv, Continues
<1> QED BY <1>4, <1>5, <1>6, <1>7 DEF PathInv, StreamInv

(* Data arrives at the client. *)
LEMMA DownStep ==
  ASSUME PathInv, DownArrives
  PROVE  PathInv'
<1>1. /\ PathTypes /\ data["client"] # <<>> /\ data' = Took(data, "client")
      /\ appGot' = IF stream["client"] = "open" THEN Append(appGot, Head(data["client"])) ELSE appGot
      /\ UNCHANGED <<ask, sent, taken, stage, replies, alive, stream, control, egress,
                     pendingWrites, destGot, destSent>>
  BY DEF PathInv, DownArrives, appVars
<1>2. /\ data' \in [Ends -> Seq(Nat)] /\ data'["server"] = data["server"]
      /\ data["client"] \in Seq(Nat) /\ Head(data["client"]) \in Nat
      /\ data'["client"] = Tail(data["client"])
  <2>1. "client" \in Ends /\ Peer("client") = "server" /\ data \in [Ends -> Seq(Nat)]
    BY <1>1 DEF Ends, Peer, PathTypes
  <2>2. /\ data' \in [Ends -> Seq(Nat)] /\ data'["server"] = data["server"]
        /\ Head(data["client"]) = data["client"][1] /\ data["client"][1] \in Nat
    BY <1>1, <2>1, TookIs
  <2> QED BY <1>1, <2>1, <2>2 DEF Took
<1>3. stream["client"] # "none" /\ stream["server"] # "none"
  BY <1>1 DEF PathInv, StreamInv, OpenedOnce
<1>4. appGot' \in Seq(Nat)
  BY <1>1, <1>2, AppendProperties DEF PathTypes
<1>5. PathTypes'
  BY <1>1, <1>2, <1>4 DEF PathTypes
<1>6. OpenedOnce'
  BY <1>1, <1>3 DEF PathInv, StreamInv, OpenedOnce, OpenComing
<1>7. EgressInv' /\ UpInv'
  BY <1>1, <1>2 DEF PathInv, StreamInv, EgressInv, UpInv, OpenComing, Continues
<1>8. DownInv'
  <2>1. CASE stream["client"] = "open"
    <3>1. /\ Continues(appGot, 0) /\ Continues(data["client"], Len(appGot))
          /\ stream["server"] = "open" => Len(appGot) + Len(data["client"]) = destSent
          /\ appGot \in Seq(Nat) /\ Len(appGot) \in Nat
      BY <1>1, <2>1, LenProperties DEF PathInv, StreamInv, DownInv, PathTypes
    <3>2. /\ Head(data["client"]) = Len(appGot) + 1
          /\ Continues(data'["client"], Len(appGot) + 1)
          /\ Len(data'["client"]) = Len(data["client"]) - 1 /\ Len(data["client"]) \in Nat
      BY <1>1, <1>2, <3>1, ContinuesTail, ZenonT(30)
    <3>3. Continues(appGot', 0) /\ Len(appGot') = Len(appGot) + 1
      <4>1. Head(data["client"]) = 0 + Len(appGot) + 1
        BY <3>1, <3>2
      <4> QED BY <1>1, <1>2, <2>1, <3>1, <4>1, ContinuesOne
    <3>4. stream["server"] = "open" => Len(appGot') + Len(data'["client"]) = destSent
      <4> DEFINE old == Len(data["client"])
                 new == Len(data'["client"])
      <4>1. /\ stream["server"] = "open" => Len(appGot) + old = destSent
            /\ Len(appGot') = Len(appGot) + 1 /\ new = old - 1
            /\ Len(appGot) \in Nat /\ old \in Nat
        BY <3>1, <3>2, <3>3
      <4> HIDE DEF old, new
      <4>2. stream["server"] = "open" => Len(appGot') + new = destSent
        BY <4>1
      <4> QED BY <4>2 DEF new
    <3> QED BY <1>1, <3>2, <3>3, <3>4 DEF DownInv, Continues
  <2>2. CASE stream["client"] # "open"
    BY <1>1, <2>2 DEF PathInv, StreamInv, DownInv, Continues
  <2> QED BY <2>1, <2>2
<1>9. ReplyInv'
  BY <1>1 DEF PathInv, StreamInv, ReplyInv
<1> QED BY <1>5, <1>6, <1>7, <1>8, <1>9 DEF PathInv, StreamInv

(* The server's close arrives. *)
LEMMA CloseDownStep ==
  ASSUME PathInv, CloseArrivesDown
  PROVE  PathInv'
<1>1. /\ PathTypes /\ control["client"] # <<>> /\ control' = Took(control, "client")
      /\ stream' = [stream EXCEPT !["client"] = "closed"]
      /\ UNCHANGED <<ask, sent, taken, stage, replies, appGot, alive, data, egress, pendingWrites,
                     destGot, destSent>>
  BY DEF PathInv, CloseArrivesDown, appVars
<1>2. /\ control' \in [Ends -> Seq(Packets)] /\ control'["server"] = control["server"]
      /\ stream' \in [Ends -> Streams] /\ stream'["client"] = "closed"
      /\ stream'["server"] = stream["server"]
  <2>1. /\ "client" \in Ends /\ Peer("client") = "server" /\ control \in [Ends -> Seq(Packets)]
        /\ stream \in [Ends -> Streams]
    BY <1>1 DEF Ends, Peer, PathTypes
  <2>2. control' \in [Ends -> Seq(Packets)] /\ control'["server"] = control["server"]
    BY <1>1, <2>1, TookIs
  <2> QED BY <1>1, <2>1, <2>2 DEF Streams, Ends
<1>3. stream["client"] # "none"
  <2>1. stream["client"] = "none" => control["client"] = <<>>
    BY DEF PathInv, StreamInv, OpenedOnce, Nothing, Ends
  <2> QED BY <1>1, <2>1
<1>4. PathTypes'
  BY <1>1, <1>2 DEF PathTypes
<1>5. OpenedOnce'
  BY <1>1, <1>2, <1>3 DEF PathInv, StreamInv, OpenedOnce, OpenComing, Ends
<1>6. EgressInv' /\ UpInv'
  BY <1>1, <1>2 DEF PathInv, StreamInv, EgressInv, UpInv, OpenComing, Continues
<1>7. DownInv' /\ ReplyInv'
  BY <1>1, <1>2 DEF PathInv, StreamInv, DownInv, ReplyInv, Continues
<1> QED BY <1>4, <1>5, <1>6, <1>7 DEF PathInv, StreamInv

(* What is left of a wire when the mux of e closes. *)
Prefixes(s) == {SubSeq(s, 1, n) : n \in 0..Len(s)}

LEMMA CutIs ==
  ASSUME NEW S, NEW wire \in [Ends -> Seq(S)], NEW e \in Ends, NEW d \in Ends, d # e,
         NEW w \in Cut(wire, e)
  PROVE  /\ w \in [Ends -> Seq(S)] /\ w[e] = <<>>
         /\ w[d] \in Prefixes(wire[d])
<1>1. d = Peer(e) /\ wire[d] \in Seq(S)
  BY DEF Peer, Ends
<1>2. PICK n \in 0..Len(wire[d]) : w = [wire EXCEPT ![e] = <<>>, ![d] = SubSeq(@, 1, n)]
  BY <1>1 DEF Cut
<1>3. SubSeq(wire[d], 1, n) \in Seq(S)
  <2>1. Len(wire[d]) \in Nat /\ n \in Nat /\ n <= Len(wire[d])
    BY <1>1, LenProperties
  <2>2. \A i \in 1..n : wire[d][i] \in S
    BY <1>1, <2>1, ElementOfSeq
  <2> QED BY <1>1, <2>1, <2>2, SubSeqProperties
<1>4. <<>> \in Seq(S)
  BY EmptySeq
<1> QED BY <1>2, <1>3, <1>4 DEF Prefixes

LEMMA NothingLeft == Prefixes(<<>>) = {<<>>}
<1>1. Len(<<>>) = 0 /\ 0..0 = {0}
  OBVIOUS
<1>2. SubSeq(<<>>, 1, 0) = <<>>
  BY SubSeqEmpty
<1> QED BY <1>1, <1>2 DEF Prefixes

(* The first packets of some. *)
LEMMA FirstPackets ==
  ASSUME NEW q \in Seq(Packets), NEW n \in 0..Len(q), \A i \in 2..Len(q) : q[i] = "close"
  PROVE  /\ \A i \in 2..Len(SubSeq(q, 1, n)) : SubSeq(q, 1, n)[i] = "close"
         /\ SubSeq(q, 1, n) # <<>> /\ SubSeq(q, 1, n)[1] = "open"
              => q # <<>> /\ q[1] = "open"
<1>1. Len(q) \in Nat /\ n \in Nat /\ n <= Len(q)
  BY LenProperties
<1>2. \A i \in 1..n : q[i] \in Packets
  BY <1>1, ElementOfSeq
<1>3. /\ SubSeq(q, 1, n) \in Seq(Packets) /\ Len(SubSeq(q, 1, n)) = n
      /\ \A i \in 1..n : SubSeq(q, 1, n)[i] = q[i]
  BY <1>1, <1>2, SubSeqProperties
<1>4. (q # <<>> <=> Len(q) # 0) /\ (SubSeq(q, 1, n) # <<>> <=> n # 0)
  BY <1>3, EmptySeq
<1> QED BY <1>1, <1>3, <1>4

(* The mux of the client closes. *)
LEMMA ClientClosesStep ==
  ASSUME PathInv, MuxCloses("client")
  PROVE  PathInv'
<1>1. /\ PathTypes /\ "client" \in Ends /\ "server" \in Ends
      /\ alive' = [alive EXCEPT !["client"] = FALSE]
      /\ stream' = [stream EXCEPT !["client"] = IF @ = "open" THEN "closed" ELSE @]
      /\ control' \in Cut(control, "client") /\ data' \in Cut(data, "client")
      /\ UNCHANGED <<ask, sent, taken, stage, replies, appGot, egress, pendingWrites, destGot, destSent>>
  BY DEF PathInv, MuxCloses, appVars, Ends
<1>2. /\ alive' \in [Ends -> BOOLEAN] /\ stream' \in [Ends -> Streams]
      /\ alive'["server"] = alive["server"] /\ stream'["server"] = stream["server"]
      /\ stream'["client"] # "open"
      /\ (stream'["client"] = "none") <=> (stream["client"] = "none")
  BY <1>1 DEF PathTypes, Streams, Ends
<1>3. /\ control' \in [Ends -> Seq(Packets)] /\ data' \in [Ends -> Seq(Nat)]
      /\ control'["client"] = <<>> /\ data'["client"] = <<>>
      /\ control'["server"] \in Prefixes(control["server"])
      /\ data'["server"] \in Prefixes(data["server"])
  <2>1. /\ control \in [Ends -> Seq(Packets)] /\ data \in [Ends -> Seq(Nat)]
        /\ control' \in Cut(control, "client") /\ data' \in Cut(data, "client")
        /\ "client" # "server" /\ "client" \in Ends /\ "server" \in Ends
    BY <1>1 DEF PathTypes
  <2>2. /\ control' \in [Ends -> Seq(Packets)] /\ control'["client"] = <<>>
        /\ control'["server"] \in Prefixes(control["server"])
    BY <2>1, CutIs
  <2>3. /\ data' \in [Ends -> Seq(Nat)] /\ data'["client"] = <<>>
        /\ data'["server"] \in Prefixes(data["server"])
    BY <2>1, CutIs
  <2> QED BY <2>2, <2>3
<1>4. /\ \A i \in 2..Len(control'["server"]) : control'["server"][i] = "close"
      /\ OpenComing' => OpenComing
  <2>1. PICK n \in 0..Len(control["server"]) : control'["server"] = SubSeq(control["server"], 1, n)
    BY <1>3 DEF Prefixes
  <2>2. /\ control["server"] \in Seq(Packets)
        /\ \A i \in 2..Len(control["server"]) : control["server"][i] = "close"
    BY <1>1 DEF PathTypes, PathInv, StreamInv, OpenedOnce
  <2>3. LET q == SubSeq(control["server"], 1, n)
        IN  /\ \A i \in 2..Len(q) : q[i] = "close"
            /\ q # <<>> /\ q[1] = "open" => control["server"] # <<>> /\ control["server"][1] = "open"
    BY <2>2, FirstPackets
  <2> QED BY <2>1, <2>3 DEF OpenComing
<1>5. stream["client"] = "none" => control' = Nothing /\ data' = Nothing
  <2> SUFFICES ASSUME stream["client"] = "none" PROVE control' = Nothing /\ data' = Nothing
    OBVIOUS
  <2>1. control["server"] = <<>> /\ data["server"] = <<>>
    BY <1>1 DEF PathInv, StreamInv, OpenedOnce, Nothing
  <2>2. Prefixes(<<>>) = {<<>>}
    BY NothingLeft
  <2>3. control'["server"] = <<>> /\ data'["server"] = <<>>
    BY <1>3, <2>1, <2>2
  <2> QED BY <1>3, <2>3 DEF Nothing, Ends
<1>6. ASSUME stream["server"] = "open" \/ OpenComing
      PROVE  Continues(data'["server"], Len(destGot) + Len(pendingWrites))
  <2>1. PICK n \in 0..Len(data["server"]) : data'["server"] = SubSeq(data["server"], 1, n)
    BY <1>3 DEF Prefixes
  <2>2. Continues(data["server"], Len(destGot) + Len(pendingWrites))
    BY <1>6 DEF PathInv, StreamInv, UpInv
  <2>3. data["server"] \in Seq(Nat) /\ Len(destGot) + Len(pendingWrites) \in Nat
    <3>1. Len(destGot) \in Nat /\ Len(pendingWrites) \in Nat
      BY <1>1, LenProperties DEF PathTypes
    <3> QED BY <1>1, <3>1 DEF PathTypes
  <2>4. Continues(SubSeq(data["server"], 1, n), Len(destGot) + Len(pendingWrites))
    BY <2>2, <2>3, ContinuesPart
  <2> QED BY <2>1, <2>4
<1>7. PathTypes'
  BY <1>1, <1>2, <1>3 DEF PathTypes
<1>8. OpenedOnce'
  BY <1>1, <1>2, <1>3, <1>4, <1>5 DEF PathInv, StreamInv, OpenedOnce, Ends
<1>9. EgressInv'
  BY <1>1, <1>2 DEF PathInv, StreamInv, EgressInv
<1>10. UpInv'
  <2>1. Continues(destGot, 0) /\ (stream["server"] = "open" \/ OpenComing =>
                                    Continues(pendingWrites, Len(destGot)))
    BY DEF PathInv, StreamInv, UpInv
  <2> QED BY <1>1, <1>2, <1>4, <1>6, <2>1 DEF UpInv, Continues
<1>11. DownInv' /\ ReplyInv'
  BY <1>1, <1>2, <1>3 DEF PathInv, StreamInv, DownInv, ReplyInv, Continues
<1> QED BY <1>7, <1>8, <1>9, <1>10, <1>11 DEF PathInv, StreamInv

(* The mux of the server closes. *)
LEMMA ServerClosesStep ==
  ASSUME PathInv, MuxCloses("server")
  PROVE  PathInv'
<1>1. /\ PathTypes /\ "client" \in Ends /\ "server" \in Ends
      /\ alive' = [alive EXCEPT !["server"] = FALSE]
      /\ stream' = [stream EXCEPT !["server"] = IF @ = "open" THEN "closed" ELSE @]
      /\ control' \in Cut(control, "server") /\ data' \in Cut(data, "server")
      /\ UNCHANGED <<ask, sent, taken, stage, replies, appGot, destGot, destSent>>
      /\ IF stream["server"] = "open" THEN egress' = "closed" /\ pendingWrites' = <<>>
         ELSE UNCHANGED <<egress, pendingWrites>>
  BY DEF PathInv, MuxCloses, appVars, Ends, Dropped
<1>2. /\ alive' \in [Ends -> BOOLEAN] /\ stream' \in [Ends -> Streams]
      /\ alive'["client"] = alive["client"] /\ stream'["client"] = stream["client"]
      /\ stream'["server"] # "open"
      /\ (stream'["server"] = "none") <=> (stream["server"] = "none")
  BY <1>1 DEF PathTypes, Streams, Ends
<1>3. /\ control' \in [Ends -> Seq(Packets)] /\ data' \in [Ends -> Seq(Nat)]
      /\ control'["server"] = <<>> /\ data'["server"] = <<>>
      /\ control'["client"] \in Prefixes(control["client"])
      /\ data'["client"] \in Prefixes(data["client"])
  <2>1. /\ control \in [Ends -> Seq(Packets)] /\ data \in [Ends -> Seq(Nat)]
        /\ control' \in Cut(control, "server") /\ data' \in Cut(data, "server")
        /\ "client" # "server" /\ "client" \in Ends /\ "server" \in Ends
    BY <1>1 DEF PathTypes
  <2>2. /\ control' \in [Ends -> Seq(Packets)] /\ control'["server"] = <<>>
        /\ control'["client"] \in Prefixes(control["client"])
    BY <2>1, CutIs
  <2>3. /\ data' \in [Ends -> Seq(Nat)] /\ data'["server"] = <<>>
        /\ data'["client"] \in Prefixes(data["client"])
    BY <2>1, CutIs
  <2> QED BY <2>2, <2>3
<1>4. Prefixes(<<>>) = {<<>>}
  BY NothingLeft
<1>5. stream["client"] = "none" => control' = Nothing /\ data' = Nothing
  <2> SUFFICES ASSUME stream["client"] = "none" PROVE control' = Nothing /\ data' = Nothing
    OBVIOUS
  <2>1. control["client"] = <<>> /\ data["client"] = <<>>
    BY <1>1 DEF PathInv, StreamInv, OpenedOnce, Nothing
  <2>2. control'["client"] = <<>> /\ data'["client"] = <<>>
    BY <1>3, <1>4, <2>1
  <2> QED BY <1>3, <2>2 DEF Nothing, Ends
<1>6. stream["server"] = "none" => data'["client"] = <<>>
  <2>1. stream["server"] = "none" => data["client"] = <<>>
    BY DEF PathInv, StreamInv, OpenedOnce
  <2> QED BY <1>3, <1>4, <2>1
<1>7. ASSUME stream["client"] = "open"
      PROVE  Continues(data'["client"], Len(appGot))
  <2>1. PICK n \in 0..Len(data["client"]) : data'["client"] = SubSeq(data["client"], 1, n)
    BY <1>3 DEF Prefixes
  <2>2. Continues(data["client"], Len(appGot))
    BY <1>7 DEF PathInv, StreamInv, DownInv
  <2>3. data["client"] \in Seq(Nat) /\ Len(appGot) \in Nat
    BY <1>1, LenProperties DEF PathTypes
  <2>4. Continues(SubSeq(data["client"], 1, n), Len(appGot))
    BY <2>2, <2>3, ContinuesPart
  <2> QED BY <2>1, <2>4
<1>8. ~OpenComing'
  BY <1>3 DEF OpenComing
<1>9. /\ egress' \in Egresses /\ pendingWrites' \in Seq(Nat)
      /\ egress' \notin {"connecting", "connected"}
  BY <1>1, EmptySeq DEF PathTypes, Egresses, PathInv, StreamInv, EgressInv
<1>10. PathTypes'
  BY <1>1, <1>2, <1>3, <1>9 DEF PathTypes
<1>11. OpenedOnce'
  <2>1. \A i \in 2..Len(control'["server"]) : control'["server"][i] = "close"
    BY <1>3, EmptySeq
  <2>2. stream["server"] = "none" => pendingWrites' = <<>>
    BY <1>1 DEF PathInv, StreamInv, OpenedOnce
  <2> QED
    BY <1>1, <1>2, <1>5, <1>6, <1>8, <2>1, <2>2 DEF PathInv, StreamInv, OpenedOnce, Ends
<1>12. EgressInv'
  BY <1>2, <1>9 DEF EgressInv
<1>13. UpInv'
  BY <1>1, <1>2, <1>8 DEF PathInv, StreamInv, UpInv, Continues
<1>14. DownInv'
  <2>1. Continues(appGot, 0)
    BY DEF PathInv, StreamInv, DownInv
  <2> QED BY <1>1, <1>2, <1>7, <2>1 DEF DownInv, Continues
<1>15. ReplyInv'
  BY <1>1, <1>2 DEF PathInv, StreamInv, ReplyInv
<1> QED BY <1>10, <1>11, <1>12, <1>13, <1>14, <1>15 DEF PathInv, StreamInv

(* The pieces that follow the first i. *)
LEMMA PiecesAre ==
  ASSUME NEW i \in Nat, i >= 4, NEW n \in Nat
  PROVE  /\ PiecesFrom(i, n) \in Seq(Nat) /\ Len(PiecesFrom(i, n)) = n
         /\ Continues(PiecesFrom(i, n), i - 4)
<1>1. PiecesFrom(i, n) = [j \in 1..n |-> i + j - 4]
  BY DEF PiecesFrom, Piece
<1>2. \A j \in 1..n : i + j - 4 \in Nat
  OBVIOUS
<1>3. PiecesFrom(i, n) \in [1..n -> Nat]
  BY <1>1, <1>2
<1>4. PiecesFrom(i, n) \in Seq(Nat) /\ Len(PiecesFrom(i, n)) = n
  BY <1>3, LenProperties
<1>5. \A j \in 1..n : PiecesFrom(i, n)[j] = i - 4 + j
  BY <1>1
<1> QED BY <1>4, <1>5 DEF Continues

(* A chunk comes after the request. *)
LEMMA DataStep ==
  ASSUME PathInv, NEW n \in Nat, DataComes(n), taken' = taken + n,
         UNCHANGED <<appVars, appGot, alive>>
  PROVE  PathInv'
<1>1. /\ PathTypes /\ stage # "reading" /\ taken \in Nat
      /\ data' = IF stage = "relay" /\ stream["client"] = "open"
                   THEN Sent(data, "client", PiecesFrom(taken, n)) ELSE data
      /\ UNCHANGED <<ask, sent, stage, replies, appGot, alive, stream, control, egress,
                     pendingWrites, destGot, destSent>>
  BY DEF PathInv, PathTypes, DataComes, appVars
<1>2. CASE stream["client"] # "open"
  <2>1. data' = data
    BY <1>1, <1>2
  <2>2. PathTypes'
    BY <1>1, <2>1 DEF PathTypes
  <2>3. OpenedOnce' /\ EgressInv'
    BY <1>1, <1>2, <2>1 DEF PathInv, StreamInv, OpenedOnce, EgressInv, OpenComing
  <2>4. UpInv' /\ DownInv' /\ ReplyInv'
    BY <1>1, <1>2, <2>1 DEF PathInv, StreamInv, UpInv, DownInv, ReplyInv, OpenComing, Continues
  <2> QED BY <2>2, <2>3, <2>4 DEF PathInv, StreamInv
<1>3. CASE stream["client"] = "open"
  <2> DEFINE p == PiecesFrom(taken, n)
             q == data["server"]
  <2>1. stage = "relay" /\ taken >= 4 /\ alive["client"]
    BY <1>3 DEF PathInv, StreamInv, OpenedOnce, Ends
  <2>2. p \in Seq(Nat) /\ Len(p) = n /\ Continues(p, taken - 4)
    BY <1>1, <2>1, PiecesAre
  <2>3. data \in [Ends -> Seq(Nat)] /\ q \in Seq(Nat) /\ "server" \in Ends /\ "client" \in Ends
    BY <1>1 DEF PathTypes, Ends
  <2>4. data' = [data EXCEPT !["server"] = q \o p]
    BY <1>1, <1>3, <2>1 DEF Sent, Peer
  <2>5. q \o p \in Seq(Nat) /\ Len(q \o p) = Len(q) + n /\ Len(q) \in Nat
    BY <2>2, <2>3, ConcatProperties, LenProperties, ZenonT(30)
  <2>6. data' \in [Ends -> Seq(Nat)] /\ data'["client"] = data["client"] /\ data'["server"] = q \o p
    BY <2>3, <2>4, <2>5
  <2>7. PathTypes'
    BY <1>1, <2>6 DEF PathTypes
  <2>8. OpenedOnce' /\ EgressInv'
    BY <1>1, <1>3, <2>6 DEF PathInv, StreamInv, OpenedOnce, EgressInv, OpenComing
  <2>9. ASSUME stream["server"] = "open" \/ OpenComing
        PROVE  /\ Continues(q \o p, Len(destGot) + Len(pendingWrites))
               /\ Len(destGot) + Len(pendingWrites) + Len(q \o p) + 4 = taken + n
    <3> DEFINE m == Len(destGot) + Len(pendingWrites)
    <3>1. m \in Nat
      <4>1. Len(destGot) \in Nat /\ Len(pendingWrites) \in Nat
        BY <1>1, LenProperties DEF PathTypes
      <4> QED BY <4>1
    <3>2. Continues(q, m) /\ m + Len(q) + 4 = taken
      BY <1>3, <2>9 DEF PathInv, StreamInv, UpInv
    <3>3. taken - 4 = m + Len(q)
      <4> DEFINE l == Len(q)
      <4>1. l \in Nat /\ m + l + 4 = taken
        BY <2>5, <3>2
      <4> HIDE DEF l, m
      <4>2. taken - 4 = m + l
        BY <3>1, <4>1
      <4> QED BY <4>2 DEF l
    <3>4. Continues(p, m + Len(q))
      BY <2>2, <3>3
    <3> HIDE DEF p, q, m
    <3>5. Continues(q \o p, m)
      BY <2>2, <2>3, <3>1, <3>2, <3>4, ContinuesOn
    <3>6. m + Len(q \o p) + 4 = taken + n
      <4> DEFINE l == Len(q)
                 k == Len(q \o p)
      <4>1. l \in Nat /\ m + l + 4 = taken /\ k = l + n
        BY <2>5, <3>2
      <4> HIDE DEF l, k
      <4>2. m + k + 4 = taken + n
        BY <3>1, <4>1
      <4> QED BY <4>2 DEF k
    <3> QED BY <3>5, <3>6 DEF m
  <2> HIDE DEF p, q
  <2>10. UpInv'
    <3>1. /\ Continues(destGot, 0)
          /\ stream["server"] = "open" \/ OpenComing => Continues(pendingWrites, Len(destGot))
      BY DEF PathInv, StreamInv, UpInv
    <3>2. OpenComing' <=> OpenComing
      BY <1>1 DEF OpenComing
    <3> QED BY <1>1, <2>6, <2>9, <3>1, <3>2 DEF UpInv, Continues
  <2>11. DownInv' /\ ReplyInv'
    BY <1>1, <2>1, <2>6 DEF PathInv, StreamInv, DownInv, ReplyInv, Continues
  <2> QED BY <2>7, <2>8, <2>10, <2>11 DEF PathInv, StreamInv
<1> QED BY <1>2, <1>3

(* A step that only reads on, answers or ends, as long as no stream is open. *)
LEMMA AnswerStep ==
  ASSUME PathInv, stage = "reading", taken' \in Nat, stage' \in Stages, UNCHANGED tcpVars,
         UNCHANGED <<appVars, appGot, alive>>, ReplyInv'
  PROVE  PathInv'
<1>1. stream["client"] = "none" /\ stream["server"] = "none" /\ control = Nothing
  BY DEF PathInv, StreamInv, OpenedOnce
<1>2. PathTypes'
  BY DEF PathInv, PathTypes, tcpVars, appVars
<1>3. OpenedOnce' /\ EgressInv'
  BY <1>1 DEF PathInv, StreamInv, OpenedOnce, EgressInv, OpenComing, tcpVars
<1>4. UpInv' /\ DownInv'
  BY <1>1 DEF PathInv, StreamInv, UpInv, DownInv, OpenComing, tcpVars, Continues
<1> QED BY <1>2, <1>3, <1>4 DEF PathInv, StreamInv

LEMMA TwoReplies ==
  ASSUME NEW a, NEW b PROVE <<a>> \o <<b>> = <<a, b>>
<1>1. <<a>> \in Seq({a, b}) /\ b \in {a, b}
  OBVIOUS
<1>2. Append(<<a>>, b) = <<a>> \o <<b>>
  BY <1>1, AppendIsConcat
<1> DEFINE s == Append(<<a>>, b)
<1>3. s \in Seq({a, b}) /\ Len(s) = 2 /\ s[1] = a /\ s[2] = b
  <2>1. Len(<<a>>) = 1 /\ <<a>>[1] = a
    OBVIOUS
  <2> QED BY <1>1, <2>1, AppendProperties
<1> HIDE DEF s
<1>4. s \in [1..2 -> {a, b}]
  BY <1>3, LenProperties
<1>5. s = <<a, b>>
  BY <1>3, <1>4
<1> QED BY <1>2, <1>5 DEF s

(* A chunk comes while the request is read. *)
LEMMA ReadStep ==
  ASSUME PathInv, NEW n \in Nat \ {0}, RequestComes(n), taken' = taken + n,
         UNCHANGED <<appVars, appGot, alive>>
  PROVE  PathInv'
<1> DEFINE method == IF taken < 2 /\ taken + n >= 2 /\ ask # "bad version"
                       THEN <<"method">> ELSE replies
<1>1. /\ PathTypes /\ stage = "reading" /\ taken \in Nat /\ taken' \in Nat /\ ask \in Requests
      /\ appGot = <<>> /\ stream["client"] = "none" /\ stream["server"] = "none"
      /\ control = Nothing /\ data = Nothing /\ destGot = <<>> /\ pendingWrites = <<>>
      /\ destSent = 0 /\ UNCHANGED <<ask, sent, appGot, alive>>
  <2>1. stage = "reading"
    BY DEF RequestComes
  <2>2. /\ PathTypes /\ taken \in Nat /\ taken' \in Nat /\ ask \in Requests
        /\ UNCHANGED <<ask, sent, appGot, alive>>
    BY DEF PathInv, PathTypes, appVars
  <2> QED BY <2>1, <2>2 DEF PathInv, StreamInv, OpenedOnce
<1>2. /\ replies \in {<<>>, <<"method">>}
      /\ taken >= 2 /\ ask # "bad version" => replies = <<"method">>
      /\ ask = "bad version" => replies = <<>>
  BY <1>1 DEF PathInv, StreamInv, ReplyInv
<1>3. /\ method \in {<<>>, <<"method">>}
      /\ taken + n >= 2 /\ ask # "bad version" => method = <<"method">>
      /\ ask = "bad version" => method = <<>>
  <2>1. CASE taken < 2 /\ taken + n >= 2 /\ ask # "bad version"
    BY <2>1
  <2>2. CASE ~(taken < 2 /\ taken + n >= 2 /\ ask # "bad version")
    <3>1. method = replies
      BY <2>2
    <3>2. ASSUME taken + n >= 2, ask # "bad version" PROVE taken >= 2
      <4>1. ~(taken < 2)
        BY <2>2, <3>2
      <4> QED BY <1>1, <4>1
    <3> QED BY <1>2, <3>1, <3>2
  <2> QED BY <2>1, <2>2
<1>4. \/ taken + n < Decides /\ replies' = method /\ UNCHANGED <<stage, sock, tcpVars, udpVars>>
      \/ taken + n >= Decides /\ ask = "connect" /\ Connect(method, PiecesFrom(4, taken + n - 4))
      \/ taken + n >= Decides /\ ask = "udp" /\ Associate(method)
      \/ taken + n >= Decides /\ ask \notin {"connect", "udp"} /\ Refuse(method)
  BY DEF RequestComes
<1> HIDE DEF method
<1>5. /\ method \o <<"failure">> \in {<<"failure">>, <<"method", "failure">>}
      /\ method = <<"method">> => method \o <<"success">> = Succeeded
  <2>1. <<>> \o <<"failure">> = <<"failure">>
    BY ConcatEmptySeq
  <2>2. <<"method">> \o <<"failure">> = <<"method", "failure">>
    BY TwoReplies
  <2>3. <<"method">> \o <<"success">> = Succeeded
    BY TwoReplies DEF Succeeded
  <2> QED BY <1>3, <2>1, <2>2, <2>3
<1>6. CASE taken + n < Decides /\ replies' = method /\ UNCHANGED <<stage, sock, tcpVars, udpVars>>
  <2>1. ask # "bad version"
    <3>1. SUFFICES ASSUME ask = "bad version" PROVE FALSE
      OBVIOUS
    <3>2. Decides = 1
      BY <3>1 DEF Decides
    <3> QED BY <1>1, <1>6, <3>2
  <2>2. ReplyInv'
    BY <1>1, <1>3, <1>6, <2>1 DEF ReplyInv, Replies, tcpVars
  <2> QED BY <1>1, <1>6, <2>2, AnswerStep DEF Stages
<1>7. CASE taken + n >= Decides /\ ask = "udp" /\ Associate(method)
  <2>1. /\ stage' = "udp" /\ replies' = Succeeded /\ UNCHANGED tcpVars
    BY <1>1, <1>3, <1>5, <1>7 DEF Decides, Associate
  <2>2. ReplyInv'
    BY <1>1, <2>1 DEF ReplyInv, Replies, tcpVars
  <2> QED BY <1>1, <2>1, <2>2, AnswerStep DEF Stages
<1>8. CASE taken + n >= Decides /\ ask \notin {"connect", "udp"} /\ Refuse(method)
  <2>1. /\ stage' = "over" /\ replies' \in {method, method \o <<"failure">>} /\ UNCHANGED tcpVars
    BY <1>8 DEF Refuse
  <2>2. ReplyInv'
    BY <1>1, <1>3, <1>5, <2>1 DEF ReplyInv, Replies, tcpVars
  <2> QED BY <1>1, <2>1, <2>2, AnswerStep DEF Stages
<1>9. CASE /\ taken + n >= Decides /\ ask = "connect"
           /\ Connect(method, PiecesFrom(4, taken + n - 4))
  <2> DEFINE p == PiecesFrom(4, taken + n - 4)
  <2>1. taken + n >= 4 /\ taken + n - 4 \in Nat /\ method = <<"method">>
    BY <1>1, <1>3, <1>9 DEF Decides
  <2>2. p \in Seq(Nat) /\ Len(p) = taken + n - 4 /\ Continues(p, 0)
    <3>1. 4 - 4 = 0
      OBVIOUS
    <3> QED BY <2>1, <3>1, PiecesAre
  <2> HIDE DEF p
  <2>3. CASE ~alive["client"]
    <3>1. stage' = "over" /\ replies' = method \o <<"failure">> /\ UNCHANGED tcpVars
      BY <1>9, <2>3 DEF Connect
    <3>2. ReplyInv'
      BY <1>1, <1>5, <3>1 DEF ReplyInv, Replies, tcpVars
    <3> QED BY <1>1, <3>1, <3>2, AnswerStep DEF Stages
  <2>4. CASE alive["client"]
    <3>1. /\ stage' = "relay" /\ replies' = Succeeded
          /\ stream' = [stream EXCEPT !["client"] = "open"]
          /\ control' = Sent(control, "client", <<"open">>) /\ data' = Sent(data, "client", p)
          /\ UNCHANGED <<egress, pendingWrites, destGot, destSent>>
      BY <1>5, <1>9, <2>1, <2>4 DEF Connect, p
    <3>2. /\ stream' \in [Ends -> Streams] /\ stream'["client"] = "open"
          /\ stream'["server"] = "none"
      BY <1>1, <3>1 DEF PathTypes, Streams, Ends
    <3>3. /\ control' = [e \in Ends |-> IF e = "server" THEN <<"open">> ELSE <<>>]
          /\ data' = [e \in Ends |-> IF e = "server" THEN p ELSE <<>>]
      <4>1. <<>> \o <<"open">> = <<"open">> /\ <<>> \o p = p
        BY <2>2, ConcatEmptySeq
      <4> QED BY <1>1, <2>4, <3>1, <4>1 DEF Sent, Peer, Nothing, Ends
    <3>4. /\ control' \in [Ends -> Seq(Packets)] /\ control'["server"] = <<"open">>
          /\ control'["client"] = <<>>
      BY <3>3 DEF Packets, Ends
    <3>5. data' \in [Ends -> Seq(Nat)] /\ data'["server"] = p /\ data'["client"] = <<>>
      BY <2>2, <3>3, EmptySeq DEF Ends
    <3>6. PathTypes'
      BY <1>1, <3>1, <3>2, <3>4, <3>5 DEF PathTypes, Stages
    <3>7. OpenedOnce'
      BY <1>1, <2>1, <2>4, <3>1, <3>2, <3>4, <3>5 DEF OpenedOnce, Ends
    <3>8. EgressInv'
      BY <1>1, <3>1, <3>2 DEF PathInv, StreamInv, EgressInv
    <3>9. UpInv'
      <4>1. Len(<<>>) = 0 /\ Continues(<<>>, 0)
        BY EmptySeq DEF Continues
      <4>2. 0 + 0 + Len(p) + 4 = taken + n
        BY <1>1, <2>1, <2>2
      <4> QED BY <1>1, <2>2, <3>1, <3>5, <4>1, <4>2 DEF UpInv, Continues
    <3>10. DownInv' /\ ReplyInv'
      BY <1>1, <3>1, <3>2, <3>5, EmptySeq DEF DownInv, ReplyInv, Replies, Continues
    <3> QED BY <3>6, <3>7, <3>8, <3>9, <3>10 DEF PathInv, StreamInv
  <2> QED BY <2>3, <2>4
<1> QED BY <1>4, <1>6, <1>7, <1>8, <1>9

LEMMA ChunkStep ==
  ASSUME PathInv, FlowInv, NEW n \in 1..(sent - taken), ChunkArrives(n)
  PROVE  PathInv' /\ FlowInv'
<1>1. /\ taken' = taken + n /\ (RequestComes(n) \/ DataComes(n))
      /\ UNCHANGED <<appVars, appGot, alive>>
  BY DEF ChunkArrives
<1>2. n \in Nat \ {0}
  BY DEF PathInv, PathTypes
<1>3. CASE RequestComes(n)
  <2>1. UNCHANGED <<flow, flowsByKey>> /\ udp' \in {udp, "open"}
    BY <1>3 DEF RequestComes, Connect, Associate, Refuse, udpVars
  <2> QED BY <1>1, <1>2, <1>3, <2>1, ReadStep, OtherFlows
<1>4. CASE DataComes(n)
  <2>1. UNCHANGED <<flow, flowsByKey, udp>>
    BY <1>4 DEF DataComes, udpVars
  <2> QED BY <1>1, <1>2, <1>4, <2>1, DataStep, OtherFlows
<1> QED BY <1>1, <1>3, <1>4

LEMMA PathStep ==
  ASSUME PathInv, FlowInv, [Next]_vars
  PROVE  PathInv' /\ FlowInv'
<1> USE DEF appVars, tcpVars, udpVars
<1>1. alive \in [Ends -> BOOLEAN] /\ sent \in Nat /\ DOMAIN flow = 1..Len(flow)
  BY LenProperties DEF PathInv, PathTypes, FlowInv
<1>2. CASE AppSends
  <2>1. /\ UNCHANGED <<ask, taken, stage, replies, appGot, alive, tcpVars, flow, flowsByKey, udp>>
        /\ sent' \in Nat
    BY <1>1, <1>2 DEF AppSends
  <2> QED BY <2>1, QuietStep, OtherFlows
<1>3. CASE AppLeaves
  <2>1. UNCHANGED <<ask, sent, taken, stage, replies, appGot, alive, tcpVars, flow, flowsByKey, udp>>
    BY <1>3 DEF AppLeaves
  <2> QED BY <1>1, <2>1, QuietStep, OtherFlows
<1>4. CASE AppGone
  <2>1. CloseAll
    BY <1>4 DEF AppGone
  <2> QED BY <1>1, <1>4, <2>1, GoneStep, CloseAllStep
<1>5. CASE \E n \in 1..(sent - taken) : ChunkArrives(n)
  BY <1>5, ChunkStep
<1>6. CASE Connected
  <2>1. UNCHANGED <<flow, flowsByKey, udp>>
    BY <1>6 DEF Connected
  <2> QED BY <1>6, <2>1, ConnectedStep, OtherFlows
<1>7. CASE DestSends
  <2>1. UNCHANGED <<flow, flowsByKey, udp>>
    BY <1>7 DEF DestSends
  <2> QED BY <1>7, <2>1, DestSendsStep, OtherFlows
<1>8. CASE DestGone
  <2>1. UNCHANGED <<flow, flowsByKey, udp>>
    BY <1>8 DEF DestGone
  <2> QED BY <1>8, <2>1, DestGoneStep, OtherFlows
<1>9. CASE OpenArrives
  <2>1. UNCHANGED <<flow, flowsByKey, udp>>
    BY <1>9 DEF OpenArrives
  <2> QED BY <1>9, <2>1, OpenStep, OtherFlows
<1>10. CASE UpArrives
  <2>1. UNCHANGED <<flow, flowsByKey, udp>>
    BY <1>10 DEF UpArrives
  <2> QED BY <1>10, <2>1, UpStep, OtherFlows
<1>11. CASE CloseArrivesUp
  <2>1. UNCHANGED <<flow, flowsByKey, udp>>
    BY <1>11 DEF CloseArrivesUp
  <2> QED BY <1>11, <2>1, CloseUpStep, OtherFlows
<1>12. CASE DownArrives
  <2>1. UNCHANGED <<flow, flowsByKey, udp>>
    BY <1>12 DEF DownArrives
  <2> QED BY <1>12, <2>1, DownStep, OtherFlows
<1>13. CASE CloseArrivesDown
  <2>1. UNCHANGED <<flow, flowsByKey, udp>>
    BY <1>13 DEF CloseArrivesDown
  <2> QED BY <1>13, <2>1, CloseDownStep, OtherFlows
<1>14. ASSUME NEW i \in DOMAIN flow,
              FlowOpenArrives(i) \/ FlowCloseArrivesUp(i) \/ FlowCloseArrivesDown(i) \/ FlowExpires(i)
       PROVE  PathInv' /\ FlowInv'
  <2>1. UNCHANGED <<ask, sent, taken, stage, replies, appGot, alive, tcpVars>>
    BY <1>14 DEF FlowOpenArrives, FlowCloseArrivesUp, FlowCloseArrivesDown, FlowExpires, Others
  <2> QED
    BY <1>1, <1>14, <2>1, QuietStep, FlowOpenStep, FlowCloseUpStep, FlowCloseDownStep, FlowExpiresStep
<1>15. ASSUME NEW k \in Keys, AppDatagram(k)
       PROVE  PathInv' /\ FlowInv'
  <2>1. UNCHANGED <<ask, sent, taken, stage, replies, appGot, alive, tcpVars>>
    BY <1>15 DEF AppDatagram
  <2> QED BY <1>1, <1>15, <2>1, QuietStep, DatagramStep
<1>16. ASSUME NEW e \in Ends, MuxCloses(e)
       PROVE  PathInv' /\ FlowInv'
  <2>1. CASE e = "client"
    BY <1>16, <2>1, ClientClosesStep, MuxClosesFlows
  <2>2. CASE e = "server"
    BY <1>16, <2>2, ServerClosesStep, MuxClosesFlows
  <2> QED BY <2>1, <2>2 DEF Ends
<1>17. CASE UNCHANGED vars
  <2>1. UNCHANGED <<ask, sent, taken, stage, replies, appGot, alive, tcpVars, flow, flowsByKey, udp>>
    BY <1>17 DEF vars
  <2> QED BY <1>1, <2>1, QuietStep, OtherFlows
<1>18. CASE Wire
  BY <1>9, <1>10, <1>11, <1>12, <1>13, <1>14, <1>18 DEF Wire
<1> QED
  BY <1>2, <1>3, <1>4, <1>5, <1>6, <1>7, <1>8, <1>14, <1>15, <1>16, <1>17, <1>18 DEF Next

-----------------------------------------------------------------------------
(* The theorems: of every behaviour of the connection, however its turns and
   the packets of its stream and flows are interleaved, and whoever goes
   first. *)

THEOREM PathInvariant == Spec => [](PathInv /\ FlowInv)
<1>1. PathInv /\ FlowInv /\ [Next]_vars => (PathInv /\ FlowInv)'
  BY PathStep
<1> QED BY <1>1, InitPath, PTL DEF Spec

(* The bytes of a stream arrive in order and without a gap, both ways, and
   the replies of SOCKS before them: handleConnect and bindEgress. *)
THEOREM InOrderBothWays == Spec => []BytesInOrder
BY PathInvariant, PathSafe, PTL

(* The server's sockets live as long as their streams and flows. *)
THEOREM SocketsFollow == Spec => []NoStraySocket
BY PathInvariant, PathSafe, PTL

(* The table of an association names its open flows and no others. *)
THEOREM TableFollows == Spec => []FlowsAgree
BY PathInvariant, PathSafe, PTL
=============================================================================
