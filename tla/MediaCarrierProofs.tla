------------------------- MODULE MediaCarrierProofs -------------------------
(***************************************************************************)
(* Proofs about the media carrier, for any number of ids, any capacity,    *)
(* any acknowledgement policy and any network: type correctness, in-order  *)
(* exactly-once delivery, the safety of acknowledgements and the           *)
(* refinement of OrderedChannel.  The last three assume that the message   *)
(* ids do not wrap (NoWrap).                                               *)
(***************************************************************************)
EXTENDS MediaCarrier, SequenceTheorems, TLAPS

(* Neither end sends as many messages as there are ids. *)
NoWrap == \A e \in Ends : MaxMsgs[e] < IdSpace

-----------------------------------------------------------------------------
(* Facts about the operators of the model. *)

LEMMA PeerFacts ==
  \A e \in Ends : Peer(e) \in Ends /\ Peer(e) # e /\ Peer(Peer(e)) = e
BY DEF Ends, Peer

(* nextU16 stays in the id space. *)
LEMMA NextIdType == \A i \in Ids : NextId(i) \in Ids
BY ConstantsAssumption DEF Ids, NextId

LEMMA IdAfterType == \A i \in Ids, k \in 0..IdSpace : IdAfter(i, k) \in Ids
BY ConstantsAssumption DEF Ids, IdAfter

LEMMA NoIdle == Idle.count = 0 /\ NoFrag.seq = 0 /\ NoFrag \notin Frags
BY DEF Idle, NoFrag, Frags, Ids

(* A function on an initial segment of the naturals is a sequence. *)
LEMMA FunctionIsSeq ==
  ASSUME NEW S, NEW n \in Nat, NEW f \in [1..n -> S]
  PROVE  f \in Seq(S) /\ Len(f) = n
OBVIOUS

(* Remembering a sequence number keeps a sequence of ids. *)
LEMMA RememberType ==
  ASSUME NEW s \in Seq(Ids), NEW q \in Ids
  PROVE  Remember(s, q) \in Seq(Ids)
<1> DEFINE t == Append(s, q)
<1>1. t \in Seq(Ids) /\ Len(t) = Len(s) + 1
  OBVIOUS
<1>2. t # <<>>
  BY <1>1, EmptySeq, LenProperties
<1>3. Tail(t) \in Seq(Ids)
  BY <1>1, <1>2, HeadTailProperties
<1> QED BY <1>1, <1>3 DEF Remember

(* Ageing a pending fragment, and advancing a call, keep their types. *)
LEMMA AgeType ==
  \A p \in Pendings, a \in {"new", "fresh", "due"} : [p EXCEPT !.age = a] \in Pendings
BY DEF Pendings

LEMMA CallStep ==
  \A c \in [n : Nat, id : Ids, count : Sizes, next : Nat] :
    [c EXCEPT !.next = @ + 1] \in Calls
<1> SUFFICES ASSUME NEW c \in [n : Nat, id : Ids, count : Sizes, next : Nat]
             PROVE  [c EXCEPT !.next = @ + 1] \in [n : Nat, id : Ids, count : Sizes, next : Nat]
  BY DEF Calls
<1>1. c.next + 1 \in Nat
  OBVIOUS
<1> QED BY <1>1

(* What a complete set of fragments is assembled into is a message. *)
LEMMA AssembledType ==
  ASSUME NEW parts \in SUBSET Frags, NEW count \in Sizes, IsComplete(parts, count)
  PROVE  Assembled(parts, count) \in Bodies
<1>0. count \in Nat
  BY ConstantsAssumption
<1>1. ASSUME NEW i \in 1..count
      PROVE  (CHOOSE g \in parts : g.idx = i - 1).payload \in Nat \X Nat
  <2>0. i - 1 \in 0..(count - 1)
    BY <1>0
  <2>1. PICK g \in parts : g.idx = i - 1
    BY <2>0 DEF IsComplete
  <2>2. (CHOOSE h \in parts : h.idx = i - 1) \in parts
    BY <2>1
  <2> QED BY <2>2 DEF Frags
<1>2. Assembled(parts, count) \in [1..count -> Nat \X Nat]
  BY <1>1 DEF Assembled
<1> QED BY <1>0, <1>2, FunctionIsSeq DEF Bodies

(* Handing messages over keeps the types of the variables it writes. *)
LEMMA HandOverType ==
  ASSUME TypeOK, NEW e \in Ends, NEW done \in SUBSET Messages, HandOver(e, done)
  PROVE  /\ completed' \in [Ends -> SUBSET Messages]
         /\ expected' \in [Ends -> Ids]
         /\ delivered' \in [Ends -> Seq(Bodies)]
<1>1. PICK k \in 0..IdSpace :
         /\ Ready(e, done, k)
         /\ completed' = [completed EXCEPT ![e] =
              {m \in done : \A j \in 0..(k - 1) : m.msg # IdAfter(expected[e], j)}]
         /\ delivered' = [delivered EXCEPT ![e] =
              @ \o [j \in 1..k |->
                (CHOOSE m \in done : m.msg = IdAfter(expected[e], j - 1)).body]]
         /\ expected' = [expected EXCEPT ![e] = IdAfter(@, k)]
  BY DEF HandOver
<1> DEFINE run == [j \in 1..k |->
             (CHOOSE m \in done : m.msg = IdAfter(expected[e], j - 1)).body]
<1>2. run \in [1..k -> Bodies]
  <2>1. SUFFICES ASSUME NEW j \in 1..k
                 PROVE (CHOOSE m \in done : m.msg = IdAfter(expected[e], j - 1)).body \in Bodies
    OBVIOUS
  <2>2. j - 1 \in 0..(k - 1)
    BY ConstantsAssumption
  <2>3. PICK m \in done : m.msg = IdAfter(expected[e], j - 1)
    BY <1>1, <2>2 DEF Ready
  <2>4. (CHOOSE h \in done : h.msg = IdAfter(expected[e], j - 1)) \in done
    BY <2>3
  <2> QED BY <2>4 DEF Messages
<1>3. run \in Seq(Bodies)
  <2>1. k \in Nat
    BY ConstantsAssumption
  <2> HIDE DEF run
  <2> QED BY <1>2, <2>1, FunctionIsSeq
<1>4. completed' \in [Ends -> SUBSET Messages]
  BY <1>1 DEF TypeOK
<1>5. expected' \in [Ends -> Ids]
  BY <1>1, IdAfterType DEF TypeOK
<1>6. delivered[e] \o run \in Seq(Bodies)
  <2> HIDE DEF run
  <2> QED BY <1>3, ConcatProperties DEF TypeOK
<1>7. delivered' \in [Ends -> Seq(Bodies)]
  <2>1. delivered' = [delivered EXCEPT ![e] = delivered[e] \o run]
    BY <1>1
  <2> HIDE DEF run
  <2> QED BY <1>6, <2>1 DEF TypeOK
<1> QED BY <1>4, <1>5, <1>7

(* What bufferCompletedMessage and rememberSeq do keeps the types. *)
LEMMA ReceiveFragmentType ==
  ASSUME TypeOK, NEW e \in Ends, NEW f \in Frags, ReceiveFragment(e, f)
  PROVE  /\ lastAckSeq' \in [Ends -> 0..IdSpace]
         /\ ackRepeats' \in [Ends -> [Ids -> Nat]]
         /\ seen' \in [Ends -> Seq(Ids)]
         /\ partial' \in [Ends -> SUBSET Frags]
         /\ completed' \in [Ends -> SUBSET Messages]
         /\ expected' \in [Ends -> Ids]
         /\ delivered' \in [Ends -> Seq(Bodies)]
<1> DEFINE parts == Collected(e, f)
<1>1. f.seq \in Ids /\ f.count \in Sizes /\ f.msg \in Ids
  BY DEF Frags
<1>2. lastAckSeq' \in [Ends -> 0..IdSpace]
  BY <1>1, SMTT(30) DEF ReceiveFragment, TypeOK, Ids
<1>3. ackRepeats' \in [Ends -> [Ids -> Nat]]
  BY <1>1, ConstantsAssumption DEF ReceiveFragment, TypeOK
<1>4. parts \in SUBSET Frags /\ SameMessage(e, f) \subseteq Frags
  BY DEF Collected, SameMessage, TypeOK
<1>5. CASE UNCHANGED receiverVars
  BY <1>2, <1>3, <1>5 DEF receiverVars, TypeOK
<1>6. CASE ~UNCHANGED receiverVars
  <2>1. seen' = [seen EXCEPT ![e] = Remember(@, f.seq)]
    BY <1>6 DEF ReceiveFragment
  <2>2. seen' \in [Ends -> Seq(Ids)]
    BY <2>1, <1>1, RememberType DEF TypeOK
  <2>3. CASE /\ ~IsComplete(parts, f.count)
             /\ partial' = [partial EXCEPT ![e] = (@ \ SameMessage(e, f)) \cup parts]
             /\ UNCHANGED <<completed, expected, delivered>>
    <3> HIDE DEF parts
    <3>1. partial' \in [Ends -> SUBSET Frags]
      BY <2>3, <1>4 DEF TypeOK
    <3> QED BY <1>2, <1>3, <2>2, <2>3, <3>1 DEF TypeOK
  <2>4. CASE /\ IsComplete(parts, f.count)
             /\ partial' = [partial EXCEPT ![e] = @ \ SameMessage(e, f)]
             /\ HandOver(e, {m \in completed[e] : m.msg # f.msg}
                  \cup {[msg |-> f.msg, body |-> Assembled(parts, f.count)]})
    <3> HIDE DEF parts
    <3>1. partial' \in [Ends -> SUBSET Frags]
      BY <2>4 DEF TypeOK
    <3>2. Assembled(parts, f.count) \in Bodies
      BY <2>4, <1>1, <1>4, AssembledType
    <3>3. {m \in completed[e] : m.msg # f.msg}
            \cup {[msg |-> f.msg, body |-> Assembled(parts, f.count)]} \in SUBSET Messages
      BY <3>2, <1>1 DEF TypeOK, Messages
    <3> QED BY <1>2, <1>3, <2>2, <3>1, <3>3, <2>4, HandOverType
  <2> QED BY <1>6, <2>3, <2>4 DEF ReceiveFragment
<1> QED BY <1>5, <1>6

-----------------------------------------------------------------------------
(* Type correctness. *)

LEMMA InitType == Init => TypeOK
BY ConstantsAssumption DEF Init, TypeOK, Ids, Calls, Idle

LEMMA NextType == TypeOK /\ [Next]_vars => TypeOK'
<1> SUFFICES ASSUME TypeOK, [Next]_vars PROVE TypeOK'
  OBVIOUS
<1> USE DEF TypeOK
<1>1. ASSUME NEW e \in Ends, Send(e) PROVE TypeOK'
  <2> USE <1>1 DEF Send
  <2>1. nextMsgId' \in [Ends -> Ids]
    BY NextIdType
  <2>2. CASE UNCHANGED <<log, sending>>
    BY <2>1, <2>2 DEF receiverVars, ackVars
  <2>3. CASE ~UNCHANGED <<log, sending>>
    <3>1. PICK c \in Sizes :
             /\ log' = [log EXCEPT ![e] = Append(@, c)]
             /\ sending' = [sending EXCEPT ![e] =
                  [n |-> Len(log[e]) + 1, id |-> nextMsgId[e], count |-> c, next |-> 0]]
             /\ UNCHANGED failed
      BY <2>3
    <3>2. log' \in [Ends -> Seq(Sizes)]
      BY <3>1
    <3>3. sending' \in [Ends -> Calls]
      BY <3>1, LenProperties DEF Calls
    <3> QED BY <2>1, <3>1, <3>2, <3>3 DEF receiverVars, ackVars
  <2> QED BY <2>2, <2>3
<1>2. ASSUME NEW e \in Ends, EnqueueFragment(e) PROVE TypeOK'
  <2> DEFINE c == sending[e]
             f == [seq |-> nextSeq[e], msg |-> c.id, idx |-> c.next, count |-> c.count,
                   payload |-> <<c.n, c.next>>]
  <2>1. c \in [n : Nat, id : Ids, count : Sizes, next : Nat]
    BY <1>2 DEF EnqueueFragment, Calls
  <2>2. f \in Frags
    BY <2>1 DEF Frags
  <2>3. pending' \in [Ends -> SUBSET Pendings]
    <3>1. [frag |-> f, order |-> nextOrder[e], age |-> "new"] \in Pendings
      BY <2>2 DEF Pendings
    <3>2. pending' = [pending EXCEPT ![e] =
            {p \in @ : p.frag.seq # f.seq}
              \cup {[frag |-> f, order |-> nextOrder[e], age |-> "new"]}]
      BY <1>2 DEF EnqueueFragment
    <3> HIDE DEF f
    <3> QED BY <3>1, <3>2
  <2>4. nextSeq' \in [Ends -> Ids] /\ nextOrder' \in [Ends -> Nat]
    BY <1>2, NextIdType DEF EnqueueFragment
  <2>5. sending' \in [Ends -> Calls]
    <3>1. [c EXCEPT !.next = @ + 1] \in Calls
      BY <2>1, CallStep
    <3> QED BY <1>2, <3>1 DEF EnqueueFragment, Calls
  <2> QED BY <1>2, <2>3, <2>4, <2>5 DEF EnqueueFragment, ackVars, receiverVars
<1>3. ASSUME NEW e \in Ends, NEW p \in pending[e], Age(e, p) PROVE TypeOK'
  <2>1. [p EXCEPT !.age = "due"] \in Pendings
    BY AgeType
  <2> QED BY <1>3, <2>1 DEF Age, senderVars, ackVars, receiverVars
<1>4. ASSUME NEW e \in Ends, NEW f \in Frames, Publish(e, f)
      PROVE  net' \in [Ends -> SUBSET Frames]
  BY <1>4, PeerFacts DEF Publish
<1>5. ASSUME NEW e \in Ends PROVE PiggybackAck(e) \in 0..IdSpace /\ QueuedAcks(e) \subseteq Ids
  BY <1>5, ConstantsAssumption DEF PiggybackAck, QueuedAcks
<1>6. ASSUME NEW e \in Ends, NEW p \in pending[e], TickData(e, p) PROVE TypeOK'
  <2>1. [p EXCEPT !.age = "fresh"] \in Pendings /\ p.frag \in Frags
    BY AgeType DEF Pendings
  <2>2. [kind |-> "data", ackSeq |-> PiggybackAck(e), acks |-> {}, frag |-> p.frag] \in Frames
    BY <2>1, <1>5 DEF Frames
  <2>3. net' \in [Ends -> SUBSET Frames]
    BY <1>6, <1>4, <2>2 DEF TickData
  <2> QED BY <1>6, <2>1, <2>3 DEF TickData, senderVars, ackVars, receiverVars
<1>7. ASSUME NEW e \in Ends, TickAck(e) PROVE TypeOK'
  <2>1. [kind |-> "ack", ackSeq |-> PiggybackAck(e), acks |-> QueuedAcks(e),
         frag |-> NoFrag] \in Frames
    BY <1>5 DEF Frames
  <2>2. net' \in [Ends -> SUBSET Frames]
    BY <1>7, <1>4, <2>1 DEF TickAck
  <2>3. ackRepeats' \in [Ends -> [Ids -> Nat]]
    <3>1. [s \in Ids |-> IF ackRepeats[e][s] > 0 THEN ackRepeats[e][s] - 1 ELSE 0]
            \in [Ids -> Nat]
      <4>1. ackRepeats[e] \in [Ids -> Nat]
        OBVIOUS
      <4> QED BY <4>1
    <3> QED BY <1>7, <3>1 DEF TickAck
  <2> QED BY <1>7, <2>2, <2>3 DEF TickAck, senderVars, receiverVars
<1>8. ASSUME NEW e \in Ends, TickIdle(e) PROVE TypeOK'
  <2>1. [kind |-> "ack", ackSeq |-> PiggybackAck(e), acks |-> {}, frag |-> NoFrag] \in Frames
    BY <1>5 DEF Frames
  <2>2. net' \in [Ends -> SUBSET Frames]
    BY <1>8, <1>4, <2>1 DEF TickIdle
  <2> QED BY <1>8, <2>2 DEF TickIdle, senderVars, ackVars, receiverVars
<1>9. ASSUME NEW e \in Ends, Close(e) PROVE TypeOK'
  <2>1. Idle \in Calls
    BY DEF Calls
  <2> QED BY <1>9, <2>1 DEF Close, receiverVars
<1>10. ASSUME NEW e \in Ends, NEW f \in net[e], Receive(e, f) PROVE TypeOK'
  <2>1. net' \in [Ends -> SUBSET Frames]
    <3>1. net' = net \/ net' = [net EXCEPT ![e] = @ \ {f}]
      BY <1>10 DEF Receive
    <3>2. net[e] \ {f} \in SUBSET Frames
      OBVIOUS
    <3>3. [net EXCEPT ![e] = net[e] \ {f}] \in [Ends -> SUBSET Frames]
      BY <3>2
    <3> QED BY <3>1, <3>3
  <2>2. CASE closed[e] /\ UNCHANGED <<pending, ackVars, receiverVars>>
    BY <1>10, <2>1, <2>2 DEF Receive, senderVars, ackVars, receiverVars
  <2>3. CASE pending' = [pending EXCEPT ![e] = Unacked(e, f)]
    <3>1. pending' \in [Ends -> SUBSET Pendings]
      BY <2>3 DEF Unacked
    <3>2. CASE UNCHANGED <<ackVars, receiverVars>>
      BY <1>10, <2>1, <3>1, <3>2 DEF Receive, senderVars, ackVars, receiverVars
    <3>3. CASE f.kind = "data" /\ ReceiveFragment(e, f.frag)
      <4>1. f.frag \in Frags
        BY <3>3 DEF Frames
      <4> QED BY <1>10, <2>1, <3>1, <3>3, <4>1, ReceiveFragmentType DEF Receive, senderVars
    <3> QED BY <1>10, <2>3, <3>2, <3>3 DEF Receive, ackVars, receiverVars
  <2> QED BY <1>10, <2>2, <2>3 DEF Receive
<1>11. ASSUME NEW e \in Ends, NEW f \in net[e], Lose(e, f) PROVE TypeOK'
  BY <1>11 DEF Lose, senderVars, ackVars, receiverVars
<1>12. CASE UNCHANGED vars
  BY <1>12 DEF vars, senderVars, ackVars, receiverVars
<1> QED
  BY <1>1, <1>2, <1>3, <1>6, <1>7, <1>8, <1>9, <1>10, <1>11, <1>12 DEF Next

(* The state of the carrier has the types the code gives it: ids stay in
   1..65535 across the wrap of nextU16, and only whole messages are ever
   completed or handed over. *)
THEOREM TypeCorrect == Spec => []TypeOK
BY InitType, NextType, PTL DEF Spec

-----------------------------------------------------------------------------
(* In-order delivery.  CarrierInv is inductive as long as ids do not wrap:
   fragments describe the message they were cut from wherever they are, so a
   complete set of them is that message, and since every message waiting at
   a receiver has an id its peer has used, the run that is handed over never
   reaches past what was sent. *)

(* A longer log changes nothing about the messages it already had. *)
LEMMA Appended ==
  ASSUME TypeOK, NEW e \in Ends, NEW c \in Sizes,
         log' = [log EXCEPT ![e] = Append(@, c)]
  PROVE  /\ Len(log'[e]) = Len(log[e]) + 1 /\ log'[e][Len(log[e]) + 1] = c
         /\ \A x \in Ends : \A n \in 1..Len(log[x]) :
              /\ n \in 1..Len(log'[x]) /\ log'[x][n] = log[x][n]
              /\ Message(x, n)' = Message(x, n)
         /\ \A x \in Ends : x # e => log'[x] = log[x]
         /\ \A x \in Ends : Len(log[x]) \in Nat /\ Len(log'[x]) \in Nat
<1>1. log \in [Ends -> Seq(Sizes)]
  BY DEF TypeOK
<1>2. log'[e] = Append(log[e], c) /\ \A x \in Ends : x # e => log'[x] = log[x]
  BY <1>1
<1>3. /\ Len(log'[e]) = Len(log[e]) + 1 /\ log'[e][Len(log[e]) + 1] = c
      /\ \A n \in 1..Len(log[e]) : log'[e][n] = log[e][n]
  BY <1>1, <1>2, AppendProperties
<1>4. \A x \in Ends : Len(log[x]) \in Nat
  BY <1>1, LenProperties
<1>5. \A x \in Ends : \A n \in 1..Len(log[x]) :
        n \in 1..Len(log'[x]) /\ log'[x][n] = log[x][n]
  BY <1>2, <1>3, <1>4
<1> QED BY <1>2, <1>3, <1>4, <1>5 DEF Message

(* A complete set of truthful fragments of one message is that message. *)
LEMMA AssembledTruth ==
  ASSUME NEW x \in Ends, NEW n \in Nat, NEW parts, NEW count \in Nat,
         \A g \in parts : Truthful(x, g) /\ g.msg = n,
         count = log[x][n], IsComplete(parts, count)
  PROVE  Assembled(parts, count) = Message(x, n)
<1>1. ASSUME NEW i \in 1..count
      PROVE  (CHOOSE g \in parts : g.idx = i - 1).payload = <<n, i - 1>>
  <2>1. PICK g \in parts : g.idx = i - 1
    BY DEF IsComplete
  <2>2. /\ (CHOOSE h \in parts : h.idx = i - 1) \in parts
        /\ (CHOOSE h \in parts : h.idx = i - 1).idx = i - 1
    BY <2>1
  <2> QED BY <2>2 DEF Truthful
<1> QED BY <1>1 DEF Assembled, Message, Body

(* What is handed over, when every message waiting is one the peer sent. *)
LEMMA HandOverTruth ==
  ASSUME NoWrap, TypeOK, NEW x \in Ends, CallInv(x), HandOverInv(x),
         NEW done \in SUBSET Messages, HandOver(Peer(x), done),
         \A m \in done : m.msg \in 1..Len(log[x]) /\ m.body = Message(x, m.msg)
  PROVE  LET got == delivered'[Peer(x)]
         IN /\ expected'[Peer(x)] = Len(got) + 1 /\ Len(got) <= Len(log[x])
            /\ \A n \in 1..Len(got) : got[n] = Message(x, n)
            /\ completed'[Peer(x)] \subseteq done
            /\ \A m \in done : m \in completed'[Peer(x)] \/ m.msg <= Len(got)
            /\ Len(delivered[Peer(x)]) <= Len(got)
            /\ delivered'[x] = delivered[x] /\ expected'[x] = expected[x]
            /\ completed'[x] = completed[x]
<1> DEFINE r == Peer(x)
           d == Len(delivered[r])
<1>1. PICK k \in 0..IdSpace :
         /\ Ready(r, done, k)
         /\ completed' = [completed EXCEPT ![r] =
              {m \in done : \A j \in 0..(k - 1) : m.msg # IdAfter(expected[r], j)}]
         /\ delivered' = [delivered EXCEPT ![r] =
              @ \o [j \in 1..k |->
                (CHOOSE m \in done : m.msg = IdAfter(expected[r], j - 1)).body]]
         /\ expected' = [expected EXCEPT ![r] = IdAfter(@, k)]
  BY DEF HandOver
<1> DEFINE run == [j \in 1..k |->
             (CHOOSE m \in done : m.msg = IdAfter(expected[r], j - 1)).body]
<1>2. /\ IdSpace \in Nat /\ k \in Nat /\ d \in Nat /\ Len(log[x]) \in Nat
      /\ MaxMsgs[x] \in Nat /\ MaxMsgs[x] < IdSpace /\ Len(log[x]) <= MaxMsgs[x]
      /\ r \in Ends /\ r # x
  BY ConstantsAssumption, BoundsAssumption, PeerFacts, LenProperties
     DEF TypeOK, CallInv, NoWrap
<1>3. /\ expected[r] = d + 1 /\ d <= Len(log[x])
      /\ \A n \in 1..d : delivered[r][n] = Message(x, n)
  BY DEF HandOverInv
<1>4. \A j \in 0..(k - 1) : \E m \in done : m.msg = IdAfter(d + 1, j)
  BY <1>1, <1>3 DEF Ready
<1>5. d + k <= Len(log[x])
  <2> DEFINE L == Len(log[x])
  <2>1. L \in Nat /\ L < IdSpace /\ d <= L
    BY <1>2, <1>3
  <2>2. \A m \in done : m.msg <= L
    OBVIOUS
  <2> HIDE DEF d, L
  <2>3. SUFFICES ASSUME d + k > L PROVE FALSE
    BY <1>2, <2>1 DEF L
  <2>4. L - d \in 0..(k - 1) /\ IdAfter(d + 1, L - d) = L + 1
    BY <2>1, <2>3, <1>2 DEF IdAfter
  <2>5. PICK m \in done : m.msg = L + 1
    BY <2>4, <1>4
  <2> QED BY <2>1, <2>2, <2>5
<1>6. \A j \in 0..k : IdAfter(d + 1, j) = d + 1 + j
  <2> HIDE DEF d
  <2> QED BY <1>2, <1>5 DEF IdAfter
<1>7. \A j \in 1..k : run[j] = Message(x, d + j)
  <2>1. SUFFICES ASSUME NEW j \in 1..k
                 PROVE  (CHOOSE m \in done : m.msg = IdAfter(expected[r], j - 1)).body
                          = Message(x, d + j)
    OBVIOUS
  <2>2. j - 1 \in 0..(k - 1) /\ j - 1 \in 0..k /\ d + 1 + (j - 1) = d + j
    BY <1>2
  <2>3. IdAfter(expected[r], j - 1) = d + j
    BY <2>2, <1>3, <1>6
  <2>4. \E m \in done : m.msg = d + j
    BY <2>2, <2>3, <1>3, <1>4
  <2>5. (CHOOSE m \in done : m.msg = d + j) \in done
          /\ (CHOOSE m \in done : m.msg = d + j).msg = d + j
    BY <2>4
  <2> QED BY <2>3, <2>5
<1>8. run \in Seq(Bodies) /\ Len(run) = k
  <2>1. run \in [1..k -> Bodies]
    <3>1. SUFFICES ASSUME NEW j \in 1..k
                   PROVE (CHOOSE m \in done : m.msg = IdAfter(expected[r], j - 1)).body \in Bodies
      OBVIOUS
    <3>2. j - 1 \in 0..(k - 1)
      BY <1>2
    <3>3. \E m \in done : m.msg = IdAfter(expected[r], j - 1)
      BY <3>2, <1>3, <1>4
    <3> QED BY <3>3 DEF Messages
  <2> HIDE DEF run
  <2> QED BY <2>1, <1>2, FunctionIsSeq
<1>9. /\ delivered'[r] = delivered[r] \o run
      /\ expected'[r] = d + 1 + k
      /\ completed'[r] \subseteq done
      /\ delivered'[x] = delivered[x] /\ expected'[x] = expected[x]
      /\ completed'[x] = completed[x]
  <2> HIDE DEF run
  <2>1. k \in 0..k
    BY <1>2
  <2>2. delivered' = [delivered EXCEPT ![r] = delivered[r] \o run]
    BY <1>1 DEF run
  <2> QED BY <1>1, <1>2, <1>3, <1>6, <2>1, <2>2, ZenonT(30) DEF TypeOK
<1>10. /\ Len(delivered'[r]) = d + k
       /\ \A n \in 1..(d + k) :
            delivered'[r][n] = IF n <= d THEN delivered[r][n] ELSE run[n - d]
  <2> HIDE DEF run
  <2>1. delivered[r] \in Seq(Bodies)
    BY <1>2 DEF TypeOK
  <2>2. /\ Len(delivered[r] \o run) = d + k
        /\ \A n \in 1..(d + k) : (delivered[r] \o run)[n]
             = IF n <= d THEN delivered[r][n] ELSE run[n - d]
    BY <2>1, <1>8, ConcatProperties
  <2> QED BY <2>2, <1>9
<1>11. \A n \in 1..(d + k) : delivered'[r][n] = Message(x, n)
  <2> HIDE DEF run, d
  <2>1. SUFFICES ASSUME NEW n \in 1..(d + k) PROVE delivered'[r][n] = Message(x, n)
    OBVIOUS
  <2>2. CASE n <= d
    BY <2>2, <1>2, <1>3, <1>10, SMTT(30)
  <2>3. CASE n > d
    <3>1. n - d \in 1..k /\ d + (n - d) = n
      BY <2>3, <1>2
    <3>2. delivered'[r][n] = run[n - d] /\ run[n - d] = Message(x, d + (n - d))
      BY <2>3, <3>1, <1>2, <1>7, <1>10
    <3> QED BY <3>1, <3>2
  <2> QED BY <2>2, <2>3, <1>2
<1>12. /\ expected'[r] = Len(delivered'[r]) + 1 /\ Len(delivered'[r]) <= Len(log[x])
       /\ d <= Len(delivered'[r])
  <2> HIDE DEF d
  <2>1. /\ d + k + 1 = d + 1 + k /\ d <= d + k
    BY <1>2
  <2> QED BY <1>5, <1>9, <1>10, <2>1
<1>13. ASSUME NEW m \in done PROVE m \in completed'[r] \/ m.msg <= Len(delivered'[r])
  <2> HIDE DEF d, run
  <2>1. completed'[r] = {h \in done : \A j \in 0..(k - 1) : h.msg # IdAfter(expected[r], j)}
    BY <1>1, <1>2 DEF TypeOK
  <2>2. ASSUME NEW j \in 0..(k - 1), m.msg = IdAfter(expected[r], j)
        PROVE  m.msg <= Len(delivered'[r])
    <3>1. j \in 0..k /\ d + 1 + j <= d + k
      BY <1>2
    <3> QED BY <1>3, <1>6, <1>10, <2>2, <3>1
  <2> QED BY <2>1, <2>2
<1> QED BY <1>2, <1>9, <1>10, <1>11, <1>12, <1>13

LEMMA InitCarrierInv == Init => CarrierInv
BY BoundsAssumption, PeerFacts
   DEF Init, CarrierInv, CallInv, FragmentInv, HandOverInv

(* When the log does not change, each part of CarrierInv depends only on a
   few variables. *)
LEMMA SameLog ==
  ASSUME UNCHANGED log, NEW e \in Ends
  PROVE  /\ \A f : Truthful(e, f)' <=> Truthful(e, f)
         /\ \A n : Message(e, n)' = Message(e, n)
         /\ CallInv(e) /\ UNCHANGED <<failed, nextMsgId, sending>> => CallInv(e)'
         /\ HandOverInv(e) /\ UNCHANGED <<expected, delivered>> => HandOverInv(e)'
BY DEF Truthful, Message, CallInv, HandOverInv

(* A send() appends to the log and starts a call. *)
LEMMA SendInv ==
  ASSUME NoWrap, TypeOK, CarrierInv, NEW e \in Ends, Send(e)
  PROVE  CarrierInv'
<1> USE DEF CarrierInv
<1>1. /\ CallInv(e) /\ ~failed[e] /\ sending[e] = Idle /\ Len(log[e]) < MaxMsgs[e]
      /\ nextMsgId' = [nextMsgId EXCEPT ![e] = NextId(@)]
      /\ UNCHANGED <<pending, net, partial, completed, expected, delivered>>
  BY DEF Send, receiverVars
<1>2. CASE UNCHANGED <<log, sending>> /\ failed' = [failed EXCEPT ![e] = TRUE]
  <2>1. \A x \in Ends : CallInv(x)'
    BY <1>1, <1>2 DEF CallInv, TypeOK
  <2>2. \A x \in Ends : FragmentInv(x)'
    BY <1>1, <1>2, SameLog DEF FragmentInv
  <2> QED BY <1>1, <1>2, <2>1, <2>2, SameLog
<1>3. CASE ~UNCHANGED <<log, sending>>
  <2>1. PICK c \in Sizes :
           /\ log' = [log EXCEPT ![e] = Append(@, c)]
           /\ sending' = [sending EXCEPT ![e] =
                [n |-> Len(log[e]) + 1, id |-> nextMsgId[e], count |-> c, next |-> 0]]
           /\ UNCHANGED failed
    BY <1>3 DEF Send
  <2>2. /\ Len(log'[e]) = Len(log[e]) + 1 /\ log'[e][Len(log[e]) + 1] = c
        /\ \A x \in Ends : \A n \in 1..Len(log[x]) :
              /\ n \in 1..Len(log'[x]) /\ log'[x][n] = log[x][n]
              /\ Message(x, n)' = Message(x, n)
        /\ \A x \in Ends : x # e => log'[x] = log[x]
        /\ \A x \in Ends : Len(log[x]) \in Nat /\ Len(log'[x]) \in Nat
    BY <2>1, Appended
  <2>3. /\ c \in Nat /\ 0 \in 0..(c - 1)
        /\ MaxMsgs[e] \in Nat /\ MaxMsgs[e] < IdSpace /\ IdSpace \in Nat
    BY ConstantsAssumption, BoundsAssumption DEF NoWrap
  <2>4. nextMsgId[e] = Len(log[e]) + 1 /\ nextMsgId'[e] = Len(log'[e]) + 1
    <3>1. nextMsgId[e] = Len(log[e]) + 1 /\ nextMsgId'[e] = NextId(nextMsgId[e])
      BY <1>1 DEF CallInv, TypeOK
    <3> QED BY <3>1, <1>1, <2>2, <2>3 DEF NextId
  <2>5. CallInv(e)'
    <3>1. sending'[e] = [n |-> Len(log[e]) + 1, id |-> nextMsgId[e], count |-> c, next |-> 0]
      BY <2>1 DEF TypeOK
    <3>2. Len(log[e]) + 1 \in 1..Len(log'[e]) /\ Len(log'[e]) <= MaxMsgs[e]
      BY <1>1, <2>2, <2>3
    <3> QED BY <3>1, <3>2, <2>2, <2>3, <2>4 DEF CallInv
  <2>6. ASSUME NEW x \in Ends, x # e PROVE CallInv(x)'
    <3>1. /\ log'[x] = log[x] /\ sending'[x] = sending[x] /\ failed'[x] = failed[x]
          /\ nextMsgId'[x] = nextMsgId[x]
      BY <2>1, <2>2, <2>6, <1>1 DEF TypeOK
    <3> QED BY <3>1 DEF CallInv
  <2>7. ASSUME NEW x \in Ends, NEW f, Truthful(x, f) PROVE Truthful(x, f)'
    BY <2>2, <2>7 DEF Truthful
  <2>8. ASSUME NEW x \in Ends PROVE FragmentInv(x)'
    BY <1>1, <2>2, <2>7 DEF FragmentInv
  <2>9. ASSUME NEW x \in Ends PROVE HandOverInv(x)'
    <3>1. HandOverInv(x) /\ Len(log[x]) <= Len(log'[x]) /\ Len(delivered[Peer(x)]) \in Nat
      <4>1. Len(delivered[Peer(x)]) \in Nat
        BY PeerFacts, LenProperties DEF TypeOK
      <4>2. Len(log[x]) <= Len(log'[x])
        BY <2>2
      <4> QED BY <4>1, <4>2
    <3>2. \A n \in 1..Len(delivered[Peer(x)]) : n \in 1..Len(log[x])
      BY <3>1, <2>2 DEF HandOverInv
    <3> QED BY <1>1, <2>2, <3>1, <3>2 DEF HandOverInv
  <2> QED BY <2>5, <2>6, <2>8, <2>9
<1>4. UNCHANGED <<log, sending>> => failed' = [failed EXCEPT ![e] = TRUE]
  <2>1. SUFFICES ASSUME NEW c \in Sizes, log' = log,
                        log' = [log EXCEPT ![e] = Append(@, c)]
                 PROVE  FALSE
    BY DEF Send
  <2>2. Len(log'[e]) = Len(log[e]) + 1 /\ Len(log[e]) \in Nat
    BY <2>1, Appended
  <2> QED BY <2>1, <2>2
<1> QED BY <1>2, <1>3, <1>4

(* Only EnqueueFragment creates fragments, and it creates truthful ones. *)
LEMMA EnqueueInv ==
  ASSUME TypeOK, CarrierInv, NEW e \in Ends, EnqueueFragment(e)
  PROVE  CarrierInv'
<1> DEFINE c == sending[e]
           f == [seq |-> nextSeq[e], msg |-> c.id, idx |-> c.next, count |-> c.count,
                 payload |-> <<c.n, c.next>>]
<1> USE DEF CarrierInv
<1>1. /\ UNCHANGED <<failed, nextMsgId, log, net, partial, completed, expected, delivered>>
      /\ c # Idle
      /\ pending' = [pending EXCEPT ![e] = {p \in @ : p.frag.seq # f.seq}
            \cup {[frag |-> f, order |-> nextOrder[e], age |-> "new"]}]
      /\ sending' = [sending EXCEPT ![e] =
            IF c.next + 1 = c.count THEN Idle ELSE [c EXCEPT !.next = @ + 1]]
  BY DEF EnqueueFragment, receiverVars
<1>2. /\ c.n \in 1..Len(log[e]) /\ c.id = c.n /\ c.count = log[e][c.n]
      /\ c.next \in 0..(c.count - 1)
  BY <1>1 DEF CallInv
<1>3. Truthful(e, f)
  BY <1>2 DEF Truthful
<1>4. \A x \in Ends : \A p \in pending'[x] : Truthful(x, p.frag)
  <2> HIDE DEF f
  <2>1. \A x \in Ends : \A p \in pending[x] : Truthful(x, p.frag)
    BY DEF FragmentInv
  <2> QED BY <2>1, <1>1, <1>3 DEF TypeOK
<1>5. \A x \in Ends : FragmentInv(x)'
  BY <1>1, <1>4, SameLog DEF FragmentInv
<1>6. CallInv(e)'
  <2>1. c \in [n : Nat, id : Ids, count : Sizes, next : Nat]
    BY <1>1 DEF TypeOK, Calls
  <2>2. sending'[e] = IF c.next + 1 = c.count THEN Idle ELSE [c EXCEPT !.next = c.next + 1]
    BY <1>1 DEF TypeOK
  <2>3. CASE c.next + 1 = c.count
    BY <1>1, <2>2, <2>3 DEF CallInv
  <2>4. CASE c.next + 1 # c.count
    <3>1. [c EXCEPT !.next = c.next + 1]
            = [n |-> c.n, id |-> c.id, count |-> c.count, next |-> c.next + 1]
      BY <2>1
    <3>2. c.count \in Nat /\ c.next \in Nat
      BY <2>1, ConstantsAssumption
    <3>3. c.next + 1 \in 0..(c.count - 1)
      BY <3>2, <1>2, <2>4
    <3> HIDE DEF c
    <3>4. sending'[e] = [n |-> c.n, id |-> c.id, count |-> c.count, next |-> c.next + 1]
      BY <3>1, <2>2, <2>4
    <3> QED BY <1>1, <1>2, <3>3, <3>4 DEF CallInv
  <2> QED BY <2>3, <2>4
<1>7. ASSUME NEW x \in Ends, x # e PROVE CallInv(x)'
  <2>1. sending'[x] = sending[x]
    BY <1>1, <1>7 DEF TypeOK
  <2> QED BY <1>1, <2>1 DEF CallInv
<1> QED BY <1>1, <1>5, <1>6, <1>7, SameLog

(* What waits at a receiver once f has completed its message is what was sent. *)
LEMMA CompletedTruth ==
  ASSUME TypeOK, CarrierInv, NEW x \in Ends, NEW f \in Frags, Truthful(x, f),
         IsComplete(Collected(Peer(x), f), f.count)
  PROVE  LET done == {m \in completed[Peer(x)] : m.msg # f.msg}
                       \cup {[msg |-> f.msg, body |-> Assembled(Collected(Peer(x), f), f.count)]}
         IN /\ done \in SUBSET Messages
            /\ \A m \in done : m.msg \in 1..Len(log[x]) /\ m.body = Message(x, m.msg)
<1> DEFINE r == Peer(x)
           parts == Collected(r, f)
           new == [msg |-> f.msg, body |-> Assembled(parts, f.count)]
<1>1. r \in Ends
  BY PeerFacts
<1>2. /\ \A g \in partial[r] : Truthful(x, g)
      /\ \A m \in completed[r] : m.msg \in 1..Len(log[x]) /\ m.body = Message(x, m.msg)
  BY DEF CarrierInv, FragmentInv
<1>3. /\ parts \in SUBSET Frags
      /\ \A g \in parts : g = f \/ (g \in partial[r] /\ g.msg = f.msg)
  BY <1>1 DEF Collected, SameMessage, TypeOK
<1>4. \A g \in parts : Truthful(x, g) /\ g.msg = f.msg
  BY <1>2, <1>3
<1>5. f.count \in Sizes /\ f.msg \in Ids /\ f.count \in Nat /\ f.msg \in Nat
  <2>1. f.count \in Sizes /\ f.msg \in Ids
    BY DEF Frags
  <2>2. \A i \in Ids : i \in Nat
    BY ConstantsAssumption DEF Ids
  <2> QED BY <2>1, <2>2, ConstantsAssumption
<1>6. f.count = log[x][f.msg] /\ f.msg \in 1..Len(log[x])
  BY DEF Truthful
<1> HIDE DEF parts
<1>7. Assembled(parts, f.count) \in Bodies
  BY <1>3, <1>5, AssembledType DEF parts
<1>8. Assembled(parts, f.count) = Message(x, f.msg)
  BY <1>4, <1>5, <1>6, AssembledTruth DEF parts
<1>9. new \in Messages /\ new.msg = f.msg /\ new.body = Message(x, f.msg)
  BY <1>5, <1>7, <1>8 DEF Messages
<1>10. completed[r] \subseteq Messages
  BY <1>1 DEF TypeOK
<1> HIDE DEF new
<1> QED BY <1>2, <1>6, <1>9, <1>10 DEF new, parts

(* What arrives was published, so it is truthful. *)
LEMMA ReceiveFragmentInv ==
  ASSUME NoWrap, TypeOK, CarrierInv, NEW x \in Ends, NEW f \in Frags,
         Truthful(x, f), ReceiveFragment(Peer(x), f), UNCHANGED log
  PROVE  /\ \A g \in partial'[Peer(x)] : Truthful(x, g)
         /\ \A m \in completed'[Peer(x)] :
              m.msg \in 1..Len(log[x]) /\ m.body = Message(x, m.msg)
         /\ HandOverInv(x)' /\ Len(delivered[Peer(x)]) <= Len(delivered'[Peer(x)])
         /\ partial'[x] = partial[x] /\ completed'[x] = completed[x]
         /\ expected'[x] = expected[x] /\ delivered'[x] = delivered[x]
<1> DEFINE r == Peer(x)
           parts == Collected(r, f)
<1> USE DEF CarrierInv
<1>1. r \in Ends /\ r # x
  BY PeerFacts
<1>2. /\ \A g \in partial[r] : Truthful(x, g)
      /\ \A m \in completed[r] : m.msg \in 1..Len(log[x]) /\ m.body = Message(x, m.msg)
  BY DEF FragmentInv
<1>3. /\ parts \in SUBSET Frags /\ \A g \in parts : Truthful(x, g) /\ g.msg = f.msg
      /\ f.count \in Sizes /\ f.count \in Nat /\ f.msg \in Ids /\ f.msg \in Nat
  <2>1. /\ parts \in SUBSET Frags
        /\ \A g \in parts : g = f \/ (g \in partial[r] /\ g.msg = f.msg)
    BY <1>1 DEF Collected, SameMessage, TypeOK
  <2>2. f.count \in Sizes /\ f.msg \in Ids
    BY DEF Frags
  <2>3. f.count \in Nat /\ f.msg \in Nat
    <3>1. f.count \in Nat
      BY <2>2, ConstantsAssumption
    <3>2. \A i \in Ids : i \in Nat
      BY ConstantsAssumption DEF Ids
    <3> QED BY <2>2, <3>1, <3>2
  <2> QED BY <2>1, <2>2, <2>3, <1>2
<1>0. Len(delivered[r]) <= Len(delivered[r])
  BY <1>1, LenProperties DEF TypeOK
<1>4. CASE UNCHANGED receiverVars
  BY <1>0, <1>2, <1>4, SameLog DEF receiverVars
<1>5. CASE /\ partial' = [partial EXCEPT ![r] = (@ \ SameMessage(r, f)) \cup parts]
           /\ UNCHANGED <<completed, expected, delivered>>
  <2> HIDE DEF parts
  <2>1. \A g \in partial'[r] : Truthful(x, g)
    BY <1>1, <1>2, <1>3, <1>5 DEF TypeOK
  <2>2. partial'[x] = partial[x]
    BY <1>1, <1>5 DEF TypeOK
  <2> QED BY <1>0, <1>2, <1>5, <2>1, <2>2, SameLog
<1>6. CASE /\ IsComplete(parts, f.count)
           /\ partial' = [partial EXCEPT ![r] = @ \ SameMessage(r, f)]
           /\ HandOver(r, {m \in completed[r] : m.msg # f.msg}
                \cup {[msg |-> f.msg, body |-> Assembled(parts, f.count)]})
  <2> DEFINE new == [msg |-> f.msg, body |-> Assembled(parts, f.count)]
             done == {m \in completed[r] : m.msg # f.msg} \cup {new}
  <2> HIDE DEF parts
  <2>1. \A g \in partial'[r] : Truthful(x, g)
    BY <1>1, <1>2, <1>6 DEF TypeOK
  <2>2. partial'[x] = partial[x]
    BY <1>1, <1>6 DEF TypeOK
  <2>4. /\ done \in SUBSET Messages
        /\ \A m \in done : m.msg \in 1..Len(log[x]) /\ m.body = Message(x, m.msg)
    BY <1>6, CompletedTruth DEF parts
  <2>5. HandOver(Peer(x), done)
    BY <1>6
  <2> HIDE DEF done
  <2>6. LET got == delivered'[r]
        IN /\ expected'[r] = Len(got) + 1 /\ Len(got) <= Len(log[x])
           /\ \A n \in 1..Len(got) : got[n] = Message(x, n)
           /\ completed'[r] \subseteq done /\ Len(delivered[r]) <= Len(got)
           /\ delivered'[x] = delivered[x] /\ expected'[x] = expected[x]
           /\ completed'[x] = completed[x]
    BY <2>4, <2>5, HandOverTruth
  <2>7. HandOverInv(x)'
    BY <2>6, SameLog DEF HandOverInv
  <2> QED BY <2>1, <2>2, <2>4, <2>6, <2>7
<1> QED BY <1>4, <1>5, <1>6 DEF ReceiveFragment

LEMMA ReceiveInv ==
  ASSUME NoWrap, TypeOK, CarrierInv, NEW e \in Ends, NEW f \in net[e], Receive(e, f)
  PROVE  CarrierInv'
<1> DEFINE x == Peer(e)
<1> USE DEF CarrierInv
<1>1. x \in Ends /\ x # e /\ Peer(x) = e /\ Peer(e) = x
      /\ \A y \in Ends : y = x \/ y = e
  BY DEF Ends, Peer
<1>2. UNCHANGED <<log, failed, nextMsgId, sending>>
  BY DEF Receive, senderVars
<1>3. \A y \in Ends : CallInv(y)'
  BY <1>2, SameLog
<1>4. \A y \in Ends : \A g \in net'[y] : g.kind = "data" => Truthful(Peer(y), g.frag)
  <2>1. net' = net \/ net' = [net EXCEPT ![e] = @ \ {f}]
    BY DEF Receive
  <2>2. \A y \in Ends : net'[y] \subseteq net[y]
    BY <2>1, ZenonT(30) DEF TypeOK
  <2>3. \A y \in Ends : \A g \in net[y] : g.kind = "data" => Truthful(Peer(y), g.frag)
    BY PeerFacts DEF FragmentInv
  <2> QED BY <2>2, <2>3
<1>5. \A y \in Ends : \A p \in pending'[y] : Truthful(y, p.frag)
  <2>1. pending' = pending \/ pending' = [pending EXCEPT ![e] = Unacked(e, f)]
    BY DEF Receive
  <2>2. \A y \in Ends : pending'[y] \subseteq pending[y]
    BY <2>1, ZenonT(30) DEF TypeOK, Unacked
  <2> QED BY <2>2 DEF FragmentInv
<1>6. CASE UNCHANGED receiverVars
  <2>1. \A y \in Ends : FragmentInv(y)'
    BY <1>2, <1>4, <1>5, <1>6, PeerFacts, SameLog DEF FragmentInv, receiverVars
  <2> QED BY <1>2, <1>3, <1>6, <2>1, SameLog DEF receiverVars
<1>7. CASE f.kind = "data" /\ ReceiveFragment(e, f.frag)
  <2>1. f.frag \in Frags /\ Truthful(x, f.frag)
    <3>1. f \in Frames /\ f \in net[Peer(x)] /\ FragmentInv(x)
      BY <1>1 DEF TypeOK
    <3> QED BY <1>7, <3>1 DEF Frames, FragmentInv
  <2>2. ReceiveFragment(Peer(x), f.frag)
    BY <1>1, <1>7
  <2> HIDE DEF x
  <2>3. /\ \A g \in partial'[Peer(x)] : Truthful(x, g)
        /\ \A m \in completed'[Peer(x)] :
             m.msg \in 1..Len(log[x]) /\ m.body = Message(x, m.msg)
        /\ HandOverInv(x)'
        /\ partial'[x] = partial[x] /\ completed'[x] = completed[x]
        /\ expected'[x] = expected[x] /\ delivered'[x] = delivered[x]
    BY <1>1, <1>2, <2>1, <2>2, ReceiveFragmentInv
  <2>4. FragmentInv(x)'
    BY <1>1, <1>2, <1>4, <1>5, <2>3, SameLog DEF FragmentInv
  <2>5. FragmentInv(e)'
    <3>1. FragmentInv(e)
      OBVIOUS
    <3> QED BY <3>1, <1>1, <1>2, <1>4, <1>5, <2>3, SameLog DEF FragmentInv
  <2>6. HandOverInv(e)'
    BY <1>1, <1>2, <2>3, SameLog DEF HandOverInv
  <2> QED BY <1>1, <1>3, <2>3, <2>4, <2>5, <2>6
<1> QED BY <1>6, <1>7 DEF Receive

LEMMA CarrierStep ==
  ASSUME NoWrap, TypeOK, CarrierInv, [Next]_vars
  PROVE  CarrierInv'
<1> USE DEF CarrierInv
<1> DEFINE Calm == UNCHANGED <<failed, nextMsgId, log, partial, completed, expected, delivered>>
<1>1. ASSUME Calm, UNCHANGED sending,
             \A e \in Ends : \A p \in pending'[e] : \E q \in pending[e] : p.frag = q.frag,
             \A e \in Ends : \A f \in net'[e] :
               f.kind = "data" => (f \in net[e] \/ \E q \in pending[Peer(e)] : f.frag = q.frag)
      PROVE  CarrierInv'
  <2>1. \A e \in Ends : FragmentInv(e)'
    <3>1. SUFFICES ASSUME NEW e \in Ends PROVE FragmentInv(e)'
      OBVIOUS
    <3>2. \A p \in pending'[e] : Truthful(e, p.frag)
      BY <1>1 DEF FragmentInv
    <3>3. \A f \in net'[Peer(e)] : f.kind = "data" => Truthful(e, f.frag)
      BY <1>1, PeerFacts DEF FragmentInv
    <3> QED BY <1>1, <3>2, <3>3, SameLog DEF FragmentInv
  <2> QED BY <1>1, <2>1, SameLog
<1>2. ASSUME NEW e \in Ends, NEW p \in pending[e], NEW a, 
             pending' = [pending EXCEPT ![e] = (@ \ {p}) \cup {[p EXCEPT !.age = a]}]
      PROVE  \A x \in Ends : \A r \in pending'[x] : \E q \in pending[x] : r.frag = q.frag
  <2>1. p \in Pendings
    BY DEF TypeOK
  <2>2. [p EXCEPT !.age = a].frag = p.frag
    BY <2>1 DEF Pendings
  <2> QED BY <1>2, <2>2 DEF TypeOK
<1>3. ASSUME NEW e \in Ends, NEW f, Publish(e, f)
      PROVE  \A x \in Ends : \A g \in net'[x] : g \in net[x] \/ (g = f /\ x = Peer(e))
  BY <1>3, PeerFacts DEF Publish, TypeOK
<1>4. ASSUME NEW e \in Ends, NEW p \in pending[e], Age(e, p) PROVE CarrierInv'
  BY <1>4, <1>1, <1>2 DEF Age, senderVars, receiverVars
<1>5. ASSUME NEW e \in Ends, NEW p \in pending[e], TickData(e, p) PROVE CarrierInv'
  <2>1. \A x \in Ends : \A g \in net'[x] :
           g \in net[x] \/ (g.frag = p.frag /\ x = Peer(e))
    BY <1>5, <1>3 DEF TickData
  <2>2. \A x \in Ends : \A g \in net'[x] :
           g \in net[x] \/ \E q \in pending[Peer(x)] : g.frag = q.frag
    BY <2>1, PeerFacts
  <2> QED BY <1>5, <1>1, <1>2, <2>2 DEF TickData, senderVars, receiverVars
<1>6. ASSUME NEW e \in Ends, TickAck(e) PROVE CarrierInv'
  BY <1>6, <1>1, <1>3 DEF TickAck, senderVars, receiverVars
<1>7. ASSUME NEW e \in Ends, TickIdle(e) PROVE CarrierInv'
  BY <1>7, <1>1, <1>3 DEF TickIdle, senderVars, receiverVars
<1>8. ASSUME NEW e \in Ends, Close(e) PROVE CarrierInv'
  <2>1. Calm /\ UNCHANGED net
    BY <1>8 DEF Close, receiverVars
  <2>2. \A x \in Ends : pending'[x] \subseteq pending[x]
    BY <1>8 DEF Close, TypeOK
  <2>3. \A x \in Ends : CallInv(x)'
    <3>1. \A x \in Ends : sending'[x] = sending[x] \/ sending'[x] = Idle
      BY <1>8 DEF Close, TypeOK
    <3> QED BY <2>1, <3>1 DEF CallInv
  <2>4. \A x \in Ends : FragmentInv(x)'
    BY <2>1, <2>2, SameLog DEF FragmentInv
  <2> QED BY <2>1, <2>3, <2>4, SameLog
<1>9. ASSUME NEW e \in Ends, NEW f \in net[e], Lose(e, f) PROVE CarrierInv'
  <2>1. \A x \in Ends : net'[x] \subseteq net[x]
    BY <1>9 DEF Lose, TypeOK
  <2> QED BY <1>9, <1>1, <2>1 DEF Lose, senderVars, receiverVars
<1>10. CASE UNCHANGED vars
  BY <1>10, <1>1 DEF vars, senderVars, receiverVars
<1> QED
  BY <1>4, <1>5, <1>6, <1>7, <1>8, <1>9, <1>10, SendInv, EnqueueInv, ReceiveInv DEF Next

(* Why the carrier delivers in order, for any capacity, window and network,
   in a session of fewer messages than there are ids. *)
THEOREM CarrierInvariant == NoWrap => (Spec => []CarrierInv)
<1> SUFFICES ASSUME NoWrap PROVE Spec => []CarrierInv
  OBVIOUS
<1>1. Init => TypeOK /\ CarrierInv
  BY InitType, InitCarrierInv
<1>2. (TypeOK /\ CarrierInv) /\ [Next]_vars => (TypeOK /\ CarrierInv)'
  BY NextType, CarrierStep
<1> QED BY <1>1, <1>2, PTL DEF Spec

(* Messages reach the peer's handler whole, in the order they were sent,
   none of them twice and none of them skipped. *)
THEOREM InOrderDelivery == NoWrap => (Spec => []InOrder)
<1>1. CarrierInv => InOrder
  BY DEF CarrierInv, HandOverInv, InOrder
<1> QED BY <1>1, CarrierInvariant, PTL

-----------------------------------------------------------------------------
(* Nothing is lost.  An acknowledgement names a sequence number, so what it
   releases is what it should only while no two fragments bear the same one. *)

(* x has not numbered more fragments than there are sequence numbers. *)
FirstTrip(x) == nextOrder[x] <= IdSpace + 1

(* The fragments of x that its peer may still see, and the sequence numbers
   that x is told of, or will be, as received. *)
Cut(x) ==
  {p.frag : p \in pending[x]} \cup {f.frag : f \in {g \in net[Peer(x)] : g.kind = "data"}}

Acked(x) ==
  LET r == Peer(x)
  IN {seen[r][i] : i \in 1..Len(seen[r])} \cup ({lastAckSeq[r]} \ {0}) \cup QueuedAcks(r)
       \cup UNION {AckedBy(f) : f \in net[x]}

(* Arrived, of a fragment of a message that x has sent. *)
Held(x, n, i) ==
  \/ n <= Len(delivered[Peer(x)])
  \/ \E m \in completed[Peer(x)] : m.msg = n
  \/ \E g \in partial[Peer(x)] : g.payload = <<n, i>>

(* What x has enqueued is pending or held by its peer. *)
Kept(x) == \A n \in 1..Len(log[x]) : \A i \in 0..(Enqueued(x, n) - 1) :
  (\E p \in pending[x] : p.frag.payload = <<n, i>>) \/ Held(x, n, i)

LossInv(x) ==
  /\ nextOrder[x] <= IdSpace => nextSeq[x] = nextOrder[x]
  /\ \A f \in Cut(x) : f.seq < nextOrder[x]
  /\ \A f, g \in Cut(x) : f.seq = g.seq => f = g
  /\ \A s \in Acked(x) : s < nextOrder[x]
  /\ \A f \in Cut(x) : f.seq \in Acked(x) => Held(x, f.msg, f.idx)
  /\ ~closed[x] => Kept(x)

LEMMA CutTruth ==
  ASSUME NEW x \in Ends, FragmentInv(x), NEW f \in Cut(x)
  PROVE  Truthful(x, f) /\ f.msg \in Nat
<1>1. Truthful(x, f)
  BY DEF Cut, FragmentInv
<1> QED BY <1>1 DEF Truthful

LEMMA CutTypes ==
  ASSUME TypeOK, NEW x \in Ends
  PROVE  Cut(x) \subseteq Frags
<1>1. \A p \in pending[x] : p.frag \in Frags
  <2>1. pending[x] \subseteq Pendings
    BY DEF TypeOK
  <2> QED BY <2>1 DEF Pendings
<1>2. \A f \in net[Peer(x)] : f.kind = "data" => f.frag \in Frags
  <2>1. net[Peer(x)] \subseteq Frames
    BY PeerFacts DEF TypeOK
  <2> QED BY <2>1 DEF Frames
<1> QED BY <1>1, <1>2 DEF Cut

LEMMA AckedTypes ==
  ASSUME TypeOK, NEW x \in Ends
  PROVE  Acked(x) \subseteq Nat
<1>1. Peer(x) \in Ends /\ \A s \in Ids : s \in Nat
  BY PeerFacts, ConstantsAssumption DEF Ids
<1>2. \A i \in 1..Len(seen[Peer(x)]) : seen[Peer(x)][i] \in Ids
  <2>1. PICK s \in Seq(Ids) : s = seen[Peer(x)]
    BY <1>1 DEF TypeOK
  <2>2. \A i \in 1..Len(s) : s[i] \in Ids
    BY ElementOfSeq
  <2> QED BY <2>1, <2>2
<1>3. lastAckSeq[Peer(x)] \in Nat /\ QueuedAcks(Peer(x)) \subseteq Ids
  BY <1>1, ConstantsAssumption DEF TypeOK, QueuedAcks
<1>4. \A f \in net[x] : AckedBy(f) \subseteq Nat
  <2>1. \A f \in net[x] : f.ackSeq \in 0..IdSpace /\ f.acks \subseteq Ids
    BY DEF TypeOK, Frames
  <2> QED BY <1>1, <2>1, ConstantsAssumption DEF AckedBy
<1> QED BY <1>1, <1>2, <1>3, <1>4 DEF Acked

(* A window of sequence numbers gains the latest one and no other. *)
LEMMA Remembered ==
  ASSUME NEW s \in Seq(Ids), NEW q \in Ids
  PROVE  {Remember(s, q)[i] : i \in 1..Len(Remember(s, q))} \subseteq {s[i] : i \in 1..Len(s)} \cup {q}
<1> DEFINE t == Append(s, q)
<1>1. t \in Seq(Ids) /\ Len(t) = Len(s) + 1 /\ Len(s) \in Nat /\ t[Len(s) + 1] = q
      /\ \A i \in 1..Len(s) : t[i] = s[i]
  OBVIOUS
<1>2. \A i \in 1..Len(t) : t[i] \in {s[j] : j \in 1..Len(s)} \cup {q}
  <2>1. \A i \in 1..Len(t) : i \in 1..Len(s) \/ i = Len(s) + 1
    BY <1>1
  <2> QED BY <1>1, <2>1
<1>3. Len(Tail(t)) = Len(s) /\ \A i \in 1..Len(s) : Tail(t)[i] = t[i + 1]
  <2>1. t # <<>>
    BY <1>1
  <2> HIDE DEF t
  <2> QED BY <1>1, <2>1
<1>4. \A i \in 1..Len(Tail(t)) : i + 1 \in 1..Len(t)
  BY <1>1, <1>3
<1>5. Remember(s, q) = t \/ Remember(s, q) = Tail(t)
  BY DEF Remember
<1> HIDE DEF t
<1> QED BY <1>2, <1>3, <1>4, <1>5

(* What a step that enqueues nothing must show to keep LossInv(x): numbers it
   newly acknowledges belong to fragments that are held, and fragments it
   drops are held. *)
LEMMA LossKept ==
  ASSUME NEW x \in Ends, LossInv(x), FragmentInv(x), UNCHANGED <<nextSeq[x], nextOrder[x]>>,
         Cut(x)' \subseteq Cut(x),
         \A s \in Acked(x)' : s \in Acked(x) \/
           (s < nextOrder[x] /\ \A g \in Cut(x) : g.seq = s => Held(x, g.msg, g.idx)'),
         \A n \in Nat : \A i : Held(x, n, i) => Held(x, n, i)',
         ~closed'[x] => ~closed[x],
         ~closed'[x] => \A n \in 1..Len(log'[x]) : \A i \in 0..(Enqueued(x, n)' - 1) :
           n \in 1..Len(log[x]) /\ i \in 0..(Enqueued(x, n) - 1),
         ~closed'[x] => \A p \in pending[x] :
           Held(x, p.frag.msg, p.frag.idx)' \/ \E q \in pending'[x] : q.frag = p.frag
  PROVE  LossInv(x)'
<1>1. \A f \in Cut(x)' : f.seq < nextOrder'[x]
  BY DEF LossInv
<1>2. \A s \in Acked(x)' : s < nextOrder'[x]
  BY DEF LossInv
<1>3. \A f, g \in Cut(x)' : f.seq = g.seq => f = g
  BY DEF LossInv
<1>4. ASSUME NEW f \in Cut(x)', f.seq \in Acked(x)' PROVE Held(x, f.msg, f.idx)'
  <2>1. f \in Cut(x) /\ f.msg \in Nat
    BY CutTruth
  <2> QED BY <1>4, <2>1 DEF LossInv
<1>5. ASSUME ~closed'[x] PROVE Kept(x)'
  <2> SUFFICES ASSUME NEW n \in 1..Len(log'[x]), NEW i \in 0..(Enqueued(x, n)' - 1)
               PROVE  (\E p \in pending'[x] : p.frag.payload = <<n, i>>) \/ Held(x, n, i)'
    BY DEF Kept
  <2>0. n \in Nat
    OBVIOUS
  <2>1. (\E p \in pending[x] : p.frag.payload = <<n, i>>) \/ Held(x, n, i)
    BY <1>5 DEF LossInv, Kept
  <2>2. ASSUME NEW p \in pending[x], p.frag.payload = <<n, i>>
        PROVE  (\E q \in pending'[x] : q.frag.payload = <<n, i>>) \/ Held(x, n, i)'
    <3>1. p.frag.payload = <<p.frag.msg, p.frag.idx>>
      BY DEF FragmentInv, Truthful
    <3>2. p.frag.msg = n /\ p.frag.idx = i
      BY <2>2, <3>1
    <3> QED BY <1>5, <2>2, <3>2
  <2> QED BY <2>0, <2>1, <2>2
<1> QED BY <1>1, <1>2, <1>3, <1>4, <1>5 DEF LossInv

(* A fragment that has been received is held, and so is what was held. *)
LEMMA ReceiveHeld ==
  ASSUME NoWrap, TypeOK, CarrierInv, NEW x \in Ends, NEW f \in Frags,
         Truthful(x, f), ReceiveFragment(Peer(x), f), UNCHANGED log
  PROVE  /\ \A n \in Nat : \A i : Held(x, n, i) => Held(x, n, i)'
         /\ (\A i \in 1..Len(seen[Peer(x)]) : seen[Peer(x)][i] # f.seq) =>
              Held(x, f.msg, f.idx)'
<1> DEFINE r == Peer(x)
           parts == Collected(r, f)
<1>1. r \in Ends /\ r # x /\ CallInv(x) /\ HandOverInv(x)
  BY PeerFacts DEF CarrierInv
<1>2. /\ \A g \in partial[r] : Truthful(x, g)
      /\ \A m \in completed[r] : m.msg \in 1..Len(log[x]) /\ m.body = Message(x, m.msg)
  BY DEF CarrierInv, FragmentInv
<1>3. CASE UNCHANGED receiverVars /\ \E i \in 1..Len(seen[r]) : seen[r][i] = f.seq
  BY <1>3 DEF receiverVars, Held
<1>4. CASE /\ partial' = [partial EXCEPT ![r] = (@ \ SameMessage(r, f)) \cup parts]
           /\ UNCHANGED <<completed, expected, delivered>>
  <2>1. partial'[r] = (partial[r] \ SameMessage(r, f)) \cup parts
    BY <1>1, <1>4 DEF TypeOK
  <2>2. f \in parts /\ f.payload = <<f.msg, f.idx>>
    BY DEF Collected, Truthful
  <2>3. ASSUME NEW g \in partial[r] PROVE \E h \in partial'[r] : h.payload = g.payload
    <3>1. Truthful(x, g)
      BY <1>2
    <3>2. CASE g.msg # f.msg
      BY <2>1, <3>2 DEF SameMessage
    <3>3. CASE g.msg = f.msg /\ g.idx # f.idx
      <4>1. g \in parts
        BY <3>1, <3>3 DEF Collected, SameMessage, Truthful
      <4> QED BY <2>1, <4>1
    <3>4. CASE g.msg = f.msg /\ g.idx = f.idx
      BY <2>1, <2>2, <3>1, <3>4 DEF Truthful
    <3> QED BY <3>2, <3>3, <3>4
  <2> HIDE DEF parts
  <2>4. Held(x, f.msg, f.idx)'
    BY <2>1, <2>2 DEF Held
  <2>5. ASSUME NEW n \in Nat, NEW i, Held(x, n, i) PROVE Held(x, n, i)'
    BY <1>4, <2>3, <2>5 DEF Held
  <2> QED BY <2>4, <2>5
<1>5. CASE /\ IsComplete(parts, f.count)
           /\ partial' = [partial EXCEPT ![r] = @ \ SameMessage(r, f)]
           /\ HandOver(r, {m \in completed[r] : m.msg # f.msg}
                \cup {[msg |-> f.msg, body |-> Assembled(parts, f.count)]})
  <2> DEFINE new == [msg |-> f.msg, body |-> Assembled(parts, f.count)]
             done == {m \in completed[r] : m.msg # f.msg} \cup {new}
  <2>1. done \in SUBSET Messages /\ \A m \in done : m.msg \in 1..Len(log[x]) /\ m.body = Message(x, m.msg)
    BY <1>5, CompletedTruth
  <2>2. HandOver(Peer(x), done)
    BY <1>5
  <2>3. \A n : (n = f.msg \/ \E m \in completed[r] : m.msg = n) => \E m \in done : m.msg = n
    <3>1. new \in done /\ new.msg = f.msg
      OBVIOUS
    <3>2. \A m \in completed[r] : m.msg = f.msg \/ m \in done
      OBVIOUS
    <3> HIDE DEF done, new
    <3> QED BY <3>1, <3>2, Zenon
  <2> HIDE DEF done
  <2>4. /\ Len(delivered[r]) <= Len(delivered'[r])
        /\ \A m \in done : m \in completed'[r] \/ m.msg <= Len(delivered'[r])
    BY <1>1, <2>1, <2>2, HandOverTruth
  <2>5. \A n, i : (\E m \in done : m.msg = n) => Held(x, n, i)'
    BY <2>4 DEF Held
  <2>6. partial'[r] = partial[r] \ SameMessage(r, f)
    BY <1>1, <1>5 DEF TypeOK
  <2>7. ASSUME NEW n \in Nat, NEW i, Held(x, n, i) PROVE Held(x, n, i)'
    <3>1. CASE n <= Len(delivered[r])
      <4>1. n <= Len(delivered'[r])
        <5>1. Len(delivered[r]) \in Nat /\ Len(delivered'[r]) \in Nat
          BY <1>1, <2>2, <2>1, HandOverType, LenProperties DEF TypeOK
        <5> QED BY <2>4, <3>1, <5>1
      <4> QED BY <4>1 DEF Held
    <3>2. CASE \E m \in completed[r] : m.msg = n
      BY <2>3, <2>5, <3>2
    <3>3. ASSUME NEW g \in partial[r], g.payload = <<n, i>> PROVE Held(x, n, i)'
      <4>1. g.payload = <<g.msg, g.idx>>
        BY <1>2 DEF Truthful
      <4>2. g.msg = n
        BY <3>3, <4>1
      <4>3. CASE n = f.msg
        BY <2>3, <2>5, <4>3
      <4>4. CASE n # f.msg
        BY <2>6, <3>3, <4>2, <4>4 DEF SameMessage, Held
      <4> QED BY <4>3, <4>4
    <3> QED BY <2>7, <3>1, <3>2, <3>3 DEF Held
  <2> QED BY <2>3, <2>5, <2>7
<1> QED BY <1>3, <1>4, <1>5 DEF ReceiveFragment

(* Frames are published towards the peer only. *)
LEMMA PublishedLoss ==
  ASSUME TypeOK, NEW a \in Ends, NEW g, Publish(a, g), NEW x \in Ends
  PROVE  net'[x] = IF x = Peer(a) THEN net[x] \cup {g} ELSE net[x]
BY PeerFacts DEF Publish, TypeOK

(* A step that delivers nothing keeps LossInv if what it publishes was
   pending or to be acknowledged, and what it removes from pending is held. *)
LEMMA QuietLoss ==
  ASSUME TypeOK, NEW x \in Ends, LossInv(x), FragmentInv(x),
         UNCHANGED <<nextSeq, nextOrder, receiverVars, lastAckSeq>>,
         QueuedAcks(Peer(x))' \subseteq QueuedAcks(Peer(x)),
         Cut(x)' \subseteq Cut(x),
         \A f \in net'[x] : f \in net[x] \/ AckedBy(f) \subseteq Acked(x),
         \/ closed'[x]
         \/ /\ ~closed[x] /\ UNCHANGED <<log, sending[x]>>
            /\ \A p \in pending[x] :
                 Held(x, p.frag.msg, p.frag.idx) \/ \E q \in pending'[x] : q.frag = p.frag
  PROVE  LossInv(x)'
<1>1. \A n, i : Held(x, n, i)' <=> Held(x, n, i)
  BY DEF Held, receiverVars
<1>2. \A s \in Acked(x)' : s \in Acked(x)
  BY DEF Acked, receiverVars
<1>3. UNCHANGED <<log, sending[x]>> => \A n : Enqueued(x, n)' = Enqueued(x, n)
  BY DEF Enqueued
<1> QED BY <1>1, <1>2, <1>3, LossKept

LEMMA TickDataLoss ==
  ASSUME TypeOK, CarrierInv, NEW x \in Ends, LossInv(x), NEW a \in Ends, NEW p \in pending[a],
         TickData(a, p)
  PROVE  LossInv(x)'
<1> DEFINE g == [kind |-> "data", ackSeq |-> PiggybackAck(a), acks |-> {}, frag |-> p.frag]
<1>1. /\ Publish(a, g) /\ ~closed[a]
      /\ pending' = [pending EXCEPT ![a] = (@ \ {p}) \cup {[p EXCEPT !.age = "fresh"]}]
      /\ UNCHANGED <<closed, nextSeq, nextOrder, receiverVars, lastAckSeq, ackRepeats, log, sending>>
  BY DEF TickData, senderVars, ackVars
<1>2. net'[x] = IF x = Peer(a) THEN net[x] \cup {g} ELSE net[x]
  BY <1>1, PublishedLoss
<1>3. net'[Peer(x)] = IF Peer(x) = Peer(a) THEN net[Peer(x)] \cup {g} ELSE net[Peer(x)]
  BY <1>1, PublishedLoss, PeerFacts
<1>4. Peer(x) = Peer(a) => x = a
  BY DEF Peer, Ends
<1>5. [p EXCEPT !.age = "fresh"].frag = p.frag /\ g.frag = p.frag
  BY DEF TypeOK, Pendings
<1>6. {q.frag : q \in pending'[x]} = {q.frag : q \in pending[x]}
  BY <1>1, <1>5 DEF TypeOK
<1>7. Cut(x)' \subseteq Cut(x)
  BY <1>3, <1>4, <1>5, <1>6 DEF Cut
<1>8. \A f \in net'[x] : f \in net[x] \/ AckedBy(f) \subseteq Acked(x)
  <2>1. AckedBy(g) \subseteq {lastAckSeq[a]} \ {0}
    BY DEF AckedBy, PiggybackAck
  <2>2. x = Peer(a) => a = Peer(x)
    BY PeerFacts
  <2> QED BY <1>2, <2>1, <2>2 DEF Acked
<1>9. QueuedAcks(Peer(x))' = QueuedAcks(Peer(x))
  BY <1>1 DEF QueuedAcks
<1>10. \A r \in pending[x] : \E q \in pending'[x] : q.frag = r.frag
  BY <1>6
<1>11. FragmentInv(x)
  BY DEF CarrierInv
<1> QED BY <1>1, <1>7, <1>8, <1>9, <1>10, <1>11, QuietLoss

LEMMA CloseLoss ==
  ASSUME TypeOK, CarrierInv, NEW x \in Ends, LossInv(x), NEW a \in Ends, Close(a)
  PROVE  LossInv(x)'
<1>1. /\ closed' = [closed EXCEPT ![a] = TRUE] /\ pending' = [pending EXCEPT ![a] = {}]
      /\ ackRepeats' = [ackRepeats EXCEPT ![a] = [s \in Ids |-> 0]]
      /\ sending' = [sending EXCEPT ![a] = Idle]
      /\ UNCHANGED <<nextSeq, nextOrder, receiverVars, lastAckSeq, log, net>>
  BY DEF Close
<1>2. pending'[x] \subseteq pending[x]
  BY <1>1 DEF TypeOK
<1>3. Cut(x)' \subseteq Cut(x)
  BY <1>1, <1>2 DEF Cut
<1>4. QueuedAcks(Peer(x))' \subseteq QueuedAcks(Peer(x))
  BY <1>1, PeerFacts DEF QueuedAcks, TypeOK
<1>5. CASE x = a
  <2>1. closed'[x]
    BY <1>1, <1>5 DEF TypeOK
  <2> QED BY <1>1, <1>3, <1>4, <2>1, QuietLoss DEF CarrierInv
<1>6. CASE x # a
  <2>1. closed'[x] = closed[x] /\ pending'[x] = pending[x] /\ sending'[x] = sending[x]
    BY <1>1, <1>6 DEF TypeOK
  <2>2. \A p \in pending[x] : \E q \in pending'[x] : q.frag = p.frag
    BY <2>1
  <2>3. FragmentInv(x) /\ \A f \in net'[x] : f \in net[x]
    BY <1>1 DEF CarrierInv
  <2>4. CASE closed'[x]
    BY <1>1, <1>3, <1>4, <2>3, <2>4, QuietLoss
  <2>5. CASE ~closed[x] /\ log'[x] = log[x]
    BY <1>1, <1>3, <1>4, <2>1, <2>2, <2>3, <2>5, QuietLoss
  <2> QED BY <1>1, <2>1, <2>4, <2>5
<1> QED BY <1>5, <1>6

(* The steps that neither enqueue nor deliver nor publish a fragment. *)
LEMMA OtherLoss ==
  ASSUME TypeOK, CarrierInv, NEW x \in Ends, LossInv(x), NEW a \in Ends,
         \/ TickAck(a) \/ TickIdle(a)
         \/ \E p \in pending[a] : Age(a, p)
         \/ \E f \in net[a] : Lose(a, f)
  PROVE  LossInv(x)'
<1>x. Peer(x) \in Ends /\ FragmentInv(x) /\ (x = Peer(a) => a = Peer(x))
  BY PeerFacts DEF CarrierInv
<1>1. ASSUME NEW p \in pending[a], Age(a, p) PROVE LossInv(x)'
  <2>1. /\ pending' = [pending EXCEPT ![a] = (@ \ {p}) \cup {[p EXCEPT !.age = "due"]}]
        /\ UNCHANGED <<closed, nextSeq, nextOrder, receiverVars, lastAckSeq, ackRepeats, log,
                       sending, net>>
    BY <1>1 DEF Age, senderVars, ackVars
  <2>2. [p EXCEPT !.age = "due"].frag = p.frag
    BY DEF TypeOK, Pendings
  <2>3. {q.frag : q \in pending'[x]} = {q.frag : q \in pending[x]}
    BY <2>1, <2>2 DEF TypeOK
  <2>4. \A r \in pending[x] : \E q \in pending'[x] : q.frag = r.frag
    BY <2>3
  <2>5. Cut(x)' \subseteq Cut(x)
    BY <2>1, <2>3 DEF Cut
  <2>6. QueuedAcks(Peer(x))' = QueuedAcks(Peer(x))
    BY <2>1 DEF QueuedAcks
  <2> QED BY <1>x, <2>1, <2>4, <2>5, <2>6, QuietLoss
<1>2. ASSUME NEW g, Publish(a, g), g.kind = "ack", AckedBy(g) \subseteq {lastAckSeq[a]} \cup QueuedAcks(a),
             0 \notin AckedBy(g),
             UNCHANGED <<closed, nextSeq, nextOrder, receiverVars, lastAckSeq, log, sending, pending>>,
             QueuedAcks(Peer(x))' \subseteq QueuedAcks(Peer(x))
      PROVE  LossInv(x)'
  <2>1. /\ net'[x] = IF x = Peer(a) THEN net[x] \cup {g} ELSE net[x]
        /\ net'[Peer(x)] = IF Peer(x) = Peer(a) THEN net[Peer(x)] \cup {g} ELSE net[Peer(x)]
    BY <1>x, <1>2, PublishedLoss
  <2>2. Cut(x)' \subseteq Cut(x)
    BY <1>2, <2>1 DEF Cut
  <2>3. \A f \in net'[x] : f \in net[x] \/ AckedBy(f) \subseteq Acked(x)
    BY <1>x, <1>2, <2>1 DEF Acked
  <2> QED BY <1>x, <1>2, <2>2, <2>3, QuietLoss
<1>3. \A s \in Ids : ackRepeats[Peer(x)][s] \in Nat
  BY <1>x DEF TypeOK
<1>4. ASSUME TickAck(a) PROVE LossInv(x)'
  <2> DEFINE g == [kind |-> "ack", ackSeq |-> PiggybackAck(a), acks |-> QueuedAcks(a), frag |-> NoFrag]
  <2>1. /\ Publish(a, g)
        /\ ackRepeats' = [ackRepeats EXCEPT ![a] =
             [s \in Ids |-> IF ackRepeats[a][s] > 0 THEN ackRepeats[a][s] - 1 ELSE 0]]
        /\ UNCHANGED <<closed, nextSeq, nextOrder, receiverVars, lastAckSeq, log, sending, pending>>
    BY <1>4 DEF TickAck, senderVars
  <2>2. AckedBy(g) \subseteq {lastAckSeq[a]} \cup QueuedAcks(a) /\ 0 \notin AckedBy(g) /\ g.kind = "ack"
    BY DEF AckedBy, PiggybackAck, QueuedAcks, Ids
  <2>3. QueuedAcks(Peer(x))' \subseteq QueuedAcks(Peer(x))
    <3>1. CASE Peer(x) = a
      <4>1. \A s \in Ids : ackRepeats'[a][s] > 0 => ackRepeats[a][s] > 0
        BY <2>1 DEF TypeOK
      <4> QED BY <3>1, <4>1 DEF QueuedAcks
    <3>2. CASE Peer(x) # a
      BY <1>x, <2>1, <3>2 DEF QueuedAcks, TypeOK
    <3> QED BY <3>1, <3>2
  <2> HIDE DEF g
  <2> QED BY <1>2, <2>1, <2>2, <2>3
<1>5. ASSUME TickIdle(a) PROVE LossInv(x)'
  <2> DEFINE g == [kind |-> "ack", ackSeq |-> PiggybackAck(a), acks |-> {}, frag |-> NoFrag]
  <2>1. /\ Publish(a, g)
        /\ UNCHANGED <<closed, nextSeq, nextOrder, receiverVars, lastAckSeq, log, sending, pending,
                       ackRepeats>>
    BY <1>5 DEF TickIdle, senderVars, ackVars
  <2>2. AckedBy(g) \subseteq {lastAckSeq[a]} \cup QueuedAcks(a) /\ 0 \notin AckedBy(g) /\ g.kind = "ack"
    BY DEF AckedBy, PiggybackAck
  <2>3. QueuedAcks(Peer(x))' = QueuedAcks(Peer(x))
    BY <2>1 DEF QueuedAcks
  <2> HIDE DEF g
  <2> QED BY <1>2, <2>1, <2>2, <2>3
<1>6. ASSUME NEW f \in net[a], Lose(a, f) PROVE LossInv(x)'
  <2>1. /\ net' = [net EXCEPT ![a] = @ \ {f}]
        /\ UNCHANGED <<closed, nextSeq, nextOrder, receiverVars, lastAckSeq, ackRepeats, log,
                       sending, pending>>
    BY <1>6 DEF Lose, senderVars, ackVars
  <2>2. net'[x] \subseteq net[x] /\ net'[Peer(x)] \subseteq net[Peer(x)]
    BY <1>x, <2>1 DEF TypeOK
  <2>3. Cut(x)' \subseteq Cut(x)
    BY <2>1, <2>2 DEF Cut
  <2>4. QueuedAcks(Peer(x))' = QueuedAcks(Peer(x))
    BY <2>1 DEF QueuedAcks
  <2> QED BY <1>x, <2>1, <2>2, <2>3, <2>4, QuietLoss
<1> QED BY <1>1, <1>4, <1>5, <1>6

(* Send numbers no fragment, and of a message just accepted none is enqueued. *)
LEMMA SendLoss ==
  ASSUME TypeOK, CarrierInv, NEW x \in Ends, LossInv(x), NEW a \in Ends, Send(a)
  PROVE  LossInv(x)'
<1>1. /\ sending[a] = Idle
      /\ UNCHANGED <<closed, nextSeq, nextOrder, receiverVars, lastAckSeq, ackRepeats, pending, net>>
  BY DEF Send, ackVars
<1>2. /\ Cut(x)' = Cut(x) /\ Acked(x)' = Acked(x) /\ FragmentInv(x)
      /\ \A n, i : Held(x, n, i)' <=> Held(x, n, i)
  BY <1>1 DEF Cut, Acked, Held, receiverVars, QueuedAcks, CarrierInv
<1>3. \A n \in 1..Len(log'[x]) : \A i \in 0..(Enqueued(x, n)' - 1) :
        n \in 1..Len(log[x]) /\ i \in 0..(Enqueued(x, n) - 1)
  <2>1. CASE log'[x] = log[x] /\ sending'[x] = sending[x]
    BY <2>1 DEF Enqueued
  <2>2. ASSUME x = a, NEW c \in Sizes, log' = [log EXCEPT ![a] = Append(@, c)],
               sending' = [sending EXCEPT ![a] =
                  [n |-> Len(log[a]) + 1, id |-> nextMsgId[a], count |-> c, next |-> 0]]
        PROVE  \A n \in 1..Len(log'[x]) : \A i \in 0..(Enqueued(x, n)' - 1) :
                 n \in 1..Len(log[x]) /\ i \in 0..(Enqueued(x, n) - 1)
    <3>1. /\ Len(log'[x]) = Len(log[x]) + 1 /\ Len(log[x]) \in Nat
          /\ \A n \in 1..Len(log[x]) : log'[x][n] = log[x][n]
      <4>1. /\ Len(log'[a]) = Len(log[a]) + 1 /\ Len(log[a]) \in Nat
            /\ \A n \in 1..Len(log[a]) : log'[a][n] = log[a][n]
        BY <2>2, Appended
      <4> QED BY <2>2, <4>1
    <3>2. sending[x].n = 0 /\ sending'[x].n = Len(log[x]) + 1 /\ sending'[x].next = 0
      BY <1>1, <2>2 DEF Idle, TypeOK
    <3>3. \A n \in 1..Len(log[x]) : n # 0 /\ n # Len(log[x]) + 1
      BY <3>1
    <3>4. \A n \in 1..Len(log[x]) : Enqueued(x, n)' = Enqueued(x, n)
      BY <3>1, <3>2, <3>3 DEF Enqueued
    <3>5. \A n : n = Len(log[x]) + 1 => Enqueued(x, n)' = 0
      BY <3>2 DEF Enqueued
    <3>6. \A n \in 1..Len(log'[x]) : n \in 1..Len(log[x]) \/ n = Len(log[x]) + 1
      BY <3>1
    <3>7. 0..(0 - 1) = {}
      OBVIOUS
    <3> SUFFICES ASSUME NEW n \in 1..Len(log'[x]), NEW i \in 0..(Enqueued(x, n)' - 1)
                 PROVE  n \in 1..Len(log[x]) /\ i \in 0..(Enqueued(x, n) - 1)
      OBVIOUS
    <3>8. n \in 1..Len(log[x])
      BY <3>5, <3>6, <3>7
    <3> QED BY <3>4, <3>8
  <2> QED BY <2>1, <2>2 DEF Send, TypeOK
<1> QED BY <1>1, <1>2, <1>3, LossKept

(* The next fragment gets a number that no other fragment bears and no
   acknowledgement names. *)
LEMMA EnqueueLoss ==
  ASSUME TypeOK, CarrierInv, NEW x \in Ends, LossInv(x), NEW a \in Ends, EnqueueFragment(a),
         FirstTrip(x)'
  PROVE  LossInv(x)'
<1> DEFINE c == sending[x]
           f == [seq |-> nextSeq[x], msg |-> c.id, idx |-> c.next, count |-> c.count,
                 payload |-> <<c.n, c.next>>]
           new == [frag |-> f, order |-> nextOrder[x], age |-> "new"]
<1>1. /\ ~closed[a]
      /\ UNCHANGED <<closed, log, lastAckSeq, ackRepeats, receiverVars, net>>
      /\ FragmentInv(x) /\ CallInv(x)
  BY DEF EnqueueFragment, ackVars, CarrierInv
<1>2. /\ Acked(x)' = Acked(x)
      /\ \A n, i : Held(x, n, i)' <=> Held(x, n, i)
      /\ QueuedAcks(Peer(x))' = QueuedAcks(Peer(x))
  BY <1>1 DEF Acked, Held, receiverVars, QueuedAcks
<1>3. CASE x # a
  <2>1. /\ pending'[x] = pending[x] /\ sending'[x] = sending[x]
        /\ nextSeq'[x] = nextSeq[x] /\ nextOrder'[x] = nextOrder[x]
    BY <1>3 DEF EnqueueFragment, TypeOK
  <2>2. Cut(x)' = Cut(x) /\ \A p \in pending[x] : \E q \in pending'[x] : q.frag = p.frag
    BY <1>1, <2>1 DEF Cut
  <2>3. \A n : Enqueued(x, n)' = Enqueued(x, n)
    BY <1>1, <2>1 DEF Enqueued
  <2>4. (~closed'[x] => ~closed[x]) /\ log'[x] = log[x]
    BY <1>1
  <2> QED BY <1>1, <1>2, <2>1, <2>2, <2>3, <2>4, LossKept
<1>4. CASE x = a
  <2>1. /\ c # Idle
        /\ pending'[x] = {p \in pending[x] : p.frag.seq # f.seq} \cup {new}
        /\ nextSeq'[x] = NextId(nextSeq[x]) /\ nextOrder'[x] = nextOrder[x] + 1
        /\ sending'[x] = IF c.next + 1 = c.count THEN Idle ELSE [c EXCEPT !.next = c.next + 1]
    BY <1>4 DEF EnqueueFragment, TypeOK
  <2>2. /\ nextOrder[x] \in Nat /\ IdSpace \in Nat /\ nextOrder[x] <= IdSpace
    BY <2>1, ConstantsAssumption DEF TypeOK, FirstTrip
  <2>3. f.seq = nextOrder[x] /\ new.frag = f /\ nextSeq[x] = nextOrder[x]
    BY <2>2 DEF LossInv
  <2>4. nextOrder'[x] <= IdSpace => nextSeq'[x] = nextOrder'[x]
    BY <2>1, <2>2, <2>3 DEF NextId
  <2>5. /\ c.n \in 1..Len(log[x]) /\ c.id = c.n /\ c.count = log[x][c.n]
        /\ c.next \in 0..(c.count - 1) /\ c \in [n : Nat, id : Ids, count : Sizes, next : Nat]
    BY <1>1, <2>1 DEF CallInv, TypeOK, Calls
  <2>p. f.payload = <<c.n, c.next>>
    OBVIOUS
  <2> HIDE DEF f, new
  <2>6. \A g \in Cut(x)' : g \in Cut(x) \/ g = f
    BY <1>1, <2>1, <2>3 DEF Cut
  <2>7. \A g \in Cut(x) : g.seq < nextOrder[x] /\ g.seq # nextOrder[x] /\ g.seq < nextOrder[x] + 1
    <3>1. \A g \in Cut(x) : g.seq \in Nat
      <4>1. \A g \in Cut(x) : g \in Frags
        BY CutTypes
      <4> QED BY <4>1, ConstantsAssumption DEF Frags, Ids
    <3> QED BY <2>2, <3>1 DEF LossInv
  <2>8. \A s \in Acked(x) : s # nextOrder[x] /\ s < nextOrder[x] + 1
    <3>1. \A s \in Acked(x) : s < nextOrder[x] /\ s \in Nat
      BY AckedTypes DEF LossInv
    <3> QED BY <2>2, <3>1
  <2>9. \A g, h \in Cut(x)' : g.seq = h.seq => g = h
    BY <2>3, <2>6, <2>7 DEF LossInv
  <2>10. \A g \in Cut(x)' : g.seq < nextOrder'[x]
    BY <2>1, <2>2, <2>3, <2>6, <2>7
  <2>11. \A s \in Acked(x)' : s < nextOrder'[x]
    BY <1>2, <2>1, <2>8
  <2>12. \A g \in Cut(x)' : g.seq \in Acked(x)' => Held(x, g.msg, g.idx)'
    BY <1>2, <2>3, <2>6, <2>8 DEF LossInv
  <2>13. Kept(x)'
    <3> SUFFICES ASSUME NEW n \in 1..Len(log[x]), NEW i \in 0..(Enqueued(x, n)' - 1)
                 PROVE  (\E p \in pending'[x] : p.frag.payload = <<n, i>>) \/ Held(x, n, i)'
      BY <1>1 DEF Kept
    <3>0. n # 0 /\ c.count \in Nat /\ c.next \in Nat /\ Idle.n = 0
      <4>1. c.count \in Nat /\ c.next \in Nat
        BY <2>5, ConstantsAssumption
      <4> QED BY <4>1 DEF Idle
    <3>1. CASE n = c.n /\ i = c.next
      BY <2>1, <2>3, <2>p, <3>1
    <3>2. CASE ~(n = c.n /\ i = c.next)
      <4>1. i \in 0..(Enqueued(x, n) - 1)
        <5>1. CASE n = c.n
          <6>1. Enqueued(x, n) = c.next
            BY <5>1 DEF Enqueued
          <6>2. Enqueued(x, n)' = c.next + 1
            <7>1. CASE c.next + 1 = c.count
              BY <1>1, <2>1, <2>5, <3>0, <5>1, <7>1 DEF Enqueued
            <7>2. CASE c.next + 1 # c.count
              <8>1. sending'[x].n = c.n /\ sending'[x].next = c.next + 1
                BY <2>1, <2>5, <7>2
              <8> QED BY <5>1, <8>1 DEF Enqueued
            <7> QED BY <7>1, <7>2
          <6> QED BY <3>0, <3>2, <5>1, <6>1, <6>2
        <5>2. CASE n # c.n
          <6>1. sending'[x].n = 0 \/ sending'[x].n = c.n
            BY <2>1, <2>5, <3>0
          <6>2. Enqueued(x, n)' = Enqueued(x, n)
            BY <1>1, <3>0, <5>2, <6>1 DEF Enqueued
          <6> QED BY <6>2
        <5> QED BY <5>1, <5>2
      <4>2. (\E p \in pending[x] : p.frag.payload = <<n, i>>) \/ Held(x, n, i)
        BY <1>1, <1>4, <4>1 DEF LossInv, Kept
      <4>3. \A p \in pending[x] : p \in pending'[x]
        <5>1. \A p \in pending[x] : p.frag \in Cut(x)
          BY DEF Cut
        <5> QED BY <2>1, <2>3, <2>7, <5>1
      <4> QED BY <1>2, <4>2, <4>3
    <3> QED BY <3>1, <3>2
  <2> QED BY <2>4, <2>9, <2>10, <2>11, <2>12, <2>13 DEF LossInv
<1> QED BY <1>3, <1>4

(* What an arriving frame acknowledges is held; what it carries is held from
   now on, and only a copy of it bears its number. *)
LEMMA ReceiveLoss ==
  ASSUME NoWrap, TypeOK, CarrierInv, NEW x \in Ends, LossInv(x), NEW a \in Ends,
         NEW f \in net[a], Receive(a, f)
  PROVE  LossInv(x)'
<1>1. /\ UNCHANGED <<closed, nextSeq, nextOrder, log, sending>>
      /\ net' \in {net, [net EXCEPT ![a] = @ \ {f}]}
      /\ FragmentInv(x) /\ Peer(x) \in Ends /\ Peer(x) # x /\ Peer(Peer(x)) = x
  BY PeerFacts DEF Receive, senderVars, CarrierInv
<1>2. net'[x] \subseteq net[x] /\ net'[Peer(x)] \subseteq net[Peer(x)]
  <2>1. \A y \in Ends : net'[y] \subseteq net[y]
    <3>1. CASE net' = net
      BY <3>1
    <3>2. CASE net' = [net EXCEPT ![a] = @ \ {f}]
      BY <3>2 DEF TypeOK
    <3> QED BY <1>1, <3>1, <3>2
  <2> QED BY <1>1, <2>1
<1>3. \A n : Enqueued(x, n)' = Enqueued(x, n)
  BY <1>1 DEF Enqueued
<1>4. CASE a = x
  <2>1. UNCHANGED pending \/ pending'[x] = Unacked(x, f)
    BY <1>4 DEF Receive, TypeOK
  <2>2. /\ seen'[Peer(x)] = seen[Peer(x)] /\ lastAckSeq'[Peer(x)] = lastAckSeq[Peer(x)]
        /\ ackRepeats'[Peer(x)] = ackRepeats[Peer(x)] /\ partial'[Peer(x)] = partial[Peer(x)]
        /\ completed'[Peer(x)] = completed[Peer(x)] /\ delivered'[Peer(x)] = delivered[Peer(x)]
    <3>1. CASE UNCHANGED <<ackVars, receiverVars>>
      BY <3>1 DEF ackVars, receiverVars
    <3>2. CASE ReceiveFragment(x, f.frag)
      BY <1>1, <3>2 DEF ReceiveFragment, HandOver, TypeOK, receiverVars
    <3> QED BY <1>4, <3>1, <3>2 DEF Receive, ackVars, receiverVars
  <2>3. Acked(x)' \subseteq Acked(x) /\ \A n, i : Held(x, n, i)' <=> Held(x, n, i)
    BY <1>2, <2>2 DEF Acked, Held, QueuedAcks
  <2>4. pending'[x] \subseteq pending[x]
    BY <2>1 DEF Unacked
  <2>5. Cut(x)' \subseteq Cut(x)
    BY <1>2, <2>4 DEF Cut
  <2>6. \A p \in pending[x] : p \in pending'[x] \/ Held(x, p.frag.msg, p.frag.idx)
    <3>1. AckedBy(f) \subseteq Acked(x)
      BY <1>4 DEF Acked
    <3>2. \A p \in pending[x] : p.frag \in Cut(x)
      BY DEF Cut
    <3> QED BY <2>1, <3>1, <3>2 DEF Unacked, LossInv
  <2> QED BY <1>1, <1>3, <2>3, <2>5, <2>6, LossKept
<1>5. CASE a = Peer(x)
  <2>1. pending'[x] = pending[x]
    BY <1>1, <1>5 DEF Receive, TypeOK
  <2>2. Cut(x)' \subseteq Cut(x)
    BY <1>2, <2>1 DEF Cut
  <2>3. CASE UNCHANGED <<ackVars, receiverVars>>
    <3>1. Acked(x)' \subseteq Acked(x) /\ \A n, i : Held(x, n, i)' <=> Held(x, n, i)
      BY <1>2, <2>3 DEF Acked, Held, QueuedAcks, ackVars, receiverVars
    <3> QED BY <1>1, <1>3, <2>1, <2>2, <3>1, LossKept
  <2>4. CASE f.kind = "data" /\ ReceiveFragment(Peer(x), f.frag)
    <3> DEFINE g == f.frag
    <3>1. g \in Cut(x) /\ g \in Frags
      <4>1. g \in Cut(x)
        BY <1>5, <2>4 DEF Cut
      <4> QED BY <4>1, CutTypes
    <3>2. Truthful(x, g)
      BY <1>1, <3>1, CutTruth
    <3> HIDE DEF g
    <3>3. ReceiveFragment(Peer(x), g)
      BY <2>4 DEF g
    <3>4. /\ \A n \in Nat : \A i : Held(x, n, i) => Held(x, n, i)'
          /\ (\A i \in 1..Len(seen[Peer(x)]) : seen[Peer(x)][i] # g.seq) => Held(x, g.msg, g.idx)'
      BY <1>1, <3>1, <3>2, <3>3, ReceiveHeld
    <3>5. Held(x, g.msg, g.idx)'
      <4>1. CASE \E i \in 1..Len(seen[Peer(x)]) : seen[Peer(x)][i] = g.seq
        <5>1. g.seq \in Acked(x)
          BY <4>1 DEF Acked
        <5>2. Held(x, g.msg, g.idx) /\ g.msg \in Nat
          BY <1>1, <3>1, <5>1, CutTruth DEF LossInv
        <5> QED BY <3>4, <5>2
      <4> QED BY <3>4, <4>1
    <3>6. \A h \in Cut(x) : h.seq = g.seq => Held(x, h.msg, h.idx)'
      BY <3>1, <3>5 DEF LossInv
    <3>7. Acked(x)' \subseteq Acked(x) \cup {g.seq}
      <4>1. {seen'[Peer(x)][i] : i \in 1..Len(seen'[Peer(x)])}
              \subseteq {seen[Peer(x)][i] : i \in 1..Len(seen[Peer(x)])} \cup {g.seq}
        <5>1. seen'[Peer(x)] = seen[Peer(x)] \/ seen'[Peer(x)] = Remember(seen[Peer(x)], g.seq)
          BY <1>1, <3>3 DEF ReceiveFragment, TypeOK, receiverVars
        <5>2. seen[Peer(x)] \in Seq(Ids) /\ g.seq \in Ids
          BY <1>1, <3>1 DEF TypeOK, Frags
        <5>3. {Remember(seen[Peer(x)], g.seq)[i] : i \in 1..Len(Remember(seen[Peer(x)], g.seq))}
                \subseteq {seen[Peer(x)][i] : i \in 1..Len(seen[Peer(x)])} \cup {g.seq}
          BY <5>2, Remembered
        <5> QED BY <5>1, <5>3
      <4>2. lastAckSeq'[Peer(x)] = g.seq
        BY <1>1, <3>3 DEF ReceiveFragment, TypeOK
      <4>3. QueuedAcks(Peer(x))' \subseteq QueuedAcks(Peer(x)) \cup {g.seq}
        <5>1. \A s \in Ids : s # g.seq => ackRepeats'[Peer(x)][s] = ackRepeats[Peer(x)][s]
          BY <1>1, <3>3 DEF ReceiveFragment, TypeOK
        <5> QED BY <5>1 DEF QueuedAcks
      <4> QED BY <1>2, <4>1, <4>2, <4>3 DEF Acked
    <3>8. g.seq < nextOrder[x]
      BY <3>1 DEF LossInv
    <3>9. /\ \A s \in Acked(x)' : s \in Acked(x) \/
               (s < nextOrder[x] /\ \A h \in Cut(x) : h.seq = s => Held(x, h.msg, h.idx)')
      BY <3>6, <3>7, <3>8
    <3> QED BY <1>1, <1>3, <2>1, <2>2, <3>4, <3>9, LossKept
  <2> QED BY <1>5, <2>3, <2>4 DEF Receive, ackVars, receiverVars
<1> QED BY <1>4, <1>5 DEF Ends, Peer

LEMMA LossStep ==
  ASSUME NoWrap, TypeOK, CarrierInv, NEW x \in Ends, FirstTrip(x) => LossInv(x), [Next]_vars
  PROVE  (FirstTrip(x) => LossInv(x))'
<1> SUFFICES ASSUME FirstTrip(x)' PROVE LossInv(x)'
  OBVIOUS
<1>1. nextOrder'[x] \in {nextOrder[x], nextOrder[x] + 1}
  <2>1. ASSUME NEW a \in Ends, EnqueueFragment(a) PROVE nextOrder'[x] \in {nextOrder[x], nextOrder[x] + 1}
    BY <2>1 DEF EnqueueFragment, TypeOK
  <2>2. ASSUME NEW a \in Ends,
               \/ Send(a) \/ TickAck(a) \/ TickIdle(a) \/ Close(a)
               \/ \E p \in pending[a] : Age(a, p) \/ TickData(a, p)
               \/ \E f \in net[a] : Receive(a, f) \/ Lose(a, f)
        PROVE  UNCHANGED nextOrder
    BY <2>2 DEF Send, TickAck, TickIdle, Close, Age, TickData, Receive, Lose, senderVars
  <2>3. UNCHANGED vars => UNCHANGED nextOrder
    BY DEF vars, senderVars
  <2> QED BY <2>1, <2>2, <2>3 DEF Next
<1>2. LossInv(x)
  BY <1>1, ConstantsAssumption DEF FirstTrip, TypeOK
<1>3. ASSUME NEW a \in Ends, EnqueueFragment(a) PROVE LossInv(x)'
  BY <1>2, <1>3, EnqueueLoss
<1>4. ASSUME NEW a \in Ends, NEW p \in pending[a], TickData(a, p) PROVE LossInv(x)'
  BY <1>2, <1>4, TickDataLoss
<1>5. ASSUME NEW a \in Ends, NEW f \in net[a], Receive(a, f) PROVE LossInv(x)'
  BY <1>2, <1>5, ReceiveLoss
<1>6. ASSUME NEW a \in Ends, Send(a) PROVE LossInv(x)'
  BY <1>2, <1>6, SendLoss
<1>7. ASSUME NEW a \in Ends, Close(a) PROVE LossInv(x)'
  BY <1>2, <1>7, CloseLoss
<1>8. ASSUME NEW a \in Ends,
             \/ TickAck(a) \/ TickIdle(a) \/ \E p \in pending[a] : Age(a, p)
             \/ \E f \in net[a] : Lose(a, f)
      PROVE  LossInv(x)'
  BY <1>2, <1>8, OtherLoss
<1>9. CASE UNCHANGED vars
  <2>1. UNCHANGED <<closed, nextSeq, nextOrder, log, sending, pending, net, receiverVars,
                    lastAckSeq, ackRepeats>>
    BY <1>9 DEF vars, senderVars, ackVars
  <2>2. Cut(x)' = Cut(x) /\ QueuedAcks(Peer(x))' = QueuedAcks(Peer(x)) /\ FragmentInv(x)
    BY <2>1 DEF Cut, QueuedAcks, CarrierInv
  <2>3. CASE closed'[x]
    BY <1>2, <2>1, <2>2, <2>3, QuietLoss
  <2>4. CASE ~closed[x]
    BY <1>2, <2>1, <2>2, <2>4, QuietLoss
  <2> QED BY <2>1, <2>3, <2>4
<1> QED BY <1>3, <1>4, <1>5, <1>6, <1>7, <1>8, <1>9 DEF Next

LEMMA InitLoss == Init => \A x \in Ends : LossInv(x)
<1> SUFFICES ASSUME Init, NEW x \in Ends PROVE LossInv(x)
  OBVIOUS
<1>1. Peer(x) \in Ends
  BY PeerFacts
<1>2. Cut(x) = {} /\ Len(log[x]) = 0 /\ nextSeq[x] = 1 /\ nextOrder[x] = 1
  BY <1>1 DEF Init, Cut
<1>3. Acked(x) = {}
  <2>1. Len(seen[Peer(x)]) = 0 /\ lastAckSeq[Peer(x)] = 0 /\ net[x] = {} /\ QueuedAcks(Peer(x)) = {}
    BY <1>1 DEF Init, QueuedAcks
  <2> QED BY <2>1 DEF Acked
<1> QED BY <1>2, <1>3 DEF LossInv, Kept

(* An acknowledgement never releases a fragment the peer does not hold: what
   an end has enqueued is pending for retransmission or has arrived until the
   end closes or its sequence numbers wrap, whatever the track loses, repeats
   or delays. *)
THEOREM NothingIsLost == NoWrap => (Spec => []((\A x \in Ends : FirstTrip(x)) => NothingLost))
<1> SUFFICES ASSUME NoWrap
             PROVE  Spec => []((\A x \in Ends : FirstTrip(x)) => NothingLost)
  OBVIOUS
<1> DEFINE LInv == \A x \in Ends : FirstTrip(x) => LossInv(x)
<1>1. Init => LInv
  BY InitLoss
<1>2. TypeOK /\ CarrierInv /\ LInv /\ [Next]_vars => LInv'
  <2> SUFFICES ASSUME TypeOK, CarrierInv, LInv, [Next]_vars, NEW x \in Ends
               PROVE  (FirstTrip(x) => LossInv(x))'
    OBVIOUS
  <2> QED BY LossStep
<1>3. TypeOK /\ CarrierInv /\ LInv => ((\A x \in Ends : FirstTrip(x)) => NothingLost)
  <2> SUFFICES ASSUME TypeOK, CarrierInv, NEW x \in Ends, LossInv(x), ~closed[x],
                      NEW n \in 1..Len(log[x]), NEW i \in 0..(Enqueued(x, n) - 1),
                      Held(x, n, i)
               PROVE  Arrived(x, n, i)
    BY DEF LossInv, Kept, NothingLost
  <2>1. ASSUME NEW m \in completed[Peer(x)], m.msg = n
        PROVE  \E j \in DOMAIN m.body : m.body[j] = <<n, i>>
    <3>1. m.body = Body(n, log[x][n])
      BY <2>1 DEF CarrierInv, FragmentInv, Message
    <3>2. log[x][n] \in Nat /\ Enqueued(x, n) \in Nat /\ Enqueued(x, n) <= log[x][n]
      <4>1. log[x][n] \in Nat
        <5>1. PICK s \in Seq(Sizes) : s = log[x]
          BY DEF TypeOK
        <5>2. s[n] \in Sizes
          BY <5>1, ElementOfSeq
        <5> QED BY <5>1, <5>2, ConstantsAssumption
      <4>2. CASE sending[x].n = n /\ sending[x] # Idle
        <5>1. sending[x].count = log[x][n] /\ sending[x].next \in 0..(sending[x].count - 1)
          BY <4>2 DEF CarrierInv, CallInv
        <5> QED BY <4>1, <4>2, <5>1 DEF Enqueued
      <4>3. CASE sending[x].n # n
        BY <4>1, <4>3 DEF Enqueued
      <4>4. Idle.n # n
        BY DEF Idle
      <4> QED BY <4>2, <4>3, <4>4
    <3>3. i + 1 \in 1..log[x][n] /\ (i + 1) - 1 = i
      BY <3>2
    <3> QED BY <3>1, <3>3 DEF Body
  <2> QED BY <2>1 DEF Held, Arrived
<1> HIDE DEF LInv
<1> QED BY <1>1, <1>2, <1>3, TypeCorrect, CarrierInvariant, PTL DEF Spec

-----------------------------------------------------------------------------
(* Refinement.  What e has sent, as the abstract channel sees it. *)

Sent(e) == [n \in 1..Len(log[e]) |-> Message(e, n)]

(* A send() is the channel's Send. *)
LEMMA SendRefines ==
  ASSUME TypeOK, NEW e \in Ends, NEW c \in Sizes, Len(log[e]) < MaxMsgs[e],
         log' = [log EXCEPT ![e] = Append(@, c)]
  PROVE  \E m \in Sendable(e) : Sent(e)' = Append(Sent(e), m)
<1>0. PICK L \in Nat : L = Len(log[e])
  BY LenProperties DEF TypeOK
<1> DEFINE m == Body(L + 1, c)
<1>1. L + 1 \in 1..MaxMsgs[e]
  BY <1>0, BoundsAssumption
<1>2. m \in Sendable(e)
  BY <1>1 DEF Sendable
<1>3. /\ Len(log'[e]) = L + 1 /\ log'[e][L + 1] = c
      /\ \A n \in 1..L : Message(e, n)' = Message(e, n)
  BY <1>0, Appended, ZenonT(30)
<1>4. Message(e, L + 1)' = m
  BY <1>3 DEF Message
<1> DEFINE T == {m} \cup {Message(e, n) : n \in 1..L}
<1>5. Sent(e) \in Seq(T) /\ Len(Sent(e)) = L
  <2>1. Sent(e) \in [1..L -> T]
    BY <1>0 DEF Sent
  <2> HIDE DEF T
  <2> QED BY <2>1, FunctionIsSeq
<1>6. Sent(e)' \in Seq(T) /\ Len(Sent(e)') = L + 1
  <2>1. Sent(e)' = [n \in 1..(L + 1) |-> Message(e, n)']
    BY <1>3 DEF Sent
  <2>2. \A n \in 1..(L + 1) : Message(e, n)' \in T
    <3>1. SUFFICES ASSUME NEW n \in 1..(L + 1) PROVE Message(e, n)' \in T
      OBVIOUS
    <3>2. n = L + 1 \/ n \in 1..L
      OBVIOUS
    <3>3. CASE n = L + 1
      BY <3>3, <1>4
    <3>4. CASE n \in 1..L
      BY <3>4, <1>3
    <3> QED BY <3>2, <3>3, <3>4
  <2>3. Sent(e)' \in [1..(L + 1) -> T]
    BY <2>1, <2>2
  <2>4. L + 1 \in Nat
    BY <1>1
  <2> HIDE DEF T
  <2> QED BY <2>3, <2>4, FunctionIsSeq
<1>7. \A n \in 1..(L + 1) : Sent(e)'[n] = IF n <= L THEN Sent(e)[n] ELSE m
  <2>1. SUFFICES ASSUME NEW n \in 1..(L + 1)
                 PROVE  Sent(e)'[n] = IF n <= L THEN Sent(e)[n] ELSE m
    OBVIOUS
  <2>2. Sent(e)'[n] = Message(e, n)'
    BY <1>3 DEF Sent
  <2>3. CASE n <= L
    <3>1. n \in 1..L
      BY <1>1, <2>3
    <3> QED BY <2>2, <2>3, <3>1, <1>0, <1>3 DEF Sent
  <2>4. CASE ~(n <= L)
    <3>1. n = L + 1
      BY <1>1, <2>4
    <3> QED BY <2>2, <2>4, <3>1, <1>4
  <2> QED BY <2>3, <2>4
<1>8. /\ Append(Sent(e), m) \in Seq(T) /\ Len(Append(Sent(e), m)) = L + 1
      /\ \A n \in 1..L : Append(Sent(e), m)[n] = Sent(e)[n]
      /\ Append(Sent(e), m)[L + 1] = m
  <2>1. m \in T
    OBVIOUS
  <2> HIDE DEF T, m
  <2> QED BY <1>5, <2>1, AppendProperties
<1>9. \A n \in 1..(L + 1) : Sent(e)'[n] = Append(Sent(e), m)[n]
  <2> HIDE DEF T, m
  <2>1. SUFFICES ASSUME NEW n \in 1..(L + 1) PROVE Sent(e)'[n] = Append(Sent(e), m)[n]
    OBVIOUS
  <2>2. (n \in 1..L /\ n <= L) \/ (n = L + 1 /\ ~(n <= L))
    BY <1>1
  <2> QED BY <2>2, <1>7, <1>8
<1>10. Sent(e)' = Append(Sent(e), m)
  <2> HIDE DEF T, m
  <2> QED BY <1>6, <1>8, <1>9, SeqEqual
<1> QED BY <1>2, <1>10

(* A longer prefix of the same sent messages is the channel's Deliver. *)
LEMMA DeliverRefines ==
  ASSUME TypeOK, TypeOK', NEW e \in Ends, HandOverInv(e), HandOverInv(e)',
         UNCHANGED log, Len(delivered[Peer(e)]) <= Len(delivered'[Peer(e)])
  PROVE  \/ delivered'[Peer(e)] = delivered[Peer(e)]
         \/ \E k \in (Len(delivered[Peer(e)]) + 1)..Len(Sent(e)) :
              delivered'[Peer(e)] = SubSeq(Sent(e), 1, k)
<1>1. Peer(e) \in Ends
  BY PeerFacts
<1>2. PICK old \in Seq(Bodies) : old = delivered[Peer(e)]
  BY <1>1 DEF TypeOK
<1>3. PICK new \in Seq(Bodies) : new = delivered'[Peer(e)]
  BY <1>1 DEF TypeOK
<1>4. PICK sent \in [1..Len(log[e]) -> {Message(e, n) : n \in 1..Len(log[e])}] :
        sent = Sent(e)
  BY DEF Sent
<1>5. PICK L \in Nat : L = Len(log[e])
  BY LenProperties DEF TypeOK
<1>6. /\ Len(old) \in Nat /\ Len(new) \in Nat
      /\ Len(old) <= Len(new) /\ Len(new) <= L
      /\ \A n \in 1..Len(old) : old[n] = Message(e, n)
      /\ \A n \in 1..Len(new) : new[n] = Message(e, n)
  <2>1. Len(old) \in Nat /\ Len(new) \in Nat
    BY LenProperties
  <2>2. \A n : Message(e, n)' = Message(e, n)
    BY SameLog
  <2> QED BY <1>2, <1>3, <1>5, <2>1, <2>2 DEF HandOverInv
<1>7. Len(sent) = L /\ \A n \in 1..L : sent[n] = Message(e, n)
  <2>1. Len(sent) = L
    BY <1>5, FunctionIsSeq
  <2> QED BY <1>4, <1>5, <2>1 DEF Sent
<1>8. CASE Len(new) = Len(old)
  <2>1. new = old
    BY <1>6, <1>8, SeqEqual
  <2> QED BY <1>2, <1>3, <2>1
<1>9. CASE Len(new) # Len(old)
  <2>1. PICK k \in (Len(old) + 1)..L : k = Len(new)
    BY <1>6, <1>9
  <2>2. k \in Nat /\ 1 <= k /\ k <= L /\ \A i \in 1..k : i \in 1..L
    BY <1>6, <2>1
  <2>3. /\ SubSeq(sent, 1, k) \in Seq(Bodies) /\ Len(SubSeq(sent, 1, k)) = k
        /\ \A i \in 1..k : SubSeq(sent, 1, k)[i] = sent[i]
    <3>1. \A i \in 1..k : sent[i] \in Bodies
      <4>1. \A i \in 1..k : sent[i] = new[i]
        BY <1>6, <1>7, <2>1, <2>2
      <4>2. \A i \in 1..k : new[i] \in Bodies
        BY <2>1, ElementOfSeq
      <4> QED BY <4>1, <4>2
    <3>2. 1 \in Int /\ k \in Int
      BY <2>2
    <3>3. /\ SubSeq(sent, 1, k) \in Seq(Bodies)
          /\ Len(SubSeq(sent, 1, k)) = IF 1 <= k THEN k - 1 + 1 ELSE 0
          /\ \A i \in 1..(k - 1 + 1) : SubSeq(sent, 1, k)[i] = sent[1 + i - 1]
      BY <3>1, <3>2, SubSeqProperties
    <3> QED BY <2>2, <3>3
  <2>4. new = SubSeq(sent, 1, k)
    <3>1. \A i \in 1..k : new[i] = SubSeq(sent, 1, k)[i]
      BY <1>6, <1>7, <2>1, <2>2, <2>3
    <3> QED BY <2>1, <2>3, <3>1, SeqEqual
  <2> QED BY <1>2, <1>3, <1>4, <1>7, <2>1, <2>4
<1> QED BY <1>8, <1>9

(* A step that neither sends nor hands over is a stutter of every channel. *)
LEMMA StutterRefines ==
  ASSUME UNCHANGED <<log, delivered>>, NEW e \in Ends
  PROVE  UNCHANGED Channel(e)!chanVars
BY DEF Channel!chanVars, Message

LEMMA ChannelStep ==
  ASSUME NoWrap, TypeOK, CarrierInv, [Next]_vars, NEW e \in Ends
  PROVE  [Channel(e)!Next]_(Channel(e)!chanVars)
<1>1. CASE UNCHANGED <<log, delivered>>
  BY <1>1, StutterRefines
<1>2. ASSUME NEW a \in Ends, Send(a)
      PROVE  [Channel(e)!Next]_(Channel(e)!chanVars)
  <2>1. UNCHANGED delivered
    BY <1>2 DEF Send, receiverVars
  <2>2. CASE UNCHANGED log
    BY <1>1, <2>1, <2>2
  <2>3. CASE ~UNCHANGED log
    <3>1. PICK c \in Sizes : log' = [log EXCEPT ![a] = Append(@, c)]
      BY <1>2, <2>3 DEF Send
    <3>2. CASE a = e
      <4>1. \E m \in Sendable(e) : Sent(e)' = Append(Sent(e), m)
        BY <1>2, <3>1, <3>2, SendRefines DEF Send
      <4> QED BY <2>1, <4>1 DEF Channel!Next, Channel!Send, Sent
    <3>3. CASE a # e
      <4>1. log'[e] = log[e]
        BY <3>1, <3>3 DEF TypeOK
      <4> QED BY <2>1, <4>1 DEF Channel!chanVars, Message
    <3> QED BY <3>2, <3>3
  <2> QED BY <2>2, <2>3
<1>3. ASSUME NEW r \in Ends, NEW f \in net[r], Receive(r, f)
      PROVE  [Channel(e)!Next]_(Channel(e)!chanVars)
  <2>1. UNCHANGED log /\ TypeOK' /\ CarrierInv'
    BY <1>3, NextType, CarrierStep DEF Receive, senderVars
  <2>2. CASE UNCHANGED receiverVars
    BY <1>1, <2>1, <2>2 DEF receiverVars
  <2>3. CASE f.kind = "data" /\ ReceiveFragment(r, f.frag)
    <3>1. PICK x \in Ends : r = Peer(x) /\ x = Peer(r) /\ x # r
      BY PeerFacts
    <3>2. f.frag \in Frags /\ Truthful(x, f.frag)
      <4>1. f \in Frames /\ f \in net[Peer(x)] /\ FragmentInv(x)
        BY <3>1 DEF TypeOK, CarrierInv
      <4> QED BY <2>3, <4>1 DEF Frames, FragmentInv
    <3>3. Len(delivered[r]) <= Len(delivered'[r]) /\ delivered'[x] = delivered[x]
      BY <2>1, <2>3, <3>1, <3>2, ReceiveFragmentInv
    <3>4. CASE e = x
      <4>1. \/ delivered'[r] = delivered[r]
            \/ \E k \in (Len(delivered[r]) + 1)..Len(Sent(e)) :
                 delivered'[r] = SubSeq(Sent(e), 1, k)
        BY <2>1, <3>1, <3>3, <3>4, DeliverRefines DEF CarrierInv
      <4>2. UNCHANGED Sent(e)
        BY <2>1 DEF Sent, Message
      <4> QED BY <3>1, <3>4, <4>1, <4>2
              DEF Channel!Next, Channel!Deliver, Channel!chanVars, Sent
    <3>5. CASE e # x
      <4>1. delivered'[Peer(e)] = delivered[Peer(e)]
        BY <3>1, <3>3, <3>5 DEF Ends, Peer
      <4> QED BY <2>1, <4>1 DEF Channel!chanVars, Message
    <3> QED BY <3>4, <3>5
  <2> QED BY <1>3, <2>2, <2>3 DEF Receive
<1>4. ASSUME NEW a \in Ends,
             \/ EnqueueFragment(a) \/ TickAck(a) \/ TickIdle(a) \/ Close(a)
             \/ \E p \in pending[a] : Age(a, p) \/ TickData(a, p)
             \/ \E f \in net[a] : Lose(a, f)
      PROVE  UNCHANGED <<log, delivered>>
  BY <1>4 DEF EnqueueFragment, TickAck, TickIdle, Close, Age, TickData, Lose,
              senderVars, receiverVars
<1>5. CASE UNCHANGED vars
  BY <1>1, <1>5 DEF vars, senderVars, receiverVars
<1> QED BY <1>1, <1>2, <1>3, <1>4, <1>5 DEF Next

(* The carrier implements, in each direction, a reliable, ordered,
   exactly-once channel: every step sends, delivers or stutters. *)
THEOREM CarrierRefinement == NoWrap => (Spec => ImplementsChannel)
<1> SUFFICES ASSUME NoWrap PROVE Spec => ImplementsChannel
  OBVIOUS
<1> DEFINE Steps == \A e \in Ends : [Channel(e)!Next]_(Channel(e)!chanVars)
           Starts == \A e \in Ends : Channel(e)!Init
<1>1. Init => Starts
  BY PeerFacts DEF Init, Channel!Init
<1>2. TypeOK /\ CarrierInv /\ [Next]_vars => [Steps]_vars
  BY ChannelStep
<1>3. Spec => []CarrierInv
  BY CarrierInvariant
<1>4. ImplementsChannel <=> Starts /\ [][Steps]_vars
  BY DEF ImplementsChannel
<1> HIDE DEF Steps, Starts
<1> QED BY <1>1, <1>2, <1>3, <1>4, TypeCorrect, PTL DEF Spec
=============================================================================
