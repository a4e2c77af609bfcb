---------------------------- MODULE MediaCarrier ----------------------------
(***************************************************************************)
(* The media-video packet carrier (shared/src/bale/media-video-carrier.ts):*)
(* two ends of a Meet call exchange messages over a video track whose      *)
(* frames may be lost, delayed, reordered or seen twice.  A message is cut *)
(* into fragments; every fragment is published until the peer acknowledges *)
(* its sequence number; the receiver reassembles messages and hands them   *)
(* to its handler in the order of their message ids.                       *)
(*                                                                         *)
(* Time is abstracted: a pending fragment is "new" (never published),      *)
(* "fresh" (published less than RETRANSMIT_MS ago) or "due" (longer ago).  *)
(* The payload of fragment i of an end's n-th message is the pair <<n, i>>.*)
(***************************************************************************)
EXTENDS Naturals, Sequences, FiniteSets

CONSTANTS IdSpace,    \* ids run 1..IdSpace and wrap to 1; 65535 in the code
          MaxPending, \* MAX_PENDING_PACKETS
          AckRepeat,  \* ACK_REPEAT_COUNT
          SeenWindow, \* how many received sequence numbers are remembered
          FragLimit,  \* most fragments of one message; 255 in the code
          Sizes,      \* the message lengths, in fragments, that are sent
          MaxMsgs,    \* bound: messages each end sends
          NetCap      \* bound: frames in flight towards each end

ASSUME ConstantsAssumption ==
  /\ IdSpace \in Nat \ {0} /\ MaxPending \in Nat \ {0}
  /\ AckRepeat \in Nat \ {0} /\ SeenWindow \in Nat \ {0}
  /\ FragLimit \in Nat \ {0} /\ Sizes \subseteq Nat \ {0}

Ends == {"client", "server"}
Peer(e) == IF e = "client" THEN "server" ELSE "client"

ASSUME BoundsAssumption == MaxMsgs \in [Ends -> Nat] /\ NetCap \in [Ends -> Nat]

Ids == 1..IdSpace

VARIABLES
  closed,      \* the closed flag of each end
  failed,      \* the transport above gave up after a send threw
  nextSeq, nextMsgId, nextOrder,
  sending,     \* the enqueueBytes call in progress
  pending,     \* pendingFragments
  ackRepeats,  \* per sequence number, how many ack frames still name it
  lastAckSeq,  \* 0 stands for null
  seen,        \* seenDataSeqs
  partial,     \* partialMessages: fragments of incomplete messages
  completed,   \* completedMessages: complete, waiting for their turn
  expected,    \* expectedMsgIds
  net,         \* frames in flight towards an end
  log,         \* history: number of fragments of each message accepted
  delivered    \* history: messages handed to the end's handler

senderVars   == <<failed, nextSeq, nextMsgId, nextOrder, sending, log>>
receiverVars == <<seen, partial, completed, expected, delivered>>
ackVars      == <<ackRepeats, lastAckSeq>>
vars == <<closed, senderVars, pending, ackVars, receiverVars, net>>

Idle == [n |-> 0, id |-> 0, count |-> 0, next |-> 0]

NoFrag == [seq |-> 0, msg |-> 0, idx |-> 0, count |-> 0, payload |-> <<0, 0>>]

(* nextU16: ids skip zero when they wrap. *)
NextId(i) == IF i = IdSpace THEN 1 ELSE i + 1

(* The id k places after i, for k no larger than the id space. *)
IdAfter(i, k) == IF i + k <= IdSpace THEN i + k ELSE i + k - IdSpace

(* The n-th message an end sends, as its receiver should reassemble it. *)
Body(n, c) == [i \in 1..c |-> <<n, i - 1>>]
Message(e, n) == Body(n, log[e][n])

(* Every message e can send within the bounds. *)
Sendable(e) == {Body(n, c) : n \in 1..MaxMsgs[e], c \in Sizes}

-----------------------------------------------------------------------------
Init ==
  /\ closed = [e \in Ends |-> FALSE]
  /\ failed = [e \in Ends |-> FALSE]
  /\ nextSeq = [e \in Ends |-> 1]
  /\ nextMsgId = [e \in Ends |-> 1]
  /\ nextOrder = [e \in Ends |-> 1]
  /\ sending = [e \in Ends |-> Idle]
  /\ pending = [e \in Ends |-> {}]
  /\ ackRepeats = [e \in Ends |-> [s \in Ids |-> 0]]
  /\ lastAckSeq = [e \in Ends |-> 0]
  /\ seen = [e \in Ends |-> <<>>]
  /\ partial = [e \in Ends |-> {}]
  /\ completed = [e \in Ends |-> {}]
  /\ expected = [e \in Ends |-> 1]
  /\ net = [e \in Ends |-> {}]
  /\ log = [e \in Ends |-> <<>>]
  /\ delivered = [e \in Ends |-> <<>>]

-----------------------------------------------------------------------------
(* Sending: enqueueBytes.  The transport publishes one packet at a time, so
   an end has at most one call in progress. *)

(* The call takes a message id before it looks at the length; a message of
   too many fragments throws with the id consumed, and the transport that
   called it closes. *)
Send(e) ==
  /\ ~closed[e] /\ ~failed[e] /\ sending[e] = Idle
  /\ Len(log[e]) < MaxMsgs[e]
  /\ nextMsgId' = [nextMsgId EXCEPT ![e] = NextId(@)]
  /\ \E c \in Sizes :
       \/ /\ c <= FragLimit
          /\ log' = [log EXCEPT ![e] = Append(@, c)]
          /\ sending' = [sending EXCEPT ![e] =
               [n |-> Len(log[e]) + 1, id |-> nextMsgId[e], count |-> c, next |-> 0]]
          /\ UNCHANGED failed
       \/ /\ c > FragLimit
          /\ failed' = [failed EXCEPT ![e] = TRUE]
          /\ UNCHANGED <<log, sending>>
  /\ UNCHANGED <<closed, nextSeq, nextOrder, pending, ackVars, receiverVars, net>>

(* One turn of the fragment loop, once waitForCapacity lets it through. *)
EnqueueFragment(e) ==
  LET c == sending[e]
      f == [seq |-> nextSeq[e], msg |-> c.id, idx |-> c.next, count |-> c.count,
            payload |-> <<c.n, c.next>>]
  IN /\ ~closed[e] /\ c # Idle
     /\ Cardinality(pending[e]) < MaxPending
     /\ pending' = [pending EXCEPT ![e] =
          {p \in @ : p.frag.seq # f.seq}
            \cup {[frag |-> f, order |-> nextOrder[e], age |-> "new"]}]
     /\ nextSeq' = [nextSeq EXCEPT ![e] = NextId(@)]
     /\ nextOrder' = [nextOrder EXCEPT ![e] = @ + 1]
     /\ sending' = [sending EXCEPT ![e] =
          IF c.next + 1 = c.count THEN Idle ELSE [c EXCEPT !.next = @ + 1]]
     /\ UNCHANGED <<closed, failed, nextMsgId, log, ackVars, receiverVars, net>>

(* RETRANSMIT_MS passes for a published fragment. *)
Age(e, p) ==
  /\ p.age = "fresh"
  /\ pending' = [pending EXCEPT ![e] = (@ \ {p}) \cup {[p EXCEPT !.age = "due"]}]
  /\ UNCHANGED <<closed, senderVars, ackVars, receiverVars, net>>

-----------------------------------------------------------------------------
(* The frame ticker: selectFramePacket picks one packet every 33 ms. *)

(* selectPendingFragment: the first fragment never published; if there is
   none, one that is due.  (The code takes the one published longest ago.) *)
Selectable(e) ==
  LET new == {p \in pending[e] : p.age = "new"}
  IN IF new # {} THEN {p \in new : \A q \in new : p.order <= q.order}
                 ELSE {p \in pending[e] : p.age = "due"}

QueuedAcks(e) == {s \in Ids : ackRepeats[e][s] > 0}

(* The piggybacked ack: the codec encodes "no ack" as 0xffff, so the last
   id of the space cannot be acknowledged this way. *)
PiggybackAck(e) == IF lastAckSeq[e] = IdSpace THEN 0 ELSE lastAckSeq[e]

Publish(e, f) ==
  /\ Cardinality(net[Peer(e)] \cup {f}) <= NetCap[Peer(e)]
  /\ net' = [net EXCEPT ![Peer(e)] = @ \cup {f}]

(* An ack frame names every queued sequence number and uses up one repeat
   of each.  Whether ACK_INTERVAL_MS has passed is left open, except that
   with no fragment to publish the ack frame is taken at once. *)
TickAck(e) ==
  /\ ~closed[e] /\ QueuedAcks(e) # {}
  /\ Publish(e, [kind |-> "ack", ackSeq |-> PiggybackAck(e),
                 acks |-> QueuedAcks(e), frag |-> NoFrag])
  /\ ackRepeats' = [ackRepeats EXCEPT ![e] =
       [s \in Ids |-> IF @[s] > 0 THEN @[s] - 1 ELSE 0]]
  /\ UNCHANGED <<closed, senderVars, pending, lastAckSeq, receiverVars>>

TickData(e, p) ==
  /\ ~closed[e] /\ p \in Selectable(e)
  /\ Publish(e, [kind |-> "data", ackSeq |-> PiggybackAck(e),
                 acks |-> {}, frag |-> p.frag])
  /\ pending' = [pending EXCEPT ![e] = (@ \ {p}) \cup {[p EXCEPT !.age = "fresh"]}]
  /\ UNCHANGED <<closed, senderVars, ackVars, receiverVars>>

(* Nothing to say: an ack frame that only repeats the piggybacked ack. *)
TickIdle(e) ==
  /\ ~closed[e] /\ QueuedAcks(e) = {} /\ Selectable(e) = {}
  /\ Publish(e, [kind |-> "ack", ackSeq |-> PiggybackAck(e),
                 acks |-> {}, frag |-> NoFrag])
  /\ UNCHANGED <<closed, senderVars, pending, ackVars, receiverVars>>

-----------------------------------------------------------------------------
(* Receiving: handlePacket. *)

(* Mutant: an acknowledgement is taken to be cumulative. *)
AckedBelow(f) == (1..f.ackSeq) \cup f.acks

(* markAcked, for the piggybacked ack and the ones an ack frame lists. *)
AckedBy(f) == ({f.ackSeq} \cup f.acks) \ {0}
Unacked(e, f) == {p \in pending[e] : p.frag.seq \notin AckedBy(f)}

(* Mutant: no received sequence number is remembered. *)
RememberNothing(s, seq) == s

(* rememberSeq: a window of the latest sequence numbers. *)
Remember(s, seq) ==
  LET t == Append(s, seq)
  IN IF Len(t) > SeenWindow THEN Tail(t) ELSE t

(* The fragments held for f's message once f has arrived; a different
   fragment count discards what was there. *)
SameMessage(e, f) == {g \in partial[e] : g.msg = f.msg}
Collected(e, f) ==
  {g \in SameMessage(e, f) : g.count = f.count /\ g.idx # f.idx} \cup {f}

IsComplete(parts, count) == \A i \in 0..(count - 1) : \E g \in parts : g.idx = i

Assembled(parts, count) ==
  [i \in 1..count |-> (CHOOSE g \in parts : g.idx = i - 1).payload]

(* bufferCompletedMessage: how many messages can now be handed over. *)
Ready(e, done, k) ==
  \A j \in 0..(k - 1) : \E m \in done : m.msg = IdAfter(expected[e], j)

(* Mutant: messages are handed over as they are completed. *)
HandOverAtOnce(e, done) ==
  \E m \in done \ completed[e] :
    /\ delivered' = [delivered EXCEPT ![e] = Append(@, m.body)]
    /\ expected' = [expected EXCEPT ![e] = IdAfter(m.msg, 1)]
    /\ UNCHANGED completed

(* The run of messages that are ready once `done` is stored is handed to
   the handler. *)
HandOver(e, done) ==
  \E k \in 0..IdSpace :
    /\ Ready(e, done, k) /\ (k = IdSpace \/ ~Ready(e, done, k + 1))
    /\ completed' = [completed EXCEPT ![e] =
         {m \in done : \A j \in 0..(k - 1) : m.msg # IdAfter(expected[e], j)}]
    /\ delivered' = [delivered EXCEPT ![e] =
         @ \o [j \in 1..k |->
                (CHOOSE m \in done : m.msg = IdAfter(expected[e], j - 1)).body]]
    /\ expected' = [expected EXCEPT ![e] = IdAfter(@, k)]

(* Mutant: only the first copy of a fragment is acknowledged. *)
ReceiveAckOnce(e, f) ==
  \/ /\ \E i \in 1..Len(seen[e]) : seen[e][i] = f.seq
     /\ UNCHANGED <<ackVars, receiverVars>>
  \/ /\ \A i \in 1..Len(seen[e]) : seen[e][i] # f.seq
     /\ ackRepeats' = [ackRepeats EXCEPT ![e][f.seq] = AckRepeat]
     /\ lastAckSeq' = [lastAckSeq EXCEPT ![e] = f.seq]
     /\ seen' = [seen EXCEPT ![e] = Remember(@, f.seq)]
     /\ LET parts == Collected(e, f)
        IN \/ /\ ~IsComplete(parts, f.count)
              /\ partial' = [partial EXCEPT ![e] = (@ \ SameMessage(e, f)) \cup parts]
              /\ UNCHANGED <<completed, expected, delivered>>
           \/ /\ IsComplete(parts, f.count)
              /\ partial' = [partial EXCEPT ![e] = @ \ SameMessage(e, f)]
              /\ HandOver(e, {m \in completed[e] : m.msg # f.msg}
                   \cup {[msg |-> f.msg, body |-> Assembled(parts, f.count)]})

ReceiveFragment(e, f) ==
  /\ lastAckSeq' = [lastAckSeq EXCEPT ![e] = f.seq]
  /\ ackRepeats' = [ackRepeats EXCEPT ![e][f.seq] = AckRepeat]
  /\ \/ /\ \E i \in 1..Len(seen[e]) : seen[e][i] = f.seq
        /\ UNCHANGED receiverVars
     \/ /\ \A i \in 1..Len(seen[e]) : seen[e][i] # f.seq
        /\ seen' = [seen EXCEPT ![e] = Remember(@, f.seq)]
        /\ LET parts == Collected(e, f)
           IN \/ /\ ~IsComplete(parts, f.count)
                 /\ partial' = [partial EXCEPT ![e] = (@ \ SameMessage(e, f)) \cup parts]
                 /\ UNCHANGED <<completed, expected, delivered>>
              \/ /\ IsComplete(parts, f.count)
                 /\ partial' = [partial EXCEPT ![e] = @ \ SameMessage(e, f)]
                 /\ HandOver(e, {m \in completed[e] : m.msg # f.msg}
                      \cup {[msg |-> f.msg, body |-> Assembled(parts, f.count)]})

(* A frame reaches its end.  The track may show it again later. *)
Receive(e, f) ==
  /\ f \in net[e]
  /\ net' \in {net, [net EXCEPT ![e] = @ \ {f}]}
  /\ \/ /\ closed[e]
        /\ UNCHANGED <<pending, ackVars, receiverVars>>
     \/ /\ ~closed[e]
        /\ pending' = [pending EXCEPT ![e] = Unacked(e, f)]
        /\ \/ f.kind = "ack" /\ UNCHANGED <<ackVars, receiverVars>>
           \/ f.kind = "data" /\ ReceiveFragment(e, f.frag)
  /\ UNCHANGED <<closed, senderVars>>

Lose(e, f) ==
  /\ f \in net[e]
  /\ net' = [net EXCEPT ![e] = @ \ {f}]
  /\ UNCHANGED <<closed, senderVars, pending, ackVars, receiverVars>>

(* close: the ticker stops, pending fragments and acks are dropped, and an
   enqueueBytes call that waits for capacity throws. *)
Close(e) ==
  /\ ~closed[e]
  /\ closed' = [closed EXCEPT ![e] = TRUE]
  /\ pending' = [pending EXCEPT ![e] = {}]
  /\ ackRepeats' = [ackRepeats EXCEPT ![e] = [s \in Ids |-> 0]]
  /\ sending' = [sending EXCEPT ![e] = Idle]
  /\ UNCHANGED <<failed, nextSeq, nextMsgId, nextOrder, log, lastAckSeq, receiverVars, net>>

-----------------------------------------------------------------------------
Next ==
  \E e \in Ends :
    \/ Send(e) \/ EnqueueFragment(e)
    \/ \E p \in pending[e] : Age(e, p) \/ TickData(e, p)
    \/ TickAck(e) \/ TickIdle(e)
    \/ Close(e)
    \/ \E f \in net[e] : Receive(e, f) \/ Lose(e, f)

Spec == Init /\ [][Next]_vars

(* What carries the messages of e to its peer.  The ticker runs every 33 ms
   and an ack frame is due at most every 50 ms, so neither acks nor fragments
   are kept waiting for ever.  The network may lose any frame, but not every
   data frame, and not every frame that acknowledges something; frames do
   not stay in it for ever.  With several fragments pending this would have
   to hold of each of them. *)
FlowFrom(e) ==
  LET r == Peer(e)
  IN /\ WF_vars(EnqueueFragment(e))
     /\ WF_vars(\E p \in pending[e] : Age(e, p))
     /\ SF_vars(\E p \in pending[e] : TickData(e, p))
     /\ SF_vars(TickAck(r))
     /\ SF_vars(\E f \in net[r] : f.kind = "data" /\ Receive(r, f))
     /\ SF_vars(\E f \in net[e] : AckedBy(f) # {} /\ Receive(e, f))
     /\ WF_vars(\E f \in net[e] : Lose(e, f))
     /\ WF_vars(\E f \in net[r] : Lose(r, f))

Senders == {e \in Ends : MaxMsgs[e] > 0}
Fairness == \A e \in Senders : FlowFrom(e)

FairSpec == Spec /\ Fairness

-----------------------------------------------------------------------------
(* Type invariant. *)
Frags == [seq : Ids, msg : Ids, idx : Nat, count : Sizes, payload : Nat \X Nat]
Pendings == [frag : Frags, order : Nat, age : {"new", "fresh", "due"}]
Calls == {Idle} \cup [n : Nat, id : Ids, count : Sizes, next : Nat]
Bodies == Seq(Nat \X Nat)
Messages == [msg : Ids, body : Bodies]
Frames ==
  [kind : {"ack"}, ackSeq : 0..IdSpace, acks : SUBSET Ids, frag : {NoFrag}]
    \cup [kind : {"data"}, ackSeq : 0..IdSpace, acks : {{}}, frag : Frags]

TypeOK ==
  /\ closed \in [Ends -> BOOLEAN] /\ failed \in [Ends -> BOOLEAN]
  /\ nextSeq \in [Ends -> Ids] /\ nextMsgId \in [Ends -> Ids]
  /\ nextOrder \in [Ends -> Nat]
  /\ sending \in [Ends -> Calls]
  /\ pending \in [Ends -> SUBSET Pendings]
  /\ ackRepeats \in [Ends -> [Ids -> Nat]]
  /\ lastAckSeq \in [Ends -> 0..IdSpace]
  /\ seen \in [Ends -> Seq(Ids)]
  /\ partial \in [Ends -> SUBSET Frags]
  /\ completed \in [Ends -> SUBSET Messages]
  /\ expected \in [Ends -> Ids]
  /\ net \in [Ends -> SUBSET Frames]
  /\ log \in [Ends -> Seq(Sizes)]
  /\ delivered \in [Ends -> Seq(Bodies)]

(* Messages reach the peer's handler whole, in the order they were sent,
   none of them twice and none of them skipped: what bufferCompletedMessage
   has handed over is always a prefix of what send() accepted. *)
InOrder ==
  \A e \in Ends :
    LET got == delivered[Peer(e)]
    IN /\ Len(got) <= Len(log[e])
       /\ \A n \in 1..Len(got) : got[n] = Message(e, n)

(* Why InOrder holds while the message ids have not wrapped: every fragment
   of e, wherever it is, tells the truth about the message it belongs to, so
   what its peer reassembles is what was sent, and the id the peer expects
   next counts the messages it has handed over. *)
Truthful(e, f) ==
  /\ f.msg \in 1..Len(log[e]) /\ f.count = log[e][f.msg]
  /\ f.idx \in 0..(f.count - 1) /\ f.payload = <<f.msg, f.idx>>

CallInv(e) ==
  /\ Len(log[e]) <= MaxMsgs[e]
  /\ ~failed[e] => nextMsgId[e] = Len(log[e]) + 1
  /\ sending[e] # Idle =>
       LET c == sending[e]
       IN /\ c.n \in 1..Len(log[e]) /\ c.id = c.n /\ c.count = log[e][c.n]
          /\ c.next \in 0..(c.count - 1)

FragmentInv(e) ==
  LET r == Peer(e)
  IN /\ \A p \in pending[e] : Truthful(e, p.frag)
     /\ \A f \in net[r] : f.kind = "data" => Truthful(e, f.frag)
     /\ \A g \in partial[r] : Truthful(e, g)
     /\ \A m \in completed[r] :
          m.msg \in 1..Len(log[e]) /\ m.body = Message(e, m.msg)

HandOverInv(e) ==
  LET got == delivered[Peer(e)]
  IN /\ expected[Peer(e)] = Len(got) + 1
     /\ Len(got) <= Len(log[e])
     /\ \A n \in 1..Len(got) : got[n] = Message(e, n)

CarrierInv == \A e \in Ends : CallInv(e) /\ FragmentInv(e) /\ HandOverInv(e)

(* Fragment i of the n-th message of e is at the receiver: still partial,
   complete and waiting, or delivered. *)
Arrived(e, n, i) ==
  LET r == Peer(e)
  IN \/ n <= Len(delivered[r])
     \/ \E m \in completed[r] : \E j \in DOMAIN m.body : m.body[j] = <<n, i>>
     \/ \E g \in partial[r] : g.payload = <<n, i>>

(* How many fragments of its n-th message e has put into pendingFragments. *)
Enqueued(e, n) == IF sending[e].n = n THEN sending[e].next ELSE log[e][n]

(* An acknowledgement never releases a fragment the peer does not hold:
   until the end closes, every fragment it has enqueued is still pending
   for retransmission or has arrived. *)
NothingLost ==
  \A e \in Ends : ~closed[e] =>
    \A n \in 1..Len(log[e]) : \A i \in 0..(Enqueued(e, n) - 1) :
      \/ \E p \in pending[e] : p.frag.payload = <<n, i>>
      \/ Arrived(e, n, i)

(* Unless an end closes, whatever the network loses short of everything:
   every send() returns, every message it accepted reaches the peer's
   handler, and retransmission stops.  Waiting for capacity, the limited ack
   repeats and the id that cannot be piggybacked never wedge the carrier. *)
AllDelivered(e) ==
  /\ sending[e] = Idle /\ pending[e] = {}
  /\ Len(delivered[Peer(e)]) = Len(log[e])
EventuallyDelivered ==
  \A e \in Ends : []<>(AllDelivered(e) \/ \E x \in Ends : closed[x])

(* Each direction implements the abstract channel. *)
Channel(e) == INSTANCE OrderedChannel WITH
  Messages <- Sendable(e),
  sent <- [n \in 1..Len(log[e]) |-> Message(e, n)],
  delivered <- delivered[Peer(e)]

(* The carrier, from client to server and from server to client, refines
   OrderedChannel: every step of the code sends, delivers or stutters. *)
ImplementsChannel ==
  /\ \A e \in Ends : Channel(e)!Init
  /\ [][\A e \in Ends : [Channel(e)!Next]_(Channel(e)!chanVars)]_vars
=============================================================================
