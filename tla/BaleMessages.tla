---------------------------- MODULE BaleMessages ----------------------------
(***************************************************************************)
(* The requests the client sends to Bale and its readings of the answers   *)
(* and of pushed updates: shared/src/bale/messages.ts and the decoder of   *)
(* update-socket.ts.  A message is a record; an optional field that is not *)
(* there has the value Absent.  A nested message is taken to be well       *)
(* formed, as Bale sends it.                                               *)
(***************************************************************************)
EXTENDS Protobuf

CONSTANT Absent    \* undefined, null

-----------------------------------------------------------------------------
(* Requests *)

\* A map field with a single entry.
EntryField(n, k, v) == BytesField(n, IntField(1, k) \o IntField(2, v))

EncodeStartPhoneAuth(r) ==
  IntField(1, r.phoneNumber) \o IntField(2, r.appId) \o BytesField(3, r.appKey)
  \o BytesField(4, r.deviceHash) \o BytesField(5, r.deviceTitle)
  \o IntField(9, r.sendCodeType) \o EntryField(10, 0, 1)

EncodeValidateCode(r) ==
  BytesField(1, r.transactionHash) \o BytesField(2, r.code) \o EntryField(3, 1, 1)

\* Mutant: the fields in the order of validate_password.py, the password first.
EncodePasswordFirst(r) ==
  BytesField(1, r.password) \o BytesField(2, r.transactionHash) \o EntryField(3, 1, 1)

EncodeValidatePassword(r) ==
  BytesField(1, r.transactionHash) \o BytesField(2, r.password) \o EntryField(3, 1, 1)

EncodePeer(p) ==
  IntField(1, p.type) \o IntField(2, p.id)
  \o (IF p.accessHash = Absent THEN <<>> ELSE IntField(3, p.accessHash))

EncodeChat(c) == IntField(1, c.type) \o IntField(2, c.id)

EncodeMessageContent(c) ==
  (IF c.text = Absent THEN <<>> ELSE BytesField(15, BytesField(1, c.text)))
  \o (IF c.empty = TRUE THEN IntField(5, 1) ELSE <<>>)

EncodeSendMessage(r) ==
  BytesField(1, EncodePeer(r.peer)) \o IntField(2, r.messageId)
  \o BytesField(3, EncodeMessageContent(r.content)) \o BytesField(6, EncodeChat(r.chat))

EncodeLoadDialogs(r) ==
  IntField(1, r.offsetDate) \o IntField(2, r.limit) \o IntField(5, IF r.excludePinned THEN 1 ELSE 0)

EncodeLoadHistory(r) ==
  BytesField(1, EncodePeer(r.peer)) \o IntField(2, r.date)
  \o IntField(4, r.loadMode) \o IntField(5, r.limit)

EncodeLoadUsers(r) ==
  FlattenSeq([i \in DOMAIN r.peers |->
    BytesField(1, IntField(1, r.peers[i].id)
                  \o (IF r.peers[i].type = Absent THEN <<>> ELSE IntField(2, r.peers[i].type)))])

EncodeStartCall(r) ==
  BytesField(6, BytesField(1, EncodePeer(r.peer)) \o IntField(2, r.rid)
                \o BytesField(4, IntField(1, r.mediaFlag)))

EncodeDiscardCall(r) == IntField(1, r.callId) \o IntField(3, r.reason)

\* ReceiveCall and GetWssURL
EncodeCallId(r) == IntField(1, r.callId)

EncodeAcceptCall(r) == IntField(1, r.callId) \o BytesField(2, IntField(1, r.mediaFlag))

-----------------------------------------------------------------------------
(* Answers *)

DecodeValueInt(f) ==
  LET found == SignedInts(f, 1) IN IF found = <<>> THEN Absent ELSE Head(found)

DecodeStringValue(f) ==
  LET found == Blocks(f, 1) IN IF found = <<>> THEN <<>> ELSE Head(found)

\* What stands in field 1 of the messages in field n.
Content(f) == Blocks(f, 1)
Inner(fields, n) == FlattenSeq(ReadAll(Content, Messages(fields, n)))

DecodePhoneAuthResponse(f) ==
  [transactionHash |-> BytesOr(f, 1, <<>>), isRegistered |-> RawOr(f, 2, 0) = 1,
   sentCodeType |-> RawOr(f, 5, Absent), codeExpirationDateMs |-> MessageOr(f, 6, DecodeValueInt, Absent),
   nextSendCodeType |-> RawOr(f, 7, Absent), codeTimeoutSec |-> MessageOr(f, 8, DecodeValueInt, Absent)]

DecodeUserAuth(f) ==
  [id |-> IntOr(f, 1, 0), accessHash |-> IntOr(f, 2, -1), name |-> BytesOr(f, 3, <<>>),
   username |-> MessageOr(f, 9, DecodeStringValue, Absent)]

DecodeValidateCodeResponse(f) ==
  [user |-> MessageOr(f, 2, DecodeUserAuth, Absent), jwt |-> MessageOr(f, 4, DecodeStringValue, Absent)]

NoPeer == [type |-> 0, id |-> 0, accessHash |-> Absent]

DecodePeer(f) ==
  [type |-> RawOr(f, 1, 0), id |-> IntOr(f, 2, 0), accessHash |-> IntOr(f, 3, Absent)]

NoContent == [text |-> Absent, empty |-> Absent]

DecodeMessageContent(f) ==
  [text |-> LastOr(Inner(f, 15), Absent),
   empty |-> IF \E i \in DOMAIN f : f[i].num = 5 THEN TRUE ELSE Absent]

DecodeSendMessageResponse(f) == [date |-> IntOr(f, 1, Absent)]

DecodePeerData(f) ==
  [peer |-> MessageOr(f, 1, DecodePeer, NoPeer), unreadCount |-> IntOr(f, 2, 0),
   sortDate |-> IntOr(f, 3, 0), senderId |-> IntOr(f, 4, 0), messageId |-> IntOr(f, 5, 0),
   date |-> IntOr(f, 6, 0), content |-> MessageOr(f, 7, DecodeMessageContent, NoContent)]

DecodeLoadDialogsResponse(f) == [dialogs |-> ReadAll(DecodePeerData, Messages(f, 3))]

DecodeHistoryMessage(f) ==
  [senderId |-> IntOr(f, 1, 0), messageId |-> IntOr(f, 2, 0), date |-> IntOr(f, 3, 0),
   content |-> MessageOr(f, 4, DecodeMessageContent, NoContent)]

DecodeLoadHistoryResponse(f) == [messages |-> ReadAll(DecodeHistoryMessage, Messages(f, 1))]

\* What TextDecoder with fatal accepts, for texts of one- and two-byte forms.
IsText(b) ==
  \A i \in DOMAIN b :
    \/ b[i] < 128
    \/ b[i] \in 194..223 /\ i < Len(b) /\ b[i + 1] \in 128..191
    \/ b[i] \in 128..191 /\ i > 1 /\ b[i - 1] \in 194..223

\* A user name may come as a text or as a boxed text: it is taken for a text
\* whenever its bytes are one.
Username(b) == IF IsText(b) THEN b ELSE BytesOr(Fields[b], 1, Absent)

DecodeBaleUser(f) ==
  [id |-> IntOr(f, 1, 0), accessHash |-> IntOr(f, 2, 0), name |-> BytesOr(f, 3, <<>>),
   username |-> LastOr(ReadAll(Username, Blocks(f, 9)), Absent)]

DecodeLoadUsersResponse(f) == [users |-> ReadAll(DecodeBaleUser, Messages(f, 1))]

DecodeStartCallResult(f) ==
  [callId |-> IntOr(f, 1, 0), jwt |-> BytesOr(f, 2, <<>>), roomUuid |-> BytesOr(f, 3, <<>>),
   baseUrl |-> LastOr(Inner(f, 4), <<>>), startedAtMs |-> IntOr(f, 6, 0),
   serverAuthTs |-> IntOr(f, 8, 0), peer |-> MessageOr(f, 9, DecodePeer, NoPeer), state |-> RawOr(f, 10, 0)]

\* Absent stands for the throw when the result is missing.
DecodeStartCallResponse(f) == MessageOr(f, 1, DecodeStartCallResult, Absent)

DecodeGetWssURLResponse(f) == [baseUrl |-> LastOr(Inner(f, 1), <<>>)]

-----------------------------------------------------------------------------
(* Pushed updates *)

CONSTANT PushTag   \* INCOMING_CALL_PUSH_TAG, 52807

\* The call id, room and address stand in the payload or in a payload of its own
\* in field 1.
RECURSIVE DecodeIncomingCallPayload(_, _)
DecodeIncomingCallPayload(f, dateMs) ==
  LET callId == IntOr(f, 1, Absent)
      nested == Messages(f, 1)
  IN  CASE callId # Absent ->
             [callId |-> callId, roomUuid |-> BytesOr(f, 3, <<>>),
              baseUrl |-> LastOr(Inner(f, 4), <<>>), dateMs |-> dateMs]
        [] callId = Absent /\ nested # <<>> -> DecodeIncomingCallPayload(Head(nested), dateMs)
        [] OTHER -> Absent

\* The fields of the first update body of a frame; field 1 holds the updates.
UpdateBody(frame) ==
  LET bodies == Inner(frame, 2) IN IF bodies = <<>> THEN <<>> ELSE Fields[Head(bodies)]

PayloadsIn(updates) == IF updates = <<>> THEN <<>> ELSE Messages(Head(updates), PushTag)

EventIn(body) ==
  LET payloads == PayloadsIn(Reverse(Messages(body, 1))) IN
  IF payloads = <<>> THEN Absent
  ELSE DecodeIncomingCallPayload(Head(payloads), IntOr(body, 4, Absent))

\* The event handed to the listeners, Absent if the frame is none.
DecodeIncomingCallEvent(frame) == EventIn(UpdateBody(frame))

\* The debugging line for a frame reads every part of a call as a message, the
\* room's name and the address too: does that throw?
DescribeThrows(frame) ==
  LET payloads == PayloadsIn(Messages(UpdateBody(frame), 1)) IN
  \/ Throws(frame)
  \/ /\ payloads # <<>>
     /\ \/ Throws(Head(payloads))
        \/ \E block \in ToSet(Head(payloads)) : block.wire = 2 /\ Throws(Fields[block.bytes])
=============================================================================
