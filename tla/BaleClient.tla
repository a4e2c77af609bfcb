----------------------------- MODULE BaleClient -----------------------------
(***************************************************************************)
(* BaleClient of shared/src/bale/client.ts over grpc-web.ts: calls of the  *)
(* Bale API, each a POST of its own, the session they are made under, and  *)
(* the call pushes of the update socket.  Calls share nothing but the      *)
(* session, so one at a time is modelled.  Bale itself is external: it     *)
(* knows the documented messages (the field numbers of the interfaces in   *)
(* messages.ts), may order fields as it likes, may add fields nobody       *)
(* documented, and may refuse.                                             *)
(***************************************************************************)
EXTENDS BaleMessages

CONSTANTS
  Numbers, Texts, \* what the integer and text fields are filled with
  WrappedNames,   \* does Bale box the user names of LoadUsers?
  Debug           \* WT_DEBUG_BALE_WS

VARIABLES
  session,   \* this.session: Absent or what was granted
  call       \* the call or push under way, Absent if there is none

vars == <<session, call>>

-----------------------------------------------------------------------------
(* The documented messages: a sequence of fields with their numbers. *)

Entry(name, num, kind, type) == [name |-> name, num |-> num, kind |-> kind, type |-> type]
I(name, num) == Entry(name, num, "int", <<>>)
E(name, num) == Entry(name, num, "enum", <<>>)
Flag(name, num) == Entry(name, num, "bool", <<>>)
T(name, num) == Entry(name, num, "text", <<>>)
BoxedI(name, num) == Entry(name, num, "boxed int", <<>>)
BoxedT(name, num) == Entry(name, num, "boxed text", <<>>)
Part(name, num, type) == Entry(name, num, "message", type)
List(name, num, type) == Entry(name, num, "list", type)

PeerT == <<E("type", 1), I("id", 2), I("accessHash", 3)>>
ChatT == <<I("type", 1), I("id", 2)>>
ContentT == <<BoxedT("text", 15), Flag("empty", 5)>>
PairT == <<I("key", 1), I("value", 2)>>
MediaT == <<I("mediaFlag", 1)>>
UserT == <<I("id", 1), I("accessHash", 2), T("name", 3), BoxedT("username", 9)>>
NamedT == <<I("id", 1), I("accessHash", 2), T("name", 3),
            IF WrappedNames THEN BoxedT("username", 9) ELSE T("username", 9)>>
DialogT == <<Part("peer", 1, PeerT), I("unreadCount", 2), I("sortDate", 3), I("senderId", 4),
             I("messageId", 5), I("date", 6), Part("content", 7, ContentT)>>
MessageT == <<I("senderId", 1), I("messageId", 2), I("date", 3), Part("content", 4, ContentT)>>
CallT == <<I("callId", 1), T("jwt", 2), T("roomUuid", 3), BoxedT("baseUrl", 4),
           I("startedAtMs", 6), I("serverAuthTs", 8), Part("peer", 9, PeerT), E("state", 10)>>
PushT == <<I("callId", 1), T("roomUuid", 3), BoxedT("baseUrl", 4)>>

RequestType(m) ==
  CASE m = "StartPhoneAuth" -> <<I("phoneNumber", 1), I("appId", 2), T("appKey", 3), T("deviceHash", 4),
                                 T("deviceTitle", 5), I("sendCodeType", 9), Part("options", 10, PairT)>>
    [] m = "ValidateCode" -> <<T("transactionHash", 1), T("code", 2), Part("options", 3, PairT)>>
    [] m = "ValidatePassword" -> <<T("transactionHash", 1), T("password", 2), Part("options", 3, PairT)>>
    [] m = "LoadDialogs" -> <<I("offsetDate", 1), I("limit", 2), Flag("excludePinned", 5)>>
    [] m = "SendMessage" -> <<Part("peer", 1, PeerT), I("messageId", 2), Part("content", 3, ContentT),
                              Part("chat", 6, ChatT)>>
    [] m = "LoadUsers" -> <<List("peers", 1, <<I("id", 1), I("type", 2)>>)>>
    [] m = "LoadHistory" -> <<Part("peer", 1, PeerT), I("date", 2), I("loadMode", 4), I("limit", 5)>>
    [] m = "StartCall" -> <<Part("call", 6, <<Part("peer", 1, PeerT), I("rid", 2), Part("media", 4, MediaT)>>)>>
    [] m = "DiscardCall" -> <<I("callId", 1), I("reason", 3)>>
    [] m \in {"ReceiveCall", "GetWssURL"} -> <<I("callId", 1)>>
    [] m = "AcceptCall" -> <<I("callId", 1), Part("media", 2, MediaT)>>

AnswerType(m) ==
  CASE m = "StartPhoneAuth" -> <<T("transactionHash", 1), Flag("isRegistered", 2), E("sentCodeType", 5),
                                 BoxedI("codeExpirationDateMs", 6), E("nextSendCodeType", 7),
                                 BoxedI("codeTimeoutSec", 8)>>
    [] m \in {"ValidateCode", "ValidatePassword"} -> <<Part("user", 2, UserT), BoxedT("jwt", 4)>>
    [] m = "LoadDialogs" -> <<List("dialogs", 3, DialogT)>>
    [] m = "SendMessage" -> <<I("date", 1)>>
    [] m = "LoadUsers" -> <<List("users", 1, NamedT)>>
    [] m = "LoadHistory" -> <<List("messages", 1, MessageT)>>
    [] m \in {"StartCall", "AcceptCall"} -> <<Part("result", 1, CallT)>>
    [] m = "GetWssURL" -> <<BoxedT("baseUrl", 1)>>
    [] OTHER -> <<>>

Methods == {"StartPhoneAuth", "ValidateCode", "ValidatePassword", "LoadDialogs", "SendMessage", "LoadUsers",
            "LoadHistory", "StartCall", "DiscardCall", "ReceiveCall", "GetWssURL", "AcceptCall"}

Names(type) == {type[i].name : i \in DOMAIN type}
Called(type, name) == CHOOSE e \in ToSet(type) : e.name = name

\* Fields that are in no document, one of each wire type.
Undocumented == IntField(31, 4608) \o BytesField(30, <<255>>) \o Varint(8 * 29 + 1) \o [i \in 1..8 |-> 255]
                \o Varint(8 * 28 + 5) \o [i \in 1..4 |-> 255]

\* A message on the wire: in the order of the document, or the other way round
\* and with undocumented fields (odd).
RECURSIVE Written(_, _, _)
Written(type, v, odd) ==
  LET Of(e) ==
        LET x == v[e.name] IN
        CASE x = Absent -> <<>>
          [] x # Absent /\ e.kind \in {"int", "enum"} -> IntField(e.num, x)
          [] x # Absent /\ e.kind = "bool" -> IntField(e.num, IF x THEN 1 ELSE 0)
          [] x # Absent /\ e.kind = "text" -> BytesField(e.num, x)
          [] x # Absent /\ e.kind = "boxed int" -> BytesField(e.num, IntField(1, x))
          [] x # Absent /\ e.kind = "boxed text" -> BytesField(e.num, BytesField(1, x))
          [] x # Absent /\ e.kind = "message" -> BytesField(e.num, Written(e.type, x, odd))
          [] x # Absent /\ e.kind = "list" ->
               FlattenSeq([i \in DOMAIN x |-> BytesField(e.num, Written(e.type, x[i], odd))])
      parts == [i \in DOMAIN type |-> Of(type[i])]
  IN  IF odd THEN Undocumented \o FlattenSeq(Reverse(parts)) ELSE FlattenSeq(parts)

\* What Bale reads in the fields of a message of the client.
RECURSIVE Read(_, _)
Read(type, f) ==
  LET Of(e) ==
        CASE e.kind \in {"int", "enum"} -> IntOr(f, e.num, Absent)
          [] e.kind = "bool" -> IntOr(f, e.num, 0) = 1
          [] e.kind = "text" -> BytesOr(f, e.num, Absent)
          [] e.kind = "boxed text" -> MessageOr(f, e.num, DecodeStringValue, Absent)
          [] e.kind = "message" -> MessageOr(f, e.num, LAMBDA part : Read(e.type, part), Absent)
          [] e.kind = "list" -> ReadAll(LAMBDA part : Read(e.type, part), Messages(f, e.num))
  IN  [name \in Names(type) |-> Of(Called(type, name))]

\* Values of a message type: one with nothing in it, one with something else in every field.
RECURSIVE Blank(_), Filled(_, _, _)
Blank(type) == [name \in Names(type) |-> IF Called(type, name).kind = "list" THEN <<>> ELSE Absent]
Filled(type, n, t) ==
  LET Of(e) ==
        CASE e.kind \in {"int", "boxed int"} -> n + e.num
          [] e.kind = "enum" -> e.num
          [] e.kind = "bool" -> TRUE
          [] e.kind \in {"text", "boxed text"} -> Append(t, 64 + e.num)
          [] e.kind = "message" -> Filled(e.type, n + e.num, t)
          [] e.kind = "list" -> <<Filled(e.type, n, t), Blank(e.type), Filled(e.type, n + 1, t)>>
  IN  [name \in Names(type) |-> Of(Called(type, name))]

Values(type) ==
  LET full == {Filled(type, n, t) : n \in Numbers, t \in Texts} IN
  {Blank(type)} \cup full
  \cup {[v EXCEPT ![e.name] = Absent] : v \in full, e \in {e \in ToSet(type) : e.kind # "list"}}

-----------------------------------------------------------------------------
(* client.ts *)

\* The request a method builds from its arguments: a number, a text, a peer.
Request(m, n, t) ==
  LET peer == [type |-> 1, id |-> n, accessHash |-> IF n < 0 THEN Absent ELSE n + 1] IN
  CASE m = "StartPhoneAuth" -> [phoneNumber |-> n, appId |-> 4, appKey |-> <<67>>, deviceHash |-> t,
                                deviceTitle |-> <<68>>, sendCodeType |-> 0]
    [] m = "ValidateCode" -> [transactionHash |-> t, code |-> <<49>>]
    [] m = "ValidatePassword" -> [transactionHash |-> t, password |-> <<50>>]
    [] m = "LoadDialogs" -> [offsetDate |-> -1, limit |-> n, excludePinned |-> FALSE]
    [] m = "SendMessage" -> [peer |-> peer, messageId |-> n + 2, content |-> [text |-> t, empty |-> Absent],
                             chat |-> [type |-> 1, id |-> n]]
    [] m = "LoadUsers" -> [peers |-> <<[id |-> n, type |-> Absent], [id |-> n + 1, type |-> 1]>>]
    [] m = "LoadHistory" -> [peer |-> peer, date |-> n, loadMode |-> 2, limit |-> 40]
    [] m = "StartCall" -> [peer |-> peer, rid |-> n + 2, mediaFlag |-> 1]
    [] m = "DiscardCall" -> [callId |-> n, reason |-> 3]
    [] m \in {"ReceiveCall", "GetWssURL"} -> [callId |-> n]
    [] m = "AcceptCall" -> [callId |-> n, mediaFlag |-> 1]

Encode(m, r) ==
  CASE m = "StartPhoneAuth" -> EncodeStartPhoneAuth(r)
    [] m = "ValidateCode" -> EncodeValidateCode(r)
    [] m = "ValidatePassword" -> EncodeValidatePassword(r)
    [] m = "LoadDialogs" -> EncodeLoadDialogs(r)
    [] m = "SendMessage" -> EncodeSendMessage(r)
    [] m = "LoadUsers" -> EncodeLoadUsers(r)
    [] m = "LoadHistory" -> EncodeLoadHistory(r)
    [] m = "StartCall" -> EncodeStartCall(r)
    [] m = "DiscardCall" -> EncodeDiscardCall(r)
    [] m \in {"ReceiveCall", "GetWssURL"} -> EncodeCallId(r)
    [] m = "AcceptCall" -> EncodeAcceptCall(r)

Decode(m, f) ==
  CASE m = "StartPhoneAuth" -> DecodePhoneAuthResponse(f)
    [] m \in {"ValidateCode", "ValidatePassword"} -> DecodeValidateCodeResponse(f)
    [] m = "LoadDialogs" -> DecodeLoadDialogsResponse(f)
    [] m = "SendMessage" -> DecodeSendMessageResponse(f)
    [] m = "LoadUsers" -> DecodeLoadUsersResponse(f)
    [] m = "LoadHistory" -> DecodeLoadHistoryResponse(f)
    [] m \in {"StartCall", "AcceptCall"} -> DecodeStartCallResponse(f)
    [] m = "GetWssURL" -> DecodeGetWssURLResponse(f)
    [] OTHER -> Blank(AnswerType(m))

SignIn == {"ValidateCode", "ValidatePassword"}

\* Only signing in does without a session (requireAuth).
NeedsSession(m) == m \notin SignIn \cup {"StartPhoneAuth"}

-----------------------------------------------------------------------------
(* grpc-web.ts *)

\* A response: HTTP status, the status and reason in its headers, the frames of
\* its body.
Frame(trailer, content, status) == [trailer |-> trailer, content |-> content, status |-> status]

DataOf(frames) ==
  LET data == SelectSeq(frames, LAMBDA f : ~f.trailer) IN IF data = <<>> THEN <<>> ELSE Last(data).content
TrailerOf(frames) ==
  LET trailers == SelectSeq(frames, LAMBDA f : f.trailer) IN
  IF trailers = <<>> THEN Absent ELSE Last(trailers).status

\* Mutant: the headers come first.
HeadersFirst(answer) == IF answer.header # Absent THEN answer.header ELSE TrailerOf(answer.frames)

\* "0" for success, a reason for a refusal; a trailer comes before the headers.
StatusOf(answer) == IF TrailerOf(answer.frames) # Absent THEN TrailerOf(answer.frames) ELSE answer.header

Fails(answer) == answer.http # 200 \/ StatusOf(answer) \notin {Absent, "0"}

Failure(why) == [ok |-> FALSE, value |-> why]

\* The reasons handleValidateResponse knows, and what it makes of them.
Sentinel == [phone_code_invalid |-> "WRONG_CODE", wrong_code |-> "WRONG_CODE",
             password_needed |-> "PASSWORD_NEEDED", phone_number_unoccupied |-> "SIGN_UP_NEEDED",
             wrong_password |-> "WRONG_PASSWORD"]

\* What method m makes of a value, Absent if it could not be decoded.
Handled(m, value) ==
  IF value = Absent THEN Failure("thrown")
  ELSE IF m \in SignIn /\ (value.jwt \in {Absent, <<>>} \/ value.user = Absent) THEN Failure("UNKNOWN")
  ELSE [ok |-> TRUE, value |-> value]

Refusal(m, why) == Failure(IF m \in SignIn /\ why \in DOMAIN Sentinel THEN Sentinel[why] ELSE "thrown")

\* What a call of method m comes to with an answer: a value, an error of its own,
\* or a thrown one.
Outcome(m, answer) ==
  IF Fails(answer) THEN Refusal(m, StatusOf(answer))
  ELSE Handled(m, Decode(m, Fields[DataOf(answer.frames)]))

SessionOf(value) == [jwt |-> value.jwt, userId |-> value.user.id, userAccessHash |-> value.user.accessHash,
                     userName |-> IF value.user.name = <<>> THEN Absent ELSE value.user.name]
-----------------------------------------------------------------------------
(* Steps *)

Init == session = Absent /\ call = Absent

Saved == [jwt |-> <<83>>, userId |-> 1, userAccessHash |-> 2, userName |-> Absent]

LoadSession == session = Absent /\ session' = Saved /\ UNCHANGED call

Call(m, n, t) ==
  /\ call = Absent
  /\ NeedsSession(m) => session # Absent
  /\ call' = [method |-> m, at |-> "sent", asked |-> Request(m, n, t), wire |-> Encode(m, Request(m, n, t))]
  /\ UNCHANGED session

Asked == call # Absent /\ call.at = "sent"

Reply(meant, answer) == call' = [method |-> call.method, at |-> "answered", meant |-> meant, answer |-> answer]

\* Bale grants what was asked: the answer in a data frame, the status in a
\* trailer, in the headers or nowhere.
Granted(v, odd) ==
  /\ Asked
  /\ \E where \in {"trailer", "header", "nowhere"} :
       Reply([ok |-> TRUE, value |-> v],
             [http |-> 200, header |-> IF where = "header" THEN "0" ELSE Absent,
              frames |-> <<Frame(FALSE, Written(AnswerType(call.method), v, odd), Absent)>>
                         \o IF where = "trailer" THEN <<Frame(TRUE, <<>>, "0")>> ELSE <<>>])
  /\ UNCHANGED session

\* Bale refuses, with an HTTP status alone, or with the reason in the headers or in a trailer.
Refused(why) ==
  /\ Asked
  /\ \E answer \in {[http |-> 403, header |-> Absent, frames |-> <<>>],
                    [http |-> 200, header |-> why, frames |-> <<>>],
                    [http |-> 200, header |-> Absent, frames |-> <<Frame(TRUE, <<>>, why)>>],
                    [http |-> 200, header |-> "0",
                     frames |-> <<Frame(FALSE, <<>>, Absent), Frame(TRUE, <<>>, why)>>]} :
       Reply(Failure(why), answer)
  /\ UNCHANGED session

\* The request or its answer is lost: fetch throws, and so does the call.
Lost ==
  /\ Asked
  /\ call' = Absent
  /\ UNCHANGED session

\* An update frame with a call in it, which may be wrapped once more, or with something else.
Push(v, date, wrapped, odd) ==
  LET payload == Written(PushT, v, odd)
      update == BytesField(PushTag, IF wrapped THEN BytesField(1, payload) ELSE payload)
      body == BytesField(1, IF odd THEN Undocumented \o update ELSE update)
              \o (IF date = Absent THEN <<>> ELSE IntField(4, date))
  IN  /\ call = Absent /\ session # Absent
      /\ call' = [method |-> "Push", at |-> "answered", meant |-> [event |-> v, date |-> date],
                  answer |-> (IF odd THEN Undocumented ELSE <<>>) \o BytesField(2, BytesField(1, body))]
      /\ UNCHANGED session

\* What the listeners are given; a throw while the frame is described loses it.
Heard(frame) ==
  IF Debug /\ DescribeThrows(frame) THEN Absent ELSE DecodeIncomingCallEvent(frame)

\* The session a call leaves behind: signing in sets it.
SessionAfter(m, outcome) == IF m \in SignIn /\ outcome.ok THEN SessionOf(outcome.value) ELSE session

\* The answer is there: the caller has its value or error.
Arrives ==
  /\ call # Absent /\ call.at = "answered"
  /\ session' = IF call.method = "Push" THEN session
                ELSE SessionAfter(call.method, Outcome(call.method, call.answer))
  /\ call' = Absent

Next ==
  \/ LoadSession \/ Lost \/ Arrives
  \/ \E m \in Methods, n \in Numbers, t \in Texts : Call(m, n, t)
  \/ Asked /\ \E v \in Values(AnswerType(call.method)), odd \in BOOLEAN : Granted(v, odd)
  \/ \E why \in DOMAIN Sentinel \cup {"other"} : Refused(why)
  \/ \E v \in Values(PushT), date \in Numbers \cup {Absent}, wrapped, odd \in BOOLEAN :
       Push(v, date, wrapped, odd)

Spec == Init /\ [][Next]_vars

-----------------------------------------------------------------------------
(* Properties *)

\* What a request means by the document: fields the client wraps, and those it
\* fills in on its own.
Meant(m, r) ==
  LET media == [mediaFlag |-> 1] IN
  CASE m = "StartPhoneAuth" -> [options |-> [key |-> 0, value |-> 1]] @@ r
    [] m \in SignIn -> [options |-> [key |-> 1, value |-> 1]] @@ r
    [] m = "StartCall" -> [call |-> [peer |-> r.peer, rid |-> r.rid, media |-> media]]
    [] m = "AcceptCall" -> [callId |-> r.callId, media |-> media]
    [] m = "SendMessage" -> [r EXCEPT !.content.empty = FALSE]
    [] OTHER -> r

\* Every request on its way means to Bale what the caller asked for: the same
\* values in the documented fields, negative and large numbers included.
RequestUnderstood == Asked => Read(RequestType(call.method), Fields[call.wire]) = Meant(call.method, call.asked)

\* A decoded message says what was meant: the value of every field that was
\* sent, and nothing (a zero, an empty text) for a field that was not.
RECURSIVE Agrees(_, _, _)
Agrees(type, meant, shown) ==
  \A e \in ToSet(type) :
    LET g == meant[e.name]
        s == shown[e.name]
    IN  CASE g = Absent ->
               \/ s = Absent
               \/ e.kind \in {"int", "enum", "boxed int"} /\ s \in {0, -1}
               \/ e.kind \in {"text", "boxed text"} /\ s = <<>>
               \/ e.kind = "bool" /\ s = FALSE
               \/ e.kind = "message" /\ Agrees(e.type, Blank(e.type), s)
          [] g # Absent /\ e.kind = "message" -> Agrees(e.type, g, s)
          [] g # Absent /\ e.kind = "list" ->
               DOMAIN g = DOMAIN s /\ \A i \in DOMAIN g : Agrees(e.type, g[i], s[i])
          [] OTHER -> g = s

PushUnderstood(meant, heard) ==
  IF meant.event.callId = Absent THEN heard = Absent
  ELSE heard # Absent /\ Agrees(PushT, meant.event, heard) /\ heard.dateMs = meant.date

\* Signing in needs a user and a session key, a call its result.
Lacks(m, v) ==
  \/ m \in SignIn /\ (v.user = Absent \/ v.jwt = Absent)
  \/ m \in {"StartCall", "AcceptCall"} /\ v.result = Absent

\* The type and value of what the method hands to its caller.
Handed(m, v) ==
  IF m \in {"StartCall", "AcceptCall"} THEN <<CallT, v.result>> ELSE <<AnswerType(m), v>>

ReplyUnderstood(m, meant, got) ==
  IF ~meant.ok \/ Lacks(m, meant.value) THEN ~got.ok
  ELSE got.ok /\ Agrees(Handed(m, meant.value)[1], Handed(m, meant.value)[2], got.value)

\* An answer on its way will be understood: the caller gets exactly the values
\* Bale sent, whatever else is in the message and in whatever order; a refusal
\* never passes for success, wherever its status stands; and a call that rings
\* is heard, with its id, in either of the two nestings, and nothing else is.
AnswerUnderstood ==
  call # Absent /\ call.at = "answered" =>
    IF call.method = "Push" THEN PushUnderstood(call.meant, Heard(Fields[call.answer]))
    ELSE ReplyUnderstood(call.method, call.meant, Outcome(call.method, call.answer))
=============================================================================
