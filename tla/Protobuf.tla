------------------------------ MODULE Protobuf ------------------------------
(***************************************************************************)
(* The protobuf wire format as shared/src/bale/proto.ts writes and reads   *)
(* it.  A byte string is a sequence of bytes, a text is its UTF-8 bytes.   *)
(* The widths are scaled down so that TLC can compute with them: the code  *)
(* has Group = 128, MaxGroups = 10 and Word = 2^64.                        *)
(***************************************************************************)
EXTENDS Integers, Sequences, SequencesExt

CONSTANTS
  Group,       \* values of one 7-bit group; a byte >= Group says that more follow
  MaxGroups,   \* groups a reader accepts before it throws
  Word         \* the width of an integer, as a number of values

\* As many values as n groups have.
Fit[n \in Nat] == IF n = 0 THEN 1 ELSE Group * Fit[n - 1]

ASSUME WidthsAssumption ==
  /\ Group \in Nat \ {0, 1} /\ MaxGroups \in Nat \ {0}
  /\ Word \in Nat \ {0} /\ Word % 2 = 0 /\ Word <= Fit[MaxGroups]

-----------------------------------------------------------------------------
(* Writer *)

VarintOf[v \in Nat] ==
  IF v < Group THEN <<v>> ELSE <<Group + (v % Group)>> \o VarintOf[v \div Group]

\* Negative values go out as their two's complement.
Varint(v) == VarintOf[IF v < 0 THEN v + Word ELSE v]

IntField(n, v) == Varint(8 * n) \o Varint(v)

BytesField(n, bytes) == Varint(8 * n + 2) \o Varint(Len(bytes)) \o bytes

-----------------------------------------------------------------------------
(* Reader *)

Bytes == Seq(Nat)

\* Where a varint at the head of b could end.
LastGroups(b) == {e \in 1..MaxGroups : e <= Len(b) /\ b[e] < Group}

HasVarint(b) == LastGroups(b) # {}

ValueOf[groups \in Bytes] ==
  IF groups = <<>> THEN 0 ELSE (Head(groups) % Group) + Group * ValueOf[Tail(groups)]

From(b, at) == SubSeq(b, at, Len(b))

\* The varint at the head of b and the bytes after it.
Leading(b) ==
  LET end == CHOOSE e \in LastGroups(b) : \A o \in LastGroups(b) : e <= o
  IN  [value |-> ValueOf[SubSeq(b, 1, end)], rest |-> From(b, end + 1)]

Signed(raw) == IF raw >= Word \div 2 THEN raw - Word ELSE raw

Field(n, w, v, bytes) == [num |-> n, wire |-> w, int |-> v, bytes |-> bytes]

\* What a loop over the fields meets where the reader throws.
Thrown == Field(0, 7, 0, <<>>)

One(field, rest) == [fields |-> <<field>>, rest |-> rest]

IntAfter(key, lead) == One(Field(key \div 8, 0, lead.value, <<>>), lead.rest)

BytesAfter(key, lead) ==
  IF lead.value > Len(lead.rest) THEN One(Thrown, <<>>)
  ELSE One(Field(key \div 8, 2, 0, SubSeq(lead.rest, 1, lead.value)), From(lead.rest, lead.value + 1))

\* The field with this key at the head of b.  Wire types 1 and 5 are skipped,
\* 3, 4, 6 and 7 throw.
FieldAfter(key, b) ==
  CASE key % 8 = 1 -> [fields |-> <<>>, rest |-> From(b, 9)]
    [] key % 8 = 5 -> [fields |-> <<>>, rest |-> From(b, 5)]
    [] key % 8 = 0 /\ HasVarint(b) -> IntAfter(key, Leading(b))
    [] key % 8 = 2 /\ HasVarint(b) -> BytesAfter(key, Leading(b))
    [] OTHER -> One(Thrown, <<>>)

FirstField(b) ==
  LET key == Leading(b) IN IF HasVarint(b) THEN FieldAfter(key.value, key.rest) ELSE One(Thrown, <<>>)

\* The fields of message b in order, up to and including the place where the
\* reader throws.
Fields[b \in Bytes] ==
  IF b = <<>> THEN <<>>
  ELSE LET first == FirstField(b) IN first.fields \o Fields[first.rest]

Throws(fields) == \E i \in DOMAIN fields : fields[i] = Thrown

Having(fields, n, w) == SelectSeq(fields, LAMBDA f : f.num = n /\ f.wire = w)

LastOr(found, default) == IF found = <<>> THEN default ELSE Last(found)

\* A decoder's loop keeps the last field of a number and wire type it knows.
Ints(fields, n) == LET found == Having(fields, n, 0) IN [i \in DOMAIN found |-> found[i].int]
RawOr(fields, n, default) == LastOr(Ints(fields, n), default)

SignedInts(fields, n) == LET found == Having(fields, n, 0) IN [i \in DOMAIN found |-> Signed(found[i].int)]
IntOr(fields, n, default) == LastOr(SignedInts(fields, n), default)

Blocks(fields, n) == LET found == Having(fields, n, 2) IN [i \in DOMAIN found |-> found[i].bytes]
BytesOr(fields, n, default) == LastOr(Blocks(fields, n), default)

\* The messages in the fields of number n, as their fields.
Messages(fields, n) == LET found == Having(fields, n, 2) IN [i \in DOMAIN found |-> Fields[found[i].bytes]]

ReadAll(Decode(_), messages) == [i \in DOMAIN messages |-> Decode(messages[i])]

MessageOr(fields, n, Decode(_), default) == LastOr(ReadAll(Decode, Messages(fields, n)), default)
=============================================================================
