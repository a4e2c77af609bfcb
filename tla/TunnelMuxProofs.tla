---------------------------- MODULE TunnelMuxProofs ----------------------------
(***************************************************************************)
(* Theorems about TunnelMux, for any limits, any number of streams, flows  *)
(* and chunks: control packets that overtake data leave the channel tables *)
(* of both ends in agreement, lose no chunk an end still waits for, and    *)
(* deliver each channel in order.                                          *)
(***************************************************************************)
EXTENDS TunnelMux, SequenceTheorems, TLAPS

USE LimitsAssumption

(* What a sequence s of packets holds of channel c. *)
Is(p, k, c) == p.kind = k /\ p.chan = c
Has(s, k, c) == \E i \in 1..Len(s) : Is(s[i], k, c)
Free(s, c) == \A i \in 1..Len(s) : s[i].chan # c

(* Nothing of the channel precedes its open. *)
OpenFirst(s, c) ==
  \A i, j \in 1..Len(s) : Is(s[i], "open", c) /\ j < i => s[j].chan # c

(* The data of c goes on from chunk a without a gap, up to chunk b at most. *)
InTurn(s, c, a, b) ==
  /\ \A i \in 1..Len(s) : IsData(s[i], c) =>
       /\ s[i].n \in (a + 1)..b
       /\ \A n \in (a + 1)..(s[i].n - 1) : \E j \in 1..(i - 1) : IsData(s[j], c) /\ s[j].n = n
  /\ \A i, j \in 1..Len(s) : i < j /\ IsData(s[i], c) /\ IsData(s[j], c) => s[i].n < s[j].n

-----------------------------------------------------------------------------
(* Sequences of packets. *)

LEMMA PacketTypes ==
  \A p \in Packets : /\ p.n \in Nat
                     /\ p.kind \in {"data", "open", "close"} => p.chan \in Channels
                     /\ p.kind \notin {"data", "open", "close"} => p.chan \notin Channels
<1>1. <<"tcp", 0>> \notin Channels
  BY DEF Channels
<1> QED BY <1>1 DEF Packets

LEMMA Appended ==
  ASSUME NEW s \in Seq(Packets), NEW p \in Packets, NEW c
  PROVE  /\ Append(s, p) \in Seq(Packets)
         /\ \A k : Has(Append(s, p), k, c) <=> Has(s, k, c) \/ Is(p, k, c)
         /\ Free(Append(s, p), c) <=> Free(s, c) /\ p.chan # c
         /\ OpenFirst(s, c) /\ (Is(p, "open", c) => Free(s, c)) => OpenFirst(Append(s, p), c)
<1> DEFINE t == Append(s, p)
<1>1. /\ t \in Seq(Packets) /\ Len(t) = Len(s) + 1 /\ t[Len(s) + 1] = p /\ Len(s) \in Nat
      /\ \A i \in 1..Len(s) : t[i] = s[i]
  OBVIOUS
<1>2. \A i \in 1..Len(t) : i \in 1..Len(s) \/ i = Len(s) + 1
  BY <1>1
<1>3. \A i \in 1..Len(s) : i \in 1..Len(t) /\ i < Len(t)
  BY <1>1
<1>4. Len(s) + 1 \in 1..Len(t)
  BY <1>1
<1> HIDE DEF t
<1>5. \A k : Has(t, k, c) <=> Has(s, k, c) \/ Is(p, k, c)
  BY <1>1, <1>2, <1>3, <1>4 DEF Has
<1>6. Free(t, c) <=> Free(s, c) /\ p.chan # c
  BY <1>1, <1>2, <1>3, <1>4 DEF Free
<1>7. OpenFirst(s, c) /\ (Is(p, "open", c) => Free(s, c)) => OpenFirst(t, c)
  <2> SUFFICES ASSUME OpenFirst(s, c), Is(p, "open", c) => Free(s, c),
                      NEW i \in 1..Len(t), NEW j \in 1..Len(t), Is(t[i], "open", c), j < i
               PROVE  t[j].chan # c
    BY DEF OpenFirst
  <2>1. j \in 1..Len(s)
    BY <1>1
  <2>2. CASE i \in 1..Len(s)
    BY <1>1, <2>1, <2>2 DEF OpenFirst
  <2>3. CASE i = Len(s) + 1
    BY <1>1, <2>1, <2>3 DEF Free
  <2> QED BY <1>2, <2>2, <2>3
<1> QED BY <1>1, <1>5, <1>6, <1>7 DEF t

LEMMA Removed ==
  ASSUME NEW s \in Seq(Packets), s # <<>>, NEW c
  PROVE  /\ Tail(s) \in Seq(Packets) /\ Head(s) \in Packets
         /\ \A k : Has(s, k, c) <=> Has(Tail(s), k, c) \/ Is(Head(s), k, c)
         /\ Free(s, c) <=> Free(Tail(s), c) /\ Head(s).chan # c
         /\ OpenFirst(s, c) => /\ OpenFirst(Tail(s), c)
                               /\ Head(s).chan = c => ~Has(Tail(s), "open", c)
<1> DEFINE t == Tail(s)
<1>1. /\ t \in Seq(Packets) /\ Head(s) \in Packets /\ Len(t) = Len(s) - 1 /\ Len(s) \in Nat
      /\ Head(s) = s[1] /\ \A i \in 1..Len(t) : t[i] = s[i + 1]
      /\ Len(s) >= 1
  OBVIOUS
<1>2. \A i \in 1..Len(s) : i = 1 \/ (i - 1 \in 1..Len(t) /\ t[i - 1] = s[i])
  BY <1>1
<1>3. \A i \in 1..Len(t) : i + 1 \in 1..Len(s)
  BY <1>1
<1>4. 1 \in 1..Len(s)
  BY <1>1
<1> HIDE DEF t
<1>5. \A k : Has(s, k, c) <=> Has(t, k, c) \/ Is(Head(s), k, c)
  BY <1>1, <1>2, <1>3, <1>4 DEF Has
<1>6. Free(s, c) <=> Free(t, c) /\ Head(s).chan # c
  BY <1>1, <1>2, <1>3, <1>4 DEF Free
<1>7. OpenFirst(s, c) => OpenFirst(t, c) /\ (Head(s).chan = c => ~Has(t, "open", c))
  <2> SUFFICES ASSUME OpenFirst(s, c)
               PROVE  OpenFirst(t, c) /\ (Head(s).chan = c => ~Has(t, "open", c))
    OBVIOUS
  <2>1. ASSUME NEW i \in 1..Len(t), NEW j \in 1..Len(t), Is(t[i], "open", c), j < i
        PROVE  t[j].chan # c
    BY <1>1, <1>3, <2>1 DEF OpenFirst
  <2>2. ASSUME NEW i \in 1..Len(t), Is(t[i], "open", c)
        PROVE  Head(s).chan # c
    BY <1>1, <1>3, <1>4, <2>2 DEF OpenFirst
  <2> QED BY <2>1, <2>2 DEF OpenFirst, Has
<1> QED BY <1>1, <1>5, <1>6, <1>7 DEF t

LEMMA Cut ==
  ASSUME NEW s \in Seq(Packets), NEW k \in 0..Len(s), NEW c
  PROVE  /\ SubSeq(s, 1, k) \in Seq(Packets)
         /\ \A x : Has(SubSeq(s, 1, k), x, c) => Has(s, x, c)
         /\ Free(s, c) => Free(SubSeq(s, 1, k), c)
         /\ OpenFirst(s, c) => OpenFirst(SubSeq(s, 1, k), c)
         /\ \A a, b \in Nat : InTurn(s, c, a, b) => InTurn(SubSeq(s, 1, k), c, a, b)
<1> DEFINE t == SubSeq(s, 1, k)
<1>1. /\ t \in Seq(Packets) /\ Len(t) = k /\ Len(s) \in Nat /\ k <= Len(s)
      /\ \A i \in 1..Len(t) : t[i] = s[i] /\ i \in 1..Len(s)
  OBVIOUS
<1> HIDE DEF t
<1>2. \A x : Has(t, x, c) => Has(s, x, c)
  BY <1>1 DEF Has
<1>3. Free(s, c) => Free(t, c)
  BY <1>1 DEF Free
<1>4. OpenFirst(s, c) => OpenFirst(t, c)
  BY <1>1 DEF OpenFirst
<1>5. ASSUME NEW a \in Nat, NEW b \in Nat, InTurn(s, c, a, b) PROVE InTurn(t, c, a, b)
  <2>1. ASSUME NEW i \in 1..Len(t), IsData(t[i], c)
        PROVE  /\ t[i].n \in (a + 1)..b
               /\ \A n \in (a + 1)..(t[i].n - 1) :
                    \E j \in 1..(i - 1) : IsData(t[j], c) /\ t[j].n = n
    <3>1. i \in 1..Len(s) /\ t[i] = s[i] /\ IsData(s[i], c)
      BY <1>1, <2>1
    <3>2. \A j \in 1..(i - 1) : t[j] = s[j]
      BY <1>1
    <3>3. /\ s[i].n \in (a + 1)..b
          /\ \A n \in (a + 1)..(s[i].n - 1) :
               \E j \in 1..(i - 1) : IsData(s[j], c) /\ s[j].n = n
      BY <1>5, <3>1, Zenon DEF InTurn
    <3> QED BY <3>1, <3>2, <3>3, Zenon
  <2>2. ASSUME NEW i \in 1..Len(t), NEW j \in 1..Len(t), i < j, IsData(t[i], c), IsData(t[j], c)
        PROVE  t[i].n < t[j].n
    BY <1>1, <1>5, <2>2 DEF InTurn
  <2> QED BY <2>1, <2>2 DEF InTurn
<1> QED BY <1>1, <1>2, <1>3, <1>4, <1>5 DEF t

LEMMA Joined ==
  ASSUME NEW s \in Seq(Packets), NEW t \in Seq(Packets), NEW c
  PROVE  /\ s \o t \in Seq(Packets)
         /\ \A k : Has(s \o t, k, c) <=> Has(s, k, c) \/ Has(t, k, c)
<1> DEFINE u == s \o t
<1>1. /\ u \in Seq(Packets) /\ Len(u) = Len(s) + Len(t) /\ Len(s) \in Nat /\ Len(t) \in Nat
      /\ \A i \in 1..Len(s) : u[i] = s[i] /\ i \in 1..Len(u)
      /\ \A i \in 1..Len(t) : u[i + Len(s)] = t[i] /\ i + Len(s) \in 1..Len(u)
  OBVIOUS
<1>2. \A i \in 1..Len(u) : i \in 1..Len(s) \/ (i - Len(s) \in 1..Len(t) /\ u[i] = t[i - Len(s)])
  BY <1>1
<1> HIDE DEF u
<1>3. \A k : Has(u, k, c) <=> Has(s, k, c) \/ Has(t, k, c)
  BY <1>1, <1>2 DEF Has
<1> QED BY <1>1, <1>3 DEF u

-----------------------------------------------------------------------------
(* Data. *)

LEMMA NoneCarried ==
  ASSUME NEW s \in Seq(Packets), NEW c, NEW a \in Nat,
         \A i \in 1..Len(s) : ~IsData(s[i], c)
  PROVE  Carries(s, c, a, a)
BY DEF Carries

LEMMA AppendCarried ==
  ASSUME NEW s \in Seq(Packets), NEW p \in Packets, NEW c, NEW a \in Nat, NEW b \in Nat,
         Carries(s, c, a, b)
  PROVE  /\ ~IsData(p, c) => Carries(Append(s, p), c, a, b)
         /\ IsData(p, c) /\ p.n = b + 1 => Carries(Append(s, p), c, a, b + 1)
<1> DEFINE t == Append(s, p)
<1>1. /\ t \in Seq(Packets) /\ Len(t) = Len(s) + 1 /\ t[Len(s) + 1] = p /\ Len(s) \in Nat
      /\ \A i \in 1..Len(s) : t[i] = s[i]
  OBVIOUS
<1>2. \A i \in 1..Len(t) : i \in 1..Len(s) \/ i = Len(s) + 1
  BY <1>1
<1>3. \A i \in 1..Len(s) : i \in 1..Len(t) /\ i < Len(t)
  BY <1>1
<1>4. Len(s) + 1 \in 1..Len(t)
  BY <1>1
<1> HIDE DEF t
<1>5. \A i, j \in 1..Len(t) : i < j => i \in 1..Len(s)
  BY <1>1
<1>6. CASE ~IsData(p, c)
  BY <1>1, <1>2, <1>3, <1>4, <1>6 DEF Carries, t
<1>7. CASE IsData(p, c) /\ p.n = b + 1
  <2>1. \A i \in 1..Len(t) : IsData(t[i], c) => t[i].n \in (a + 1)..(b + 1)
    BY <1>1, <1>2, <1>7 DEF Carries
  <2>2. \A n \in (a + 1)..(b + 1) : \E i \in 1..Len(t) : IsData(t[i], c) /\ t[i].n = n
    <3> SUFFICES ASSUME NEW n \in (a + 1)..(b + 1)
                 PROVE  \E i \in 1..Len(t) : IsData(t[i], c) /\ t[i].n = n
      OBVIOUS
    <3>1. CASE n = b + 1
      BY <1>1, <1>4, <1>7, <3>1
    <3>2. CASE n \in (a + 1)..b
      BY <1>1, <1>3, <3>2 DEF Carries
    <3> QED BY <3>1, <3>2
  <2>3. ASSUME NEW i \in 1..Len(t), NEW j \in 1..Len(t), i < j, IsData(t[i], c), IsData(t[j], c)
        PROVE  t[i].n < t[j].n
    <3>1. i \in 1..Len(s) /\ t[i] = s[i] /\ s[i].n \in (a + 1)..b
      BY <1>1, <1>5, <2>3 DEF Carries
    <3>2. CASE j \in 1..Len(s)
      BY <1>1, <2>3, <3>1, <3>2 DEF Carries
    <3>3. CASE j = Len(s) + 1
      BY <1>1, <1>7, <3>1, <3>3
    <3> QED BY <1>2, <3>2, <3>3
  <2>4. a <= b + 1
    BY DEF Carries
  <2> QED BY <1>7, <2>1, <2>2, <2>3, <2>4 DEF Carries, t
<1> QED BY <1>6, <1>7

LEMMA TailCarried ==
  ASSUME NEW s \in Seq(Packets), s # <<>>, NEW c, NEW a \in Nat, NEW b \in Nat,
         Carries(s, c, a, b)
  PROVE  /\ ~IsData(Head(s), c) => Carries(Tail(s), c, a, b)
         /\ IsData(Head(s), c) =>
              Head(s).n = a + 1 /\ a + 1 <= b /\ Carries(Tail(s), c, a + 1, b)
<1> DEFINE t == Tail(s)
<1>1. /\ t \in Seq(Packets) /\ Head(s) \in Packets /\ Len(t) = Len(s) - 1 /\ Len(s) \in Nat
      /\ Head(s) = s[1] /\ \A i \in 1..Len(t) : t[i] = s[i + 1]
      /\ Len(s) >= 1
  OBVIOUS
<1>2. \A i \in 1..Len(s) : i = 1 \/ (i - 1 \in 1..Len(t) /\ t[i - 1] = s[i])
  BY <1>1
<1>3. \A i \in 1..Len(t) : i + 1 \in 1..Len(s) /\ 1 < i + 1
  BY <1>1
<1>4. 1 \in 1..Len(s)
  BY <1>1
<1> HIDE DEF t
<1>5. ASSUME NEW i \in 1..Len(t), NEW j \in 1..Len(t), i < j, IsData(t[i], c), IsData(t[j], c)
      PROVE  t[i].n < t[j].n
  <2>1. i + 1 \in 1..Len(s) /\ j + 1 \in 1..Len(s) /\ i + 1 < j + 1
    BY <1>1, <1>3, <1>5
  <2>2. t[i] = s[i + 1] /\ t[j] = s[j + 1]
    BY <1>1
  <2> QED BY <1>5, <2>1, <2>2, Zenon DEF Carries
<1>6. CASE ~IsData(Head(s), c)
  <2>1. a <= b
    BY DEF Carries
  <2>2. \A i \in 1..Len(t) : IsData(t[i], c) => t[i].n \in (a + 1)..b
    BY <1>1, <1>3 DEF Carries
  <2>3. ASSUME NEW n \in (a + 1)..b
        PROVE  \E i \in 1..Len(t) : IsData(t[i], c) /\ t[i].n = n
    <3>1. PICK i \in 1..Len(s) : IsData(s[i], c) /\ s[i].n = n
      BY DEF Carries
    <3>2. i # 1
      BY <1>1, <1>6, <3>1
    <3> QED BY <1>2, <3>1, <3>2
  <2> QED BY <1>5, <1>6, <2>1, <2>2, <2>3, Zenon DEF Carries, t
<1>7. CASE IsData(Head(s), c)
  <2>1. s[1].n \in (a + 1)..b
    BY <1>1, <1>4, <1>7 DEF Carries
  <2>2. \A i \in 1..Len(s) : IsData(s[i], c) => s[i].n \in (a + 1)..b /\ (i # 1 => s[1].n < s[i].n)
    BY <1>1, <1>4, <1>7 DEF Carries
  <2>3. PICK k \in 1..Len(s) : IsData(s[k], c) /\ s[k].n = a + 1
    <3>1. a + 1 \in (a + 1)..b
      BY <2>1
    <3> QED BY <3>1 DEF Carries
  <2>4. s[1].n = a + 1
    BY <2>1, <2>2, <2>3
  <2>5. \A i \in 1..Len(t) : IsData(t[i], c) => t[i].n \in (a + 2)..b
    <3> SUFFICES ASSUME NEW i \in 1..Len(t), IsData(t[i], c)
                 PROVE  t[i].n \in (a + 2)..b
      OBVIOUS
    <3>1. i + 1 \in 1..Len(s) /\ i + 1 # 1 /\ t[i] = s[i + 1]
      BY <1>1, <1>3
    <3>2. s[i + 1].n \in (a + 1)..b /\ a + 1 < s[i + 1].n
      BY <2>2, <2>4, <3>1
    <3> QED BY <3>1, <3>2
  <2>6. \A n \in (a + 2)..b : \E i \in 1..Len(t) : IsData(t[i], c) /\ t[i].n = n
    <3> SUFFICES ASSUME NEW n \in (a + 2)..b
                 PROVE  \E i \in 1..Len(t) : IsData(t[i], c) /\ t[i].n = n
      OBVIOUS
    <3>1. PICK i \in 1..Len(s) : IsData(s[i], c) /\ s[i].n = n
      <4>1. n \in (a + 1)..b
        OBVIOUS
      <4> QED BY <4>1 DEF Carries
    <3>2. i # 1
      BY <2>4, <3>1
    <3> QED BY <1>2, <3>1, <3>2
  <2> QED BY <1>1, <1>5, <1>7, <2>1, <2>4, <2>5, <2>6 DEF Carries, t
<1> QED BY <1>6, <1>7

LEMMA JoinedCarried ==
  ASSUME NEW s \in Seq(Packets), NEW t \in Seq(Packets), NEW c,
         NEW a \in Nat, NEW m \in Nat, NEW b \in Nat, Carries(s, c, a, m), Carries(t, c, m, b)
  PROVE  Carries(s \o t, c, a, b)
<1> DEFINE u == s \o t
<1>1. /\ u \in Seq(Packets) /\ Len(u) = Len(s) + Len(t) /\ Len(s) \in Nat /\ Len(t) \in Nat
      /\ \A i \in 1..Len(s) : u[i] = s[i] /\ i \in 1..Len(u)
      /\ \A i \in 1..Len(t) : u[i + Len(s)] = t[i] /\ i + Len(s) \in 1..Len(u)
  OBVIOUS
<1>2. \A i \in 1..Len(u) : \/ i \in 1..Len(s) /\ u[i] = s[i]
                           \/ i - Len(s) \in 1..Len(t) /\ u[i] = t[i - Len(s)] /\ i > Len(s)
  BY <1>1
<1> HIDE DEF u
<1>3. \A i \in 1..Len(u) : IsData(u[i], c) =>
        IF i \in 1..Len(s) THEN u[i].n \in (a + 1)..m ELSE u[i].n \in (m + 1)..b
  BY <1>1, <1>2 DEF Carries
<1>4. a <= m /\ m <= b
  BY DEF Carries
<1>5. \A n \in (a + 1)..b : \E i \in 1..Len(u) : IsData(u[i], c) /\ u[i].n = n
  <2> SUFFICES ASSUME NEW n \in (a + 1)..b
               PROVE  \E i \in 1..Len(u) : IsData(u[i], c) /\ u[i].n = n
    OBVIOUS
  <2>1. CASE n \in (a + 1)..m
    BY <1>1, <2>1 DEF Carries
  <2>2. CASE n \in (m + 1)..b
    <3>1. PICK i \in 1..Len(t) : IsData(t[i], c) /\ t[i].n = n
      BY <2>2 DEF Carries
    <3> QED BY <1>1, <3>1
  <2> QED BY <1>4, <2>1, <2>2
<1>6. ASSUME NEW i \in 1..Len(u), NEW j \in 1..Len(u), i < j, IsData(u[i], c), IsData(u[j], c)
      PROVE  u[i].n < u[j].n
  <2>1. CASE j \in 1..Len(s)
    <3>1. i \in 1..Len(s)
      BY <1>1, <1>6, <2>1
    <3>2. u[i] = s[i] /\ u[j] = s[j]
      BY <1>1, <2>1, <3>1, Zenon
    <3> QED BY <1>6, <2>1, <3>1, <3>2, Zenon DEF Carries
  <2>2. CASE i \in 1..Len(s) /\ j \notin 1..Len(s)
    BY <1>3, <1>4, <1>6, <2>2
  <2>3. CASE i \notin 1..Len(s) /\ j \notin 1..Len(s)
    <3>1. /\ i - Len(s) \in 1..Len(t) /\ u[i] = t[i - Len(s)]
          /\ j - Len(s) \in 1..Len(t) /\ u[j] = t[j - Len(s)]
      BY <1>2, <2>3
    <3>2. i - Len(s) < j - Len(s)
      BY <1>1, <1>6
    <3> HIDE <1>1, <1>2
    <3> QED BY <1>6, <3>1, <3>2 DEF Carries
  <2> QED
    <3>1. j \in 1..Len(s) => i \in 1..Len(s)
      BY <1>1, <1>6
    <3> QED BY <2>1, <2>2, <2>3, <3>1
<1>7. \A i \in 1..Len(u) : IsData(u[i], c) => u[i].n \in (a + 1)..b
  BY <1>3, <1>4
<1>8. a <= b
  BY <1>4
<1> QED BY <1>5, <1>6, <1>7, <1>8, Zenon DEF Carries, u

LEMMA CarriedInTurn ==
  ASSUME NEW s \in Seq(Packets), NEW c, NEW a \in Nat, NEW b \in Nat, Carries(s, c, a, b)
  PROVE  InTurn(s, c, a, b)
<1> SUFFICES ASSUME NEW i \in 1..Len(s), IsData(s[i], c), NEW n \in (a + 1)..(s[i].n - 1)
             PROVE  \E j \in 1..(i - 1) : IsData(s[j], c) /\ s[j].n = n
  BY DEF Carries, InTurn
<1>1. s[i].n \in (a + 1)..b
  BY DEF Carries
<1>2. n \in (a + 1)..b /\ n < s[i].n
  BY <1>1
<1>3. PICK j \in 1..Len(s) : IsData(s[j], c) /\ s[j].n = n
  BY <1>2 DEF Carries
<1>4. i < j => s[i].n < s[j].n
  BY <1>3 DEF Carries
<1>5. j < i
  BY <1>1, <1>2, <1>3, <1>4
<1> QED BY <1>3, <1>5

LEMMA TailInTurn ==
  ASSUME NEW s \in Seq(Packets), s # <<>>, NEW c, NEW a \in Nat, NEW b \in Nat,
         InTurn(s, c, a, b)
  PROVE  /\ ~IsData(Head(s), c) => InTurn(Tail(s), c, a, b)
         /\ IsData(Head(s), c) =>
              Head(s).n = a + 1 /\ a + 1 <= b /\ InTurn(Tail(s), c, a + 1, b)
<1> DEFINE t == Tail(s)
           x == IF IsData(Head(s), c) THEN a + 1 ELSE a
<1>1. /\ t \in Seq(Packets) /\ Head(s) \in Packets /\ Len(t) = Len(s) - 1 /\ Len(s) \in Nat
      /\ Head(s) = s[1] /\ \A i \in 1..Len(t) : t[i] = s[i + 1]
      /\ Len(s) >= 1 /\ 1 \in 1..Len(s)
  OBVIOUS
<1>2. \A i \in 1..Len(t) : i + 1 \in 1..Len(s) /\ 1 < i + 1
  BY <1>1
<1> HIDE DEF t
<1>3. IsData(s[1], c) => s[1].n = a + 1 /\ a + 1 <= b
  <2> SUFFICES ASSUME IsData(s[1], c) PROVE s[1].n = a + 1 /\ a + 1 <= b
    OBVIOUS
  <2>1. /\ s[1].n \in (a + 1)..b
        /\ \A n \in (a + 1)..(s[1].n - 1) : \E j \in 1..(1 - 1) : IsData(s[j], c) /\ s[j].n = n
    BY <1>1, Zenon DEF InTurn
  <2>2. \A n \in (a + 1)..(s[1].n - 1) : FALSE
    BY <2>1
  <2> QED BY <2>1, <2>2
<1>4. ASSUME NEW i \in 1..Len(t), IsData(t[i], c)
      PROVE  /\ t[i].n \in (x + 1)..b
             /\ \A n \in (x + 1)..(t[i].n - 1) : \E j \in 1..(i - 1) : IsData(t[j], c) /\ t[j].n = n
  <2>1. i + 1 \in 1..Len(s) /\ t[i] = s[i + 1] /\ IsData(s[i + 1], c) /\ 1 < i + 1
    BY <1>1, <1>2, <1>4
  <2>2. /\ s[i + 1].n \in (a + 1)..b
        /\ \A n \in (a + 1)..(s[i + 1].n - 1) :
             \E j \in 1..((i + 1) - 1) : IsData(s[j], c) /\ s[j].n = n
    BY <2>1, Zenon DEF InTurn
  <2>3. IsData(s[1], c) => s[1].n < s[i + 1].n
    BY <1>1, <2>1, Zenon DEF InTurn
  <2>4. t[i].n \in (x + 1)..b
    BY <1>1, <1>3, <2>1, <2>2, <2>3
  <2>5. ASSUME NEW n \in (x + 1)..(t[i].n - 1)
        PROVE  \E j \in 1..(i - 1) : IsData(t[j], c) /\ t[j].n = n
    <3>1. n \in (a + 1)..(s[i + 1].n - 1) /\ (IsData(s[1], c) => n # s[1].n)
      BY <1>1, <1>3, <2>1, <2>2, <2>5
    <3>2. PICK j \in 1..((i + 1) - 1) : IsData(s[j], c) /\ s[j].n = n
      BY <2>2, <3>1
    <3>3. j # 1
      BY <3>1, <3>2
    <3>4. j - 1 \in 1..(i - 1) /\ j - 1 \in 1..Len(t) /\ (j - 1) + 1 = j
      BY <1>1, <3>2, <3>3
    <3>5. t[j - 1] = s[j]
      BY <1>1, <3>4
    <3> QED BY <3>2, <3>4, <3>5
  <2> QED BY <2>4, <2>5
<1>5. ASSUME NEW i \in 1..Len(t), NEW j \in 1..Len(t), i < j, IsData(t[i], c), IsData(t[j], c)
      PROVE  t[i].n < t[j].n
  <2>1. i + 1 \in 1..Len(s) /\ j + 1 \in 1..Len(s) /\ i + 1 < j + 1
    BY <1>1, <1>2, <1>5
  <2>2. t[i] = s[i + 1] /\ t[j] = s[j + 1]
    BY <1>1
  <2> QED BY <1>5, <2>1, <2>2, Zenon DEF InTurn
<1>6. InTurn(t, c, x, b)
  BY <1>4, <1>5, Zenon DEF InTurn
<1> QED BY <1>1, <1>3, <1>6 DEF t

-----------------------------------------------------------------------------
(* The way from one end to the other: the link l behind the queue q. *)

Queues == [busy : Seq(Packets), high : Seq(Packets), normal : Seq(Packets)]

WellQueued(q) ==
  /\ Len(q.busy) <= 1
  /\ q.busy = <<>> => q.high = <<>> /\ q.normal = <<>>
  /\ \A i \in 1..Len(q.high) : q.high[i].kind # "data"
  /\ \A i \in 1..Len(q.normal) : q.normal[i].kind = "data"

(* A packet of kind k that is not data is somewhere on the way. *)
Pends(l, q, k, c) == Has(l, k, c) \/ Has(q.busy, k, c) \/ Has(q.high, k, c)

Unused(l, q, c) == Free(l, c) /\ Free(q.busy, c) /\ Free(q.high, c) /\ Free(q.normal, c)

(* Nothing of the channel arrives before its open. *)
Ordered(l, q, c) ==
  /\ OpenFirst(l, c) /\ (Has(q.busy, "open", c) => Free(l, c))
  /\ OpenFirst(q.high, c) /\ (Has(q.high, "open", c) => Free(l, c) /\ Free(q.busy, c))

(* The chunks after a, up to b, are on the way in order. *)
Flow(l, q, c, a, b) ==
  \E m, n \in Nat : Carries(l, c, a, m) /\ Carries(q.busy, c, m, n) /\ Carries(q.normal, c, n, b)

LEMMA EmptySequence ==
  ASSUME NEW c
  PROVE  /\ <<>> \in Seq(Packets) /\ Free(<<>>, c) /\ OpenFirst(<<>>, c)
         /\ \A k : ~Has(<<>>, k, c)
         /\ \A a, b \in Nat : Carries(<<>>, c, a, b) <=> a = b
<1>1. <<>> \in Seq(Packets) /\ 1..Len(<<>>) = {}
  OBVIOUS
<1>2. ASSUME NEW a \in Nat, NEW b \in Nat PROVE Carries(<<>>, c, a, b) <=> a = b
  <2>1. a < b => a + 1 \in (a + 1)..b
    OBVIOUS
  <2>2. Carries(<<>>, c, a, b) => a = b
    BY <1>1, <2>1 DEF Carries
  <2>3. a = b => Carries(<<>>, c, a, b)
    BY <1>1 DEF Carries
  <2> QED BY <2>2, <2>3
<1> QED BY <1>1, <1>2, Zenon DEF Free, OpenFirst, Has

LEMMA Single ==
  ASSUME NEW p \in Packets, NEW c
  PROVE  /\ <<p>> \in Seq(Packets) /\ Len(<<p>>) = 1 /\ <<p>>[1] = p
         /\ Free(<<p>>, c) <=> p.chan # c
         /\ OpenFirst(<<p>>, c)
         /\ \A k : Has(<<p>>, k, c) <=> Is(p, k, c)
         /\ \A a \in Nat : ~IsData(p, c) => Carries(<<p>>, c, a, a)
         /\ \A a \in Nat : IsData(p, c) /\ p.n = a + 1 => Carries(<<p>>, c, a, a + 1)
<1>1. <<p>> \in Seq(Packets) /\ Len(<<p>>) = 1 /\ <<p>>[1] = p /\ <<p>> = Append(<<>>, p)
  OBVIOUS
<1>2. \A i \in 1..1 : i = 1
  OBVIOUS
<1>3. 1 \in 1..1 /\ ~(1 < 1)
  OBVIOUS
<1>4. Free(<<p>>, c) <=> p.chan # c
  BY <1>1, <1>2, <1>3, Zenon DEF Free
<1>5. OpenFirst(<<p>>, c)
  BY <1>1, <1>2, <1>3, Zenon DEF OpenFirst
<1>6. \A k : Has(<<p>>, k, c) <=> Is(p, k, c)
  BY <1>1, <1>2, <1>3, Zenon DEF Has
<1>7. ASSUME NEW a \in Nat
      PROVE  /\ ~IsData(p, c) => Carries(<<p>>, c, a, a)
             /\ IsData(p, c) /\ p.n = a + 1 => Carries(<<p>>, c, a, a + 1)
  <2>1. Carries(<<>>, c, a, a) /\ <<>> \in Seq(Packets)
    BY EmptySequence
  <2> QED BY <1>1, <2>1, AppendCarried
<1> QED BY <1>1, <1>4, <1>5, <1>6, <1>7

LEMMA EnqueueKeeps ==
  ASSUME NEW l \in Seq(Packets), NEW q \in Queues, NEW p \in Packets, WellQueued(q)
  PROVE  /\ Enqueue(q, p) \in Queues /\ WellQueued(Enqueue(q, p))
         /\ \A c, k : k # "data" =>
              (Pends(l, Enqueue(q, p), k, c) <=> Pends(l, q, k, c) \/ Is(p, k, c))
         /\ \A c : Unused(l, Enqueue(q, p), c) <=> Unused(l, q, c) /\ p.chan # c
         /\ \A c : Ordered(l, q, c) /\ (Is(p, "open", c) => Unused(l, q, c)) =>
              Ordered(l, Enqueue(q, p), c)
         /\ \A c, a : \A b \in Nat : Flow(l, q, c, a, b) =>
              /\ ~IsData(p, c) => Flow(l, Enqueue(q, p), c, a, b)
              /\ IsData(p, c) /\ p.n = b + 1 => Flow(l, Enqueue(q, p), c, a, b + 1)
<1> DEFINE r == Enqueue(q, p)
<1>q. q.busy \in Seq(Packets) /\ q.high \in Seq(Packets) /\ q.normal \in Seq(Packets)
  BY DEF Queues
<1>1. CASE q.busy = <<>>
  <2>1. /\ r.busy = <<p>> /\ r.high = <<>> /\ r.normal = <<>> /\ r \in Queues
        /\ q.high = <<>> /\ q.normal = <<>>
    <3>1. r = [q EXCEPT !.busy = <<p>>] /\ <<p>> \in Seq(Packets)
      BY <1>1, Single DEF Enqueue
    <3>2. r.busy = <<p>> /\ r.high = q.high /\ r.normal = q.normal /\ r \in Queues
      BY <1>q, <3>1 DEF Queues
    <3>3. q.high = <<>> /\ q.normal = <<>>
      BY <1>1 DEF WellQueued
    <3> QED BY <3>2, <3>3
  <2>2. WellQueued(r)
    BY <2>1, Single DEF WellQueued
  <2> HIDE DEF r
  <2>3. ASSUME NEW c
        PROVE  /\ \A k : Pends(l, r, k, c) <=> Pends(l, q, k, c) \/ Is(p, k, c)
               /\ Unused(l, r, c) <=> Unused(l, q, c) /\ p.chan # c
               /\ Ordered(l, q, c) /\ (Is(p, "open", c) => Unused(l, q, c)) => Ordered(l, r, c)
    <3>1. /\ Free(<<>>, c) /\ OpenFirst(<<>>, c) /\ \A k : ~Has(<<>>, k, c)
          /\ \A k : Has(<<p>>, k, c) <=> Is(p, k, c)
          /\ Free(<<p>>, c) <=> p.chan # c
      BY EmptySequence, Single, Zenon
    <3>2. \A k : Pends(l, r, k, c) <=> Pends(l, q, k, c) \/ Is(p, k, c)
      BY <1>1, <2>1, <3>1, Zenon DEF Pends
    <3>3. Unused(l, r, c) <=> Unused(l, q, c) /\ p.chan # c
      BY <1>1, <2>1, <3>1, Zenon DEF Unused
    <3>4. Ordered(l, q, c) /\ (Is(p, "open", c) => Unused(l, q, c)) => Ordered(l, r, c)
      BY <2>1, <3>1, Zenon DEF Unused, Ordered
    <3> QED BY <3>2, <3>3, <3>4
  <2>4. ASSUME NEW c, NEW a, NEW b \in Nat, Flow(l, q, c, a, b)
        PROVE  /\ ~IsData(p, c) => Flow(l, r, c, a, b)
               /\ IsData(p, c) /\ p.n = b + 1 => Flow(l, r, c, a, b + 1)
    <3>1. PICK m \in Nat, n \in Nat :
            Carries(l, c, a, m) /\ Carries(q.busy, c, m, n) /\ Carries(q.normal, c, n, b)
      BY <2>4 DEF Flow
    <3>2. m = n /\ n = b
      <4>1. Carries(<<>>, c, m, n) /\ Carries(<<>>, c, n, b)
        BY <1>1, <2>1, <3>1
      <4>2. (Carries(<<>>, c, m, n) <=> m = n) /\ (Carries(<<>>, c, n, b) <=> n = b)
        BY EmptySequence
      <4> QED BY <4>1, <4>2
    <3>3. CASE ~IsData(p, c)
      <4>1. Carries(r.busy, c, b, b) /\ Carries(r.normal, c, b, b)
        <5>1. Carries(<<p>>, c, b, b)
          BY <3>3, Single
        <5>2. Carries(<<>>, c, b, b)
          BY EmptySequence
        <5> QED BY <2>1, <5>1, <5>2, Zenon
      <4> QED BY <3>1, <3>2, <3>3, <4>1 DEF Flow
    <3>4. CASE IsData(p, c) /\ p.n = b + 1
      <4>1. b + 1 \in Nat
        OBVIOUS
      <4>2. Carries(r.busy, c, b, b + 1) /\ Carries(r.normal, c, b + 1, b + 1)
        <5>1. Carries(<<p>>, c, b, b + 1)
          BY <3>4, Single
        <5>2. Carries(<<>>, c, b + 1, b + 1)
          BY <4>1, EmptySequence
        <5> QED BY <2>1, <5>1, <5>2, Zenon
      <4> QED BY <3>1, <3>2, <3>4, <4>1, <4>2 DEF Flow
    <3> QED BY <3>3, <3>4
  <2> QED BY <2>1, <2>2, <2>3, <2>4 DEF r
<1>2. CASE q.busy # <<>> /\ p.kind = "data"
  <2>1. /\ r.busy = q.busy /\ r.high = q.high /\ r.normal = Append(q.normal, p) /\ r \in Queues
    <3>1. r = [q EXCEPT !.normal = Append(q.normal, p)] /\ Append(q.normal, p) \in Seq(Packets)
      BY <1>2, <1>q DEF Enqueue
    <3> QED BY <1>q, <3>1 DEF Queues
  <2>2. WellQueued(r)
    <3>1. \A i \in 1..Len(r.normal) : r.normal[i].kind = "data"
      BY <1>q, <1>2, <2>1 DEF WellQueued
    <3> QED BY <1>2, <2>1, <3>1 DEF WellQueued
  <2> HIDE DEF r
  <2>3. ASSUME NEW c
        PROVE  /\ \A k : k # "data" => (Pends(l, r, k, c) <=> Pends(l, q, k, c) \/ Is(p, k, c))
               /\ Unused(l, r, c) <=> Unused(l, q, c) /\ p.chan # c
               /\ Ordered(l, q, c) => Ordered(l, r, c)
    BY <1>2, <1>q, <2>1, Appended DEF Pends, Unused, Ordered, Is
  <2>4. ASSUME NEW c, NEW a, NEW b \in Nat, Flow(l, q, c, a, b)
        PROVE  /\ ~IsData(p, c) => Flow(l, r, c, a, b)
               /\ IsData(p, c) /\ p.n = b + 1 => Flow(l, r, c, a, b + 1)
    <3>1. PICK m \in Nat, n \in Nat :
            Carries(l, c, a, m) /\ Carries(q.busy, c, m, n) /\ Carries(q.normal, c, n, b)
      BY <2>4 DEF Flow
    <3>2. /\ ~IsData(p, c) => Carries(r.normal, c, n, b)
          /\ IsData(p, c) /\ p.n = b + 1 => Carries(r.normal, c, n, b + 1)
      BY <1>q, <2>1, <3>1, AppendCarried
    <3> QED BY <2>1, <3>1, <3>2 DEF Flow
  <2> QED BY <2>1, <2>2, <2>3, <2>4 DEF r
<1>3. CASE q.busy # <<>> /\ p.kind # "data"
  <2>1. /\ r.busy = q.busy /\ r.high = Append(q.high, p) /\ r.normal = q.normal /\ r \in Queues
    <3>1. r = [q EXCEPT !.high = Append(q.high, p)] /\ Append(q.high, p) \in Seq(Packets)
      BY <1>3, <1>q DEF Enqueue
    <3> QED BY <1>q, <3>1 DEF Queues
  <2>2. WellQueued(r)
    <3>1. \A i \in 1..Len(r.high) : r.high[i].kind # "data"
      BY <1>q, <1>3, <2>1 DEF WellQueued
    <3> QED BY <1>3, <2>1, <3>1 DEF WellQueued
  <2> HIDE DEF r
  <2>3. ASSUME NEW c
        PROVE  /\ \A k : Pends(l, r, k, c) <=> Pends(l, q, k, c) \/ Is(p, k, c)
               /\ Unused(l, r, c) <=> Unused(l, q, c) /\ p.chan # c
               /\ Ordered(l, q, c) /\ (Is(p, "open", c) => Unused(l, q, c)) => Ordered(l, r, c)
    <3>1. /\ \A k : Has(r.high, k, c) <=> Has(q.high, k, c) \/ Is(p, k, c)
          /\ Free(r.high, c) <=> Free(q.high, c) /\ p.chan # c
          /\ OpenFirst(q.high, c) /\ (Is(p, "open", c) => Free(q.high, c)) => OpenFirst(r.high, c)
      <4> DEFINE t == Append(q.high, p)
      <4>1. \A k : Has(t, k, c) <=> Has(q.high, k, c) \/ Is(p, k, c)
        BY <1>q, Appended
      <4>2. Free(t, c) <=> Free(q.high, c) /\ p.chan # c
        BY <1>q, Appended
      <4>3. OpenFirst(q.high, c) /\ (Is(p, "open", c) => Free(q.high, c)) => OpenFirst(t, c)
        BY <1>q, Appended
      <4> QED BY <2>1, <4>1, <4>2, <4>3, Zenon
    <3>2. \A k : Pends(l, r, k, c) <=> Pends(l, q, k, c) \/ Is(p, k, c)
      BY <2>1, <3>1, Zenon DEF Pends
    <3>3. Unused(l, r, c) <=> Unused(l, q, c) /\ p.chan # c
      BY <2>1, <3>1, Zenon DEF Unused
    <3>4. Ordered(l, q, c) /\ (Is(p, "open", c) => Unused(l, q, c)) => Ordered(l, r, c)
      BY <2>1, <3>1, Zenon DEF Unused, Ordered
    <3> QED BY <3>2, <3>3, <3>4
  <2>4. ASSUME NEW c, NEW a, NEW b \in Nat, Flow(l, q, c, a, b)
        PROVE  ~IsData(p, c) /\ Flow(l, r, c, a, b)
    BY <1>3, <2>1, <2>4 DEF Flow, IsData
  <2> QED BY <2>1, <2>2, <2>3, <2>4 DEF r
<1> QED BY <1>1, <1>2, <1>3

LEMMA MovedOn ==
  ASSUME NEW l \in Seq(Packets), NEW x \in Seq(Packets), Len(x) <= 1, NEW c
  PROVE  /\ Free(l \o x, c) <=> Free(l, c) /\ Free(x, c)
         /\ OpenFirst(l, c) /\ (Has(x, "open", c) => Free(l, c)) => OpenFirst(l \o x, c)
<1>1. CASE x = <<>>
  BY <1>1, EmptySequence
<1>2. CASE x # <<>>
  <2>1. PICK p \in Packets : x = <<p>>
    <3>1. Len(x) = 1 /\ x[1] \in Packets
      <4>1. Len(x) # 0 /\ Len(x) \in Nat
        BY <1>2, EmptySeq
      <4>2. \A n \in Nat : n # 0 /\ n <= 1 => n = 1
        OBVIOUS
      <4>3. Len(x) = 1
        BY <4>1, <4>2, Zenon
      <4>4. 1 \in 1..1
        OBVIOUS
      <4> QED BY <4>3, <4>4, ElementOfSeq
    <3>2. x = <<x[1]>>
      BY <3>1
    <3> QED BY <3>1, <3>2
  <2>2. l \o x = Append(l, p)
    BY <2>1
  <2>3. /\ Free(<<p>>, c) <=> p.chan # c
        /\ Has(<<p>>, "open", c) <=> Is(p, "open", c)
    BY Single
  <2>4. /\ Free(Append(l, p), c) <=> Free(l, c) /\ p.chan # c
        /\ OpenFirst(l, c) /\ (Is(p, "open", c) => Free(l, c)) => OpenFirst(Append(l, p), c)
    BY Appended
  <2> QED BY <2>1, <2>2, <2>3, <2>4, Zenon
<1> QED BY <1>1, <1>2

(* The packet being published arrives behind those on the link, and the next
   one follows it: a control packet, or else the oldest data. *)
LEMMA PublishKeeps ==
  ASSUME NEW l \in Seq(Packets), NEW q \in Queues, WellQueued(q), q.busy # <<>>
  PROVE  /\ l \o q.busy \in Seq(Packets) /\ Advance(q) \in Queues /\ WellQueued(Advance(q))
         /\ \A c, k : k # "data" =>
              (Pends(l \o q.busy, Advance(q), k, c) <=> Pends(l, q, k, c))
         /\ \A c : Unused(l, q, c) => Unused(l \o q.busy, Advance(q), c)
         /\ \A c : Ordered(l, q, c) => Ordered(l \o q.busy, Advance(q), c)
         /\ \A c : \A a, b \in Nat : Flow(l, q, c, a, b) =>
              Flow(l \o q.busy, Advance(q), c, a, b)
<1> DEFINE r == Advance(q)
           h == l \o q.busy
<1>q. q.busy \in Seq(Packets) /\ q.high \in Seq(Packets) /\ q.normal \in Seq(Packets)
  BY DEF Queues
<1>h. /\ h \in Seq(Packets) /\ Len(q.busy) <= 1
      /\ \A c, k : Has(h, k, c) <=> Has(l, k, c) \/ Has(q.busy, k, c)
      /\ \A c : Free(h, c) <=> Free(l, c) /\ Free(q.busy, c)
      /\ \A c : OpenFirst(l, c) /\ (Has(q.busy, "open", c) => Free(l, c)) => OpenFirst(h, c)
  <2>1. Len(q.busy) <= 1
    BY DEF WellQueued
  <2> QED BY <1>q, <2>1, Joined, MovedOn
<1>f. ASSUME NEW c, NEW a \in Nat, NEW b \in Nat, Flow(l, q, c, a, b)
      PROVE  \E n \in Nat : Carries(h, c, a, n) /\ Carries(q.normal, c, n, b)
  <2>1. PICK m \in Nat, n \in Nat :
          Carries(l, c, a, m) /\ Carries(q.busy, c, m, n) /\ Carries(q.normal, c, n, b)
    BY <1>f DEF Flow
  <2>2. Carries(h, c, a, n)
    BY <1>q, <2>1, JoinedCarried
  <2> QED BY <2>1, <2>2
<1>1. CASE q.high # <<>>
  <2> DEFINE p == Head(q.high)
  <2>p. p \in Packets /\ p.kind # "data" /\ Tail(q.high) \in Seq(Packets)
    BY <1>q, <1>1 DEF WellQueued
  <2>1. r.busy = <<p>> /\ r.high = Tail(q.high) /\ r.normal = q.normal /\ r \in Queues
    <3>1. r = [q EXCEPT !.busy = <<p>>, !.high = Tail(q.high)] /\ <<p>> \in Seq(Packets)
      BY <1>1, <2>p DEF Advance
    <3> QED BY <1>q, <2>p, <3>1 DEF Queues
  <2>2. WellQueued(r)
    <3>1. \A i \in 1..Len(r.high) : r.high[i].kind # "data"
      BY <1>q, <1>1, <2>1 DEF WellQueued
    <3>2. Len(<<p>>) = 1 /\ <<p>> # <<>>
      OBVIOUS
    <3> QED BY <2>1, <3>1, <3>2 DEF WellQueued
  <2> HIDE DEF r, h
  <2>3. ASSUME NEW c
        PROVE  /\ \A k : Has(<<p>>, k, c) <=> Is(p, k, c)
               /\ Free(<<p>>, c) <=> p.chan # c
               /\ \A k : Has(q.high, k, c) <=> Has(r.high, k, c) \/ Is(p, k, c)
               /\ Free(q.high, c) <=> Free(r.high, c) /\ p.chan # c
               /\ OpenFirst(q.high, c) => /\ OpenFirst(r.high, c)
                                          /\ p.chan = c => ~Has(r.high, "open", c)
    <3>1. /\ \A k : Has(<<p>>, k, c) <=> Is(p, k, c)
          /\ Free(<<p>>, c) <=> p.chan # c
      BY <2>p, Single, Zenon
    <3>2. \A k : Has(q.high, k, c) <=> Has(r.high, k, c) \/ Is(p, k, c)
      BY <1>q, <1>1, <2>1, Removed
    <3>3. Free(q.high, c) <=> Free(r.high, c) /\ p.chan # c
      BY <1>q, <1>1, <2>1, Removed
    <3>4. OpenFirst(q.high, c) => /\ OpenFirst(r.high, c)
                                  /\ p.chan = c => ~Has(r.high, "open", c)
      BY <1>q, <1>1, <2>1, Removed
    <3> QED BY <3>1, <3>2, <3>3, <3>4
  <2> HIDE DEF p
  <2>4. ASSUME NEW c
        PROVE  \A k : Pends(h, r, k, c) <=> Pends(l, q, k, c)
    BY <1>h, <2>1, <2>3, Zenon DEF Pends
  <2>5. ASSUME NEW c, Unused(l, q, c)
        PROVE  Unused(h, r, c)
    BY <1>h, <2>1, <2>3, <2>5, Zenon DEF Unused
  <2>6. ASSUME NEW c, Ordered(l, q, c)
        PROVE  Ordered(h, r, c)
    <3>1. OpenFirst(h, c)
      BY <1>h, <2>6, Zenon DEF Ordered
    <3>2. Has(r.busy, "open", c) => Free(h, c)
      BY <1>h, <2>1, <2>3, <2>6, Zenon DEF Ordered
    <3>3. OpenFirst(r.high, c)
      BY <2>3, <2>6, Zenon DEF Ordered
    <3>4. Has(r.high, "open", c) => Free(h, c) /\ Free(r.busy, c)
      BY <1>h, <2>1, <2>3, <2>6, Zenon DEF Ordered
    <3> QED BY <3>1, <3>2, <3>3, <3>4 DEF Ordered
  <2>7. ASSUME NEW c, NEW a \in Nat, NEW b \in Nat, Flow(l, q, c, a, b)
        PROVE  Flow(h, r, c, a, b)
    <3>1. PICK n \in Nat : Carries(h, c, a, n) /\ Carries(q.normal, c, n, b)
      BY <1>f, <2>7
    <3>2. Carries(<<p>>, c, n, n)
      <4>1. ~IsData(p, c)
        BY <2>p DEF IsData
      <4> QED BY <2>p, <4>1, Single
    <3> QED BY <2>1, <3>1, <3>2, Zenon DEF Flow
  <2> QED BY <1>h, <2>1, <2>2, <2>4, <2>5, <2>6, <2>7 DEF r, h
<1>2. CASE q.high = <<>> /\ q.normal # <<>>
  <2> DEFINE p == Head(q.normal)
  <2>p. p \in Packets /\ p.kind = "data" /\ Tail(q.normal) \in Seq(Packets)
    BY <1>q, <1>2 DEF WellQueued
  <2>1. r.busy = <<p>> /\ r.high = <<>> /\ r.normal = Tail(q.normal) /\ r \in Queues
    <3>1. /\ r = [q EXCEPT !.busy = <<p>>, !.normal = Tail(q.normal)] /\ <<p>> \in Seq(Packets)
      BY <1>2, <2>p DEF Advance
    <3> QED BY <1>2, <1>q, <2>p, <3>1 DEF Queues
  <2>2. WellQueued(r)
    <3>1. \A i \in 1..Len(r.normal) : r.normal[i].kind = "data"
      BY <1>q, <1>2, <2>1 DEF WellQueued
    <3>2. Len(<<p>>) = 1 /\ <<p>> # <<>> /\ 1..Len(<<>>) = {}
      OBVIOUS
    <3> QED BY <2>1, <3>1, <3>2 DEF WellQueued
  <2> HIDE DEF r, h
  <2>3. ASSUME NEW c
        PROVE  /\ \A k : Has(<<p>>, k, c) <=> Is(p, k, c)
               /\ Free(<<p>>, c) <=> p.chan # c
               /\ Free(q.normal, c) <=> Free(r.normal, c) /\ p.chan # c
               /\ Free(<<>>, c) /\ OpenFirst(<<>>, c) /\ \A k : ~Has(<<>>, k, c)
    <3>1. /\ \A k : Has(<<p>>, k, c) <=> Is(p, k, c)
          /\ Free(<<p>>, c) <=> p.chan # c
      BY <2>p, Single, Zenon
    <3>2. Free(q.normal, c) <=> Free(r.normal, c) /\ p.chan # c
      BY <1>q, <1>2, <2>1, Removed
    <3>3. Free(<<>>, c) /\ OpenFirst(<<>>, c) /\ \A k : ~Has(<<>>, k, c)
      BY EmptySequence, Zenon
    <3> QED BY <3>1, <3>2, <3>3
  <2>i. \A k, c : k # "data" => ~Is(p, k, c)
    BY <2>p DEF Is
  <2> HIDE DEF p
  <2>4. ASSUME NEW c, NEW k, k # "data"
        PROVE  Pends(h, r, k, c) <=> Pends(l, q, k, c)
    <3>1. ~Is(p, k, c)
      BY <2>4, <2>i
    <3>2. ~Has(r.busy, k, c) /\ ~Has(r.high, k, c) /\ ~Has(q.high, k, c)
      BY <1>2, <2>1, <2>3, <3>1
    <3>3. Has(h, k, c) <=> Has(l, k, c) \/ Has(q.busy, k, c)
      BY <1>h
    <3> QED BY <3>2, <3>3, Zenon DEF Pends
  <2>5. ASSUME NEW c, Unused(l, q, c)
        PROVE  Unused(h, r, c)
    BY <1>h, <2>1, <2>3, <2>5, Zenon DEF Unused
  <2>6. ASSUME NEW c, Ordered(l, q, c)
        PROVE  Ordered(h, r, c)
    <3>0. ~Is(p, "open", c)
      BY <2>i
    <3>1. OpenFirst(h, c)
      BY <1>h, <2>6, Zenon DEF Ordered
    <3> QED BY <2>1, <2>3, <3>0, <3>1, Zenon DEF Ordered
  <2>7. ASSUME NEW c, NEW a \in Nat, NEW b \in Nat, Flow(l, q, c, a, b)
        PROVE  Flow(h, r, c, a, b)
    <3>1. PICK n \in Nat : Carries(h, c, a, n) /\ Carries(q.normal, c, n, b)
      BY <1>f, <2>7
    <3>2. CASE ~IsData(p, c)
      <4>1. Carries(<<p>>, c, n, n)
        BY <2>p, <3>2, Single
      <4>2. Carries(r.normal, c, n, b)
        BY <1>q, <1>2, <2>1, <3>1, <3>2, TailCarried DEF p
      <4> QED BY <2>1, <3>1, <4>1, <4>2, Zenon DEF Flow
    <3>3. CASE IsData(p, c)
      <4>1. p.n = n + 1 /\ Carries(r.normal, c, n + 1, b) /\ n + 1 \in Nat
        BY <1>q, <1>2, <2>1, <3>1, <3>3, TailCarried DEF p
      <4>2. Carries(<<p>>, c, n, n + 1)
        BY <2>p, <3>3, <4>1, Single
      <4> QED BY <2>1, <3>1, <4>1, <4>2, Zenon DEF Flow
    <3> QED BY <3>2, <3>3
  <2> QED BY <1>h, <2>1, <2>2, <2>4, <2>5, <2>6, <2>7 DEF r, h
<1>3. CASE q.high = <<>> /\ q.normal = <<>>
  <2>1. r = NoQueue /\ r.busy = <<>> /\ r.high = <<>> /\ r.normal = <<>>
    BY <1>3 DEF Advance, NoQueue
  <2>2. r \in Queues /\ WellQueued(r)
    BY <2>1 DEF WellQueued, Queues, NoQueue
  <2> HIDE DEF r, h
  <2>3. ASSUME NEW c
        PROVE  Free(<<>>, c) /\ OpenFirst(<<>>, c) /\ \A k : ~Has(<<>>, k, c)
    BY EmptySequence, Zenon
  <2>4. ASSUME NEW c
        PROVE  /\ \A k : Pends(h, r, k, c) <=> Pends(l, q, k, c)
               /\ Unused(l, q, c) => Unused(h, r, c)
               /\ Ordered(l, q, c) => Ordered(h, r, c)
    BY <1>3, <1>h, <2>1, <2>3, Zenon DEF Pends, Unused, Ordered
  <2>5. ASSUME NEW c, NEW a \in Nat, NEW b \in Nat, Flow(l, q, c, a, b)
        PROVE  Flow(h, r, c, a, b)
    <3>1. PICK n \in Nat : Carries(h, c, a, n) /\ Carries(q.normal, c, n, b)
      BY <1>f, <2>5
    <3>2. Carries(<<>>, c, n, n)
      BY EmptySequence
    <3> QED BY <1>3, <2>1, <3>1, <3>2, Zenon DEF Flow
  <2> QED BY <1>h, <2>1, <2>2, <2>4, <2>5 DEF r, h
<1> QED BY <1>1, <1>2, <1>3

(* The next packet on the link is taken. *)
LEMMA TakeKeeps ==
  ASSUME NEW l \in Seq(Packets), l # <<>>, NEW q
  PROVE  /\ Tail(l) \in Seq(Packets) /\ Head(l) \in Packets
         /\ \A c, k : Pends(l, q, k, c) <=> Pends(Tail(l), q, k, c) \/ Is(Head(l), k, c)
         /\ \A c : Unused(l, q, c) => Unused(Tail(l), q, c) /\ Head(l).chan # c
         /\ \A c : Ordered(l, q, c) => /\ Ordered(Tail(l), q, c)
                                       /\ Head(l).chan = c => ~Pends(Tail(l), q, "open", c)
         /\ \A c : \A a, b \in Nat : Flow(l, q, c, a, b) =>
              /\ ~IsData(Head(l), c) => Flow(Tail(l), q, c, a, b)
              /\ IsData(Head(l), c) => /\ Head(l).n = a + 1
                                       /\ Flow(Tail(l), q, c, a + 1, b)
<1> DEFINE t == Tail(l)
           p == Head(l)
<1>1. t \in Seq(Packets) /\ p \in Packets
  BY Removed
<1>2. ASSUME NEW c
      PROVE  /\ \A k : Has(l, k, c) <=> Has(t, k, c) \/ Is(p, k, c)
             /\ Free(l, c) <=> Free(t, c) /\ p.chan # c
             /\ OpenFirst(l, c) => /\ OpenFirst(t, c)
                                   /\ p.chan = c => ~Has(t, "open", c)
  BY Removed
<1>3. ASSUME NEW c, NEW a \in Nat, NEW b \in Nat, Flow(l, q, c, a, b)
      PROVE  /\ ~IsData(p, c) => Flow(t, q, c, a, b)
             /\ IsData(p, c) => p.n = a + 1 /\ Flow(t, q, c, a + 1, b)
  <2>1. PICK m \in Nat, n \in Nat :
          Carries(l, c, a, m) /\ Carries(q.busy, c, m, n) /\ Carries(q.normal, c, n, b)
    BY <1>3 DEF Flow
  <2>2. /\ ~IsData(p, c) => Carries(t, c, a, m)
        /\ IsData(p, c) => p.n = a + 1 /\ Carries(t, c, a + 1, m)
    BY <2>1, TailCarried
  <2> QED BY <2>1, <2>2 DEF Flow
<1> HIDE DEF t, p
<1>4. ASSUME NEW c
      PROVE  /\ \A k : Pends(l, q, k, c) <=> Pends(t, q, k, c) \/ Is(p, k, c)
             /\ Unused(l, q, c) => Unused(t, q, c) /\ p.chan # c
  BY <1>2, Zenon DEF Pends, Unused
<1>5. ASSUME NEW c, Ordered(l, q, c)
      PROVE  Ordered(t, q, c) /\ (p.chan = c => ~Pends(t, q, "open", c))
  BY <1>2, <1>5, Zenon DEF Pends, Ordered
<1> QED BY <1>1, <1>3, <1>4, <1>5 DEF t, p

(* The sender goes: a prefix of what was on the link or being published is
   all that still arrives. *)
LEMMA SeverKeeps ==
  ASSUME NEW l \in Seq(Packets), NEW q \in Queues, WellQueued(q), NEW k \in 0..Len(l \o q.busy)
  PROVE  LET t == SubSeq(l \o q.busy, 1, k)
         IN /\ t \in Seq(Packets) /\ NoQueue \in Queues /\ WellQueued(NoQueue)
            /\ \A c, x : Pends(t, NoQueue, x, c) => Pends(l, q, x, c)
            /\ \A c : Unused(l, q, c) => Unused(t, NoQueue, c)
            /\ \A c : Ordered(l, q, c) => Ordered(t, NoQueue, c)
            /\ \A c : \A a, b \in Nat : Flow(l, q, c, a, b) => InTurn(t, c, a, b)
<1> DEFINE h == l \o q.busy
           t == SubSeq(h, 1, k)
<1>q. q.busy \in Seq(Packets) /\ q.high \in Seq(Packets) /\ q.normal \in Seq(Packets)
  BY DEF Queues
<1>h. /\ h \in Seq(Packets) /\ Len(q.busy) <= 1
      /\ \A c, x : Has(h, x, c) <=> Has(l, x, c) \/ Has(q.busy, x, c)
      /\ \A c : Free(h, c) <=> Free(l, c) /\ Free(q.busy, c)
      /\ \A c : OpenFirst(l, c) /\ (Has(q.busy, "open", c) => Free(l, c)) => OpenFirst(h, c)
  <2>1. Len(q.busy) <= 1
    BY DEF WellQueued
  <2> QED BY <1>q, <2>1, Joined, MovedOn
<1>n. NoQueue.busy = <<>> /\ NoQueue.high = <<>> /\ NoQueue.normal = <<>>
  BY DEF NoQueue
<1>1. NoQueue \in Queues /\ WellQueued(NoQueue)
  BY <1>n DEF WellQueued, Queues, NoQueue
<1> HIDE DEF h
<1>2. ASSUME NEW c
      PROVE  /\ t \in Seq(Packets)
             /\ \A x : Has(t, x, c) => Has(h, x, c)
             /\ Free(h, c) => Free(t, c)
             /\ OpenFirst(h, c) => OpenFirst(t, c)
             /\ \A a, b \in Nat : InTurn(h, c, a, b) => InTurn(t, c, a, b)
  <2>1. k \in 0..Len(h)
    BY DEF h
  <2> QED BY <1>h, <2>1, Cut
<1>3. ASSUME NEW c
      PROVE  Free(<<>>, c) /\ OpenFirst(<<>>, c) /\ \A x : ~Has(<<>>, x, c)
  BY EmptySequence, Zenon
<1> HIDE DEF t
<1>4. ASSUME NEW c
      PROVE  /\ \A x : Pends(t, NoQueue, x, c) => Pends(l, q, x, c)
             /\ Unused(l, q, c) => Unused(t, NoQueue, c)
             /\ Ordered(l, q, c) => Ordered(t, NoQueue, c)
  BY <1>h, <1>n, <1>2, <1>3, Zenon DEF Pends, Unused, Ordered
<1>5. ASSUME NEW c, NEW a \in Nat, NEW b \in Nat, Flow(l, q, c, a, b)
      PROVE  InTurn(t, c, a, b)
  <2>1. PICK m \in Nat, n \in Nat :
          Carries(l, c, a, m) /\ Carries(q.busy, c, m, n) /\ Carries(q.normal, c, n, b)
    BY <1>5 DEF Flow
  <2>2. Carries(h, c, a, n)
    BY <1>q, <2>1, JoinedCarried DEF h
  <2>3. InTurn(h, c, a, n) /\ n <= b
    BY <1>h, <2>1, <2>2, CarriedInTurn DEF Carries
  <2>4. InTurn(h, c, a, b)
    <3>1. \A x : x \in (a + 1)..n => x \in (a + 1)..b
      BY <2>3
    <3> QED BY <2>3, <3>1, Zenon DEF InTurn
  <2> QED BY <1>2, <2>4
<1> QED BY <1>1, <1>2, <1>4, <1>5 DEF t, h

-----------------------------------------------------------------------------
(* The inductive invariant. *)

New(c) == c[2] > opened[c[1]]

Pending(e, k, c) == Pends(link[e], queue[Peer(e)], k, c)
Opening(c) == Pending("server", "open", c)
Closing(e, c) == Pending(e, "close", c)

EndsInv == \A e \in Ends : (down[e] => closed[e]) /\ (closed[e] => chans[e] = {})

QueuesInv == \A e \in Ends : WellQueued(queue[e])

(* The way to end e, of channel c: whether it is not yet opened (fresh), e
   holds it, the sender has gone; e was handed a chunks, b were written.  An
   end waits for the data of a channel it holds, and the server for that of a
   channel whose open is still to arrive. *)
Way(e, c, fresh, held, l, q, gone, a, b) ==
  /\ fresh => ~held /\ a = 0 /\ b = 0 /\ Unused(l, q, c)
  /\ e = "client" => ~Pends(l, q, "open", c)
  /\ e = "server" => Ordered(l, q, c)
  /\ held \/ (e = "server" /\ Pends(l, q, "open", c)) =>
       IF gone THEN InTurn(l, c, a, b) ELSE Flow(l, q, c, a, b)

WayInv(e) == ~closed[e] => \A c \in Channels :
  Way(e, c, New(c), c \in chans[e], link[e], queue[Peer(e)], down[Peer(e)],
      Len(got[e][c]), wrote[Peer(e)][c])

HandedInv == \A e \in Ends, c \in Channels :
  /\ Len(got[e][c]) <= wrote[Peer(e)][c]
  /\ \A i \in 1..Len(got[e][c]) : got[e][c][i] = i

(* What the tables of the ends say of a channel, and what is on its way. *)
Agreed(c, atClient, atServer) ==
  /\ atClient /\ ~atServer => Opening(c) \/ Closing("client", c)
  /\ Closing("client", c) => ~atServer
  /\ Closing("server", c) => ~atClient
  /\ Opening(c) => ~atServer /\ ~Closing("client", c)
  /\ ~atClient /\ (Opening(c) \/ atServer) => Closing("server", c)

TablesInv == Running => \A c \in Channels : Agreed(c, c \in chans["client"], c \in chans["server"])

IInv ==
  /\ TypeOK /\ EndsInv /\ QueuesInv
  /\ \A e \in Ends : WayInv(e)
  /\ HandedInv /\ TablesInv

LEMMA EndFacts ==
  /\ Ends = {"client", "server"}
  /\ \A e \in Ends : Peer(e) \in Ends /\ Peer(e) # e /\ Peer(Peer(e)) = e
  /\ Peer("client") = "server" /\ Peer("server") = "client"
BY DEF Ends, Peer

-----------------------------------------------------------------------------
(* How the way of a channel changes. *)

LEMMA WayShrinks ==
  ASSUME NEW e, NEW c, NEW fresh, NEW held, NEW l, NEW q, NEW gone, NEW a, NEW b,
         Way(e, c, fresh, held, l, q, gone, a, b),
         NEW fresh1, fresh1 => fresh, NEW held1, held1 => held
  PROVE  Way(e, c, fresh1, held1, l, q, gone, a, b)
BY DEF Way

(* Of an untouched channel, nothing is written and nothing on the way. *)
LEMMA WayUntouched ==
  ASSUME NEW c, NEW l \in Seq(Packets), NEW q \in Queues, Unused(l, q, c)
  PROVE  /\ Flow(l, q, c, 0, 0) /\ InTurn(l, c, 0, 0)
         /\ \A k : ~Pends(l, q, k, c)
<1>1. q.busy \in Seq(Packets) /\ q.normal \in Seq(Packets)
  BY DEF Queues
<1>2. ASSUME NEW s \in Seq(Packets), Free(s, c)
      PROVE  Carries(s, c, 0, 0) /\ \A k : ~Has(s, k, c)
  <2>1. \A i \in 1..Len(s) : ~IsData(s[i], c)
    BY <1>2 DEF Free, IsData
  <2>2. \A k : ~Has(s, k, c)
    BY <1>2 DEF Free, Has, Is
  <2> QED BY <2>1, <2>2, NoneCarried
<1>3. Carries(l, c, 0, 0) /\ Carries(q.busy, c, 0, 0) /\ Carries(q.normal, c, 0, 0)
  BY <1>1, <1>2 DEF Unused
<1>4. InTurn(l, c, 0, 0)
  BY <1>3, CarriedInTurn
<1>5. \A k : ~Pends(l, q, k, c)
  BY <1>1, <1>2 DEF Unused, Pends, Queues
<1> QED BY <1>3, <1>4, <1>5 DEF Flow

(* A packet is sent: one of another channel, a control packet, the next chunk
   of the channel, or its open. *)
LEMMA WaySends ==
  ASSUME NEW e, NEW c, NEW fresh, NEW held, NEW l \in Seq(Packets), NEW q \in Queues,
         NEW gone, NEW a \in Nat, NEW b \in Nat, NEW p \in Packets, WellQueued(q),
         Way(e, c, fresh, held, l, q, gone, a, b)
  PROVE  /\ p.chan # c => Way(e, c, fresh, held, l, Enqueue(q, p), gone, a, b)
         /\ p.kind \notin {"data", "open"} /\ ~fresh =>
              Way(e, c, fresh, held, l, Enqueue(q, p), gone, a, b)
         /\ IsData(p, c) /\ p.n = b + 1 /\ ~fresh /\ ~gone =>
              Way(e, c, fresh, held, l, Enqueue(q, p), gone, a, b + 1)
         /\ Is(p, "open", c) /\ fresh /\ e = "server" =>
              Way(e, c, FALSE, held, l, Enqueue(q, p), gone, a, b)
<1> DEFINE r == Enqueue(q, p)
<1>1. /\ \A k : k # "data" => (Pends(l, r, k, c) <=> Pends(l, q, k, c) \/ Is(p, k, c))
      /\ Unused(l, r, c) <=> Unused(l, q, c) /\ p.chan # c
      /\ Ordered(l, q, c) /\ (Is(p, "open", c) => Unused(l, q, c)) => Ordered(l, r, c)
      /\ Flow(l, q, c, a, b) =>
           /\ ~IsData(p, c) => Flow(l, r, c, a, b)
           /\ IsData(p, c) /\ p.n = b + 1 => Flow(l, r, c, a, b + 1)
  BY EnqueueKeeps
<1> HIDE DEF r
<1>2. "open" # "data"
  OBVIOUS
<1>3. CASE p.chan # c
  <2>1. ~Is(p, "open", c) /\ ~IsData(p, c)
    BY <1>3 DEF Is, IsData
  <2>2. Pends(l, r, "open", c) <=> Pends(l, q, "open", c)
    BY <1>1, <1>2, <2>1
  <2>3. Way(e, c, fresh, held, l, r, gone, a, b)
    BY <1>1, <1>3, <2>1, <2>2 DEF Way
  <2> QED BY <1>3, <2>3 DEF r, IsData, Is
<1>4. CASE p.kind \notin {"data", "open"} /\ ~fresh
  <2>1. ~Is(p, "open", c) /\ ~IsData(p, c)
    BY <1>4 DEF Is, IsData
  <2>2. Pends(l, r, "open", c) <=> Pends(l, q, "open", c)
    BY <1>1, <1>2, <2>1
  <2>3. Way(e, c, fresh, held, l, r, gone, a, b)
    BY <1>1, <1>4, <2>1, <2>2 DEF Way
  <2> QED BY <1>4, <2>3 DEF r, IsData, Is
<1>5. ASSUME IsData(p, c), p.n = b + 1, ~fresh, ~gone
      PROVE  Way(e, c, fresh, held, l, r, gone, a, b + 1)
  <2>1. ~Is(p, "open", c)
    BY <1>5 DEF Is, IsData
  <2>2. Pends(l, r, "open", c) <=> Pends(l, q, "open", c)
    BY <1>1, <1>2, <2>1
  <2> QED BY <1>1, <1>5, <2>1, <2>2 DEF Way
<1>6. ASSUME Is(p, "open", c), fresh, e = "server"
      PROVE  Way(e, c, FALSE, held, l, r, gone, a, b)
  <2>1. Unused(l, q, c) /\ a = 0 /\ b = 0 /\ ~held
    BY <1>6 DEF Way
  <2>2. Ordered(l, r, c)
    BY <1>1, <1>6, <2>1 DEF Way
  <2>3. ~IsData(p, c)
    BY <1>6 DEF Is, IsData
  <2>4. Flow(l, r, c, a, b) /\ InTurn(l, c, a, b)
    BY <1>1, <2>1, <2>3, WayUntouched
  <2> QED BY <1>6, <2>2, <2>4 DEF Way
<1> QED BY <1>3, <1>4, <1>5, <1>6 DEF r

LEMMA WayPublishes ==
  ASSUME NEW e, NEW c, NEW fresh, NEW held, NEW l \in Seq(Packets), NEW q \in Queues,
         NEW gone, ~gone, NEW a \in Nat, NEW b \in Nat, WellQueued(q), q.busy # <<>>,
         Way(e, c, fresh, held, l, q, gone, a, b)
  PROVE  Way(e, c, fresh, held, l \o q.busy, Advance(q), gone, a, b)
<1> DEFINE r == Advance(q)
           h == l \o q.busy
<1>0. "open" # "data"
  OBVIOUS
<1>1. /\ Pends(h, r, "open", c) <=> Pends(l, q, "open", c)
      /\ Unused(l, q, c) => Unused(h, r, c)
      /\ Ordered(l, q, c) => Ordered(h, r, c)
      /\ Flow(l, q, c, a, b) => Flow(h, r, c, a, b)
  BY <1>0, PublishKeeps
<1> HIDE DEF r, h
<1>2. Way(e, c, fresh, held, h, r, gone, a, b)
  BY <1>1 DEF Way
<1> QED BY <1>2 DEF r, h

(* The next packet is taken: the channel may become held when that packet is
   its open; a chunk is handed over when the channel is held, and it is then
   the next one. *)
LEMMA WayTakes ==
  ASSUME NEW e, NEW c, NEW fresh, NEW held, NEW l \in Seq(Packets), l # <<>>, NEW q \in Queues,
         NEW gone, NEW a \in Nat, NEW b \in Nat, NEW held1,
         held1 => held \/ Is(Head(l), "open", c), e \in Ends,
         Way(e, c, fresh, held, l, q, gone, a, b)
  PROVE  /\ IsData(Head(l), c) /\ held =>
              /\ Head(l).n = a + 1 /\ a + 1 <= b
              /\ Way(e, c, fresh, held1, Tail(l), q, gone, a + 1, b)
         /\ ~(IsData(Head(l), c) /\ held) => Way(e, c, fresh, held1, Tail(l), q, gone, a, b)
<1> DEFINE t == Tail(l)
           p == Head(l)
           Due(x, y) == IF gone THEN InTurn(x, c, y, b) ELSE Flow(x, q, c, y, b)
<1>1. /\ Pends(l, q, "open", c) <=> Pends(t, q, "open", c) \/ Is(p, "open", c)
      /\ Unused(l, q, c) => Unused(t, q, c) /\ p.chan # c
      /\ Ordered(l, q, c) => Ordered(t, q, c) /\ (p.chan = c => ~Pends(t, q, "open", c))
  BY TakeKeeps
<1>2. Due(l, a) => /\ ~IsData(p, c) => Due(t, a)
                   /\ IsData(p, c) => p.n = a + 1 /\ a + 1 <= b /\ Due(t, a + 1)
  <2>1. CASE gone
    BY <2>1, TailInTurn
  <2>2. CASE ~gone
    <3> SUFFICES ASSUME Flow(l, q, c, a, b)
                 PROVE  /\ ~IsData(p, c) => Flow(t, q, c, a, b)
                        /\ IsData(p, c) => p.n = a + 1 /\ a + 1 <= b /\ Flow(t, q, c, a + 1, b)
      BY <2>2
    <3>1. /\ ~IsData(p, c) => Flow(t, q, c, a, b)
          /\ IsData(p, c) => p.n = a + 1 /\ Flow(t, q, c, a + 1, b)
      BY TakeKeeps
    <3>2. Flow(t, q, c, a + 1, b) => a + 1 <= b
      BY DEF Flow, Carries
    <3> QED BY <3>1, <3>2
  <2> QED BY <2>1, <2>2
<1>3. held \/ (e = "server" /\ Pends(l, q, "open", c)) => Due(l, a)
  BY DEF Way
<1>4. \A x : Is(p, "open", c) => p.chan = c /\ ~IsData(p, c)
  BY DEF Is, IsData
<1>5. held1 => held \/ (e = "server" /\ Pends(l, q, "open", c))
  BY <1>1, EndFacts DEF Way
<1>6. /\ fresh => ~held1 /\ a = 0 /\ b = 0 /\ Unused(t, q, c) /\ ~IsData(p, c)
      /\ e = "client" => ~Pends(t, q, "open", c)
      /\ e = "server" => Ordered(t, q, c)
  BY <1>1, <1>4, <1>5, EndFacts, WayUntouched DEF Way, IsData
<1>7. CASE IsData(p, c) /\ held
  <2>1. p.n = a + 1 /\ a + 1 <= b /\ Due(t, a + 1)
    BY <1>2, <1>3, <1>7
  <2>2. ~fresh
    BY <1>7 DEF Way
  <2>3. Way(e, c, fresh, held1, t, q, gone, a + 1, b)
    BY <1>6, <2>1, <2>2 DEF Way
  <2> QED BY <1>7, <2>1, <2>3
<1>8. CASE IsData(p, c) /\ ~held
  <2>1. ~held1
    BY <1>4, <1>8
  <2>2. e = "server" => ~Pends(t, q, "open", c)
    BY <1>1, <1>8 DEF Way, IsData
  <2>3. Way(e, c, fresh, held1, t, q, gone, a, b)
    BY <1>6, <2>1, <2>2 DEF Way
  <2> QED BY <1>8, <2>3
<1>9. CASE ~IsData(p, c)
  <2>1. held1 \/ (e = "server" /\ Pends(t, q, "open", c)) => Due(t, a)
    BY <1>1, <1>2, <1>3, <1>5, <1>9
  <2>2. Way(e, c, fresh, held1, t, q, gone, a, b)
    BY <1>6, <2>1 DEF Way
  <2> QED BY <1>9, <2>2
<1> QED BY <1>7, <1>8, <1>9

LEMMA WaySevered ==
  ASSUME NEW e, NEW c, NEW fresh, NEW held, NEW l \in Seq(Packets), NEW q \in Queues,
         NEW gone, ~gone, NEW a \in Nat, NEW b \in Nat, WellQueued(q),
         NEW k \in 0..Len(l \o q.busy), Way(e, c, fresh, held, l, q, gone, a, b)
  PROVE  Way(e, c, fresh, held, SubSeq(l \o q.busy, 1, k), NoQueue, TRUE, a, b)
<1> DEFINE t == SubSeq(l \o q.busy, 1, k)
<1>1. /\ Pends(t, NoQueue, "open", c) => Pends(l, q, "open", c)
      /\ Unused(l, q, c) => Unused(t, NoQueue, c)
      /\ Ordered(l, q, c) => Ordered(t, NoQueue, c)
      /\ Flow(l, q, c, a, b) => InTurn(t, c, a, b)
  BY SeverKeeps
<1> HIDE DEF t
<1>2. Way(e, c, fresh, held, t, NoQueue, TRUE, a, b)
  BY <1>1 DEF Way
<1> QED BY <1>2 DEF t

LEMMA TypeFacts ==
  ASSUME TypeOK, NEW e \in Ends
  PROVE  /\ queue[e] \in Queues /\ link[e] \in Seq(Packets)
         /\ \A c \in Channels : wrote[e][c] \in Nat /\ got[e][c] \in Seq(Nat)
         /\ \A c \in Channels : Len(got[e][c]) \in Nat
         /\ chans[e] \in SUBSET Channels
BY DEF TypeOK, Queues

LEMMA ChannelFacts ==
  \A c \in Channels : c[1] \in {"tcp", "udp"} /\ c[2] \in Nat \ {0} /\ c = <<c[1], c[2]>>
BY DEF Channels

LEMMA PacketFacts ==
  /\ \A c \in Channels, n \in Nat : Data(c, n) \in Packets
  /\ \A c \in Channels, k \in {"open", "close"} : Control(k, c) \in Packets
  /\ \A k \in {"terminate", "ping", "pong"} : Note(k) \in Packets /\ Note(k).chan \notin Channels
  /\ \A c, n : Data(c, n).kind = "data" /\ Data(c, n).chan = c /\ Data(c, n).n = n
  /\ \A k, c : Control(k, c).kind = k /\ Control(k, c).chan = c
  /\ \A k : Note(k).kind = k /\ Note(k).chan = <<"tcp", 0>>
<1>1. <<"tcp", 0>> \notin Channels
  BY DEF Channels
<1> QED BY <1>1 DEF Data, Control, Note, Packets

(* A step that sends, and a step that takes a transport down. *)
LEMMA SendTypes ==
  ASSUME TypeOK, QueuesInv, NEW e \in Ends, NEW p \in Packets, SendPacket(e, p)
  PROVE  /\ queue' \in [Ends -> Queues] /\ QueuesInv'
         /\ queue'[e] = Enqueue(queue[e], p) /\ queue'[Peer(e)] = queue[Peer(e)]
<1>1. queue \in [Ends -> Queues]
  BY DEF TypeOK, Queues
<1>2. Enqueue(queue[e], p) \in Queues /\ WellQueued(Enqueue(queue[e], p))
  BY <1>1, EmptySequence, EnqueueKeeps DEF QueuesInv
<1>3. queue' = [queue EXCEPT ![e] = Enqueue(queue[e], p)]
  BY DEF SendPacket
<1>4. \A x \in Ends : queue'[x] = IF x = e THEN Enqueue(queue[e], p) ELSE queue[x]
  BY <1>1, <1>3
<1>5. queue' \in [Ends -> Queues]
  BY <1>1, <1>2, <1>3
<1> QED BY <1>2, <1>4, <1>5, EndFacts DEF QueuesInv

LEMMA SeverTypes ==
  ASSUME TypeOK, QueuesInv, NEW e \in Ends, NEW q \in Queues, WellQueued(q), Sever(e, q)
  PROVE  /\ down' \in [Ends -> BOOLEAN] /\ down'[e] = TRUE /\ down'[Peer(e)] = down[Peer(e)]
         /\ queue' \in [Ends -> Queues] /\ QueuesInv'
         /\ queue'[e] = NoQueue /\ queue'[Peer(e)] = queue[Peer(e)]
         /\ link' \in [Ends -> Seq(Packets)]
         /\ ~down[Peer(e)] =>
              \E k \in 0..Len(link[Peer(e)] \o q.busy) :
                link'[Peer(e)] = SubSeq(link[Peer(e)] \o q.busy, 1, k)
<1> DEFINE out == link[Peer(e)] \o q.busy
<1>1. /\ queue \in [Ends -> Queues] /\ down \in [Ends -> BOOLEAN] /\ link \in [Ends -> Seq(Packets)]
      /\ Peer(e) \in Ends /\ Peer(e) # e
  BY EndFacts DEF TypeOK, Queues
<1>2. NoQueue \in Queues /\ WellQueued(NoQueue)
  <2>1. 0 \in 0..Len(<<>> \o q.busy)
    BY EmptySequence DEF Queues
  <2> QED BY <2>1, EmptySequence, SeverKeeps
<1>3. PICK k \in 0..Len(out) :
        link' = [link EXCEPT ![e] = <<>>,
                   ![Peer(e)] = IF down[Peer(e)] THEN <<>> ELSE SubSeq(out, 1, k)]
  BY DEF Sever
<1>4. SubSeq(out, 1, k) \in Seq(Packets)
  BY <1>1, SeverKeeps
<1>5. link' \in [Ends -> Seq(Packets)]
  BY <1>1, <1>3, <1>4, EmptySequence
<1>6. ~down[Peer(e)] => link'[Peer(e)] = SubSeq(out, 1, k)
  BY <1>1, <1>3
<1>7. /\ queue' = [queue EXCEPT ![e] = NoQueue]
      /\ down' = [down EXCEPT ![e] = TRUE]
  BY DEF Sever
<1>8. \A x \in Ends : queue'[x] = IF x = e THEN NoQueue ELSE queue[x]
  BY <1>1, <1>7
<1>9. QueuesInv'
  BY <1>2, <1>8 DEF QueuesInv
<1> QED BY <1>1, <1>2, <1>5, <1>6, <1>7, <1>9

LEMMA ShutdownTypes ==
  ASSUME TypeOK, NEW e \in Ends, Shutdown(e)
  PROVE  /\ closed' \in [Ends -> BOOLEAN] /\ chans' \in [Ends -> SUBSET Channels]
         /\ quiet' \in [Ends -> BOOLEAN] /\ missed' \in [Ends -> 0..MaxMissed]
         /\ bad' \in [Ends -> 0..(MaxBad - 1)]
         /\ closed'[e] /\ closed'[Peer(e)] = closed[Peer(e)]
         /\ chans'[e] = {} /\ chans'[Peer(e)] = chans[Peer(e)]
<1>1. 0 \in 0..MaxMissed /\ 0 \in 0..(MaxBad - 1) /\ {} \in SUBSET Channels
  OBVIOUS
<1> QED BY <1>1, EndFacts DEF TypeOK, Shutdown

LEMMA AliveTypes ==
  ASSUME TypeOK, NEW e \in Ends, Alive(e)
  PROVE  /\ quiet' \in [Ends -> BOOLEAN] /\ missed' \in [Ends -> 0..MaxMissed]
         /\ bad' \in [Ends -> 0..(MaxBad - 1)]
<1>1. 0 \in 0..MaxMissed /\ 0 \in 0..(MaxBad - 1)
  OBVIOUS
<1> QED BY <1>1 DEF TypeOK, Alive

LEMMA BeatTypes ==
  ASSUME TypeOK, QueuesInv, NEW e \in Ends, NEW k \in {"ping", "pong"}, SendBeat(e, k)
  PROVE  /\ queue' \in [Ends -> Queues] /\ QueuesInv'
         /\ queue' = queue \/ SendPacket(e, Note(k))
<1>1. CASE queue' = queue
  BY <1>1 DEF TypeOK, Queues, QueuesInv
<1>2. CASE SendPacket(e, Note(k))
  <2>1. Note(k) \in Packets
    BY PacketFacts
  <2> QED BY <1>2, <2>1, SendTypes
<1> QED BY <1>1, <1>2 DEF SendBeat

Types ==
  /\ closed \in [Ends -> BOOLEAN] /\ chans \in [Ends -> SUBSET Channels]
  /\ opened \in [{"tcp", "udp"} -> Nat]
  /\ quiet \in [Ends -> BOOLEAN] /\ missed \in [Ends -> 0..MaxMissed]
  /\ bad \in [Ends -> 0..(MaxBad - 1)]
  /\ down \in [Ends -> BOOLEAN] /\ queue \in [Ends -> Queues]
  /\ link \in [Ends -> Seq(Packets)]
  /\ wrote \in [Ends -> [Channels -> Nat]] /\ got \in [Ends -> [Channels -> Seq(Nat)]]

LEMMA TypeParts == (TypeOK <=> Types) /\ (TypeOK' <=> Types')
BY DEF TypeOK, Types, Queues

LEMMA NewChannel ==
  ASSUME TypeOK, NEW proto \in {"tcp", "udp"}, opened[proto] < Bound(proto)
  PROVE  <<proto, opened[proto] + 1>> \in Channels
<1>1. opened[proto] + 1 \in 1..Bound(proto)
  BY DEF TypeOK, Bound
<1> QED BY <1>1 DEF Bound, Channels

LEMMA HeadPacket ==
  ASSUME TypeOK, NEW e \in Ends, link[e] # <<>>
  PROVE  /\ Head(link[e]) \in Packets /\ Tail(link[e]) \in Seq(Packets)
         /\ Head(link[e]).n \in Nat
         /\ Head(link[e]).kind \in {"data", "open", "close"} => Head(link[e]).chan \in Channels
<1>1. Head(link[e]) \in Packets /\ Tail(link[e]) \in Seq(Packets)
  BY TypeFacts, Removed
<1> QED BY <1>1, PacketTypes

(* Every step keeps the types and the shape of the queues. *)
LEMMA StepTypes ==
  ASSUME TypeOK, QueuesInv, [Next]_vars
  PROVE  TypeOK' /\ QueuesInv'
<1> USE TypeParts DEF Types, history, muxVars, peerVars, wireVars
<1>1. ASSUME NEW proto \in {"tcp", "udp"}, Open(proto) PROVE TypeOK' /\ QueuesInv'
  <2> DEFINE c == <<proto, opened[proto] + 1>>
  <2>1. c \in Channels
    BY <1>1, NewChannel DEF Open
  <2>2. Control("open", c) \in Packets /\ "client" \in Ends
    BY <2>1, PacketFacts, EndFacts
  <2>3. queue' \in [Ends -> Queues] /\ QueuesInv'
    BY <1>1, <2>2, SendTypes DEF Open
  <2>4. /\ opened' = [opened EXCEPT ![proto] = opened[proto] + 1]
        /\ chans' = [chans EXCEPT !["client"] = chans["client"] \cup {c}]
        /\ UNCHANGED <<closed, peerVars, down, link, history>>
    BY <1>1 DEF Open
  <2>5. opened' \in [{"tcp", "udp"} -> Nat]
    BY <2>4
  <2>6. chans["client"] \cup {c} \in SUBSET Channels
    BY <2>1, <2>2
  <2>7. chans' \in [Ends -> SUBSET Channels]
    BY <2>2, <2>4, <2>6
  <2> QED BY <2>3, <2>4, <2>5, <2>7
<1>2. CASE Terminate
  <2> DEFINE q == Enqueue(queue["server"], Note("terminate"))
  <2>1. q \in Queues /\ WellQueued(q) /\ "server" \in Ends
    BY EndFacts, PacketFacts, EmptySequence, EnqueueKeeps DEF QueuesInv
  <2>2. Shutdown("server") /\ Sever("server", q) /\ UNCHANGED <<opened, wrote, got>>
    BY <1>2 DEF Terminate
  <2> HIDE DEF q
  <2>3. /\ down' \in [Ends -> BOOLEAN] /\ queue' \in [Ends -> Queues] /\ QueuesInv'
        /\ link' \in [Ends -> Seq(Packets)]
    BY <2>1, <2>2, SeverTypes
  <2> QED BY <2>1, <2>2, <2>3, ShutdownTypes
<1>3. ASSUME NEW e \in Ends, NEW c \in Channels, Write(e, c) PROVE TypeOK' /\ QueuesInv'
  <2>1. wrote[e][c] + 1 \in Nat
    <3>1. wrote[e][c] \in Nat
      BY TypeFacts
    <3>2. \A n \in Nat : n + 1 \in Nat
      OBVIOUS
    <3> QED BY <3>1, <3>2, Zenon
  <2>2. Data(c, wrote[e][c] + 1) \in Packets
    BY <2>1, PacketFacts
  <2>3. queue' \in [Ends -> Queues] /\ QueuesInv'
    BY <1>3, <2>2, SendTypes DEF Write
  <2>4. /\ wrote' = [wrote EXCEPT ![e][c] = wrote[e][c] + 1]
        /\ UNCHANGED <<muxVars, opened, peerVars, down, link, got>>
    BY <1>3 DEF Write
  <2>5. wrote' \in [Ends -> [Channels -> Nat]]
    BY <2>1, <2>4
  <2> QED BY <2>3, <2>4, <2>5
<1>4. ASSUME NEW e \in Ends, NEW c \in Channels, CloseChannel(e, c) PROVE TypeOK' /\ QueuesInv'
  <2>1. Control("close", c) \in Packets
    BY PacketFacts
  <2>2. queue' \in [Ends -> Queues] /\ QueuesInv'
    BY <1>4, <2>1, SendTypes DEF CloseChannel
  <2>3. /\ chans' = [chans EXCEPT ![e] = chans[e] \ {c}]
        /\ UNCHANGED <<closed, opened, peerVars, down, link, history>>
    BY <1>4 DEF CloseChannel
  <2> QED BY <2>2, <2>3
<1>5. ASSUME NEW e \in Ends, Published(e) PROVE TypeOK' /\ QueuesInv'
  <2>1. /\ queue' = [queue EXCEPT ![e] = Advance(queue[e])]
        /\ link' = IF down[Peer(e)] THEN link
                   ELSE [link EXCEPT ![Peer(e)] = link[Peer(e)] \o queue[e].busy]
        /\ queue[e].busy # <<>>
        /\ UNCHANGED <<muxVars, opened, peerVars, down, history>>
    BY <1>5 DEF Published
  <2>2. /\ Advance(queue[e]) \in Queues /\ WellQueued(Advance(queue[e]))
        /\ link[Peer(e)] \o queue[e].busy \in Seq(Packets)
    BY <2>1, EndFacts, PublishKeeps DEF QueuesInv
  <2>3. queue' \in [Ends -> Queues] /\ QueuesInv' /\ link' \in [Ends -> Seq(Packets)]
    BY <2>1, <2>2, EndFacts DEF QueuesInv
  <2> QED BY <2>1, <2>3
<1>6. ASSUME NEW e \in Ends, Receive(e) PROVE TypeOK' /\ QueuesInv'
  <2> DEFINE p == Head(link[e])
  <2>1. /\ ~down[e] /\ link[e] # <<>> /\ link' = [link EXCEPT ![e] = Tail(link[e])]
        /\ UNCHANGED <<opened, down, wrote>>
    BY <1>6 DEF Receive
  <2>2. /\ p \in Packets /\ Tail(link[e]) \in Seq(Packets) /\ p.n \in Nat
        /\ p.kind \in {"data", "open", "close"} => p.chan \in Channels
    BY <2>1, HeadPacket
  <2>3. link' \in [Ends -> Seq(Packets)]
    BY <2>1, <2>2
  <2>4. CASE closed[e] /\ UNCHANGED <<muxVars, peerVars, queue, got>>
    BY <2>1, <2>3, <2>4 DEF QueuesInv
  <2>5. CASE p.kind = "open" /\ ReceiveOpen(e, p.chan)
    <3>1. Alive(e) /\ UNCHANGED <<closed, got>> /\ Control("close", p.chan) \in Packets
      BY <2>2, <2>5, PacketFacts DEF ReceiveOpen
    <3>2. CASE SendPacket(e, Control("close", p.chan)) /\ UNCHANGED chans
      BY <2>1, <2>3, <3>1, <3>2, AliveTypes, SendTypes
    <3>3. CASE chans' = [chans EXCEPT ![e] = @ \cup {p.chan}] /\ UNCHANGED queue
      <4>1. chans' \in [Ends -> SUBSET Channels]
        BY <2>2, <2>5, <3>3
      <4> QED BY <2>1, <2>3, <3>1, <3>3, <4>1, AliveTypes DEF QueuesInv
    <3> QED BY <2>5, <3>2, <3>3 DEF ReceiveOpen
  <2>6. CASE p.kind = "close" /\ ReceiveClose(e, p.chan)
    <3>1. /\ Alive(e) /\ UNCHANGED <<closed, queue, got>>
          /\ chans' = [chans EXCEPT ![e] = chans[e] \ {p.chan}]
      BY <2>6 DEF ReceiveClose
    <3> QED BY <2>1, <2>3, <3>1, AliveTypes DEF QueuesInv
  <2>7. CASE p.kind = "data" /\ ReceiveData(e, p)
    <3>1. Alive(e) /\ UNCHANGED <<muxVars, queue>>
      BY <2>7 DEF ReceiveData
    <3>2. got' \in [Ends -> [Channels -> Seq(Nat)]]
      <4>1. CASE p.chan \in chans[e]
        <5>1. got' = [got EXCEPT ![e][p.chan] = Append(got[e][p.chan], p.n)]
          BY <2>7, <4>1 DEF ReceiveData
        <5>2. p.chan \in Channels /\ Append(got[e][p.chan], p.n) \in Seq(Nat)
          BY <2>2, <2>7
        <5> QED BY <5>1, <5>2
      <4>2. CASE p.chan \notin chans[e]
        BY <2>7, <4>2 DEF ReceiveData
      <4> QED BY <4>1, <4>2
    <3> QED BY <2>1, <2>3, <3>1, <3>2, AliveTypes DEF QueuesInv
  <2>8. CASE ReceiveTerminate(e)
    BY <2>1, <2>3, <2>8, ShutdownTypes DEF ReceiveTerminate, QueuesInv
  <2>9. CASE ReceivePing(e)
    <3>1. Alive(e) /\ SendBeat(e, "pong") /\ UNCHANGED <<muxVars, got>>
      BY <2>9 DEF ReceivePing
    <3> QED BY <2>1, <2>3, <3>1, AliveTypes, BeatTypes
  <2>10. CASE ReceivePong(e)
    BY <2>1, <2>3, <2>10, AliveTypes DEF ReceivePong, QueuesInv
  <2> QED BY <1>6, <2>4, <2>5, <2>6, <2>7, <2>8, <2>9, <2>10 DEF Receive
<1>7. ASSUME NEW e \in Ends, Shutdown(e), Sever(e, queue[e]), UNCHANGED <<opened, history>>
      PROVE  TypeOK' /\ QueuesInv'
  <2>1. queue[e] \in Queues /\ WellQueued(queue[e])
    BY DEF QueuesInv
  <2>2. /\ down' \in [Ends -> BOOLEAN] /\ queue' \in [Ends -> Queues] /\ QueuesInv'
        /\ link' \in [Ends -> Seq(Packets)]
    BY <1>7, <2>1, SeverTypes
  <2> QED BY <1>7, <2>2, ShutdownTypes
<1>8. ASSUME NEW e \in Ends, Stray(e) PROVE TypeOK' /\ QueuesInv'
  <2>1. CASE /\ bad[e] + 1 < MaxBad /\ bad' = [bad EXCEPT ![e] = @ + 1]
             /\ UNCHANGED <<muxVars, quiet, missed, wireVars>> /\ UNCHANGED <<opened, history>>
    <3>1. bad[e] + 1 \in 0..(MaxBad - 1)
      BY <2>1
    <3>2. bad' \in [Ends -> 0..(MaxBad - 1)]
      BY <2>1, <3>1
    <3> QED BY <2>1, <3>2 DEF QueuesInv
  <2> QED BY <1>7, <1>8, <2>1 DEF Stray
<1>9. ASSUME NEW e \in Ends, Heartbeat(e) PROVE TypeOK' /\ QueuesInv'
  <2> DEFINE m == missed[e] + (IF quiet[e] THEN 1 ELSE 0)
  <2>1. CASE /\ m < MaxMissed /\ missed' = [missed EXCEPT ![e] = m]
             /\ quiet' = [quiet EXCEPT ![e] = TRUE] /\ SendBeat(e, "ping")
             /\ UNCHANGED <<muxVars, bad, down, link>> /\ UNCHANGED <<opened, history>>
    <3>1. m \in 0..MaxMissed
      BY <2>1
    <3>2. missed' \in [Ends -> 0..MaxMissed] /\ quiet' \in [Ends -> BOOLEAN]
      BY <2>1, <3>1
    <3> QED BY <2>1, <3>2, BeatTypes
  <2> QED BY <1>7, <1>9, <2>1 DEF Heartbeat
<1>10. ASSUME NEW e \in Ends, LinkEnds(e) PROVE TypeOK' /\ QueuesInv'
  BY <1>7, <1>10 DEF LinkEnds
<1>11. CASE UNCHANGED vars
  BY <1>11 DEF vars, QueuesInv
<1> QED BY <1>1, <1>2, <1>3, <1>4, <1>5, <1>6, <1>8, <1>9, <1>10, <1>11 DEF Next

-----------------------------------------------------------------------------
(* What a step does to the way towards an end e. *)

(* Nothing, or the end lets go of channels. *)
LEMMA KeptWay ==
  ASSUME NEW e \in Ends, WayInv(e), ~closed'[e] => ~closed[e], chans'[e] \subseteq chans[e],
         opened' = opened, link'[e] = link[e], queue'[Peer(e)] = queue[Peer(e)],
         down'[Peer(e)] = down[Peer(e)], wrote'[Peer(e)] = wrote[Peer(e)], got'[e] = got[e]
  PROVE  WayInv(e)'
<1> SUFFICES ASSUME ~closed'[e], NEW c \in Channels
             PROVE  Way(e, c, New(c), c \in chans[e], link[e], queue[Peer(e)], down[Peer(e)],
                        Len(got[e][c]), wrote[Peer(e)][c])'
  BY DEF WayInv
<1>1. Way(e, c, New(c), c \in chans[e], link[e], queue[Peer(e)], down[Peer(e)],
          Len(got[e][c]), wrote[Peer(e)][c])
  BY DEF WayInv
<1>2. New(c)' = New(c)
  BY DEF New
<1>3. Way(e, c, New(c), c \in chans'[e], link[e], queue[Peer(e)], down[Peer(e)],
          Len(got[e][c]), wrote[Peer(e)][c])
  BY <1>1, WayShrinks
<1> QED BY <1>2, <1>3

(* The other end sends a control packet that opens nothing. *)
LEMMA SentWay ==
  ASSUME TypeOK, QueuesInv, NEW e \in Ends, WayInv(e),
         NEW p \in Packets, SendPacket(Peer(e), p),
         p.kind \notin {"data", "open"}, p.chan \in Channels => ~New(p.chan),
         ~closed'[e] => ~closed[e], chans'[e] \subseteq chans[e],
         opened' = opened, link'[e] = link[e], down'[Peer(e)] = down[Peer(e)],
         wrote'[Peer(e)] = wrote[Peer(e)], got'[e] = got[e]
  PROVE  WayInv(e)'
<1> SUFFICES ASSUME ~closed'[e], NEW c \in Channels
             PROVE  Way(e, c, New(c), c \in chans[e], link[e], queue[Peer(e)], down[Peer(e)],
                        Len(got[e][c]), wrote[Peer(e)][c])'
  BY DEF WayInv
<1> DEFINE q == queue[Peer(e)]
           a == Len(got[e][c])
           b == wrote[Peer(e)][c]
<1>1. Way(e, c, New(c), c \in chans[e], link[e], q, down[Peer(e)], a, b)
  BY DEF WayInv
<1>2. New(c)' = New(c)
  BY DEF New
<1>3. /\ q \in Queues /\ WellQueued(q) /\ link[e] \in Seq(Packets) /\ a \in Nat /\ b \in Nat
      /\ queue'[Peer(e)] = Enqueue(q, p)
  BY TypeFacts, EndFacts, SendTypes DEF QueuesInv
<1> HIDE DEF q, a, b
<1>4. Way(e, c, New(c), c \in chans[e], link[e], Enqueue(q, p), down[Peer(e)], a, b)
  BY <1>1, <1>3, WaySends
<1>5. Way(e, c, New(c), c \in chans'[e], link[e], Enqueue(q, p), down[Peer(e)], a, b)
  BY <1>4, WayShrinks
<1> QED BY <1>2, <1>3, <1>5 DEF a, b

LEMMA PublishedWay ==
  ASSUME TypeOK, QueuesInv, EndsInv, NEW e \in Ends, WayInv(e), Published(Peer(e))
  PROVE  WayInv(e)'
<1> SUFFICES ASSUME ~closed'[e], NEW c \in Channels
             PROVE  Way(e, c, New(c), c \in chans[e], link[e], queue[Peer(e)], down[Peer(e)],
                        Len(got[e][c]), wrote[Peer(e)][c])'
  BY DEF WayInv
<1> DEFINE q == queue[Peer(e)]
           a == Len(got[e][c])
           b == wrote[Peer(e)][c]
<1>1. /\ ~down[Peer(e)] /\ q.busy # <<>>
      /\ queue' = [queue EXCEPT ![Peer(e)] = Advance(q)]
      /\ link' = IF down[e] THEN link ELSE [link EXCEPT ![e] = link[e] \o q.busy]
      /\ UNCHANGED <<closed, chans, opened, down, wrote, got>>
  BY EndFacts DEF Published, muxVars, history
<1>2. ~closed[e] /\ ~down[e]
  BY <1>1 DEF EndsInv
<1>3. Way(e, c, New(c), c \in chans[e], link[e], q, down[Peer(e)], a, b)
  BY <1>2 DEF WayInv
<1>4. New(c)' = New(c)
  BY <1>1 DEF New
<1>5. /\ q \in Queues /\ WellQueued(q) /\ link[e] \in Seq(Packets) /\ a \in Nat /\ b \in Nat
  BY TypeFacts, EndFacts DEF QueuesInv
<1>6. queue'[Peer(e)] = Advance(q) /\ link'[e] = link[e] \o q.busy
  BY <1>1, <1>2, TypeParts, EndFacts DEF Types
<1> HIDE DEF q, a, b
<1>7. Way(e, c, New(c), c \in chans[e], link[e] \o q.busy, Advance(q), down[Peer(e)], a, b)
  <2>1. ~down[Peer(e)] /\ q.busy # <<>>
    BY <1>1
  <2> QED BY <1>3, <1>5, <2>1, WayPublishes
<1> QED BY <1>1, <1>4, <1>6, <1>7 DEF a, b

(* The other end goes, with q queued. *)
LEMMA SeveredWay ==
  ASSUME TypeOK, QueuesInv, EndsInv, NEW e \in Ends, WayInv(e), ~down[Peer(e)],
         NEW q \in Queues, WellQueued(q), Sever(Peer(e), q),
         \A c \in Channels :
           LET old == queue[Peer(e)]
           IN Way(e, c, New(c), c \in chans[e], link[e], old, down[Peer(e)],
                  Len(got[e][c]), wrote[Peer(e)][c]) =>
              Way(e, c, New(c), c \in chans[e], link[e], q, down[Peer(e)],
                  Len(got[e][c]), wrote[Peer(e)][c]),
         closed'[e] = closed[e], chans'[e] = chans[e], UNCHANGED <<opened, wrote, got>>
  PROVE  WayInv(e)'
<1> SUFFICES ASSUME ~closed'[e], NEW c \in Channels
             PROVE  Way(e, c, New(c), c \in chans[e], link[e], queue[Peer(e)], down[Peer(e)],
                        Len(got[e][c]), wrote[Peer(e)][c])'
  BY DEF WayInv
<1> DEFINE a == Len(got[e][c])
           b == wrote[Peer(e)][c]
<1>1. Way(e, c, New(c), c \in chans[e], link[e], q, down[Peer(e)], a, b)
  BY DEF WayInv
<1>2. New(c)' = New(c)
  BY DEF New
<1>3. link[e] \in Seq(Packets) /\ a \in Nat /\ b \in Nat /\ ~down[e]
  BY TypeFacts, EndFacts DEF EndsInv
<1>4. PICK k \in 0..Len(link[e] \o q.busy) : link'[e] = SubSeq(link[e] \o q.busy, 1, k)
  <2>1. Peer(e) \in Ends /\ Peer(Peer(e)) = e
    BY EndFacts
  <2>2. ~down[Peer(Peer(e))] =>
          \E k \in 0..Len(link[Peer(Peer(e))] \o q.busy) :
            link'[Peer(Peer(e))] = SubSeq(link[Peer(Peer(e))] \o q.busy, 1, k)
    BY <2>1, SeverTypes, Zenon
  <2> QED BY <1>3, <2>1, <2>2, Zenon
<1>5. queue'[Peer(e)] = NoQueue /\ down'[Peer(e)] = TRUE
  BY EndFacts, SeverTypes
<1> HIDE DEF a, b
<1>6. Way(e, c, New(c), c \in chans[e], link'[e], NoQueue, TRUE, a, b)
  BY <1>1, <1>3, <1>4, WaySevered
<1> QED BY <1>2, <1>5, <1>6 DEF a, b

(* The end takes the next packet. *)
LEMMA TakenWay ==
  ASSUME TypeOK, NEW e \in Ends, WayInv(e), link[e] # <<>>, link'[e] = Tail(link[e]),
         queue'[Peer(e)] = queue[Peer(e)], UNCHANGED <<opened, down, wrote>>,
         ~closed'[e] => ~closed[e],
         \A c \in chans'[e] : c \in chans[e] \/ Is(Head(link[e]), "open", c),
         \A c \in Channels :
           Len(got'[e][c]) = Len(got[e][c]) + (IF IsData(Head(link[e]), c) /\ c \in chans[e]
                                               THEN 1 ELSE 0)
  PROVE  /\ WayInv(e)'
         /\ ~closed[e] => \A c \in chans[e] : IsData(Head(link[e]), c) =>
              /\ Head(link[e]).n = Len(got[e][c]) + 1
              /\ Len(got[e][c]) + 1 <= wrote[Peer(e)][c]
<1>1. ASSUME NEW c \in Channels, ~closed[e]
      PROVE  /\ Way(e, c, New(c), c \in chans'[e], Tail(link[e]), queue[Peer(e)], down[Peer(e)],
                    Len(got'[e][c]), wrote[Peer(e)][c])
             /\ IsData(Head(link[e]), c) /\ c \in chans[e] =>
                  /\ Head(link[e]).n = Len(got[e][c]) + 1
                  /\ Len(got[e][c]) + 1 <= wrote[Peer(e)][c]
  <2> DEFINE l == link[e]
             q == queue[Peer(e)]
             a == Len(got[e][c])
             b == wrote[Peer(e)][c]
  <2>1. Way(e, c, New(c), c \in chans[e], l, q, down[Peer(e)], a, b)
    BY <1>1 DEF WayInv
  <2>2. q \in Queues /\ l \in Seq(Packets) /\ a \in Nat /\ b \in Nat
    BY TypeFacts, EndFacts
  <2>3. c \in chans'[e] => c \in chans[e] \/ Is(Head(l), "open", c)
    OBVIOUS
  <2>4. Len(got'[e][c]) = IF IsData(Head(l), c) /\ c \in chans[e] THEN a + 1 ELSE a
    <3>1. \A n \in Nat : n + 0 = n
      OBVIOUS
    <3>2. Len(got'[e][c]) = a + (IF IsData(Head(l), c) /\ c \in chans[e] THEN 1 ELSE 0)
      OBVIOUS
    <3> HIDE DEF l, a
    <3> QED BY <2>2, <3>1, <3>2
  <2> HIDE DEF l, q, a, b
  <2>5. /\ IsData(Head(l), c) /\ c \in chans[e] =>
             /\ Head(l).n = a + 1 /\ a + 1 <= b
             /\ Way(e, c, New(c), c \in chans'[e], Tail(l), q, down[Peer(e)], a + 1, b)
        /\ ~(IsData(Head(l), c) /\ c \in chans[e]) =>
             Way(e, c, New(c), c \in chans'[e], Tail(l), q, down[Peer(e)], a, b)
    <3>1. l # <<>>
      BY DEF l
    <3> QED BY <2>1, <2>2, <2>3, <3>1, WayTakes
  <2> QED BY <2>4, <2>5 DEF l, q, a, b
<1>2. \A c : New(c)' = New(c)
  BY DEF New
<1>3. WayInv(e)'
  BY <1>1, <1>2, EndFacts DEF WayInv
<1>4. chans[e] \subseteq Channels
  BY TypeFacts
<1> QED BY <1>1, <1>3, <1>4

-----------------------------------------------------------------------------
(* What a step does to the control packets on the way to an end e. *)

LEMMA PendingKept ==
  ASSUME NEW e \in Ends, link'[e] = link[e], queue'[Peer(e)] = queue[Peer(e)]
  PROVE  \A c, k : Pending(e, k, c)' <=> Pending(e, k, c)
BY DEF Pending

LEMMA PendingSent ==
  ASSUME TypeOK, QueuesInv, NEW e \in Ends, NEW p \in Packets, SendPacket(Peer(e), p),
         link'[e] = link[e]
  PROVE  \A c, k : k # "data" => (Pending(e, k, c)' <=> Pending(e, k, c) \/ Is(p, k, c))
<1>1. /\ queue[Peer(e)] \in Queues /\ WellQueued(queue[Peer(e)]) /\ link[e] \in Seq(Packets)
      /\ queue'[Peer(e)] = Enqueue(queue[Peer(e)], p)
  BY TypeFacts, EndFacts, SendTypes DEF QueuesInv
<1>2. \A c, k : k # "data" => (Pends(link[e], Enqueue(queue[Peer(e)], p), k, c)
                                 <=> Pends(link[e], queue[Peer(e)], k, c) \/ Is(p, k, c))
  BY <1>1, EnqueueKeeps
<1> QED BY <1>1, <1>2, Zenon DEF Pending

LEMMA PendingPublished ==
  ASSUME TypeOK, QueuesInv, NEW e \in Ends, Published(Peer(e)), ~down[e]
  PROVE  \A c, k : k # "data" => (Pending(e, k, c)' <=> Pending(e, k, c))
<1> DEFINE q == queue[Peer(e)]
<1>1. /\ q.busy # <<>> /\ queue' = [queue EXCEPT ![Peer(e)] = Advance(q)]
      /\ link' = [link EXCEPT ![e] = link[e] \o q.busy]
  BY EndFacts DEF Published
<1>2. queue'[Peer(e)] = Advance(q) /\ link'[e] = link[e] \o q.busy
  BY <1>1, TypeParts, EndFacts DEF Types
<1>3. q \in Queues /\ WellQueued(q) /\ link[e] \in Seq(Packets)
  BY TypeFacts, EndFacts DEF QueuesInv
<1>4. \A c, k : k # "data" => (Pends(link[e] \o q.busy, Advance(q), k, c) <=> Pends(link[e], q, k, c))
  BY <1>1, <1>3, PublishKeeps
<1> QED BY <1>2, <1>4, Zenon DEF Pending

LEMMA PendingTaken ==
  ASSUME TypeOK, NEW e \in Ends, link[e] # <<>>, link'[e] = Tail(link[e]),
         queue'[Peer(e)] = queue[Peer(e)]
  PROVE  \A c, k : Pending(e, k, c) <=> Pending(e, k, c)' \/ Is(Head(link[e]), k, c)
<1>1. link[e] \in Seq(Packets)
  BY TypeFacts
<1>2. \A c, k : Pends(link[e], queue[Peer(e)], k, c) <=>
                  Pends(Tail(link[e]), queue[Peer(e)], k, c) \/ Is(Head(link[e]), k, c)
  BY <1>1, TakeKeeps
<1> QED BY <1>2, Zenon DEF Pending

LEMMA TablesKept ==
  ASSUME TablesInv, chans' = chans, Running' => Running,
         \A c \in Channels : /\ Opening(c)' <=> Opening(c)
                             /\ Closing("client", c)' <=> Closing("client", c)
                             /\ Closing("server", c)' <=> Closing("server", c)
  PROVE  TablesInv'
BY Zenon DEF TablesInv, Agreed

(* Nothing ever reopens an end. *)
LEMMA EndsStay ==
  ASSUME TypeOK, EndsInv, closed' = closed, down' = down,
         \A e \in Ends : closed[e] => chans'[e] = {}
  PROVE  EndsInv' /\ (Running' => Running)
BY DEF EndsInv, Running

(* The steps of a channel's life. *)

LEMMA OpenStep ==
  ASSUME IInv, NEW proto \in {"tcp", "udp"}, Open(proto)
  PROVE  EndsInv' /\ (\A e \in Ends : WayInv(e)') /\ HandedInv' /\ TablesInv'
<1>0. PICK d \in Channels : d = <<proto, opened[proto] + 1>>
  <2>1. opened[proto] < Bound(proto)
    BY DEF Open
  <2> QED BY <2>1, NewChannel DEF IInv
<1> DEFINE p == Control("open", d)
<1>1. /\ ~closed["client"] /\ opened[proto] < Bound(proto)
      /\ opened' = [opened EXCEPT ![proto] = opened[proto] + 1]
      /\ chans' = [chans EXCEPT !["client"] = chans["client"] \cup {d}]
      /\ SendPacket("client", p)
      /\ UNCHANGED <<closed, down, link, wrote, got>>
  BY <1>0 DEF Open, history
<1>2. d \in Channels /\ p \in Packets /\ p.kind = "open" /\ p.chan = d
  BY PacketFacts
<1>t. /\ TypeOK /\ QueuesInv /\ EndsInv /\ WayInv("client") /\ WayInv("server") /\ HandedInv
      /\ TablesInv /\ "client" \in Ends /\ "server" \in Ends
  BY EndFacts DEF IInv
<1>3. /\ New(d) /\ ~New(d)'
      /\ \A c \in Channels : c # d => (New(c)' <=> New(c))
  <2>1. /\ opened[proto] \in Nat /\ opened'[proto] = opened[proto] + 1
        /\ \A x \in {"tcp", "udp"} : x # proto => opened'[x] = opened[x]
        /\ d[1] = proto /\ d[2] = opened[proto] + 1
    BY <1>0, <1>1, <1>t, TypeParts DEF Types
  <2>2. New(d) /\ ~New(d)'
    <3>1. \A n \in Nat : n + 1 > n /\ ~(n + 1 > n + 1)
      OBVIOUS
    <3>2. (New(d) <=> opened[proto] + 1 > opened[proto])
          /\ (New(d)' <=> opened[proto] + 1 > opened'[proto])
      BY <2>1 DEF New
    <3> QED BY <2>1, <3>1, <3>2
  <2>3. ASSUME NEW c \in Channels, c # d PROVE New(c)' <=> New(c)
    <3>1. c[1] \in {"tcp", "udp"} /\ c[2] \in Nat /\ c = <<c[1], c[2]>>
      BY ChannelFacts
    <3>d. d = <<d[1], d[2]>>
      BY ChannelFacts
    <3>2. CASE c[1] # proto
      BY <2>1, <3>1, <3>2 DEF New
    <3>3. CASE c[1] = proto
      <4>1. c[2] # opened[proto] + 1
        BY <2>1, <2>3, <3>1, <3>d, <3>3
      <4>2. \A m, n \in Nat : m # n + 1 => (m > n + 1 <=> m > n)
        OBVIOUS
      <4>3. (New(c) <=> c[2] > opened[proto]) /\ (New(c)' <=> c[2] > opened'[proto])
        BY <3>3 DEF New
      <4> QED BY <2>1, <3>1, <4>1, <4>2, <4>3
    <3> QED BY <3>2, <3>3
  <2> QED BY <2>2, <2>3
<1>4. chans'["server"] = chans["server"] /\ chans'["client"] = chans["client"] \cup {d}
  BY <1>1, <1>t, TypeParts DEF Types
<1>5. /\ queue'["client"] = Enqueue(queue["client"], p) /\ queue'["server"] = queue["server"]
  BY <1>1, <1>2, <1>t, SendTypes, EndFacts
<1>y. ASSUME NEW e \in Ends, NEW c \in Channels
      PROVE  /\ link[e] \in Seq(Packets) /\ queue[Peer(e)] \in Queues
             /\ WellQueued(queue[Peer(e)])
             /\ Len(got[e][c]) \in Nat /\ wrote[Peer(e)][c] \in Nat
  BY <1>t, TypeFacts, EndFacts DEF QueuesInv
<1> HIDE DEF p
<1>6. WayInv("server")'
  <2> DEFINE l == link["server"]
             q == queue["client"]
  <2> SUFFICES ASSUME ~closed'["server"], NEW c \in Channels
               PROVE  Way("server", c, New(c)', c \in chans["server"], l, Enqueue(q, p),
                          down["client"], Len(got["server"][c]), wrote["client"][c])
    BY <1>1, <1>4, <1>5, EndFacts DEF WayInv
  <2>1. Way("server", c, New(c), c \in chans["server"], l, q,
            down["client"], Len(got["server"][c]), wrote["client"][c])
    BY <1>1, <1>t, EndFacts DEF WayInv
  <2>2. /\ l \in Seq(Packets) /\ q \in Queues /\ WellQueued(q)
        /\ Len(got["server"][c]) \in Nat /\ wrote["client"][c] \in Nat
    BY <1>t, <1>y, EndFacts
  <2> HIDE DEF l, q
  <2>3. CASE c # d
    <3>1. p.chan # c
      BY <1>2, <2>3
    <3>2. New(c)' = New(c)
      BY <1>3, <2>3 DEF New
    <3> QED BY <1>2, <2>1, <2>2, <3>1, <3>2, WaySends
  <2>4. CASE c = d
    <3>1. Is(p, "open", c)
      BY <1>2, <2>4 DEF Is
    <3>2. Way("server", c, FALSE, c \in chans["server"], l, Enqueue(q, p),
              down["client"], Len(got["server"][c]), wrote["client"][c])
      BY <1>2, <1>3, <2>1, <2>2, <2>4, <3>1, WaySends
    <3>3. New(c)' = FALSE
      BY <1>3, <2>4 DEF New
    <3> QED BY <3>2, <3>3
  <2> QED BY <2>3, <2>4
<1>7. WayInv("client")'
  <2> DEFINE l == link["client"]
             q == queue["server"]
  <2> SUFFICES ASSUME NEW c \in Channels
               PROVE  Way("client", c, New(c)', c \in chans'["client"], l, q,
                          down["server"], Len(got["client"][c]), wrote["server"][c])
    BY <1>1, <1>5, EndFacts DEF WayInv
  <2>1. Way("client", c, New(c), c \in chans["client"], l, q,
            down["server"], Len(got["client"][c]), wrote["server"][c])
    BY <1>1, <1>t, EndFacts DEF WayInv
  <2>2. /\ l \in Seq(Packets) /\ q \in Queues
    BY <1>t, <1>y, EndFacts
  <2> HIDE DEF l, q
  <2>3. CASE c # d
    <3>1. (c \in chans'["client"] => c \in chans["client"]) /\ (New(c)' => New(c))
      BY <1>3, <1>4, <2>3
    <3> QED BY <2>1, <3>1, WayShrinks
  <2>4. CASE c = d
    <3>1. /\ Unused(l, q, c) /\ Len(got["client"][c]) = 0 /\ wrote["server"][c] = 0
          /\ New(c)' = FALSE
      BY <1>3, <2>1, <2>4 DEF Way, New
    <3>2. Flow(l, q, c, 0, 0) /\ InTurn(l, c, 0, 0) /\ ~Pends(l, q, "open", c)
      BY <2>2, <3>1, WayUntouched
    <3> QED BY <3>1, <3>2 DEF Way
  <2> QED BY <2>3, <2>4
<1>8. EndsInv' /\ (Running' => Running)
  BY <1>1, <1>4, <1>t, EndFacts, EndsStay DEF EndsInv
<1>9. HandedInv'
  BY <1>1, <1>t DEF HandedInv
<1>10. TablesInv'
  <2> SUFFICES ASSUME Running, NEW c \in Channels
               PROVE  Agreed(c, c \in chans["client"], c \in chans["server"])'
    BY <1>8 DEF TablesInv
  <2>1. /\ Opening(c)' <=> Opening(c) \/ c = d
        /\ Closing("client", c)' <=> Closing("client", c)
        /\ Closing("server", c)' <=> Closing("server", c)
    <3>1. \A k : Pending("client", k, c)' <=> Pending("client", k, c)
      BY <1>1, <1>5, <1>t, EndFacts, PendingKept
    <3>2. \A k : k # "data" => (Pending("server", k, c)' <=> Pending("server", k, c) \/ Is(p, k, c))
      BY <1>1, <1>2, <1>t, EndFacts, PendingSent
    <3>3. (Is(p, "open", c) <=> c = d) /\ ~Is(p, "close", c)
      BY <1>2 DEF Is
    <3> QED BY <3>1, <3>2, <3>3 DEF Opening, Closing
  <2>2. Agreed(c, c \in chans["client"], c \in chans["server"])
    BY <1>t DEF TablesInv
  <2>3. CASE c # d
    BY <1>4, <2>1, <2>2, <2>3 DEF Agreed
  <2>4. CASE c = d
    <3>1. ~closed["client"] /\ ~closed["server"]
      BY EndFacts DEF Running
    <3>2. ASSUME NEW e \in Ends
          PROVE  c \notin chans[e] /\ \A k : ~Pending(e, k, c)
      <4>1. Unused(link[e], queue[Peer(e)], c) /\ c \notin chans[e]
        BY <1>3, <1>t, <2>4, <3>1, EndFacts DEF WayInv, Way
      <4> QED BY <1>y, <4>1, WayUntouched DEF Pending
    <3>3. ~Closing("client", c) /\ ~Closing("server", c) /\ c \notin chans["server"]
      BY <1>t, <3>2 DEF Closing
    <3> QED BY <1>4, <2>1, <2>4, <3>3 DEF Agreed
  <2> QED BY <2>3, <2>4
<1> QED BY <1>6, <1>7, <1>8, <1>9, <1>10, EndFacts

LEMMA HeldIsOpened ==
  ASSUME IInv, NEW e \in Ends, NEW c \in chans[e]
  PROVE  c \in Channels /\ ~closed[e] /\ ~down[e] /\ ~New(c)
<1>1. c \in Channels /\ ~closed[e] /\ ~down[e]
  BY TypeFacts DEF IInv, EndsInv
<1> QED BY <1>1 DEF IInv, WayInv, Way

LEMMA WriteStep ==
  ASSUME IInv, NEW e \in Ends, NEW d \in Channels, Write(e, d)
  PROVE  EndsInv' /\ (\A x \in Ends : WayInv(x)') /\ HandedInv' /\ TablesInv'
<1>0. PICK n \in Nat : n = wrote[e][d]
  BY TypeFacts DEF IInv
<1> DEFINE p == Data(d, n + 1)
           o == Peer(e)
<1>1. /\ d \in chans[e] /\ wrote' = [wrote EXCEPT ![e][d] = n + 1] /\ SendPacket(e, p)
      /\ UNCHANGED <<closed, chans, opened, down, link, got>>
  BY <1>0 DEF Write, muxVars
<1>t. /\ TypeOK /\ QueuesInv /\ EndsInv /\ WayInv(e) /\ WayInv(o) /\ HandedInv
      /\ TablesInv /\ o \in Ends /\ o # e /\ Peer(o) = e
  BY EndFacts DEF IInv
<1>2. /\ p \in Packets /\ p.kind = "data" /\ p.chan = d /\ p.n = n + 1 /\ n + 1 \in Nat
      /\ IsData(p, d)
  <2>1. n + 1 \in Nat
    OBVIOUS
  <2> QED BY <2>1, PacketFacts DEF IsData
<1>3. ~closed[e] /\ ~down[e] /\ ~New(d)
  BY <1>1, HeldIsOpened
<1>4. /\ wrote'[e][d] = n + 1 /\ wrote'[o] = wrote[o]
      /\ \A c \in Channels : c # d => wrote'[e][c] = wrote[e][c]
  BY <1>1, <1>t, TypeParts DEF Types
<1>5. queue'[e] = Enqueue(queue[e], p) /\ queue'[o] = queue[o]
  BY <1>1, <1>2, <1>t, SendTypes
<1>n. \A c : New(c)' = New(c)
  BY <1>1 DEF New
<1> HIDE DEF p, o
<1>6. WayInv(e)'
  BY <1>1, <1>4, <1>5, <1>t, KeptWay DEF o
<1>7. WayInv(o)'
  <2> DEFINE l == link[o]
             q == queue[e]
  <2> SUFFICES ASSUME ~closed[o], NEW c \in Channels
               PROVE  Way(o, c, New(c), c \in chans[o], l, Enqueue(q, p),
                          down[e], Len(got[o][c]), wrote'[e][c])
    BY <1>1, <1>5, <1>n, <1>t DEF WayInv
  <2>1. Way(o, c, New(c), c \in chans[o], l, q, down[e], Len(got[o][c]), wrote[e][c])
    BY <1>t DEF WayInv
  <2>2. /\ l \in Seq(Packets) /\ q \in Queues /\ WellQueued(q)
        /\ Len(got[o][c]) \in Nat /\ wrote[e][c] \in Nat
    BY <1>t, TypeFacts DEF QueuesInv
  <2> HIDE DEF l, q
  <2>3. CASE c # d
    <3>1. p.chan # c /\ wrote'[e][c] = wrote[e][c]
      BY <1>2, <1>4, <2>3
    <3>2. Way(o, c, New(c), c \in chans[o], l, Enqueue(q, p), down[e], Len(got[o][c]), wrote[e][c])
      BY <1>2, <2>1, <2>2, <3>1, WaySends
    <3> QED BY <3>1, <3>2
  <2>4. CASE c = d
    <3>1. ~New(c) /\ IsData(p, c) /\ p.n = wrote[e][c] + 1 /\ wrote'[e][c] = wrote[e][c] + 1
      BY <1>0, <1>2, <1>3, <1>4, <2>4
    <3>2. Way(o, c, New(c), c \in chans[o], l, Enqueue(q, p), down[e], Len(got[o][c]),
              wrote[e][c] + 1)
      BY <1>2, <1>3, <2>1, <2>2, <3>1, WaySends
    <3> QED BY <3>1, <3>2
  <2> QED BY <2>3, <2>4
<1>8. EndsInv' /\ (Running' => Running)
  BY <1>1, <1>t, EndsStay DEF EndsInv
<1>9. HandedInv'
  <2>1. \A x \in Ends, c \in Channels : wrote[Peer(x)][c] <= wrote'[Peer(x)][c]
    <3> SUFFICES ASSUME NEW x \in Ends, NEW c \in Channels
                 PROVE  wrote[Peer(x)][c] <= wrote'[Peer(x)][c]
      OBVIOUS
    <3>1. wrote[Peer(x)][c] \in Nat /\ Peer(x) \in {e, o}
      BY <1>t, TypeFacts, EndFacts DEF o
    <3>2. CASE Peer(x) = e /\ c = d
      BY <1>0, <1>4, <3>2
    <3>3. CASE ~(Peer(x) = e /\ c = d)
      BY <1>4, <3>1, <3>3
    <3> QED BY <3>2, <3>3
  <2>2. \A x \in Ends, c \in Channels :
          /\ Len(got[x][c]) \in Nat /\ wrote[Peer(x)][c] \in Nat /\ wrote'[Peer(x)][c] \in Nat
    <3>1. TypeOK'
      BY <1>t, StepTypes, Zenon DEF Next
    <3>2. wrote' \in [Ends -> [Channels -> Nat]]
      BY <3>1, TypeParts DEF Types
    <3>3. \A x \in Ends, c \in Channels : wrote'[Peer(x)][c] \in Nat
      BY <3>2, EndFacts
    <3>4. \A x \in Ends, c \in Channels : Len(got[x][c]) \in Nat /\ wrote[Peer(x)][c] \in Nat
      BY <1>t, TypeFacts, EndFacts
    <3> QED BY <3>3, <3>4
  <2>3. \A x \in Ends, c \in Channels : Len(got[x][c]) <= wrote'[Peer(x)][c]
    <3>1. \A i, j, k \in Nat : i <= j /\ j <= k => i <= k
      OBVIOUS
    <3> QED BY <1>t, <2>1, <2>2, <3>1, Zenon DEF HandedInv
  <2> QED BY <1>1, <1>t, <2>3, Zenon DEF HandedInv
<1>10. TablesInv'
  <2>1. \A c, k : k # "data" => (Pending(e, k, c)' <=> Pending(e, k, c))
    BY <1>1, <1>5, <1>t, PendingKept DEF o
  <2>2. \A c, k : k # "data" => (Pending(o, k, c)' <=> Pending(o, k, c) \/ Is(p, k, c))
    BY <1>1, <1>2, <1>t, PendingSent
  <2>3. \A c, k : k # "data" => ~Is(p, k, c)
    BY <1>2 DEF Is
  <2>4. (e = "client" /\ o = "server") \/ (e = "server" /\ o = "client")
    BY <1>t, EndFacts DEF o
  <2>5. \A c, k : k # "data" => /\ Pending("client", k, c)' <=> Pending("client", k, c)
                                /\ Pending("server", k, c)' <=> Pending("server", k, c)
    BY <2>1, <2>2, <2>3, <2>4, Zenon
  <2>6. "open" # "data" /\ "close" # "data"
    OBVIOUS
  <2> QED BY <1>1, <1>8, <1>t, <2>5, <2>6, TablesKept, Zenon DEF Opening, Closing
<1> QED BY <1>6, <1>7, <1>8, <1>9, <1>10, <1>t, EndFacts DEF o

(* A control packet of an opened channel or of none is sent, and e may let go
   of channels. *)
LEMMA SendStep ==
  ASSUME IInv, NEW e \in Ends, NEW p \in Packets, SendPacket(e, p),
         p.kind \notin {"data", "open"}, p.chan \in Channels => ~New(p.chan),
         chans'[e] \subseteq chans[e], chans'[Peer(e)] = chans[Peer(e)],
         UNCHANGED <<closed, opened, down, link, wrote, got>>
  PROVE  /\ EndsInv' /\ (\A x \in Ends : WayInv(x)') /\ HandedInv' /\ (Running' => Running)
         /\ \A c, k : k # "data" =>
              /\ Pending(e, k, c)' <=> Pending(e, k, c)
              /\ Pending(Peer(e), k, c)' <=> Pending(Peer(e), k, c) \/ Is(p, k, c)
<1> DEFINE o == Peer(e)
<1>t. /\ TypeOK /\ QueuesInv /\ EndsInv /\ WayInv(e) /\ WayInv(o) /\ HandedInv
      /\ o \in Ends /\ o # e /\ Peer(o) = e
  BY EndFacts DEF IInv
<1>1. queue'[o] = queue[o]
  BY <1>t, SendTypes
<1>2. WayInv(e)'
  BY <1>1, <1>t, KeptWay
<1>3. WayInv(o)'
  BY <1>t, SentWay
<1>4. EndsInv' /\ (Running' => Running)
  BY <1>t, EndFacts, EndsStay DEF EndsInv
<1>5. HandedInv'
  BY <1>t DEF HandedInv
<1>6. \A c, k : k # "data" => (Pending(e, k, c)' <=> Pending(e, k, c))
  BY <1>1, <1>t, PendingKept
<1>7. \A c, k : k # "data" => (Pending(o, k, c)' <=> Pending(o, k, c) \/ Is(p, k, c))
  BY <1>t, PendingSent
<1> QED BY <1>2, <1>3, <1>4, <1>5, <1>6, <1>7, EndFacts

LEMMA CloseStep ==
  ASSUME IInv, NEW e \in Ends, NEW d \in Channels, CloseChannel(e, d)
  PROVE  EndsInv' /\ (\A x \in Ends : WayInv(x)') /\ HandedInv' /\ TablesInv'
<1> DEFINE p == Control("close", d)
           o == Peer(e)
<1>1. /\ d \in chans[e] /\ chans' = [chans EXCEPT ![e] = chans[e] \ {d}] /\ SendPacket(e, p)
      /\ UNCHANGED <<closed, opened, down, link, wrote, got>>
  BY DEF CloseChannel, history
<1>2. /\ p \in Packets /\ p.kind = "close" /\ p.chan = d
  BY PacketFacts
<1>3. ~New(d)
  BY <1>1, HeldIsOpened
<1>4. chans'[e] = chans[e] \ {d} /\ chans'[o] = chans[o]
  BY <1>1, EndFacts, TypeParts DEF IInv, Types
<1> HIDE DEF p
<1>5. /\ EndsInv' /\ (\A x \in Ends : WayInv(x)') /\ HandedInv' /\ (Running' => Running)
      /\ \A c, k : k # "data" =>
           /\ Pending(e, k, c)' <=> Pending(e, k, c)
           /\ Pending(o, k, c)' <=> Pending(o, k, c) \/ Is(p, k, c)
  BY <1>1, <1>2, <1>3, <1>4, SendStep
<1>6. ASSUME Running, NEW c \in Channels
      PROVE  Agreed(c, c \in chans["client"], c \in chans["server"])'
  <2>1. Agreed(c, c \in chans["client"], c \in chans["server"])
    BY <1>6 DEF IInv, TablesInv
  <2>2. /\ Pending(e, "open", c)' <=> Pending(e, "open", c)
        /\ Pending(o, "open", c)' <=> Pending(o, "open", c)
        /\ Pending(e, "close", c)' <=> Pending(e, "close", c)
        /\ Pending(o, "close", c)' <=> Pending(o, "close", c) \/ c = d
    <3>1. "open" # "data" /\ "close" # "data"
      OBVIOUS
    <3>2. ~Is(p, "open", c) /\ (Is(p, "close", c) <=> c = d)
      BY <1>2 DEF Is
    <3> QED BY <1>5, <3>1, <3>2, Zenon
  <2>3. c \in chans'[e] <=> c \in chans[e] /\ c # d
    BY <1>4
  <2>4. CASE e = "client" /\ o = "server"
    BY <1>1, <1>4, <2>1, <2>2, <2>3, <2>4 DEF Agreed, Opening, Closing
  <2>5. CASE e = "server" /\ o = "client"
    BY <1>1, <1>4, <2>1, <2>2, <2>3, <2>5 DEF Agreed, Opening, Closing
  <2> QED BY <2>4, <2>5, EndFacts
<1>7. TablesInv'
  BY <1>5, <1>6 DEF TablesInv
<1> QED BY <1>5, <1>7

LEMMA PublishStep ==
  ASSUME IInv, NEW e \in Ends, Published(e)
  PROVE  EndsInv' /\ (\A x \in Ends : WayInv(x)') /\ HandedInv' /\ TablesInv'
<1> DEFINE o == Peer(e)
<1>t. /\ TypeOK /\ QueuesInv /\ EndsInv /\ WayInv(e) /\ WayInv(o) /\ HandedInv /\ TablesInv
      /\ o \in Ends /\ o # e /\ Peer(o) = e
  BY EndFacts DEF IInv
<1>1. /\ queue' = [queue EXCEPT ![e] = Advance(queue[e])]
      /\ link' = IF down[o] THEN link ELSE [link EXCEPT ![o] = link[o] \o queue[e].busy]
      /\ UNCHANGED <<closed, chans, opened, down, wrote, got>>
  BY DEF Published, muxVars, history
<1>2. queue'[o] = queue[o] /\ link'[e] = link[e]
  BY <1>1, <1>t, TypeParts DEF Types
<1>3. WayInv(e)'
  BY <1>1, <1>2, <1>t, KeptWay
<1>4. WayInv(o)'
  BY <1>t, PublishedWay
<1>5. EndsInv' /\ (Running' => Running)
  BY <1>1, <1>t, EndFacts, EndsStay DEF EndsInv
<1>6. HandedInv'
  BY <1>1, <1>t DEF HandedInv
<1>7. TablesInv'
  <2>1. CASE ~Running
    BY <1>5, <2>1 DEF TablesInv
  <2>2. CASE Running
    <3>1. ~down[o]
      BY <1>t, <2>2 DEF Running
    <3>2. \A c, k : Pending(e, k, c)' <=> Pending(e, k, c)
      BY <1>2, PendingKept
    <3>3. \A c, k : k # "data" => (Pending(o, k, c)' <=> Pending(o, k, c))
      BY <1>t, <3>1, PendingPublished
    <3>4. (e = "client" /\ o = "server") \/ (e = "server" /\ o = "client")
      BY EndFacts
    <3>5. \A c, k : k # "data" => /\ Pending("client", k, c)' <=> Pending("client", k, c)
                                  /\ Pending("server", k, c)' <=> Pending("server", k, c)
      BY <3>2, <3>3, <3>4, Zenon
    <3>6. "open" # "data" /\ "close" # "data"
      OBVIOUS
    <3> QED BY <1>1, <1>5, <1>t, <3>5, <3>6, TablesKept, Zenon DEF Opening, Closing
  <2> QED BY <2>1, <2>2
<1> QED BY <1>3, <1>4, <1>5, <1>6, <1>7, EndFacts

(* The mux and the transport of e end, with q queued. *)
LEMMA EndingStep ==
  ASSUME IInv, NEW e \in Ends, NEW q \in Queues, ~down[e], Shutdown(e), Sever(e, q),
         q = queue[e] \/ q = Enqueue(queue[e], Note("terminate")),
         UNCHANGED <<opened, wrote, got>>
  PROVE  EndsInv' /\ (\A x \in Ends : WayInv(x)') /\ HandedInv' /\ TablesInv'
<1> DEFINE o == Peer(e)
<1>t. /\ TypeOK /\ QueuesInv /\ EndsInv /\ WayInv(e) /\ WayInv(o) /\ HandedInv
      /\ o \in Ends /\ o # e /\ Peer(o) = e
  BY EndFacts DEF IInv
<1>q. Note("terminate") \in Packets /\ queue[e] \in Queues /\ WellQueued(queue[e])
  BY <1>t, TypeFacts, PacketFacts DEF QueuesInv
<1>1. WellQueued(q)
  <2>1. <<>> \in Seq(Packets)
    OBVIOUS
  <2>2. WellQueued(Enqueue(queue[e], Note("terminate")))
    BY <1>q, <2>1, EnqueueKeeps
  <2> QED BY <1>q, <2>2
<1>2. /\ closed'[e] /\ closed'[o] = closed[o] /\ chans'[e] = {} /\ chans'[o] = chans[o]
  BY <1>t, ShutdownTypes
<1>3. down'[o] = down[o]
  BY <1>1, <1>t, SeverTypes
<1>4. WayInv(e)'
  BY <1>2 DEF WayInv
<1>5. WayInv(o)'
  <2>1. ASSUME NEW c \in Channels,
               Way(o, c, New(c), c \in chans[o], link[o], queue[e], down[e],
                   Len(got[o][c]), wrote[e][c])
        PROVE  Way(o, c, New(c), c \in chans[o], link[o], q, down[e],
                   Len(got[o][c]), wrote[e][c])
    <3>1. CASE q = queue[e]
      BY <2>1, <3>1
    <3>2. CASE q = Enqueue(queue[e], Note("terminate"))
      <4>1. Note("terminate").chan # c
        BY PacketFacts
      <4>2. link[o] \in Seq(Packets) /\ Len(got[o][c]) \in Nat /\ wrote[e][c] \in Nat
        BY <1>t, TypeFacts
      <4> QED BY <1>q, <2>1, <3>2, <4>1, <4>2, WaySends
    <3> QED BY <3>1, <3>2
  <2> QED BY <1>1, <1>2, <1>t, <2>1, SeveredWay
<1>6. EndsInv'
  BY <1>2, <1>3, <1>t, EndFacts DEF EndsInv
<1>7. HandedInv'
  BY <1>t DEF HandedInv
<1>8. TablesInv'
  BY <1>2 DEF TablesInv, Running
<1> QED BY <1>4, <1>5, <1>6, <1>7, <1>8, EndFacts

(* A packet is taken by an end that is open: both ways, whatever it answers. *)
LEMMA TakeStep ==
  ASSUME IInv, NEW e \in Ends, ~closed[e], link[e] # <<>>,
         link' = [link EXCEPT ![e] = Tail(link[e])], UNCHANGED <<opened, down, wrote>>,
         closed'[Peer(e)] = closed[Peer(e)], chans'[Peer(e)] = chans[Peer(e)],
         got'[Peer(e)] = got[Peer(e)],
         NEW r \in Packets, r.kind \notin {"data", "open"}, r.chan \in Channels => ~New(r.chan),
         queue' = queue \/ SendPacket(e, r),
         \A c \in chans'[e] : c \in chans[e] \/ Is(Head(link[e]), "open", c),
         \A c \in Channels :
           Len(got'[e][c]) = Len(got[e][c]) + (IF IsData(Head(link[e]), c) /\ c \in chans[e]
                                               THEN 1 ELSE 0)
  PROVE  /\ \A x \in Ends : WayInv(x)'
         /\ \A c \in chans[e] : IsData(Head(link[e]), c) =>
              /\ Head(link[e]).n = Len(got[e][c]) + 1
              /\ Len(got[e][c]) + 1 <= wrote[Peer(e)][c]
         /\ \A c, k : Pending(e, k, c) <=> Pending(e, k, c)' \/ Is(Head(link[e]), k, c)
         /\ queue' = queue => \A c, k : Pending(Peer(e), k, c)' <=> Pending(Peer(e), k, c)
         /\ SendPacket(e, r) => \A c, k : k # "data" =>
              (Pending(Peer(e), k, c)' <=> Pending(Peer(e), k, c) \/ Is(r, k, c))
<1> DEFINE o == Peer(e)
<1>t. /\ TypeOK /\ QueuesInv /\ EndsInv /\ WayInv(e) /\ WayInv(o)
      /\ o \in Ends /\ o # e /\ Peer(o) = e
  BY EndFacts DEF IInv
<1>1. queue'[o] = queue[o]
  BY <1>t, SendTypes
<1>2. link'[e] = Tail(link[e]) /\ link'[o] = link[o]
  BY <1>t, TypeParts DEF Types
<1>3. /\ WayInv(e)'
      /\ \A c \in chans[e] : IsData(Head(link[e]), c) =>
           /\ Head(link[e]).n = Len(got[e][c]) + 1
           /\ Len(got[e][c]) + 1 <= wrote[o][c]
  BY <1>1, <1>2, <1>t, TakenWay
<1>4. WayInv(o)'
  <2>1. CASE queue' = queue
    BY <1>2, <1>t, <2>1, KeptWay
  <2>2. CASE SendPacket(e, r)
    BY <1>2, <1>t, <2>2, SentWay
  <2> QED BY <2>1, <2>2
<1>5. \A c, k : Pending(e, k, c) <=> Pending(e, k, c)' \/ Is(Head(link[e]), k, c)
  BY <1>1, <1>2, <1>t, PendingTaken
<1>6. queue' = queue => \A c, k : Pending(o, k, c)' <=> Pending(o, k, c)
  BY <1>2, <1>t, PendingKept
<1>7. SendPacket(e, r) => \A c, k : k # "data" =>
        (Pending(o, k, c)' <=> Pending(o, k, c) \/ Is(r, k, c))
  BY <1>2, <1>t, PendingSent
<1> QED BY <1>3, <1>4, <1>5, <1>6, <1>7, EndFacts

(* A packet on the way is of no channel that is still to be opened. *)
LEMMA HeadOpened ==
  ASSUME IInv, NEW e \in Ends, ~closed[e], link[e] # <<>>, NEW c \in Channels,
         Head(link[e]).chan = c
  PROVE  ~New(c)
<1>1. Way(e, c, New(c), c \in chans[e], link[e], queue[Peer(e)], down[Peer(e)],
          Len(got[e][c]), wrote[Peer(e)][c])
  BY DEF IInv, WayInv
<1>2. link[e] \in Seq(Packets)
  BY TypeFacts DEF IInv
<1>3. \A x : Unused(link[e], queue[Peer(e)], x) =>
               Unused(Tail(link[e]), queue[Peer(e)], x) /\ Head(link[e]).chan # x
  BY <1>2, TakeKeeps
<1> QED BY <1>1, <1>3 DEF Way

(* An end is only asked to open a channel as the server, and the open is then
   no longer under way. *)
LEMMA HeadOpens ==
  ASSUME IInv, NEW e \in Ends, ~closed[e], link[e] # <<>>, NEW c \in Channels
  PROVE  /\ Is(Head(link[e]), "open", c) => e = "server"
         /\ e = "server" /\ Head(link[e]).chan = c =>
              ~Pends(Tail(link[e]), queue[Peer(e)], "open", c)
<1>1. Way(e, c, New(c), c \in chans[e], link[e], queue[Peer(e)], down[Peer(e)],
          Len(got[e][c]), wrote[Peer(e)][c])
  BY DEF IInv, WayInv
<1>2. link[e] \in Seq(Packets)
  BY TypeFacts DEF IInv
<1>3. /\ Is(Head(link[e]), "open", c) => Pends(link[e], queue[Peer(e)], "open", c)
      /\ Ordered(link[e], queue[Peer(e)], c) /\ Head(link[e]).chan = c =>
           ~Pends(Tail(link[e]), queue[Peer(e)], "open", c)
  BY <1>2, TakeKeeps
<1> QED BY <1>1, <1>3, EndFacts DEF Way

LEMMA ReceiveStep ==
  ASSUME IInv, NEW e \in Ends, Receive(e)
  PROVE  EndsInv' /\ (\A x \in Ends : WayInv(x)') /\ HandedInv' /\ TablesInv'
<1> DEFINE o == Peer(e)
<1>t. /\ TypeOK /\ QueuesInv /\ EndsInv /\ WayInv(e) /\ WayInv(o) /\ HandedInv /\ TablesInv
      /\ o \in Ends /\ o # e /\ Peer(o) = e
      /\ (e = "client" /\ o = "server") \/ (e = "server" /\ o = "client")
  BY EndFacts DEF IInv
<1>1. /\ ~down[e] /\ link[e] # <<>> /\ link' = [link EXCEPT ![e] = Tail(link[e])]
      /\ UNCHANGED <<opened, down, wrote>>
  BY DEF Receive
<1>2. PICK p \in Packets : p = Head(link[e])
  BY <1>1, <1>t, HeadPacket
<1>3. p.n \in Nat /\ (p.kind \in {"data", "open", "close"} => p.chan \in Channels)
  BY PacketTypes
<1>4. link'[e] = Tail(link[e]) /\ link'[o] = link[o]
  BY <1>1, <1>t, TypeParts DEF Types
<1>k. "open" # "data" /\ "close" # "data"
  OBVIOUS
<1>n. Note("pong") \in Packets /\ Note("pong").kind = "pong" /\ Note("pong").chan \notin Channels
  BY PacketFacts
<1>l. \A c \in Channels : Len(got[e][c]) \in Nat /\ got[e][c] \in Seq(Nat)
  BY <1>t, TypeFacts
<1>z. \A n \in Nat : n + 0 = n
  OBVIOUS
<1>5. CASE closed[e] /\ UNCHANGED <<muxVars, peerVars, queue, got>>
  <2>1. UNCHANGED <<closed, chans, queue, got>>
    BY <1>5 DEF muxVars
  <2>2. WayInv(e)'
    BY <1>5, <2>1 DEF WayInv
  <2>3. WayInv(o)'
    BY <1>1, <1>4, <1>t, <2>1, KeptWay
  <2>4. EndsInv' /\ (Running' => Running)
    BY <1>1, <1>t, <2>1, EndFacts, EndsStay DEF EndsInv
  <2>5. TablesInv'
    BY <1>5, <1>t, <2>1 DEF TablesInv, Running
  <2>6. HandedInv'
    BY <1>1, <1>t, <2>1 DEF HandedInv
  <2> QED BY <2>2, <2>3, <2>4, <2>5, <2>6, EndFacts
(* The packet is no data, or that of a channel the table does not hold. *)
<1>6. ASSUME ~closed[e], UNCHANGED <<closed, got>>, chans'[o] = chans[o],
             \A c \in chans[e] : ~IsData(p, c),
             NEW r \in Packets, r.kind \notin {"data", "open"}, r.chan \in Channels => ~New(r.chan),
             queue' = queue \/ SendPacket(e, r),
             \A c \in chans'[e] : c \in chans[e] \/ Is(p, "open", c)
      PROVE  /\ EndsInv' /\ (\A x \in Ends : WayInv(x)') /\ HandedInv' /\ (Running' => Running)
             /\ \A c, k : Pending(e, k, c) <=> Pending(e, k, c)' \/ Is(p, k, c)
             /\ queue' = queue => \A c, k : Pending(o, k, c)' <=> Pending(o, k, c)
             /\ SendPacket(e, r) => \A c, k : k # "data" =>
                  (Pending(o, k, c)' <=> Pending(o, k, c) \/ Is(r, k, c))
  <2>1. \A c \in Channels :
          Len(got'[e][c]) = Len(got[e][c]) + (IF IsData(Head(link[e]), c) /\ c \in chans[e]
                                              THEN 1 ELSE 0)
    BY <1>2, <1>6, <1>l, <1>z
  <2>2. /\ closed'[o] = closed[o] /\ got'[o] = got[o]
        /\ \A c \in chans'[e] : c \in chans[e] \/ Is(Head(link[e]), "open", c)
    BY <1>2, <1>6
  <2>3. /\ \A x \in Ends : WayInv(x)'
        /\ \A c, k : Pending(e, k, c) <=> Pending(e, k, c)' \/ Is(Head(link[e]), k, c)
        /\ queue' = queue => \A c, k : Pending(o, k, c)' <=> Pending(o, k, c)
        /\ SendPacket(e, r) => \A c, k : k # "data" =>
             (Pending(o, k, c)' <=> Pending(o, k, c) \/ Is(r, k, c))
    BY <1>1, <1>6, <2>1, <2>2, TakeStep
  <2>4. EndsInv' /\ (Running' => Running)
    BY <1>1, <1>6, <1>t, EndFacts, EndsStay DEF EndsInv
  <2>5. HandedInv'
    BY <1>1, <1>6, <1>t DEF HandedInv
  <2> QED BY <1>2, <2>3, <2>4, <2>5
(* A packet that changes no table and is no control packet of a channel. *)
<1>7. ASSUME UNCHANGED chans, \A c \in Channels : ~Is(p, "open", c) /\ ~Is(p, "close", c),
             \A c, k : Pending(e, k, c) <=> Pending(e, k, c)' \/ Is(p, k, c),
             \A c \in Channels : \A k : k # "data" => (Pending(o, k, c)' <=> Pending(o, k, c)),
             Running' => Running
      PROVE  TablesInv'
  <2>1. \A c \in Channels, k \in {"open", "close"} : (Pending(e, k, c)' <=> Pending(e, k, c))
    BY <1>7, Zenon
  <2>2. \A c \in Channels, k \in {"open", "close"} : (Pending(o, k, c)' <=> Pending(o, k, c))
    BY <1>7, <1>k, Zenon
  <2>3. "open" \in {"open", "close"} /\ "close" \in {"open", "close"}
    OBVIOUS
  <2>4. \A c \in Channels : /\ Pending("server", "open", c)' <=> Pending("server", "open", c)
                            /\ Pending("client", "close", c)' <=> Pending("client", "close", c)
                            /\ Pending("server", "close", c)' <=> Pending("server", "close", c)
    BY <1>t, <2>1, <2>2, <2>3, Zenon
  <2> QED BY <1>7, <1>t, <2>4, TablesKept, Zenon DEF Opening, Closing
<1>8. CASE ~closed[e] /\ p.kind = "open" /\ ReceiveOpen(e, p.chan)
  <2>1. /\ p.chan \in Channels /\ UNCHANGED <<closed, got>> /\ Is(p, "open", p.chan)
        /\ \A c : ~IsData(p, c) /\ ~Is(p, "close", c) /\ (Is(p, "open", c) => c = p.chan)
    BY <1>3, <1>8 DEF ReceiveOpen, IsData, Is
  <2> DEFINE d == p.chan
  <2>2. ~New(d) /\ e = "server" /\ o = "client" /\ ~Opening(d)'
    <3>1. ~New(d)
      BY <1>1, <1>2, <1>8, <2>1, HeadOpened
    <3>2. e = "server"
      BY <1>1, <1>2, <1>8, <2>1, HeadOpens
    <3>3. ~Pends(Tail(link[e]), queue[o], "open", d)
      BY <1>1, <1>2, <1>8, <2>1, <3>2, HeadOpens
    <3>4. queue'[o] = queue[o]
      <4>1. Control("close", d) \in Packets
        BY <2>1, PacketFacts
      <4>2. queue' = queue \/ SendPacket(e, Control("close", d))
        BY <1>8 DEF ReceiveOpen
      <4> QED BY <1>t, <4>1, <4>2, SendTypes
    <3> QED BY <1>4, <1>t, <3>1, <3>2, <3>3, <3>4 DEF Opening, Pending
  <2>3. /\ Control("close", d) \in Packets /\ Control("close", d).kind = "close"
        /\ Control("close", d).chan = d
    BY <2>1, PacketFacts
  <2>4. CASE SendPacket(e, Control("close", d)) /\ UNCHANGED chans /\ d \notin chans[e]
    <3> DEFINE r == Control("close", d)
    <3> HIDE DEF r
    <3>r. r \in Packets /\ r.kind = "close" /\ r.chan = d /\ SendPacket(e, r)
      BY <2>3, <2>4 DEF r
    <3>1. /\ EndsInv' /\ (\A x \in Ends : WayInv(x)') /\ HandedInv' /\ (Running' => Running)
          /\ \A c, k : Pending(e, k, c) <=> Pending(e, k, c)' \/ Is(p, k, c)
          /\ \A c, k : k # "data" => (Pending(o, k, c)' <=> Pending(o, k, c) \/ Is(r, k, c))
      <4>1. r.kind \notin {"data", "open"} /\ (r.chan \in Channels => ~New(r.chan))
        BY <2>2, <3>r
      <4> QED BY <1>6, <1>8, <2>1, <2>4, <3>r, <4>1
    <3>2. ASSUME Running, NEW c \in Channels
          PROVE  Agreed(c, c \in chans["client"], c \in chans["server"])'
      <4>1. Agreed(c, c \in chans["client"], c \in chans["server"])
        BY <1>t, <3>2 DEF TablesInv
      <4>2. /\ Opening(c)' => Opening(c)
            /\ Opening(c) => Opening(c)' \/ c = d
            /\ Closing("server", c)' <=> Closing("server", c)
            /\ Closing("client", c)' <=> Closing("client", c) \/ c = d
            /\ c = d => Opening(c)
        BY <1>k, <2>1, <2>2, <3>1, <3>r DEF Opening, Closing, Is
      <4>3. c = d => ~Opening(c)'
        BY <2>2
      <4> QED BY <2>2, <2>4, <4>1, <4>2, <4>3 DEF Agreed
    <3> QED BY <3>1, <3>2 DEF TablesInv
  <2>5. CASE chans' = [chans EXCEPT ![e] = chans[e] \cup {d}] /\ UNCHANGED queue
    <3>0. chans'[e] = chans[e] \cup {d} /\ chans'[o] = chans[o]
      BY <1>t, <2>5, TypeParts DEF Types
    <3>1. /\ EndsInv' /\ (\A x \in Ends : WayInv(x)') /\ HandedInv' /\ (Running' => Running)
          /\ \A c, k : Pending(e, k, c) <=> Pending(e, k, c)' \/ Is(p, k, c)
          /\ \A c, k : Pending(o, k, c)' <=> Pending(o, k, c)
      <4>1. Note("pong").kind \notin {"data", "open"}
        BY <1>n
      <4>2. \A c \in chans'[e] : c \in chans[e] \/ Is(p, "open", c)
        BY <2>1, <3>0
      <4> QED BY <1>6, <1>8, <1>n, <2>1, <2>5, <3>0, <4>1, <4>2
    <3>2. ASSUME Running, NEW c \in Channels
          PROVE  Agreed(c, c \in chans["client"], c \in chans["server"])'
      <4>1. Agreed(c, c \in chans["client"], c \in chans["server"])
        BY <1>t, <3>2 DEF TablesInv
      <4>2. /\ Opening(c)' => Opening(c)
            /\ Opening(c) => Opening(c)' \/ c = d
            /\ Closing("server", c)' <=> Closing("server", c)
            /\ Closing("client", c)' <=> Closing("client", c)
            /\ c = d => Opening(c)
        BY <1>k, <2>1, <2>2, <3>1 DEF Opening, Closing, Is
      <4>3. c = d => ~Opening(c)'
        BY <2>2
      <4>4. /\ c \in chans'["server"] <=> c \in chans["server"] \/ c = d
            /\ c \in chans'["client"] <=> c \in chans["client"]
        BY <2>2, <3>0
      <4> QED BY <4>1, <4>2, <4>3, <4>4 DEF Agreed
    <3> QED BY <3>1, <3>2 DEF TablesInv
  <2> QED BY <1>8, <2>4, <2>5 DEF ReceiveOpen
<1>9. CASE ~closed[e] /\ p.kind = "close" /\ ReceiveClose(e, p.chan)
  <2> DEFINE d == p.chan
  <2>1. /\ d \in Channels /\ UNCHANGED <<closed, got, queue>> /\ Is(p, "close", d)
        /\ chans' = [chans EXCEPT ![e] = chans[e] \ {d}]
        /\ \A c : ~IsData(p, c) /\ ~Is(p, "open", c) /\ (Is(p, "close", c) => c = d)
    BY <1>3, <1>9 DEF ReceiveClose, IsData, Is
  <2>2. chans'[e] = chans[e] \ {d} /\ chans'[o] = chans[o]
    BY <1>t, <2>1, TypeParts DEF Types
  <2>3. e = "server" => ~Opening(d)'
    <3>1. e = "server" => ~Pends(Tail(link[e]), queue[o], "open", d)
      BY <1>1, <1>2, <1>9, <2>1, HeadOpens
    <3> QED BY <1>4, <1>t, <2>1, <3>1 DEF Opening, Pending
  <2>4. /\ EndsInv' /\ (\A x \in Ends : WayInv(x)') /\ HandedInv' /\ (Running' => Running)
        /\ \A c, k : Pending(e, k, c) <=> Pending(e, k, c)' \/ Is(p, k, c)
        /\ \A c, k : Pending(o, k, c)' <=> Pending(o, k, c)
    <3>1. Note("pong").kind \notin {"data", "open"}
      BY <1>n
    <3> QED BY <1>6, <1>9, <1>n, <2>1, <2>2, <3>1
  <2>5. ASSUME Running, NEW c \in Channels
        PROVE  Agreed(c, c \in chans["client"], c \in chans["server"])'
    <3>1. Agreed(c, c \in chans["client"], c \in chans["server"])
      BY <1>t, <2>5 DEF TablesInv
    <3>2. CASE e = "client" /\ o = "server"
      <4>1. /\ Opening(c)' <=> Opening(c)
            /\ Closing("server", c)' <=> Closing("server", c)
            /\ Closing("client", c)' => Closing("client", c)
            /\ Closing("client", c) => Closing("client", c)' \/ c = d
            /\ c = d => Closing("client", c)
        BY <2>1, <2>4, <3>2 DEF Opening, Closing
      <4>2. /\ c \in chans'["client"] <=> c \in chans["client"] /\ c # d
            /\ c \in chans'["server"] <=> c \in chans["server"]
        BY <2>2, <3>2
      <4> QED BY <3>1, <4>1, <4>2 DEF Agreed
    <3>3. CASE e = "server" /\ o = "client"
      <4>1. /\ Opening(c)' <=> Opening(c)
            /\ Closing("client", c)' <=> Closing("client", c)
            /\ Closing("server", c)' => Closing("server", c)
            /\ Closing("server", c) => Closing("server", c)' \/ c = d
            /\ c = d => Closing("server", c)
        BY <2>1, <2>4, <3>3 DEF Opening, Closing
      <4>2. /\ c \in chans'["server"] <=> c \in chans["server"] /\ c # d
            /\ c \in chans'["client"] <=> c \in chans["client"]
            /\ c = d => ~Opening(c)'
        BY <2>2, <2>3, <3>3
      <4> QED BY <3>1, <4>1, <4>2 DEF Agreed
    <3> QED BY <1>t, <3>2, <3>3
  <2> QED BY <2>4, <2>5 DEF TablesInv
<1>10. CASE ~closed[e] /\ p.kind = "data" /\ ReceiveData(e, p)
  <2> DEFINE d == p.chan
  <2>1. /\ d \in Channels /\ UNCHANGED <<closed, chans, queue>> /\ IsData(p, d)
        /\ \A c : ~Is(p, "close", c) /\ ~Is(p, "open", c) /\ (IsData(p, c) => c = d)
    BY <1>3, <1>10 DEF ReceiveData, IsData, Is, muxVars
  <2>p. Note("pong").kind \notin {"data", "open"}
    BY <1>n
  <2>2. CASE d \notin chans[e]
    <3>1. got' = got
      BY <1>10, <2>2 DEF ReceiveData
    <3>2. \A c \in chans[e] : ~IsData(p, c)
      BY <2>1, <2>2
    <3>3. /\ EndsInv' /\ (\A x \in Ends : WayInv(x)') /\ HandedInv' /\ (Running' => Running)
          /\ \A c, k : Pending(e, k, c) <=> Pending(e, k, c)' \/ Is(p, k, c)
          /\ \A c, k : Pending(o, k, c)' <=> Pending(o, k, c)
      BY <1>6, <1>10, <1>n, <2>1, <2>p, <3>1, <3>2
    <3> QED BY <1>7, <2>1, <3>3
  <2>3. CASE d \in chans[e]
    <3>1. got' = [got EXCEPT ![e][d] = Append(got[e][d], p.n)]
      BY <1>10, <2>3 DEF ReceiveData
    <3>2. /\ got'[e][d] = Append(got[e][d], p.n) /\ got'[o] = got[o]
          /\ \A c \in Channels : c # d => got'[e][c] = got[e][c]
      BY <1>t, <2>1, <3>1, TypeParts DEF Types
    <3>3. Len(got'[e][d]) = Len(got[e][d]) + 1
      BY <1>3, <1>l, <2>1, <3>2
    <3>4. \A c \in Channels :
            Len(got'[e][c]) = Len(got[e][c]) + (IF IsData(Head(link[e]), c) /\ c \in chans[e]
                                                THEN 1 ELSE 0)
      <4> SUFFICES ASSUME NEW c \in Channels
                   PROVE  Len(got'[e][c]) = Len(got[e][c]) +
                            (IF IsData(p, c) /\ c \in chans[e] THEN 1 ELSE 0)
        BY <1>2
      <4>1. CASE c = d
        BY <2>1, <2>3, <3>3, <4>1
      <4>2. CASE c # d
        BY <1>l, <1>z, <2>1, <3>2, <4>2
      <4> QED BY <4>1, <4>2
    <3>5. closed'[o] = closed[o] /\ chans'[o] = chans[o] /\ chans'[e] = chans[e]
      BY <2>1
    <3>6. /\ \A x \in Ends : WayInv(x)'
          /\ \A c \in chans[e] : IsData(Head(link[e]), c) =>
               /\ Head(link[e]).n = Len(got[e][c]) + 1
               /\ Len(got[e][c]) + 1 <= wrote[o][c]
          /\ \A c, k : Pending(e, k, c) <=> Pending(e, k, c)' \/ Is(Head(link[e]), k, c)
          /\ \A c, k : Pending(o, k, c)' <=> Pending(o, k, c)
      BY <1>1, <1>10, <1>n, <2>1, <2>p, <3>2, <3>4, <3>5, TakeStep
    <3>7. EndsInv' /\ (Running' => Running)
      BY <1>1, <1>t, <2>1, EndFacts, EndsStay DEF EndsInv
    <3>8. p.n = Len(got[e][d]) + 1 /\ Len(got[e][d]) + 1 <= wrote[o][d]
      BY <1>2, <2>1, <2>3, <3>6
    <3>9. HandedInv'
      <4> SUFFICES ASSUME NEW x \in Ends, NEW c \in Channels
                   PROVE  /\ Len(got'[x][c]) <= wrote[Peer(x)][c]
                          /\ \A i \in 1..Len(got'[x][c]) : got'[x][c][i] = i
        BY <1>1 DEF HandedInv
      <4>1. CASE x = e /\ c = d
        <5>1. \A i \in 1..Len(got[e][d]) : got[e][d][i] = i
          BY <1>t, <2>1 DEF HandedInv
        <5>2. got[e][d] \in Seq(Nat) /\ got'[e][d] = Append(got[e][d], Len(got[e][d]) + 1)
          BY <1>l, <2>1, <3>2, <3>8
        <5>3. \A i \in 1..Len(got'[e][d]) : got'[e][d][i] = i
          <6> DEFINE g == got[e][d]
          <6>1. g \in Seq(Nat) /\ \A i \in 1..Len(g) : g[i] = i
            BY <5>1, <5>2
          <6> HIDE DEF g
          <6>2. \A i \in 1..Len(Append(g, Len(g) + 1)) : Append(g, Len(g) + 1)[i] = i
            BY <6>1
          <6> QED BY <5>2, <6>2 DEF g
        <5> QED BY <3>3, <3>8, <4>1, <5>3
      <4>2. CASE ~(x = e /\ c = d)
        <5>1. got'[x][c] = got[x][c]
          BY <1>t, <3>2, <4>2, EndFacts
        <5> QED BY <1>t, <5>1 DEF HandedInv
      <4> QED BY <4>1, <4>2
    <3>10. TablesInv'
      <4>1. \A c, k : Pending(e, k, c) <=> Pending(e, k, c)' \/ Is(p, k, c)
        BY <1>2, <3>6
      <4> QED BY <1>7, <2>1, <3>6, <3>7, <4>1
    <3> QED BY <3>6, <3>7, <3>9, <3>10
  <2> QED BY <2>2, <2>3
<1>11. CASE ~closed[e] /\ p.kind = "terminate" /\ ReceiveTerminate(e)
  <2>1. Shutdown(e) /\ UNCHANGED <<queue, got>> /\ \A c : ~IsData(p, c)
    BY <1>11 DEF ReceiveTerminate, IsData
  <2>2. closed'[e] /\ closed'[o] = closed[o] /\ chans'[e] = {} /\ chans'[o] = chans[o]
    BY <1>t, <2>1, ShutdownTypes
  <2>3. WayInv(e)'
    BY <2>2 DEF WayInv
  <2>4. WayInv(o)'
    BY <1>1, <1>4, <1>t, <2>1, <2>2, KeptWay
  <2>5. EndsInv'
    BY <1>1, <1>t, <2>2, EndFacts DEF EndsInv
  <2>6. HandedInv'
    BY <1>1, <1>t, <2>1 DEF HandedInv
  <2>7. TablesInv'
    BY <2>2 DEF TablesInv, Running
  <2> QED BY <2>3, <2>4, <2>5, <2>6, <2>7, EndFacts
<1>12. CASE ~closed[e] /\ p.kind \in {"ping", "pong"} /\ UNCHANGED <<muxVars, got>>
            /\ (UNCHANGED queue \/ SendBeat(e, "pong"))
  <2>1. /\ UNCHANGED <<closed, chans, got>>
        /\ \A c : ~IsData(p, c) /\ ~Is(p, "open", c) /\ ~Is(p, "close", c)
    BY <1>12 DEF muxVars, IsData, Is
  <2>2. Note("pong").kind \notin {"data", "open"}
    BY <1>n
  <2>3. queue' = queue \/ SendPacket(e, Note("pong"))
    BY <1>12 DEF SendBeat
  <2>4. /\ EndsInv' /\ (\A x \in Ends : WayInv(x)') /\ HandedInv' /\ (Running' => Running)
        /\ \A c, k : Pending(e, k, c) <=> Pending(e, k, c)' \/ Is(p, k, c)
        /\ queue' = queue => \A c, k : Pending(o, k, c)' <=> Pending(o, k, c)
        /\ SendPacket(e, Note("pong")) => \A c, k : k # "data" =>
             (Pending(o, k, c)' <=> Pending(o, k, c) \/ Is(Note("pong"), k, c))
    BY <1>6, <1>12, <1>n, <2>1, <2>2, <2>3
  <2>5. \A c \in Channels : \A k : ~Is(Note("pong"), k, c)
    BY <1>n DEF Is
  <2>6. \A c \in Channels : \A k : k # "data" => (Pending(o, k, c)' <=> Pending(o, k, c))
    BY <2>3, <2>4, <2>5, Zenon
  <2> QED BY <1>7, <2>1, <2>4, <2>6
<1> QED BY <1>2, <1>5, <1>8, <1>9, <1>10, <1>11, <1>12 DEF Receive, ReceivePing, ReceivePong

-----------------------------------------------------------------------------
(* The invariant. *)

LEMMA InitInvariant == Init => IInv
<1> SUFFICES ASSUME Init PROVE IInv
  OBVIOUS
<1>1. /\ closed = [e \in Ends |-> FALSE] /\ chans = [e \in Ends |-> {}]
      /\ opened = [p \in {"tcp", "udp"} |-> 0]
      /\ quiet \in [Ends -> BOOLEAN] /\ missed = [e \in Ends |-> 0] /\ bad = [e \in Ends |-> 0]
      /\ down = [e \in Ends |-> FALSE] /\ queue = [e \in Ends |-> NoQueue]
      /\ link = [e \in Ends |-> <<>>]
      /\ wrote = [e \in Ends |-> [c \in Channels |-> 0]]
      /\ got = [e \in Ends |-> [c \in Channels |-> <<>>]]
  BY DEF Init
<1>2. NoQueue \in Queues /\ WellQueued(NoQueue)
  BY DEF NoQueue, Queues, WellQueued
<1>3. TypeOK
  <2>1. 0 \in 0..MaxMissed /\ 0 \in 0..(MaxBad - 1) /\ <<>> \in Seq(Packets) /\ <<>> \in Seq(Nat)
    OBVIOUS
  <2> QED BY <1>1, <1>2, <2>1, TypeParts DEF Types
<1>4. EndsInv /\ QueuesInv /\ HandedInv
  <2>1. \A e \in Ends, c \in Channels : got[e][c] = <<>> /\ wrote[Peer(e)][c] = 0
    BY <1>1, EndFacts
  <2>2. Len(<<>>) = 0 /\ 1..0 = {}
    OBVIOUS
  <2>3. \A e \in Ends : ~down[e] /\ ~closed[e] /\ queue[e] = NoQueue
    BY <1>1
  <2>4. EndsInv
    BY <2>3 DEF EndsInv
  <2>5. QueuesInv
    BY <1>2, <2>3 DEF QueuesInv
  <2>6. HandedInv
    BY <2>1, <2>2 DEF HandedInv
  <2> QED BY <2>4, <2>5, <2>6
<1>5. ASSUME NEW e \in Ends, NEW c \in Channels
      PROVE  /\ link[e] = <<>> /\ queue[Peer(e)] = NoQueue
             /\ Unused(<<>>, NoQueue, c) /\ Ordered(<<>>, NoQueue, c)
             /\ \A k : ~Pends(<<>>, NoQueue, k, c)
  <2>1. /\ Free(<<>>, c) /\ OpenFirst(<<>>, c) /\ \A k : ~Has(<<>>, k, c)
        /\ NoQueue.busy = <<>> /\ NoQueue.high = <<>> /\ NoQueue.normal = <<>>
    BY EmptySequence DEF NoQueue
  <2>2. link[e] = <<>> /\ queue[Peer(e)] = NoQueue
    BY <1>1, EndFacts
  <2> QED BY <2>1, <2>2 DEF Unused, Ordered, Pends
<1>6. ASSUME NEW e \in Ends PROVE WayInv(e)
  <2> SUFFICES ASSUME NEW c \in Channels
               PROVE  Way(e, c, New(c), c \in chans[e], link[e], queue[Peer(e)], down[Peer(e)],
                          Len(got[e][c]), wrote[Peer(e)][c])
    BY DEF WayInv
  <2>1. c \notin chans[e] /\ Len(got[e][c]) = 0 /\ wrote[Peer(e)][c] = 0
    BY <1>1, EndFacts
  <2> QED BY <1>5, <2>1 DEF Way
<1>7. TablesInv
  <2> SUFFICES ASSUME NEW c \in Channels
               PROVE  Agreed(c, c \in chans["client"], c \in chans["server"])
    BY DEF TablesInv
  <2>1. \A e \in Ends : \A k : ~Pending(e, k, c)
    BY <1>5 DEF Pending
  <2>2. c \notin chans["client"] /\ c \notin chans["server"]
    BY <1>1, EndFacts
  <2> QED BY <2>1, <2>2, EndFacts DEF Agreed, Opening, Closing
<1> QED BY <1>3, <1>4, <1>6, <1>7 DEF IInv

LEMMA NextInvariant == IInv /\ [Next]_vars => IInv'
<1> SUFFICES ASSUME IInv, [Next]_vars PROVE IInv'
  OBVIOUS
<1>1. TypeOK' /\ QueuesInv'
  BY StepTypes DEF IInv
<1> SUFFICES EndsInv' /\ (\A x \in Ends : WayInv(x)') /\ HandedInv' /\ TablesInv'
  BY <1>1 DEF IInv
<1>2. ASSUME NEW proto \in {"tcp", "udp"}, Open(proto)
      PROVE  EndsInv' /\ (\A x \in Ends : WayInv(x)') /\ HandedInv' /\ TablesInv'
  BY <1>2, OpenStep
<1>3. CASE Terminate
  <2> DEFINE q == Enqueue(queue["server"], Note("terminate"))
  <2>1. "server" \in Ends /\ q \in Queues
    BY EndFacts, TypeFacts, PacketFacts, EmptySequence, EnqueueKeeps DEF IInv, QueuesInv
  <2>2. ~down["server"] /\ Shutdown("server") /\ Sever("server", q) /\ UNCHANGED <<opened, wrote, got>>
    BY <1>3 DEF Terminate
  <2> QED BY <2>1, <2>2, EndingStep
<1>4. ASSUME NEW e \in Ends, NEW c \in Channels, Write(e, c)
      PROVE  EndsInv' /\ (\A x \in Ends : WayInv(x)') /\ HandedInv' /\ TablesInv'
  BY <1>4, WriteStep
<1>5. ASSUME NEW e \in Ends, NEW c \in Channels, CloseChannel(e, c)
      PROVE  EndsInv' /\ (\A x \in Ends : WayInv(x)') /\ HandedInv' /\ TablesInv'
  BY <1>5, CloseStep
<1>6. ASSUME NEW e \in Ends, Published(e)
      PROVE  EndsInv' /\ (\A x \in Ends : WayInv(x)') /\ HandedInv' /\ TablesInv'
  BY <1>6, PublishStep
<1>7. ASSUME NEW e \in Ends, Receive(e)
      PROVE  EndsInv' /\ (\A x \in Ends : WayInv(x)') /\ HandedInv' /\ TablesInv'
  BY <1>7, ReceiveStep
(* The end goes down with what it has queued. *)
<1>8. ASSUME NEW e \in Ends, ~down[e], Shutdown(e), Sever(e, queue[e]), UNCHANGED <<opened, history>>
      PROVE  EndsInv' /\ (\A x \in Ends : WayInv(x)') /\ HandedInv' /\ TablesInv'
  <2>1. queue[e] \in Queues
    BY TypeFacts DEF IInv
  <2>2. UNCHANGED <<opened, wrote, got>>
    BY <1>8 DEF history
  <2> QED BY <1>8, <2>1, <2>2, EndingStep
(* Nothing changes that the invariant speaks of. *)
<1>9. ASSUME UNCHANGED <<closed, chans, opened, down, queue, link, wrote, got>>
      PROVE  EndsInv' /\ (\A x \in Ends : WayInv(x)') /\ HandedInv' /\ TablesInv'
  <2>1. \A x \in Ends : WayInv(x)'
    BY <1>9, KeptWay, EndFacts DEF IInv
  <2>2. EndsInv' /\ HandedInv' /\ (Running' => Running)
    BY <1>9 DEF IInv, EndsInv, HandedInv, Running
  <2>3. \A e, c, k : Pending(e, k, c)' <=> Pending(e, k, c)
    BY <1>9 DEF Pending
  <2>4. TablesInv'
    BY <1>9, <2>2, <2>3, TablesKept, Zenon DEF IInv, Opening, Closing
  <2> QED BY <2>1, <2>2, <2>4
<1>10. ASSUME NEW e \in Ends, Stray(e)
       PROVE  EndsInv' /\ (\A x \in Ends : WayInv(x)') /\ HandedInv' /\ TablesInv'
  <2>1. CASE UNCHANGED <<muxVars, quiet, missed, wireVars>> /\ UNCHANGED <<opened, history>>
    <3>1. UNCHANGED <<closed, chans, opened, down, queue, link, wrote, got>>
      BY <2>1 DEF muxVars, wireVars, history
    <3> QED BY <1>9, <3>1
  <2>2. CASE Shutdown(e) /\ Sever(e, queue[e])
    BY <1>8, <1>10, <2>2 DEF Stray
  <2> QED BY <1>10, <2>1, <2>2 DEF Stray
<1>11. ASSUME NEW e \in Ends, Heartbeat(e)
       PROVE  EndsInv' /\ (\A x \in Ends : WayInv(x)') /\ HandedInv' /\ TablesInv'
  <2>1. CASE SendBeat(e, "ping") /\ UNCHANGED <<muxVars, bad, down, link>>
             /\ UNCHANGED <<opened, history>>
    <3>1. UNCHANGED <<closed, chans, opened, down, link, wrote, got>>
      BY <2>1 DEF muxVars, history
    <3>2. CASE UNCHANGED queue
      BY <1>9, <3>1, <3>2
    <3>3. CASE SendPacket(e, Note("ping"))
      <4> DEFINE r == Note("ping")
                 o == Peer(e)
      <4>1. /\ r \in Packets /\ r.kind \notin {"data", "open"} /\ r.chan \notin Channels
            /\ \A c \in Channels : \A k : ~Is(r, k, c)
        BY PacketFacts DEF Is
      <4>2. chans'[e] \subseteq chans[e] /\ chans'[o] = chans[o]
        BY <3>1
      <4>3. SendPacket(e, r)
        BY <3>3
      <4> HIDE DEF r
      <4>4. /\ EndsInv' /\ (\A x \in Ends : WayInv(x)') /\ HandedInv' /\ (Running' => Running)
            /\ \A c, k : k # "data" =>
                 /\ Pending(e, k, c)' <=> Pending(e, k, c)
                 /\ Pending(o, k, c)' <=> Pending(o, k, c) \/ Is(r, k, c)
        BY <3>1, <4>1, <4>2, <4>3, SendStep
      <4>5. (e = "client" /\ o = "server") \/ (e = "server" /\ o = "client")
        BY EndFacts
      <4>6. \A c \in Channels : \A k : k # "data" =>
              /\ Pending("client", k, c)' <=> Pending("client", k, c)
              /\ Pending("server", k, c)' <=> Pending("server", k, c)
        BY <4>1, <4>4, <4>5, Zenon
      <4>7. "open" # "data" /\ "close" # "data" /\ TablesInv
        BY DEF IInv
      <4>8. TablesInv'
        BY <3>1, <4>4, <4>6, <4>7, TablesKept, Zenon DEF Opening, Closing
      <4> QED BY <4>4, <4>8
    <3> QED BY <2>1, <3>2, <3>3 DEF SendBeat
  <2>2. CASE Shutdown(e) /\ Sever(e, queue[e])
    <3>1. ~down[e] /\ UNCHANGED <<opened, history>>
      BY <1>11 DEF Heartbeat, IInv, EndsInv
    <3> QED BY <1>8, <2>2, <3>1
  <2> QED BY <1>11, <2>1, <2>2 DEF Heartbeat
<1>12. ASSUME NEW e \in Ends, LinkEnds(e)
       PROVE  EndsInv' /\ (\A x \in Ends : WayInv(x)') /\ HandedInv' /\ TablesInv'
  BY <1>8, <1>12 DEF LinkEnds
<1>13. CASE UNCHANGED vars
  BY <1>9, <1>13 DEF vars, muxVars, wireVars, history
<1> QED BY <1>2, <1>3, <1>4, <1>5, <1>6, <1>7, <1>10, <1>11, <1>12, <1>13 DEF Next

LEMMA Invariant == Spec => []IInv
<1> QED BY InitInvariant, NextInvariant, PTL DEF Spec

-----------------------------------------------------------------------------
(* The theorems. *)

(* Every variable keeps its type: misses and bad packets are counted below
   the limits at which an end goes down, and only packets of the protocol are
   ever queued. *)
THEOREM TypeCorrect == Spec => []TypeOK
<1>1. IInv => TypeOK
  BY DEF IInv
<1> QED BY Invariant, <1>1, PTL

LEMMA PendingComes ==
  ASSUME TypeOK, NEW e \in Ends, NEW k, NEW c, Pending(e, k, c)
  PROVE  Coming(e, k, c)
<1> DEFINE q == queue[Peer(e)]
<1>1. /\ link[e] \in Seq(Packets) /\ q.busy \in Seq(Packets) /\ q.high \in Seq(Packets)
      /\ q.normal \in Seq(Packets)
  BY TypeFacts, EndFacts DEF Queues
<1>2. /\ link[e] \o q.busy \in Seq(Packets)
      /\ Has(link[e] \o q.busy, k, c) <=> Has(link[e], k, c) \/ Has(q.busy, k, c)
  BY <1>1, Joined
<1>3. /\ (link[e] \o q.busy) \o q.high \in Seq(Packets)
      /\ Has((link[e] \o q.busy) \o q.high, k, c) <=> Has(link[e] \o q.busy, k, c) \/ Has(q.high, k, c)
  BY <1>1, <1>2, Joined
<1>4. Has(((link[e] \o q.busy) \o q.high) \o q.normal, k, c) <=>
        Has((link[e] \o q.busy) \o q.high, k, c) \/ Has(q.normal, k, c)
  BY <1>1, <1>3, Joined
<1>5. Has(UnderWay(e), k, c)
  BY <1>2, <1>3, <1>4, Zenon DEF Pending, Pends, UnderWay
<1> QED BY <1>5 DEF Has, Is, Coming

(* While both muxes run, a channel only one of them has is about to be opened
   or closed, by a message that is on its way: none stays half open for ever,
   and no late message opens one again, for any number of streams and flows. *)
THEOREM TablesAlwaysAgree == Spec => []TablesAgree
<1>1. ASSUME IInv PROVE TablesAgree
  <2>1. TypeOK /\ TablesInv
    BY <1>1 DEF IInv
  <2>2. ASSUME Running, NEW c \in chans["client"] \ chans["server"]
        PROVE  Coming("server", "open", c) \/ Coming("client", "close", c)
    <3>1. c \in Channels
      BY <2>1, TypeFacts, EndFacts
    <3>2. Opening(c) \/ Closing("client", c)
      BY <2>1, <2>2, <3>1 DEF TablesInv, Agreed
    <3> QED BY <2>1, <3>2, PendingComes, EndFacts DEF Opening, Closing
  <2>3. ASSUME Running, NEW c \in chans["server"] \ chans["client"]
        PROVE  Coming("server", "close", c)
    <3>1. c \in Channels
      BY <2>1, TypeFacts, EndFacts
    <3>2. Closing("server", c)
      BY <2>1, <2>3, <3>1 DEF TablesInv, Agreed
    <3> QED BY <2>1, <3>2, PendingComes, EndFacts DEF Closing
  <2> QED BY <2>2, <2>3 DEF TablesAgree
<1> QED BY Invariant, <1>1, PTL

(* An end that holds a channel, while neither transport is down, was handed
   the first chunks its peer wrote to it, and all the others are on their
   way, in order. *)
THEOREM NothingMissing == Spec => []StreamIntact
<1>1. ASSUME IInv PROVE StreamIntact
  <2> SUFFICES ASSUME NEW e \in Ends, ~down[Peer(e)], NEW c \in chans[e]
               PROVE  /\ \A i \in 1..Len(got[e][c]) : got[e][c][i] = i
                      /\ Carries(UnderWay(e), c, Len(got[e][c]), wrote[Peer(e)][c])
    BY DEF StreamIntact
  <2> DEFINE q == queue[Peer(e)]
             a == Len(got[e][c])
             b == wrote[Peer(e)][c]
  <2>1. TypeOK /\ HandedInv /\ WayInv(e) /\ c \in Channels /\ ~closed[e] /\ WellQueued(q)
    BY <1>1, HeldIsOpened, EndFacts DEF IInv, QueuesInv
  <2>2. /\ link[e] \in Seq(Packets) /\ q.busy \in Seq(Packets) /\ q.high \in Seq(Packets)
        /\ q.normal \in Seq(Packets) /\ a \in Nat /\ b \in Nat
    BY <2>1, TypeFacts, EndFacts DEF Queues
  <2>3. Flow(link[e], q, c, a, b)
    BY <2>1 DEF WayInv, Way
  <2> HIDE DEF q, a, b
  <2>4. PICK m \in Nat, n \in Nat :
          Carries(link[e], c, a, m) /\ Carries(q.busy, c, m, n) /\ Carries(q.normal, c, n, b)
    BY <2>3 DEF Flow
  <2>5. Carries(q.high, c, n, n)
    <3>1. \A i \in 1..Len(q.high) : ~IsData(q.high[i], c)
      BY <2>1 DEF WellQueued, IsData
    <3> QED BY <2>2, <3>1, NoneCarried
  <2>6. /\ Carries(link[e] \o q.busy, c, a, n) /\ link[e] \o q.busy \in Seq(Packets)
    BY <2>2, <2>4, Joined, JoinedCarried
  <2>7. /\ Carries((link[e] \o q.busy) \o q.high, c, a, n)
        /\ (link[e] \o q.busy) \o q.high \in Seq(Packets)
    BY <2>2, <2>5, <2>6, Joined, JoinedCarried
  <2>8. Carries(((link[e] \o q.busy) \o q.high) \o q.normal, c, a, b)
    BY <2>2, <2>4, <2>7, JoinedCarried
  <2>9. \A i \in 1..Len(got[e][c]) : got[e][c][i] = i
    BY <2>1 DEF HandedInv
  <2> QED BY <2>8, <2>9 DEF UnderWay, q, a, b
<1> QED BY Invariant, <1>1, PTL

(* What a step does to the history of one direction of a channel. *)
LEMMA HistoryStep ==
  ASSUME IInv, [Next]_vars, NEW e \in Ends, NEW c \in Channels
  PROVE  \/ wrote'[Peer(e)][c] = wrote[Peer(e)][c] /\ got'[e][c] = got[e][c]
         \/ /\ wrote[Peer(e)][c] < Chunks[Peer(e)][c]
            /\ wrote'[Peer(e)][c] = wrote[Peer(e)][c] + 1 /\ got'[e][c] = got[e][c]
         \/ /\ wrote'[Peer(e)][c] = wrote[Peer(e)][c]
            /\ Len(got'[e][c]) = Len(got[e][c]) + 1
<1>t. TypeOK /\ Types /\ Peer(e) \in Ends
  BY TypeParts, EndFacts DEF IInv
<1>1. CASE UNCHANGED <<wrote, got>>
  BY <1>1
<1>2. ASSUME NEW x \in Ends, NEW d \in Channels, Write(x, d)
      PROVE  \/ wrote'[Peer(e)][c] = wrote[Peer(e)][c] /\ got'[e][c] = got[e][c]
             \/ /\ wrote[Peer(e)][c] < Chunks[Peer(e)][c]
                /\ wrote'[Peer(e)][c] = wrote[Peer(e)][c] + 1 /\ got'[e][c] = got[e][c]
  <2>1. /\ wrote[x][d] < Chunks[x][d] /\ got' = got
        /\ wrote' = [wrote EXCEPT ![x][d] = wrote[x][d] + 1]
    BY <1>2 DEF Write
  <2>2. CASE x = Peer(e) /\ d = c
    BY <1>t, <2>1, <2>2 DEF Types
  <2>3. CASE ~(x = Peer(e) /\ d = c)
    BY <1>t, <2>1, <2>3 DEF Types
  <2> QED BY <2>2, <2>3
<1>3. ASSUME NEW x \in Ends, Receive(x)
      PROVE  \/ wrote'[Peer(e)][c] = wrote[Peer(e)][c] /\ got'[e][c] = got[e][c]
             \/ /\ wrote'[Peer(e)][c] = wrote[Peer(e)][c]
                /\ Len(got'[e][c]) = Len(got[e][c]) + 1
  <2> DEFINE p == Head(link[x])
  <2>1. UNCHANGED wrote
    BY <1>3 DEF Receive
  <2>2. CASE UNCHANGED got
    BY <2>1, <2>2
  <2>3. CASE p.kind = "data" /\ p.chan \in chans[x] /\ ReceiveData(x, p)
    <3>1. got' = [got EXCEPT ![x][p.chan] = Append(got[x][p.chan], p.n)]
      BY <2>3 DEF ReceiveData
    <3>2. link[x] # <<>>
      BY <1>3 DEF Receive
    <3>3. p.chan \in Channels /\ p.n \in Nat
      BY <1>t, <2>3, <3>2, HeadPacket
    <3> HIDE DEF p
    <3>4. CASE x = e /\ p.chan = c
      <4>1. got'[e][c] = Append(got[e][c], p.n) /\ got[e][c] \in Seq(Nat)
        <5>1. got' = [got EXCEPT ![e][c] = Append(got[e][c], p.n)]
          BY <3>1, <3>4, Zenon
        <5>2. got \in [Ends -> [Channels -> Seq(Nat)]]
          BY <1>t DEF Types
        <5> QED BY <5>1, <5>2
      <4> QED BY <2>1, <3>3, <4>1
    <3>5. CASE ~(x = e /\ p.chan = c)
      BY <1>t, <2>1, <3>1, <3>3, <3>5 DEF Types
    <3> QED BY <3>4, <3>5
  <2> QED BY <1>3, <2>2, <2>3
          DEF Receive, ReceiveOpen, ReceiveClose, ReceiveData, ReceiveTerminate, ReceivePing,
              ReceivePong
<1>4. ASSUME NEW proto \in {"tcp", "udp"}, Open(proto) PROVE UNCHANGED <<wrote, got>>
  BY <1>4 DEF Open, history
<1>5. Terminate => UNCHANGED <<wrote, got>>
  BY DEF Terminate
<1>6. ASSUME NEW x \in Ends, NEW d \in Channels, CloseChannel(x, d) PROVE UNCHANGED <<wrote, got>>
  BY <1>6 DEF CloseChannel, history
<1>7. ASSUME NEW x \in Ends, Published(x) \/ Stray(x) \/ Heartbeat(x) \/ LinkEnds(x)
      PROVE  UNCHANGED <<wrote, got>>
  BY <1>7 DEF Published, Stray, Heartbeat, LinkEnds, history
<1>8. UNCHANGED vars => UNCHANGED <<wrote, got>>
  BY DEF vars, history
<1> QED BY <1>1, <1>2, <1>3, <1>4, <1>5, <1>6, <1>7, <1>8 DEF Next

(* A write appends the next chunk to what was sent, and an arrival extends
   what was delivered to a longer prefix of it: whatever overtakes whatever,
   and whichever end goes down, every channel is delivered in order, once and
   without a gap. *)
THEOREM MuxRefinement == Spec => ImplementsChannel
<1>1. ASSUME IInv, IInv', [Next]_vars, NEW e \in Ends, NEW c \in Channels
      PROVE  [Channel(e, c)!Next]_(Channel(e, c)!chanVars)
  <2> DEFINE w == wrote[Peer(e)][c]
             g == got[e][c]
             Sent(n) == [i \in 1..n |-> i]
  <2>1. /\ w \in Nat /\ g \in Seq(Nat) /\ Len(g) \in Nat /\ Len(g) <= w
        /\ w' \in Nat /\ g' \in Seq(Nat) /\ Len(g') \in Nat /\ Len(g') <= w'
        /\ \A i \in 1..Len(g') : g'[i] = i
    <3>1. TypeOK /\ TypeOK' /\ Types /\ Types' /\ HandedInv /\ HandedInv' /\ Peer(e) \in Ends
      BY <1>1, TypeParts, EndFacts DEF IInv
    <3>2. w \in Nat /\ g \in Seq(Nat) /\ w' \in Nat /\ g' \in Seq(Nat)
      BY <3>1 DEF Types
    <3>3. Len(g) <= w /\ Len(g') <= w' /\ \A i \in 1..Len(g') : g'[i] = i
      BY <3>1 DEF HandedInv
    <3> QED BY <3>2, <3>3
  <2>2. CASE w' = w /\ g' = g
    BY <2>2 DEF Channel!chanVars
  <2>3. CASE w < Chunks[Peer(e)][c] /\ w' = w + 1 /\ g' = g
    <3>1. w + 1 \in 1..Chunks[Peer(e)][c]
      BY <2>1, <2>3, EndFacts
    <3>2. Sent(w + 1) = Append(Sent(w), w + 1)
      BY <2>1
    <3> QED BY <2>3, <3>1, <3>2 DEF Channel!Next, Channel!Send
  <2>4. CASE w' = w /\ Len(g') = Len(g) + 1
    <3>1. Len(g) + 1 \in (Len(g) + 1)..Len(Sent(w))
      BY <2>1, <2>4
    <3>2. g' = SubSeq(Sent(w), 1, Len(g) + 1)
      <4> DEFINE h == SubSeq(Sent(w), 1, Len(g) + 1)
      <4>1. /\ h \in Seq(Nat) /\ Len(h) = Len(g) + 1
            /\ \A i \in 1..Len(h) : h[i] = i
        BY <2>1, <2>4
      <4> HIDE DEF h
      <4>2. Len(h) = Len(g') /\ \A i \in 1..Len(h) : h[i] = g'[i]
        <5>1. Len(h) = Len(g')
          BY <2>4, <4>1
        <5>2. ASSUME NEW i \in 1..Len(h) PROVE h[i] = i /\ g'[i] = i
          BY <2>1, <4>1, <5>1, Zenon
        <5> QED BY <5>1, <5>2, Zenon
      <4>3. h = g'
        BY <2>1, <4>1, <4>2, SeqEqual
      <4> QED BY <4>3 DEF h
    <3> QED BY <2>4, <3>1, <3>2 DEF Channel!Next, Channel!Deliver
  <2> QED BY <1>1, <2>2, <2>3, <2>4, HistoryStep
<1> DEFINE Steps == \A e \in Ends, c \in Channels : [Channel(e, c)!Next]_(Channel(e, c)!chanVars)
           Starts == \A e \in Ends, c \in Channels : Channel(e, c)!Init
<1>2. IInv /\ IInv' /\ [Next]_vars => [Steps]_vars
  BY <1>1
<1>3. Init => Starts
  <2> SUFFICES ASSUME Init, NEW e \in Ends, NEW c \in Channels
               PROVE  Channel(e, c)!Init
    OBVIOUS
  <2>1. wrote[Peer(e)][c] = 0 /\ got[e][c] = <<>>
    BY EndFacts DEF Init
  <2>2. [i \in 1..0 |-> i] = <<>>
    OBVIOUS
  <2> QED BY <2>1, <2>2 DEF Channel!Init
<1>4. ImplementsChannel <=> Starts /\ [][Steps]_vars
  BY DEF ImplementsChannel
<1> HIDE DEF Steps, Starts
<1> QED BY Invariant, <1>2, <1>3, <1>4, PTL DEF Spec

=============================================================================
