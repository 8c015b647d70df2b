-------------------------- MODULE ByteStuffingProofs ------------------------
(***************************************************************************)
(* The byte stuffing undoes itself, for parameters of any length and       *)
(* content.  The argument has three parts: where stuffing puts each byte   *)
(* of the packet (Stuffed), what the array holds while the bytes are moved *)
(* back (HalfStuffed) and forth (HalfUnstuffed), and what every state of   *)
(* the two loops keeps (StuffingInv).                                      *)
(***************************************************************************)
EXTENDS ByteStuffing, FiniteSetTheorems, TLAPS

(***************************************************************************)
(* Where the bytes of a packet go                                          *)
(***************************************************************************)

ParamLists == {p \in Seq(PacketBytes) : Len(p) \in ParamLengths}

\* The headers addStuffing counts, as it numbers them: it looks at no parameters of a
\* packet that is too short.
Headers(p) ==
  IF Len(p) < 5 THEN {}
  ELSE {i \in 3 .. Len(p) : Packet(p)[i + 5] = FF /\ Packet(p)[i + 6] = FF
                            /\ Packet(p)[i + 7] = FD}
HeaderEnd(p, j) == j - 7 \in Headers(p)

\* The bytes added before the byte j, and where it comes to
Before(p, j) == {i \in Headers(p) : i + 7 < j}
Added(p, j) == Cardinality(Before(p, j))
Stuffed(p, j) == j + Added(p, j)

\* The last parameter, before and behind the stuffing
LastParam(p) == Len(p) + 7
LastStuffed(p) == Len(p) + 7 + Cardinality(Headers(p))

\* The bytes of a packet, and that one that ends a header follows no other that does
LEMMA PacketIs ==
  ASSUME NEW p \in ParamLists
  PROVE  /\ Len(p) \in Nat /\ PacketEnd(Len(p)) \in Nat
         /\ LastParam(p) + 2 <= PacketEnd(Len(p)) /\ LastParam(p) = Len(p) + 7
         /\ Packet(p) \in [0 .. PacketEnd(Len(p)) -> PacketBytes]
         /\ \A j \in 8 .. LastParam(p) : Packet(p)[j] = p[j - 7]
         /\ \A j \in {5, 6, 7, LastParam(p) + 1} : Packet(p)[j] = OtherByte
<1>1. Len(p) \in Nat /\ p \in [1 .. Len(p) -> PacketBytes]
  BY ByteStuffingAssumption DEF ParamLists
<1>2. PacketEnd(Len(p)) \in Nat /\ LastParam(p) + 2 <= PacketEnd(Len(p))
  BY <1>1 DEF PacketEnd, LastParam
<1>3. Packet(p) \in [0 .. PacketEnd(Len(p)) -> PacketBytes]
  BY <1>1, <1>2 DEF Packet, PacketBytes
<1>4. \A j \in 8 .. LastParam(p) : Packet(p)[j] = p[j - 7]
  BY <1>1, <1>2 DEF Packet, LastParam
<1>5. \A j \in {5, 6, 7, LastParam(p) + 1} : Packet(p)[j] = OtherByte
  BY <1>1, <1>2 DEF Packet, LastParam
<1> QED
  BY <1>1, <1>2, <1>3, <1>4, <1>5 DEF LastParam

LEMMA BytesDiffer == FF # FD /\ OtherByte # FF /\ OtherByte # FD
BY ByteStuffingAssumption DEF FF, FD

LEMMA HeadersAre ==
  ASSUME NEW p \in ParamLists
  PROVE  /\ Headers(p) \subseteq 3 .. Len(p) /\ IsFiniteSet(Headers(p))
         /\ Cardinality(Headers(p)) \in Nat
         /\ Headers(p) # {} => Len(p) >= 5
         /\ \A i \in Headers(p) : /\ Packet(p)[i + 5] = FF /\ Packet(p)[i + 6] = FF
                                  /\ Packet(p)[i + 7] = FD
                                  /\ i - 1 \notin Headers(p) /\ i - 2 \notin Headers(p)
<1>1. Len(p) \in Nat
  BY PacketIs
<1>2. Headers(p) \subseteq 3 .. Len(p) /\ (Headers(p) # {} => Len(p) >= 5)
  BY <1>1 DEF Headers
<1>3. IsFiniteSet(3 .. Len(p))
  BY <1>1, FS_Interval
<1>4. IsFiniteSet(Headers(p)) /\ Cardinality(Headers(p)) \in Nat
  BY <1>2, <1>3, FS_Subset, FS_CardinalityType
<1>5. ASSUME NEW i \in Headers(p)
      PROVE  Packet(p)[i + 5] = FF /\ Packet(p)[i + 6] = FF /\ Packet(p)[i + 7] = FD
  BY DEF Headers
<1>6. ASSUME NEW i \in Headers(p)
      PROVE  i - 1 \notin Headers(p) /\ i - 2 \notin Headers(p)
  <2>1. i \in Int /\ (i - 1) + 7 = i + 6 /\ (i - 2) + 7 = i + 5
    BY <1>1, <1>2
  <2>2. ASSUME NEW k \in Headers(p), k + 7 \in {i + 5, i + 6} PROVE FALSE
    BY <1>5, <2>2, BytesDiffer
  <2> QED
    BY <2>1, <2>2
<1> QED
  BY <1>2, <1>4, <1>5, <1>6

\* Three parameters for every header: the array has room for the bytes that are added.
LEMMA HeadersFit ==
  ASSUME NEW p \in ParamLists
  PROVE  /\ Cardinality(Headers(p)) <= Len(p) \div 3
         /\ LastStuffed(p) \in Nat /\ LastStuffed(p) + 2 <= PacketEnd(Len(p))
         /\ LastParam(p) <= LastStuffed(p)
<1> DEFINE n == Len(p)
           f == [i \in Headers(p) |-> i \div 3]
<1>1. n \in Nat /\ Headers(p) \subseteq 3 .. n
  BY PacketIs, HeadersAre
<1> HIDE DEF n
<1>2. f \in [Headers(p) -> 1 .. n \div 3]
  BY <1>1
<1>3. ASSUME NEW a \in Headers(p), NEW b \in Headers(p), f[a] = f[b] PROVE a = b
  <2>1. a \in Int /\ b \in Int /\ a \div 3 = b \div 3
    BY <1>1, <1>3
  <2>2. b # a - 1 /\ b # a - 2 /\ a # b - 1 /\ a # b - 2
    BY HeadersAre
  <2> QED
    BY <2>1, <2>2
<1>4. f \in Injection(Headers(p), 1 .. n \div 3)
  BY <1>2, <1>3 DEF Injection, IsInjective
<1>5. n \div 3 \in Nat
  BY <1>1
<1>6. IsFiniteSet(1 .. n \div 3) /\ Cardinality(1 .. n \div 3) = n \div 3
  BY <1>5, FS_Interval
<1>7. Cardinality(Headers(p)) <= n \div 3
  BY <1>4, <1>6, FS_Injection
<1> QED
  BY <1>1, <1>5, <1>7, HeadersAre DEF n, LastStuffed, LastParam, PacketEnd

\* The bytes added before a byte, from one byte to the next
LEMMA AddedIs ==
  ASSUME NEW p \in ParamLists, NEW j \in Int
  PROVE  /\ Added(p, j) \in Nat /\ Stuffed(p, j) \in Int
         /\ HeaderEnd(p, j) => Added(p, j + 1) = Added(p, j) + 1
         /\ ~HeaderEnd(p, j) => Added(p, j + 1) = Added(p, j)
         /\ j <= 10 => Added(p, j) = 0
         /\ j > LastParam(p) => Added(p, j) = Cardinality(Headers(p))
         /\ Added(p, j) > 0 => \E k \in 10 .. j - 1 : HeaderEnd(p, k)
<1>1. Headers(p) \subseteq 3 .. Len(p) /\ IsFiniteSet(Headers(p)) /\ Len(p) \in Nat
  BY HeadersAre, PacketIs
<1>2. IsFiniteSet(Before(p, j)) /\ Added(p, j) \in Nat
  <2>1. Before(p, j) \in SUBSET Headers(p)
    BY DEF Before
  <2> QED
    BY <1>1, <2>1, FS_Subset, FS_CardinalityType DEF Added
<1>3. ASSUME HeaderEnd(p, j) PROVE Added(p, j + 1) = Added(p, j) + 1
  <2>1. Before(p, j + 1) = Before(p, j) \cup {j - 7} /\ j - 7 \notin Before(p, j)
    BY <1>1, <1>3 DEF Before, HeaderEnd
  <2> QED
    BY <1>2, <2>1, FS_AddElement DEF Added
<1>4. ASSUME ~HeaderEnd(p, j) PROVE Added(p, j + 1) = Added(p, j)
  <2>1. Before(p, j + 1) = Before(p, j)
    BY <1>1, <1>4 DEF Before, HeaderEnd
  <2> QED
    BY <2>1 DEF Added
<1>5. ASSUME j <= 10 PROVE Added(p, j) = 0
  <2>1. Before(p, j) = {}
    BY <1>1, <1>5 DEF Before
  <2> QED
    BY <2>1, FS_EmptySet DEF Added
<1>6. ASSUME j > LastParam(p) PROVE Added(p, j) = Cardinality(Headers(p))
  <2>1. Before(p, j) = Headers(p)
    BY <1>1, <1>6 DEF Before, LastParam
  <2> QED
    BY <2>1 DEF Added
<1>7. ASSUME Added(p, j) > 0 PROVE \E k \in 10 .. j - 1 : HeaderEnd(p, k)
  <2>1. PICK i \in Before(p, j) : TRUE
    BY <1>2, <1>7, FS_EmptySet DEF Added
  <2>2. i \in Headers(p) /\ i + 7 < j /\ i >= 3 /\ i \in Int
    BY <1>1, <2>1 DEF Before
  <2>3. i + 7 \in 10 .. j - 1 /\ HeaderEnd(p, i + 7)
    BY <2>2 DEF HeaderEnd
  <2> QED
    BY <2>3
<1> QED
  BY <1>2, <1>3, <1>4, <1>5, <1>6, <1>7 DEF Stuffed

LEMMA AddedNotLess ==
  ASSUME NEW p \in ParamLists, NEW j \in Int, NEW k \in Int, j <= k
  PROVE  Added(p, j) <= Added(p, k)
<1>1. Headers(p) \subseteq 3 .. Len(p) /\ IsFiniteSet(Headers(p)) /\ Len(p) \in Nat
  BY HeadersAre, PacketIs
<1>2. Before(p, k) \in SUBSET Headers(p)
  BY DEF Before
<1>3. Before(p, j) \in SUBSET Before(p, k)
  BY <1>1 DEF Before
<1> QED
  BY <1>1, <1>2, <1>3, FS_Subset DEF Added

\* Where bytes come to keeps their order, and leaves the place behind the end of a header.
LEMMA StuffedInOrder ==
  ASSUME NEW p \in ParamLists, NEW j \in Int, NEW k \in Int, j < k
  PROVE  /\ Stuffed(p, j) < Stuffed(p, k)
         /\ HeaderEnd(p, j) => Stuffed(p, j) + 1 < Stuffed(p, k)
<1>1. /\ Added(p, j) \in Nat /\ Added(p, j + 1) \in Nat /\ Added(p, k) \in Nat
      /\ HeaderEnd(p, j) => Added(p, j + 1) = Added(p, j) + 1
  BY AddedIs
<1>2. j + 1 <= k /\ j + 1 \in Int /\ j <= k
  OBVIOUS
<1>3. Added(p, j + 1) <= Added(p, k) /\ Added(p, j) <= Added(p, k)
  BY <1>2, AddedNotLess
<1> QED
  BY <1>1, <1>3 DEF Stuffed

LEMMA StuffedEnd ==
  ASSUME NEW p \in ParamLists, NEW j \in Int
  PROVE  /\ j > LastParam(p) => Stuffed(p, j) = j + LastStuffed(p) - LastParam(p)
         /\ j <= LastParam(p) => /\ Stuffed(p, j) <= LastStuffed(p)
                                 /\ HeaderEnd(p, j) => Stuffed(p, j) + 1 <= LastStuffed(p)
         /\ Stuffed(p, j) \in Int /\ j <= Stuffed(p, j)
         /\ j <= 10 => Stuffed(p, j) = j
<1>1. /\ LastParam(p) \in Int /\ LastStuffed(p) \in Int
      /\ LastStuffed(p) - LastParam(p) = Cardinality(Headers(p))
  BY PacketIs, HeadersAre DEF LastParam, LastStuffed
<1>2. Added(p, j) \in Nat /\ (j > LastParam(p) => Added(p, j) = Cardinality(Headers(p)))
      /\ (j <= 10 => Added(p, j) = 0)
  BY AddedIs
<1>3. LastParam(p) + 1 \in Int /\ LastParam(p) + 1 > LastParam(p)
  BY <1>1
<1>4. Added(p, LastParam(p) + 1) = Cardinality(Headers(p))
  BY <1>3, AddedIs
<1>5. Stuffed(p, LastParam(p) + 1) = LastStuffed(p) + 1
  BY <1>1, <1>4 DEF Stuffed
<1>6. ASSUME j <= LastParam(p)
      PROVE  /\ Stuffed(p, j) <= LastStuffed(p)
             /\ HeaderEnd(p, j) => Stuffed(p, j) + 1 <= LastStuffed(p)
  <2>1. j < LastParam(p) + 1
    BY <1>1, <1>6
  <2>2. /\ Stuffed(p, j) < Stuffed(p, LastParam(p) + 1)
        /\ HeaderEnd(p, j) => Stuffed(p, j) + 1 < Stuffed(p, LastParam(p) + 1)
    BY <1>3, <2>1, StuffedInOrder
  <2>3. Stuffed(p, j) \in Int
    BY AddedIs
  <2> QED
    BY <1>1, <1>5, <2>2, <2>3
<1> QED
  BY <1>1, <1>2, <1>6 DEF Stuffed

\* What addStuffing looks for is what it counted.
LEMMA HeaderEndIs ==
  ASSUME NEW p \in ParamLists, Len(p) >= 5, NEW j \in 10 .. LastParam(p)
  PROVE  HeaderEnd(p, j) <=> /\ Packet(p)[j] = FD /\ Packet(p)[j - 1] = FF
                             /\ Packet(p)[j - 2] = FF
<1>1. Len(p) \in Nat /\ LastParam(p) = Len(p) + 7
  BY PacketIs
<1>2. j - 7 \in 3 .. Len(p) /\ (j - 7) + 5 = j - 2 /\ (j - 7) + 6 = j - 1 /\ (j - 7) + 7 = j
  BY <1>1
<1> DEFINE i == j - 7
<1>3. i \in Headers(p) <=> Packet(p)[i + 5] = FF /\ Packet(p)[i + 6] = FF
                           /\ Packet(p)[i + 7] = FD
  BY <1>1, <1>2 DEF Headers
<1> QED
  BY <1>2, <1>3 DEF HeaderEnd

LEMMA HeaderEndHas ==
  ASSUME NEW p \in ParamLists, NEW j \in Int, HeaderEnd(p, j)
  PROVE  /\ Packet(p)[j] = FD /\ Packet(p)[j - 1] = FF /\ Packet(p)[j - 2] = FF
         /\ j \in 10 .. LastParam(p)
<1>1. PICK i \in Headers(p) : i = j - 7
  BY DEF HeaderEnd
<1>2. i \in 3 .. Len(p) /\ Len(p) \in Nat
  BY HeadersAre, PacketIs
<1>3. i + 7 = j /\ i + 6 = j - 1 /\ i + 5 = j - 2
  BY <1>1, <1>2
<1>4. Packet(p)[i + 7] = FD /\ Packet(p)[i + 6] = FF /\ Packet(p)[i + 5] = FF
  BY HeadersAre
<1>5. j \in 10 .. LastParam(p)
  BY <1>2, <1>3 DEF LastParam
<1> QED
  BY <1>3, <1>4, <1>5

-----------------------------------------------------------------------------
(***************************************************************************)
(* The array while it is stuffed, and stuffed                              *)
(***************************************************************************)

Placed(p, a, j) ==
  /\ a[Stuffed(p, j)] = Packet(p)[j]
  /\ HeaderEnd(p, j) => a[Stuffed(p, j) + 1] = FD

\* The place i of a stuffed packet holds a byte, or the one added behind it.
Taken(p, i) ==
  \E j \in 8 .. LastParam(p) : \/ i = Stuffed(p, j)
                               \/ HeaderEnd(p, j) /\ i = Stuffed(p, j) + 1

\* What is around the parameters, whatever stands for the length and the CRC
Around(p, a) ==
  /\ a \in [0 .. PacketEnd(Len(p)) -> PacketBytes]
  /\ a[5] = OtherByte /\ a[6] = OtherByte /\ a[7] = OtherByte
  /\ a[LastStuffed(p) + 1] = OtherByte

StuffedPacket(p, a) ==
  /\ Around(p, a)
  /\ \A j \in 8 .. LastParam(p) : Placed(p, a, j)
  /\ \A i \in 8 .. LastStuffed(p) : Taken(p, i)

\* addStuffing has moved the bytes behind "from"; it is not done, as the last header from
\* behind ends the loop.
HalfStuffed(p, a, from, to) ==
  /\ Around(p, a)
  /\ from \in 10 .. LastParam(p)
  /\ to = from + Added(p, from + 1) /\ from < to
  /\ \A i \in 0 .. from : a[i] = Packet(p)[i]
  /\ \A j \in from + 1 .. LastParam(p) : Placed(p, a, j)
  /\ \A i \in to + 1 .. LastStuffed(p) : Taken(p, i)

\* A packet without headers is stuffed as it is.
LEMMA NothingToStuff ==
  ASSUME NEW p \in ParamLists, Headers(p) = {}
  PROVE  StuffedPacket(p, Packet(p)) /\ LastStuffed(p) = LastParam(p)
<1>1. Cardinality(Headers(p)) = 0 /\ LastStuffed(p) = LastParam(p) /\ LastParam(p) \in Nat
  BY FS_EmptySet, PacketIs DEF LastStuffed, LastParam
<1>2. Around(p, Packet(p))
  BY <1>1, PacketIs DEF Around
<1>3. ASSUME NEW j \in Int PROVE Stuffed(p, j) = j /\ ~HeaderEnd(p, j)
  <2>1. Before(p, j) = {}
    BY DEF Before
  <2> QED
    BY <2>1, FS_EmptySet DEF Stuffed, Added, HeaderEnd
<1>4. \A j \in 8 .. LastParam(p) : Placed(p, Packet(p), j)
  BY <1>3 DEF Placed
<1>5. \A i \in 8 .. LastStuffed(p) : Taken(p, i)
  BY <1>1, <1>3 DEF Taken
<1> QED
  BY <1>1, <1>2, <1>4, <1>5 DEF StuffedPacket

LEMMA StuffingBegins ==
  ASSUME NEW p \in ParamLists, Headers(p) # {}
  PROVE  HalfStuffed(p, Packet(p), LastParam(p), LastStuffed(p))
<1>1. /\ Len(p) >= 5 /\ LastParam(p) = Len(p) + 7 /\ Len(p) \in Nat
      /\ LastStuffed(p) = LastParam(p) + Cardinality(Headers(p))
      /\ IsFiniteSet(Headers(p)) /\ Cardinality(Headers(p)) \in Nat
  BY HeadersAre, PacketIs DEF LastStuffed, LastParam
<1>2. Cardinality(Headers(p)) # 0
  BY <1>1, FS_EmptySet
<1>3. Added(p, LastParam(p) + 1) = Cardinality(Headers(p))
  <2>1. LastParam(p) + 1 \in Int /\ LastParam(p) + 1 > LastParam(p)
    BY <1>1
  <2> QED
    BY <2>1, AddedIs
<1>4. Around(p, Packet(p))
  <2>1. LastStuffed(p) + 1 \in 0 .. PacketEnd(Len(p)) /\ LastStuffed(p) + 1 > LastParam(p)
    BY <1>1, <1>2, HeadersFit, PacketIs
  <2>2. Packet(p)[LastStuffed(p) + 1] = OtherByte
    BY <1>1, <2>1 DEF Packet
  <2> QED
    BY <2>2, PacketIs DEF Around
<1> QED
  BY <1>1, <1>2, <1>3, <1>4 DEF HalfStuffed

\* What a turn of the loop finds: there is a header left, and what is to be overwritten has
\* been moved.
LEMMA HalfStuffedIs ==
  ASSUME NEW p \in ParamLists, NEW a, NEW from, NEW to, HalfStuffed(p, a, from, to)
  PROVE  /\ from \in 10 .. LastParam(p) /\ from \in Int /\ to \in Int /\ LastParam(p) \in Int
         /\ LastStuffed(p) \in Int /\ PacketEnd(Len(p)) \in Nat
         /\ LastStuffed(p) + 2 <= PacketEnd(Len(p)) /\ to <= LastStuffed(p)
         /\ LastParam(p) <= LastStuffed(p)
         /\ to = from + Added(p, from + 1) /\ from < to
         /\ HeaderEnd(p, from) => to = Stuffed(p, from) + 1
         /\ ~HeaderEnd(p, from) => to = Stuffed(p, from)
         /\ \A j \in from + 1 .. LastParam(p) : Stuffed(p, j) \in Int /\ Stuffed(p, j) > to
         /\ HeaderEnd(p, from)
              <=> a[from] = FD /\ a[from - 1] = FF /\ a[from - 2] = FF
         /\ \A i \in 0 .. from : a[i] = Packet(p)[i]
         /\ \E k \in 10 .. from : HeaderEnd(p, k)
<1>1. /\ Around(p, a) /\ from \in 10 .. LastParam(p)
      /\ to = from + Added(p, from + 1) /\ from < to
      /\ \A i \in 0 .. from : a[i] = Packet(p)[i]
  BY DEF HalfStuffed
<1>2. /\ LastParam(p) \in Nat /\ LastStuffed(p) \in Nat /\ LastParam(p) <= LastStuffed(p)
      /\ LastStuffed(p) + 2 <= PacketEnd(Len(p)) /\ PacketEnd(Len(p)) \in Nat
  BY PacketIs, HeadersFit DEF LastParam
<1>3. /\ from \in Int /\ from + 1 \in Int /\ from - 1 \in 0 .. from /\ from - 2 \in 0 .. from
      /\ from \in 0 .. from /\ from <= LastParam(p) /\ from >= 10
  BY <1>1, <1>2
<1>4. /\ Added(p, from + 1) \in Nat /\ Added(p, from) \in Nat /\ to \in Int
      /\ HeaderEnd(p, from) => Added(p, from + 1) = Added(p, from) + 1
      /\ ~HeaderEnd(p, from) => Added(p, from + 1) = Added(p, from)
  BY <1>1, <1>3, AddedIs
<1>5. /\ HeaderEnd(p, from) => to = Stuffed(p, from) + 1
      /\ ~HeaderEnd(p, from) => to = Stuffed(p, from)
  BY <1>1, <1>3, <1>4 DEF Stuffed
<1>6. to <= LastStuffed(p)
  <2>1. Stuffed(p, from) <= LastStuffed(p)
        /\ (HeaderEnd(p, from) => Stuffed(p, from) + 1 <= LastStuffed(p))
    BY <1>3, StuffedEnd
  <2> QED
    BY <1>5, <2>1
<1>7. ASSUME NEW j \in from + 1 .. LastParam(p)
      PROVE  Stuffed(p, j) \in Int /\ Stuffed(p, j) > to
  <2>1. j \in Int /\ from + 1 <= j
    BY <1>2, <1>3
  <2>2. Added(p, from + 1) <= Added(p, j)
    BY <1>3, <2>1, AddedNotLess
  <2>3. Added(p, j) \in Nat
    BY <2>1, AddedIs
  <2> QED
    BY <1>1, <1>3, <1>4, <2>1, <2>2, <2>3 DEF Stuffed
<1>8. Headers(p) # {} /\ \E k \in 10 .. from : HeaderEnd(p, k)
  <2>1. Added(p, from + 1) > 0
    BY <1>1, <1>3, <1>4
  <2>2. PICK k \in 10 .. (from + 1) - 1 : HeaderEnd(p, k)
    BY <1>3, <2>1, AddedIs
  <2>3. k \in 10 .. from
    BY <1>3
  <2> QED
    BY <2>2, <2>3 DEF HeaderEnd
<1>9. /\ a[from] = Packet(p)[from] /\ a[from - 1] = Packet(p)[from - 1]
      /\ a[from - 2] = Packet(p)[from - 2]
  BY <1>1, <1>3
<1>10. HeaderEnd(p, from) <=> a[from] = FD /\ a[from - 1] = FF /\ a[from - 2] = FF
  BY <1>1, <1>8, <1>9, HeadersAre, HeaderEndIs
<1> QED
  BY <1>1, <1>2, <1>3, <1>4, <1>5, <1>6, <1>7, <1>8, <1>10

\* A turn that writes at no place behind "to" leaves the bytes there, and what is around.
LEMMA BehindKept ==
  ASSUME NEW p \in ParamLists, NEW a, NEW from, NEW to, HalfStuffed(p, a, from, to), NEW b,
         b \in [0 .. PacketEnd(Len(p)) -> PacketBytes],
         \A i \in 0 .. PacketEnd(Len(p)) : i > to \/ i \in 5 .. 7 => b[i] = a[i]
  PROVE  /\ \A j \in from + 1 .. LastParam(p) : Placed(p, b, j)
         /\ Around(p, b)
<1>1. /\ from \in 10 .. LastParam(p) /\ from \in Int /\ to \in Int /\ LastParam(p) \in Int
      /\ LastStuffed(p) \in Int /\ PacketEnd(Len(p)) \in Nat
      /\ LastStuffed(p) + 2 <= PacketEnd(Len(p)) /\ to <= LastStuffed(p)
      /\ LastParam(p) <= LastStuffed(p) /\ from < to
      /\ \A j \in from + 1 .. LastParam(p) : Stuffed(p, j) \in Int /\ Stuffed(p, j) > to
  BY HalfStuffedIs
<1>2. ASSUME NEW j \in from + 1 .. LastParam(p) PROVE Placed(p, b, j)
  <2>1. Placed(p, a, j)
    BY DEF HalfStuffed
  <2>2. j \in Int /\ j <= LastParam(p)
    BY <1>1
  <2>3. Stuffed(p, j) <= LastStuffed(p)
        /\ (HeaderEnd(p, j) => Stuffed(p, j) + 1 <= LastStuffed(p))
    BY <2>2, StuffedEnd
  <2>4. Stuffed(p, j) \in Int /\ Stuffed(p, j) > to
    BY <1>1
  <2>5. b[Stuffed(p, j)] = a[Stuffed(p, j)]
    <3>1. Stuffed(p, j) \in 0 .. PacketEnd(Len(p))
      BY <1>1, <2>3, <2>4
    <3> QED
      BY <2>4, <3>1
  <2>6. HeaderEnd(p, j) => b[Stuffed(p, j) + 1] = a[Stuffed(p, j) + 1]
    <3> SUFFICES ASSUME HeaderEnd(p, j) PROVE b[Stuffed(p, j) + 1] = a[Stuffed(p, j) + 1]
      OBVIOUS
    <3>1. Stuffed(p, j) + 1 \in 0 .. PacketEnd(Len(p)) /\ Stuffed(p, j) + 1 > to
      BY <1>1, <2>3, <2>4
    <3> QED
      BY <3>1
  <2> QED
    BY <2>1, <2>5, <2>6 DEF Placed
<1>3. Around(p, b)
  <2>1. Around(p, a)
    BY DEF HalfStuffed
  <2>2. 5 \in 0 .. PacketEnd(Len(p)) /\ 6 \in 0 .. PacketEnd(Len(p))
        /\ 7 \in 0 .. PacketEnd(Len(p)) /\ LastStuffed(p) + 1 \in 0 .. PacketEnd(Len(p))
        /\ LastStuffed(p) + 1 > to
    BY <1>1
  <2>3. b[5] = a[5] /\ b[6] = a[6] /\ b[7] = a[7]
    BY <2>2
  <2>4. b[LastStuffed(p) + 1] = a[LastStuffed(p) + 1]
    BY <2>2
  <2> QED
    BY <2>1, <2>3, <2>4 DEF Around
<1> QED
  BY <1>2, <1>3

\* A byte that ends no header is moved.
LEMMA ByteTurn ==
  ASSUME NEW p \in ParamLists, NEW a, NEW from, NEW to, HalfStuffed(p, a, from, to),
         ~HeaderEnd(p, from)
  PROVE  HalfStuffed(p, [a EXCEPT ![to] = a[from]], from - 1, to - 1)
<1> DEFINE b == [a EXCEPT ![to] = a[from]]
<1>1. /\ from \in 10 .. LastParam(p) /\ from \in Int /\ to \in Int /\ LastParam(p) \in Int
      /\ LastStuffed(p) \in Int /\ PacketEnd(Len(p)) \in Nat
      /\ LastStuffed(p) + 2 <= PacketEnd(Len(p))
      /\ to <= LastStuffed(p) /\ LastParam(p) <= LastStuffed(p) /\ from < to
      /\ to = from + Added(p, from + 1) /\ to = Stuffed(p, from)
  BY HalfStuffedIs
<1>2. \A i \in 0 .. from : a[i] = Packet(p)[i]
  BY HalfStuffedIs
<1>3. from - 1 \in 10 .. LastParam(p)
  <2>1. PICK k \in 10 .. from : HeaderEnd(p, k)
    BY HalfStuffedIs
  <2> QED
    BY <1>1, <2>1
<1>4. a \in [0 .. PacketEnd(Len(p)) -> PacketBytes]
  BY DEF HalfStuffed, Around
<1>5. /\ b \in [0 .. PacketEnd(Len(p)) -> PacketBytes]
      /\ b[to] = a[from] /\ \A i \in 0 .. PacketEnd(Len(p)) : i # to => b[i] = a[i]
  BY <1>1, <1>4
<1> HIDE DEF b
<1>6. Around(p, b) /\ \A j \in from + 1 .. LastParam(p) : Placed(p, b, j)
  <2>1. \A i \in 0 .. PacketEnd(Len(p)) : i > to \/ i \in 5 .. 7 => b[i] = a[i]
    BY <1>1, <1>5
  <2> QED
    BY <1>5, <2>1, BehindKept
<1>7. to - 1 = (from - 1) + Added(p, (from - 1) + 1)
  <2>1. (from - 1) + 1 = from
    BY <1>1
  <2>2. Added(p, from) \in Nat /\ Added(p, from + 1) = Added(p, from)
    BY <1>1, AddedIs
  <2> QED
    BY <1>1, <2>1, <2>2
<1>8. \A j \in (from - 1) + 1 .. LastParam(p) : Placed(p, b, j)
  <2>1. Placed(p, b, from)
    BY <1>2, <1>1, <1>5 DEF Placed
  <2> QED
    BY <1>1, <1>6, <2>1
<1>9. \A i \in (to - 1) + 1 .. LastStuffed(p) : Taken(p, i)
  <2>1. \A i \in to + 1 .. LastStuffed(p) : Taken(p, i)
    BY DEF HalfStuffed
  <2>2. Taken(p, to)
    <3>1. from \in 8 .. LastParam(p)
      BY <1>1
    <3> QED
      BY <1>1, <3>1 DEF Taken
  <2> QED
    BY <1>1, <2>1, <2>2
<1>10. \A i \in 0 .. from - 1 : b[i] = Packet(p)[i]
  BY <1>2, <1>1, <1>5
<1>11. from - 1 < to - 1
  BY <1>1
<1> QED
  BY <1>3, <1>6, <1>7, <1>8, <1>9, <1>10, <1>11 DEF HalfStuffed, b

\* A header that is not the last one is moved with the byte behind it.
LEMMA HeaderTurn ==
  ASSUME NEW p \in ParamLists, NEW a, NEW from \in Int, NEW to \in Int,
         HalfStuffed(p, a, from, to),
         HeaderEnd(p, from), to - 1 # from
  PROVE  HalfStuffed(p, [a EXCEPT ![to] = FD, ![to - 1] = a[from], ![to - 2] = a[from - 1],
                                  ![to - 3] = a[from - 2]], from - 3, to - 4)
<1> DEFINE b == [a EXCEPT ![to] = FD, ![to - 1] = a[from], ![to - 2] = a[from - 1],
                          ![to - 3] = a[from - 2]]
<1>1. /\ from \in 10 .. LastParam(p) /\ from \in Int /\ to \in Int /\ LastParam(p) \in Int
      /\ LastStuffed(p) \in Int /\ PacketEnd(Len(p)) \in Nat
      /\ LastStuffed(p) + 2 <= PacketEnd(Len(p))
      /\ to <= LastStuffed(p) /\ LastParam(p) <= LastStuffed(p) /\ from < to
  BY HalfStuffedIs
<1>2. to = from + Added(p, from + 1) /\ to = Stuffed(p, from) + 1
  BY HalfStuffedIs
<1>3. \A i \in 0 .. from : a[i] = Packet(p)[i]
  BY HalfStuffedIs
<1>4. from - 1 \in Int /\ from - 2 \in Int /\ from + 1 < to /\ from >= 10
      /\ (from - 1) + 1 = from /\ (from - 2) + 1 = from - 1 /\ (from - 3) + 1 = from - 2
  BY <1>1
<1>5. ~HeaderEnd(p, from - 1) /\ ~HeaderEnd(p, from - 2)
  <2>1. (from - 1) - 7 = (from - 7) - 1 /\ (from - 2) - 7 = (from - 7) - 2
    BY <1>1
  <2> QED
    BY <2>1, HeadersAre DEF HeaderEnd
<1>6. /\ Added(p, from) \in Nat /\ Added(p, from + 1) = Added(p, from) + 1
      /\ Added(p, from - 1) = Added(p, from) /\ Added(p, from - 2) = Added(p, from)
  <2>1. Added(p, from) \in Nat /\ Added(p, from + 1) = Added(p, from) + 1
    BY <1>1, AddedIs
  <2>2. Added(p, from) = Added(p, from - 1)
    BY <1>4, <1>5, AddedIs
  <2>3. Added(p, from - 1) = Added(p, from - 2)
    BY <1>4, <1>5, AddedIs
  <2> QED
    BY <2>1, <2>2, <2>3
<1>7. /\ Stuffed(p, from) = to - 1 /\ Stuffed(p, from - 1) = to - 2
      /\ Stuffed(p, from - 2) = to - 3 /\ Added(p, from) > 0
  <2>1. to = from + Added(p, from) + 1
    BY <1>1, <1>6, <1>2
  <2>2. Added(p, from) > 0
    BY <1>1, <1>6, <2>1
  <2>3. /\ Stuffed(p, from) = from + Added(p, from)
        /\ Stuffed(p, from - 1) = (from - 1) + Added(p, from)
        /\ Stuffed(p, from - 2) = (from - 2) + Added(p, from)
    BY <1>6 DEF Stuffed
  <2>4. PICK d \in Nat : d = Added(p, from)
    BY <1>6
  <2> QED
    BY <2>1, <2>2, <2>3, <2>4
<1>8. from - 3 \in 10 .. LastParam(p)
  <2>1. PICK k \in 10 .. from - 1 : HeaderEnd(p, k)
    BY <1>1, <1>7, AddedIs
  <2> QED
    BY <1>1, <1>5, <2>1
<1>9. a \in [0 .. PacketEnd(Len(p)) -> PacketBytes] /\ FD \in PacketBytes
  BY DEF HalfStuffed, Around, PacketBytes
<1>10. /\ b \in [0 .. PacketEnd(Len(p)) -> PacketBytes]
      /\ b[to] = FD /\ b[to - 1] = a[from] /\ b[to - 2] = a[from - 1] /\ b[to - 3] = a[from - 2]
      /\ \A i \in 0 .. PacketEnd(Len(p)) : i \notin to - 3 .. to => b[i] = a[i]
  <2>1. to \in 0 .. PacketEnd(Len(p)) /\ to - 1 \in 0 .. PacketEnd(Len(p))
        /\ to - 2 \in 0 .. PacketEnd(Len(p)) /\ to - 3 \in 0 .. PacketEnd(Len(p))
        /\ from \in 0 .. PacketEnd(Len(p)) /\ from - 1 \in 0 .. PacketEnd(Len(p))
        /\ from - 2 \in 0 .. PacketEnd(Len(p))
    BY <1>1, <1>4
  <2>2. to # to - 1 /\ to # to - 2 /\ to # to - 3 /\ to - 1 # to - 2 /\ to - 1 # to - 3
        /\ to - 2 # to - 3
    BY <1>1
  <2>3. /\ a[from] \in PacketBytes /\ a[from - 1] \in PacketBytes /\ a[from - 2] \in PacketBytes
    BY <1>9, <2>1
  <2>4. b \in [0 .. PacketEnd(Len(p)) -> PacketBytes]
    BY <1>9, <2>3
  <2>5. b[to] = FD /\ b[to - 1] = a[from] /\ b[to - 2] = a[from - 1] /\ b[to - 3] = a[from - 2]
    BY <1>9, <2>1, <2>2
  <2>6. ASSUME NEW i \in 0 .. PacketEnd(Len(p)), i \notin to - 3 .. to PROVE b[i] = a[i]
    <3>1. i # to /\ i # to - 1 /\ i # to - 2 /\ i # to - 3
      BY <2>6
    <3> QED
      BY <1>9, <3>1
  <2> QED
    BY <2>4, <2>5, <2>6
<1> HIDE DEF b
<1>11. Around(p, b) /\ \A j \in from + 1 .. LastParam(p) : Placed(p, b, j)
  <2>1. \A i \in 0 .. PacketEnd(Len(p)) : i > to \/ i \in 5 .. 7 => b[i] = a[i]
    BY <1>1, <1>4, <1>10
  <2> QED
    BY <1>10, <2>1, BehindKept
<1>12. to - 4 = (from - 3) + Added(p, (from - 3) + 1) /\ from - 3 < to - 4
  <2>1. Added(p, (from - 3) + 1) = Added(p, from)
    BY <1>4, <1>6
  <2>2. to = from + Added(p, from) + 1
    BY <1>1, <1>6, <1>2
  <2>3. PICK d \in Nat : d = Added(p, from) /\ d > 0
    BY <1>6, <1>7
  <2> QED
    BY <2>1, <2>2, <2>3
<1>13. \A j \in (from - 3) + 1 .. LastParam(p) : Placed(p, b, j)
  <2>1. /\ a[from] = Packet(p)[from] /\ a[from - 1] = Packet(p)[from - 1]
        /\ a[from - 2] = Packet(p)[from - 2]
    <3>1. from \in 0 .. from /\ from - 1 \in 0 .. from /\ from - 2 \in 0 .. from
      BY <1>4
    <3> QED
      BY <1>3, <3>1, Zenon
  <2>2. (to - 1) + 1 = to
    BY <1>1
  <2>3. Placed(p, b, from) /\ Placed(p, b, from - 1) /\ Placed(p, b, from - 2)
    BY <1>5, <1>7, <1>10, <2>1, <2>2 DEF Placed
  <2>4. \A j \in (from - 3) + 1 .. LastParam(p) :
          j = from \/ j = from - 1 \/ j = from - 2 \/ j \in from + 1 .. LastParam(p)
    BY <1>1
  <2> QED
    BY <1>11, <2>3, <2>4
<1>14. \A i \in (to - 4) + 1 .. LastStuffed(p) : Taken(p, i)
  <2>1. \A i \in to + 1 .. LastStuffed(p) : Taken(p, i)
    BY DEF HalfStuffed
  <2>2. from \in 8 .. LastParam(p) /\ from - 1 \in 8 .. LastParam(p)
        /\ from - 2 \in 8 .. LastParam(p)
    BY <1>1
  <2>3. Taken(p, to) /\ Taken(p, to - 1) /\ Taken(p, to - 2) /\ Taken(p, to - 3)
    BY <1>1, <1>7, <2>2 DEF Taken
  <2>4. \A i \in (to - 4) + 1 .. LastStuffed(p) :
          i = to \/ i = to - 1 \/ i = to - 2 \/ i = to - 3 \/ i \in to + 1 .. LastStuffed(p)
    BY <1>1
  <2> QED
    BY <2>1, <2>3, <2>4
<1>15. \A i \in 0 .. from - 3 : b[i] = Packet(p)[i]
  BY <1>3, <1>1, <1>4, <1>10
<1> QED
  BY <1>8, <1>11, <1>12, <1>13, <1>14, <1>15 DEF HalfStuffed, b

\* The last header from behind stays where it is, and the packet is stuffed.
LEMMA LastTurn ==
  ASSUME NEW p \in ParamLists, NEW a, NEW from \in Int, NEW to \in Int,
         HalfStuffed(p, a, from, to),
         HeaderEnd(p, from), to - 1 = from
  PROVE  StuffedPacket(p, [a EXCEPT ![to] = FD])
<1> DEFINE b == [a EXCEPT ![to] = FD]
<1>1. /\ from \in 10 .. LastParam(p) /\ from \in Int /\ to \in Int /\ LastParam(p) \in Int
      /\ LastStuffed(p) \in Int /\ PacketEnd(Len(p)) \in Nat
      /\ LastStuffed(p) + 2 <= PacketEnd(Len(p))
      /\ to <= LastStuffed(p) /\ LastParam(p) <= LastStuffed(p) /\ from < to
      /\ to = from + Added(p, from + 1) /\ to = Stuffed(p, from) + 1
  BY HalfStuffedIs
<1>2. \A i \in 0 .. from : a[i] = Packet(p)[i]
  BY HalfStuffedIs
<1>3. a \in [0 .. PacketEnd(Len(p)) -> PacketBytes] /\ FD \in PacketBytes
  BY DEF HalfStuffed, Around, PacketBytes
<1>4. /\ b \in [0 .. PacketEnd(Len(p)) -> PacketBytes]
      /\ b[to] = FD /\ \A i \in 0 .. PacketEnd(Len(p)) : i # to => b[i] = a[i]
  BY <1>1, <1>3
<1> HIDE DEF b
<1>5. Around(p, b) /\ \A j \in from + 1 .. LastParam(p) : Placed(p, b, j)
  <2>1. \A i \in 0 .. PacketEnd(Len(p)) : i > to \/ i \in 5 .. 7 => b[i] = a[i]
    BY <1>1, <1>4
  <2> QED
    BY <1>4, <2>1, BehindKept
<1>6. Added(p, from) = 0
  <2>1. Added(p, from) \in Nat /\ Added(p, from + 1) = Added(p, from) + 1
    BY <1>1, AddedIs
  <2> QED
    BY <1>1, <2>1
<1>7. ASSUME NEW j \in 8 .. from PROVE Stuffed(p, j) = j /\ (j # from => ~HeaderEnd(p, j))
  <2>1. j \in Int /\ j <= from
    BY <1>1
  <2>2. Added(p, j) <= Added(p, from)
    BY <1>1, <2>1, AddedNotLess
  <2>3. Added(p, j) \in Nat
    BY <2>1, AddedIs
  <2>4. Added(p, j) = 0
    BY <2>2, <2>3, <1>6, <2>1
  <2>5. ASSUME HeaderEnd(p, j), j # from PROVE FALSE
    <3>1. j + 1 \in Int /\ j + 1 <= from
      BY <1>1, <2>1, <2>5
    <3>2. Added(p, j + 1) = Added(p, j) + 1
      BY <2>1, <2>5, AddedIs
    <3>3. Added(p, j + 1) <= Added(p, from)
      BY <1>1, <3>1, AddedNotLess
    <3> QED
      BY <1>6, <2>4, <3>1, <3>3, <3>2
  <2> QED
    BY <2>1, <2>4, <2>5 DEF Stuffed
<1>8. \A j \in 8 .. LastParam(p) : Placed(p, b, j)
  <2>1. ASSUME NEW j \in 8 .. from PROVE Placed(p, b, j)
    <3>1. b[j] = Packet(p)[j]
      BY <1>2, <1>1, <1>4
    <3>2. from + 1 = to
      BY <1>1
    <3> QED
      BY <1>4, <1>7, <3>1, <3>2 DEF Placed
  <2>2. \A j \in 8 .. LastParam(p) : j \in 8 .. from \/ j \in from + 1 .. LastParam(p)
    BY <1>1
  <2> QED
    BY <1>5, <2>1, <2>2
<1>9. \A i \in 8 .. LastStuffed(p) : Taken(p, i)
  <2>1. \A i \in to + 1 .. LastStuffed(p) : Taken(p, i)
    BY DEF HalfStuffed
  <2>2. Taken(p, to)
    <3>1. from \in 8 .. LastParam(p)
      BY <1>1
    <3> QED
      BY <1>1, <3>1 DEF Taken
  <2>3. ASSUME NEW i \in 8 .. from PROVE Taken(p, i)
    <3>1. i \in 8 .. LastParam(p) /\ i = Stuffed(p, i)
      BY <1>1, <1>7
    <3> QED
      BY <3>1 DEF Taken
  <2>4. \A i \in 8 .. LastStuffed(p) : i \in 8 .. from \/ i = to \/ i \in to + 1 .. LastStuffed(p)
    BY <1>1
  <2> QED
    BY <2>1, <2>2, <2>3, <2>4
<1> QED
  BY <1>5, <1>8, <1>9 DEF StuffedPacket, b

\* The three steps of addStuffing's loop, in one.
LEMMA StuffingTurn ==
  ASSUME NEW p \in ParamLists, NEW a, NEW from, NEW to, HalfStuffed(p, a, from, to)
  PROVE  /\ HeaderEnd(p, from) <=> a[from] = FD /\ a[from - 1] = FF /\ a[from - 2] = FF
         /\ HeaderEnd(p, from) /\ to - 1 # from =>
              HalfStuffed(p, [a EXCEPT ![to] = FD, ![to - 1] = a[from], ![to - 2] = a[from - 1],
                                       ![to - 3] = a[from - 2]], from - 3, to - 4)
         /\ HeaderEnd(p, from) /\ to - 1 = from =>
              StuffedPacket(p, [a EXCEPT ![to] = FD]) /\ to - 1 \in Int /\ from > 7
         /\ ~HeaderEnd(p, from) =>
              HalfStuffed(p, [a EXCEPT ![to] = a[from]], from - 1, to - 1)
         /\ from # to
<1>1. /\ from \in 10 .. LastParam(p) /\ from \in Int /\ to \in Int /\ from < to
      /\ HeaderEnd(p, from) <=> a[from] = FD /\ a[from - 1] = FF /\ a[from - 2] = FF
  BY HalfStuffedIs
<1>2. from > 7 /\ to - 1 \in Int /\ from # to
  BY <1>1
<1>3. ~HeaderEnd(p, from) => HalfStuffed(p, [a EXCEPT ![to] = a[from]], from - 1, to - 1)
  BY ByteTurn
<1>4. HeaderEnd(p, from) /\ to - 1 # from =>
        HalfStuffed(p, [a EXCEPT ![to] = FD, ![to - 1] = a[from], ![to - 2] = a[from - 1],
                                 ![to - 3] = a[from - 2]], from - 3, to - 4)
  BY <1>1, HeaderTurn
<1>5. HeaderEnd(p, from) /\ to - 1 = from => StuffedPacket(p, [a EXCEPT ![to] = FD])
  BY <1>1, LastTurn
<1> QED
  BY <1>1, <1>2, <1>3, <1>4, <1>5

\* An FF of a stuffed packet is a byte, and what comes next is the byte behind it.
LEMMA FfIsAByte ==
  ASSUME NEW p \in ParamLists, NEW a, StuffedPacket(p, a), NEW i \in 8 .. LastStuffed(p),
         a[i] = FF
  PROVE  \E j \in 8 .. LastParam(p) : /\ i = Stuffed(p, j) /\ Packet(p)[j] = FF
                                      /\ i + 1 = Stuffed(p, j + 1)
<1>1. PICK j \in 8 .. LastParam(p) : \/ i = Stuffed(p, j)
                                     \/ HeaderEnd(p, j) /\ i = Stuffed(p, j) + 1
  BY DEF StuffedPacket, Taken
<1>2. Placed(p, a, j) /\ j \in Int
  BY PacketIs DEF StuffedPacket
<1>3. i = Stuffed(p, j) /\ Packet(p)[j] = FF
  BY <1>1, <1>2, BytesDiffer DEF Placed
<1>4. ~HeaderEnd(p, j)
  BY <1>2, <1>3, BytesDiffer, HeaderEndHas
<1>5. Added(p, j + 1) = Added(p, j) /\ Added(p, j) \in Nat
  BY <1>2, <1>4, AddedIs
<1>6. i + 1 = Stuffed(p, j + 1)
  BY <1>2, <1>3, <1>5 DEF Stuffed
<1> QED
  BY <1>3, <1>6

\* Every header among stuffed parameters is followed by FD.
LEMMA HeadersAreHidden ==
  ASSUME NEW p \in ParamLists, NEW a, StuffedPacket(p, a), Len(p) >= 5,
         NEW i \in 8 .. LastStuffed(p) - 2, a[i] = FF, a[i + 1] = FF, a[i + 2] = FD
  PROVE  a[i + 3] = FD
<1>1. LastParam(p) \in Int /\ LastStuffed(p) \in Int /\ i \in Int
  BY HeadersFit, PacketIs DEF LastParam
<1>2. i \in 8 .. LastStuffed(p) /\ i + 1 \in 8 .. LastStuffed(p) /\ i < LastStuffed(p)
      /\ (i + 1) + 1 = i + 2 /\ i + 1 < LastStuffed(p)
  BY <1>1
<1>3. PICK j \in 8 .. LastParam(p) : /\ i = Stuffed(p, j) /\ Packet(p)[j] = FF
                                     /\ i + 1 = Stuffed(p, j + 1)
  BY <1>2, FfIsAByte
<1>4. PICK k \in 8 .. LastParam(p) : /\ i + 1 = Stuffed(p, k) /\ Packet(p)[k] = FF
                                     /\ i + 2 = Stuffed(p, k + 1)
  BY <1>2, FfIsAByte
<1>5. j \in Int /\ k \in Int
  BY <1>1
\* No two bytes come to one place.
<1>6. ASSUME NEW b \in Int, NEW c \in Int, Stuffed(p, b) = Stuffed(p, c) PROVE b = c
  <2>1. Stuffed(p, b) \in Int
    BY AddedIs
  <2>2. ~(b < c)
    BY <1>6, <2>1, StuffedInOrder
  <2>3. ~(c < b)
    BY <1>6, <2>1, StuffedInOrder
  <2> QED
    BY <2>2, <2>3
<1>7. k = j + 1
  <2>1. j + 1 \in Int
    BY <1>5
  <2> QED
    BY <1>3, <1>4, <1>5, <1>6, <2>1
<1>8. k + 1 \in 8 .. LastParam(p)
  <2>1. k + 1 \in Int
    BY <1>5
  <2>2. k + 1 > LastParam(p) => Stuffed(p, k + 1) = (k + 1) + LastStuffed(p) - LastParam(p)
    BY <2>1, StuffedEnd
  <2>3. k <= LastParam(p) /\ k >= 8
    BY <1>1, <1>5
  <2>4. k + 1 > LastParam(p) => Stuffed(p, k + 1) = LastStuffed(p) + 1
    BY <1>1, <1>5, <2>2, <2>3
  <2> QED
    BY <1>1, <1>2, <1>4, <1>5, <2>3, <2>4
<1>9. Packet(p)[k + 1] = FD /\ (HeaderEnd(p, k + 1) => a[Stuffed(p, k + 1) + 1] = FD)
  <2>1. Placed(p, a, k + 1)
    BY <1>8 DEF StuffedPacket
  <2> QED
    BY <1>4, <2>1 DEF Placed
<1>10. HeaderEnd(p, k + 1)
  <2>1. k + 1 \in 10 .. LastParam(p) /\ (k + 1) - 1 = k /\ (k + 1) - 2 = j
    <3>1. j >= 8
      BY <1>1
    <3> QED
      BY <1>1, <1>5, <1>7, <1>8, <3>1
  <2>2. Packet(p)[(k + 1) - 1] = FF /\ Packet(p)[(k + 1) - 2] = FF
    BY <1>3, <1>4, <2>1
  <2> QED
    BY <1>9, <2>1, <2>2, HeaderEndIs
<1> QED
  <2>1. Stuffed(p, k + 1) + 1 = i + 3
    BY <1>1, <1>4
  <2> QED
    BY <1>9, <1>10, <2>1

-----------------------------------------------------------------------------
(***************************************************************************)
(* The array while the stuffing is removed                                 *)
(***************************************************************************)

LooksStuffed(a, i) ==
  a[i + 7] = FD /\ a[i + 7 + 1] = FD /\ a[i + 7 - 1] = FF /\ a[i + 7 - 2] = FF

\* From "to" on the array is as it was stuffed; the byte "to" of the packet is found there at
\* its stuffed place, which is the one that is read.
Unread(p, a, to, j) ==
  /\ Stuffed(p, j) >= to => a[Stuffed(p, j)] = Packet(p)[j]
  /\ HeaderEnd(p, j) /\ Stuffed(p, j) + 1 >= to => a[Stuffed(p, j) + 1] = FD

HalfUnstuffed(p, a, from, to) ==
  /\ Around(p, a)
  /\ to \in 7 .. LastParam(p) + 1 /\ from \in Int
  /\ from + 7 = Stuffed(p, to)
  /\ \A i \in 8 .. to - 1 : a[i] = Packet(p)[i]
  /\ \A j \in 8 .. LastParam(p) : Unread(p, a, to, j)

LEMMA RemovingBegins ==
  ASSUME NEW p \in ParamLists, NEW a, StuffedPacket(p, a)
  PROVE  HalfUnstuffed(p, a, 0, 7)
<1>1. Stuffed(p, 7) = 7 /\ 7 \in 7 .. LastParam(p) + 1
  BY StuffedEnd, PacketIs DEF LastParam
<1>2. \A j \in 8 .. LastParam(p) : Unread(p, a, 7, j)
  BY DEF StuffedPacket, Placed, Unread
<1> QED
  BY <1>1, <1>2 DEF HalfUnstuffed, StuffedPacket

\* What a turn finds at the place it reads
LEMMA HalfUnstuffedIs ==
  ASSUME NEW p \in ParamLists, NEW a, NEW from, NEW to, HalfUnstuffed(p, a, from, to)
  PROVE  /\ from \in Int /\ to \in Int /\ from + 7 \in Int /\ to <= from + 7
         /\ to \in 7 .. LastParam(p) + 1 /\ LastParam(p) \in Int /\ LastStuffed(p) \in Int
         /\ LastParam(p) <= LastStuffed(p) /\ LastStuffed(p) + 2 <= PacketEnd(Len(p))
         /\ PacketEnd(Len(p)) \in Nat
         /\ a \in [0 .. PacketEnd(Len(p)) -> PacketBytes]
         /\ from + 7 = to + Added(p, to) /\ Added(p, to) \in Nat
         /\ HeaderEnd(p, to) => Stuffed(p, to + 1) = from + 9
         /\ ~HeaderEnd(p, to) => Stuffed(p, to + 1) = from + 8
<1>1. from \in Int /\ to \in 7 .. LastParam(p) + 1 /\ from + 7 = Stuffed(p, to) /\ Around(p, a)
  BY DEF HalfUnstuffed
<1>2. /\ LastParam(p) \in Int /\ LastStuffed(p) \in Int /\ LastParam(p) <= LastStuffed(p)
      /\ LastStuffed(p) + 2 <= PacketEnd(Len(p)) /\ PacketEnd(Len(p)) \in Nat
  BY PacketIs, HeadersFit DEF LastParam
<1>3. to \in Int
  BY <1>1, <1>2
<1>4. /\ Added(p, to) \in Nat
      /\ HeaderEnd(p, to) => Added(p, to + 1) = Added(p, to) + 1
      /\ ~HeaderEnd(p, to) => Added(p, to + 1) = Added(p, to)
  BY <1>3, AddedIs
<1>5. from + 7 = to + Added(p, to)
  BY <1>1 DEF Stuffed
<1>6. Stuffed(p, to + 1) = (to + 1) + Added(p, to + 1)
  BY DEF Stuffed
<1>7. /\ HeaderEnd(p, to) => Stuffed(p, to + 1) = from + 9
      /\ ~HeaderEnd(p, to) => Stuffed(p, to + 1) = from + 8
  <2>1. PICK d \in Nat : d = Added(p, to)
    BY <1>4
  <2> QED
    BY <1>1, <1>3, <1>4, <1>5, <1>6, <2>1
<1>8. to <= from + 7 /\ from + 7 \in Int
  <2>1. PICK d \in Nat : d = Added(p, to)
    BY <1>4
  <2> QED
    BY <1>1, <1>3, <1>5, <2>1
<1> QED
  BY <1>1, <1>2, <1>3, <1>4, <1>5, <1>7, <1>8 DEF Around

\* The byte that ends a header is taken for it, although the two before it may have been
\* overwritten.
LEMMA HeaderLooksStuffed ==
  ASSUME NEW p \in ParamLists, NEW a, NEW from \in Int, NEW to \in 8 .. LastParam(p),
         HalfUnstuffed(p, a, from, to), HeaderEnd(p, to)
  PROVE  LooksStuffed(a, from) /\ a[from + 8] = Packet(p)[to]
<1> DEFINE q == from + 7
<1>1. to \in Int /\ to <= q /\ LastParam(p) \in Int /\ q \in Int
  BY HalfUnstuffedIs
<1>2. q = to + Added(p, to) /\ Added(p, to) \in Nat
  BY HalfUnstuffedIs
<1>3. q = Stuffed(p, to)
  BY DEF HalfUnstuffed
<1>4. /\ Packet(p)[to] = FD /\ Packet(p)[to - 1] = FF /\ Packet(p)[to - 2] = FF
      /\ to \in 10 .. LastParam(p)
  BY <1>1, HeaderEndHas
<1>5. to - 1 \in 8 .. LastParam(p) /\ to - 2 \in 8 .. LastParam(p)
      /\ (to - 1) + 1 = to /\ (to - 2) + 1 = to - 1 /\ to - 1 \in Int /\ to - 2 \in Int
  BY <1>1, <1>4
<1>6. ~HeaderEnd(p, to - 1) /\ ~HeaderEnd(p, to - 2)
  BY <1>4, <1>5, HeaderEndHas, BytesDiffer
<1>7. Added(p, to - 1) = Added(p, to) /\ Added(p, to - 2) = Added(p, to)
  <2>1. Added(p, to) = Added(p, to - 1)
    BY <1>5, <1>6, AddedIs
  <2>2. Added(p, to - 1) = Added(p, to - 2)
    BY <1>5, <1>6, AddedIs
  <2> QED
    BY <2>1, <2>2
<1> HIDE DEF q
<1>8. Stuffed(p, to - 1) = q - 1 /\ Stuffed(p, to - 2) = q - 2
  <2>1. Stuffed(p, to - 1) = (to - 1) + Added(p, to) /\ Stuffed(p, to - 2) = (to - 2) + Added(p, to)
    BY <1>7 DEF Stuffed
  <2>2. PICK d \in Nat : d = Added(p, to)
    BY <1>2
  <2> QED
    BY <1>1, <1>2, <2>1, <2>2
<1>9. Unread(p, a, to, to) /\ Unread(p, a, to, to - 1) /\ Unread(p, a, to, to - 2)
  BY <1>5 DEF HalfUnstuffed
<1>10. a[q] = FD /\ a[q + 1] = FD
  <2>1. Stuffed(p, to) >= to /\ Stuffed(p, to) + 1 >= to
    BY <1>1, <1>3
  <2> QED
    BY <1>3, <1>4, <1>9, <2>1 DEF Unread
<1>11. \A i \in 8 .. to - 1 : a[i] = Packet(p)[i]
  BY DEF HalfUnstuffed
<1>12. a[q - 1] = FF
  <2>1. CASE q - 1 >= to
    BY <1>4, <1>8, <1>9, <2>1 DEF Unread
  <2>2. CASE q = to
    <3>1. q - 1 = to - 1 /\ to - 1 \in 8 .. to - 1
      BY <1>1, <1>5, <2>2
    <3> QED
      BY <1>4, <1>11, <3>1
  <2> QED
    BY <1>1, <2>1, <2>2
<1>13. a[q - 2] = FF
  <2>1. CASE q - 2 >= to
    BY <1>4, <1>8, <1>9, <2>1 DEF Unread
  <2>2. CASE q = to
    <3>1. q - 2 = to - 2 /\ to - 2 \in 8 .. to - 1
      BY <1>1, <1>5, <2>2
    <3> QED
      BY <1>4, <1>11, <3>1
  <2>3. CASE q = to + 1
    <3>1. q - 2 = to - 1 /\ to - 1 \in 8 .. to - 1
      BY <1>1, <1>5, <2>3
    <3> QED
      BY <1>4, <1>11, <3>1
  <2> QED
    BY <1>1, <2>1, <2>2, <2>3
<1>14. q + 1 = from + 8
  BY DEF q
<1> QED
  BY <1>4, <1>10, <1>12, <1>13, <1>14 DEF LooksStuffed, q

\* Only FF FD FD is taken for a header that is none.
LEMMA OtherLooksPlain ==
  ASSUME NEW p \in ParamLists, NEW a, NEW from \in Int, NEW to \in 8 .. LastParam(p),
         HalfUnstuffed(p, a, from, to), ~HeaderEnd(p, to), LooksStuffed(a, from)
  PROVE  HasFfFdFd(p)
<1> DEFINE q == from + 7
<1>1. to \in Int /\ to <= q /\ LastParam(p) \in Int /\ q \in Int /\ to >= 8 /\ to <= LastParam(p)
  BY HalfUnstuffedIs
<1>2. q = to + Added(p, to) /\ Added(p, to) \in Nat
  BY HalfUnstuffedIs
<1>3. q = Stuffed(p, to) /\ Around(p, a)
  BY DEF HalfUnstuffed
<1>4. a[q] = FD /\ a[q + 1] = FD /\ a[q - 1] = FF
  BY DEF LooksStuffed
<1>5. Stuffed(p, to + 1) = q + 1
  <2>1. from + 8 = q + 1
    OBVIOUS
  <2> QED
    BY <2>1, HalfUnstuffedIs
<1>6. \A i \in 8 .. to - 1 : a[i] = Packet(p)[i]
  BY DEF HalfUnstuffed
<1> HIDE DEF q
<1>7. Packet(p)[to] = FD
  <2>1. Unread(p, a, to, to) /\ Stuffed(p, to) >= to
    BY <1>1, <1>3 DEF HalfUnstuffed
  <2> QED
    BY <1>3, <1>4, <2>1 DEF Unread
<1>8. to + 1 \in 8 .. LastParam(p) /\ Packet(p)[to + 1] = FD
  <2>1. CASE to = LastParam(p)
    <3>1. to + 1 \in Int /\ to + 1 > LastParam(p)
      BY <1>1, <2>1
    <3>2. Stuffed(p, to + 1) = (to + 1) + LastStuffed(p) - LastParam(p)
      BY <3>1, StuffedEnd
    <3>3. q + 1 = LastStuffed(p) + 1
      BY <1>1, <1>5, <2>1, <3>2, HeadersFit
    <3> QED
      BY <1>3, <1>4, <3>3, BytesDiffer DEF Around
  <2>2. CASE to < LastParam(p)
    <3>1. to + 1 \in 8 .. LastParam(p)
      BY <1>1, <2>2
    <3>2. Unread(p, a, to, to + 1) /\ Stuffed(p, to + 1) >= to
      BY <1>1, <1>5, <3>1 DEF HalfUnstuffed
    <3> QED
      BY <1>4, <1>5, <3>1, <3>2 DEF Unread
  <2> QED
    BY <1>1, <2>1, <2>2
<1>9. to - 1 \in 8 .. LastParam(p) /\ Packet(p)[to - 1] = FF
  <2>1. CASE q = to
    <3>1. to # 8
      <4> SUFFICES ASSUME to = 8 PROVE FALSE
        OBVIOUS
      <4>1. q - 1 = 7
        BY <2>1
      <4> QED
        BY <1>3, <1>4, <4>1, BytesDiffer DEF Around
    <3>2. to - 1 \in 8 .. to - 1 /\ to - 1 \in 8 .. LastParam(p) /\ q - 1 = to - 1
      BY <1>1, <2>1, <3>1
    <3> QED
      BY <1>4, <1>6, <3>2
  <2>2. CASE q # to
    <3>1. q - 1 >= to /\ Added(p, to) # 0
      BY <1>1, <1>2, <2>2
    <3>2. to > 10
      BY <1>1, <3>1, AddedIs
    <3>3. to - 1 \in 8 .. LastParam(p) /\ to - 1 \in Int /\ (to - 1) + 1 = to
      BY <1>1, <3>2
    <3>4. Unread(p, a, to, to - 1)
      BY <3>3 DEF HalfUnstuffed
    <3>5. /\ HeaderEnd(p, to - 1) => Added(p, to) = Added(p, to - 1) + 1
          /\ ~HeaderEnd(p, to - 1) => Added(p, to) = Added(p, to - 1)
      BY <3>3, AddedIs
    <3>6. Stuffed(p, to - 1) = (to - 1) + Added(p, to - 1) /\ Added(p, to - 1) \in Nat
      BY <3>3, AddedIs DEF Stuffed
    <3>7. PICK d \in Nat : d = Added(p, to - 1)
      BY <3>6
    <3>8. ~HeaderEnd(p, to - 1)
      <4> SUFFICES ASSUME HeaderEnd(p, to - 1) PROVE FALSE
        OBVIOUS
      <4>1. Stuffed(p, to - 1) + 1 = q - 1
        BY <1>1, <1>2, <3>5, <3>6, <3>7
      <4>2. a[q - 1] = FD
        BY <3>1, <3>4, <4>1 DEF Unread
      <4> QED
        BY <1>4, <4>2, BytesDiffer
    <3>9. Stuffed(p, to - 1) = q - 1
      BY <1>1, <1>2, <3>5, <3>6, <3>7, <3>8
    <3> QED
      BY <1>4, <3>1, <3>3, <3>4, <3>9 DEF Unread
  <2> QED
    BY <2>1, <2>2
<1>10. /\ p[(to - 1) - 7] = FF /\ p[to - 7] = FD /\ p[(to + 1) - 7] = FD
  BY <1>1, <1>7, <1>8, <1>9, PacketIs
<1>11. /\ to - 8 \in 1 .. Len(p) - 2 /\ (to - 8) + 1 = to - 7 /\ (to - 8) + 2 = (to + 1) - 7
       /\ to - 8 = (to - 1) - 7
  BY <1>1, <1>8, <1>9, PacketIs
<1> QED
  BY <1>10, <1>11 DEF HasFfFdFd

\* One turn of the loop puts the next byte of the packet where it was.
LEMMA RemovingTurn ==
  ASSUME NEW p \in ParamLists, NEW a, NEW from \in Int, NEW to \in 7 .. LastParam(p),
         HalfUnstuffed(p, a, from, to), ~HasFfFdFd(p),
         NEW i, i = IF LooksStuffed(a, from) THEN from + 1 ELSE from
  PROVE  HalfUnstuffed(p, [a EXCEPT ![to] = a[i + 7]], i + 1, to + 1)
<1> DEFINE b == [a EXCEPT ![to] = a[i + 7]]
<1>1. /\ to \in Int /\ to <= from + 7 /\ LastParam(p) \in Int /\ LastStuffed(p) \in Int
      /\ LastParam(p) <= LastStuffed(p) /\ LastStuffed(p) + 2 <= PacketEnd(Len(p))
      /\ PacketEnd(Len(p)) \in Nat /\ to >= 7 /\ to <= LastParam(p)
      /\ a \in [0 .. PacketEnd(Len(p)) -> PacketBytes]
  BY HalfUnstuffedIs
<1>2. /\ HeaderEnd(p, to) => Stuffed(p, to + 1) = from + 9
      /\ ~HeaderEnd(p, to) => Stuffed(p, to + 1) = from + 8
      /\ from + 7 = Stuffed(p, to) /\ Around(p, a)
  <2>1. HeaderEnd(p, to) => Stuffed(p, to + 1) = from + 9
    BY HalfUnstuffedIs
  <2>2. ~HeaderEnd(p, to) => Stuffed(p, to + 1) = from + 8
    BY HalfUnstuffedIs
  <2>3. from + 7 = Stuffed(p, to) /\ Around(p, a)
    BY DEF HalfUnstuffed
  <2> QED
    BY <2>1, <2>2, <2>3
<1>3. /\ i \in Int /\ i + 8 = Stuffed(p, to + 1)
      /\ to # 7 => a[i + 7] = Packet(p)[to]
      /\ to = 7 => a[i + 7] = a[7]
  <2>1. CASE to = 7
    <3>1. from = 0
      <4>1. Stuffed(p, 7) = 7
        BY StuffedEnd
      <4> QED
        BY <1>2, <2>1, <4>1
    <3>2. a[from + 7] = OtherByte
      BY <1>2, <3>1 DEF Around
    <3>3. i = from
      BY <3>2, BytesDiffer DEF LooksStuffed
    <3>4. ~HeaderEnd(p, to)
      BY <1>1, <2>1, HeaderEndHas
    <3> QED
      BY <1>2, <2>1, <3>1, <3>3, <3>4
  <2>2. CASE to # 7 /\ HeaderEnd(p, to)
    <3>1. to \in 8 .. LastParam(p)
      BY <1>1, <2>2
    <3>2. LooksStuffed(a, from) /\ a[from + 8] = Packet(p)[to]
      BY <2>2, <3>1, HeaderLooksStuffed
    <3>3. i = from + 1 /\ i + 7 = from + 8 /\ i + 8 = from + 9
      BY <3>2
    <3> QED
      BY <1>2, <2>2, <3>2, <3>3
  <2>3. CASE to # 7 /\ ~HeaderEnd(p, to)
    <3>1. to \in 8 .. LastParam(p)
      BY <1>1, <2>3
    <3>2. i = from
      BY <2>3, <3>1, OtherLooksPlain
    <3>3. Unread(p, a, to, to) /\ Stuffed(p, to) >= to
      BY <1>1, <1>2, <3>1 DEF HalfUnstuffed
    <3>4. a[from + 7] = Packet(p)[to]
      BY <1>2, <3>3 DEF Unread
    <3> QED
      BY <1>2, <2>3, <3>2, <3>4
  <2> QED
    BY <2>1, <2>2, <2>3
<1>4. i + 7 \in 0 .. PacketEnd(Len(p))
  <2>1. i + 7 <= from + 8 /\ i + 7 >= 0
    BY <1>1
  <2>2. Stuffed(p, to + 1) <= LastStuffed(p) + 1
    <3>1. CASE to + 1 <= LastParam(p)
      <4>1. Stuffed(p, to + 1) <= LastStuffed(p) /\ Stuffed(p, to + 1) \in Int
        BY <1>1, <3>1, StuffedEnd
      <4> QED
        BY <1>1, <4>1
    <3>2. CASE to = LastParam(p)
      <4>1. to + 1 \in Int /\ to + 1 > LastParam(p)
        BY <1>1, <3>2
      <4>2. Stuffed(p, to + 1) = (to + 1) + LastStuffed(p) - LastParam(p)
        BY <4>1, StuffedEnd
      <4> QED
        BY <1>1, <3>2, <4>2
    <3> QED
      BY <1>1, <3>1, <3>2
  <2> QED
    BY <1>1, <1>3, <2>1, <2>2
<1>5. /\ b \in [0 .. PacketEnd(Len(p)) -> PacketBytes]
      /\ b[to] = a[i + 7] /\ \A k \in 0 .. PacketEnd(Len(p)) : k # to => b[k] = a[k]
  <2>1. to \in 0 .. PacketEnd(Len(p)) /\ a[i + 7] \in PacketBytes
    BY <1>1, <1>4
  <2> QED
    BY <1>1, <2>1
<1> HIDE DEF b
<1>6. Around(p, b)
  <2>1. 5 \in 0 .. PacketEnd(Len(p)) /\ 6 \in 0 .. PacketEnd(Len(p)) /\ 7 \in 0 .. PacketEnd(Len(p))
        /\ LastStuffed(p) + 1 \in 0 .. PacketEnd(Len(p)) /\ LastStuffed(p) + 1 # to
        /\ 5 # to /\ 6 # to
    BY <1>1
  <2>2. b[7] = a[7]
    BY <1>3, <1>5, <2>1
  <2> QED
    BY <1>2, <1>5, <2>1, <2>2 DEF Around
<1>7. \A k \in 8 .. (to + 1) - 1 : b[k] = Packet(p)[k]
  <2> SUFFICES ASSUME NEW k \in 8 .. (to + 1) - 1 PROVE b[k] = Packet(p)[k]
    OBVIOUS
  <2>1. CASE k = to
    BY <1>3, <1>5, <2>1
  <2>2. CASE k # to
    <3>1. k \in 8 .. to - 1 /\ k \in 0 .. PacketEnd(Len(p))
      BY <1>1, <2>2
    <3>2. a[k] = Packet(p)[k]
      BY <3>1 DEF HalfUnstuffed
    <3> QED
      BY <1>5, <2>2, <3>1, <3>2
  <2> QED
    BY <2>1, <2>2
<1>8. \A j \in 8 .. LastParam(p) : Unread(p, b, to + 1, j)
  <2> SUFFICES ASSUME NEW j \in 8 .. LastParam(p) PROVE Unread(p, b, to + 1, j)
    OBVIOUS
  <2>1. Unread(p, a, to, j)
    BY DEF HalfUnstuffed
  <2>2. j \in Int /\ j <= LastParam(p)
    BY <1>1
  <2>3. /\ Stuffed(p, j) \in Int /\ Stuffed(p, j) <= LastStuffed(p)
        /\ HeaderEnd(p, j) => Stuffed(p, j) + 1 <= LastStuffed(p)
    BY <2>2, StuffedEnd
  <2>4. ASSUME Stuffed(p, j) >= to + 1 PROVE b[Stuffed(p, j)] = Packet(p)[j]
    <3>1. Stuffed(p, j) >= to /\ Stuffed(p, j) \in 0 .. PacketEnd(Len(p)) /\ Stuffed(p, j) # to
      BY <1>1, <2>3, <2>4
    <3> QED
      BY <1>5, <2>1, <3>1 DEF Unread
  <2>5. ASSUME HeaderEnd(p, j), Stuffed(p, j) + 1 >= to + 1 PROVE b[Stuffed(p, j) + 1] = FD
    <3>1. Stuffed(p, j) + 1 >= to /\ Stuffed(p, j) + 1 \in 0 .. PacketEnd(Len(p))
          /\ Stuffed(p, j) + 1 # to
      BY <1>1, <2>3, <2>5
    <3>2. a[Stuffed(p, j) + 1] = FD
      BY <2>1, <2>5, <3>1 DEF Unread
    <3> QED
      BY <1>5, <3>1, <3>2
  <2> QED
    BY <2>4, <2>5 DEF Unread
<1>9. to + 1 \in 7 .. LastParam(p) + 1 /\ i + 1 \in Int /\ (i + 1) + 7 = Stuffed(p, to + 1)
  BY <1>1, <1>3
<1> QED
  BY <1>6, <1>7, <1>8, <1>9 DEF HalfUnstuffed, b

\* The loop is over with the last byte, and not before.
LEMMA RemovingEnd ==
  ASSUME NEW p \in ParamLists, NEW a, NEW from, NEW to, HalfUnstuffed(p, a, from, to)
  PROVE  /\ from + 7 <= LastStuffed(p) => to \in 7 .. LastParam(p) /\ from \in Int
         /\ ~(from + 7 <= LastStuffed(p)) => to = LastParam(p) + 1
<1>1. /\ from \in Int /\ to \in Int /\ to \in 7 .. LastParam(p) + 1
      /\ LastParam(p) \in Int /\ LastStuffed(p) \in Int
  BY HalfUnstuffedIs
<1>2. from + 7 = Stuffed(p, to)
  BY DEF HalfUnstuffed
<1>3. CASE to <= LastParam(p)
  <2>1. Stuffed(p, to) <= LastStuffed(p)
    BY <1>1, <1>3, StuffedEnd
  <2> QED
    BY <1>1, <1>2, <1>3, <2>1
<1>4. CASE to = LastParam(p) + 1
  <2>1. to > LastParam(p)
    BY <1>1, <1>4
  <2>2. Stuffed(p, to) = to + LastStuffed(p) - LastParam(p)
    BY <1>1, <2>1, StuffedEnd
  <2> QED
    BY <1>1, <1>2, <1>4, <2>2
<1> QED
  BY <1>1, <1>3, <1>4

\* What is left in front of the CRC are the parameters that were handed over.
LEMMA ParametersAreBack ==
  ASSUME NEW p \in ParamLists, NEW a, NEW from, HalfUnstuffed(p, a, from, LastParam(p) + 1),
         NEW b, \A i \in 8 .. LastParam(p) : b[i] = a[i]
  PROVE  \A i \in 1 .. Len(p) : b[i + 7] = p[i]
<1>1. /\ Len(p) \in Nat /\ LastParam(p) = Len(p) + 7 /\ LastParam(p) + 2 <= PacketEnd(Len(p))
      /\ PacketEnd(Len(p)) \in Nat /\ p \in [1 .. Len(p) -> PacketBytes]
  BY PacketIs DEF ParamLists
<1>2. a \in [0 .. PacketEnd(Len(p)) -> PacketBytes]
  BY DEF HalfUnstuffed, Around
<1>3. ASSUME NEW i \in 1 .. Len(p) PROVE b[i + 7] = p[i]
  <2>1. /\ i + 7 \in 8 .. (LastParam(p) + 1) - 1 /\ i + 7 \in 0 .. PacketEnd(Len(p))
        /\ i + 7 \in 8 .. LastParam(p) /\ (i + 7) - 7 = i
    BY <1>1
  <2>2. a[i + 7] = Packet(p)[i + 7]
    BY <2>1 DEF HalfUnstuffed
  <2>3. Packet(p)[i + 7] = p[(i + 7) - 7]
    BY <2>1, PacketIs
  <2> QED
    BY <1>2, <2>1, <2>2, <2>3
<1> QED
  BY <1>1, <1>3

-----------------------------------------------------------------------------
(***************************************************************************)
(* The invariant                                                           *)
(***************************************************************************)

Adding ==
  \/ HalfStuffed(params, packet, from_index, to_index)
  \/ /\ from_index = to_index /\ from_index \in Int /\ from_index > 7
     /\ StuffedPacket(params, packet)

Removing ==
  /\ from_index \in Nat /\ to_index \in Nat /\ to_index <= from_index + 7
  /\ HasFfFdFd(params) \/ HalfUnstuffed(params, packet, from_index, to_index)

StuffingInv ==
  /\ params \in ParamLists
  /\ packet \in [0 .. PacketEnd(Len(params)) -> PacketBytes]
  /\ stuff_phase \in {"add", "adding", "remove", "removing", "done"}
  /\ stuff_phase = "add" => packet = Packet(params) /\ packet_len = Len(params) + 3
  /\ stuff_phase \in {"adding", "remove", "removing"} => packet_len = LastStuffed(params) - 4
  /\ stuff_phase = "adding" => Adding
  /\ stuff_phase = "remove" => StuffedPacket(params, packet)
  /\ stuff_phase = "removing" => Removing
  /\ stuff_phase = "done" => HasFfFdFd(params) \/ Received = params

LEMMA StuffingInitially == ByteStuffingInit => StuffingInv
<1> SUFFICES ASSUME ByteStuffingInit PROVE StuffingInv
  OBVIOUS
<1>1. PICK n \in ParamLengths : params \in [1 .. n -> PacketBytes]
  BY DEF ByteStuffingInit
<1>2. n \in Nat
  BY ByteStuffingAssumption
<1>3. params \in ParamLists
  BY <1>1, <1>2 DEF ParamLists
<1>4. packet \in [0 .. PacketEnd(Len(params)) -> PacketBytes]
  BY <1>3, PacketIs DEF ByteStuffingInit
<1> QED
  BY <1>3, <1>4 DEF ByteStuffingInit, StuffingInv

\* What holds of the lengths in every state
LEMMA LengthsAre ==
  ASSUME StuffingInv
  PROVE  /\ params \in ParamLists /\ Len(params) \in Nat /\ PacketEnd(Len(params)) \in Nat
         /\ LastParam(params) = Len(params) + 7 /\ LastStuffed(params) \in Nat
         /\ LastParam(params) <= LastStuffed(params)
         /\ LastStuffed(params) + 2 <= PacketEnd(Len(params))
         /\ LastStuffed(params) = Len(params) + 7 + Cardinality(Headers(params))
         /\ Cardinality(Headers(params)) \in Nat /\ IsFiniteSet(Headers(params))
         /\ packet \in [0 .. PacketEnd(Len(params)) -> PacketBytes]
<1>1. params \in ParamLists /\ packet \in [0 .. PacketEnd(Len(params)) -> PacketBytes]
  BY DEF StuffingInv
<1> QED
  BY <1>1, PacketIs, HeadersFit, HeadersAre DEF LastStuffed

LEMMA AddStuffingKeeps == StuffingInv /\ AddStuffing => StuffingInv'
<1> SUFFICES ASSUME StuffingInv, AddStuffing PROVE StuffingInv'
  OBVIOUS
<1>1. /\ params' = params /\ packet' = packet /\ stuff_phase = "add"
      /\ packet = Packet(params) /\ packet_len = Len(params) + 3
  BY DEF StuffingInv, AddStuffing
<1>2. params \in ParamLists /\ packet \in [0 .. PacketEnd(Len(params)) -> PacketBytes]
  BY DEF StuffingInv
<1>3. /\ Len(params) \in Nat /\ LastParam(params) = Len(params) + 7
      /\ LastStuffed(params) \in Nat /\ Cardinality(Headers(params)) \in Nat
      /\ LastStuffed(params) = Len(params) + 7 + Cardinality(Headers(params))
      /\ IsFiniteSet(Headers(params))
  BY LengthsAre
<1>4. ASSUME Len(params) >= 5 PROVE HeadersInParams = Headers(params)
  <2>1. packet_len - 3 = Len(params)
    BY <1>1, <1>3
  <2>2. ASSUME NEW i \in 3 .. Len(params)
        PROVE  IsHeader(i + PKT_INSTRUCTION - 2)
                 <=> /\ packet[i + 5] = FF /\ packet[i + 6] = FF /\ packet[i + 7] = FD
    <3>1. /\ i + PKT_INSTRUCTION - 2 = i + 5 /\ (i + PKT_INSTRUCTION - 2) + 1 = i + 6
          /\ (i + PKT_INSTRUCTION - 2) + 2 = i + 7
      BY <1>3 DEF PKT_INSTRUCTION
    <3> QED
      BY <3>1 DEF IsHeader
  <2>3. HeadersInParams = {i \in 3 .. Len(params) : packet[i + 5] = FF /\ packet[i + 6] = FF
                                                    /\ packet[i + 7] = FD}
    BY <2>1, <2>2 DEF HeadersInParams
  <2>4. ~(Len(params) < 5)
    BY <1>3, <1>4
  <2> QED
    BY <1>1, <2>3, <2>4 DEF Headers
<1>5. CASE Headers(params) = {}
  <2>1. packet_len < 8 \/ packet_len + Cardinality(HeadersInParams) = packet_len
    <3>1. CASE Len(params) < 5
      BY <1>1, <1>3, <3>1
    <3>2. CASE Len(params) >= 5
      <4>1. Cardinality(HeadersInParams) = 0
        BY <1>4, <1>5, <3>2, FS_EmptySet
      <4> QED
        BY <1>1, <1>3, <4>1
    <3> QED
      BY <1>3, <3>1, <3>2
  <2>2. stuff_phase' = "remove" /\ packet_len' = packet_len
    BY <2>1 DEF AddStuffing
  <2>3. StuffedPacket(params, packet) /\ LastStuffed(params) = LastParam(params)
    BY <1>1, <1>2, <1>5, NothingToStuff
  <2>4. packet_len = LastStuffed(params) - 4
    BY <1>1, <1>3, <2>3
  <2> QED
    BY <1>1, <1>2, <2>2, <2>3, <2>4 DEF StuffingInv
<1>6. CASE Headers(params) # {}
  <2>1. Len(params) >= 5
    BY <1>2, <1>6, HeadersAre
  <2>2. HeadersInParams = Headers(params) /\ Cardinality(Headers(params)) # 0
    BY <1>3, <1>4, <1>6, <2>1, FS_EmptySet
  <2>3. ~(packet_len < 8 \/ packet_len + Cardinality(HeadersInParams) = packet_len)
    BY <1>1, <1>3, <2>1, <2>2
  <2>4. /\ stuff_phase' = "adding"
        /\ packet_len' = packet_len + Cardinality(Headers(params))
        /\ from_index' = packet_len + 4
        /\ to_index' = packet_len + Cardinality(Headers(params)) + 4
    BY <2>2, <2>3 DEF AddStuffing
  <2>5. /\ packet_len' = LastStuffed(params) - 4
        /\ from_index' = LastParam(params) /\ to_index' = LastStuffed(params)
    BY <1>1, <1>3, <2>4
  <2>6. HalfStuffed(params, packet, LastParam(params), LastStuffed(params))
    BY <1>1, <1>2, <1>6, StuffingBegins
  <2>7. Adding'
    BY <1>1, <2>5, <2>6 DEF Adding
  <2> QED
    BY <1>1, <1>2, <2>4, <2>5, <2>7 DEF StuffingInv
<1> QED
  BY <1>5, <1>6

LEMMA AddStuffingTurnKeeps == StuffingInv /\ AddStuffingTurn => StuffingInv'
<1> SUFFICES ASSUME StuffingInv, AddStuffingTurn PROVE StuffingInv'
  OBVIOUS
<1>1. /\ params' = params /\ packet_len' = packet_len /\ stuff_phase' = "adding"
      /\ stuff_phase = "adding" /\ to_index # from_index
  BY DEF AddStuffingTurn
<1>2. params \in ParamLists /\ packet_len = LastStuffed(params) - 4
  BY <1>1 DEF StuffingInv
<1>3. HalfStuffed(params, packet, from_index, to_index)
  BY <1>1 DEF StuffingInv, Adding
<1>4. HeaderEnd(params, from_index)
        <=> packet[from_index] = FD /\ packet[from_index - 1] = FF /\ packet[from_index - 2] = FF
  BY <1>2, <1>3, StuffingTurn
<1>5. from_index \in Int /\ to_index \in Int
  BY <1>2, <1>3, HalfStuffedIs
<1>6. CASE HeaderEnd(params, from_index) /\ to_index - 1 # from_index
  <2>1. HalfStuffed(params, [packet EXCEPT ![to_index] = FD, ![to_index - 1] = packet[from_index],
                                           ![to_index - 2] = packet[from_index - 1],
                                           ![to_index - 3] = packet[from_index - 2]],
                    from_index - 3, to_index - 4)
    BY <1>2, <1>3, <1>6, StuffingTurn
  <2>2. /\ packet' = [packet EXCEPT ![to_index] = FD, ![to_index - 1] = packet[from_index],
                                    ![to_index - 2] = packet[from_index - 1],
                                    ![to_index - 3] = packet[from_index - 2]]
        /\ from_index' = from_index - 3 /\ to_index' = to_index - 4
    BY <1>4, <1>6 DEF AddStuffingTurn
  <2>3. HalfStuffed(params, packet', from_index', to_index')
    BY <2>1, <2>2
  <2>4. packet' \in [0 .. PacketEnd(Len(params)) -> PacketBytes]
    BY <2>3 DEF HalfStuffed, Around
  <2> QED
    BY <1>1, <1>2, <2>3, <2>4 DEF StuffingInv, Adding
<1>7. CASE HeaderEnd(params, from_index) /\ to_index - 1 = from_index
  <2>1. /\ StuffedPacket(params, [packet EXCEPT ![to_index] = FD])
        /\ to_index - 1 \in Int /\ from_index > 7
    BY <1>2, <1>3, <1>7, StuffingTurn
  <2>2. /\ packet' = [packet EXCEPT ![to_index] = FD]
        /\ from_index' = from_index /\ to_index' = to_index - 1
    BY <1>4, <1>7 DEF AddStuffingTurn
  <2>3. packet' \in [0 .. PacketEnd(Len(params)) -> PacketBytes]
    BY <2>1, <2>2 DEF StuffedPacket, Around
  <2>4. Adding'
    BY <1>1, <1>5, <1>7, <2>1, <2>2 DEF Adding
  <2> QED
    BY <1>1, <1>2, <2>3, <2>4 DEF StuffingInv
<1>8. CASE ~HeaderEnd(params, from_index)
  <2>1. HalfStuffed(params, [packet EXCEPT ![to_index] = packet[from_index]],
                    from_index - 1, to_index - 1)
    BY <1>2, <1>3, <1>8, StuffingTurn
  <2>2. /\ packet' = [packet EXCEPT ![to_index] = packet[from_index]]
        /\ from_index' = from_index - 1 /\ to_index' = to_index - 1
    BY <1>4, <1>8 DEF AddStuffingTurn
  <2>3. HalfStuffed(params, packet', from_index', to_index')
    BY <2>1, <2>2
  <2>4. packet' \in [0 .. PacketEnd(Len(params)) -> PacketBytes]
    BY <2>3 DEF HalfStuffed, Around
  <2> QED
    BY <1>1, <1>2, <2>3, <2>4 DEF StuffingInv, Adding
<1> QED
  BY <1>6, <1>7, <1>8

LEMMA AddStuffingEndsKeeps == StuffingInv /\ AddStuffingEnds => StuffingInv'
<1> SUFFICES ASSUME StuffingInv, AddStuffingEnds PROVE StuffingInv'
  OBVIOUS
<1>1. /\ params' = params /\ packet' = packet /\ packet_len' = packet_len
      /\ stuff_phase = "adding" /\ stuff_phase' = "remove" /\ to_index = from_index
  BY DEF AddStuffingEnds
<1>2. /\ params \in ParamLists /\ packet_len = LastStuffed(params) - 4 /\ Adding
      /\ packet \in [0 .. PacketEnd(Len(params)) -> PacketBytes]
  BY <1>1 DEF StuffingInv
<1>3. ~HalfStuffed(params, packet, from_index, to_index)
  BY <1>1, <1>2, StuffingTurn
<1>4. StuffedPacket(params, packet)
  BY <1>2, <1>3 DEF Adding
<1> QED
  BY <1>1, <1>2, <1>4 DEF StuffingInv

LEMMA RemoveStuffingKeeps == StuffingInv /\ RemoveStuffing => StuffingInv'
<1> SUFFICES ASSUME StuffingInv, RemoveStuffing PROVE StuffingInv'
  OBVIOUS
<1>1. /\ params' = params /\ packet' = packet /\ packet_len' = packet_len
      /\ stuff_phase = "remove" /\ stuff_phase' = "removing" /\ from_index' = 0 /\ to_index' = 7
  BY DEF RemoveStuffing, PKT_INSTRUCTION
<1>2. /\ params \in ParamLists /\ packet_len = LastStuffed(params) - 4
      /\ StuffedPacket(params, packet)
      /\ packet \in [0 .. PacketEnd(Len(params)) -> PacketBytes]
  BY <1>1 DEF StuffingInv
<1>3. HalfUnstuffed(params, packet, 0, 7)
  BY <1>2, RemovingBegins
<1>4. Removing'
  BY <1>1, <1>3 DEF Removing
<1> QED
  BY <1>1, <1>2, <1>4 DEF StuffingInv

LEMMA RemoveStuffingTurnKeeps == StuffingInv /\ RemoveStuffingTurn => StuffingInv'
<1> SUFFICES ASSUME StuffingInv, RemoveStuffingTurn PROVE StuffingInv'
  OBVIOUS
<1> DEFINE i == IF LooksStuffed(packet, from_index) THEN from_index + 1 ELSE from_index
<1>1. /\ params' = params /\ packet_len' = packet_len /\ stuff_phase' = "removing"
      /\ stuff_phase = "removing" /\ from_index < packet_len - 2
  BY DEF RemoveStuffingTurn
<1>2. params \in ParamLists /\ packet_len = LastStuffed(params) - 4 /\ Removing
  BY <1>1 DEF StuffingInv
<1>3. /\ LastStuffed(params) \in Nat /\ PacketEnd(Len(params)) \in Nat
      /\ LastStuffed(params) + 2 <= PacketEnd(Len(params))
      /\ packet \in [0 .. PacketEnd(Len(params)) -> PacketBytes]
  BY LengthsAre
<1>4. from_index \in Nat /\ to_index \in Nat /\ to_index <= from_index + 7
  BY <1>2 DEF Removing
<1>5. from_index + 7 <= LastStuffed(params)
  BY <1>1, <1>2, <1>3, <1>4
<1>6. /\ packet' = [packet EXCEPT ![to_index] = packet[i + 7]]
      /\ from_index' = i + 1 /\ to_index' = to_index + 1
  BY DEF RemoveStuffingTurn, IsStuffed, LooksStuffed, PKT_INSTRUCTION
<1>7. i \in {from_index, from_index + 1}
  OBVIOUS
<1>8. packet' \in [0 .. PacketEnd(Len(params)) -> PacketBytes]
  <2>1. i + 7 \in 0 .. PacketEnd(Len(params))
    BY <1>3, <1>4, <1>5, <1>7
  <2>2. packet[i + 7] \in PacketBytes
    BY <1>3, <2>1
  <2> QED
    BY <1>3, <1>6, <2>2
<1>9. from_index' \in Nat /\ to_index' \in Nat /\ to_index' <= from_index' + 7
  BY <1>4, <1>6, <1>7
<1>10. ASSUME ~HasFfFdFd(params)
       PROVE  HalfUnstuffed(params, packet', from_index', to_index')
  <2>1. HalfUnstuffed(params, packet, from_index, to_index)
    BY <1>2, <1>10 DEF Removing
  <2>2. to_index \in 7 .. LastParam(params) /\ from_index \in Int
    BY <1>2, <1>5, <2>1, RemovingEnd
  <2>3. HalfUnstuffed(params, [packet EXCEPT ![to_index] = packet[i + 7]], i + 1, to_index + 1)
    BY <1>2, <1>10, <2>1, <2>2, RemovingTurn
  <2> QED
    BY <1>6, <2>3
<1>11. Removing'
  BY <1>1, <1>9, <1>10 DEF Removing
<1> QED
  BY <1>1, <1>2, <1>8, <1>11 DEF StuffingInv

LEMMA RemoveStuffingEndsKeeps == StuffingInv /\ RemoveStuffingEnds => StuffingInv'
<1> SUFFICES ASSUME StuffingInv, RemoveStuffingEnds PROVE StuffingInv'
  OBVIOUS
<1> DEFINE v == packet[PKT_INSTRUCTION + packet_len - 2]
           w == packet[PKT_INSTRUCTION + packet_len - 1]
<1>1. /\ params' = params /\ stuff_phase' = "done" /\ stuff_phase = "removing"
      /\ from_index >= packet_len - 2
      /\ packet' = [packet EXCEPT ![to_index] = v, ![to_index + 1] = w]
      /\ packet_len' = to_index + 2 - PKT_INSTRUCTION
  BY DEF RemoveStuffingEnds
<1>2. params \in ParamLists /\ packet_len = LastStuffed(params) - 4 /\ Removing
  BY <1>1 DEF StuffingInv
<1>3. /\ LastStuffed(params) \in Nat /\ PacketEnd(Len(params)) \in Nat /\ Len(params) \in Nat
      /\ LastStuffed(params) + 2 <= PacketEnd(Len(params))
      /\ LastParam(params) = Len(params) + 7
      /\ packet \in [0 .. PacketEnd(Len(params)) -> PacketBytes]
  BY LengthsAre
<1>4. packet' \in [0 .. PacketEnd(Len(params)) -> PacketBytes]
  <2>1. /\ PKT_INSTRUCTION + packet_len - 2 \in 0 .. PacketEnd(Len(params))
        /\ PKT_INSTRUCTION + packet_len - 1 \in 0 .. PacketEnd(Len(params))
    BY <1>2, <1>3 DEF PKT_INSTRUCTION
  <2>2. v \in PacketBytes /\ w \in PacketBytes
    BY <1>3, <2>1
  <2> HIDE DEF v, w
  <2> QED
    BY <1>1, <1>3, <2>2
<1>5. ASSUME ~HasFfFdFd(params) PROVE Received' = params
  <2>1. HalfUnstuffed(params, packet, from_index, to_index) /\ from_index \in Nat
    BY <1>2, <1>5 DEF Removing
  <2>2. ~(from_index + 7 <= LastStuffed(params))
    BY <1>1, <1>2, <1>3, <2>1
  <2>3. to_index = LastParam(params) + 1
    BY <1>2, <2>1, <2>2, RemovingEnd
  <2>4. packet_len' - 3 = Len(params)
    BY <1>1, <1>3, <2>3 DEF PKT_INSTRUCTION
  <2>5. packet' = [packet EXCEPT ![LastParam(params) + 1] = v, ![LastParam(params) + 1 + 1] = w]
    BY <1>1, <2>3
  <2>6. HalfUnstuffed(params, packet, from_index, LastParam(params) + 1)
    BY <2>1, <2>3
  <2> HIDE DEF v, w
  <2>7. \A i \in 1 .. Len(params) : packet'[i + 7] = params[i]
    <3>1. \A i \in 8 .. LastParam(params) : packet'[i] = packet[i]
      <4> SUFFICES ASSUME NEW i \in 8 .. LastParam(params) PROVE packet'[i] = packet[i]
        OBVIOUS
      <4>1. /\ i # LastParam(params) + 1 /\ i # LastParam(params) + 1 + 1
            /\ i \in 0 .. PacketEnd(Len(params))
        BY <1>3
      <4> QED
        BY <1>3, <2>5, <4>1
    <3> QED
      BY <1>2, <2>6, <3>1, ParametersAreBack
  <2>8. params \in [1 .. Len(params) -> PacketBytes]
    BY <1>2 DEF ParamLists
  <2> QED
    BY <2>4, <2>7, <2>8 DEF Received
<1> QED
  BY <1>1, <1>2, <1>4, <1>5 DEF StuffingInv

LEMMA StuffingSteps == StuffingInv /\ [ByteStuffingNext]_stuffingVars => StuffingInv'
<1> SUFFICES ASSUME StuffingInv, [ByteStuffingNext]_stuffingVars PROVE StuffingInv'
  OBVIOUS
<1>1. CASE UNCHANGED stuffingVars
  BY <1>1 DEF stuffingVars, StuffingInv, Adding, Removing, Received
<1>2. CASE ByteStuffingNext
  BY <1>2, AddStuffingKeeps, AddStuffingTurnKeeps, AddStuffingEndsKeeps, RemoveStuffingKeeps,
     RemoveStuffingTurnKeeps, RemoveStuffingEndsKeeps DEF ByteStuffingNext
<1> QED
  BY <1>1, <1>2

LEMMA StuffingInvTypeOK == StuffingInv => ByteStuffingTypeOK
<1> SUFFICES ASSUME StuffingInv PROVE ByteStuffingTypeOK
  OBVIOUS
<1>1. ASSUME stuff_phase = "adding" PROVE 7 < from_index /\ from_index <= to_index
  <2>1. CASE HalfStuffed(params, packet, from_index, to_index)
    <3>1. params \in ParamLists
      BY DEF StuffingInv
    <3>2. /\ from_index \in 10 .. LastParam(params) /\ from_index \in Int /\ to_index \in Int
          /\ LastParam(params) \in Int /\ from_index < to_index
      BY <2>1, <3>1, HalfStuffedIs
    <3> QED
      BY <3>2
  <2>2. CASE from_index = to_index /\ from_index \in Int /\ from_index > 7
    BY <2>2
  <2> QED
    BY <1>1, <2>1, <2>2 DEF StuffingInv, Adding
<1>2. ASSUME stuff_phase = "removing" PROVE to_index <= from_index + 7
  BY <1>2 DEF StuffingInv, Removing
<1> QED
  BY <1>1, <1>2 DEF StuffingInv, ByteStuffingTypeOK, PKT_INSTRUCTION

LEMMA StuffingInvHides == StuffingInv => StuffingHidesHeaders
<1> SUFFICES ASSUME StuffingInv PROVE StuffingHidesHeaders
  OBVIOUS
<1>1. ASSUME stuff_phase = "remove", Len(params) >= 5, NEW i \in 8 .. packet_len + 2, IsHeader(i)
      PROVE  packet[i + 3] = FD
  <2>1. params \in ParamLists /\ packet_len = LastStuffed(params) - 4
        /\ StuffedPacket(params, packet)
    BY <1>1 DEF StuffingInv
  <2>2. LastStuffed(params) \in Nat
    BY LengthsAre
  <2>3. i \in 8 .. LastStuffed(params) - 2
    BY <2>1, <2>2
  <2>4. packet[i] = FF /\ packet[i + 1] = FF /\ packet[i + 2] = FD
    BY <1>1 DEF IsHeader
  <2> QED
    BY <1>1, <2>1, <2>3, <2>4, HeadersAreHidden
<1>2. NoHeaderInParams
  BY <1>1 DEF NoHeaderInParams
<1>3. PlainParamsSurvive
  BY DEF StuffingInv, PlainParamsSurvive
<1> QED
  BY <1>2, <1>3 DEF StuffingHidesHeaders

\* The types hold in every reachable state: neither loop leaves the array, and the writer of
\* either never overtakes the reader, whatever the parameters are and however many they are.
THEOREM ByteStuffingTypes == ByteStuffingSpec => []ByteStuffingTypeOK
<1>1. ByteStuffingSpec => []StuffingInv
  BY StuffingInitially, StuffingSteps, PTL DEF ByteStuffingSpec
<1> QED
  BY <1>1, StuffingInvTypeOK, PTL

\* Whatever the parameters are, what goes over the line holds no header behind its own; and
\* parameters without FF FD FD come back as they were handed over.
THEOREM HeadersStayHidden == ByteStuffingSpec => []StuffingHidesHeaders
<1>1. ByteStuffingSpec => []StuffingInv
  BY StuffingInitially, StuffingSteps, PTL DEF ByteStuffingSpec
<1> QED
  BY <1>1, StuffingInvHides, PTL
=============================================================================
