---------------------------- MODULE FramesProofs ----------------------------
(***************************************************************************)
(* The codec for all of its values: what a frame becomes when it is        *)
(* written and read again.                                                 *)
(***************************************************************************)
EXTENDS Frames, TLAPS, SequenceTheorems, WellFoundedInduction

-----------------------------------------------------------------------------
(* Numbers                                                                 *)

LEMMA IsU16 == \A n : n \in U16 <=> n \in Nat /\ n < 65536
<1>1. TwoTo16 = 65536 /\ TwoTo16 \in Nat
  BY DEF TwoTo16
<1>2. \A n : n \in U16 <=> n \in Nat /\ n < TwoTo16
  <2>1. TwoTo16 \in Nat
    BY <1>1
  <2> QED
    BY <2>1 DEF U16
<1> QED
  BY <1>1, <1>2

LEMMA Halves ==
  ASSUME NEW w \in U32
  PROVE  /\ w = <<w[1], w[2]>>
         /\ w[1] \in Nat /\ w[1] < 65536
         /\ w[2] \in Nat /\ w[2] < 65536
<1>1. w[1] \in U16 /\ w[2] \in U16 /\ w = <<w[1], w[2]>>
  BY DEF U32
<1> QED
  BY <1>1, IsU16

LEMMA IsU32 ==
  ASSUME NEW a \in Nat, NEW b \in Nat, a < 65536, b < 65536
  PROVE  <<a, b>> \in U32
<1>1. a \in U16 /\ b \in U16
  BY IsU16
<1> QED
  BY <1>1 DEF U32

-----------------------------------------------------------------------------
(* Heads                                                                   *)

LEMMA U16OfOctets ==
  ASSUME NEW n \in Nat
  PROVE  PutU16(n)[1] * 256 + PutU16(n)[2] = n
BY DEF PutU16

\* Three octets hold the length modulo 2^24.
LEMMA LengthOfOctets ==
  ASSUME NEW n \in Nat
  PROVE  GetLength(PutLength(n)) = n % TwoTo24
BY DEF PutLength, GetLength, TwoTo24

LEMMA HeadOctets ==
  ASSUME NEW c, NEW f, NEW w \in U32, NEW n \in Nat
  PROVE  /\ EncodeHead(c, f, w, n)[1] = PutLength(n)[1]
         /\ EncodeHead(c, f, w, n)[2] = PutLength(n)[2]
         /\ EncodeHead(c, f, w, n)[3] = PutLength(n)[3]
         /\ EncodeHead(c, f, w, n)[4] = c /\ EncodeHead(c, f, w, n)[5] = f
         /\ EncodeHead(c, f, w, n)[6] = PutU16(w[1])[1]
         /\ EncodeHead(c, f, w, n)[7] = PutU16(w[1])[2]
         /\ EncodeHead(c, f, w, n)[8] = PutU16(w[2])[1]
         /\ EncodeHead(c, f, w, n)[9] = PutU16(w[2])[2]
BY DEF EncodeHead, PutLength, PutU32, PutU16

LEMMA KindOfCode ==
  ASSUME NEW c \in Octet
  PROVE  KindFrom(c) \in Kind
<1>1. CASE c <= 9
  <2>1. KindFrom(c) = Kinds[c + 1] /\ c + 1 \in 1..10
    BY <1>1 DEF KindFrom, Octet
  <2>2. Kinds[c + 1] \in ToSet(Kinds)
    BY <2>1 DEF Kinds, ToSet
  <2> QED
    BY <2>1, <2>2 DEF Kind
<1>2. CASE ~(c <= 9)
  BY <1>2 DEF KindFrom, Kind
<1> QED
  BY <1>1, <1>2

(* What the reader of a head makes of it: the reserved bit and all but the low
   three octets of the length are gone (head.rs, encode, parse). *)
THEOREM HeadRoundTrip ==
  ASSUME NEW c, NEW f, NEW w \in U32, NEW n \in Nat
  PROVE  ParseHead(EncodeHead(c, f, w, n)) =
           [kind |-> KindFrom(c), flags |-> f, stream |-> ClearMsb(w), length |-> n % TwoTo24]
<1> DEFINE o == EncodeHead(c, f, w, n)
<1>1. ParseHead(o) = [kind |-> KindFrom(o[4]), flags |-> o[5],
                      stream |-> ClearMsb(GetU32(o, 6)), length |-> GetLength(o)]
  BY DEF ParseHead, ParseStreamId
<1>2. GetLength(o) = n % TwoTo24
  <2>1. GetLength(o) = GetLength(PutLength(n))
    BY HeadOctets DEF GetLength
  <2> QED
    BY <2>1, LengthOfOctets
<1>3. GetU32(o, 6) = w
  <2>1. GetU16(o, 6) = w[1]
    BY HeadOctets, U16OfOctets, Halves DEF GetU16
  <2>2. GetU16(o, 8) = w[2]
    BY HeadOctets, U16OfOctets, Halves DEF GetU16
  <2> QED
    BY <2>1, <2>2, Halves DEF GetU32
<1>4. o[4] = c /\ o[5] = f
  BY HeadOctets
<1> QED
  BY <1>1, <1>2, <1>3, <1>4

\* Octets one behind the other.
LEMMA Joined ==
  ASSUME NEW p \in Seq(Octet), NEW q \in Seq(Octet)
  PROVE  /\ p \o q \in Seq(Octet)
         /\ Len(p \o q) = Len(p) + Len(q)
         /\ \A i \in 1..Len(p) : (p \o q)[i] = p[i]
         /\ \A i \in 1..Len(q) : (p \o q)[Len(p) + i] = q[i]
<1>1. /\ p \o q \in Seq(Octet)
      /\ Len(p \o q) = Len(p) + Len(q)
      /\ \A i \in 1..Len(p) + Len(q) : (p \o q)[i] = IF i <= Len(p) THEN p[i] ELSE q[i - Len(p)]
  BY ConcatProperties
<1>2. Len(p) \in Nat /\ Len(q) \in Nat
  OBVIOUS
<1> QED
  BY <1>1, <1>2

LEMMA PutU16Octets ==
  ASSUME NEW n \in Nat, n < 65536
  PROVE  PutU16(n) \in Seq(Octet) /\ Len(PutU16(n)) = 2
<1>1. n \div 256 \in Octet /\ n % 256 \in Octet
  BY DEF Octet
<1> QED
  BY <1>1 DEF PutU16

LEMMA PutU32Octets ==
  ASSUME NEW w \in U32
  PROVE  /\ PutU32(w) \in Seq(Octet) /\ Len(PutU32(w)) = 4
         /\ GetU32(PutU32(w), 1) = w
<1>1. w[1] \in Nat /\ w[1] < 65536 /\ w[2] \in Nat /\ w[2] < 65536
  BY Halves
<1>2. PutU16(w[1]) \in Seq(Octet) /\ PutU16(w[2]) \in Seq(Octet)
  BY <1>1, PutU16Octets
<1>3. Len(PutU16(w[1])) = 2 /\ Len(PutU16(w[2])) = 2
  BY <1>1, PutU16Octets
<1>4. /\ PutU32(w) \in Seq(Octet) /\ Len(PutU32(w)) = 4
      /\ PutU32(w)[1] = PutU16(w[1])[1] /\ PutU32(w)[2] = PutU16(w[1])[2]
      /\ PutU32(w)[3] = PutU16(w[2])[1] /\ PutU32(w)[4] = PutU16(w[2])[2]
  <2> DEFINE p == PutU16(w[1])
             q == PutU16(w[2])
  <2>1. p \in Seq(Octet) /\ q \in Seq(Octet) /\ Len(p) = 2 /\ Len(q) = 2 /\ PutU32(w) = p \o q
    BY <1>2, <1>3 DEF PutU32
  <2> HIDE DEF p, q
  <2>2. /\ p \o q \in Seq(Octet)
        /\ Len(p \o q) = 4
        /\ \A i \in 1..2 : (p \o q)[i] = p[i]
        /\ \A i \in 1..2 : (p \o q)[2 + i] = q[i]
    BY <2>1, Joined
  <2>3. /\ (p \o q)[1] = p[1] /\ (p \o q)[2] = p[2]
        /\ (p \o q)[3] = q[1] /\ (p \o q)[4] = q[2]
    BY <2>2
  <2> QED
    BY <2>1, <2>2, <2>3 DEF p, q
<1>5. GetU16(PutU32(w), 1) = w[1] /\ GetU16(PutU32(w), 3) = w[2]
  BY <1>1, <1>4, U16OfOctets DEF GetU16
<1> QED
  BY <1>4, <1>5, Halves DEF GetU32

LEMMA PutLengthOctets ==
  ASSUME NEW n \in Nat
  PROVE  PutLength(n) \in Seq(Octet) /\ Len(PutLength(n)) = 3
<1>1. (n \div 65536) % 256 \in Octet /\ (n \div 256) % 256 \in Octet /\ n % 256 \in Octet
  BY DEF Octet
<1> QED
  BY <1>1 DEF PutLength

LEMMA EncodeHeadOctets ==
  ASSUME NEW c \in Octet, NEW f \in Octet, NEW w \in U32, NEW n \in Nat
  PROVE  EncodeHead(c, f, w, n) \in Seq(Octet) /\ Len(EncodeHead(c, f, w, n)) = HEADER_LEN
<1> DEFINE p == PutLength(n)
           q == <<c, f>>
           r == PutU32(w)
<1>1. p \in Seq(Octet) /\ Len(p) = 3
  BY PutLengthOctets
<1>2. q \in Seq(Octet) /\ Len(q) = 2
  OBVIOUS
<1>3. r \in Seq(Octet) /\ Len(r) = 4
  BY PutU32Octets
<1>4. EncodeHead(c, f, w, n) = (p \o q) \o r
  BY DEF EncodeHead
<1> HIDE DEF p, q, r
<1>5. p \o q \in Seq(Octet) /\ Len(p \o q) = Len(p) + Len(q)
  BY <1>1, <1>2, Joined
<1>6. (p \o q) \o r \in Seq(Octet) /\ Len((p \o q) \o r) = Len(p \o q) + Len(r)
  BY <1>3, <1>5, Joined
<1> QED
  BY <1>1, <1>2, <1>3, <1>4, <1>5, <1>6 DEF HEADER_LEN

LEMMA GetU16Is ==
  ASSUME NEW p \in Seq(Octet), NEW i \in 1..Len(p) - 1
  PROVE  GetU16(p, i) \in Nat /\ GetU16(p, i) < 65536
<1>1. p[i] \in Octet /\ p[i + 1] \in Octet
  OBVIOUS
<1> DEFINE a == p[i]
           b == p[i + 1]
<1>2. a \in Octet /\ b \in Octet /\ GetU16(p, i) = a * 256 + b
  BY <1>1 DEF GetU16
<1> HIDE DEF a, b
<1> QED
  BY <1>2 DEF Octet

LEMMA GetU32Is ==
  ASSUME NEW p \in Seq(Octet), NEW i \in 1..Len(p) - 3
  PROVE  GetU32(p, i) \in U32
<1>1. i \in 1..Len(p) - 1 /\ i + 2 \in 1..Len(p) - 1
  OBVIOUS
<1> QED
  BY <1>1, GetU16Is, IsU32 DEF GetU32

LEMMA ClearMsbIs ==
  ASSUME NEW w \in U32
  PROVE  ClearMsb(w) \in U32 /\ ~MsbSet(ClearMsb(w)) /\ ClearMsb(ClearMsb(w)) = ClearMsb(w)
<1>1. w[1] \in Nat /\ w[1] < 65536 /\ w[2] \in Nat /\ w[2] < 65536
  BY Halves
<1>2. w[1] % 32768 \in Nat /\ w[1] % 32768 < 32768 /\ (w[1] % 32768) % 32768 = w[1] % 32768
  BY <1>1
<1>3. ClearMsb(w) = <<w[1] % 32768, w[2]>>
  BY DEF ClearMsb
<1> QED
  BY <1>1, <1>2, <1>3, IsU32 DEF ClearMsb, MsbSet

LEMMA ReservedClear ==
  ASSUME NEW w \in U32, ~MsbSet(w)
  PROVE  ClearMsb(w) = w
<1>1. w[1] \in Nat /\ w[1] < 32768 /\ w = <<w[1], w[2]>>
  BY Halves DEF MsbSet
<1>2. w[1] % 32768 = w[1]
  BY <1>1
<1> QED
  BY <1>1, <1>2 DEF ClearMsb

-----------------------------------------------------------------------------
(* Heads and payloads                                                      *)

LEMMA KindCodes ==
  /\ KindCode("data") = 0 /\ KindCode("headers") = 1 /\ KindCode("priority") = 2
  /\ KindCode("reset") = 3 /\ KindCode("settings") = 4 /\ KindCode("goaway") = 7
  /\ KindCode("window_update") = 8 /\ KindCode("continuation") = 9
  /\ KindCode("bin_code") = 10
BY DEF KindCode, Kinds

LEMMA KindsRead ==
  /\ KindFrom(0) = "data" /\ KindFrom(1) = "headers" /\ KindFrom(2) = "priority"
  /\ KindFrom(3) = "reset" /\ KindFrom(4) = "settings" /\ KindFrom(7) = "goaway"
  /\ KindFrom(8) = "window_update" /\ KindFrom(9) = "continuation"
  /\ KindFrom(10) = "unknown"
BY DEF KindFrom, Kinds

\* A head announces the payload behind it.
LEMMA HeadOfPayload ==
  ASSUME NEW c \in Octet, NEW f \in Octet, NEW w \in U32, NEW p, IsPayload(p)
  PROVE  /\ EncodeHead(c, f, w, Len(p)) \in Seq(Octet)
         /\ Len(EncodeHead(c, f, w, Len(p))) = HEADER_LEN
         /\ ParseHead(EncodeHead(c, f, w, Len(p))) =
              [kind |-> KindFrom(c), flags |-> f, stream |-> ClearMsb(w), length |-> Len(p)]
<1>1. Len(p) \in Nat /\ Len(p) < 16777216
  BY DEF IsPayload, TwoTo24
<1>2. Len(p) % TwoTo24 = Len(p)
  BY <1>1 DEF TwoTo24
<1> QED
  BY <1>1, <1>2, EncodeHeadOctets, HeadRoundTrip

-----------------------------------------------------------------------------
(* SETTINGS                                                                *)

IdAt(p, c)  == GetU16(p, 6 * c + 1)
ValAt(p, c) == GetU32(p, 6 * c + 3)

\* The n chunks of p are what is set among the first m settings, each once.
Encoded(p, n, s, m) ==
  /\ p \in Seq(Octet) /\ n \in 0..m /\ Len(p) = 6 * n
  /\ \A c \in 0..n - 1 : IdAt(p, c) \in 1..m /\ s[IdAt(p, c)] = {ValAt(p, c)}
  /\ \A c, d \in 0..n - 1 : IdAt(p, c) = IdAt(p, d) => c = d
  /\ \A id \in 1..m : s[id] # {} => \E c \in 0..n - 1 : IdAt(p, c) = id

LEMMA OneSetting ==
  ASSUME NEW s, IsSettings(s), NEW id \in 1..6, NEW v \in s[id]
  PROVE  /\ v \in U32 /\ s[id] = {v}
         /\ EncodeSetting(s, id) \in Seq(Octet) /\ Len(EncodeSetting(s, id)) = 6
         /\ GetU16(EncodeSetting(s, id), 1) = id
         /\ GetU32(EncodeSetting(s, id), 3) = v
<1>1. s[id] \subseteq U32 /\ \A w \in s[id] : w = v
  BY DEF IsSettings
<1>2. v \in U32 /\ s[id] = {v}
  BY <1>1
<1>3. (CHOOSE w \in s[id] : TRUE) = v
  BY <1>2
<1> DEFINE p == PutU16(id)
           q == PutU32(v)
           r == p \o q
<1>4. EncodeSetting(s, id) = r
  BY <1>2, <1>3 DEF EncodeSetting
<1>5. /\ p \in Seq(Octet) /\ Len(p) = 2 /\ p[1] * 256 + p[2] = id
  BY PutU16Octets, U16OfOctets
<1>6. q \in Seq(Octet) /\ Len(q) = 4 /\ GetU32(q, 1) = v
  BY <1>2, PutU32Octets
<1> HIDE DEF p, q
<1>7. /\ r \in Seq(Octet)
      /\ Len(r) = Len(p) + Len(q)
      /\ \A i \in 1..Len(p) : r[i] = p[i]
      /\ \A i \in 1..Len(q) : r[Len(p) + i] = q[i]
  BY <1>5, <1>6, Joined
<1> HIDE DEF r
<1>8. /\ r[1] = p[1] /\ r[1 + 1] = p[2]
      /\ r[3] = q[1] /\ r[3 + 1] = q[1 + 1]
      /\ r[3 + 2] = q[1 + 2] /\ r[(3 + 2) + 1] = q[(1 + 2) + 1]
  <2>1. 1 \in 1..Len(p) /\ 2 \in 1..Len(p)
    BY <1>5
  <2>2. \A i \in 1..4 : i \in 1..Len(q) /\ Len(p) + i = i + 2
    BY <1>5, <1>6
  <2> QED
    BY <1>7, <2>1, <2>2
<1>9. GetU16(r, 1) = id /\ GetU32(r, 3) = GetU32(q, 1)
  BY <1>5, <1>8 DEF GetU16, GetU32
<1> QED
  BY <1>2, <1>4, <1>5, <1>6, <1>7, <1>9

LEMMA AppendSetting ==
  ASSUME NEW s, IsSettings(s), NEW m \in 0..5, NEW p, NEW n, Encoded(p, n, s, m)
  PROVE  \E k : Encoded(p \o EncodeSetting(s, m + 1), k, s, m + 1)
<1>1. /\ p \in Seq(Octet) /\ n \in 0..m /\ n \in Nat /\ Len(p) = 6 * n
      /\ \A c \in 0..n - 1 : IdAt(p, c) \in 1..m /\ s[IdAt(p, c)] = {ValAt(p, c)}
      /\ \A c, d \in 0..n - 1 : IdAt(p, c) = IdAt(p, d) => c = d
      /\ \A id \in 1..m : s[id] # {} => \E c \in 0..n - 1 : IdAt(p, c) = id
  BY DEF Encoded
<1>2. CASE s[m + 1] = {}
  <2>1. EncodeSetting(s, m + 1) = <<>>
    BY <1>2 DEF EncodeSetting
  <2>2. p \o EncodeSetting(s, m + 1) = p
    BY <1>1, <2>1, ConcatEmptySeq
  <2>3. Encoded(p, n, s, m + 1)
    BY <1>1, <1>2 DEF Encoded
  <2> QED
    BY <2>2, <2>3
<1>3. CASE s[m + 1] # {}
  <2>1. PICK v : v \in s[m + 1]
    BY <1>3
  <2> DEFINE e == EncodeSetting(s, m + 1)
             r == p \o e
  <2>2. /\ s[m + 1] = {v} /\ e \in Seq(Octet) /\ Len(e) = 6
        /\ GetU16(e, 1) = m + 1 /\ GetU32(e, 3) = v
    BY <2>1, OneSetting
  <2> HIDE DEF e
  <2>3. /\ r \in Seq(Octet)
        /\ Len(r) = Len(p) + Len(e)
        /\ \A i \in 1..Len(p) : r[i] = p[i]
        /\ \A i \in 1..Len(e) : r[Len(p) + i] = e[i]
    BY <1>1, <2>2, Joined
  <2> HIDE DEF r
  <2>4. Len(r) = 6 * (n + 1)
    BY <1>1, <2>2, <2>3
  <2>5. \A c \in 0..n - 1 : IdAt(r, c) = IdAt(p, c) /\ ValAt(r, c) = ValAt(p, c)
    <3> SUFFICES ASSUME NEW c \in 0..n - 1
                 PROVE  IdAt(r, c) = IdAt(p, c) /\ ValAt(r, c) = ValAt(p, c)
      OBVIOUS
    <3>1. \A j \in 1..6 : 6 * c + j \in 1..Len(p)
      BY <1>1
    <3>2. \A j \in 1..6 : r[6 * c + j] = p[6 * c + j]
      BY <2>3, <3>1
    <3>3. /\ r[6 * c + 1] = p[6 * c + 1] /\ r[(6 * c + 1) + 1] = p[(6 * c + 1) + 1]
          /\ r[6 * c + 3] = p[6 * c + 3] /\ r[(6 * c + 3) + 1] = p[(6 * c + 3) + 1]
          /\ r[(6 * c + 3) + 2] = p[(6 * c + 3) + 2]
          /\ r[((6 * c + 3) + 2) + 1] = p[((6 * c + 3) + 2) + 1]
      BY <3>2
    <3> QED
      BY <3>3 DEF IdAt, ValAt, GetU16, GetU32
  <2>6. IdAt(r, n) = m + 1 /\ ValAt(r, n) = v
    <3>1. \A j \in 1..6 : r[6 * n + j] = e[j]
      BY <1>1, <2>2, <2>3
    <3>2. /\ r[6 * n + 1] = e[1] /\ r[(6 * n + 1) + 1] = e[2]
          /\ r[6 * n + 3] = e[3] /\ r[(6 * n + 3) + 1] = e[4]
          /\ r[(6 * n + 3) + 2] = e[5] /\ r[((6 * n + 3) + 2) + 1] = e[6]
      BY <1>1, <3>1
    <3>3. e[1] * 256 + e[2] = m + 1 /\ <<e[3] * 256 + e[4], e[5] * 256 + e[6]>> = v
      BY <2>2 DEF GetU16, GetU32
    <3> QED
      BY <3>2, <3>3 DEF IdAt, ValAt, GetU16, GetU32
  <2>7. /\ \A c \in 0..n : IdAt(r, c) \in 1..m + 1 /\ s[IdAt(r, c)] = {ValAt(r, c)}
        /\ \A c, d \in 0..n : IdAt(r, c) = IdAt(r, d) => c = d
        /\ \A id \in 1..m + 1 : s[id] # {} => \E c \in 0..n : IdAt(r, c) = id
    <3>1. \A c \in 0..n : c = n \/ c \in 0..n - 1
      BY <1>1
    <3>2. \A id \in 1..m + 1 : id = m + 1 \/ id \in 1..m
      OBVIOUS
    <3>3. \A c \in 0..n - 1 : IdAt(r, c) \in 1..m /\ IdAt(r, c) # m + 1
      BY <1>1, <2>5
    <3>4. \A c \in 0..n : IdAt(r, c) \in 1..m + 1 /\ s[IdAt(r, c)] = {ValAt(r, c)}
      BY <1>1, <2>2, <2>5, <2>6, <3>1
    <3>5. \A c, d \in 0..n : IdAt(r, c) = IdAt(r, d) => c = d
      BY <1>1, <2>5, <2>6, <3>1, <3>3
    <3>6. \A id \in 1..m + 1 : s[id] # {} => \E c \in 0..n : IdAt(r, c) = id
      BY <1>1, <2>5, <2>6, <3>2
    <3> QED
      BY <3>4, <3>5, <3>6
  <2>8. Encoded(r, n + 1, s, m + 1)
    <3>1. n + 1 \in 0..m + 1 /\ (n + 1) - 1 = n
      BY <1>1
    <3> QED
      BY <2>3, <2>4, <2>7, <3>1 DEF Encoded
  <2> QED
    BY <2>8 DEF r, e
<1> QED
  BY <1>2, <1>3

LEMMA EncodedSettings ==
  ASSUME NEW s, IsSettings(s)
  PROVE  \E n : Encoded(EncodeSettings(s), n, s, 6)
<1> DEFINE e(i) == EncodeSetting(s, i)
<1>1. e(1) \in Seq(Octet)
  <2>1. CASE s[1] = {}
    BY <2>1 DEF EncodeSetting
  <2>2. CASE s[1] # {}
    BY <2>2, OneSetting
  <2> QED
    BY <2>1, <2>2
<1>2. ASSUME NEW q, q = <<>>
      PROVE  \E n : Encoded(e(1), n, s, 1)
  <2>1. Encoded(q, 0, s, 0)
    BY <1>2 DEF Encoded
  <2>2. \E k : Encoded(q \o e(1), k, s, 1)
    <3>1. 0 + 1 = 1
      OBVIOUS
    <3> DEFINE z == 0
    <3>2. z \in 0..5 /\ z + 1 = 1 /\ Encoded(q, z, s, z)
      BY <2>1
    <3> HIDE DEF z
    <3>3. \E k : Encoded(q \o EncodeSetting(s, z + 1), k, s, z + 1)
      BY <3>2, AppendSetting
    <3> QED
      BY <3>2, <3>3
  <2>3. q \o e(1) = e(1)
    BY <1>1, <1>2, ConcatEmptySeq
  <2> QED
    BY <2>2, <2>3
<1>3. PICK n1 : Encoded(e(1), n1, s, 1)
  BY <1>2
<1>4. PICK n2 : Encoded(e(1) \o e(2), n2, s, 2)
  BY <1>3, AppendSetting
<1>5. PICK n3 : Encoded(e(1) \o e(2) \o e(3), n3, s, 3)
  BY <1>4, AppendSetting
<1>6. PICK n4 : Encoded(e(1) \o e(2) \o e(3) \o e(4), n4, s, 4)
  BY <1>5, AppendSetting
<1>7. PICK n5 : Encoded(e(1) \o e(2) \o e(3) \o e(4) \o e(5), n5, s, 5)
  BY <1>6, AppendSetting
<1>8. PICK n6 : Encoded(e(1) \o e(2) \o e(3) \o e(4) \o e(5) \o e(6), n6, s, 6)
  BY <1>7, AppendSetting
<1> QED
  BY <1>8 DEF EncodeSettings

LEMMA MaxIsIn ==
  ASSUME NEW k \in Nat, NEW T, T \subseteq 0..k, T # {}
  PROVE  Max(T) \in T
<1> DEFINE U == {k - x : x \in T}
<1>1. U \in SUBSET Nat /\ U # {}
  OBVIOUS
<1>2. PICK n \in U : \A m \in U : n <= m
  <2> DEFINE R == {ss \in Nat \X Nat : ss[1] < ss[2]}
  <2>1. IsWellFoundedOn(R, Nat)
    BY NatLessThanWellFounded DEF OpToRel
  <2> HIDE DEF U
  <2>2. \E n \in U : \A m \in U : ~(<<m, n>> \in R)
    <3> HIDE DEF R
    <3> QED
      BY <1>1, <2>1, WFMin
  <2>3. PICK n \in U : \A m \in U : ~(<<m, n>> \in R)
    BY <2>2
  <2>4. ASSUME NEW m \in U
        PROVE  n <= m
    <3>1. m \in Nat /\ n \in Nat /\ ~(<<m, n>> \in R)
      BY <1>1, <2>3
    <3>2. ~(m < n)
      BY <3>1
    <3> QED
      BY <3>1, <3>2
  <2> QED
    BY <2>4
<1>3. PICK x \in T : n = k - x
  BY <1>2
<1>4. \A y \in T : x >= y
  <2> SUFFICES ASSUME NEW y \in T
               PROVE  x >= y
    OBVIOUS
  <2>1. k - x <= k - y
    BY <1>2, <1>3
  <2>2. x \in Nat /\ y \in Nat
    OBVIOUS
  <2> QED
    BY <2>1, <2>2
<1> QED
  BY <1>4 DEF Max

\* LoadSettings, its local definitions named.
Chunks(p)   == 0..Len(p) \div 6 - 1
Of(p, id)   == {c \in Chunks(p) : IdAt(p, c) = id}
Settled(p)  == [id \in 1..6 |-> IF Of(p, id) = {} THEN {} ELSE {ValAt(p, Max(Of(p, id)))}]

LEMMA LoadSettingsIs ==
  ASSUME NEW h, NEW p
  PROVE  LoadSettings(h, p) =
           IF h.stream # Zero THEN Error("InvalidStreamId")
           ELSE IF HasBit(h.flags, ACK)
                THEN IF p = <<>> THEN SettingsAck ELSE Error("InvalidPayloadLength")
           ELSE IF Len(p) % 6 # 0 THEN Error("InvalidPayloadAckSettings")
           ELSE IF \E c \in Chunks(p) : ~ValidSetting(IdAt(p, c), ValAt(p, c))
                THEN Error("InvalidSettingValue")
           ELSE Frame("settings", 0, Zero, Settled(p))
BY DEF LoadSettings, Chunks, Of, Settled, IdAt, ValAt

LEMMA ChunkIs ==
  ASSUME NEW p \in Seq(Octet), NEW c \in Chunks(p)
  PROVE  c \in Nat /\ IdAt(p, c) \in Nat /\ ValAt(p, c) \in U32
<1>1. Len(p) \in Nat /\ c \in Nat /\ 6 * c + 6 <= Len(p)
  BY DEF Chunks
<1>2. 6 * c + 1 \in 1..Len(p) - 1 /\ 6 * c + 3 \in 1..Len(p) - 3
  BY <1>1
<1> QED
  BY <1>1, <1>2, GetU16Is, GetU32Is DEF IdAt, ValAt

LEMMA OfIs ==
  ASSUME NEW p \in Seq(Octet), NEW id, Of(p, id) # {}
  PROVE  Max(Of(p, id)) \in Chunks(p) /\ IdAt(p, Max(Of(p, id))) = id
<1>1. PICK c \in Of(p, id) : TRUE
  OBVIOUS
<1>2. Len(p) \in Nat /\ Len(p) \div 6 \in Nat /\ Len(p) \div 6 > 0
  BY <1>1 DEF Of, Chunks
<1>3. Of(p, id) \subseteq 0..Len(p) \div 6 - 1 /\ Len(p) \div 6 - 1 \in Nat
  BY <1>2 DEF Of, Chunks
<1>4. Max(Of(p, id)) \in Of(p, id)
  BY <1>3, MaxIsIn
<1> QED
  BY <1>4 DEF Of

\* All the settings, chunk by chunk.
Chunked(p, n, s) ==
  /\ p \in Seq(Octet) /\ n \in 0..6 /\ n \in Nat /\ Len(p) = 6 * n
  /\ \A c \in 0..n - 1 : IdAt(p, c) \in 1..6 /\ s[IdAt(p, c)] = {ValAt(p, c)}
  /\ \A id \in 1..6 : s[id] # {} => \E c \in 0..n - 1 : IdAt(p, c) = id

LEMMA ChunkedSettings ==
  ASSUME NEW s, IsSettings(s)
  PROVE  \E n : Encoded(EncodeSettings(s), n, s, 6) /\ Chunked(EncodeSettings(s), n, s)
<1>1. ASSUME NEW p, NEW n, Encoded(p, n, s, 6)
      PROVE  Chunked(p, n, s)
  <2>1. p \in Seq(Octet) /\ n \in 0..6 /\ Len(p) = 6 * n
    BY <1>1, Zenon DEF Encoded
  <2>2. n \in Nat
    BY <2>1
  <2>3. \A c \in 0..n - 1 : IdAt(p, c) \in 1..6 /\ s[IdAt(p, c)] = {ValAt(p, c)}
    BY <1>1, Zenon DEF Encoded
  <2>4. \A id \in 1..6 : s[id] # {} => \E c \in 0..n - 1 : IdAt(p, c) = id
    BY <1>1, Zenon DEF Encoded
  <2> QED
    BY <2>1, <2>2, <2>3, <2>4, Zenon DEF Chunked
<1> QED
  BY <1>1, EncodedSettings

(* SETTINGS come through as they were set, but for a window beyond 2^31 - 1,
   which no setter refuses and load does (settings.rs, encode, load). *)
THEOREM SettingsRoundTrip ==
  ASSUME NEW s, IsSettings(s), NEW h, h.stream = Zero, ~HasBit(h.flags, ACK)
  PROVE  LoadSettings(h, EncodeSettings(s)) =
           IF \E v \in s[4] : MsbSet(v) THEN Error("InvalidSettingValue")
           ELSE Frame("settings", 0, Zero, s)
<1> DEFINE p == EncodeSettings(s)
<1>1. PICK n : Encoded(p, n, s, 6) /\ Chunked(p, n, s)
  BY ChunkedSettings
<1> HIDE DEF p
<1>2. /\ p \in Seq(Octet) /\ n \in 0..6 /\ n \in Nat /\ Len(p) = 6 * n
      /\ \A c \in 0..n - 1 : IdAt(p, c) \in 1..6 /\ s[IdAt(p, c)] = {ValAt(p, c)}
      /\ \A id \in 1..6 : s[id] # {} => \E c \in 0..n - 1 : IdAt(p, c) = id
  BY <1>1, Zenon DEF Chunked
<1>3. Len(p) % 6 = 0 /\ Chunks(p) = 0..n - 1
  BY <1>2 DEF Chunks
<1>4. (\E c \in Chunks(p) : ~ValidSetting(IdAt(p, c), ValAt(p, c)))
        <=> \E v \in s[4] : MsbSet(v)
  <2>1. ASSUME NEW c \in Chunks(p), ~ValidSetting(IdAt(p, c), ValAt(p, c))
        PROVE  \E v \in s[4] : MsbSet(v)
    <3>1. IdAt(p, c) \in 1..6 /\ ValAt(p, c) \in s[IdAt(p, c)]
      BY <1>2, <1>3
    <3>2. IdAt(p, c) \notin {2, 5}
      BY <2>1, <3>1 DEF IsSettings
    <3>3. IdAt(p, c) = 4 /\ MsbSet(ValAt(p, c))
      BY <2>1, <3>1, <3>2 DEF ValidSetting
    <3> QED
      BY <3>1, <3>3
  <2>2. ASSUME NEW v \in s[4], MsbSet(v)
        PROVE  \E c \in Chunks(p) : ~ValidSetting(IdAt(p, c), ValAt(p, c))
    <3>1. PICK c \in Chunks(p) : IdAt(p, c) = 4
      BY <1>2, <1>3
    <3>2. ValAt(p, c) = v
      BY <1>2, <1>3, <3>1
    <3> QED
      BY <2>2, <3>1, <3>2 DEF ValidSetting
  <2> QED
    BY <2>1, <2>2
<1>5. Settled(p) = s
  <2>1. s = [id \in 1..6 |-> s[id]]
    BY DEF IsSettings
  <2>2. ASSUME NEW id \in 1..6
        PROVE  s[id] = IF Of(p, id) = {} THEN {} ELSE {ValAt(p, Max(Of(p, id)))}
    <3>1. CASE Of(p, id) = {}
      BY <1>2, <1>3, <3>1 DEF Of
    <3>2. CASE Of(p, id) # {}
      BY <1>2, <1>3, <3>2, OfIs
    <3> QED
      BY <3>1, <3>2
  <2> QED
    BY <2>1, <2>2 DEF Settled
<1>6. LoadSettings(h, p) =
        IF \E c \in Chunks(p) : ~ValidSetting(IdAt(p, c), ValAt(p, c))
        THEN Error("InvalidSettingValue") ELSE Frame("settings", 0, Zero, Settled(p))
  BY <1>3, LoadSettingsIs
<1> QED
  BY <1>4, <1>5, <1>6 DEF p

LEMMA ShortPayload ==
  ASSUME NEW p \in Seq(Octet), Len(p) < 256
  PROVE  IsPayload(p)
BY SMT DEF IsPayload, TwoTo24

\* What a SETTINGS frame fills of the reader's buffer.
LEMMA SettingsPayload ==
  ASSUME NEW s, IsSettings(s)
  PROVE  /\ IsPayload(EncodeSettings(s)) /\ Len(EncodeSettings(s)) <= 36
         /\ EncodeSettings(s) = <<>> <=> s = NoSettings
<1> DEFINE p == EncodeSettings(s)
<1>1. PICK n : Encoded(p, n, s, 6) /\ Chunked(p, n, s)
  BY ChunkedSettings
<1> HIDE DEF p
<1>2. /\ p \in Seq(Octet) /\ n \in 0..6 /\ n \in Nat /\ Len(p) = 6 * n
      /\ \A c \in 0..n - 1 : IdAt(p, c) \in 1..6 /\ s[IdAt(p, c)] = {ValAt(p, c)}
      /\ \A id \in 1..6 : s[id] # {} => \E c \in 0..n - 1 : IdAt(p, c) = id
  BY <1>1, Zenon DEF Chunked
<1>3. IsPayload(p) /\ Len(p) <= 36
  BY <1>2, ShortPayload
<1>4. ASSUME p = <<>>
      PROVE  s = NoSettings
  <2>1. n = 0
    BY <1>2, <1>4
  <2>2. \A id \in 1..6 : s[id] = {}
    BY <1>2, <2>1
  <2>3. s = [id \in 1..6 |-> s[id]]
    BY DEF IsSettings
  <2> QED
    BY <2>2, <2>3 DEF NoSettings
<1>5. ASSUME s = NoSettings
      PROVE  p = <<>>
  <2>1. \A id \in 1..6 : s[id] = {}
    BY <1>5 DEF NoSettings
  <2>2. ~(0 \in 0..n - 1)
    BY <1>2, <2>1
  <2>3. Len(p) = 0
    BY <1>2, <2>2
  <2> QED
    BY <1>2, <2>3
<1> QED
  BY <1>3, <1>4, <1>5 DEF p

\* What load makes of any payload: an error, or settings it would take again.
LEMMA LoadedSettings ==
  ASSUME NEW h, NEW p \in Seq(Octet)
  PROVE  \/ LoadSettings(h, p) \in
              {Error(e) : e \in {"InvalidStreamId", "InvalidPayloadLength",
                                 "InvalidPayloadAckSettings", "InvalidSettingValue"}}
         \/ LoadSettings(h, p) = SettingsAck
         \/ \E s : /\ LoadSettings(h, p) = Frame("settings", 0, Zero, s)
                  /\ IsSettings(s) /\ \A v \in s[4] : ~MsbSet(v)
<1> SUFFICES ASSUME LoadSettings(h, p) = Frame("settings", 0, Zero, Settled(p)),
                    \A c \in Chunks(p) : ValidSetting(IdAt(p, c), ValAt(p, c))
             PROVE  IsSettings(Settled(p)) /\ \A v \in Settled(p)[4] : ~MsbSet(v)
  BY LoadSettingsIs
<1> DEFINE s == Settled(p)
<1>1. ASSUME NEW id \in 1..6, NEW v \in s[id]
      PROVE  v \in U32 /\ s[id] = {v} /\ ValidSetting(id, v)
  <2>1. s[id] = IF Of(p, id) = {} THEN {} ELSE {ValAt(p, Max(Of(p, id)))}
    BY DEF Settled
  <2>2. Of(p, id) # {} /\ v = ValAt(p, Max(Of(p, id))) /\ s[id] = {v}
    BY <2>1
  <2>3. Max(Of(p, id)) \in Chunks(p) /\ IdAt(p, Max(Of(p, id))) = id
    BY <2>2, OfIs
  <2> QED
    BY <2>2, <2>3, ChunkIs
<1>2. s \in [1..6 -> SUBSET U32]
  <2>1. s = [id \in 1..6 |-> s[id]]
    BY DEF Settled
  <2>2. \A id \in 1..6 : s[id] \in SUBSET U32
    BY <1>1
  <2> HIDE DEF s
  <2> QED
    BY <2>1, <2>2
<1> HIDE DEF s
<1>3. \A id \in 1..6 : \A v, w \in s[id] : v = w
  BY <1>1
<1>4. \A id \in {2, 5} : \A v \in s[id] : ValidSetting(id, v)
  BY <1>1
<1>5. \A v \in s[4] : ~MsbSet(v)
  BY <1>1 DEF ValidSetting
<1> QED
  BY <1>2, <1>3, <1>4, <1>5 DEF IsSettings, s

-----------------------------------------------------------------------------
(* The other payloads                                                      *)

LEMMA FlagsLoaded ==
  ASSUME NEW b \in Octet
  PROVE  /\ DataFlags(b) \in Octet /\ DataFlags(DataFlags(b)) = DataFlags(b)
         /\ HasBit(DataFlags(b), PADDED) <=> HasBit(b, PADDED)
<1>1. DataFlags(b) \in {0, 1, 8, 9}
  BY DEF DataFlags, END_STREAM, PADDED
<1>2. \A f \in {0, 1, 8, 9} : DataFlags(f) = f
  BY DEF DataFlags, END_STREAM, PADDED, HasBit
<1>3. HasBit(DataFlags(b), PADDED) <=> HasBit(b, PADDED)
  BY DEF DataFlags, END_STREAM, PADDED, HasBit
<1> QED
  BY <1>1, <1>2, <1>3 DEF Octet

LEMMA BitsOfFlags ==
  /\ ~HasBit(0, ACK) /\ HasBit(ACK, ACK) /\ ~HasBit(0, PADDED)
  /\ DataFlags(0) = 0 /\ 0 \in Octet /\ ACK \in Octet /\ END_HEADERS \in Octet
BY DEF HasBit, ACK, PADDED, DataFlags, END_STREAM, END_HEADERS, Octet

LEMMA ZeroStream == Zero \in U32 /\ ClearMsb(Zero) = Zero /\ ~MsbSet(Zero)
<1>1. Zero \in U32 /\ ~MsbSet(Zero)
  BY IsU32 DEF Zero, MsbSet
<1> QED
  BY <1>1, ReservedClear

LEMMA SetMsbIs ==
  ASSUME NEW w \in U32
  PROVE  SetMsb(w) \in U32 /\ MsbSet(SetMsb(w)) /\ ClearMsb(SetMsb(w)) = ClearMsb(w)
<1>1. w[1] \in Nat /\ w[1] < 65536 /\ w[2] \in Nat /\ w[2] < 65536
  BY Halves
<1> DEFINE m == w[1] % 32768
<1>2. m \in Nat /\ m < 32768
  BY <1>1
<1>3. SetMsb(w) = <<m + 32768, w[2]>> /\ ClearMsb(w) = <<m, w[2]>>
  BY DEF SetMsb, ClearMsb
<1> HIDE DEF m
<1>4. m + 32768 \in Nat /\ m + 32768 < 65536 /\ m + 32768 >= 32768
      /\ (m + 32768) % 32768 = m
  BY <1>2
<1>5. SetMsb(w) \in U32
  BY <1>1, <1>3, <1>4, IsU32
<1> QED
  BY <1>3, <1>4, <1>5 DEF ClearMsb, MsbSet

LEMMA GetU32Joined ==
  ASSUME NEW p \in Seq(Octet), NEW q \in Seq(Octet)
  PROVE  /\ \A i \in 1..Len(p) - 3 : GetU32(p \o q, i) = GetU32(p, i)
         /\ \A i \in 1..Len(q) - 3 : GetU32(p \o q, Len(p) + i) = GetU32(q, i)
<1> DEFINE r == p \o q
<1>1. /\ \A i \in 1..Len(p) : r[i] = p[i]
      /\ \A i \in 1..Len(q) : r[Len(p) + i] = q[i]
  BY Joined
<1> HIDE DEF r
<1>2. ASSUME NEW i \in 1..Len(p) - 3
      PROVE  GetU32(r, i) = GetU32(p, i)
  <2>1. /\ i \in 1..Len(p) /\ i + 1 \in 1..Len(p) /\ i + 2 \in 1..Len(p)
        /\ (i + 2) + 1 \in 1..Len(p)
    OBVIOUS
  <2>2. /\ r[i] = p[i] /\ r[i + 1] = p[i + 1] /\ r[i + 2] = p[i + 2]
        /\ r[(i + 2) + 1] = p[(i + 2) + 1]
    BY <1>1, <2>1
  <2> QED
    BY <2>2 DEF GetU32, GetU16
<1>3. ASSUME NEW i \in 1..Len(q) - 3
      PROVE  GetU32(r, Len(p) + i) = GetU32(q, i)
  <2> DEFINE j == Len(p) + i
  <2>1. /\ i \in 1..Len(q) /\ i + 1 \in 1..Len(q) /\ i + 2 \in 1..Len(q)
        /\ (i + 2) + 1 \in 1..Len(q)
        /\ Len(p) + (i + 1) = j + 1 /\ Len(p) + (i + 2) = j + 2
        /\ Len(p) + ((i + 2) + 1) = (j + 2) + 1
    OBVIOUS
  <2>2. /\ r[j] = q[i] /\ r[j + 1] = q[i + 1] /\ r[j + 2] = q[i + 2]
        /\ r[(j + 2) + 1] = q[(i + 2) + 1]
    BY <1>1, <2>1
  <2> HIDE DEF j
  <2>3. GetU32(r, j) = GetU32(q, i)
    BY <2>2 DEF GetU32, GetU16
  <2> QED
    BY <2>3 DEF j
<1> QED
  BY <1>2, <1>3 DEF r

LEMMA U32Payload ==
  ASSUME NEW w \in U32
  PROVE  IsPayload(PutU32(w)) /\ Len(PutU32(w)) = 4 /\ GetU32(PutU32(w), 1) = w
<1>1. PutU32(w) \in Seq(Octet) /\ Len(PutU32(w)) = 4 /\ GetU32(PutU32(w), 1) = w
  BY PutU32Octets
<1>2. Len(PutU32(w)) < 256
  BY <1>1
<1> QED
  BY <1>1, <1>2, ShortPayload

LEMMA ResetRoundTrip ==
  ASSUME NEW w \in U32, NEW h
  PROVE  LoadReset(h, PutU32(w)) = Frame("reset", 0, h.stream, w)
BY U32Payload DEF LoadReset

LEMMA WindowUpdateRoundTrip ==
  ASSUME NEW w \in U32, NEW h
  PROVE  LoadWindowUpdate(h, PutU32(w)) =
           IF ClearMsb(w) = Zero THEN Error("InvalidWindowUpdateValue")
           ELSE Frame("window_update", 0, h.stream, ClearMsb(w))
BY U32Payload DEF LoadWindowUpdate

LEMMA GoAwayRoundTrip ==
  ASSUME NEW a \in U32, NEW b \in U32
  PROVE  /\ IsPayload(PutU32(a) \o PutU32(b))
         /\ LoadGoAway(PutU32(a) \o PutU32(b)) =
              Frame("goaway", 0, Zero, [last |-> ClearMsb(a), reason |-> b])
<1> DEFINE p == PutU32(a)
           q == PutU32(b)
           r == p \o q
<1>1. p \in Seq(Octet) /\ Len(p) = 4 /\ GetU32(p, 1) = a
  BY PutU32Octets
<1>2. q \in Seq(Octet) /\ Len(q) = 4 /\ GetU32(q, 1) = b
  BY PutU32Octets
<1> HIDE DEF p, q
<1>3. /\ r \in Seq(Octet) /\ Len(r) = Len(p) + Len(q)
      /\ \A i \in 1..Len(p) - 3 : GetU32(r, i) = GetU32(p, i)
      /\ \A i \in 1..Len(q) - 3 : GetU32(r, Len(p) + i) = GetU32(q, i)
  BY <1>1, <1>2, Joined, GetU32Joined
<1> HIDE DEF r
<1>4. 1 \in 1..Len(p) - 3 /\ 1 \in 1..Len(q) - 3 /\ Len(p) + 1 = 5 /\ Len(r) = 8
  BY <1>1, <1>2, <1>3
<1>5. GetU32(r, 1) = a /\ GetU32(r, 5) = b
  BY <1>1, <1>2, <1>3, <1>4
<1>6. LoadGoAway(r) = Frame("goaway", 0, Zero, [last |-> ClearMsb(a), reason |-> b])
  BY <1>4, <1>5 DEF LoadGoAway, ParseStreamId
<1>7. IsPayload(r)
  <2>1. Len(r) < 256
    BY <1>4
  <2> QED
    BY <1>3, <2>1, ShortPayload
<1> QED
  BY <1>6, <1>7 DEF p, q, r

LEMMA PriorityRoundTrip ==
  ASSUME NEW d, NEW w \in U32, IsDependency(d, w), NEW h
  PROVE  /\ IsPayload(EncodeDependency(d))
         /\ h.stream = ClearMsb(w) =>
              LoadPriority(h, EncodeDependency(d)) =
                IF d.dependency = ClearMsb(w) THEN Error("InvalidDependencyId")
                ELSE Frame("priority", 0, h.stream, d)
<1> DEFINE v == IF d.exclusive THEN SetMsb(d.dependency) ELSE d.dependency
           p == PutU32(v)
           q == <<d.weight>>
           r == p \o q
<1>1. /\ d = [dependency |-> d.dependency, weight |-> d.weight, exclusive |-> d.exclusive]
      /\ d.dependency \in U32 /\ d.weight \in Octet /\ d.exclusive \in BOOLEAN
      /\ ~MsbSet(d.dependency)
  BY DEF IsDependency
<1>2. v \in U32 /\ ClearMsb(v) = d.dependency /\ (MsbSet(v) <=> d.exclusive)
  <2>1. CASE d.exclusive
    BY <1>1, <2>1, SetMsbIs, ReservedClear
  <2>2. CASE ~d.exclusive
    <3>1. v = d.dependency
      BY <2>2
    <3> HIDE DEF v
    <3> QED
      BY <1>1, <2>2, <3>1, ReservedClear
  <2> QED
    BY <2>1, <2>2
<1>3. EncodeDependency(d) = r
  BY DEF EncodeDependency
<1> HIDE DEF v
<1>4. p \in Seq(Octet) /\ Len(p) = 4 /\ GetU32(p, 1) = v
  BY <1>2, PutU32Octets
<1>5. q \in Seq(Octet) /\ Len(q) = 1 /\ q[1] = d.weight
  BY <1>1
<1> HIDE DEF p, q
<1>6. /\ r \in Seq(Octet) /\ Len(r) = Len(p) + Len(q)
      /\ \A i \in 1..Len(p) - 3 : GetU32(r, i) = GetU32(p, i)
      /\ \A i \in 1..Len(q) : r[Len(p) + i] = q[i]
  BY <1>4, <1>5, Joined, GetU32Joined
<1> HIDE DEF r
<1>7. 1 \in 1..Len(p) - 3 /\ 1 \in 1..Len(q) /\ Len(p) + 1 = 5 /\ Len(r) = 5
  BY <1>4, <1>5, <1>6
<1>8. GetU32(r, 1) = v /\ r[5] = d.weight
  BY <1>4, <1>5, <1>6, <1>7
<1>9. LoadDependency(r) = d
  <2>1. MsbSet(v) = d.exclusive
    BY <1>1, <1>2 DEF MsbSet
  <2>2. LoadDependency(r) =
          [dependency |-> ClearMsb(v), weight |-> d.weight, exclusive |-> MsbSet(v)]
    BY <1>8 DEF LoadDependency, ParseStreamId
  <2> QED
    BY <1>1, <1>2, <2>1, <2>2
<1>10. h.stream = ClearMsb(w) =>
         LoadPriority(h, r) = IF d.dependency = ClearMsb(w) THEN Error("InvalidDependencyId")
                              ELSE Frame("priority", 0, h.stream, d)
  BY <1>1, <1>7, <1>9 DEF LoadPriority
<1>11. IsPayload(r)
  <2>1. Len(r) < 256
    BY <1>7
  <2> QED
    BY <1>6, <2>1, ShortPayload
<1> QED
  BY <1>3, <1>10, <1>11
=============================================================================
