---------------------------- MODULE StreamsProofs ----------------------------
(***************************************************************************)
(* Identifiers and lengths on the wire, for all of their values: whatever  *)
(* identifier an application starts with, payloads of any length, any      *)
(* number of frames.                                                       *)
(***************************************************************************)
EXTENDS Streams, FramesProofs

-----------------------------------------------------------------------------
(* Numbers                                                                 *)

LEMMA NoCarry ==
  ASSUME NEW n \in Nat, n < 65536
  PROVE  n \div 65536 = 0 /\ n % 65536 = n
OBVIOUS

LEMMA Carry ==
  ASSUME NEW n \in Nat, 65536 <= n, n < 131072
  PROVE  n \div 65536 = 1 /\ n % 65536 = n - 65536
OBVIOUS

LEMMA Parity ==
  ASSUME NEW n \in Nat
  PROVE  /\ (n + 2) % 2 = n % 2
         /\ n >= 65534 => (n - 65534) % 2 = n % 2
OBVIOUS

-----------------------------------------------------------------------------
(* Identifiers                                                             *)

LEMMA BelowIs ==
  ASSUME NEW v \in U32, NEW w \in U32
  PROVE  Below(v, w) <=> v[1] < w[1] \/ (v[1] = w[1] /\ v[2] < w[2])
<1>1. /\ v = <<v[1], v[2]>> /\ w = <<w[1], w[2]>>
      /\ v[1] \in Nat /\ v[2] \in Nat /\ w[1] \in Nat /\ w[2] \in Nat
  BY Halves
<1>2. v = w <=> v[1] = w[1] /\ v[2] = w[2]
  BY <1>1
<1> QED
  BY <1>1, <1>2 DEF Below, AtMost

LEMMA BelowTransitive ==
  ASSUME NEW u \in U32, NEW v \in U32, NEW w \in U32, AtMost(u, v), Below(v, w)
  PROVE  Below(u, w)
<1>1. /\ u[1] \in Nat /\ u[2] \in Nat /\ v[1] \in Nat /\ v[2] \in Nat
      /\ w[1] \in Nat /\ w[2] \in Nat
  BY Halves
<1> QED
  BY <1>1, BelowIs DEF AtMost

LEMMA PlusTwoIs ==
  ASSUME NEW w \in U32, NEW d, NEW e,
         (w[2] + 2) \div 65536 = d, (w[2] + 2) % 65536 = e
  PROVE  PlusTwo(w) = <<(w[1] + d) % 65536, e>>
BY DEF PlusTwo

\* Below the reserved bit next_id does not overflow.
LEMMA PlusTwoHalves ==
  ASSUME NEW w \in U32, ~MsbSet(w)
  PROVE  PlusTwo(w) = IF w[2] < 65534 THEN <<w[1], w[2] + 2>>
                      ELSE <<w[1] + 1, w[2] - 65534>>
<1>1. /\ w[1] \in Nat /\ w[1] < 32768 /\ w[2] \in Nat /\ w[2] < 65536
  BY Halves DEF MsbSet
<1>2. CASE w[2] < 65534
  <2>1. (w[2] + 2) \div 65536 = 0 /\ (w[2] + 2) % 65536 = w[2] + 2
    BY <1>1, <1>2, NoCarry
  <2>2. (w[1] + 0) % 65536 = w[1]
    BY <1>1, NoCarry
  <2> QED
    BY <1>2, <2>1, <2>2, PlusTwoIs
<1>3. CASE ~(w[2] < 65534)
  <2>1. (w[2] + 2) \div 65536 = 1 /\ (w[2] + 2) % 65536 = w[2] - 65534
    <3>1. /\ w[2] + 2 \in Nat /\ 65536 <= w[2] + 2 /\ w[2] + 2 < 131072
          /\ (w[2] + 2) - 65536 = w[2] - 65534
      BY <1>1, <1>3
    <3> QED
      BY <3>1, Carry
  <2>2. (w[1] + 1) % 65536 = w[1] + 1
    BY <1>1, NoCarry
  <2> QED
    BY <1>3, <2>1, <2>2, PlusTwoIs
<1> QED
  BY <1>2, <1>3

\* The next identifier is of the same kind, larger, and survives the wire.
LEMMA NextIdFacts ==
  ASSUME NEW w \in U32, ~MsbSet(w), NEW v \in NextId(w)
  PROVE  v \in U32 /\ ~MsbSet(v) /\ (Odd(v) <=> Odd(w)) /\ Below(w, v) /\ v # Zero
<1>1. w[1] \in Nat /\ w[1] < 32768 /\ w[2] \in Nat /\ w[2] < 65536
  BY Halves DEF MsbSet
<1>2. v = PlusTwo(w) /\ AtMost(v, MaxId)
  BY DEF NextId
<1>3. \/ w[2] < 65534 /\ v = <<w[1], w[2] + 2>>
      \/ w[2] >= 65534 /\ v = <<w[1] + 1, w[2] - 65534>>
  BY <1>1, <1>2, PlusTwoHalves
<1>4. /\ v[1] \in Nat /\ v[2] \in Nat /\ v[2] < 65536 /\ v = <<v[1], v[2]>>
      /\ w[1] < v[1] \/ (w[1] = v[1] /\ w[2] < v[2])
      /\ v[2] = w[2] + 2 \/ (w[2] >= 65534 /\ v[2] = w[2] - 65534)
  BY <1>1, <1>3
<1>5. v[1] < 32768
  BY <1>2, <1>4 DEF AtMost, MaxId
<1>6. v \in U32
  BY <1>4, <1>5, IsU32
<1>7. v[2] % 2 = w[2] % 2
  BY <1>1, <1>4, Parity
<1>8. v # Zero
  BY <1>1, <1>4 DEF Zero
<1> QED
  BY <1>4, <1>5, <1>6, <1>7, <1>8, BelowIs DEF MsbSet, Odd

\* There is none only after the last of either kind.
LEMMA NoNextId ==
  ASSUME NEW w \in U32, ~MsbSet(w), NextId(w) = {}
  PROVE  w \in {MaxId, <<32767, 65534>>}
<1>1. /\ w[1] \in Nat /\ w[1] < 32768 /\ w[2] \in Nat /\ w[2] < 65536
      /\ w = <<w[1], w[2]>>
  BY Halves DEF MsbSet
<1>2. ~AtMost(PlusTwo(w), <<32767, 65535>>)
  BY DEF NextId, MaxId
<1>3. w[2] >= 65534
  <2> SUFFICES ASSUME w[2] < 65534 PROVE FALSE
    BY <1>1
  <2>1. PlusTwo(w) = <<w[1], w[2] + 2>>
    BY PlusTwoHalves
  <2> QED
    BY <1>1, <1>2, <2>1 DEF AtMost
<1>4. w[1] = 32767
  <2> SUFFICES ASSUME w[1] < 32767 PROVE FALSE
    BY <1>1
  <2>1. PlusTwo(w) = <<w[1] + 1, w[2] - 65534>>
    BY <1>1, <1>3, PlusTwoHalves
  <2> QED
    BY <1>1, <1>2, <1>3, <2>1 DEF AtMost
<1>5. w[2] = 65534 \/ w[2] = 65535
  BY <1>1, <1>3
<1> QED
  BY <1>1, <1>4, <1>5 DEF MaxId

-----------------------------------------------------------------------------
(* The steps                                                               *)

LEMMA AppendFacts ==
  ASSUME NEW S, NEW s \in Seq(S), NEW e \in S
  PROVE  /\ Append(s, e) \in Seq(S)
         /\ Len(Append(s, e)) = Len(s) + 1
         /\ \A i \in 1..Len(s) : Append(s, e)[i] = s[i]
         /\ Append(s, e)[Len(s) + 1] = e
         /\ Len(s) \in Nat
OBVIOUS

LEMMA SentTypes ==
  ASSUME Typed
  PROVE  /\ \A i \in 1..Len(sent) : sent[i].stream \in U32 /\ sent[i].length \in Nat
         /\ \A i \in 1..Len(seen) : seen[i].stream \in U32 /\ seen[i].length \in Nat
         /\ Len(sent) \in Nat /\ Len(seen) \in Nat
<1>1. sent \in Seq(Frame32) /\ seen \in Seq(Frame32)
  BY DEF Typed
<1>2. \A f \in Frame32 : f.stream \in U32 /\ f.length \in Nat
  BY DEF Frame32
<1>3. ASSUME NEW q \in Seq(Frame32)
      PROVE  Len(q) \in Nat /\ \A i \in 1..Len(q) : q[i] \in Frame32
  OBVIOUS
<1> QED
  BY <1>1, <1>2, <1>3

\* Data::new panics for ZERO alone.
LEMMA PanicsOnZero == NewData(last, <<>>) = Panic <=> last = Zero
BY DEF NewData, Panic, Frame

LEMMA StartStep ==
  ASSUME IInv, NEW w \in Starts, StartAt(w)
  PROVE  IInv'
<1>1. w \in U32 /\ last \in U32
  BY StreamsAssumption DEF IInv, Typed
<1>2. /\ sent = <<>> /\ UNCHANGED <<end, sent, seen>>
      /\ \/ state' = "panicked" /\ last' = last
         \/ state' = "fresh" /\ last' = w /\ Own(w)
  BY DEF StartAt, IInv, SentInOrder, Own
<1>3. Typed'
  BY <1>1, <1>2 DEF IInv, Typed
<1>4. LastIsOwn' /\ ExhaustedAtTheEnd'
  BY <1>2 DEF LastIsOwn, Own, OwnStart, ExhaustedAtTheEnd
<1>5. Len(sent) = 0 /\ Len(sent') = 0
  BY <1>2
<1>6. SentInOrder'
  BY <1>2, <1>5 DEF SentInOrder
<1>7. SeenIsSent'
  BY <1>2 DEF IInv, SeenIsSent
<1> QED
  BY <1>3, <1>4, <1>6, <1>7 DEF IInv

LEMMA AllocateStep ==
  ASSUME IInv, Allocate
  PROVE  IInv'
<1>1. /\ last \in U32 /\ ~MsbSet(last) /\ OwnStart(last)
      /\ state = "used" \/ (state = "fresh" /\ last = Zero)
      /\ UNCHANGED <<end, sent, seen>>
  BY DEF Allocate, IInv, Typed, LastIsOwn, Own
<1>2. CASE NextId(last) = {} /\ state' = "exhausted" /\ UNCHANGED last
  <2>1. last \in {MaxId, <<32767, 65534>>}
    BY <1>1, <1>2, NoNextId
  <2> QED
    BY <1>1, <1>2, <2>1 DEF IInv, Typed, LastIsOwn, Own, OwnStart, SentInOrder, SeenIsSent,
       ExhaustedAtTheEnd
<1>3. CASE last' \in NextId(last) /\ state' = "fresh"
  <2>1. /\ last' \in U32 /\ ~MsbSet(last') /\ (Odd(last') <=> Odd(last))
        /\ Below(last, last')
    BY <1>1, <1>3, NextIdFacts
  <2>2. Typed' /\ LastIsOwn' /\ SeenIsSent' /\ ExhaustedAtTheEnd'
    BY <1>1, <1>3, <2>1 DEF IInv, Typed, LastIsOwn, Own, OwnStart, SeenIsSent, ExhaustedAtTheEnd
  <2>3. ASSUME NEW i \in 1..Len(sent)
        PROVE  Below(sent[i].stream, last')
    <3>1. AtMost(sent[i].stream, last)
      BY <1>1 DEF IInv, SentInOrder, Below
    <3> QED
      BY <1>1, <2>1, <3>1, SentTypes, BelowTransitive DEF IInv
  <2>4. SentInOrder'
    BY <1>1, <1>3, <2>3 DEF IInv, SentInOrder, Own, OwnStart
  <2> QED
    BY <2>2, <2>4 DEF IInv
<1> QED
  BY <1>2, <1>3 DEF Allocate

LEMMA SendStep ==
  ASSUME IInv, NEW n \in Lengths, SendData(n)
  PROVE  IInv'
<1>1. /\ last \in U32 /\ Own(last) /\ state = "fresh" /\ n \in Nat
      /\ UNCHANGED <<end, last, seen>>
  BY StreamsAssumption DEF SendData, IInv, Typed, LastIsOwn
<1>2. CASE last = Zero
  <2>1. state' = "panicked" /\ UNCHANGED sent
    BY <1>2, PanicsOnZero DEF SendData
  <2> QED
    BY <1>1, <2>1 DEF IInv, Typed, LastIsOwn, SentInOrder, SeenIsSent, Own, OwnStart,
       ExhaustedAtTheEnd
<1>3. CASE last # Zero
  <2> DEFINE e == [stream |-> last, length |-> n]
  <2>1. state' = "used" /\ sent' = Append(sent, e)
    BY <1>3, PanicsOnZero DEF SendData
  <2>2. e \in Frame32 /\ sent \in Seq(Frame32) /\ e.stream = last
    BY <1>1 DEF Frame32, IInv, Typed
  <2> HIDE DEF e
  <2>3. /\ sent' \in Seq(Frame32) /\ Len(sent') = Len(sent) + 1 /\ Len(sent) \in Nat
        /\ \A i \in 1..Len(sent) : sent'[i] = sent[i]
        /\ sent'[Len(sent) + 1] = e
    BY <2>1, <2>2, AppendFacts
  <2>4. Typed' /\ LastIsOwn' /\ ExhaustedAtTheEnd'
    BY <1>1, <2>1, <2>3 DEF IInv, Typed, LastIsOwn, Own, OwnStart, ExhaustedAtTheEnd
  <2>5. SeenIsSent'
    <3>1. Len(seen) <= Len(sent) /\ Len(seen) \in Nat
      BY SentTypes DEF IInv, SeenIsSent
    <3>2. \A i \in 1..Len(seen) : i \in 1..Len(sent) /\ sent'[i] = sent[i]
      BY <2>3, <3>1
    <3> QED
      BY <1>1, <2>3, <3>1, <3>2 DEF IInv, SeenIsSent
  <2>6. \A i \in 1..Len(sent') : i \in 1..Len(sent) \/ i = Len(sent) + 1
    BY <2>3
  <2>7. ASSUME NEW i \in 1..Len(sent')
        PROVE  /\ Own(sent'[i].stream) /\ sent'[i].stream # Zero
               /\ AtMost(sent'[i].stream, last)
    <3>1. CASE i \in 1..Len(sent)
      BY <1>1, <2>3, <3>1 DEF IInv, SentInOrder, Own, OwnStart, Below
    <3>2. CASE i = Len(sent) + 1
      <4>1. AtMost(last, last)
        BY <1>1, Halves DEF AtMost
      <4> QED
        BY <1>1, <1>3, <2>2, <2>3, <3>2, <4>1 DEF Own, OwnStart
    <3> QED
      BY <2>6, <3>1, <3>2
  <2>8. ASSUME NEW i \in 1..Len(sent'), NEW j \in 1..Len(sent'), i < j
        PROVE  Below(sent'[i].stream, sent'[j].stream)
    <3>1. i \in 1..Len(sent)
      BY <2>3, <2>6, <2>8
    <3>2. CASE j \in 1..Len(sent)
      BY <2>3, <2>8, <3>1, <3>2 DEF IInv, SentInOrder
    <3>3. CASE j = Len(sent) + 1
      BY <1>1, <2>2, <2>3, <3>1, <3>3 DEF IInv, SentInOrder
    <3> QED
      BY <2>6, <3>2, <3>3
  <2>9. SentInOrder'
    BY <1>1, <2>1, <2>7, <2>8 DEF SentInOrder, Own, OwnStart
  <2> QED
    BY <2>4, <2>5, <2>9 DEF IInv
<1> QED
  BY <1>2, <1>3

LEMMA ReadStep ==
  ASSUME IInv, ReadHead
  PROVE  IInv'
<1> DEFINE k == Len(seen) + 1
           h == HeadOf(sent[k])
           e == [stream |-> h.stream, length |-> h.length]
<1>1. /\ UNCHANGED <<end, state, last, sent>> /\ Len(seen) < Len(sent)
      /\ seen' = Append(seen, e)
  BY DEF ReadHead
<1>2. /\ k \in 1..Len(sent) /\ sent[k].stream \in U32 /\ sent[k].length \in Nat
      /\ ~MsbSet(sent[k].stream)
  <2>1. k \in 1..Len(sent)
    BY <1>1, SentTypes DEF IInv
  <2> QED
    BY <2>1, SentTypes DEF IInv, SentInOrder, Own
<1>3. h.stream = sent[k].stream /\ h.length = sent[k].length % TwoTo24
  BY <1>2, HeadRoundTrip, ReservedClear DEF HeadOf
<1>4. sent[k].length % TwoTo24 \in Nat
  BY <1>2 DEF TwoTo24
<1> HIDE DEF h
<1>5. /\ e \in Frame32 /\ e.stream = sent[k].stream
      /\ e.length = sent[k].length % TwoTo24
  BY <1>2, <1>3, <1>4 DEF Frame32
<1> HIDE DEF e
<1>6. seen \in Seq(Frame32) /\ Len(seen) \in Nat
  BY SentTypes DEF IInv, Typed
<1>7. /\ seen' \in Seq(Frame32) /\ Len(seen') = Len(seen) + 1
      /\ \A i \in 1..Len(seen) : seen'[i] = seen[i]
      /\ seen'[k] = e
  BY <1>1, <1>5, <1>6, AppendFacts
<1>8. Typed'
  BY <1>1, <1>7 DEF IInv, Typed
<1>9. SeenIsSent'
  <2>1. Len(seen') <= Len(sent')
    BY <1>1, <1>2, <1>6, <1>7
  <2>2. ASSUME NEW i \in 1..Len(seen')
        PROVE  /\ seen'[i].stream = sent[i].stream
               /\ seen'[i].length = sent[i].length % TwoTo24
    <3>1. CASE i \in 1..Len(seen)
      BY <1>7, <3>1 DEF IInv, SeenIsSent
    <3>2. CASE i = k
      BY <1>5, <1>7, <3>2
    <3> QED
      BY <1>6, <1>7, <3>1, <3>2
  <2> QED
    BY <1>1, <2>1, <2>2 DEF SeenIsSent
<1> QED
  BY <1>1, <1>8, <1>9 DEF IInv, LastIsOwn, Own, OwnStart, SentInOrder, ExhaustedAtTheEnd

(* The inductive invariant behind the theorems below holds in every reachable
   state. *)
THEOREM Inductive == Spec => []IInv
<1>1. ASSUME Init PROVE IInv
  <2>1. Zero \in U32
    BY IsU32 DEF Zero
  <2>2. /\ end \in Ends /\ state = "start" /\ last = Zero /\ sent = <<>> /\ seen = <<>>
        /\ Len(sent) = 0 /\ Len(seen) = 0
    BY <1>1 DEF Init
  <2>3. Typed
    BY <2>1, <2>2 DEF Typed
  <2>4. LastIsOwn /\ SentInOrder /\ SeenIsSent /\ ExhaustedAtTheEnd
    BY <2>2 DEF LastIsOwn, SentInOrder, SeenIsSent, ExhaustedAtTheEnd
  <2> QED
    BY <2>3, <2>4 DEF IInv
<1>2. ASSUME IInv, UNCHANGED vars PROVE IInv'
  <2>1. /\ end' = end /\ state' = state /\ last' = last /\ sent' = sent /\ seen' = seen
        /\ Typed /\ LastIsOwn /\ SentInOrder /\ SeenIsSent /\ ExhaustedAtTheEnd
    BY <1>2 DEF vars, IInv
  <2>2. Typed' /\ LastIsOwn' /\ ExhaustedAtTheEnd'
    BY <2>1 DEF Typed, LastIsOwn, Own, OwnStart, ExhaustedAtTheEnd
  <2>3. SentInOrder'
    BY <2>1 DEF SentInOrder, Own, OwnStart
  <2>4. SeenIsSent'
    BY <2>1 DEF SeenIsSent
  <2> QED
    BY <2>2, <2>3, <2>4 DEF IInv
<1>3. IInv /\ [Next]_vars => IInv'
  BY <1>2, StartStep, AllocateStep, SendStep, ReadStep DEF Next
<1> QED
  BY <1>1, <1>3, PTL DEF Spec

-----------------------------------------------------------------------------
(* The properties                                                          *)

(* No end mistakes a stream, however many it opens. *)
THEOREM StreamsUnmistakenHolds == Spec => []StreamsUnmistaken
<1>1. ASSUME IInv PROVE StreamsUnmistaken
  <2>1. /\ Len(seen) \in Nat /\ Len(sent) \in Nat /\ Len(seen) <= Len(sent)
        /\ \A i \in 1..Len(seen) : seen[i].stream = sent[i].stream
    BY <1>1, SentTypes DEF IInv, SeenIsSent
  <2>2. \A i \in 1..Len(seen) : i \in 1..Len(sent)
    BY <2>1
  <2>3. ASSUME NEW i \in 1..Len(seen)
        PROVE  IF end = "client" THEN IsClientInitiated(seen[i].stream)
               ELSE IsServerInitiated(seen[i].stream)
    BY <1>1, <2>1, <2>2 DEF IInv, SentInOrder, Own, OwnStart, IsClientInitiated,
       IsServerInitiated
  <2> QED
    BY <1>1, <2>1, <2>2, <2>3 DEF IInv, SentInOrder, StreamsUnmistaken
<1> QED
  BY <1>1, Inductive, PTL

(* No identifier is wasted, and none past the maximum is handed out. *)
THEOREM ExhaustedAtTheEndHolds == Spec => []ExhaustedAtTheEnd
<1>1. IInv => ExhaustedAtTheEnd
  BY DEF IInv
<1> QED
  BY <1>1, Inductive, PTL

(* The reader keeps its place exactly as long as no payload has 2^24 octets. *)
THEOREM AlignedBelow24BitsHolds == Spec => []AlignedBelow24Bits
<1>1. ASSUME IInv PROVE AlignedBelow24Bits
  <2>1. /\ Len(seen) \in Nat /\ Len(sent) \in Nat /\ Len(seen) <= Len(sent)
        /\ \A i \in 1..Len(seen) : /\ seen[i].stream = sent[i].stream
                                   /\ seen[i].length = sent[i].length % TwoTo24
    BY <1>1, SentTypes DEF IInv, SeenIsSent
  <2>2. \A i \in 1..Len(seen) : sent[i].length \in Nat
    BY <1>1, <2>1, SentTypes DEF IInv
  <2>3. ASSUME NEW n \in Nat PROVE n % TwoTo24 = n <=> n < TwoTo24
    BY DEF TwoTo24
  <2>4. \A i \in 1..Len(seen) : seen[i].length = sent[i].length <=> sent[i].length < TwoTo24
    BY <2>1, <2>2, <2>3
  <2> QED
    BY <2>1, <2>4 DEF AlignedBelow24Bits, Aligned
<1> QED
  BY <1>1, Inductive, PTL
=============================================================================
