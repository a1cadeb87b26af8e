------------------------------- MODULE Streams -------------------------------
(***************************************************************************)
(* The numbers of the protocol at full width.  An end opens streams with   *)
(* StreamId::from and next_id (src/frame/stream_id.rs) and sends a DATA    *)
(* frame on each; the other end parses the heads.  Heads are octets, as in *)
(* Wire; of a payload only its length is kept, so that lengths around 2^24 *)
(* are in reach.  The two directions of a connection share nothing: one is *)
(* modelled, of either end.                                                *)
(***************************************************************************)
EXTENDS Frames

CONSTANTS
  Starts,     \* the first identifiers an application asks for, as u32
  Lengths,    \* the lengths of the payloads
  MaxFrames   \* bound: frames sent

ASSUME StreamsAssumption ==
  /\ Starts \subseteq U32
  /\ Lengths \subseteq Nat
  /\ MaxFrames \in Nat

Ends == {"client", "server"}

VARIABLES
  end,        \* the end that opens the streams
  state,      \* what its application can do with the identifier it has
  last,       \* that identifier
  sent,       \* the streams and lengths of the frames written
  seen        \* the streams and lengths of the heads the other end has parsed

vars == <<end, state, last, sent, seen>>

Init == end \in Ends /\ state = "start" /\ last = Zero /\ sent = <<>> /\ seen = <<>>

-----------------------------------------------------------------------------
(* StreamId                                                                *)

MaxId == <<32767, 65535>>  \* u32::MAX >> 1
Odd(w) == w[2] % 2 = 1

IsClientInitiated(w) == w # Zero /\ Odd(w)
IsServerInitiated(w) == w # Zero /\ ~Odd(w)

\* A u32 addition; past 2^32 - 1 it wraps in a release build (a debug build
\* panics).
PlusTwo(w) ==
  LET lo == w[2] + 2
  IN  <<(w[1] + (lo \div 65536)) % 65536, lo % 65536>>

\* Mutation: the identifier is compared before it is incremented.
NextIdLate(w) == IF AtMost(w, MaxId) THEN {PlusTwo(w)} ELSE {}

\* Mutation: the maximum itself is refused.
NextIdBelow(w) == IF AtMost(PlusTwo(w), <<32767, 65533>>) THEN {PlusTwo(w)} ELSE {}

\* The next identifier, or none: StreamIdOverflow.
NextId(w) == IF AtMost(PlusTwo(w), MaxId) THEN {PlusTwo(w)} ELSE {}

-----------------------------------------------------------------------------
(* An end that opens streams                                               *)

\* An application starts with an identifier of its own kind.  ZERO is of the
\* server's: its next_id is 2.
OwnStart(w) == Odd(w) <=> end = "client"

\* Mutation: no assertion.
StartAtAny(w) ==
  /\ state = "start"
  /\ OwnStart(w)
  /\ state' = "fresh" /\ last' = w
  /\ UNCHANGED <<end, sent, seen>>

\* StreamId::from asserts that the most significant bit is clear.
StartAt(w) ==
  /\ state = "start"
  /\ OwnStart(w)
  /\ \/ MsbSet(w) /\ state' = "panicked" /\ UNCHANGED last
     \/ ~MsbSet(w) /\ state' = "fresh" /\ last' = w
  /\ UNCHANGED <<end, sent, seen>>

\* The identifier used, or ZERO, is followed by the next or by an error.
Allocate ==
  /\ state = "used" \/ (state = "fresh" /\ last = Zero)
  /\ \/ NextId(last) = {} /\ state' = "exhausted" /\ UNCHANGED last
     \/ last' \in NextId(last) /\ state' = "fresh"
  /\ UNCHANGED <<end, sent, seen>>

\* Data::new asserts a stream; Data::write_to writes the head and the payload.
SendData(n) ==
  /\ state = "fresh"
  /\ Len(sent) < MaxFrames
  /\ \/ NewData(last, <<>>) = Panic /\ state' = "panicked" /\ UNCHANGED sent
     \/ /\ NewData(last, <<>>) # Panic
        /\ state' = "used"
        /\ sent' = Append(sent, [stream |-> last, length |-> n])
  /\ UNCHANGED <<end, last, seen>>

-----------------------------------------------------------------------------
(* The other end                                                           *)

HeadOf(f) == ParseHead(EncodeHead(KindCode("data"), 0, f.stream, f.length))

\* It takes as many octets for the payload as the head says: the next head is
\* where the next frame begins only if that is the length of the payload.
Aligned == \A i \in 1..Len(seen) : seen[i].length = sent[i].length

ReadHead ==
  /\ Aligned
  /\ Len(seen) < Len(sent)
  /\ LET h == HeadOf(sent[Len(seen) + 1])
     IN  seen' = Append(seen, [stream |-> h.stream, length |-> h.length])
  /\ UNCHANGED <<end, state, last, sent>>

Next ==
  \/ \E w \in Starts : StartAt(w)
  \/ Allocate
  \/ \E n \in Lengths : SendData(n)
  \/ ReadHead

Spec == Init /\ [][Next]_vars

-----------------------------------------------------------------------------
(* Properties                                                              *)

Below(v, w) == AtMost(v, w) /\ v # w

(* An end never meets a stream twice, nor one that it could have opened
   itself: what it parses from the other end's heads are identifiers of the
   other end's kind, never zero, in strictly increasing order.  The reserved
   bit is dropped on the wire, so an identifier past the maximum would come
   back as a small one (stream_id.rs, From, next_id; head.rs, parse). *)
StreamsUnmistaken ==
  /\ \A i \in 1..Len(seen) :
       IF end = "client" THEN IsClientInitiated(seen[i].stream)
       ELSE IsServerInitiated(seen[i].stream)
  /\ \A i, j \in 1..Len(seen) : i < j => Below(seen[i].stream, seen[j].stream)

(* No identifier is wasted, and none past the maximum is handed out: an end is
   told StreamIdOverflow exactly when it has used the last one of its kind
   (stream_id.rs, next_id: "or an error if incrementing this stream ID would
   overflow the maximum"). *)
ExhaustedAtTheEnd ==
  state = "exhausted" => last \in {MaxId, <<32767, 65534>>}

(* The heads are those sent, in order, and the reader keeps its place in the
   stream, exactly as long as no payload has 2^24 octets or more: the length
   has three octets, and nothing in the crate stops a longer payload
   (head.rs, encode; data.rs, write_to). *)
AlignedBelow24Bits ==
  /\ \A i \in 1..Len(seen) : seen[i].stream = sent[i].stream
  /\ Aligned <=> \A i \in 1..Len(seen) : sent[i].length < TwoTo24

-----------------------------------------------------------------------------
(* The inductive invariant                                                 *)

Frame32 == [stream : U32, length : Nat]

Typed ==
  /\ end \in Ends /\ state \in {"start", "fresh", "used", "exhausted", "panicked"}
  /\ last \in U32
  /\ sent \in Seq(Frame32) /\ seen \in Seq(Frame32)

\* An identifier of this end that survives the wire.
Own(w) == ~MsbSet(w) /\ OwnStart(w)

LastIsOwn == state \notin {"start", "panicked"} => Own(last)

SentInOrder ==
  /\ state = "start" => sent = <<>>
  /\ \A i \in 1..Len(sent) : Own(sent[i].stream) /\ sent[i].stream # Zero
  /\ \A i, j \in 1..Len(sent) : i < j => Below(sent[i].stream, sent[j].stream)
  /\ state = "fresh" => \A i \in 1..Len(sent) : Below(sent[i].stream, last)
  /\ state = "used" => \A i \in 1..Len(sent) : AtMost(sent[i].stream, last)

\* The other end sees the frames, their lengths cut to three octets.
SeenIsSent ==
  /\ Len(seen) <= Len(sent)
  /\ \A i \in 1..Len(seen) :
       /\ seen[i].stream = sent[i].stream
       /\ seen[i].length = sent[i].length % TwoTo24

(* What the proofs of the three properties carry from step to step: the
   identifiers in use are of the end's own kind and below the reserved bit,
   and rise from frame to frame (stream_id.rs, next_id; head.rs, encode). *)
IInv == Typed /\ LastIsOwn /\ SentInOrder /\ SeenIsSent /\ ExhaustedAtTheEnd
=============================================================================
