------------------------------ MODULE WireInv -------------------------------
(* The properties of Wire. *)
EXTENDS Wire

\* A WINDOW_UPDATE sent as bytes has its four octets.  The reader takes four,
\* whatever the head says; it loses its place after any other length.
TakenWhole(f) ==
  f.kind = "raw" /\ KindFrom(f.body.code) = "window_update" => Len(f.body.payload) = 4

ASSUME AlignedAssumption == \A i \in DOMAIN Outbox : TakenWhole(Outbox[i])

\* An item the reader's framing holds for.
Fits(f) == IsItem(f) /\ TakenWhole(f)

\* The items of which there is at least the head.
Sent == written \o half

IsStream(w) == w \in U32 /\ ~MsbSet(w)

(* Octets are octets, what is sent can be sent, a stream identifier read has 31
   bits, and only frames the read loop knows are reported. *)
TypeOK ==
  /\ side \in {"client", "server"} /\ open \in BOOLEAN
  /\ Len(half) \in {0, 1} /\ (half # <<>> => half[1].kind \in InTwoWrites)
  /\ \A i \in 1..Len(Sent) : Fits(Sent[i]) /\ Sent[i].kind # "unknown"
  /\ wire \in Seq(Octet) /\ taken \in 0..Len(wire) /\ starts \in Seq(Nat)
  /\ reader \in {"head", "body", "broken", "panicked"}
  /\ head.kind \in Kind /\ head.flags \in Octet /\ IsStream(head.stream)
  /\ head.length \in Nat
  /\ \A i \in 1..Len(got) :
       /\ got[i].kind \in {"data", "headers", "settings", "goaway",
                           "window_update", "unknown"}
       /\ got[i].flags \in Octet /\ IsStream(got[i].stream)
  /\ error \in {"none", "Io", "InvalidStreamId", "TooMuchPadding", "BadFrameSize",
                "InvalidPayloadLength", "InvalidPayloadAckSettings",
                "InvalidSettingValue", "InvalidWindowUpdateValue"}

-----------------------------------------------------------------------------
(* What the reading end should make of an item, said without octets.       *)

\* Of the values an application can set, only INITIAL_WINDOW_SIZE may be out of
\* range; nothing stops it from setting values on an ack.
SeenSettings(f) ==
  IF f.flags = ACK THEN IF f.body = NoSettings THEN f ELSE Error("InvalidPayloadLength")
  ELSE IF \E v \in f.body[4] : MsbSet(v) THEN Error("InvalidSettingValue") ELSE f

SeenData(s, f) ==
  IF f.stream = Zero THEN IF s = "server" THEN Panic ELSE Error("InvalidStreamId")
  ELSE IF s = "server" THEN [f EXCEPT !.flags = 0]
  ELSE IF HasBit(f.flags, PADDED) /\ BadPadding(f.body) THEN Error("TooMuchPadding")
  ELSE f

SeenRaw(s, h, p) == IF PanicsOnHead(s, h) THEN Panic ELSE Decode(s, h, p)

Seen(s, item) ==
  LET f == [item EXCEPT !.stream = ClearMsb(@)]
  IN  CASE f.kind = "data"     -> SeenData(s, f)
        [] f.kind = "headers"  -> [f EXCEPT !.flags = 0]
        [] f.kind = "settings" -> SeenSettings(f)
        [] f.kind = "goaway"   -> [f EXCEPT !.body.last = ClearMsb(@)]
        [] f.kind = "window_update" ->
             IF ClearMsb(f.body) = Zero THEN Error("InvalidWindowUpdateValue")
             ELSE [f EXCEPT !.body = ClearMsb(@)]
        [] f.kind = "raw" ->
             SeenRaw(s, [kind |-> KindFrom(f.body.code), flags |-> f.flags,
                         stream |-> f.stream, length |-> Len(f.body.payload)],
                     f.body.payload)
        [] OTHER -> IF s = "server" THEN Panic ELSE Frame("unknown", 0, Zero, <<>>)

Same(g, f) == g.kind = f.kind /\ g = f

LengthErrors == {"InvalidPayloadLength", "InvalidPayloadAckSettings"}
FailsWith(f, e) ==
  Same(f, Error(e)) \/ \E d \in LengthErrors : e \in LengthErrors /\ Same(f, Error(d))

-----------------------------------------------------------------------------

(* Two ends of this crate understand each other: the frames reported are those
   sent, one for one and in order, whatever kinds, payload lengths and partial
   writes came before.  The stream carries no boundaries, so one octet too many
   or too few read for any frame shifts all that follow (frame/*.rs write_to;
   link.rs and client.rs, read_*_frame, discard_unknown_frame). *)
FramesInOrder ==
  /\ Len(got) <= Len(Sent)
  /\ \A i \in 1..Len(got) : Same(got[i], Seen(side, Sent[i]))

(* The read loop stops only for what is next on the stream: it panics on a
   frame its match cannot take, breaks with the error of a frame that does not
   load, and at the end of the stream it has first reported every frame that
   was completely written, and none of which a part is missing.  Of the two
   errors for a length that is wrong, either will do here: run
   wire_settings_error asks which belongs to which. *)
EndsWhenDue ==
  LET next == Seen(side, Sent[Len(got) + 1])
  IN  /\ reader = "panicked" => Len(got) < Len(Sent) /\ next = Panic
      /\ reader = "broken" =>
           \/ error = "Io" /\ ~open /\ Len(got) >= Len(written)
           \/ error # "Io" /\ Len(got) < Len(Sent) /\ FailsWith(next, error)

(* InvalidPayloadAckSettings: "Received a payload with an ACK settings frame"
   (frame/mod.rs:155).  Settings::load gives it for a length that is no multiple
   of six, and InvalidPayloadLength for the payload of an ack (settings.rs:177
   and 187). *)
SettingsErrorAsDocumented ==
  error = "InvalidPayloadAckSettings" =>
    head.kind = "settings" /\ HasBit(head.flags, ACK) /\ head.length # 0

(* A frame that has been received can be sent on: written again and read at
   another end of the same kind it is the same frame.  forward_loop does this
   with every SETTINGS (server.rs, send_to), applications with DATA. *)
Forwardable ==
  \A i \in 1..Len(got) : got[i].kind # "unknown" =>
    LET again == WriteTo(got[i])
    IN  /\ ~PanicsOnHead(side, ParseHead(again.head))
        /\ Same(Decode(side, ParseHead(again.head), again.payload), got[i])

Reloaded(f) ==
  IF f.kind = "priority" /\ f.body.dependency = ClearMsb(f.stream)
  THEN Error("InvalidDependencyId") ELSE [f EXCEPT !.stream = ClearMsb(@)]

(* The loads no read loop calls agree with what is written: a RST_STREAM or
   PRIORITY frame comes back with its stream (of 31 bits), code, dependency, weight and
   exclusive bit (reset.rs; priority.rs, test stream_dependency), unless the
   reserved bit was all that told its stream from its dependency. *)
Reloads ==
  \A i \in 1..Len(written) :
    LET f == written[i]
        w == WriteTo(f)
        seen == Reloaded(f)
    IN  /\ f.kind = "reset" => Same(LoadReset(ParseHead(w.head), w.payload), seen)
        /\ f.kind = "priority" => Same(LoadPriority(ParseHead(w.head), w.payload), seen)

-----------------------------------------------------------------------------
(* The inductive invariant                                                 *)

\* Where the i-th item begins or will begin, and what there is of it.
Begin(i) == IF i <= Len(Sent) THEN starts[i] ELSE Len(wire)
OctetsOf(i) ==
  IF i <= Len(written) THEN Written(Sent[i]).head \o Written(Sent[i]).payload
  ELSE Written(Sent[i]).head

\* The stream is the octets of the items, one item behind the other.
Placed ==
  /\ Len(starts) = Len(Sent) /\ Begin(1) = 0
  /\ \A i \in 1..Len(Sent) :
       /\ starts[i] <= Begin(i + 1) /\ Begin(i + 1) <= Len(wire)
       /\ SubSeq(wire, starts[i] + 1, Begin(i + 1)) = OctetsOf(i)

\* The reader is where an item begins, or past its head; it is done with an item
\* half written only if there is nothing left to write.
ReaderPlaced ==
  /\ reader = "head" => taken = Begin(Len(got) + 1)
  /\ reader = "body" =>
       /\ Len(got) < Len(Sent)
       /\ taken = starts[Len(got) + 1] + HEADER_LEN
       /\ head = ParseHead(Written(Sent[Len(got) + 1]).head)
  /\ Len(got) > Len(written) => Len(Written(half[1]).payload) = 0

(* What the proofs of the four properties carry from step to step: the read
   loop never loses its place, however the octets arrive (frame/*.rs write_to;
   link.rs and client.rs, read_frame_head and what follows it). *)
IInv == Placed /\ ReaderPlaced

-----------------------------------------------------------------------------
(* The refinement of Delivery                                              *)

D == INSTANCE Delivery WITH
       Taken     <- Seen,
       sent      <- Sent,
       partial   <- half # <<>> /\ Len(Written(half[1]).payload) # 0,
       delivered <- got,
       over      <- reader \in {"broken", "panicked"}

(* However the octets arrive, the read loop delivers the frames one by one, each
   when it is all there and none after it has ended; nothing reported changes
   (link.rs and client.rs, read_loop; frame/*.rs write_to). *)
ImplementsDelivery == D!Spec
=============================================================================
