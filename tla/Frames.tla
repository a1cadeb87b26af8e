------------------------------- MODULE Frames -------------------------------
(***************************************************************************)
(* The frames of src/frame/ and their octets: what write_to puts on a      *)
(* stream and what parse and load make of it.  A frame is a record of its  *)
(* kind, its flags, its stream and a body whose shape depends on the kind. *)
(*                                                                         *)
(* A u32 is the pair of its 16-bit halves <<hi, lo>> (TLC's integers stop  *)
(* at 2^31 - 1); its most significant bit is that of hi.                   *)
(***************************************************************************)
EXTENDS Integers, Sequences, FiniteSetsExt, SequencesExt

Octet == 0..255
TwoTo16 == 65536
TwoTo24 == 16777216
U16   == 0 .. TwoTo16 - 1
U32   == U16 \X U16
Zero  == <<0, 0>>

PutU16(n) == <<n \div 256, n % 256>>
PutU32(w) == PutU16(w[1]) \o PutU16(w[2])
GetU16(o, i) == o[i] * 256 + o[i + 1]
GetU32(o, i) == <<GetU16(o, i), GetU16(o, i + 2)>>

MsbSet(w)   == w[1] >= 32768
ClearMsb(w) == <<w[1] % 32768, w[2]>>
SetMsb(w)   == <<(w[1] % 32768) + 32768, w[2]>>

\* Mutation: two octets.
PutLengthShort(n) == <<0, (n \div 256) % 256, n % 256>>

\* put_uint(_, 3) keeps the low three octets of the length.
PutLength(n) == <<(n \div 65536) % 256, (n \div 256) % 256, n % 256>>
GetLength(o) == o[1] * 65536 + o[2] * 256 + o[3]

\* Mutation: the reserved bit is kept.
ParseStreamIdRaw(o, i) == GetU32(o, i)

\* StreamId::parse; the reserved bit is returned beside it.
ParseStreamId(o, i) == ClearMsb(GetU32(o, i))

-----------------------------------------------------------------------------
(* Head                                                                    *)

Kinds == <<"data", "headers", "priority", "reset", "settings", "push_promise",
           "ping", "goaway", "window_update", "continuation", "bin_code">>
Kind == ToSet(Kinds) \cup {"unknown"}

KindCode(k) == (CHOOSE i \in 1..Len(Kinds) : Kinds[i] = k) - 1

\* Kind::from has no case for BinCode, which therefore reads as Unknown.
KindFrom(code) == IF code <= 9 THEN Kinds[code + 1] ELSE "unknown"

HEADER_LEN == 9
EncodeHead(code, flags, stream, length) ==
  PutLength(length) \o <<code, flags>> \o PutU32(stream)
ParseHead(o) ==
  [kind |-> KindFrom(o[4]), flags |-> o[5], stream |-> ParseStreamId(o, 6),
   length |-> GetLength(o)]

-----------------------------------------------------------------------------
(* Building and writing: each kind writes its head, with the length of its *)
(* payload, and its payload.                                               *)

Frame(k, f, s, b) == [kind |-> k, flags |-> f, stream |-> s, body |-> b]
Error(e)          == Frame("error", 0, Zero, e)
Panic             == Frame("panic", 0, Zero, <<>>)

ACK         == 1    \* SettingsFlags, BinCodeFlags
END_STREAM  == 1    \* DataFlags
END_HEADERS == 4    \* Flags
PADDED      == 8    \* DataFlags
HasBit(flags, bit) == (flags \div bit) % 2 = 1

Write(k, flags, stream, payload) ==
  [head |-> EncodeHead(KindCode(k), flags, stream, Len(payload)), payload |-> payload]

\* Data::new asserts a stream.
NewData(stream, data) == IF stream = Zero THEN Panic ELSE Frame("data", 0, stream, data)

WriteData(f)         == Write("data", f.flags, f.stream, f.body)
WriteHeaders(f)      == Write("headers", f.flags, f.stream, f.body)
WriteContinuation(f) == Write("continuation", END_HEADERS, f.stream, f.body)
WriteBinCode(f)      == Write("bin_code", f.flags, f.stream, f.body)
WriteReset(f)        == Write("reset", 0, f.stream, PutU32(f.body))
WriteWindowUpdate(f) == Write("window_update", 0, f.stream, PutU32(f.body))
WriteGoAway(f)       == Write("goaway", 0, Zero, PutU32(f.body.last) \o PutU32(f.body.reason))

EncodeDependency(d) ==
  PutU32(IF d.exclusive THEN SetMsb(d.dependency) ELSE d.dependency) \o <<d.weight>>
WritePriority(f) == Write("priority", 0, f.stream, EncodeDependency(f.body))

\* Settings is a sequence of six options, in the order of their ids, each the
\* set of its at most one value.
NoSettings  == [id \in 1..6 |-> {}]
SettingsAck == Frame("settings", ACK, Zero, NoSettings)

DEFAULT_MAX_FRAME_SIZE == <<0, 16384>>
MAX_MAX_FRAME_SIZE     == <<255, 65535>>
AtMost(v, w) == v[1] < w[1] \/ (v[1] = w[1] /\ v[2] <= w[2])

\* The setters: MAX_FRAME_SIZE is asserted, ENABLE_PUSH is a bool, the others
\* take any u32; HEADER_TABLE_SIZE has none.
SetSetting(f, id, v) ==
  IF id = 5 /\ ~(AtMost(DEFAULT_MAX_FRAME_SIZE, v) /\ AtMost(v, MAX_MAX_FRAME_SIZE))
  THEN Panic ELSE [f EXCEPT !.body[id] = {v}]

\* Mutation: an option that holds zero is passed over.
EncodeSettingNonZero(settings, id) ==
  IF settings[id] \subseteq {Zero} THEN <<>>
  ELSE PutU16(id) \o PutU32(CHOOSE v \in settings[id] : TRUE)

EncodeSetting(settings, id) ==
  IF settings[id] = {} THEN <<>>
  ELSE PutU16(id) \o PutU32(CHOOSE v \in settings[id] : TRUE)

EncodeSettings(s) ==
  EncodeSetting(s, 1) \o EncodeSetting(s, 2) \o EncodeSetting(s, 3)
    \o EncodeSetting(s, 4) \o EncodeSetting(s, 5) \o EncodeSetting(s, 6)

WriteSettings(f) == Write("settings", f.flags, Zero, EncodeSettings(f.body))

WriteTo(f) ==
  CASE f.kind = "data"          -> WriteData(f)
    [] f.kind = "headers"       -> WriteHeaders(f)
    [] f.kind = "priority"      -> WritePriority(f)
    [] f.kind = "reset"         -> WriteReset(f)
    [] f.kind = "settings"      -> WriteSettings(f)
    [] f.kind = "goaway"        -> WriteGoAway(f)
    [] f.kind = "window_update" -> WriteWindowUpdate(f)
    [] f.kind = "continuation"  -> WriteContinuation(f)
    [] f.kind = "bin_code"      -> WriteBinCode(f)
    [] f.kind = "unknown"       -> [head |-> <<>>, payload |-> <<>>]

\* Data, Headers, Continuation and BinCode are written in two calls, the head
\* and then the payload; the others in one; Unknown not at all.
InTwoWrites == {"data", "headers", "continuation", "bin_code"}

-----------------------------------------------------------------------------
(* Loading                                                                 *)

\* DataFlags::load drops the other bits.
DataFlags(bits) ==
  (IF HasBit(bits, END_STREAM) THEN END_STREAM ELSE 0)
    + (IF HasBit(bits, PADDED) THEN PADDED ELSE 0)

BadPadding(p) == p = <<>> \/ p[1] >= Len(p)

LoadData(head, p) ==
  IF head.stream = Zero THEN Error("InvalidStreamId")
  ELSE IF HasBit(head.flags, PADDED) /\ BadPadding(p) THEN Error("TooMuchPadding")
  ELSE Frame("data", DataFlags(head.flags), head.stream, p)

\* Mutation: the upper bound of MAX_FRAME_SIZE is exclusive.
ValidSettingBelow(id, v) ==
  CASE id = 2 -> v \in {Zero, <<0, 1>>}
    [] id = 4 -> ~MsbSet(v)
    [] id = 5 -> AtMost(DEFAULT_MAX_FRAME_SIZE, v) /\ ~AtMost(MAX_MAX_FRAME_SIZE, v)
    [] OTHER  -> TRUE

\* ENABLE_PUSH, INITIAL_WINDOW_SIZE and MAX_FRAME_SIZE are bounded.
ValidSetting(id, v) ==
  CASE id = 2 -> v \in {Zero, <<0, 1>>}
    [] id = 4 -> ~MsbSet(v)
    [] id = 5 -> AtMost(DEFAULT_MAX_FRAME_SIZE, v) /\ AtMost(v, MAX_MAX_FRAME_SIZE)
    [] OTHER  -> TRUE

\* The last value of each id counts, an unknown id is passed over.
LoadSettings(head, p) ==
  LET chunks == 0..Len(p) \div 6 - 1
      Id(c)  == GetU16(p, 6 * c + 1)
      Val(c) == GetU32(p, 6 * c + 3)
      Of(id) == {c \in chunks : Id(c) = id}
  IN  IF head.stream # Zero THEN Error("InvalidStreamId")
      ELSE IF HasBit(head.flags, ACK)
           THEN IF p = <<>> THEN SettingsAck ELSE Error("InvalidPayloadLength")
      ELSE IF Len(p) % 6 # 0 THEN Error("InvalidPayloadAckSettings")
      ELSE IF \E c \in chunks : ~ValidSetting(Id(c), Val(c))
           THEN Error("InvalidSettingValue")
      ELSE Frame("settings", 0, Zero,
                 [id \in 1..6 |-> IF Of(id) = {} THEN {} ELSE {Val(Max(Of(id)))}])

LoadGoAway(p) ==
  IF Len(p) < 8 THEN Error("BadFrameSize")
  ELSE Frame("goaway", 0, Zero,
             [last |-> ParseStreamId(p, 1), reason |-> GetU32(p, 5)])

LoadWindowUpdate(head, p) ==
  LET increment == ClearMsb(GetU32(p, 1))
  IN  IF increment = Zero THEN Error("InvalidWindowUpdateValue")
      ELSE Frame("window_update", 0, head.stream, increment)

\* Reset::load and Priority::load are called by no reader of the crate.
LoadReset(head, p) ==
  IF Len(p) # 4 THEN Error("InvalidPayloadLength")
  ELSE Frame("reset", 0, head.stream, GetU32(p, 1))

\* Mutation: the reserved bit is cleared before the exclusive bit is read.
LoadDependencyShared(p) ==
  [dependency |-> ParseStreamId(p, 1), weight |-> p[5],
   exclusive |-> MsbSet(ParseStreamId(p, 1))]

LoadDependency(p) ==
  [dependency |-> ParseStreamId(p, 1), weight |-> p[5],
   exclusive |-> MsbSet(GetU32(p, 1))]

LoadPriority(head, p) ==
  IF Len(p) # 5 THEN Error("InvalidPayloadLength")
  ELSE IF LoadDependency(p).dependency = head.stream THEN Error("InvalidDependencyId")
  ELSE Frame("priority", 0, head.stream, LoadDependency(p))

-----------------------------------------------------------------------------
(* What a program can hold: a frame one of the constructors or loads has   *)
(* made and the setters, or Data::payload_mut, have changed.               *)

IsPayload(p) == p \in Seq(Octet) /\ Len(p) < TwoTo24

IsSettings(s) ==
  /\ s \in [1..6 -> SUBSET U32]
  /\ \A id \in 1..6 : \A v, w \in s[id] : v = w
  /\ \A id \in {2, 5} : \A v \in s[id] : ValidSetting(id, v)

\* A Priority comes from load only, whose head may have any u32 as its stream.
IsDependency(d, stream) ==
  /\ d \in [dependency : U32, weight : Octet, exclusive : BOOLEAN]
  /\ ~MsbSet(d.dependency) /\ d.dependency # stream

IsFrame(f) ==
  /\ f = Frame(f.kind, f.flags, f.stream, f.body)
  /\ f.flags \in Octet /\ f.stream \in U32
  /\ \/ f.kind = "data" /\ f.flags = DataFlags(f.flags) /\ IsPayload(f.body)
     \/ f.kind \in {"headers", "continuation", "bin_code"} /\ IsPayload(f.body)
     \/ f.kind \in {"reset", "window_update"} /\ f.flags = 0 /\ f.body \in U32
     \/ f.kind = "priority" /\ f.flags = 0 /\ IsDependency(f.body, f.stream)
     \/ /\ f.kind = "settings" /\ f.flags \in {0, ACK} /\ f.stream = Zero
        /\ IsSettings(f.body)
     \/ /\ f.kind = "goaway" /\ f.flags = 0 /\ f.stream = Zero
        /\ f.body \in [last : U32, reason : U32]
     \/ f.kind = "unknown" /\ f.flags = 0 /\ f.stream = Zero /\ f.body = <<>>
=============================================================================
