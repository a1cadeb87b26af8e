------------------------------- MODULE MCWire -------------------------------
(* Instances of Wire for TLC: what the other end sends.  The values are    *)
(* those at the edges of the checks in src/frame/.                         *)
EXTENDS WireInv

One       == <<0, 1>>
MaxStream == <<32767, 65535>>
Reserved  == <<32768, 0>>       \* stream 0 but for the reserved bit
OneMsb    == <<32768, 1>>

Zeros(n) == [i \in 1..n |-> 0]
Set(id, w) == PutU16(id) \o PutU32(w)
\* What the setters make of Settings::default().
WithSettings(values) ==
  FoldLeft(LAMBDA f, v : SetSetting(f, v[1], v[2]), Frame("settings", 0, Zero, NoSettings), values)

Update(s, w) == Frame("window_update", 0, s, w)
GoneAway(s)  == Frame("goaway", 0, Zero, [last |-> s, reason |-> One])

\* Frames an application can build, or has received, perhaps given another
\* payload, and sends on.
DataFrames ==
  << Frame("data", 0, One, <<>>), Frame("data", END_STREAM, OneMsb, <<5>>),
    Frame("data", PADDED, One, <<1, 7, 0>>), Frame("data", PADDED, One, <<1>>),
    Frame("data", 0, Reserved, <<1>>) >>
HeadersFrames == << Frame("headers", 0, Zero, <<>>), Frame("headers", 0, MaxStream, <<1, 2>>) >>
ControlFrames ==
  << SettingsAck,
    WithSettings(<< <<2, Zero>>, <<5, MAX_MAX_FRAME_SIZE>>, <<6, MaxStream>> >>),
    WithSettings(<< <<3, <<65535, 65535>> >>, <<4, MaxStream>>, <<5, DEFAULT_MAX_FRAME_SIZE>> >>),
    WithSettings(<< <<4, Reserved>> >>),
    [SettingsAck EXCEPT !.body[3] = {One}],
    Update(Zero, One), Update(OneMsb, OneMsb), Update(One, Reserved), GoneAway(OneMsb) >>
OtherFrames ==
  << Frame("continuation", END_HEADERS, One, <<1>>), Frame("bin_code", ACK, MaxStream, <<1, 2>>),
    Frame("reset", 0, One, <<32769, 2>>),
    Frame("priority", 0, One, [dependency |-> MaxStream, weight |-> 255, exclusive |-> TRUE]),
    Frame("priority", 0, OneMsb, [dependency |-> One, weight |-> 0, exclusive |-> FALSE]),
    Frame("unknown", 0, Zero, <<>>) >>

\* Whole frames sent as bytes: a value repeated, unknown, out of range or cut
\* short, the largest payload that fits the buffer and the first that does not.
RawSettings ==
  << Raw(4, 0, Zero, Set(3, One) \o Set(9, One) \o Set(3, Zero)),
    Raw(4, 0, Zero, Set(2, <<0, 2>>)), Raw(4, 0, Zero, Set(5, <<0, 16383>>)),
    Raw(4, 0, Zero, Set(5, <<256, 0>>)), Raw(4, 0, Zero, <<0>>), Raw(4, 0, One, <<>>),
    Raw(4, 0, Zero, Zeros(252)), Raw(4, 0, Zero, Zeros(258)) >>
RawOthers ==
  << Raw(0, PADDED, One, <<>>), Raw(0, PADDED, One, <<2, 0>>), Raw(0, 255, One, <<1, 0>>),
    Raw(0, 0, Zero, <<1>>), Raw(1, 255, Reserved, <<0>>),
    Raw(4, ACK, Zero, Set(3, One)), Raw(7, 0, Zero, Zeros(7)), Raw(7, 0, One, Zeros(12)),
    Raw(6, 0, Zero, Zeros(8)) >>

Everything ==
  DataFrames \o HeadersFrames \o ControlFrames \o OtherFrames
    \o RawSettings \o RawOthers
=============================================================================
