----------------------------- MODULE WireProofs -----------------------------
(***************************************************************************)
(* Wire for any Outbox: the reading end makes of the octets what Seen says *)
(* of the items, however the octets arrive.                                *)
(***************************************************************************)
EXTENDS WireInv, FramesProofs

-----------------------------------------------------------------------------
(* One item                                                                *)

Side == {"client", "server"}
HeadOf(c, fl, w, p) ==
  [kind |-> KindFrom(c), flags |-> fl, stream |-> ClearMsb(w), length |-> Len(p)]

\* The item is a head and the payload it announces, which read as Seen says.
Carries(f, c, fl, w, p) ==
  /\ c \in Octet /\ fl \in Octet /\ w \in U32 /\ IsPayload(p)
  /\ KindFrom(c) = "window_update" => Len(p) = 4
  /\ Written(f) = [head |-> EncodeHead(c, fl, w, Len(p)), payload |-> p]
  /\ \A s \in Side : SeenRaw(s, HeadOf(c, fl, w, p), p) = Seen(s, f)

Carried(f) == \E c, fl, w, p : Carries(f, c, fl, w, p)

LEMMA CodesAreOctets == \A c \in 0..10 : c \in Octet
BY DEF Octet

LEMMA RawCarried ==
  ASSUME NEW f, f.kind = "raw", IsRaw(f), TakenWhole(f)
  PROVE  Carried(f)
<1> DEFINE c == f.body.code
           p == f.body.payload
<1>1. /\ f = Frame("raw", f.flags, f.stream, [code |-> c, payload |-> p])
      /\ f.flags \in Octet /\ f.stream \in U32 /\ c \in Octet /\ IsPayload(p)
      /\ KindFrom(c) = "window_update" => Len(p) = 4
  BY DEF IsRaw, Raw, TakenWhole
<1>2. Written(f) = [head |-> EncodeHead(c, f.flags, f.stream, Len(p)), payload |-> p]
  BY DEF Written
<1>3. ASSUME NEW s \in Side
      PROVE  Seen(s, f) = SeenRaw(s, HeadOf(c, f.flags, f.stream, p), p)
  <2> DEFINE g == [f EXCEPT !.stream = ClearMsb(@)]
  <2>1. g = Frame("raw", f.flags, ClearMsb(f.stream), [code |-> c, payload |-> p])
    BY <1>1 DEF Frame
  <2>2. /\ g.kind = "raw" /\ g.flags = f.flags /\ g.stream = ClearMsb(f.stream)
        /\ g.body.code = c /\ g.body.payload = p
    BY <2>1 DEF Frame
  <2>3. Seen(s, f) = SeenRaw(s, [kind |-> KindFrom(g.body.code), flags |-> g.flags,
                         stream |-> g.stream, length |-> Len(g.body.payload)], g.body.payload)
    <3> HIDE DEF g
    <3> QED
      BY <2>2 DEF Seen, g
  <2> QED
    BY <2>2, <2>3 DEF HeadOf
<1>4. Carries(f, c, f.flags, f.stream, p)
  BY <1>1, <1>2, <1>3 DEF Carries
<1> QED
  BY <1>4 DEF Carried

LEMMA DataCarried ==
  ASSUME NEW f, f.kind = "data", IsFrame(f)
  PROVE  Carried(f)
<1>1. /\ f = Frame("data", f.flags, f.stream, f.body)
      /\ f.flags \in Octet /\ f.stream \in U32 /\ IsPayload(f.body)
      /\ f.flags = DataFlags(f.flags)
  BY DEF IsFrame
<1>2. Written(f) = [head |-> EncodeHead(0, f.flags, f.stream, Len(f.body)), payload |-> f.body]
  BY KindCodes DEF Written, WriteTo, WriteData, Write
<1>3. ASSUME NEW s \in Side
      PROVE  SeenRaw(s, HeadOf(0, f.flags, f.stream, f.body), f.body) = Seen(s, f)
  <2> DEFINE h == HeadOf(0, f.flags, f.stream, f.body)
             g == [f EXCEPT !.stream = ClearMsb(@)]
  <2>1. h.kind = "data" /\ h.flags = f.flags /\ h.stream = ClearMsb(f.stream)
    BY KindsRead DEF HeadOf
  <2>2. g = Frame("data", f.flags, ClearMsb(f.stream), f.body)
    BY <1>1 DEF Frame
  <2>3. Seen(s, f) = SeenData(s, g)
    BY DEF Seen
  <2> HIDE DEF h, g
  <2>4. SeenRaw(s, h, f.body) = Decode(s, h, f.body)
    BY <2>1 DEF SeenRaw, PanicsOnHead
  <2>5. CASE s = "client"
    <3>1. Decode(s, h, f.body) = LoadData(h, f.body)
      BY <2>1, <2>5 DEF Decode
    <3>2. g.stream = ClearMsb(f.stream) /\ g.flags = f.flags /\ g.body = f.body
      BY <2>2 DEF Frame
    <3>3. SeenData(s, g) = LoadData(h, f.body)
      <4>1. Frame("data", DataFlags(f.flags), ClearMsb(f.stream), f.body) = g
        BY <1>1, <2>2
      <4> HIDE DEF g
      <4> QED
        BY <2>1, <2>5, <3>2, <4>1 DEF SeenData, LoadData
    <3> QED
      BY <2>3, <2>4, <3>1, <3>3 DEF h
  <2>6. CASE s = "server"
    <3>1. Decode(s, h, f.body) = NewData(h.stream, f.body)
      BY <2>1, <2>6 DEF Decode
    <3>2. SeenData(s, g) = IF ClearMsb(f.stream) = Zero THEN Panic
                           ELSE Frame("data", 0, ClearMsb(f.stream), f.body)
      BY <2>2, <2>6 DEF SeenData, Frame
    <3> QED
      BY <2>1, <2>3, <2>4, <3>1, <3>2 DEF NewData, h
  <2> QED
    BY <2>5, <2>6 DEF Side
<1>4. KindFrom(0) # "window_update" /\ 0 \in Octet
  BY KindsRead, CodesAreOctets
<1>5. Carries(f, 0, f.flags, f.stream, f.body)
  BY <1>1, <1>2, <1>3, <1>4 DEF Carries
<1> QED
  BY <1>5 DEF Carried

LEMMA HeadersCarried ==
  ASSUME NEW f, f.kind = "headers", IsFrame(f)
  PROVE  Carried(f)
<1>1. /\ f = Frame("headers", f.flags, f.stream, f.body)
      /\ f.flags \in Octet /\ f.stream \in U32 /\ IsPayload(f.body)
  BY DEF IsFrame
<1>2. Written(f) = [head |-> EncodeHead(1, f.flags, f.stream, Len(f.body)), payload |-> f.body]
  BY KindCodes DEF Written, WriteTo, WriteHeaders, Write
<1>3. ASSUME NEW s \in Side
      PROVE  SeenRaw(s, HeadOf(1, f.flags, f.stream, f.body), f.body) = Seen(s, f)
  <2> DEFINE h == HeadOf(1, f.flags, f.stream, f.body)
             g == [f EXCEPT !.stream = ClearMsb(@)]
  <2>1. h.kind = "headers" /\ h.stream = ClearMsb(f.stream)
    BY KindsRead DEF HeadOf
  <2>2. g = Frame("headers", f.flags, ClearMsb(f.stream), f.body)
    BY <1>1 DEF Frame
  <2>3. Seen(s, f) = [g EXCEPT !.flags = 0]
    BY DEF Seen
  <2> HIDE DEF h, g
  <2>4. [g EXCEPT !.flags = 0] = Frame("headers", 0, ClearMsb(f.stream), f.body)
    BY <2>2 DEF Frame
  <2>5. SeenRaw(s, h, f.body) = Frame("headers", 0, ClearMsb(f.stream), f.body)
    BY <2>1 DEF SeenRaw, PanicsOnHead, Decode
  <2> QED
    BY <2>3, <2>4, <2>5 DEF h
<1>4. KindFrom(1) # "window_update" /\ 1 \in Octet
  BY KindsRead, CodesAreOctets
<1>5. Carries(f, 1, f.flags, f.stream, f.body)
  BY <1>1, <1>2, <1>3, <1>4 DEF Carries
<1> QED
  BY <1>5 DEF Carried

\* The kinds neither reader knows.
LEMMA OtherCarried ==
  ASSUME NEW f, f.kind \in {"priority", "reset", "continuation", "bin_code"}, IsFrame(f)
  PROVE  Carried(f)
<1>1. /\ f = Frame(f.kind, f.flags, f.stream, f.body)
      /\ f.flags \in Octet /\ f.stream \in U32
  BY DEF IsFrame
<1>2. PICK c, fl, p :
        /\ c \in {2, 3, 9, 10} /\ fl \in Octet /\ IsPayload(p)
        /\ Written(f) = [head |-> EncodeHead(c, fl, f.stream, Len(p)), payload |-> p]
  <2>1. CASE f.kind = "priority"
    <3>1. IsDependency(f.body, f.stream)
      BY <2>1 DEF IsFrame
    <3>2. IsPayload(EncodeDependency(f.body))
      BY <1>1, <3>1, PriorityRoundTrip
    <3>3. Written(f) = [head |-> EncodeHead(2, 0, f.stream, Len(EncodeDependency(f.body))),
                        payload |-> EncodeDependency(f.body)]
      BY <2>1, KindCodes DEF Written, WriteTo, WritePriority, Write
    <3> QED
      BY <3>2, <3>3, BitsOfFlags
  <2>2. CASE f.kind = "reset"
    <3>1. f.body \in U32
      BY <2>2 DEF IsFrame
    <3>2. IsPayload(PutU32(f.body))
      BY <3>1, U32Payload
    <3>3. Written(f) = [head |-> EncodeHead(3, 0, f.stream, Len(PutU32(f.body))),
                        payload |-> PutU32(f.body)]
      BY <2>2, KindCodes DEF Written, WriteTo, WriteReset, Write
    <3> QED
      BY <3>2, <3>3, BitsOfFlags
  <2>3. CASE f.kind = "continuation"
    <3>1. IsPayload(f.body)
      BY <2>3 DEF IsFrame
    <3>2. Written(f) = [head |-> EncodeHead(9, END_HEADERS, f.stream, Len(f.body)),
                        payload |-> f.body]
      BY <2>3, KindCodes DEF Written, WriteTo, WriteContinuation, Write
    <3> QED
      BY <3>1, <3>2, BitsOfFlags
  <2>4. CASE f.kind = "bin_code"
    <3>1. IsPayload(f.body)
      BY <2>4 DEF IsFrame
    <3>2. Written(f) = [head |-> EncodeHead(10, f.flags, f.stream, Len(f.body)),
                        payload |-> f.body]
      BY <2>4, KindCodes DEF Written, WriteTo, WriteBinCode, Write
    <3> QED
      BY <1>1, <3>1, <3>2
  <2> QED
    BY <2>1, <2>2, <2>3, <2>4
<1>3. KindFrom(c) \in {"priority", "reset", "continuation", "unknown"} /\ c \in Octet
  BY <1>2, KindsRead, CodesAreOctets
<1>4. ASSUME NEW s \in Side
      PROVE  SeenRaw(s, HeadOf(c, fl, f.stream, p), p) = Seen(s, f)
  <2> DEFINE h == HeadOf(c, fl, f.stream, p)
             g == [f EXCEPT !.stream = ClearMsb(@)]
  <2>1. h.kind \in {"priority", "reset", "continuation", "unknown"}
    BY <1>3 DEF HeadOf
  <2>2. g.kind \in {"priority", "reset", "continuation", "bin_code"}
    BY <1>1 DEF Frame
  <2>3. Seen(s, f) = IF s = "server" THEN Panic ELSE Frame("unknown", 0, Zero, <<>>)
    <3> HIDE DEF g
    <3> QED
      BY <2>2 DEF Seen, g
  <2> HIDE DEF h, g
  <2>4. SeenRaw(s, h, p) = IF s = "server" THEN Panic ELSE Frame("unknown", 0, Zero, <<>>)
    BY <2>1 DEF SeenRaw, PanicsOnHead, Decode
  <2> QED
    BY <2>3, <2>4 DEF h
<1>5. Carries(f, c, fl, f.stream, p)
  BY <1>1, <1>2, <1>3, <1>4 DEF Carries
<1> QED
  BY <1>5 DEF Carried

LEMMA SettingsCarried ==
  ASSUME NEW f, f.kind = "settings", IsFrame(f)
  PROVE  Carried(f)
<1> DEFINE p == EncodeSettings(f.body)
<1>1. /\ f = Frame("settings", f.flags, Zero, f.body) /\ f.stream = Zero
      /\ f.flags \in {0, ACK} /\ f.flags \in Octet /\ IsSettings(f.body)
  BY DEF IsFrame
<1>2. IsPayload(p) /\ Len(p) <= 36 /\ Len(p) \in Nat /\ (p = <<>> <=> f.body = NoSettings)
  BY <1>1, SettingsPayload DEF IsPayload
<1>3. Written(f) = [head |-> EncodeHead(4, f.flags, Zero, Len(p)), payload |-> p]
  BY <1>1, KindCodes DEF Written, WriteTo, WriteSettings, Write
<1>4. ASSUME NEW s \in Side
      PROVE  SeenRaw(s, HeadOf(4, f.flags, Zero, p), p) = Seen(s, f)
  <2> DEFINE h == HeadOf(4, f.flags, Zero, p)
             g == [f EXCEPT !.stream = ClearMsb(@)]
  <2>1. h.kind = "settings" /\ h.flags = f.flags /\ h.stream = Zero /\ h.length = Len(p)
    BY KindsRead, ZeroStream DEF HeadOf
  <2>2. g = f
    BY <1>1, ZeroStream DEF Frame
  <2>3. Seen(s, f) = SeenSettings(g)
    BY DEF Seen
  <2> HIDE DEF h, g, p
  <2>4. SeenRaw(s, h, p) = LoadSettings(h, p)
    <3>1. ~(h.length > 256)
      BY <1>2, <2>1
    <3> QED
      BY <2>1, <3>1 DEF SeenRaw, PanicsOnHead, Decode
  <2>5. CASE f.flags = ACK
    <3>1. LoadSettings(h, p) = IF p = <<>> THEN SettingsAck ELSE Error("InvalidPayloadLength")
      BY <2>1, <2>5, BitsOfFlags, LoadSettingsIs
    <3>2. f.body = NoSettings => f = SettingsAck
      BY <1>1, <2>5 DEF SettingsAck
    <3> QED
      BY <1>2, <2>2, <2>3, <2>4, <2>5, <3>1, <3>2 DEF SeenSettings, h
  <2>6. CASE f.flags = 0
    <3>1. LoadSettings(h, p) = IF \E v \in f.body[4] : MsbSet(v) THEN Error("InvalidSettingValue")
                               ELSE Frame("settings", 0, Zero, f.body)
      BY <1>1, <2>1, <2>6, BitsOfFlags, SettingsRoundTrip DEF p
    <3>2. f.flags # ACK
      BY <2>6 DEF ACK
    <3> QED
      BY <1>1, <2>2, <2>3, <2>4, <2>6, <3>1, <3>2 DEF SeenSettings, h
  <2> QED
    BY <1>1, <2>5, <2>6 DEF p
<1>5. KindFrom(4) # "window_update" /\ 4 \in Octet
  BY KindsRead, CodesAreOctets
<1>6. Carries(f, 4, f.flags, Zero, p)
  BY <1>1, <1>2, <1>3, <1>4, <1>5, ZeroStream DEF Carries
<1> QED
  BY <1>6 DEF Carried

LEMMA GoAwayCarried ==
  ASSUME NEW f, f.kind = "goaway", IsFrame(f)
  PROVE  Carried(f)
<1> DEFINE p == PutU32(f.body.last) \o PutU32(f.body.reason)
<1>1. /\ f = Frame("goaway", 0, Zero, f.body) /\ f.stream = Zero /\ f.flags = 0
      /\ f.body = [last |-> f.body.last, reason |-> f.body.reason]
      /\ f.body.last \in U32 /\ f.body.reason \in U32
  BY DEF IsFrame
<1>2. /\ IsPayload(p)
      /\ LoadGoAway(p) =
           Frame("goaway", 0, Zero, [last |-> ClearMsb(f.body.last), reason |-> f.body.reason])
  BY <1>1, GoAwayRoundTrip
<1>3. Written(f) = [head |-> EncodeHead(7, 0, Zero, Len(p)), payload |-> p]
  BY KindCodes DEF Written, WriteTo, WriteGoAway, Write
<1> HIDE DEF p
<1>4. ASSUME NEW s \in Side
      PROVE  SeenRaw(s, HeadOf(7, 0, Zero, p), p) = Seen(s, f)
  <2> DEFINE h == HeadOf(7, 0, Zero, p)
             g == [f EXCEPT !.stream = ClearMsb(@)]
  <2>1. h.kind = "goaway"
    BY KindsRead DEF HeadOf
  <2>2. g = f
    BY <1>1, ZeroStream DEF Frame
  <2>3. Seen(s, f) = [g EXCEPT !.body.last = ClearMsb(@)]
    BY DEF Seen
  <2> HIDE DEF h, g
  <2>4. [f EXCEPT !.body.last = ClearMsb(@)] = LoadGoAway(p)
    BY <1>1, <1>2 DEF Frame
  <2>5. SeenRaw(s, h, p) = LoadGoAway(p)
    BY <2>1 DEF SeenRaw, PanicsOnHead, Decode
  <2> QED
    BY <2>2, <2>3, <2>4, <2>5 DEF h
<1>5. KindFrom(7) # "window_update" /\ 7 \in Octet
  BY KindsRead, CodesAreOctets
<1>6. Carries(f, 7, 0, Zero, p)
  BY <1>1, <1>2, <1>3, <1>4, <1>5, ZeroStream, BitsOfFlags DEF Carries
<1> QED
  BY <1>6 DEF Carried

LEMMA WindowUpdateCarried ==
  ASSUME NEW f, f.kind = "window_update", IsFrame(f)
  PROVE  Carried(f)
<1> DEFINE p == PutU32(f.body)
<1>1. /\ f = Frame("window_update", 0, f.stream, f.body)
      /\ f.stream \in U32 /\ f.body \in U32 /\ f.flags = 0
  BY DEF IsFrame
<1>2. IsPayload(p) /\ Len(p) = 4
  BY <1>1, U32Payload
<1>3. Written(f) = [head |-> EncodeHead(8, 0, f.stream, Len(p)), payload |-> p]
  BY KindCodes DEF Written, WriteTo, WriteWindowUpdate, Write
<1>4. ASSUME NEW s \in Side
      PROVE  SeenRaw(s, HeadOf(8, 0, f.stream, p), p) = Seen(s, f)
  <2> DEFINE h == HeadOf(8, 0, f.stream, p)
             g == [f EXCEPT !.stream = ClearMsb(@)]
  <2>1. h.kind = "window_update" /\ h.stream = ClearMsb(f.stream)
    BY KindsRead DEF HeadOf
  <2>2. g = Frame("window_update", 0, ClearMsb(f.stream), f.body) /\ g.body = f.body
    BY <1>1 DEF Frame
  <2>3. Seen(s, f) = IF ClearMsb(g.body) = Zero THEN Error("InvalidWindowUpdateValue")
                     ELSE [g EXCEPT !.body = ClearMsb(@)]
    <3> HIDE DEF g
    <3>1. g.kind = "window_update"
      BY <2>2 DEF Frame
    <3> QED
      BY <3>1 DEF Seen, g
  <2> HIDE DEF h, g
  <2>4. [g EXCEPT !.body = ClearMsb(@)]
          = Frame("window_update", 0, ClearMsb(f.stream), ClearMsb(f.body))
    BY <2>2 DEF Frame
  <2>5. SeenRaw(s, h, p) = LoadWindowUpdate(h, p)
    BY <2>1 DEF SeenRaw, PanicsOnHead, Decode
  <2>6. LoadWindowUpdate(h, p) =
          IF ClearMsb(f.body) = Zero THEN Error("InvalidWindowUpdateValue")
          ELSE Frame("window_update", 0, h.stream, ClearMsb(f.body))
    BY <1>1, WindowUpdateRoundTrip
  <2> QED
    BY <2>1, <2>2, <2>3, <2>4, <2>5, <2>6 DEF h
<1>5. 8 \in Octet
  BY CodesAreOctets
<1> HIDE DEF p
<1>6. Carries(f, 8, 0, f.stream, p)
  BY <1>1, <1>2, <1>3, <1>4, <1>5, BitsOfFlags DEF Carries
<1> QED
  BY <1>6 DEF Carried

LEMMA ItemCarried ==
  ASSUME NEW f, Fits(f), f.kind # "unknown"
  PROVE  Carried(f)
<1>1. CASE f.kind = "raw"
  BY <1>1, RawCarried DEF Fits, IsItem
<1>2. CASE f.kind # "raw"
  <2>1. IsFrame(f)
    BY <1>2 DEF Fits, IsItem
  <2>2. f.kind \in {"data", "headers", "priority", "reset", "settings", "goaway",
                    "window_update", "continuation", "bin_code"}
    BY <2>1 DEF IsFrame
  <2> QED
    BY <2>1, <2>2, DataCarried, HeadersCarried, OtherCarried, SettingsCarried,
       GoAwayCarried, WindowUpdateCarried
<1> QED
  BY <1>1, <1>2

-----------------------------------------------------------------------------
(* What can be seen                                                        *)

LoadErrors == {"InvalidStreamId", "TooMuchPadding", "BadFrameSize", "InvalidPayloadLength",
               "InvalidPayloadAckSettings", "InvalidSettingValue", "InvalidWindowUpdateValue"}

\* A frame that can be sent on as it is.
Stable(s, g) ==
  /\ g.kind \in {"data", "headers", "settings", "goaway", "window_update"}
  /\ IsFrame(g) /\ ~MsbSet(g.stream) /\ Seen(s, g) = g

Outcome(s, g) ==
  \/ g = Panic
  \/ \E e \in LoadErrors : g = Error(e)
  \/ g = Frame("unknown", 0, Zero, <<>>)
  \/ Stable(s, g)

\* What Seen makes of a frame it need not change much.
LEMMA SeenAgain ==
  ASSUME NEW s \in Side, NEW fl \in Octet, NEW w \in U32, ~MsbSet(w), NEW b
  PROVE  /\ w # Zero /\ (IF s = "server" THEN fl = 0 ELSE HasBit(fl, PADDED) => ~BadPadding(b))
              => Seen(s, Frame("data", fl, w, b)) = Frame("data", fl, w, b)
         /\ Seen(s, Frame("headers", 0, w, b)) = Frame("headers", 0, w, b)
         /\ (\A v \in b[4] : ~MsbSet(v))
              => Seen(s, Frame("settings", 0, Zero, b)) = Frame("settings", 0, Zero, b)
         /\ Seen(s, SettingsAck) = SettingsAck
<1>1. \A k, l : [Frame(k, l, w, b) EXCEPT !.stream = ClearMsb(@)] = Frame(k, l, w, b)
  BY ReservedClear DEF Frame
<1>2. \A l, c : [Frame("settings", l, Zero, c) EXCEPT !.stream = ClearMsb(@)]
                = Frame("settings", l, Zero, c)
  BY ZeroStream DEF Frame
<1>3. ASSUME w # Zero, IF s = "server" THEN fl = 0 ELSE HasBit(fl, PADDED) => ~BadPadding(b)
      PROVE  Seen(s, Frame("data", fl, w, b)) = Frame("data", fl, w, b)
  <2> DEFINE g == Frame("data", fl, w, b)
  <2>1. /\ g.kind = "data" /\ g.flags = fl /\ g.stream = w /\ g.body = b
        /\ [g EXCEPT !.flags = fl] = g
    BY DEF Frame
  <2>2. [g EXCEPT !.stream = ClearMsb(@)] = g
    BY <1>1
  <2> HIDE DEF g
  <2>3. Seen(s, g) = SeenData(s, g)
    BY <2>1, <2>2 DEF Seen
  <2>4. SeenData(s, g) = g
    BY <1>3, <2>1 DEF SeenData, Side
  <2> QED
    BY <2>3, <2>4 DEF g
<1>4. Seen(s, Frame("headers", 0, w, b)) = Frame("headers", 0, w, b)
  <2> DEFINE g == Frame("headers", 0, w, b)
  <2>1. g.kind = "headers" /\ [g EXCEPT !.flags = 0] = g
    BY DEF Frame
  <2>2. [g EXCEPT !.stream = ClearMsb(@)] = g
    BY <1>1
  <2> HIDE DEF g
  <2>3. Seen(s, g) = g
    BY <2>1, <2>2 DEF Seen
  <2> QED
    BY <2>3 DEF g
<1>5. \A l, c : Seen(s, Frame("settings", l, Zero, c)) = SeenSettings(Frame("settings", l, Zero, c))
  <2> TAKE l, c
  <2> DEFINE g == Frame("settings", l, Zero, c)
  <2>1. g.kind = "settings"
    BY DEF Frame
  <2>2. [g EXCEPT !.stream = ClearMsb(@)] = g
    BY <1>2
  <2> HIDE DEF g
  <2>3. Seen(s, g) = SeenSettings(g)
    BY <2>1, <2>2 DEF Seen
  <2> QED
    BY <2>3 DEF g
<1>6. ASSUME \A v \in b[4] : ~MsbSet(v)
      PROVE  Seen(s, Frame("settings", 0, Zero, b)) = Frame("settings", 0, Zero, b)
  BY <1>5, <1>6 DEF SeenSettings, Frame, ACK
<1>7. Seen(s, SettingsAck) = SettingsAck
  BY <1>5 DEF SeenSettings, SettingsAck, Frame
<1> QED
  BY <1>3, <1>4, <1>6, <1>7

LEMMA SeenAgainCleared ==
  ASSUME NEW s \in Side, NEW w \in U32, ~MsbSet(w), NEW a \in U32, ~MsbSet(a), NEW b
  PROVE  /\ a # Zero
              => Seen(s, Frame("window_update", 0, w, a)) = Frame("window_update", 0, w, a)
         /\ LET g == Frame("goaway", 0, Zero, [last |-> a, reason |-> b]) IN Seen(s, g) = g
<1>1. ASSUME a # Zero
      PROVE  Seen(s, Frame("window_update", 0, w, a)) = Frame("window_update", 0, w, a)
  <2> DEFINE g == Frame("window_update", 0, w, a)
  <2>1. g.kind = "window_update" /\ g.body = a /\ ClearMsb(g.body) = a /\ ClearMsb(g.body) # Zero
    BY <1>1, ReservedClear DEF Frame
  <2>2. [g EXCEPT !.stream = ClearMsb(@)] = g /\ [g EXCEPT !.body = ClearMsb(@)] = g
    BY ReservedClear DEF Frame
  <2> HIDE DEF g
  <2>3. Seen(s, g) = g
    BY <2>1, <2>2 DEF Seen
  <2> QED
    BY <2>3 DEF g
<1>2. LET g == Frame("goaway", 0, Zero, [last |-> a, reason |-> b]) IN Seen(s, g) = g
  <2> DEFINE g == Frame("goaway", 0, Zero, [last |-> a, reason |-> b])
  <2>1. g.kind = "goaway"
    BY DEF Frame
  <2>2. [g EXCEPT !.stream = ClearMsb(@)] = g /\ [g EXCEPT !.body.last = ClearMsb(@)] = g
    BY ReservedClear, ZeroStream DEF Frame
  <2> HIDE DEF g
  <2>3. Seen(s, g) = g
    BY <2>1, <2>2 DEF Seen
  <2> QED
    BY <2>3 DEF g
<1> QED
  BY <1>1, <1>2

LEMMA Outcomes ==
  ASSUME NEW s
  PROVE  /\ Outcome(s, Panic) /\ Outcome(s, Frame("unknown", 0, Zero, <<>>))
         /\ Outcome(s, Error("InvalidStreamId")) /\ Outcome(s, Error("TooMuchPadding"))
         /\ Outcome(s, Error("BadFrameSize")) /\ Outcome(s, Error("InvalidPayloadLength"))
         /\ Outcome(s, Error("InvalidPayloadAckSettings"))
         /\ Outcome(s, Error("InvalidSettingValue"))
         /\ Outcome(s, Error("InvalidWindowUpdateValue"))
         /\ \A g : Stable(s, g) => Outcome(s, g)
<1>1. \A e \in LoadErrors : Outcome(s, Error(e))
  BY Zenon DEF Outcome
<1>2. /\ "InvalidStreamId" \in LoadErrors /\ "TooMuchPadding" \in LoadErrors
      /\ "BadFrameSize" \in LoadErrors /\ "InvalidPayloadLength" \in LoadErrors
      /\ "InvalidPayloadAckSettings" \in LoadErrors /\ "InvalidSettingValue" \in LoadErrors
      /\ "InvalidWindowUpdateValue" \in LoadErrors
  BY DEF LoadErrors
<1>3. /\ Outcome(s, Panic) /\ Outcome(s, Frame("unknown", 0, Zero, <<>>))
      /\ \A g : Stable(s, g) => Outcome(s, g)
  BY Zenon DEF Outcome
<1> QED
  BY <1>1, <1>2, <1>3, Zenon

\* A payload that is read is refused or can be sent on, whatever it is.
LEMMA DecodeOutcome ==
  ASSUME NEW s \in Side, NEW c \in Octet, NEW fl \in Octet, NEW w \in U32,
         NEW p, IsPayload(p), KindFrom(c) = "window_update" => Len(p) = 4,
         ~PanicsOnHead(s, HeadOf(c, fl, w, p))
  PROVE  Outcome(s, Decode(s, HeadOf(c, fl, w, p), p))
<1> DEFINE h == HeadOf(c, fl, w, p)
           v == ClearMsb(w)
           g == Decode(s, h, p)
<1>1. h.kind = KindFrom(c) /\ h.flags = fl /\ h.stream = v
  BY DEF HeadOf
<1>2. v \in U32 /\ ~MsbSet(v)
  BY ClearMsbIs
<1>3. p \in Seq(Octet) /\ Len(p) \in Nat
  BY DEF IsPayload
<1> SUFFICES Outcome(s, g)
  OBVIOUS
<1> HIDE DEF h, v
<1>4. CASE h.kind = "data" /\ s = "client"
  <2> DEFINE d == Frame("data", DataFlags(fl), v, p)
  <2>1. g = LoadData(h, p)
    BY <1>4 DEF Decode
  <2>2. SUFFICES ASSUME v # Zero, HasBit(fl, PADDED) => ~BadPadding(p)
                 PROVE  Stable(s, d)
    BY <1>1, <2>1, Outcomes DEF LoadData
  <2>3. Seen(s, d) = d
    <3>1. DataFlags(fl) \in Octet /\ (HasBit(DataFlags(fl), PADDED) => HasBit(fl, PADDED))
      BY FlagsLoaded
    <3> QED
      BY <1>2, <1>4, <2>2, <3>1, SeenAgain
  <2>4. d.kind = "data" /\ d.flags = DataFlags(fl) /\ d.stream = v /\ d.body = p
    BY DEF Frame
  <2>5. d = Frame(d.kind, d.flags, d.stream, d.body)
    BY <2>4
  <2> HIDE DEF d
  <2>6. IsFrame(d)
    BY <1>2, <2>2, <2>4, <2>5, FlagsLoaded DEF IsFrame
  <2> QED
    BY <1>2, <2>3, <2>4, <2>6 DEF Stable
<1>5. CASE h.kind = "data" /\ s = "server"
  <2> DEFINE d == Frame("data", 0, v, p)
  <2>1. g = NewData(v, p)
    BY <1>1, <1>5 DEF Decode
  <2>2. SUFFICES ASSUME v # Zero
                 PROVE  Stable(s, d)
    BY <2>1, Outcomes DEF NewData
  <2>3. Seen(s, d) = d
    BY <1>2, <1>5, <2>2, BitsOfFlags, SeenAgain
  <2>4. d.kind = "data" /\ d.flags = 0 /\ d.stream = v /\ d.body = p
    BY DEF Frame
  <2>5. d = Frame(d.kind, d.flags, d.stream, d.body)
    BY <2>4
  <2> HIDE DEF d
  <2>6. IsFrame(d)
    BY <1>2, <2>4, <2>5, BitsOfFlags DEF IsFrame
  <2> QED
    BY <1>2, <2>3, <2>4, <2>6 DEF Stable
<1>6. CASE h.kind = "headers"
  <2> DEFINE d == Frame("headers", 0, v, p)
  <2>1. g = d
    BY <1>1, <1>6 DEF Decode
  <2>2. Seen(s, d) = d
    BY <1>2, BitsOfFlags, SeenAgain
  <2>3. d.kind = "headers" /\ d.flags = 0 /\ d.stream = v /\ d.body = p
    BY DEF Frame
  <2>4. d = Frame(d.kind, d.flags, d.stream, d.body)
    BY <2>3
  <2> HIDE DEF d
  <2>5. IsFrame(d)
    BY <1>2, <2>3, <2>4, BitsOfFlags DEF IsFrame
  <2>6. Stable(s, d)
    BY <1>2, <2>2, <2>3, <2>5 DEF Stable
  <2> QED
    BY <2>1, <2>6, Outcomes
<1>7. CASE h.kind = "settings"
  <2>1. g = LoadSettings(h, p)
    BY <1>7 DEF Decode
  <2>2. CASE g \in {Error(e) : e \in {"InvalidStreamId", "InvalidPayloadLength",
                                      "InvalidPayloadAckSettings", "InvalidSettingValue"}}
    BY <2>2, Outcomes
  <2>3. CASE g = SettingsAck
    <3>1. IsSettings(NoSettings)
      BY DEF IsSettings, NoSettings
    <3>2. /\ SettingsAck.kind = "settings" /\ SettingsAck.flags = ACK
          /\ SettingsAck.stream = Zero /\ SettingsAck.body = NoSettings
      BY DEF SettingsAck, Frame
    <3>3. SettingsAck = Frame(SettingsAck.kind, SettingsAck.flags, SettingsAck.stream,
                              SettingsAck.body)
      BY <3>2 DEF SettingsAck
    <3>4. IsFrame(SettingsAck)
      BY <3>1, <3>2, <3>3, BitsOfFlags, ZeroStream DEF IsFrame
    <3>5. Seen(s, SettingsAck) = SettingsAck
      BY <1>2, BitsOfFlags, SeenAgain
    <3> QED
      BY <2>3, <3>2, <3>4, <3>5, ZeroStream, Outcomes DEF Stable
  <2>4. ASSUME NEW b, g = Frame("settings", 0, Zero, b),
               IsSettings(b), \A x \in b[4] : ~MsbSet(x)
        PROVE  Outcome(s, g)
    <3>1. g.kind = "settings" /\ g.flags = 0 /\ g.stream = Zero /\ g.body = b
      BY <2>4 DEF Frame
    <3>2. g = Frame(g.kind, g.flags, g.stream, g.body)
      BY <2>4, <3>1
    <3>3. Seen(s, g) = g
      BY <1>2, <2>4, BitsOfFlags, SeenAgain
    <3> HIDE DEF g
    <3>4. IsFrame(g)
      BY <2>4, <3>1, <3>2, BitsOfFlags, ZeroStream DEF IsFrame
    <3> QED
      BY <3>1, <3>3, <3>4, ZeroStream, Outcomes DEF Stable
  <2> QED
    BY <1>3, <2>1, <2>2, <2>3, <2>4, LoadedSettings
<1>8. CASE h.kind = "goaway"
  <2>1. g = LoadGoAway(p)
    BY <1>8 DEF Decode
  <2>2. CASE Len(p) < 8
    BY <2>1, <2>2, Outcomes DEF LoadGoAway
  <2>3. CASE ~(Len(p) < 8)
    <3> DEFINE a == ClearMsb(GetU32(p, 1))
               b == GetU32(p, 5)
               d == Frame("goaway", 0, Zero, [last |-> a, reason |-> b])
    <3>1. GetU32(p, 1) \in U32 /\ b \in U32
      <4>1. 1 \in 1..Len(p) - 3 /\ 5 \in 1..Len(p) - 3
        BY <1>3, <2>3
      <4> QED
        BY <1>3, <4>1, GetU32Is
    <3>2. a \in U32 /\ ~MsbSet(a)
      BY <3>1, ClearMsbIs
    <3>3. g = d
      BY <2>1, <2>3 DEF LoadGoAway, ParseStreamId
    <3> HIDE DEF a, b
    <3>4. Seen(s, d) = d
      BY <1>2, <3>2, SeenAgainCleared
    <3>5. /\ d.kind = "goaway" /\ d.flags = 0 /\ d.stream = Zero
          /\ d.body = [last |-> a, reason |-> b]
      BY DEF Frame
    <3>6. d = Frame(d.kind, d.flags, d.stream, d.body)
      BY <3>5
    <3> HIDE DEF d
    <3>7. IsFrame(d)
      BY <3>1, <3>2, <3>5, <3>6, BitsOfFlags, ZeroStream DEF IsFrame
    <3>8. Stable(s, d)
      BY <3>4, <3>5, <3>7, ZeroStream DEF Stable
    <3> QED
      BY <3>3, <3>8, Outcomes
  <2> QED
    BY <2>2, <2>3
<1>9. CASE h.kind = "window_update"
  <2> DEFINE a == ClearMsb(GetU32(p, 1))
             d == Frame("window_update", 0, v, a)
  <2>1. g = IF a = Zero THEN Error("InvalidWindowUpdateValue") ELSE d
    BY <1>1, <1>9 DEF Decode, LoadWindowUpdate
  <2>2. a \in U32 /\ ~MsbSet(a)
    <3>1. Len(p) = 4
      BY <1>1, <1>9
    <3>2. 1 \in 1..Len(p) - 3
      BY <3>1
    <3> QED
      BY <1>3, <3>2, GetU32Is, ClearMsbIs
  <2> HIDE DEF a
  <2>3. SUFFICES ASSUME a # Zero
                 PROVE  Stable(s, d)
    BY <2>1, Outcomes
  <2>4. Seen(s, d) = d
    BY <1>2, <2>2, <2>3, SeenAgainCleared
  <2>5. d.kind = "window_update" /\ d.flags = 0 /\ d.stream = v /\ d.body = a
    BY DEF Frame
  <2>6. d = Frame(d.kind, d.flags, d.stream, d.body)
    BY <2>5
  <2> HIDE DEF d
  <2>7. IsFrame(d)
    BY <1>2, <2>2, <2>5, <2>6, BitsOfFlags DEF IsFrame
  <2> QED
    BY <1>2, <2>4, <2>5, <2>7 DEF Stable
<1>10. CASE h.kind \notin {"data", "headers", "settings", "goaway", "window_update"}
  BY <1>10, Outcomes DEF Decode
<1> QED
  BY <1>4, <1>5, <1>6, <1>7, <1>8, <1>9, <1>10 DEF Side

-----------------------------------------------------------------------------
(* An item on the stream                                                   *)

LEMMA ItemRead ==
  ASSUME NEW f, Fits(f), f.kind # "unknown"
  PROVE  LET h == ParseHead(Written(f).head)
             p == Written(f).payload
         IN  /\ Written(f).head \in Seq(Octet) /\ Len(Written(f).head) = HEADER_LEN
             /\ p \in Seq(Octet) /\ PayloadLength(h) = Len(p)
             /\ h.kind \in Kind /\ h.flags \in Octet /\ h.length \in Nat
             /\ h.stream \in U32 /\ ~MsbSet(h.stream)
             /\ \A s \in Side : /\ SeenRaw(s, h, p) = Seen(s, f)
                                /\ Outcome(s, Seen(s, f))
<1> DEFINE h == ParseHead(Written(f).head)
           p == Written(f).payload
<1>1. PICK c, fl, w, q : Carries(f, c, fl, w, q)
  BY ItemCarried DEF Carried
<1>2. /\ c \in Octet /\ fl \in Octet /\ w \in U32 /\ IsPayload(q)
      /\ KindFrom(c) = "window_update" => Len(q) = 4
      /\ Written(f).head = EncodeHead(c, fl, w, Len(q)) /\ p = q
      /\ \A s \in Side : SeenRaw(s, HeadOf(c, fl, w, q), q) = Seen(s, f)
  BY <1>1 DEF Carries
<1>3. /\ Written(f).head \in Seq(Octet) /\ Len(Written(f).head) = HEADER_LEN
      /\ h = HeadOf(c, fl, w, q)
  BY <1>2, HeadOfPayload DEF HeadOf
<1>4. q \in Seq(Octet) /\ Len(q) \in Nat
  BY <1>2 DEF IsPayload
<1>5. /\ h.kind = KindFrom(c) /\ h.flags = fl /\ h.length = Len(q)
      /\ h.stream = ClearMsb(w)
  BY <1>3 DEF HeadOf
<1>6. PayloadLength(h) = Len(q)
  BY <1>2, <1>5 DEF PayloadLength
<1>7. h.kind \in Kind /\ h.stream \in U32 /\ ~MsbSet(h.stream)
  BY <1>2, <1>5, KindOfCode, ClearMsbIs
<1>8. ASSUME NEW s \in Side
      PROVE  SeenRaw(s, h, p) = Seen(s, f) /\ Outcome(s, Seen(s, f))
  <2>1. SeenRaw(s, h, p) = Seen(s, f)
    BY <1>2, <1>3
  <2>2. CASE PanicsOnHead(s, h)
    BY <2>1, <2>2 DEF SeenRaw, Outcome
  <2>3. CASE ~PanicsOnHead(s, h)
    <3>1. Outcome(s, Decode(s, h, p))
      BY <1>2, <1>3, <2>3, DecodeOutcome
    <3> QED
      BY <2>1, <2>3, <3>1 DEF SeenRaw
  <2> QED
    BY <2>1, <2>2, <2>3
<1> QED
  BY <1>2, <1>3, <1>4, <1>5, <1>6, <1>7, <1>8

-----------------------------------------------------------------------------
(* Pieces of a stream                                                      *)

\* The octets after the a-th, up to the b-th.
Part(w, a, b) == SubSeq(w, a + 1, b)
Joint(h, p) == h \o p

LEMMA Piece ==
  ASSUME NEW w \in Seq(Octet), NEW a \in Nat, NEW b \in Nat, a <= b, b <= Len(w)
  PROVE  /\ SubSeq(w, a + 1, b) \in Seq(Octet) /\ Len(SubSeq(w, a + 1, b)) = b - a
         /\ \A i \in 1..b - a : SubSeq(w, a + 1, b)[i] = w[a + i]
<1>1. \A i \in a + 1..b : w[i] \in Octet
  OBVIOUS
<1> DEFINE p == SubSeq(w, a + 1, b)
<1>2. /\ p \in Seq(Octet)
      /\ Len(p) = IF a + 1 <= b THEN b - (a + 1) + 1 ELSE 0
      /\ \A i \in 1..b - (a + 1) + 1 : p[i] = w[a + 1 + i - 1]
  BY <1>1, SubSeqProperties
<1> HIDE DEF p
<1>3. Len(p) = b - a
  BY <1>2
<1>4. ASSUME NEW i \in 1..b - a
      PROVE  p[i] = w[a + i]
  <2>1. i \in 1..b - (a + 1) + 1 /\ a + 1 + i - 1 = a + i
    OBVIOUS
  <2> QED
    BY <1>2, <2>1
<1> QED
  BY <1>2, <1>3, <1>4 DEF p

LEMMA SameSeq ==
  ASSUME NEW p \in Seq(Octet), NEW q \in Seq(Octet), Len(p) = Len(q),
         \A i \in 1..Len(p) : p[i] = q[i]
  PROVE  p = q
BY SeqEqual

\* What has been written stays.
LEMMA PieceStays ==
  ASSUME NEW w \in Seq(Octet), NEW x \in Seq(Octet),
         NEW a \in Nat, NEW b \in Nat, a <= b, b <= Len(w)
  PROVE  SubSeq(w \o x, a + 1, b) = SubSeq(w, a + 1, b)
<1> DEFINE v == w \o x
<1>1. v \in Seq(Octet) /\ Len(v) = Len(w) + Len(x) /\ \A i \in 1..Len(w) : v[i] = w[i]
  BY Joined
<1> HIDE DEF v
<1>2. b <= Len(v)
  BY <1>1
<1> DEFINE p == SubSeq(v, a + 1, b)
           q == SubSeq(w, a + 1, b)
<1>3. /\ p \in Seq(Octet) /\ Len(p) = b - a /\ \A i \in 1..b - a : p[i] = v[a + i]
      /\ q \in Seq(Octet) /\ Len(q) = b - a /\ \A i \in 1..b - a : q[i] = w[a + i]
  BY <1>1, <1>2, Piece
<1> HIDE DEF p, q
<1>4. \A i \in 1..b - a : a + i \in 1..Len(w)
  OBVIOUS
<1>5. \A i \in 1..b - a : p[i] = q[i]
  BY <1>1, <1>3, <1>4
<1>6. p = q
  BY <1>3, <1>5, SameSeq
<1> QED
  BY <1>6 DEF p, q, v

\* The last piece grows by what is written.
LEMMA PieceGrows ==
  ASSUME NEW w \in Seq(Octet), NEW x \in Seq(Octet), NEW a \in Nat, a <= Len(w)
  PROVE  SubSeq(w \o x, a + 1, Len(w \o x)) = SubSeq(w, a + 1, Len(w)) \o x
<1> DEFINE v == w \o x
           p == SubSeq(v, a + 1, Len(v))
           q == SubSeq(w, a + 1, Len(w))
           r == q \o x
<1>1. /\ v \in Seq(Octet) /\ Len(v) = Len(w) + Len(x)
      /\ \A i \in 1..Len(w) : v[i] = w[i]
      /\ \A i \in 1..Len(x) : v[Len(w) + i] = x[i]
  BY Joined
<1> HIDE DEF v
<1>2. a <= Len(v) /\ Len(v) \in Nat /\ Len(w) \in Nat /\ Len(x) \in Nat
  BY <1>1
<1>3. /\ p \in Seq(Octet) /\ Len(p) = Len(v) - a /\ \A i \in 1..Len(v) - a : p[i] = v[a + i]
      /\ q \in Seq(Octet) /\ Len(q) = Len(w) - a /\ \A i \in 1..Len(w) - a : q[i] = w[a + i]
  BY <1>1, <1>2, Piece
<1> HIDE DEF p, q
<1>4. /\ r \in Seq(Octet) /\ Len(r) = Len(q) + Len(x)
      /\ \A i \in 1..Len(q) : r[i] = q[i]
      /\ \A i \in 1..Len(x) : r[Len(q) + i] = x[i]
  BY <1>3, Joined
<1> HIDE DEF r
<1>5. Len(p) = Len(r)
  BY <1>1, <1>2, <1>3, <1>4
<1>6. ASSUME NEW i \in 1..Len(p)
      PROVE  p[i] = r[i]
  <2>1. i \in Nat /\ p[i] = v[a + i]
    BY <1>2, <1>3
  <2>2. CASE i <= Len(w) - a
    <3>1. i \in 1..Len(w) - a /\ i \in 1..Len(q) /\ a + i \in 1..Len(w)
      BY <1>2, <1>3, <2>1, <2>2
    <3> QED
      BY <1>1, <1>3, <1>4, <2>1, <3>1
  <2>3. CASE ~(i <= Len(w) - a)
    <3> DEFINE j == i - (Len(w) - a)
    <3>1. j \in 1..Len(x) /\ a + i = Len(w) + j /\ i = Len(q) + j
      BY <1>1, <1>2, <1>3, <2>1, <2>3
    <3> HIDE DEF j
    <3>2. v[a + i] = x[j]
      BY <1>1, <3>1
    <3>3. r[i] = x[j]
      BY <1>4, <3>1
    <3> QED
      BY <2>1, <3>2, <3>3
  <2> QED
    BY <2>2, <2>3
<1>7. p = r
  BY <1>3, <1>4, <1>5, <1>6, SameSeq
<1> QED
  BY <1>7 DEF p, q, r, v

\* A piece made of two can be taken in two.
LEMMA PieceOfTwo ==
  ASSUME NEW w \in Seq(Octet), NEW h \in Seq(Octet), NEW p \in Seq(Octet),
         NEW a \in Nat, NEW b \in Nat, a <= b, b <= Len(w), Part(w, a, b) = Joint(h, p)
  PROVE  /\ b = (a + Len(h)) + Len(p)
         /\ Part(w, a, a + Len(h)) = h
         /\ Part(w, a + Len(h), (a + Len(h)) + Len(p)) = p
<1> DEFINE v == h \o p
           c == a + Len(h)
           d == SubSeq(w, a + 1, c)
           e == SubSeq(w, c + 1, b)
<1>1. /\ v \in Seq(Octet) /\ Len(v) = Len(h) + Len(p)
      /\ \A i \in 1..Len(h) : v[i] = h[i]
      /\ \A i \in 1..Len(p) : v[Len(h) + i] = p[i]
  BY Joined
<1>2. Len(v) = b - a /\ \A i \in 1..b - a : v[i] = w[a + i]
  BY Piece DEF Part, Joint
<1>3. Len(h) \in Nat /\ Len(p) \in Nat
  OBVIOUS
<1> HIDE DEF v
<1>4. c \in Nat /\ a <= c /\ c <= b /\ c <= Len(w) /\ b = c + Len(p)
  <2>1. b - a = Len(h) + Len(p)
    BY <1>1, <1>2
  <2> QED
    BY <1>3, <2>1
<1>5. c = a + Len(h)
  OBVIOUS
<1> HIDE DEF c
<1>6. /\ d \in Seq(Octet) /\ Len(d) = c - a /\ \A i \in 1..c - a : d[i] = w[a + i]
      /\ e \in Seq(Octet) /\ Len(e) = b - c /\ \A i \in 1..b - c : e[i] = w[c + i]
  BY <1>4, Piece
<1> HIDE DEF d, e
<1>7. d = h
  <2>1. Len(d) = Len(h)
    BY <1>3, <1>5, <1>6
  <2>2. ASSUME NEW i \in 1..Len(d)
        PROVE  d[i] = h[i]
    <3>1. i \in 1..c - a /\ i \in 1..Len(h)
      BY <1>6, <2>1
    <3>2. i \in 1..b - a
      BY <1>4, <3>1
    <3> QED
      BY <1>1, <1>2, <1>6, <3>1, <3>2
  <2> QED
    BY <1>6, <2>1, <2>2, SameSeq
<1>8. e = p
  <2>1. Len(e) = Len(p)
    BY <1>3, <1>4, <1>6
  <2>2. ASSUME NEW i \in 1..Len(e)
        PROVE  e[i] = p[i]
    <3>1. i \in 1..b - c /\ i \in 1..Len(p)
      BY <1>6, <2>1
    <3>2. Len(h) + i \in 1..b - a /\ a + (Len(h) + i) = c + i
      BY <1>3, <1>4, <1>5, <3>1
    <3> QED
      BY <1>1, <1>2, <1>6, <3>1, <3>2
  <2> QED
    BY <1>6, <2>1, <2>2, SameSeq
<1> QED
  BY <1>4, <1>7, <1>8 DEF Part, c, d, e

-----------------------------------------------------------------------------
(* The items and their places                                              *)

Sequences == \E S : written \in Seq(S) /\ half \in Seq(S) /\ got \in Seq(S)

Inv == Sequences /\ TypeOK /\ IInv /\ FramesInOrder /\ EndsWhenDue

LEMMA Basics ==
  ASSUME Sequences, TypeOK
  PROVE  /\ Len(written) \in Nat /\ Len(got) \in Nat /\ Len(half) \in {0, 1}
         /\ Len(Sent) = Len(written) + Len(half)
         /\ half = <<>> => Len(half) = 0 /\ Sent = written
         /\ half # <<>> => Len(half) = 1 /\ Sent[Len(Sent)] = half[1]
         /\ \A i \in 1..Len(written) : Sent[i] = written[i]
         /\ side \in Side /\ wire \in Seq(Octet) /\ Len(wire) \in Nat
         /\ taken \in Nat /\ taken <= Len(wire)
         /\ starts \in Seq(Nat)
<1>1. PICK S : written \in Seq(S) /\ half \in Seq(S) /\ got \in Seq(S)
  BY DEF Sequences
<1>2. /\ Len(Sent) = Len(written) + Len(half)
      /\ \A i \in 1..Len(written) + Len(half) :
           Sent[i] = IF i <= Len(written) THEN written[i] ELSE half[i - Len(written)]
  BY <1>1, ConcatProperties DEF Sent
<1>3. Len(written) \in Nat /\ Len(got) \in Nat /\ Len(half) \in {0, 1}
  BY <1>1 DEF TypeOK
<1>4. ASSUME half = <<>>
      PROVE  Len(half) = 0 /\ Sent = written
  BY <1>1, <1>4, ConcatEmptySeq DEF Sent
<1>5. ASSUME half # <<>>
      PROVE  Len(half) = 1 /\ Sent[Len(Sent)] = half[1]
  <2>1. Len(half) = 1
    BY <1>1, <1>3, <1>5, EmptySeq
  <2>2. Len(Sent) = Len(written) + 1 /\ Len(Sent) \in 1..Len(written) + Len(half)
        /\ ~(Len(Sent) <= Len(written)) /\ Len(Sent) - Len(written) = 1
    BY <1>2, <1>3, <2>1
  <2> QED
    BY <1>2, <2>1, <2>2
<1>6. \A i \in 1..Len(written) : Sent[i] = written[i]
  BY <1>2, <1>3
<1>7. /\ side \in Side /\ wire \in Seq(Octet) /\ Len(wire) \in Nat
      /\ taken \in Nat /\ taken <= Len(wire) /\ starts \in Seq(Nat)
  BY DEF TypeOK, Side
<1> QED
  BY <1>2, <1>3, <1>4, <1>5, <1>6, <1>7

LEMMA Beginnings ==
  ASSUME Sequences, TypeOK, Placed
  PROVE  /\ \A i \in 1..Len(Sent) : Begin(i) = starts[i]
         /\ Begin(Len(Sent) + 1) = Len(wire)
         /\ \A i \in 1..Len(Sent) + 1 : Begin(i) \in Nat /\ Begin(i) <= Len(wire)
<1>1. Len(Sent) \in Nat /\ Len(wire) \in Nat /\ starts \in Seq(Nat) /\ Len(starts) = Len(Sent)
  BY Basics DEF Placed
<1>2. \A i \in 1..Len(Sent) : Begin(i) = starts[i] /\ starts[i] \in Nat
  BY <1>1 DEF Begin
<1>3. Begin(Len(Sent) + 1) = Len(wire)
  BY <1>1 DEF Begin
<1>4. ASSUME NEW i \in 1..Len(Sent) + 1
      PROVE  Begin(i) \in Nat /\ Begin(i) <= Len(wire)
  <2>1. CASE i = Len(Sent) + 1
    BY <1>1, <1>3, <2>1
  <2>2. CASE i # Len(Sent) + 1
    <3>1. i \in 1..Len(Sent)
      BY <1>1, <2>2
    <3>2. starts[i] <= Begin(i + 1) /\ Begin(i + 1) <= Len(wire)
      BY <3>1 DEF Placed
    <3>3. i + 1 \in 1..Len(Sent) \/ i + 1 = Len(Sent) + 1
      BY <1>1, <3>1
    <3>4. Begin(i + 1) \in Nat
      BY <1>1, <1>2, <1>3, <3>3
    <3> QED
      BY <1>1, <1>2, <3>1, <3>2, <3>4
  <2> QED
    BY <2>1, <2>2
<1> QED
  BY <1>2, <1>3, <1>4

\* Where the k-th item is, and what a reader past its head finds.
LEMMA ItemPlaced ==
  ASSUME Sequences, TypeOK, Placed, NEW k \in 1..Len(Sent)
  PROVE  LET f == Sent[k]
             c == starts[k] + HEADER_LEN
             p == Written(f).payload
         IN  /\ Fits(f) /\ f.kind # "unknown"
             /\ starts[k] \in Nat /\ c \in Nat /\ c <= Len(wire) /\ Len(p) \in Nat
             /\ SubSeq(wire, starts[k] + 1, c) = Written(f).head
             /\ k <= Len(written) => Len(wire) - c >= Len(p)
             /\ Len(wire) - c >= Len(p) =>
                  /\ SubSeq(wire, c + 1, c + Len(p)) = p
                  /\ Begin(k + 1) = c + Len(p)
                  /\ k > Len(written) => Len(p) = 0 /\ f = half[1]
<1> DEFINE f == Sent[k]
           a == starts[k]
           b == Begin(k + 1)
           h == Written(f).head
           p == Written(f).payload
           c == a + HEADER_LEN
<1>1. Fits(f) /\ f.kind # "unknown"
  BY DEF TypeOK
<1>2. /\ h \in Seq(Octet) /\ Len(h) = HEADER_LEN /\ p \in Seq(Octet)
      /\ Len(p) \in Nat /\ HEADER_LEN \in Nat
  BY <1>1, ItemRead DEF HEADER_LEN
<1>3. Len(Sent) \in Nat /\ Len(wire) \in Nat /\ wire \in Seq(Octet) /\ k \in Nat
  BY Basics
<1>4. a \in Nat /\ b \in Nat /\ a <= b /\ b <= Len(wire) /\ SubSeq(wire, a + 1, b) = OctetsOf(k)
  <2>1. k \in 1..Len(Sent) + 1 /\ k + 1 \in 1..Len(Sent) + 1
    BY <1>3
  <2>2. a \in Nat /\ b \in Nat /\ b <= Len(wire)
    BY <2>1, Beginnings
  <2>3. a <= b /\ SubSeq(wire, a + 1, b) = OctetsOf(k)
    BY DEF Placed
  <2> QED
    BY <2>2, <2>3
<1>5. CASE k <= Len(written)
  <2>1. Part(wire, a, b) = Joint(h, p)
    BY <1>4, <1>5 DEF OctetsOf, Part, Joint
  <2> HIDE DEF a, b, h, p
  <2>2. /\ b = (a + Len(h)) + Len(p) /\ Part(wire, a, a + Len(h)) = h
        /\ Part(wire, a + Len(h), (a + Len(h)) + Len(p)) = p
    <3>1. /\ wire \in Seq(Octet) /\ h \in Seq(Octet) /\ p \in Seq(Octet)
          /\ a \in Nat /\ b \in Nat /\ a <= b /\ b <= Len(wire)
      BY <1>2, <1>3, <1>4
    <3> QED
      BY <2>1, <3>1, PieceOfTwo
  <2>3. a + Len(h) = c
    BY <1>2
  <2>4. c \in Nat /\ b = c + Len(p) /\ c <= Len(wire) /\ Len(wire) - c >= Len(p)
    BY <1>2, <1>3, <1>4, <2>2, <2>3
  <2>5. ~(k > Len(written))
    BY <1>3, <1>5, Basics
  <2> QED
    BY <1>1, <1>2, <1>4, <2>2, <2>3, <2>4, <2>5 DEF Part, a, b, h, p
<1>6. CASE ~(k <= Len(written))
  <2>1. SubSeq(wire, a + 1, b) = h
    BY <1>4, <1>6 DEF OctetsOf
  <2>2. half # <<>> /\ k = Len(Sent) /\ f = half[1]
    <3>1. half # <<>> /\ Len(half) = 1
      BY <1>3, <1>6, Basics
    <3>2. k = Len(Sent)
      BY <1>3, <1>6, <3>1, Basics
    <3> QED
      BY <3>1, <3>2, Basics
  <2>3. b = Len(wire)
    BY <2>2, Beginnings
  <2> HIDE DEF a, b, h, p, f
  <2>4. Len(SubSeq(wire, a + 1, b)) = b - a
    BY <1>3, <1>4, Piece
  <2>5. b = c /\ c \in Nat /\ c <= Len(wire)
    BY <1>2, <1>3, <1>4, <2>1, <2>4
  <2>6. ASSUME Len(wire) - c >= Len(p)
        PROVE  Len(p) = 0 /\ SubSeq(wire, c + 1, c + Len(p)) = p /\ b = c + Len(p)
    <3>1. Len(p) = 0
      BY <1>2, <1>3, <2>3, <2>5, <2>6
    <3>2. p = <<>>
      BY <1>2, <3>1, EmptySeq
    <3>3. c + Len(p) < c + 1 /\ c + Len(p) \in Int /\ c + 1 \in Int
      BY <2>5, <3>1
    <3> HIDE DEF c
    <3>4. SubSeq(wire, c + 1, c + Len(p)) = <<>>
      BY <3>3, SubSeqEmpty
    <3>5. b = c + Len(p)
      BY <2>5, <3>1
    <3> QED
      BY <3>1, <3>2, <3>4, <3>5
  <2> QED
    BY <1>1, <1>2, <1>4, <1>6, <2>1, <2>2, <2>5, <2>6 DEF a, b, h, p, f
<1> QED
  BY <1>5, <1>6

-----------------------------------------------------------------------------
(* The steps                                                               *)

LEMMA Initially == Init => Inv
<1> SUFFICES ASSUME Init
             PROVE  Inv
  OBVIOUS
<1> USE DEF Init
<1>1. Sequences
  BY DEF Sequences
<1>2. Sent = <<>> /\ Len(Sent) = 0 /\ Len(got) = 0
  BY DEF Sent
<1>3. TypeOK
  <2>1. side \in {"client", "server"}
    BY WireAssumption
  <2>2. head.kind \in Kind /\ head.flags \in Octet /\ IsStream(head.stream) /\ head.length \in Nat
    BY ZeroStream DEF NoHead, Kind, Octet, IsStream
  <2>3. wire \in Seq(Octet) /\ taken \in 0..Len(wire) /\ starts \in Seq(Nat)
    OBVIOUS
  <2> QED
    BY <1>2, <2>1, <2>2, <2>3 DEF TypeOK
<1>4. IInv
  <2>1. Placed
    BY <1>2 DEF Placed, Begin
  <2>2. ReaderPlaced
    BY <1>2 DEF ReaderPlaced, Begin
  <2> QED
    BY <2>1, <2>2 DEF IInv
<1>5. FramesInOrder
  BY <1>2 DEF FramesInOrder
<1>6. EndsWhenDue
  BY DEF EndsWhenDue
<1> QED
  BY <1>1, <1>3, <1>4, <1>5, <1>6 DEF Inv

\* A new item, all of it or its head.
Adds(f) == WriteItem(f) \/ StartFrame(f)

LEMMA SentAppended ==
  ASSUME Sequences, TypeOK, NEW f, Fits(f), Adds(f), NEW m, m = Len(Sent) + 1
  PROVE  /\ Sequences' /\ f.kind # "unknown"
         /\ half = <<>> /\ Len(Sent) = Len(written) /\ Len(written') \in Nat
         /\ Len(written) <= Len(written') /\ Len(Sent') = m
         /\ \A i \in 1..Len(Sent) : Sent'[i] = Sent[i]
         /\ Sent'[m] = f
         /\ Len(half') \in {0, 1} /\ (half' # <<>> => half'[1].kind \in InTwoWrites)
         /\ starts' = Append(starts, Len(wire))
         /\ wire' = wire \o OctetsOf(m)'
         /\ OctetsOf(m)' \in Seq(Octet)
         /\ UNCHANGED <<open, readVars>> /\ open
<1>1. PICK S : written \in Seq(S) /\ half \in Seq(S) /\ got \in Seq(S)
  BY DEF Sequences
<1> DEFINE T == S \cup {f}
           n == Len(Sent)
<1>2. written \in Seq(T) /\ half \in Seq(T) /\ got \in Seq(T) /\ f \in T
  BY <1>1
<1>3. /\ half = <<>> /\ open /\ starts' = Append(starts, Len(wire))
      /\ UNCHANGED <<open, readVars>> /\ f.kind # "unknown"
      /\ got' = got
  BY DEF Adds, WriteItem, StartFrame, CanWrite, InTwoWrites, readVars
<1>4. Sent = written /\ n = Len(written) /\ n \in Nat /\ m = n + 1
  BY <1>3, Basics
<1>5. /\ Written(f).head \in Seq(Octet) /\ Written(f).payload \in Seq(Octet)
      /\ Written(f).head \o Written(f).payload \in Seq(Octet)
  BY <1>3, ItemRead, Joined
<1>6. CASE WriteItem(f)
  <2>1. written' = Append(written, f) /\ half' = <<>>
    BY <1>3, <1>6 DEF WriteItem
  <2>2. /\ written' \in Seq(T) /\ Len(written') = m
        /\ \A i \in 1..n : written'[i] = written[i]
        /\ written'[m] = f
    BY <1>2, <1>4, <2>1, AppendProperties
  <2>3. Sent' = written'
    BY <2>1, <2>2, ConcatEmptySeq DEF Sent
  <2>4. OctetsOf(m)' = Written(f).head \o Written(f).payload
    <3>1. m <= Len(written') /\ Sent'[m] = f
      BY <1>4, <2>2, <2>3
    <3> QED
      BY <3>1 DEF OctetsOf
  <2>5. wire' = wire \o OctetsOf(m)'
    BY <1>6, <2>4 DEF WriteItem
  <2>6. Sequences'
    BY <1>2, <1>3, <2>1, <2>2 DEF Sequences
  <2>7. Len(half') = 0
    BY <2>1
  <2>8. Len(written') \in Nat /\ Len(written) <= Len(written')
    BY <1>4, <2>2
  <2> QED
    BY <1>3, <1>4, <1>5, <2>1, <2>2, <2>3, <2>4, <2>5, <2>6, <2>7, <2>8
<1>7. CASE StartFrame(f)
  <2>1. written' = written /\ half' = <<f>> /\ f.kind \in InTwoWrites
    BY <1>7 DEF StartFrame
  <2>2. Append(written, f) = written \o <<f>>
    BY <1>2, AppendIsConcat
  <2>3. Sent' = Append(written, f)
    BY <2>1, <2>2 DEF Sent
  <2>4. /\ Sent' \in Seq(T) /\ Len(Sent') = m
        /\ \A i \in 1..n : Sent'[i] = Sent[i]
        /\ Sent'[m] = f
    BY <1>2, <1>4, <2>3, AppendProperties
  <2>5. OctetsOf(m)' = Written(f).head
    <3>1. ~(m <= Len(written'))
      BY <1>4, <2>1
    <3> QED
      BY <2>4, <3>1 DEF OctetsOf
  <2>6. wire' = wire \o OctetsOf(m)'
    BY <1>7, <2>5 DEF StartFrame
  <2>7. half' \in Seq(T) /\ Len(half') = 1 /\ half'[1] = f
    BY <1>2, <2>1
  <2>8. Sequences'
    BY <1>2, <1>3, <2>1, <2>7 DEF Sequences
  <2>9. Len(written') \in Nat /\ Len(written) <= Len(written')
    BY <1>4, <2>1
  <2> QED
    BY <1>3, <1>4, <1>5, <2>1, <2>4, <2>5, <2>6, <2>7, <2>8, <2>9
<1> QED
  BY <1>6, <1>7 DEF Adds

LEMMA AddsKeepsPlaces ==
  ASSUME Inv, NEW f, Fits(f), Adds(f)
  PROVE  IInv'
<1> DEFINE n == Len(Sent)
<1>1. Sequences /\ TypeOK /\ Placed /\ ReaderPlaced /\ FramesInOrder
  BY DEF Inv, IInv
<1>2. /\ n \in Nat /\ wire \in Seq(Octet) /\ Len(wire) \in Nat /\ Len(got) \in Nat
      /\ starts \in Seq(Nat) /\ Len(starts) = n /\ Len(written) \in Nat
  BY <1>1, Basics DEF Placed
<1>3. PICK m : m = n + 1
  OBVIOUS
<1>4. /\ half = <<>> /\ n = Len(written) /\ Len(written) <= Len(written')
      /\ Len(written') \in Nat
      /\ Len(Sent') = m /\ Sent'[m] = f /\ \A i \in 1..n : Sent'[i] = Sent[i]
      /\ starts' = Append(starts, Len(wire))
      /\ wire' = wire \o OctetsOf(m)' /\ OctetsOf(m)' \in Seq(Octet)
      /\ UNCHANGED readVars
  BY <1>1, <1>3, SentAppended
<1>5. Len(starts') = m /\ starts'[m] = Len(wire) /\ \A i \in 1..n : starts'[i] = starts[i]
  BY <1>2, <1>3, <1>4, AppendProperties
<1>6. /\ wire' \in Seq(Octet) /\ Len(wire') \in Nat /\ Len(wire) <= Len(wire')
  <2> DEFINE x == OctetsOf(m)'
  <2>1. x \in Seq(Octet) /\ wire' = wire \o x
    BY <1>4
  <2> HIDE DEF x
  <2>2. wire' \in Seq(Octet) /\ Len(wire') = Len(wire) + Len(x) /\ Len(x) \in Nat
    BY <1>2, <2>1, Joined
  <2> QED
    BY <1>2, <2>2
<1>7. \A i \in 1..m : /\ Begin(i)' = Begin(i) /\ Begin(i) \in Nat
                      /\ Begin(i) <= Len(wire) /\ Begin(i) <= Len(wire')
  <2>1. ASSUME NEW i \in 1..m
        PROVE  /\ Begin(i)' = Begin(i) /\ Begin(i) \in Nat
               /\ Begin(i) <= Len(wire) /\ Begin(i) <= Len(wire')
    <3>1. Begin(i)' = starts'[i]
      BY <1>2, <1>3, <1>4 DEF Begin
    <3>2. starts'[i] = Begin(i)
      BY <1>2, <1>3, <1>5 DEF Begin
    <3>3. Begin(i) \in Nat /\ Begin(i) <= Len(wire)
      BY <1>1, <1>3, Beginnings
    <3> QED
      BY <1>2, <1>6, <3>1, <3>2, <3>3
  <2> QED
    BY <2>1
<1>8. Placed'
  <2>1. Len(starts') = Len(Sent') /\ Begin(1)' = 0
    <3>1. 1 \in 1..m
      BY <1>2, <1>3
    <3> QED
      BY <1>1, <1>4, <1>5, <1>7, <3>1 DEF Placed
  <2>2. ASSUME NEW i \in 1..n
        PROVE  /\ starts'[i] <= Begin(i + 1)' /\ Begin(i + 1)' <= Len(wire')
               /\ SubSeq(wire', starts'[i] + 1, Begin(i + 1)') = OctetsOf(i)'
    <3>1. i \in 1..m /\ i + 1 \in 1..m /\ i \in Nat
      BY <1>2, <1>3
    <3>2. /\ Begin(i + 1)' = Begin(i + 1) /\ Begin(i + 1) \in Nat
          /\ Begin(i + 1) <= Len(wire) /\ Begin(i + 1) <= Len(wire')
      <4>1. PICK j : j = i + 1
        OBVIOUS
      <4>2. /\ Begin(j)' = Begin(j) /\ Begin(j) \in Nat
            /\ Begin(j) <= Len(wire) /\ Begin(j) <= Len(wire')
        BY <1>7, <3>1, <4>1
      <4> QED
        BY <4>1, <4>2
    <3>3. starts'[i] = starts[i] /\ starts[i] \in Nat
      BY <1>2, <1>5
    <3>4. starts[i] <= Begin(i + 1) /\ SubSeq(wire, starts[i] + 1, Begin(i + 1)) = OctetsOf(i)
      BY <1>1 DEF Placed
    <3>5. SubSeq(wire', starts[i] + 1, Begin(i + 1)) = SubSeq(wire, starts[i] + 1, Begin(i + 1))
      <4> DEFINE a == starts[i]
                 b == Begin(i + 1)
                 x == OctetsOf(m)'
      <4>1. /\ x \in Seq(Octet) /\ wire' = wire \o x /\ wire \in Seq(Octet)
            /\ a \in Nat /\ b \in Nat /\ a <= b /\ b <= Len(wire)
        BY <1>2, <1>4, <3>2, <3>3, <3>4
      <4> HIDE DEF a, b, x
      <4>2. SubSeq(wire \o x, a + 1, b) = SubSeq(wire, a + 1, b)
        BY <4>1, PieceStays
      <4> QED
        BY <4>1, <4>2 DEF a, b
    <3>6. OctetsOf(i)' = OctetsOf(i)
      <4>1. Sent'[i] = Sent[i] /\ i <= Len(written) /\ i <= Len(written')
        BY <1>2, <1>4, <3>1
      <4> QED
        BY <4>1 DEF OctetsOf
    <3> QED
      BY <3>2, <3>3, <3>4, <3>5, <3>6
  <2>3. /\ starts'[m] <= Begin(m + 1)' /\ Begin(m + 1)' <= Len(wire')
        /\ SubSeq(wire', starts'[m] + 1, Begin(m + 1)') = OctetsOf(m)'
    <3>1. Begin(m + 1)' = Len(wire')
      BY <1>2, <1>3, <1>4 DEF Begin
    <3> DEFINE x == OctetsOf(m)'
    <3>2. x \in Seq(Octet) /\ wire' = wire \o x
      BY <1>4
    <3> HIDE DEF x
    <3>3. SubSeq(wire \o x, Len(wire) + 1, Len(wire \o x)) = SubSeq(wire, Len(wire) + 1, Len(wire)) \o x
      <4>1. wire \in Seq(Octet) /\ x \in Seq(Octet) /\ Len(wire) \in Nat /\ Len(wire) <= Len(wire)
        BY <1>2, <3>2
      <4> QED
        BY <4>1, PieceGrows, Zenon
    <3>4. SubSeq(wire, Len(wire) + 1, Len(wire)) = <<>>
      BY <1>2, SubSeqEmpty
    <3>5. SubSeq(wire', Len(wire) + 1, Len(wire')) = x
      BY <3>2, <3>3, <3>4, ConcatEmptySeq
    <3> QED
      BY <1>5, <1>6, <3>1, <3>5 DEF x
  <2>4. \A i \in 1..m : i \in 1..n \/ i = m
    BY <1>2, <1>3
  <2>5. \A i \in 1..m :
          /\ starts'[i] <= Begin(i + 1)' /\ Begin(i + 1)' <= Len(wire')
          /\ SubSeq(wire', starts'[i] + 1, Begin(i + 1)') = OctetsOf(i)'
    BY <2>2, <2>3, <2>4
  <2> QED
    BY <1>4, <2>1, <2>5 DEF Placed
<1>9. ReaderPlaced'
  <2>1. PICK k : k = Len(got) + 1
    OBVIOUS
  <2>2. Len(got) <= n /\ k \in 1..m
    BY <1>1, <1>2, <1>3, <2>1 DEF FramesInOrder
  <2>3. got' = got /\ taken' = taken /\ reader' = reader /\ head' = head
    BY <1>4 DEF readVars
  <2>4. ASSUME reader = "head"
        PROVE  taken = Begin(Len(got) + 1)'
    <3>1. taken = Begin(k)
      BY <1>1, <2>1, <2>4 DEF ReaderPlaced
    <3>2. Begin(k)' = Begin(k)
      BY <1>7, <2>2
    <3> QED
      BY <2>1, <2>3, <3>1, <3>2
  <2>5. ASSUME reader = "body"
        PROVE  /\ Len(got) < Len(Sent') /\ taken = starts'[Len(got) + 1] + HEADER_LEN
               /\ head = ParseHead(Written(Sent'[Len(got) + 1]).head)
    <3>1. /\ Len(got) < n /\ taken = starts[k] + HEADER_LEN
          /\ head = ParseHead(Written(Sent[k]).head)
      BY <1>1, <2>1, <2>5 DEF ReaderPlaced
    <3>2. k \in 1..n /\ Len(got) < m
      BY <1>2, <1>3, <2>1, <3>1
    <3> QED
      BY <1>4, <1>5, <2>1, <3>1, <3>2
  <2>6. ~(Len(got) > Len(written'))
    BY <1>2, <1>4, <2>2
  <2> QED
    BY <2>3, <2>4, <2>5, <2>6 DEF ReaderPlaced
<1> QED
  BY <1>8, <1>9 DEF IInv

LEMMA AddsKeepsRest ==
  ASSUME Inv, NEW f, Fits(f), Adds(f)
  PROVE  Sequences' /\ TypeOK' /\ FramesInOrder' /\ EndsWhenDue'
<1> DEFINE n == Len(Sent)
<1>1. Sequences /\ TypeOK /\ FramesInOrder /\ EndsWhenDue
  BY DEF Inv
<1>2. PICK m : m = n + 1
  OBVIOUS
<1>3. /\ Sequences' /\ f.kind # "unknown" /\ open /\ Len(written) <= Len(written')
      /\ Len(Sent') = m /\ Sent'[m] = f /\ \A i \in 1..n : Sent'[i] = Sent[i]
      /\ Len(half') \in {0, 1} /\ (half' # <<>> => half'[1].kind \in InTwoWrites)
      /\ starts' = Append(starts, Len(wire))
      /\ wire' = wire \o OctetsOf(m)' /\ OctetsOf(m)' \in Seq(Octet)
      /\ UNCHANGED <<open, readVars>>
  BY <1>1, <1>2, SentAppended
<1>4. /\ n \in Nat /\ Len(got) \in Nat /\ Len(got) <= n
      /\ wire \in Seq(Octet) /\ Len(wire) \in Nat /\ taken \in Nat /\ taken <= Len(wire)
      /\ starts \in Seq(Nat)
  BY <1>1, Basics DEF FramesInOrder
<1>5. /\ side' = side /\ taken' = taken /\ reader' = reader /\ head' = head
      /\ got' = got /\ error' = error /\ open' = open
  BY <1>3 DEF readVars
<1>6. TypeOK'
  <2>1. \A i \in 1..Len(Sent') : Fits(Sent'[i]) /\ Sent'[i].kind # "unknown"
    <3>1. \A i \in 1..Len(Sent') : i \in 1..n \/ i = m
      BY <1>2, <1>3, <1>4
    <3>2. \A i \in 1..n : Fits(Sent[i]) /\ Sent[i].kind # "unknown"
      BY <1>1 DEF TypeOK
    <3> QED
      BY <1>3, <3>1, <3>2
  <2>2. wire' \in Seq(Octet) /\ taken' \in 0..Len(wire')
    <3> DEFINE x == OctetsOf(m)'
    <3>1. x \in Seq(Octet) /\ wire' = wire \o x
      BY <1>3
    <3> HIDE DEF x
    <3>2. wire' \in Seq(Octet) /\ Len(wire') = Len(wire) + Len(x) /\ Len(x) \in Nat
      BY <1>4, <3>1, Joined
    <3> QED
      BY <1>4, <1>5, <3>2
  <2>3. starts' \in Seq(Nat)
    BY <1>3, <1>4
  <2> QED
    BY <1>1, <1>3, <1>5, <2>1, <2>2, <2>3 DEF TypeOK
<1>7. FramesInOrder'
  <2>1. Len(got) <= m /\ \A i \in 1..Len(got) : i \in 1..n
    BY <1>2, <1>4
  <2>2. \A i \in 1..Len(got) : Same(got[i], Seen(side, Sent[i])) /\ Sent'[i] = Sent[i]
    BY <1>1, <1>3, <2>1 DEF FramesInOrder
  <2> QED
    BY <1>3, <1>5, <2>1, <2>2 DEF FramesInOrder
<1>8. EndsWhenDue'
  <2> DEFINE k == Len(got) + 1
  <2>1. Len(got) < n => Len(got) < m /\ Sent'[k] = Sent[k]
    <3>1. Len(got) < n => k \in 1..n /\ Len(got) < m
      BY <1>2, <1>4
    <3> QED
      BY <1>3, <3>1
  <2>2. reader = "panicked" => Len(got) < n /\ Seen(side, Sent[k]) = Panic
    BY <1>1 DEF EndsWhenDue
  <2>3. reader = "broken" => error # "Io" /\ Len(got) < n /\ FailsWith(Seen(side, Sent[k]), error)
    BY <1>1, <1>3 DEF EndsWhenDue
  <2> QED
    BY <1>3, <1>5, <2>1, <2>2, <2>3 DEF EndsWhenDue
<1> QED
  BY <1>3, <1>6, <1>7, <1>8

LEMMA Finishes ==
  ASSUME Inv, FinishFrame
  PROVE  Inv'
<1> DEFINE n == Len(Sent)
           x == Written(half[1]).payload
<1>1. Sequences /\ TypeOK /\ Placed /\ ReaderPlaced /\ FramesInOrder /\ EndsWhenDue
  BY DEF Inv, IInv
<1>2. PICK S : written \in Seq(S) /\ half \in Seq(S) /\ got \in Seq(S)
  BY <1>1 DEF Sequences
<1>3. /\ open /\ half # <<>> /\ wire' = wire \o x /\ written' = Sent /\ half' = <<>>
      /\ starts' = starts /\ UNCHANGED <<open, readVars>>
  BY DEF FinishFrame, Sent
<1>4. /\ n \in Nat /\ Len(got) \in Nat /\ Len(got) <= n /\ Len(written) \in Nat
      /\ n = Len(written) + 1 /\ Sent[n] = half[1] /\ n \in 1..n
      /\ wire \in Seq(Octet) /\ Len(wire) \in Nat /\ taken \in Nat /\ taken <= Len(wire)
      /\ starts \in Seq(Nat)
  <2>1. /\ Len(half) = 1 /\ n = Len(written) + Len(half) /\ Len(written) \in Nat
        /\ Sent[n] = half[1]
    BY <1>1, <1>3, Basics
  <2>2. n = Len(written) + 1 /\ n \in 1..n
    BY <2>1
  <2> QED
    BY <1>1, <2>1, <2>2, Basics DEF FramesInOrder
<1>5. /\ side' = side /\ taken' = taken /\ reader' = reader /\ head' = head
      /\ got' = got /\ error' = error /\ open' = open
  BY <1>3 DEF readVars
<1>6. Sent \in Seq(S) /\ Sent' = Sent
  <2>1. Sent \in Seq(S)
    BY <1>2 DEF Sent
  <2>2. Sent' = written' \o half'
    BY DEF Sent
  <2> QED
    BY <1>3, <2>1, <2>2, ConcatEmptySeq
<1>7. Sequences'
  <2>1. written' \in Seq(S) /\ half' \in Seq(S) /\ got' \in Seq(S)
    BY <1>2, <1>3, <1>5, <1>6
  <2> QED
    BY <2>1 DEF Sequences
<1>8. x \in Seq(Octet) /\ Len(x) \in Nat
  <2>1. Fits(Sent[n]) /\ Sent[n].kind # "unknown"
    BY <1>1, <1>4 DEF TypeOK
  <2> QED
    BY <1>4, <2>1, ItemRead
<1> HIDE DEF x
<1>9. wire' \in Seq(Octet) /\ Len(wire') = Len(wire) + Len(x) /\ Len(wire') \in Nat
  BY <1>3, <1>4, <1>8, Joined
<1>10. TypeOK'
  <2>1. Len(half') = 0
    BY <1>3
  <2>2. taken' \in 0..Len(wire')
    BY <1>4, <1>5, <1>8, <1>9
  <2> QED
    BY <1>1, <1>3, <1>5, <1>6, <1>9, <2>1, <2>2 DEF TypeOK
<1>11. Placed'
  <2>1. Len(starts') = Len(Sent') /\ Begin(1)' = 0
    BY <1>1, <1>3, <1>4, <1>6 DEF Placed, Begin
  <2>2. ASSUME NEW i \in 1..n
        PROVE  /\ starts'[i] <= Begin(i + 1)' /\ Begin(i + 1)' <= Len(wire')
               /\ SubSeq(wire', starts'[i] + 1, Begin(i + 1)') = OctetsOf(i)'
    <3> DEFINE a == starts[i]
               b == Begin(i + 1)
    <3>1. a \in Nat /\ b \in Nat /\ a <= b /\ b <= Len(wire)
          /\ SubSeq(wire, a + 1, b) = OctetsOf(i)
      <4>1. i \in 1..n + 1 /\ i + 1 \in 1..n + 1
        BY <1>4
      <4>2. a \in Nat /\ b \in Nat /\ b <= Len(wire)
        BY <1>1, <4>1, Beginnings
      <4>3. a <= b /\ SubSeq(wire, a + 1, b) = OctetsOf(i)
        BY <1>1 DEF Placed
      <4> QED
        BY <4>2, <4>3
    <3>2. starts'[i] = a
      BY <1>3
    <3>3. OctetsOf(i)' = Written(Sent[i]).head \o Written(Sent[i]).payload
      <4>1. i <= Len(written')
        BY <1>3, <1>4
      <4> QED
        BY <1>6, <4>1 DEF OctetsOf
    <3>4. CASE i < n
      <4>1. Begin(i + 1)' = b
        BY <1>3, <1>4, <1>6, <3>4 DEF Begin
      <4>2. OctetsOf(i) = OctetsOf(i)'
        <5>1. i <= Len(written)
          BY <1>4, <3>4
        <5> QED
          BY <3>3, <5>1 DEF OctetsOf
      <4> HIDE DEF a, b
      <4>3. SubSeq(wire \o x, a + 1, b) = SubSeq(wire, a + 1, b)
        BY <1>4, <1>8, <3>1, PieceStays
      <4>4. b <= Len(wire')
        BY <1>4, <1>8, <1>9, <3>1
      <4> QED
        BY <1>3, <3>1, <3>2, <4>1, <4>2, <4>3, <4>4
    <3>5. CASE i = n
      <4>1. Begin(i + 1)' = Len(wire') /\ b = Len(wire)
        BY <1>4, <1>6, <3>5 DEF Begin
      <4>2. OctetsOf(i) = Written(Sent[i]).head
        BY <1>4, <3>5 DEF OctetsOf
      <4>3. OctetsOf(i)' = OctetsOf(i) \o x
        BY <1>4, <3>3, <3>5, <4>2 DEF x
      <4> HIDE DEF a, b
      <4>4. a <= Len(wire)
        BY <3>1, <4>1
      <4>5. SubSeq(wire \o x, a + 1, Len(wire \o x)) = SubSeq(wire, a + 1, Len(wire)) \o x
        BY <1>4, <1>8, <3>1, <4>4, PieceGrows
      <4>6. a <= Len(wire')
        BY <1>4, <1>8, <1>9, <3>1, <4>4
      <4> QED
        <5>1. SubSeq(wire', a + 1, Len(wire')) = OctetsOf(i)'
          BY <1>3, <3>1, <4>1, <4>3, <4>5
        <5> QED
          BY <1>9, <3>2, <4>1, <4>6, <5>1
    <3> QED
      BY <1>4, <3>4, <3>5
  <2> QED
    BY <1>6, <2>1, <2>2 DEF Placed
<1>12. ReaderPlaced'
  <2>1. ASSUME reader = "head"
        PROVE  taken = Begin(Len(got) + 1)'
    <3>1. taken = Begin(Len(got) + 1)
      BY <1>1, <2>1 DEF ReaderPlaced
    <3>2. CASE Len(got) + 1 <= n
      BY <1>3, <1>5, <1>6, <3>1, <3>2 DEF Begin
    <3>3. CASE ~(Len(got) + 1 <= n)
      <4>1. Len(got) > Len(written)
        BY <1>4, <3>3
      <4>2. Len(x) = 0
        BY <1>1, <4>1 DEF ReaderPlaced, x
      <4>3. Len(wire') = Len(wire)
        BY <1>4, <1>9, <4>2
      <4> QED
        BY <1>3, <1>5, <1>6, <3>1, <3>3, <4>3 DEF Begin
    <3> QED
      BY <3>2, <3>3
  <2>2. ~(Len(got) > Len(written'))
    BY <1>3, <1>4
  <2> QED
    BY <1>1, <1>3, <1>5, <1>6, <2>1, <2>2 DEF ReaderPlaced
<1>13. FramesInOrder'
  BY <1>1, <1>5, <1>6 DEF FramesInOrder
<1>14. EndsWhenDue'
  BY <1>1, <1>3, <1>5, <1>6 DEF EndsWhenDue
<1> QED
  BY <1>7, <1>10, <1>11, <1>12, <1>13, <1>14 DEF Inv, IInv

\* What the reading end does leaves the items where they are.
LEMMA ReadsKeepPlaces ==
  ASSUME Inv, UNCHANGED <<sendVars, side>>, NEW k, k = Len(got) + 1
  PROVE  /\ Placed' /\ Sent' = Sent /\ half' = half /\ written' = written
         /\ starts' = starts /\ wire' = wire /\ open' = open /\ side' = side
         /\ \A i : Begin(i)' = Begin(i)
         /\ Len(Sent) \in Nat /\ Len(got) \in Nat /\ Len(written) \in Nat
         /\ k \in 1..Len(Sent) + 1 /\ (k \in 1..Len(Sent) <=> Len(got) < Len(Sent))
         /\ taken \in Nat /\ taken <= Len(wire) /\ Len(wire) \in Nat /\ side \in Side
<1>1. Sequences /\ TypeOK /\ Placed /\ FramesInOrder
  BY DEF Inv, IInv
<1>2. /\ Sent' = Sent /\ half' = half /\ written' = written
      /\ starts' = starts /\ wire' = wire /\ open' = open /\ side' = side
  BY DEF sendVars, Sent
<1>3. \A i : Begin(i)' = Begin(i)
  BY <1>2 DEF Begin
<1>4. \A i : OctetsOf(i)' = OctetsOf(i)
  BY <1>2 DEF OctetsOf
<1>5. Placed'
  BY <1>1, <1>2, <1>3, <1>4 DEF Placed
<1>6. /\ Len(Sent) \in Nat /\ Len(got) \in Nat /\ Len(written) \in Nat
      /\ taken \in Nat /\ taken <= Len(wire) /\ Len(wire) \in Nat /\ side \in Side
  BY <1>1, Basics
<1>7. k \in 1..Len(Sent) + 1 /\ (k \in 1..Len(Sent) <=> Len(got) < Len(Sent))
  BY <1>1, <1>6 DEF FramesInOrder
<1> QED
  BY <1>2, <1>3, <1>5, <1>6, <1>7

LEMMA ReadsHead ==
  ASSUME Inv, ReadHead
  PROVE  Inv'
<1>1. Sequences /\ TypeOK /\ Placed /\ ReaderPlaced /\ FramesInOrder /\ EndsWhenDue
  BY DEF Inv, IInv
<1>2. /\ reader = "head" /\ UNCHANGED sendVars /\ side' = side /\ got' = got /\ error' = error
      /\ Len(wire) - taken >= HEADER_LEN /\ taken' = taken + HEADER_LEN
      /\ head' = ParseHead(SubSeq(wire, taken + 1, taken + HEADER_LEN)) /\ reader' = "body"
  BY DEF ReadHead, Take, Coming
<1>3. PICK k : k = Len(got) + 1
  OBVIOUS
<1>4. /\ Placed' /\ Sent' = Sent /\ half' = half /\ written' = written
      /\ starts' = starts /\ wire' = wire /\ open' = open
      /\ Len(Sent) \in Nat /\ Len(got) \in Nat
      /\ k \in 1..Len(Sent) + 1 /\ (k \in 1..Len(Sent) <=> Len(got) < Len(Sent))
      /\ taken \in Nat /\ taken <= Len(wire) /\ Len(wire) \in Nat
  BY <1>2, <1>3, ReadsKeepPlaces
<1>5. k \in 1..Len(Sent) /\ taken = starts[k]
  <2>1. taken = Begin(k)
    BY <1>1, <1>2, <1>3 DEF ReaderPlaced
  <2>2. k # Len(Sent) + 1
    <3>1. taken # Len(wire)
      BY <1>2, <1>4 DEF HEADER_LEN
    <3> QED
      BY <1>1, <2>1, <3>1, Beginnings
  <2>3. k \in 1..Len(Sent)
    BY <1>4, <2>2
  <2> QED
    BY <1>1, <2>1, <2>3, Beginnings
<1> DEFINE f == Sent[k]
<1>6. Fits(f) /\ f.kind # "unknown"
      /\ SubSeq(wire, starts[k] + 1, starts[k] + HEADER_LEN) = Written(f).head
  BY <1>1, <1>5, ItemPlaced
<1>7. head' = ParseHead(Written(f).head)
  BY <1>2, <1>5, <1>6
<1>8. /\ head'.kind \in Kind /\ head'.flags \in Octet /\ head'.length \in Nat
      /\ IsStream(head'.stream)
  <2>1. /\ head'.kind \in Kind /\ head'.flags \in Octet /\ head'.length \in Nat
        /\ head'.stream \in U32 /\ ~MsbSet(head'.stream)
    BY <1>6, <1>7, ItemRead
  <2> QED
    BY <2>1 DEF IsStream
<1>9. Sequences'
  BY <1>1, <1>2, <1>4 DEF Sequences
<1>10. TypeOK'
  <2>1. taken' \in 0..Len(wire')
    BY <1>2, <1>4 DEF HEADER_LEN
  <2> QED
    BY <1>1, <1>2, <1>4, <1>8, <2>1 DEF TypeOK
<1>11. ReaderPlaced'
  BY <1>1, <1>2, <1>3, <1>4, <1>5, <1>7 DEF ReaderPlaced
<1>12. FramesInOrder'
  BY <1>1, <1>2, <1>4 DEF FramesInOrder
<1>13. EndsWhenDue'
  BY <1>2 DEF EndsWhenDue
<1> QED
  BY <1>4, <1>9, <1>10, <1>11, <1>12, <1>13 DEF Inv, IInv

LEMMA ReadsUnexpected ==
  ASSUME Inv, ReadUnexpected
  PROVE  Inv'
<1>1. Sequences /\ TypeOK /\ Placed /\ ReaderPlaced /\ FramesInOrder /\ EndsWhenDue
  BY DEF Inv, IInv
<1>2. /\ reader = "body" /\ PanicsOnHead(side, head) /\ reader' = "panicked"
      /\ UNCHANGED <<sendVars, taken, side, head, got, error>>
  BY DEF ReadUnexpected
<1>3. PICK k : k = Len(got) + 1
  OBVIOUS
<1>4. /\ Placed' /\ Sent' = Sent /\ half' = half /\ written' = written
      /\ starts' = starts /\ wire' = wire /\ open' = open /\ side \in Side
      /\ k \in 1..Len(Sent) <=> Len(got) < Len(Sent)
  BY <1>2, <1>3, ReadsKeepPlaces
<1>5. k \in 1..Len(Sent) /\ head = ParseHead(Written(Sent[k]).head) /\ Len(got) < Len(Sent)
  BY <1>1, <1>2, <1>3, <1>4 DEF ReaderPlaced
<1>6. Seen(side, Sent[k]) = Panic
  <2>1. Fits(Sent[k]) /\ Sent[k].kind # "unknown"
    BY <1>1, <1>5 DEF TypeOK
  <2>2. SeenRaw(side, head, Written(Sent[k]).payload) = Seen(side, Sent[k])
    BY <1>4, <1>5, <2>1, ItemRead
  <2> QED
    BY <1>2, <2>2 DEF SeenRaw
<1>7. Sequences'
  BY <1>1, <1>2, <1>4 DEF Sequences
<1>8. TypeOK'
  BY <1>1, <1>2, <1>4 DEF TypeOK
<1>9. ReaderPlaced'
  BY <1>1, <1>2, <1>4 DEF ReaderPlaced
<1>10. FramesInOrder'
  BY <1>1, <1>2, <1>4 DEF FramesInOrder
<1>11. EndsWhenDue'
  BY <1>2, <1>3, <1>4, <1>5, <1>6 DEF EndsWhenDue
<1> QED
  BY <1>4, <1>7, <1>8, <1>9, <1>10, <1>11 DEF Inv, IInv

\* At the end of the stream only an item that was not finished can be left.
LEMMA LeftAtEof ==
  ASSUME Inv, ReadEof, NEW k, k = Len(got) + 1, k \in 1..Len(Sent)
  PROVE  k > Len(written) /\ Sent[k] = half[1] /\ half # <<>>
         /\ Len(Written(half[1]).payload) # 0
<1>1. Sequences /\ TypeOK /\ Placed /\ ReaderPlaced
  BY DEF Inv, IInv
<1>2. \/ reader = "head" /\ Len(wire) - taken < HEADER_LEN
      \/ reader = "body" /\ Len(wire) - taken < PayloadLength(head)
  BY DEF ReadEof
<1>3. /\ Len(Sent) = Len(written) + Len(half) /\ Len(half) \in {0, 1}
      /\ Len(written) \in Nat /\ taken \in Nat /\ Len(wire) \in Nat
      /\ half = <<>> => Len(half) = 0
      /\ half # <<>> => Sent[Len(Sent)] = half[1]
  BY <1>1, Basics
<1> DEFINE c == starts[k] + HEADER_LEN
           p == Written(Sent[k]).payload
<1>4. /\ Fits(Sent[k]) /\ Sent[k].kind # "unknown"
      /\ starts[k] \in Nat /\ c \in Nat /\ c <= Len(wire) /\ Len(p) \in Nat
      /\ k <= Len(written) => Len(wire) - c >= Len(p)
  BY <1>1, ItemPlaced
<1>5. ~(Len(wire) - c >= Len(p))
  <2>1. CASE reader = "head"
    <3>1. taken = starts[k]
      BY <1>1, <2>1, Beginnings DEF ReaderPlaced
    <3> QED
      BY <1>2, <1>3, <1>4, <2>1, <3>1 DEF HEADER_LEN
  <2>2. CASE reader = "body"
    <3>1. taken = c /\ head = ParseHead(Written(Sent[k]).head)
      BY <1>1, <2>2 DEF ReaderPlaced
    <3>2. PayloadLength(head) = Len(p)
      BY <1>4, <3>1, ItemRead
    <3>3. Len(wire) - taken < Len(p)
      BY <1>2, <2>2, <3>2
    <3> HIDE DEF c, p
    <3> QED
      BY <1>3, <1>4, <3>1, <3>3
  <2> QED
    BY <1>2, <2>1, <2>2
<1> HIDE DEF c, p
<1>6. k > Len(written) /\ Len(p) # 0
  BY <1>3, <1>4, <1>5
<1>7. half # <<>> /\ k = Len(Sent)
  <2>1. k \in Nat /\ k <= Len(Sent) /\ k > Len(written)
    BY <1>3, <1>6
  <2>2. Len(half) # 0
    BY <1>3, <2>1
  <2>3. Len(half) = 1 /\ half # <<>>
    BY <1>3, <2>2
  <2>4. Len(Sent) = Len(written) + 1
    BY <1>3, <2>3
  <2> QED
    BY <1>3, <2>1, <2>3, <2>4
<1> QED
  BY <1>3, <1>6, <1>7 DEF p

LEMMA MeetsEof ==
  ASSUME Inv, ReadEof
  PROVE  Inv'
<1>1. Sequences /\ TypeOK /\ Placed /\ ReaderPlaced /\ FramesInOrder /\ EndsWhenDue
  BY DEF Inv, IInv
<1>2. /\ ~open /\ reader' = "broken" /\ error' = "Io"
      /\ UNCHANGED <<sendVars, taken, side, head, got>>
      /\ \/ reader = "head" /\ Len(wire) - taken < HEADER_LEN
         \/ reader = "body" /\ Len(wire) - taken < PayloadLength(head)
  BY DEF ReadEof
<1>3. PICK k : k = Len(got) + 1
  OBVIOUS
<1>4. /\ Placed' /\ Sent' = Sent /\ half' = half /\ written' = written
      /\ starts' = starts /\ wire' = wire /\ open' = open
      /\ Len(Sent) \in Nat /\ Len(got) \in Nat /\ Len(written) \in Nat
      /\ k \in 1..Len(Sent) + 1 /\ (k \in 1..Len(Sent) <=> Len(got) < Len(Sent))
      /\ taken \in Nat /\ Len(wire) \in Nat
  BY <1>2, <1>3, ReadsKeepPlaces
<1>5. Len(got) >= Len(written)
  <2> SUFFICES ASSUME Len(got) < Len(written)
               PROVE  FALSE
    BY <1>4
  <2>1. k \in 1..Len(Sent) /\ k <= Len(written)
    <3>1. Len(Sent) = Len(written) + Len(half) /\ Len(half) \in {0, 1}
      BY <1>1, Basics
    <3> QED
      BY <1>3, <1>4, <3>1
  <2>2. k > Len(written)
    BY <1>3, <2>1, LeftAtEof
  <2> QED
    BY <1>3, <1>4, <2>1, <2>2
<1>6. Sequences'
  BY <1>1, <1>2, <1>4 DEF Sequences
<1>7. TypeOK'
  BY <1>1, <1>2, <1>4 DEF TypeOK
<1>8. ReaderPlaced'
  BY <1>1, <1>2, <1>4 DEF ReaderPlaced
<1>9. FramesInOrder'
  BY <1>1, <1>2, <1>4 DEF FramesInOrder
<1>10. EndsWhenDue'
  BY <1>2, <1>4, <1>5 DEF EndsWhenDue
<1> QED
  BY <1>4, <1>6, <1>7, <1>8, <1>9, <1>10 DEF Inv, IInv

LEMMA Closes ==
  ASSUME Inv, Close
  PROVE  Inv'
<1>1. Sequences /\ TypeOK /\ Placed /\ ReaderPlaced /\ FramesInOrder /\ EndsWhenDue
  BY DEF Inv, IInv
<1>2. /\ open /\ ~open' /\ written' = written /\ half' = half /\ wire' = wire
      /\ starts' = starts /\ side' = side /\ taken' = taken /\ reader' = reader
      /\ head' = head /\ got' = got /\ error' = error /\ Sent' = Sent /\ open' \in BOOLEAN
  BY DEF Close, readVars, Sent
<1>3. \A i : Begin(i)' = Begin(i) /\ OctetsOf(i)' = OctetsOf(i)
  BY <1>2 DEF Begin, OctetsOf
<1>4. Placed'
  BY <1>1, <1>2, <1>3 DEF Placed
<1>5. ReaderPlaced'
  BY <1>1, <1>2 DEF ReaderPlaced, Begin
<1>6. Sequences'
  BY <1>1, <1>2 DEF Sequences
<1>7. TypeOK'
  BY <1>1, <1>2 DEF TypeOK
<1>8. FramesInOrder' /\ EndsWhenDue'
  BY <1>1, <1>2 DEF FramesInOrder, EndsWhenDue
<1> QED
  BY <1>4, <1>5, <1>6, <1>7, <1>8 DEF Inv, IInv

\* What the three ways a payload can be taken tell of what it is.
LEMMA OutcomeKinds ==
  ASSUME NEW s, NEW g, Outcome(s, g)
  PROVE  /\ g.kind = "panic" => g = Panic
         /\ g.kind = "error" => g.body \in LoadErrors /\ g = Error(g.body)
         /\ g.kind \notin {"panic", "error"} =>
              /\ g.kind \in {"data", "headers", "settings", "goaway", "window_update", "unknown"}
              /\ g.flags \in Octet /\ IsStream(g.stream)
              /\ g.kind # "unknown" => Stable(s, g)
<1>1. CASE g = Panic
  BY <1>1 DEF Panic, Frame
<1>2. ASSUME NEW e \in LoadErrors, g = Error(e)
      PROVE  g.kind = "error" /\ g.body = e
  BY <1>2 DEF Error, Frame
<1>3. CASE g = Frame("unknown", 0, Zero, <<>>)
  <2>1. g.kind = "unknown" /\ g.flags = 0 /\ g.stream = Zero
    BY <1>3 DEF Frame
  <2> QED
    BY <2>1, BitsOfFlags, ZeroStream DEF IsStream
<1>4. CASE Stable(s, g)
  <2>1. /\ g.kind \in {"data", "headers", "settings", "goaway", "window_update"}
        /\ g.flags \in Octet /\ g.stream \in U32 /\ ~MsbSet(g.stream)
    BY <1>4 DEF Stable, IsFrame
  <2> QED
    BY <1>4, <2>1 DEF IsStream
<1> QED
  BY <1>1, <1>2, <1>3, <1>4 DEF Outcome

\* A payload taken is that of the item the reader is at, and loads as it should.
LEMMA PayloadSeen ==
  ASSUME Inv, ReadPayload, NEW k, k = Len(got) + 1
  PROVE  LET n == PayloadLength(head)
             g == Decode(side, head, SubSeq(wire, taken + 1, taken + n))
         IN  /\ k \in 1..Len(Sent) /\ Len(got) < Len(Sent)
             /\ g = Seen(side, Sent[k]) /\ Outcome(side, g)
             /\ taken' = Begin(k + 1) /\ taken' \in Nat /\ taken' <= Len(wire)
             /\ k > Len(written) =>
                  Len(Written(Sent[k]).payload) = 0 /\ Sent[k] = half[1]
<1>1. Sequences /\ TypeOK /\ Placed /\ ReaderPlaced /\ FramesInOrder /\ EndsWhenDue
  BY DEF Inv, IInv
<1> DEFINE n == PayloadLength(head)
           g == Decode(side, head, SubSeq(wire, taken + 1, taken + n))
<1>2. /\ reader = "body" /\ ~PanicsOnHead(side, head) /\ UNCHANGED <<sendVars, side, head>>
      /\ Len(wire) - taken >= n /\ taken' = taken + n
      /\ \/ g.kind = "panic" /\ reader' = "panicked" /\ UNCHANGED <<got, error>>
         \/ g.kind = "error" /\ reader' = "broken" /\ error' = g.body /\ UNCHANGED got
         \/ /\ g.kind \notin {"panic", "error"}
            /\ reader' = "head" /\ got' = Append(got, g) /\ UNCHANGED error
  BY DEF ReadPayload, Report, Take, Coming
<1>4. /\ Placed' /\ Sent' = Sent /\ half' = half /\ written' = written
      /\ starts' = starts /\ wire' = wire /\ open' = open /\ side' = side
      /\ \A i : Begin(i)' = Begin(i)
      /\ Len(Sent) \in Nat /\ Len(got) \in Nat /\ Len(written) \in Nat
      /\ k \in 1..Len(Sent) + 1 /\ (k \in 1..Len(Sent) <=> Len(got) < Len(Sent))
      /\ taken \in Nat /\ taken <= Len(wire) /\ Len(wire) \in Nat /\ side \in Side
  BY <1>2, ReadsKeepPlaces
<1> DEFINE f == Sent[k]
           c == starts[k] + HEADER_LEN
           p == Written(f).payload
<1>5. k \in 1..Len(Sent) /\ Len(got) < Len(Sent) /\ taken = c /\ head = ParseHead(Written(f).head)
  BY <1>1, <1>2, <1>4 DEF ReaderPlaced
<1>6. /\ Fits(f) /\ f.kind # "unknown" /\ c \in Nat /\ c <= Len(wire) /\ Len(p) \in Nat
      /\ Len(wire) - c >= Len(p) =>
           /\ SubSeq(wire, c + 1, c + Len(p)) = p /\ Begin(k + 1) = c + Len(p)
           /\ k > Len(written) => Len(p) = 0 /\ f = half[1]
  BY <1>1, <1>5, ItemPlaced
<1>7. n = Len(p) /\ SeenRaw(side, head, p) = Seen(side, f) /\ Outcome(side, Seen(side, f))
  BY <1>4, <1>5, <1>6, ItemRead
<1>8. /\ SubSeq(wire, taken + 1, taken + n) = p /\ taken' = Begin(k + 1)
      /\ k > Len(written) => Len(p) = 0 /\ f = half[1]
      /\ taken' \in Nat /\ taken' <= Len(wire)
  <2> HIDE DEF n, c, p
  <2>1. Len(wire) - c >= Len(p)
    BY <1>2, <1>5, <1>7
  <2>2. taken' \in Nat /\ taken' <= Len(wire)
    BY <1>2, <1>4, <1>5, <1>6, <1>7, <2>1
  <2> QED
    BY <1>2, <1>5, <1>6, <1>7, <2>1, <2>2
<1>9. g = Seen(side, f) /\ Outcome(side, g)
  BY <1>2, <1>7, <1>8 DEF SeenRaw
<1> QED
  BY <1>5, <1>8, <1>9

LEMMA ReadsPayload ==
  ASSUME Inv, ReadPayload
  PROVE  Inv'
<1>1. Sequences /\ TypeOK /\ Placed /\ ReaderPlaced /\ FramesInOrder /\ EndsWhenDue
  BY DEF Inv, IInv
<1> DEFINE n == PayloadLength(head)
           g == Decode(side, head, SubSeq(wire, taken + 1, taken + n))
<1>2. /\ reader = "body" /\ ~PanicsOnHead(side, head) /\ UNCHANGED <<sendVars, side, head>>
      /\ Len(wire) - taken >= n /\ taken' = taken + n
      /\ \/ g.kind = "panic" /\ reader' = "panicked" /\ UNCHANGED <<got, error>>
         \/ g.kind = "error" /\ reader' = "broken" /\ error' = g.body /\ UNCHANGED got
         \/ /\ g.kind \notin {"panic", "error"}
            /\ reader' = "head" /\ got' = Append(got, g) /\ UNCHANGED error
  BY DEF ReadPayload, Report, Take, Coming
<1>3. PICK k : k = Len(got) + 1
  OBVIOUS
<1>4. /\ Placed' /\ Sent' = Sent /\ half' = half /\ written' = written
      /\ starts' = starts /\ wire' = wire /\ open' = open /\ side' = side
      /\ \A i : Begin(i)' = Begin(i)
      /\ Len(Sent) \in Nat /\ Len(got) \in Nat /\ Len(written) \in Nat
      /\ k \in 1..Len(Sent) + 1 /\ (k \in 1..Len(Sent) <=> Len(got) < Len(Sent))
      /\ taken \in Nat /\ taken <= Len(wire) /\ Len(wire) \in Nat /\ side \in Side
  BY <1>2, <1>3, ReadsKeepPlaces
<1> DEFINE f == Sent[k]
           p == Written(f).payload
<1>5. /\ k \in 1..Len(Sent) /\ Len(got) < Len(Sent)
      /\ g = Seen(side, f) /\ Outcome(side, g)
      /\ taken' = Begin(k + 1) /\ taken' \in Nat /\ taken' <= Len(wire)
      /\ k > Len(written) => Len(p) = 0 /\ f = half[1]
  BY <1>3, PayloadSeen
<1> HIDE DEF n, g, f, p
<1>10. /\ g.kind = "panic" => g = Panic
       /\ g.kind = "error" => g.body \in LoadErrors /\ g = Error(g.body)
       /\ g.kind \notin {"panic", "error"} =>
            /\ g.kind \in {"data", "headers", "settings", "goaway", "window_update", "unknown"}
            /\ g.flags \in Octet /\ IsStream(g.stream)
  BY <1>5, OutcomeKinds
<1>11. taken' \in 0..Len(wire')
  BY <1>4, <1>5
<1>12. CASE g.kind = "panic" /\ reader' = "panicked" /\ UNCHANGED <<got, error>>
  <2>1. Sequences'
    BY <1>1, <1>2, <1>4, <1>12 DEF Sequences
  <2>2. TypeOK'
    BY <1>1, <1>2, <1>4, <1>11, <1>12 DEF TypeOK
  <2>3. ReaderPlaced'
    BY <1>1, <1>2, <1>4, <1>12 DEF ReaderPlaced
  <2>4. FramesInOrder'
    BY <1>1, <1>4, <1>12 DEF FramesInOrder
  <2>5. EndsWhenDue'
    BY <1>3, <1>4, <1>5, <1>10, <1>12 DEF EndsWhenDue, f
  <2> QED
    BY <1>4, <2>1, <2>2, <2>3, <2>4, <2>5 DEF Inv, IInv
<1>13. CASE g.kind = "error" /\ reader' = "broken" /\ error' = g.body /\ UNCHANGED got
  <2>1. Sequences'
    BY <1>1, <1>2, <1>4, <1>13 DEF Sequences
  <2>2. TypeOK'
    <3>1. error' \in LoadErrors
      BY <1>10, <1>13
    <3> QED
      BY <1>1, <1>2, <1>4, <1>11, <1>13, <3>1 DEF TypeOK, LoadErrors
  <2>3. ReaderPlaced'
    BY <1>1, <1>2, <1>4, <1>13 DEF ReaderPlaced
  <2>4. FramesInOrder'
    BY <1>1, <1>4, <1>13 DEF FramesInOrder
  <2>5. EndsWhenDue'
    <3>1. error' # "Io"
      BY <1>10, <1>13 DEF LoadErrors
    <3>2. FailsWith(Seen(side, f), error')
      BY <1>5, <1>10, <1>13 DEF FailsWith, Same
    <3> QED
      BY <1>3, <1>4, <1>5, <1>13, <3>1, <3>2 DEF EndsWhenDue, f
  <2> QED
    BY <1>4, <2>1, <2>2, <2>3, <2>4, <2>5 DEF Inv, IInv
<1>14. CASE /\ g.kind \notin {"panic", "error"}
            /\ reader' = "head" /\ got' = Append(got, g) /\ UNCHANGED error
  <2>1. PICK S : written \in Seq(S) /\ half \in Seq(S) /\ got \in Seq(S)
    BY <1>1 DEF Sequences
  <2> DEFINE T == S \cup {g}
  <2>2. written \in Seq(T) /\ half \in Seq(T) /\ got \in Seq(T) /\ g \in T
    BY <2>1
  <2>3. /\ got' \in Seq(T) /\ Len(got') = k /\ got'[k] = g
        /\ \A i \in 1..Len(got) : got'[i] = got[i]
    BY <1>3, <1>14, <2>2, AppendProperties
  <2>4. \A i \in 1..k : i \in 1..Len(got) \/ i = k
    BY <1>3, <1>4
  <2>5. Sequences'
    BY <1>4, <2>2, <2>3 DEF Sequences
  <2>6. TypeOK'
    <3>1. \A i \in 1..k : /\ got'[i].kind \in {"data", "headers", "settings", "goaway",
                                               "window_update", "unknown"}
                          /\ got'[i].flags \in Octet /\ IsStream(got'[i].stream)
      BY <1>1, <1>10, <1>14, <2>3, <2>4 DEF TypeOK
    <3> QED
      BY <1>1, <1>2, <1>4, <1>11, <1>14, <2>3, <3>1 DEF TypeOK
  <2>7. ReaderPlaced'
    <3>1. taken' = Begin(Len(got) + 1)'
      <4>1. Begin(k + 1) = IF k + 1 <= Len(Sent) THEN starts[k + 1] ELSE Len(wire)
        BY DEF Begin
      <4> QED
        BY <1>4, <1>5, <2>3, <4>1 DEF Begin
    <3>2. Len(got') > Len(written') => Len(Written(half'[1]).payload) = 0
      BY <1>4, <1>5, <2>3 DEF p
    <3> QED
      BY <1>14, <3>1, <3>2 DEF ReaderPlaced
  <2>8. FramesInOrder'
    <3>1. k <= Len(Sent)
      BY <1>5
    <3>2. \A i \in 1..k : Same(got'[i], Seen(side, Sent[i]))
      BY <1>1, <1>5, <2>3, <2>4 DEF FramesInOrder, Same, f
    <3> QED
      BY <1>4, <2>3, <3>1, <3>2 DEF FramesInOrder
  <2>9. EndsWhenDue'
    BY <1>14 DEF EndsWhenDue
  <2> QED
    BY <1>4, <2>5, <2>6, <2>7, <2>8, <2>9 DEF Inv, IInv
<1> QED
  BY <1>2, <1>12, <1>13, <1>14

-----------------------------------------------------------------------------
(* The theorems                                                            *)

LEMMA StepKeeps == Inv /\ [Next]_vars => Inv'
<1> SUFFICES ASSUME Inv, [Next]_vars
             PROVE  Inv'
  OBVIOUS
<1>1. ASSUME NEW i \in DOMAIN Outbox, WriteItem(Outbox[i]) \/ StartFrame(Outbox[i])
      PROVE  Inv'
  <2>1. Fits(Outbox[i]) /\ Adds(Outbox[i])
    BY <1>1, WireAssumption, AlignedAssumption DEF Adds, Fits
  <2> QED
    BY <2>1, AddsKeepsPlaces, AddsKeepsRest DEF Inv
<1>2. CASE UNCHANGED vars
  <2>1. /\ side' = side /\ written' = written /\ half' = half /\ open' = open /\ wire' = wire
        /\ starts' = starts /\ taken' = taken /\ reader' = reader /\ head' = head
        /\ got' = got /\ error' = error /\ Sent' = Sent
    BY <1>2 DEF vars, sendVars, readVars, Sent
  <2>2. \A i : Begin(i)' = Begin(i) /\ OctetsOf(i)' = OctetsOf(i)
    BY <2>1 DEF Begin, OctetsOf
  <2>3. Sequences' = Sequences
    BY <2>1 DEF Sequences
  <2>4. TypeOK' = TypeOK
    BY <2>1 DEF TypeOK
  <2>5. IInv' = IInv
    BY <2>1, <2>2 DEF IInv, Placed, ReaderPlaced, Begin
  <2>6. FramesInOrder' = FramesInOrder /\ EndsWhenDue' = EndsWhenDue
    BY <2>1 DEF FramesInOrder, EndsWhenDue
  <2> QED
    BY <2>3, <2>4, <2>5, <2>6 DEF Inv
<1> QED
  BY <1>1, <1>2, Finishes, Closes, ReadsHead, ReadsUnexpected, ReadsPayload, MeetsEof DEF Next

LEMMA Invariance == Spec => []Inv
<1>1. Init => Inv
  BY Initially
<1>2. Inv /\ [Next]_vars => Inv'
  BY StepKeeps
<1> QED
  BY <1>1, <1>2, PTL DEF Spec

(* What is on the stream, in the readers' hands and reported has its type,
   whatever is sent (frame/*.rs; link.rs; client.rs). *)
THEOREM TypeCorrect == Spec => []TypeOK
<1>1. Inv => TypeOK
  BY DEF Inv
<1> QED
  BY <1>1, Invariance, PTL

(* The read loop never loses its place in the stream: between frames it is where
   an item begins, past a head it holds that item's head (link.rs and client.rs,
   read_frame_head, read_*_frame, discard_unknown_frame). *)
THEOREM KeepsItsPlace == Spec => []IInv
<1>1. Inv => IInv
  BY DEF Inv
<1> QED
  BY <1>1, Invariance, PTL

(* The frames reported are those sent, one for one and in order, for any items of
   any lengths in any number of writes (frame/*.rs write_to; link.rs, client.rs). *)
THEOREM ReportsInOrder == Spec => []FramesInOrder
<1>1. Inv => FramesInOrder
  BY DEF Inv
<1> QED
  BY <1>1, Invariance, PTL

(* The read loop ends for what is next on the stream and for nothing else, and at
   its end with every frame completely written reported (link.rs; client.rs). *)
THEOREM EndsOnlyWhenDue == Spec => []EndsWhenDue
<1>1. Inv => EndsWhenDue
  BY DEF Inv
<1> QED
  BY <1>1, Invariance, PTL

\* A frame that can be sent on comes back as it is.
LEMMA StableComesBack ==
  ASSUME NEW s \in Side, NEW g, Stable(s, g)
  PROVE  LET again == WriteTo(g)
         IN  /\ ~PanicsOnHead(s, ParseHead(again.head))
             /\ Same(Decode(s, ParseHead(again.head), again.payload), g)
<1>1. /\ g.kind \in {"data", "headers", "settings", "goaway", "window_update"}
      /\ IsFrame(g) /\ Seen(s, g) = g
  BY DEF Stable
<1>2. Fits(g) /\ g.kind # "unknown" /\ Written(g) = WriteTo(g)
  BY <1>1 DEF Fits, IsItem, TakenWhole, Written
<1> DEFINE h == ParseHead(WriteTo(g).head)
           p == WriteTo(g).payload
<1>3. SeenRaw(s, h, p) = g
  BY <1>1, <1>2, ItemRead
<1> HIDE DEF h, p
<1>4. ~PanicsOnHead(s, h)
  <2>1. g # Panic
    BY <1>1 DEF Panic, Frame
  <2> QED
    BY <1>3, <2>1 DEF SeenRaw
<1>5. Same(Decode(s, h, p), g)
  BY <1>3, <1>4 DEF SeenRaw, Same
<1> QED
  BY <1>4, <1>5 DEF h, p

(* Every frame reported, raw octets of an application included, can be sent on
   and is at another end of the same kind the same frame (server.rs, forward_loop
   and send_to). *)
THEOREM CanBeSentOn == Spec => []Forwardable
<1>1. Inv => Forwardable
  <2> SUFFICES ASSUME Inv, NEW i \in 1..Len(got), got[i].kind # "unknown"
               PROVE  Stable(side, got[i])
    BY Basics, StableComesBack DEF Inv, Forwardable
  <2>1. Sequences /\ TypeOK /\ FramesInOrder
    BY DEF Inv
  <2>2. i \in 1..Len(Sent) /\ got[i] = Seen(side, Sent[i]) /\ side \in Side
    BY <2>1, Basics DEF FramesInOrder, Same
  <2>3. Fits(Sent[i]) /\ Sent[i].kind # "unknown"
    BY <2>1, <2>2 DEF TypeOK
  <2>4. Outcome(side, got[i])
    BY <2>2, <2>3, ItemRead
  <2>5. got[i].kind \notin {"panic", "error"}
    BY <2>1 DEF TypeOK
  <2> QED
    BY <2>4, <2>5, OutcomeKinds
<1> QED
  BY <1>1, Invariance, PTL

(* A RST_STREAM or PRIORITY frame comes back with its stream of 31 bits, its code,
   dependency, weight and exclusive bit (reset.rs; priority.rs). *)
THEOREM ResetAndPriorityReload == Spec => []Reloads
<1>1. ASSUME NEW f, Fits(f), f.kind \in {"reset", "priority"}
      PROVE  LET w == WriteTo(f)
                 seen == Reloaded(f)
             IN  /\ f.kind = "reset" => Same(LoadReset(ParseHead(w.head), w.payload), seen)
                 /\ f.kind = "priority" => Same(LoadPriority(ParseHead(w.head), w.payload), seen)
  <2> DEFINE seen == Reloaded(f)
             h == ParseHead(WriteTo(f).head)
             p == WriteTo(f).payload
  <2>1. IsFrame(f)
    BY <1>1 DEF Fits, IsItem
  <2>2. /\ f = Frame(f.kind, 0, f.stream, f.body) /\ f.stream \in U32
        /\ f.kind = "reset" => f.body \in U32
        /\ f.kind = "priority" => IsDependency(f.body, f.stream)
    BY <1>1, <2>1 DEF IsFrame
  <2>3. seen = IF f.kind = "priority" /\ f.body.dependency = ClearMsb(f.stream)
               THEN Error("InvalidDependencyId")
               ELSE Frame(f.kind, 0, ClearMsb(f.stream), f.body)
    BY <2>2 DEF Reloaded, Frame
  <2>4. ASSUME f.kind = "reset"
        PROVE  LoadReset(h, p) = seen
    <3>1. p = PutU32(f.body) /\ h = ParseHead(EncodeHead(3, 0, f.stream, Len(p)))
      BY <2>4, KindCodes DEF WriteTo, WriteReset, Write
    <3>2. IsPayload(p)
      BY <2>2, <2>4, <3>1, U32Payload
    <3>3. h.stream = ClearMsb(f.stream)
      <4> HIDE DEF h, p
      <4>1. 0 \in Octet /\ 2 \in Octet /\ 3 \in Octet
        BY CodesAreOctets
      <4> QED
        BY <2>2, <3>1, <3>2, <4>1, HeadOfPayload
    <3> HIDE DEF h, p, seen
    <3>4. LoadReset(h, PutU32(f.body)) = Frame("reset", 0, h.stream, f.body)
      BY <2>2, <2>4, ResetRoundTrip
    <3> QED
      BY <2>3, <2>4, <3>1, <3>3, <3>4
  <2>5. ASSUME f.kind = "priority"
        PROVE  LoadPriority(h, p) = seen
    <3>1. p = EncodeDependency(f.body) /\ h = ParseHead(EncodeHead(2, 0, f.stream, Len(p)))
      BY <2>5, KindCodes DEF WriteTo, WritePriority, Write
    <3>2. IsPayload(p)
      BY <2>2, <2>5, <3>1, PriorityRoundTrip
    <3>3. h.stream = ClearMsb(f.stream)
      <4> HIDE DEF h, p
      <4>1. 0 \in Octet /\ 2 \in Octet /\ 3 \in Octet
        BY CodesAreOctets
      <4> QED
        BY <2>2, <3>1, <3>2, <4>1, HeadOfPayload
    <3> QED
      BY <2>2, <2>3, <2>5, <3>1, <3>3, PriorityRoundTrip
  <2> QED
    BY <2>4, <2>5 DEF Same
<1>2. Inv => Reloads
  <2> SUFFICES ASSUME Inv, NEW i \in 1..Len(written)
               PROVE  Fits(written[i])
    BY <1>1 DEF Reloads
  <2>1. Sequences /\ TypeOK
    BY DEF Inv
  <2>2. i \in 1..Len(Sent) /\ Sent[i] = written[i]
    BY <2>1, Basics
  <2> QED
    BY <2>1, <2>2 DEF TypeOK
<1> QED
  BY <1>2, Invariance, PTL

-----------------------------------------------------------------------------
(* The refinement of Delivery                                              *)

Partial == half # <<>> /\ Len(Written(half[1]).payload) # 0
Over    == reader \in {"broken", "panicked"}

\* How many items are all there, and when the reader has one of them before it.
LEMMA WholeIs ==
  ASSUME Sequences, TypeOK
  PROVE  /\ Len(Sent) \in Nat
         /\ D!Whole = IF Partial THEN Len(Sent) - 1 ELSE Len(Sent)
         /\ Partial => D!Whole = Len(written)
<1>1. Len(Sent) \in Nat /\ Len(Sent) = Len(written) + Len(half) /\ Len(written) \in Nat
  BY Basics
<1>2. D!Whole = IF Partial THEN Len(Sent) - 1 ELSE Len(Sent)
  BY DEF D!Whole, Partial
<1>3. ASSUME Partial
      PROVE  D!Whole = Len(written)
  <2>1. Len(half) = 1
    BY <1>3, Basics DEF Partial
  <2> QED
    BY <1>1, <1>2, <1>3, <2>1
<1> QED
  BY <1>1, <1>2, <1>3

LEMMA AddsDelivered ==
  ASSUME Inv, NEW f, Fits(f), Adds(f)
  PROVE  D!Send
<1>1. Sequences /\ TypeOK
  BY DEF Inv
<1>2. /\ half = <<>> /\ open /\ Len(Sent') = Len(Sent) + 1
      /\ \A i \in 1..Len(Sent) : Sent'[i] = Sent[i]
      /\ UNCHANGED <<open, readVars>>
  BY <1>1, SentAppended
<1>3. side' = side /\ got' = got /\ Over' = Over /\ open' = open
  BY <1>2 DEF readVars, Over
<1>4. ~Partial /\ Partial' \in BOOLEAN
  BY <1>2 DEF Partial
<1> QED
  BY <1>2, <1>3, <1>4 DEF D!Send, Partial, Over

LEMMA FinishDelivered ==
  ASSUME Inv, FinishFrame
  PROVE  D!Complete \/ UNCHANGED D!delivery
<1>1. Sequences
  BY DEF Inv
<1>2. PICK S : written \in Seq(S) /\ half \in Seq(S)
  BY <1>1 DEF Sequences
<1>3. /\ open /\ written' = Sent /\ half' = <<>> /\ UNCHANGED <<open, readVars>>
  BY DEF FinishFrame, Sent
<1>4. Sent' = Sent
  <2>1. Sent \in Seq(S) /\ Sent' = written' \o half'
    BY <1>2 DEF Sent
  <2> QED
    BY <1>3, <2>1, ConcatEmptySeq
<1>5. ~Partial' /\ side' = side /\ got' = got /\ Over' = Over /\ open' = open
  BY <1>3 DEF readVars, Partial, Over
<1> QED
  BY <1>3, <1>4, <1>5 DEF D!Complete, D!delivery, Partial, Over

LEMMA CloseDelivered == Close => D!Close
<1> SUFFICES ASSUME Close
             PROVE  D!Close
  OBVIOUS
<1>1. /\ open /\ open' = FALSE /\ Sent' = Sent /\ half' = half
      /\ side' = side /\ got' = got /\ reader' = reader
  BY DEF Close, readVars, Sent
<1> QED
  BY <1>1 DEF D!Close

LEMMA HeadDelivered == ReadHead => UNCHANGED D!delivery
<1> SUFFICES ASSUME ReadHead
             PROVE  UNCHANGED D!delivery
  OBVIOUS
<1>1. /\ Sent' = Sent /\ half' = half /\ open' = open /\ side' = side /\ got' = got
      /\ reader = "head" /\ reader' = "body"
  BY DEF ReadHead, Take, sendVars, Sent
<1> QED
  BY <1>1 DEF D!delivery

\* The reader gives up on what is next.
LEMMA RefusalDelivered ==
  ASSUME Inv, UNCHANGED <<sendVars, side, got>>, reader = "body",
         reader' \in {"broken", "panicked"}, Len(got) < Len(Sent),
         Seen(side, Sent[Len(got) + 1]).kind \in {"panic", "error"}
  PROVE  D!Refuse
<1>1. /\ Sent' = Sent /\ half' = half /\ open' = open /\ side' = side /\ got' = got
  BY DEF sendVars, Sent
<1> QED
  BY <1>1 DEF D!Refuse, D!Refused, D!Coming

LEMMA UnexpectedDelivered ==
  ASSUME Inv, ReadUnexpected
  PROVE  D!Refuse
<1>1. /\ reader = "body" /\ reader' = "panicked" /\ UNCHANGED <<sendVars, side, got>>
      /\ Sent' = Sent /\ side' = side /\ got' = got
  BY DEF ReadUnexpected, sendVars, Sent
<1>2. EndsWhenDue'
  BY ReadsUnexpected DEF Inv
<1>3. Len(got) < Len(Sent) /\ Seen(side, Sent[Len(got) + 1]) = Panic
  BY <1>1, <1>2 DEF EndsWhenDue
<1>4. Panic.kind = "panic"
  BY DEF Panic, Frame
<1> QED
  BY <1>1, <1>3, <1>4, RefusalDelivered

LEMMA EofDelivered ==
  ASSUME Inv, ReadEof
  PROVE  D!Drained
<1>1. Sequences /\ TypeOK /\ ReaderPlaced /\ FramesInOrder
  BY DEF Inv, IInv
<1>2. /\ ~open /\ reader \in {"head", "body"} /\ reader' = "broken"
      /\ Sent' = Sent /\ half' = half /\ open' = open /\ side' = side /\ got' = got
  BY DEF ReadEof, sendVars, Sent
<1>3. /\ Len(Sent) \in Nat /\ Len(got) \in Nat /\ Len(got) <= Len(Sent)
      /\ Len(written) \in Nat
  BY <1>1, Basics DEF FramesInOrder
<1>4. PICK k : k = Len(got) + 1
  OBVIOUS
<1>5. Len(got) = D!Whole
  <2>1. CASE Len(got) = Len(Sent)
    <3>1. ~Partial
      <4>1. SUFFICES ASSUME Partial
                     PROVE  FALSE
        OBVIOUS
      <4>2. Len(Sent) = Len(written) + 1
        <5>1. Len(half) = 1 /\ Len(Sent) = Len(written) + Len(half)
          BY <1>1, <4>1, Basics DEF Partial
        <5> QED
          BY <5>1
      <4> QED
        BY <1>1, <1>3, <2>1, <4>1, <4>2 DEF ReaderPlaced, Partial
    <3> QED
      BY <1>1, <2>1, <3>1, WholeIs
  <2>2. CASE Len(got) < Len(Sent)
    <3>1. k \in 1..Len(Sent)
      BY <1>3, <1>4, <2>2
    <3>2. k > Len(written) /\ Partial
      BY <1>4, <3>1, LeftAtEof DEF Partial
    <3>3. D!Whole = Len(written) /\ D!Whole = Len(Sent) - 1
      BY <1>1, <3>2, WholeIs
    <3> QED
      BY <1>3, <1>4, <3>1, <3>2, <3>3
  <2> QED
    BY <1>3, <2>1, <2>2
<1> QED
  BY <1>2, <1>5 DEF D!Drained

LEMMA PayloadDelivered ==
  ASSUME Inv, ReadPayload
  PROVE  D!Deliver \/ D!Refuse
<1> DEFINE n == PayloadLength(head)
           g == Decode(side, head, SubSeq(wire, taken + 1, taken + n))
<1>1. /\ reader = "body" /\ UNCHANGED <<sendVars, side>>
      /\ \/ g.kind = "panic" /\ reader' = "panicked" /\ UNCHANGED <<got, error>>
         \/ g.kind = "error" /\ reader' = "broken" /\ UNCHANGED got
         \/ g.kind \notin {"panic", "error"} /\ reader' = "head" /\ got' = Append(got, g)
  BY DEF ReadPayload, Report, Take, Coming
<1>2. PICK k : k = Len(got) + 1
  OBVIOUS
<1>3. /\ k \in 1..Len(Sent) /\ Len(got) < Len(Sent) /\ g = Seen(side, Sent[k])
      /\ k > Len(written) => Len(Written(Sent[k]).payload) = 0 /\ Sent[k] = half[1]
  BY <1>2, PayloadSeen
<1>4. /\ Sent' = Sent /\ half' = half /\ open' = open /\ side' = side
  BY <1>1 DEF sendVars, Sent
<1> HIDE DEF n, g
<1>5. CASE g.kind \in {"panic", "error"}
  <2>1. got' = got /\ reader' \in {"broken", "panicked"}
    BY <1>1, <1>5
  <2> QED
    BY <1>1, <1>2, <1>3, <1>5, <2>1, RefusalDelivered
<1>6. CASE g.kind \notin {"panic", "error"}
  <2>1. reader' = "head" /\ got' = Append(got, g)
    BY <1>1, <1>6
  <2>2. Len(got) < D!Whole
    <3>1. /\ Sequences /\ TypeOK /\ Len(got) \in Nat /\ Len(written) \in Nat
      BY Basics DEF Inv
    <3>2. CASE Partial
      <4>1. k <= Len(written)
        BY <1>2, <1>3, <3>1, <3>2 DEF Partial
      <4>2. D!Whole = Len(written)
        BY <3>1, <3>2, WholeIs
      <4> QED
        BY <1>2, <3>1, <4>1, <4>2
    <3>3. CASE ~Partial
      BY <1>3, <3>1, <3>3, WholeIs
    <3> QED
      BY <3>2, <3>3
  <2>3. D!Coming = g
    BY <1>2, <1>3 DEF D!Coming
  <2> QED
    BY <1>1, <1>4, <1>6, <2>1, <2>2, <2>3 DEF D!Deliver, D!Refused
<1> QED
  BY <1>5, <1>6

LEMMA StepDelivered == Inv /\ [Next]_vars => [D!Next]_(D!delivery)
<1> SUFFICES ASSUME Inv, [Next]_vars
             PROVE  D!Next \/ UNCHANGED D!delivery
  OBVIOUS
<1>1. ASSUME NEW i \in DOMAIN Outbox, WriteItem(Outbox[i]) \/ StartFrame(Outbox[i])
      PROVE  D!Next
  <2>1. Fits(Outbox[i]) /\ Adds(Outbox[i])
    BY <1>1, WireAssumption, AlignedAssumption DEF Adds, Fits
  <2> QED
    BY <2>1, AddsDelivered DEF D!Next
<1>2. CASE UNCHANGED vars
  <2>1. /\ Sent' = Sent /\ half' = half /\ open' = open /\ side' = side
        /\ got' = got /\ reader' = reader
    BY <1>2 DEF vars, sendVars, readVars, Sent
  <2> QED
    BY <2>1 DEF D!delivery
<1>3. CASE FinishFrame \/ Close
  BY <1>3, FinishDelivered, CloseDelivered DEF D!Next
<1>4. CASE ReadHead \/ ReadUnexpected
  BY <1>4, HeadDelivered, UnexpectedDelivered DEF D!Next
<1>5. CASE ReadPayload \/ ReadEof
  BY <1>5, PayloadDelivered, EofDelivered DEF D!Next
<1> QED
  BY <1>1, <1>2, <1>3, <1>4, <1>5 DEF Next

(* One direction of a connection implements Delivery: frames are delivered one by
   one, in order and when they are all there, until one is refused or the stream
   has run dry (link.rs and client.rs, read_loop; frame/*.rs write_to). *)
THEOREM Implementation == Spec => ImplementsDelivery
<1>1. Init => D!Init
  BY DEF Init, D!Init, Sent
<1>2. Inv /\ [Next]_vars => [D!Next]_(D!delivery)
  BY StepDelivered
<1> QED
  BY <1>1, <1>2, Invariance, PTL DEF Spec, ImplementsDelivery, D!Spec
=============================================================================
