-------------------------------- MODULE Wire --------------------------------
(***************************************************************************)
(* One direction of a connection: the write loop of one end puts items on  *)
(* the stream, the read loop of the other (side says which: src/link.rs or *)
(* src/client.rs) takes the frames apart again.  The stream carries octets *)
(* and no boundaries: every read is a read_exact.                          *)
(*                                                                         *)
(* An item is a frame, or "raw": the Transaction::Bytes an application can *)
(* send, here one whole frame of any kind, flags and payload.              *)
(***************************************************************************)
EXTENDS Frames

Raw(code, flags, stream, payload) ==
  Frame("raw", flags, stream, [code |-> code, payload |-> payload])

IsRaw(f) ==
  /\ f = Raw(f.body.code, f.flags, f.stream, f.body.payload)
  /\ f.flags \in Octet /\ f.stream \in U32
  /\ f.body.code \in Octet /\ IsPayload(f.body.payload)

IsItem(f) == IF f.kind = "raw" THEN IsRaw(f) ELSE IsFrame(f)

CONSTANTS
  Sides,      \* the ends that may be the reading one
  Outbox,     \* the items the other end may send, one per index
  MaxItems    \* bound: items sent

ASSUME WireAssumption ==
  /\ Sides \subseteq {"client", "server"}
  /\ \A i \in DOMAIN Outbox : IsItem(Outbox[i])
  /\ MaxItems \in Nat

VARIABLES
  side,       \* the end that reads: "client" or "server"
  written,    \* the items completely written, but for those without octets
  half,       \* the item of which only the head is, as a sequence
  open,       \* whether the writing end still has the stream open
  wire,       \* the octets put on the stream
  starts,     \* how many there were before each item (ghost)
  taken,      \* how many of them have been read
  reader,     \* where the read loop is
  head,       \* the head it has read
  got,        \* the frames it has reported
  error       \* why it broke

sendVars == <<written, half, open, wire, starts>>
readVars == <<side, taken, reader, head, got, error>>
vars == <<sendVars, readVars>>

NoHead == [kind |-> "unknown", flags |-> 0, stream |-> Zero, length |-> 0]

Init ==
  /\ side \in Sides
  /\ written = <<>> /\ half = <<>> /\ open = TRUE /\ wire = <<>> /\ starts = <<>>
  /\ taken = 0 /\ reader = "head" /\ head = NoHead /\ got = <<>> /\ error = "none"

-----------------------------------------------------------------------------
(* The writing end                                                         *)

Written(f) ==
  IF f.kind = "raw"
  THEN [head |-> EncodeHead(f.body.code, f.flags, f.stream, Len(f.body.payload)),
        payload |-> f.body.payload]
  ELSE WriteTo(f)

CanWrite == open /\ half = <<>> /\ Len(written) < MaxItems

WriteItem(f) ==
  /\ CanWrite
  /\ f.kind \notin InTwoWrites \cup {"unknown"}
  /\ wire' = wire \o (Written(f).head \o Written(f).payload)
  /\ starts' = Append(starts, Len(wire))
  /\ written' = Append(written, f)
  /\ UNCHANGED <<half, open, readVars>>

\* write_to of a frame with a payload of its own: the head ...
StartFrame(f) ==
  /\ CanWrite
  /\ f.kind \in InTwoWrites
  /\ wire' = wire \o Written(f).head
  /\ starts' = Append(starts, Len(wire))
  /\ half' = <<f>>
  /\ UNCHANGED <<written, open, readVars>>

\* ... and the payload.
FinishFrame ==
  /\ open /\ half # <<>>
  /\ wire' = wire \o Written(half[1]).payload
  /\ written' = written \o half
  /\ half' = <<>>
  /\ UNCHANGED <<open, starts, readVars>>

\* The writing end goes away, perhaps in the middle of a frame.
Close ==
  /\ open
  /\ open' = FALSE
  /\ UNCHANGED <<written, half, wire, starts, readVars>>

-----------------------------------------------------------------------------
(* The reading end                                                         *)

\* A SETTINGS payload does not fit the 256-octet buffer; the server's match
\* ends in unreachable!().
PanicsOnHead(s, h) ==
  \/ h.kind = "settings" /\ h.length > 256
  \/ s = "server"
     /\ h.kind \notin {"data", "headers", "settings", "goaway", "window_update"}

\* Mutation: the payload of a frame of another kind is not discarded.
PayloadLengthKnown(h) ==
  CASE h.kind = "window_update" -> 4
    [] h.kind \in {"data", "headers", "settings", "goaway"} -> h.length
    [] OTHER -> 0

\* read_window_update_frame reads four octets, whatever the head says.
PayloadLength(h) == IF h.kind = "window_update" THEN 4 ELSE h.length

\* The server builds DATA with Data::new, which asserts a stream and has no
\* flags; the client discards the kinds it does not know.
Decode(s, h, p) ==
  CASE h.kind = "data" /\ s = "client" -> LoadData(h, p)
    [] h.kind = "data" /\ s = "server" -> NewData(h.stream, p)
    [] h.kind = "headers"       -> Frame("headers", 0, h.stream, p)
    [] h.kind = "settings"      -> LoadSettings(h, p)
    [] h.kind = "goaway"        -> LoadGoAway(p)
    [] h.kind = "window_update" -> LoadWindowUpdate(h, p)
    [] OTHER                    -> Frame("unknown", 0, Zero, <<>>)

\* The next n octets of the stream, and taking them.
Coming(n) == SubSeq(wire, taken + 1, taken + n)
Take(n) ==
  /\ Len(wire) - taken >= n
  /\ taken' = taken + n
  /\ UNCHANGED sendVars

ReadHead ==
  /\ reader = "head"
  /\ Take(HEADER_LEN)
  /\ head' = ParseHead(Coming(HEADER_LEN))
  /\ reader' = "body"
  /\ UNCHANGED <<side, got, error>>

ReadUnexpected ==
  /\ reader = "body"
  /\ PanicsOnHead(side, head)
  /\ reader' = "panicked"
  /\ UNCHANGED <<sendVars, taken, side, head, got, error>>

\* Mutation: the loop goes on after a frame that does not load.
ReportGoesOn(f) ==
  \/ f.kind = "panic" /\ reader' = "panicked" /\ UNCHANGED <<got, error>>
  \/ f.kind = "error" /\ reader' = "head" /\ error' = f.body /\ UNCHANGED got
  \/ /\ f.kind \notin {"panic", "error"}
     /\ reader' = "head" /\ got' = Append(got, f) /\ UNCHANGED error

\* An assertion ends the task, a failure to load breaks the loop, a frame is
\* reported.
Report(f) ==
  \/ f.kind = "panic" /\ reader' = "panicked" /\ UNCHANGED <<got, error>>
  \/ f.kind = "error" /\ reader' = "broken" /\ error' = f.body /\ UNCHANGED got
  \/ /\ f.kind \notin {"panic", "error"}
     /\ reader' = "head" /\ got' = Append(got, f) /\ UNCHANGED error

ReadPayload ==
  /\ reader = "body"
  /\ ~PanicsOnHead(side, head)
  /\ Take(PayloadLength(head))
  /\ Report(Decode(side, head, Coming(PayloadLength(head))))
  /\ UNCHANGED <<side, head>>

\* Mutation: the end of the stream is noticed before what is left in it.
ReadEofAtOnce ==
  /\ ~open
  /\ reader = "head" \/ (reader = "body" /\ ~PanicsOnHead(side, head))
  /\ reader' = "broken" /\ error' = "Io"
  /\ UNCHANGED <<sendVars, taken, side, head, got>>

\* read_exact meets the end of the stream.
ReadEof ==
  /\ ~open
  /\ \/ reader = "head" /\ Len(wire) - taken < HEADER_LEN
     \/ reader = "body" /\ ~PanicsOnHead(side, head) /\ Len(wire) - taken < PayloadLength(head)
  /\ reader' = "broken" /\ error' = "Io"
  /\ UNCHANGED <<sendVars, taken, side, head, got>>

Next ==
  \/ \E i \in DOMAIN Outbox : WriteItem(Outbox[i]) \/ StartFrame(Outbox[i])
  \/ FinishFrame \/ Close
  \/ ReadHead \/ ReadUnexpected \/ ReadPayload \/ ReadEof

Spec == Init /\ [][Next]_vars
=============================================================================
