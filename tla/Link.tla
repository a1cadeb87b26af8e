-------------------------------- MODULE Link --------------------------------
(***************************************************************************)
(* The two tasks of one accepted connection (src/link.rs).  Link::new      *)
(* spawns read_loop and write_loop; they share the flags word of the link  *)
(* and report to the server through one bounded channel, `trans'.  The     *)
(* server writes to the link only through its bounded `outgoing' channel.  *)
(*                                                                         *)
(* add_flags is a load followed by a store (two SeqCst accesses, not one   *)
(* fetch_or), and the flags of the LinkChanged message are loaded a third  *)
(* time, so each of these accesses is a step of its own here.              *)
(*                                                                         *)
(* A message of `trans' names the link that sent it.  The code only knows  *)
(* its token, token[m.link]: the operators of the server never look at     *)
(* m.link for anything but that token and the ghost counters.              *)
(***************************************************************************)
EXTENDS Integers, Sequences

CONSTANTS
  Links,      \* every connection that is ever accepted
  Tokens,     \* raw file descriptors, reused once the socket is closed
  None,       \* no link, no token
  TransCap,   \* capacity of the server's channel  (4096 in the code)
  OutCap,     \* capacity of a link's outgoing channel (1024 in the code)
  PeerSends   \* what the peers put on the wire, a subset of PeerInput

Frames    == {"data", "settings", "other"}
PeerInput == Frames \cup {"invalid", "unexpected", "upgrade", "garbage"}

ASSUME LinkAssumption ==
  /\ None \notin Links \cup Tokens
  /\ TransCap \in Nat \ {0}
  /\ OutCap \in Nat \ {0}
  /\ PeerSends \subseteq PeerInput

VARIABLES
  token,      \* the descriptor of the socket, Link::token
  peer,       \* the other end: "none" before accept, then "open", "closed"
  reader,     \* where read_loop is
  writer,     \* where write_loop is
  rlocal,     \* the flags read_loop has loaded
  wlocal,     \* the flags write_loop has loaded
  flags,      \* the AtomicU32, as the set of its bits
  outgoing,   \* the channel the server and the application write to
  trans       \* the channel every link and the accept loop write to

linkVars == <<token, peer, reader, writer, rlocal, wlocal, flags, outgoing>>

LinkFlag == {"READ_CLOSED", "WRITE_CLOSED", "ATTACHED", "DETACHED"}

READ_CLOSED       == {"READ_CLOSED"}
WRITE_CLOSED      == {"WRITE_CLOSED"}
READ_WRITE_CLOSED == READ_CLOSED \cup WRITE_CLOSED

\* Mutation: no match arm for 0x0003.
FlagsReadSingle(bits) == IF \E f \in LinkFlag : bits = {f} THEN bits ELSE {}

\* Link::flags decodes the word by an exact match: 0x0001, 0x0002, 0x0003,
\* 0x0004 and 0x0008 are themselves, every other value reads as NONE.
FlagsRead(bits) ==
  IF bits = READ_WRITE_CLOSED \/ \E f \in LinkFlag : bits = {f} THEN bits ELSE {}

MsgKind == Frames \cup {"new", "changed", "exited"}
Msg     == [kind : MsgKind, link : Links \cup {None}, flags : SUBSET LinkFlag]
FrameMsg(k, l)   == [kind |-> k, link |-> l, flags |-> {}]
NewLinkMsg(l)    == [kind |-> "new", link |-> l, flags |-> {}]
ChangedMsg(l, f) == [kind |-> "changed", link |-> l, flags |-> f]
ExitedMsg        == [kind |-> "exited", link |-> None, flags |-> {}]

Room == Len(trans) < TransCap
\* Mutation: a channel without a bound.
ReportUnbounded(m) == trans' = Append(trans, m)
Report(m) == Room /\ trans' = Append(trans, m)

ReaderState == {"idle", "preface", "upgrade", "again", "frames",
                "store", "sample", "send", "done", "panicked"}
WriterState == {"idle", "recv", "store", "sample", "send", "done"}

\* A task that has returned or panicked has dropped its Arc<Link>.
ReaderAlive(l) == reader[l] \notin {"idle", "done", "panicked"}
WriterAlive(l) == writer[l] \notin {"idle", "done"}

LinkInit ==
  /\ token    = [l \in Links |-> None]
  /\ peer     = [l \in Links |-> "none"]
  /\ reader   = [l \in Links |-> "idle"]
  /\ writer   = [l \in Links |-> "idle"]
  /\ rlocal   = [l \in Links |-> {}]
  /\ wlocal   = [l \in Links |-> {}]
  /\ flags    = [l \in Links |-> {}]
  /\ outgoing = [l \in Links |-> <<>>]
  /\ trans    = <<>>

-----------------------------------------------------------------------------
(* Construction and the peer                                               *)

\* Link::new: both tasks are running before the accept loop announces the link.
NewLink(l, t) ==
  /\ peer[l] = "none"
  /\ token'  = [token EXCEPT ![l] = t]
  /\ peer'   = [peer EXCEPT ![l] = "open"]
  /\ reader' = [reader EXCEPT ![l] = "preface"]
  /\ writer' = [writer EXCEPT ![l] = "recv"]
  /\ UNCHANGED <<rlocal, wlocal, flags, outgoing, trans>>

\* The other end closes or resets, or the network loses it.
PeerCloses(l) ==
  /\ peer[l] = "open"
  /\ peer' = [peer EXCEPT ![l] = "closed"]
  /\ UNCHANGED <<token, reader, writer, rlocal, wlocal, flags, outgoing, trans>>

\* try_send on the outgoing channel: refused when it is full, and when
\* write_loop has returned and dropped the receiving end.
CanSend(l) == writer[l] # "done" /\ Len(outgoing[l]) < OutCap
Send(l, item) == outgoing' = [outgoing EXCEPT ![l] = Append(@, item)]

-----------------------------------------------------------------------------
(* read_loop                                                               *)

GoReader(l, s) ==
  /\ reader' = [reader EXCEPT ![l] = s]
  /\ UNCHANGED <<token, peer, writer, wlocal, outgoing>>

\* handshake, first read: 24 bytes that are the preface, an I/O error (which
\* handshake reports as success), or other bytes, taken for an HTTP/1.1 request.
ReadPreface(l) ==
  /\ reader[l] = "preface"
  /\ \/ GoReader(l, "frames")
     \/ PeerSends \cap {"upgrade", "garbage"} # {} /\ GoReader(l, "upgrade")
  /\ UNCHANGED <<rlocal, flags, trans>>

\* handshake_http_1_1_upgrade: one read, then 101 and the preface again; an
\* error is only logged; a request httparse rejects fails the unwrap.
ReadUpgrade(l) ==
  /\ reader[l] = "upgrade"
  /\ \/ GoReader(l, "frames")
     \/ "upgrade" \in PeerSends /\ GoReader(l, "again")
     \/ "garbage" \in PeerSends /\ GoReader(l, "panicked")
  /\ UNCHANGED <<rlocal, flags, trans>>

\* The second preface, whatever it is: read_loop ignores the result.
ReadPrefaceAgain(l) ==
  /\ reader[l] = "again"
  /\ GoReader(l, "frames")
  /\ UNCHANGED <<rlocal, flags, trans>>

\* One frame read, decoded and sent to the server.
ReadFrame(l) ==
  /\ reader[l] = "frames"
  /\ \E k \in PeerSends \cap Frames : Report(FrameMsg(k, l))
  /\ UNCHANGED <<token, peer, reader, writer, rlocal, wlocal, flags, outgoing>>

\* A frame of a kind the match calls unreachable!() (PING, PRIORITY,
\* RST_STREAM, ...), a DATA frame of stream 0, a SETTINGS payload over 256.
ReadUnexpected(l) ==
  /\ reader[l] = "frames"
  /\ "unexpected" \in PeerSends
  /\ GoReader(l, "panicked")
  /\ UNCHANGED <<rlocal, flags, trans>>

\* End of file, an I/O error or a frame that does not decode breaks the loop;
\* add_flags(READ_CLOSED) loads the word.
ReadBreak(l) ==
  /\ reader[l] = "frames"
  /\ peer[l] = "closed" \/ "invalid" \in PeerSends
  /\ rlocal' = [rlocal EXCEPT ![l] = FlagsRead(flags[l])]
  /\ GoReader(l, "store")
  /\ UNCHANGED <<flags, trans>>

\* ... and stores what it loaded with READ_CLOSED added.
ReaderStore(l) ==
  /\ reader[l] = "store"
  /\ flags' = [flags EXCEPT ![l] = rlocal[l] \cup READ_CLOSED]
  /\ GoReader(l, "sample")
  /\ UNCHANGED <<rlocal, trans>>

\* The flags of the LinkChanged message are loaded afresh.
ReaderSample(l) ==
  /\ reader[l] = "sample"
  /\ rlocal' = [rlocal EXCEPT ![l] = FlagsRead(flags[l])]
  /\ GoReader(l, "send")
  /\ UNCHANGED <<flags, trans>>

ReaderSend(l) ==
  /\ reader[l] = "send"
  /\ Report(ChangedMsg(l, rlocal[l]))
  /\ GoReader(l, "done")
  /\ UNCHANGED <<rlocal, flags>>

Reader(l) ==
  \/ ReadPreface(l) \/ ReadUpgrade(l) \/ ReadPrefaceAgain(l)
  \/ ReadFrame(l) \/ ReadUnexpected(l) \/ ReadBreak(l)
  \/ ReaderStore(l) \/ ReaderSample(l) \/ ReaderSend(l)

-----------------------------------------------------------------------------
(* write_loop.  An outgoing item is "write" (Bytes or Frame, put on the    *)
(* socket) or "stop" (LinkChanged carrying READ_CLOSED).                   *)

GoWriter(l, s) ==
  /\ writer' = [writer EXCEPT ![l] = s]
  /\ UNCHANGED <<token, peer, reader, rlocal>>

Receive(l, item) ==
  /\ writer[l] = "recv"
  /\ outgoing[l] # <<>>
  /\ Head(outgoing[l]) = item
  /\ outgoing' = [outgoing EXCEPT ![l] = Tail(@)]

WriteItem(l) ==
  /\ Receive(l, "write")
  /\ UNCHANGED <<token, peer, reader, writer, rlocal, wlocal, flags, trans>>

\* A failed write or a relayed READ_CLOSED breaks the loop;
\* add_flags(WRITE_CLOSED) loads the word.
WriteBreak(l) ==
  /\ \/ Receive(l, "write") /\ peer[l] = "closed"
     \/ Receive(l, "stop")
  /\ wlocal' = [wlocal EXCEPT ![l] = FlagsRead(flags[l])]
  /\ GoWriter(l, "store")
  /\ UNCHANGED <<flags, trans>>

\* Mutation: the store forgets what was loaded.
WriterStoreOverwrites(l) ==
  /\ writer[l] = "store"
  /\ flags' = [flags EXCEPT ![l] = WRITE_CLOSED]
  /\ GoWriter(l, "sample")
  /\ UNCHANGED <<wlocal, outgoing, trans>>

WriterStore(l) ==
  /\ writer[l] = "store"
  /\ flags' = [flags EXCEPT ![l] = wlocal[l] \cup WRITE_CLOSED]
  /\ GoWriter(l, "sample")
  /\ UNCHANGED <<wlocal, outgoing, trans>>

WriterSample(l) ==
  /\ writer[l] = "sample"
  /\ wlocal' = [wlocal EXCEPT ![l] = FlagsRead(flags[l])]
  /\ GoWriter(l, "send")
  /\ UNCHANGED <<flags, outgoing, trans>>

WriterSend(l) ==
  /\ writer[l] = "send"
  /\ Report(ChangedMsg(l, wlocal[l]))
  /\ GoWriter(l, "done")
  /\ UNCHANGED <<wlocal, flags, outgoing>>

Writer(l) ==
  \/ WriteItem(l) \/ WriteBreak(l)
  \/ WriterStore(l) \/ WriterSample(l) \/ WriterSend(l)

LinkTypeOK ==
  /\ token    \in [Links -> Tokens \cup {None}]
  /\ peer     \in [Links -> {"none", "open", "closed"}]
  /\ reader   \in [Links -> ReaderState]
  /\ writer   \in [Links -> WriterState]
  /\ rlocal   \in [Links -> SUBSET LinkFlag]
  /\ wlocal   \in [Links -> SUBSET LinkFlag]
  /\ flags    \in [Links -> SUBSET LinkFlag]
  /\ outgoing \in [Links -> Seq({"write", "stop"})]
  /\ trans    \in Seq(Msg)
  /\ Len(trans) <= TransCap
  /\ \A l \in Links : Len(outgoing[l]) <= OutCap
=============================================================================
