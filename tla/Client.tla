------------------------------- MODULE Client -------------------------------
(***************************************************************************)
(* The client (src/client.rs): mantain_loop connects, handshakes, spawns a *)
(* read_loop and a write_loop for the session and waits for both;          *)
(* forward_loop hands what they report to the application and relays the   *)
(* end of the reader to the writer; the thread of Client::spawn joins the  *)
(* first two.  They share one flags word, one channel in each direction    *)
(* that outlives the sessions, and the token of the current session.       *)
(*                                                                         *)
(* add_flags is a load and a store, the flags of a ClientChanged message   *)
(* are a further load; the read and write loops run in parallel, so these  *)
(* are separate steps there.  mantain_loop changes the word only while no  *)
(* other task does, and does so in one step.                               *)
(***************************************************************************)
EXTENDS Integers, Sequences

CONSTANTS
  InCap,          \* capacity of the incoming channel (4096 in the code)
  OutCap,         \* capacity of the outgoing channel (4096 in the code)
  AutoReconnect,  \* the second argument of Client::new
  PeerSends,      \* what the peer sends within a session
  MaxSessions,    \* bound: connections made
  MaxSends        \* bound: items the application sends

PeerInput == {"frame", "invalid", "oversized"}

ASSUME ClientAssumption ==
  /\ InCap \in Nat \ {0} /\ OutCap \in Nat \ {0}
  /\ AutoReconnect \in BOOLEAN
  /\ PeerSends \subseteq PeerInput
  /\ MaxSessions \in Nat /\ MaxSends \in Nat

VARIABLES
  exitLoop,   \* exit_loop
  flags,      \* the AtomicU32, as the set of its bits
  rawToken,   \* raw_token: the session, 0 when there is none
  incoming,   \* the channel to the application
  outgoing,   \* the channel to the peer
  mantain,    \* where mantain_loop is
  reader,     \* where read_loop is
  writer,     \* where write_loop is
  rlocal,     \* the flags read_loop has loaded
  wlocal,     \* the flags write_loop has loaded
  forward,    \* where forward_loop is
  inHand,     \* the READ_CLOSED it is relaying, as a sequence of at most one
  relay,      \* what it relays: "stop" if the flags it loaded say READ_CLOSED
  main,       \* which task the spawned thread is joining
  conn,       \* the socket: eof after the peer's FIN, shut by read_loop
  session,    \* how many sessions there have been
  told,       \* the session the application believes it is in
  sends       \* how many items the application has sent

loopVars  == <<reader, writer, rlocal, wlocal>>
fwdVars   == <<forward, inHand, relay, told>>
envVars   == <<exitLoop, main, sends>>
vars == <<flags, rawToken, incoming, outgoing, mantain, conn, session,
          loopVars, fwdVars, envVars>>

ClientFlag == {"MANTAIN_LOOP_EXITED", "HANDSHAKED", "READ_CLOSED",
               "WRITE_CLOSED", "RECONNECTED"}
Msg == [kind : {"changed", "frame"}, flags : SUBSET ClientFlag, token : Nat]
ChangedMsg(fs) == [kind |-> "changed", flags |-> fs, token |-> rawToken]
FrameMsg       == [kind |-> "frame", flags |-> {}, token |-> rawToken]

\* Whether a write loop of this session has yet to flush the outgoing channel.
FlushToCome == mantain \in {"announce", "settings"} \/ writer \in {"recv", "flush"}

\* An outgoing item, with the session it was accepted in or after, and whether
\* the flush of that session was over by then; before the first session there
\* is none.  Both are ghosts.
Item == [kind : {"write", "stop", "pass"}, of : Nat, late : BOOLEAN]
NewItem(k) == [kind |-> k, of |-> session, late |-> ~FlushToCome]

\* Mutation: a channel without a bound.
IncomingUnbounded(m) == incoming' = Append(incoming, m)
Incoming(m) == Len(incoming) < InCap /\ incoming' = Append(incoming, m)

MantainState == {"check", "connect", "delay", "handshake", "announce",
                 "settings", "joinReader", "joinWriter", "finish", "done",
                 "panicked"}
ReaderState  == {"done", "frames", "load", "store", "sample", "send", "panicked"}
WriterState  == {"done", "recv", "flush", "store", "sample", "send"}

TypeOK ==
  /\ exitLoop \in BOOLEAN
  /\ flags \in SUBSET ClientFlag
  /\ rawToken \in 0..session
  /\ incoming \in Seq(Msg) /\ Len(incoming) <= InCap
  /\ outgoing \in Seq(Item) /\ Len(outgoing) <= OutCap
  /\ mantain \in MantainState
  /\ reader \in ReaderState
  /\ writer \in WriterState
  /\ rlocal \in SUBSET ClientFlag
  /\ wlocal \in SUBSET ClientFlag
  /\ forward \in {"recv", "sample", "relay", "done"}
  /\ inHand \in Seq(Msg)
  /\ relay \in {"stop", "pass"}
  /\ main \in {"mantain", "forward", "terminated", "panicked"}
  /\ conn \in {"none", "open", "eof", "reset", "shut"}
  /\ session \in 0..MaxSessions
  /\ told \in Nat
  /\ sends \in 0..MaxSends

Init ==
  /\ exitLoop = FALSE /\ flags = {} /\ rawToken = 0
  /\ incoming = <<>> /\ outgoing = <<>>
  /\ mantain = "check" /\ reader = "done" /\ writer = "done"
  /\ rlocal = {} /\ wlocal = {}
  /\ forward = "recv" /\ inHand = <<>> /\ relay = "pass"
  /\ main = "mantain" /\ conn = "none"
  /\ session = 0 /\ told = 0 /\ sends = 0

-----------------------------------------------------------------------------
(* mantain_loop                                                            *)

GoMantain(s) == mantain' = s /\ UNCHANGED <<outgoing, fwdVars, main, sends>>

\* while !self.is_exit_loop()
CheckExit ==
  /\ mantain = "check"
  /\ GoMantain(IF exitLoop THEN "finish" ELSE "connect")
  /\ UNCHANGED <<flags, rawToken, incoming, conn, session, loopVars, exitLoop>>

\* connect under a 40 ms timeout: connected, refused or timed out.
Connect ==
  /\ mantain = "connect"
  /\ \/ /\ session < MaxSessions
        /\ GoMantain("handshake") /\ conn' = "open"
     \/ GoMantain("delay") /\ UNCHANGED conn
     \/ GoMantain("check") /\ UNCHANGED conn
  /\ UNCHANGED <<flags, rawToken, incoming, session, loopVars, exitLoop>>

\* Mutation: the exit flag is not looked at again.
DelayThenConnect ==
  /\ mantain = "delay"
  /\ GoMantain("connect")
  /\ UNCHANGED <<flags, rawToken, incoming, conn, session, loopVars, exitLoop>>

\* delay_until_exit_loop: 3 s, or until shutdown.
Delay ==
  /\ mantain = "delay"
  /\ GoMantain("check")
  /\ UNCHANGED <<flags, rawToken, incoming, conn, session, loopVars, exitLoop>>

\* Preface and SETTINGS are sent, SETTINGS received: the session exists.
HandshakeOk ==
  /\ mantain = "handshake"
  /\ GoMantain("announce")
  /\ session' = session + 1 /\ rawToken' = session'
  /\ flags' = flags \cup {"HANDSHAKED"}
  /\ UNCHANGED <<incoming, conn, loopVars, exitLoop>>

\* Any error of the handshake ends mantain_loop; a SETTINGS payload longer
\* than the buffer panics.
HandshakeFails ==
  /\ mantain = "handshake"
  /\ \/ GoMantain("finish")
     \/ "oversized" \in PeerSends /\ GoMantain("panicked")
  /\ conn' = "none"
  /\ UNCHANGED <<flags, rawToken, incoming, session, loopVars, exitLoop>>

AnnounceSession ==
  /\ mantain = "announce"
  /\ Incoming(ChangedMsg(flags))
  /\ GoMantain("settings")
  /\ UNCHANGED <<flags, rawToken, conn, session, loopVars, exitLoop>>

\* The SETTINGS frame of the handshake, then both loops start.
StartSession ==
  /\ mantain = "settings"
  /\ Incoming(FrameMsg)
  /\ reader' = "frames" /\ writer' = "recv"
  /\ GoMantain("joinReader")
  /\ UNCHANGED <<flags, rawToken, conn, session, rlocal, wlocal, exitLoop>>

\* t1.await, which panics if read_loop did.
JoinReader ==
  /\ mantain = "joinReader"
  /\ \/ reader = "done" /\ GoMantain("joinWriter")
     \/ reader = "panicked" /\ GoMantain("panicked")
  /\ UNCHANGED <<flags, rawToken, incoming, conn, session, loopVars, exitLoop>>

\* Mutation: only one of the two flags is removed.
EndSessionKeepsWriteClosed ==
  /\ conn' = "none" /\ rawToken' = 0
  /\ flags' = (flags \ {"READ_CLOSED"})
               \cup (IF AutoReconnect THEN {"RECONNECTED"} ELSE {})
  /\ GoMantain(IF AutoReconnect THEN "check" ELSE "finish")
  /\ UNCHANGED <<incoming, session, loopVars, exitLoop>>

EndSession ==
  /\ conn' = "none" /\ rawToken' = 0
  /\ flags' = (flags \ {"READ_CLOSED", "WRITE_CLOSED"})
               \cup (IF AutoReconnect THEN {"RECONNECTED"} ELSE {})
  /\ GoMantain(IF AutoReconnect THEN "check" ELSE "finish")
  /\ UNCHANGED <<incoming, session, loopVars, exitLoop>>

\* Mutation: t2 is not awaited.
JoinReaderOnly == mantain = "joinWriter" /\ EndSession

\* t2.await, then the flags and the token of the session are removed.
JoinWriter == mantain = "joinWriter" /\ writer = "done" /\ EndSession

\* The flag is set, but no ClientChanged message says so.
Finish ==
  /\ mantain = "finish"
  /\ exitLoop' = TRUE
  /\ flags' = flags \cup {"MANTAIN_LOOP_EXITED"}
  /\ GoMantain("done")
  /\ UNCHANGED <<rawToken, incoming, conn, session, loopVars>>

Mantain ==
  \/ CheckExit \/ Connect \/ Delay \/ HandshakeOk \/ HandshakeFails
  \/ AnnounceSession \/ StartSession \/ JoinReader \/ JoinWriter \/ Finish

-----------------------------------------------------------------------------
(* read_loop                                                               *)

GoReader(s) ==
  /\ reader' = s
  /\ UNCHANGED <<rawToken, outgoing, mantain, session, writer, wlocal, fwdVars, envVars>>

\* One frame read, decoded (an unknown kind as Frame::Unknown) and reported.
ReadFrame ==
  /\ reader = "frames"
  /\ "frame" \in PeerSends
  /\ conn \in {"open", "eof"}
  /\ Incoming(FrameMsg)
  /\ GoReader("frames")
  /\ UNCHANGED <<flags, rlocal, conn>>

\* A SETTINGS payload longer than the buffer.
ReadOversized ==
  /\ reader = "frames"
  /\ "oversized" \in PeerSends
  /\ GoReader("panicked")
  /\ UNCHANGED <<flags, rlocal, incoming, conn>>

\* End of file, an I/O error or a frame that does not decode; then
\* shutdown(Both).unwrap(), which fails if the connection has been reset.
ReadBreak ==
  /\ reader = "frames"
  /\ conn = "open" => "invalid" \in PeerSends
  /\ GoReader(IF conn = "reset" THEN "panicked" ELSE "load")
  /\ conn' = IF conn = "reset" THEN conn ELSE "shut"
  /\ UNCHANGED <<flags, rlocal, incoming>>

\* add_flags(READ_CLOSED): load ...
ReaderLoad ==
  /\ reader = "load"
  /\ rlocal' = flags
  /\ GoReader("store")
  /\ UNCHANGED <<flags, incoming, conn>>

\* ... and store.
ReaderStore ==
  /\ reader = "store"
  /\ flags' = rlocal \cup {"READ_CLOSED"}
  /\ GoReader("sample")
  /\ UNCHANGED <<rlocal, incoming, conn>>

ReaderSample ==
  /\ reader = "sample"
  /\ rlocal' = flags
  /\ GoReader("send")
  /\ UNCHANGED <<flags, incoming, conn>>

ReaderSend ==
  /\ reader = "send"
  /\ Incoming(ChangedMsg(rlocal))
  /\ GoReader("done")
  /\ UNCHANGED <<flags, rlocal, conn>>

Reader ==
  \/ ReadFrame \/ ReadOversized \/ ReadBreak
  \/ ReaderLoad \/ ReaderStore \/ ReaderSample \/ ReaderSend

-----------------------------------------------------------------------------
(* write_loop                                                              *)

GoWriter(s) ==
  /\ writer' = s
  /\ UNCHANGED <<rawToken, mantain, conn, session, reader, rlocal, fwdVars, envVars>>

Pop == outgoing # <<>> /\ outgoing' = Tail(outgoing)

\* Bytes and frames are written; a ClientChanged without READ_CLOSED is passed.
WriteItem ==
  /\ writer = "recv"
  /\ Pop
  /\ \/ Head(outgoing).kind = "write" /\ conn \in {"open", "eof"}
     \/ Head(outgoing).kind = "pass"
  /\ GoWriter("recv")
  /\ UNCHANGED <<flags, wlocal, incoming>>

\* A failed write, or a ClientChanged with READ_CLOSED.
WriteBreak ==
  /\ writer = "recv"
  /\ Pop
  /\ \/ Head(outgoing).kind = "write" /\ conn # "open"
     \/ Head(outgoing).kind = "stop"
  /\ GoWriter("flush")
  /\ UNCHANGED <<flags, wlocal, incoming>>

\* try_recv until the channel is empty.
Flush ==
  /\ writer = "flush"
  /\ Pop
  /\ GoWriter("flush")
  /\ UNCHANGED <<flags, wlocal, incoming>>

\* Mutation: the channel is not drained.
WriterLoadUnflushed ==
  /\ writer = "flush"
  /\ wlocal' = flags
  /\ GoWriter("store")
  /\ UNCHANGED <<flags, incoming, outgoing>>

\* The last try_recv fails; add_flags(WRITE_CLOSED): load ...
WriterLoad ==
  /\ writer = "flush"
  /\ outgoing = <<>>
  /\ wlocal' = flags
  /\ GoWriter("store")
  /\ UNCHANGED <<flags, incoming, outgoing>>

\* ... and store.
WriterStore ==
  /\ writer = "store"
  /\ flags' = wlocal \cup {"WRITE_CLOSED"}
  /\ GoWriter("sample")
  /\ UNCHANGED <<wlocal, incoming, outgoing>>

WriterSample ==
  /\ writer = "sample"
  /\ wlocal' = flags
  /\ GoWriter("send")
  /\ UNCHANGED <<flags, incoming, outgoing>>

WriterSend ==
  /\ writer = "send"
  /\ Incoming(ChangedMsg(wlocal))
  /\ GoWriter("done")
  /\ UNCHANGED <<flags, wlocal, outgoing>>

Writer ==
  \/ WriteItem \/ WriteBreak \/ Flush
  \/ WriterLoad \/ WriterStore \/ WriterSample \/ WriterSend

-----------------------------------------------------------------------------
(* forward_loop                                                            *)

IsNewlyHandshaked(m) ==
  /\ m.kind = "changed"
  /\ m.flags \in {{"HANDSHAKED"}, {"HANDSHAKED", "RECONNECTED"}}

GoForward(s) ==
  /\ forward' = s
  /\ UNCHANGED <<flags, rawToken, mantain, conn, session, loopVars, envVars>>

\* f(tr): what the application makes of it.
Deliver(m) == told' = IF IsNewlyHandshaked(m) THEN m.token ELSE told

\* Mutation: the whole word is compared instead of the flag.
ToRelayExact(m) == m.kind = "changed" /\ m.flags = {"READ_CLOSED"}

ToRelay(m) ==
  /\ m.kind = "changed"
  /\ "READ_CLOSED" \in m.flags /\ "WRITE_CLOSED" \notin m.flags

ForwardBreaks(m) == m.kind = "changed" /\ "MANTAIN_LOOP_EXITED" \in m.flags

Receive(m) ==
  /\ forward = "recv"
  /\ incoming # <<>>
  /\ m = Head(incoming)
  /\ incoming' = Tail(incoming)

ForwardMessage(m) ==
  /\ Receive(m)
  /\ ForwardBreaks(m) \/ ~ToRelay(m)
  /\ IF ForwardBreaks(m) THEN GoForward("done") /\ UNCHANGED told
                         ELSE GoForward("recv") /\ Deliver(m)
  /\ UNCHANGED <<inHand, relay, outgoing>>

\* on_client_changed: the reader has ended and the writer had not.
ForwardReadClosed(m) ==
  /\ Receive(m)
  /\ ~ForwardBreaks(m) /\ ToRelay(m)
  /\ inHand' = <<m>>
  /\ GoForward("sample")
  /\ UNCHANGED <<relay, told, outgoing>>

\* The flags that are relayed are those of now, not those of the message.
SampleFlags ==
  /\ forward = "sample"
  /\ relay' = IF "READ_CLOSED" \in flags THEN "stop" ELSE "pass"
  /\ GoForward("relay")
  /\ UNCHANGED <<inHand, told, incoming, outgoing>>

\* outgoing_tx.send waits for room; then the message goes to the application.
Relay ==
  /\ forward = "relay"
  /\ Len(outgoing) < OutCap
  /\ outgoing' = Append(outgoing, NewItem(relay))
  /\ Deliver(inHand[1])
  /\ inHand' = <<>>
  /\ GoForward("recv")
  /\ UNCHANGED <<relay, incoming>>

Handle(m) == ForwardMessage(m) \/ ForwardReadClosed(m)
Forward == (incoming # <<>> /\ Handle(Head(incoming))) \/ SampleFlags \/ Relay

-----------------------------------------------------------------------------
(* Client::spawn, the application and the peer                             *)

\* block_on: t1.await, which panics if mantain_loop did, then t2.await, which
\* gives f back for TERMINATED.
Joined ==
  \/ main = "mantain" /\ mantain \in {"done", "panicked"}
  \/ main = "forward" /\ forward = "done"

Main ==
  /\ Joined
  /\ main' = IF main = "forward" THEN "terminated"
             ELSE IF mantain = "done" THEN "forward" ELSE "panicked"
  /\ UNCHANGED <<flags, rawToken, incoming, outgoing, mantain, conn, session,
                 loopVars, fwdVars, exitLoop, sends>>

Shutdown ==
  /\ ~exitLoop
  /\ exitLoop' = TRUE
  /\ UNCHANGED <<flags, rawToken, incoming, outgoing, mantain, conn, session,
                 loopVars, fwdVars, main, sends>>

\* try_send, refused when the channel is full.
AppSend ==
  /\ sends < MaxSends
  /\ Len(outgoing) < OutCap
  /\ sends' = sends + 1
  /\ outgoing' = Append(outgoing, NewItem("write"))
  /\ UNCHANGED <<flags, rawToken, incoming, mantain, conn, session, loopVars,
                 fwdVars, exitLoop, main>>

\* The peer closes, or resets, possibly because of a write after its close.
PeerCloses ==
  /\ \/ conn = "open" /\ conn' = "eof"
     \/ conn \in {"open", "eof"} /\ conn' = "reset"
  /\ UNCHANGED <<flags, rawToken, incoming, outgoing, mantain, session,
                 loopVars, fwdVars, envVars>>

Next == Mantain \/ Reader \/ Writer \/ Forward \/ Main \/ Shutdown \/ AppSend \/ PeerCloses

Spec == Init /\ [][Next]_vars
=============================================================================
