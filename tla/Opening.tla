------------------------------ MODULE Opening -------------------------------
(***************************************************************************)
(* How one connection opens: the server's handshake (src/link.rs), its     *)
(* echo of SETTINGS (src/server.rs) and the client's handshake             *)
(* (src/client.rs), with what the two ends write on the socket between     *)
(* them.  Every step of the server is a step of Server, which knows that   *)
(* something was written; here it is also known what, and what the client  *)
(* makes of it.  The server is not shut down meanwhile.                    *)
(*                                                                         *)
(* The client is this library's, or a program that asks for an upgrade     *)
(* from HTTP/1.1 and goes on as this library's does.  A write_all whose    *)
(* text is not cut by the other task is one item of the stream; a DATA     *)
(* frame is two, head and payload.                                         *)
(***************************************************************************)
EXTENDS Server

CONSTANT MaxAnswers \* bound: DATA frames the application sends on the link

ASSUME OpeningAssumption ==
  /\ \E l \in Links : Links = {l}
  /\ MaxAnswers + 2 <= OutCap

VARIABLES
  mode,    \* "prior" knowledge of HTTP/2, or "upgrade"
  polite,  \* the application sends on a link only once it has had DATA from it
  client,  \* where the client is
  c2s,     \* what the client has written and the server has not read
  s2c,     \* everything the server has written
  heard,   \* how much of s2c the client has read
  queued,  \* what the items of outgoing are
  writing, \* write_loop has written the head of a DATA frame, not its payload
  served   \* f has had DATA from the link

openingVars == <<mode, polite, client, c2s, s2c, heard, queued, writing, served>>
allVars     == <<vars, openingVars>>

the == CHOOSE l \in Links : TRUE

OpeningInit ==
  /\ Init
  /\ mode \in {"prior", "upgrade"} /\ polite \in BOOLEAN
  /\ client = IF mode = "prior" THEN "preface" ELSE "request"
  /\ c2s = <<>> /\ s2c = <<>> /\ heard = 0
  /\ queued = <<>> /\ writing = FALSE /\ served = FALSE

Written(item) == s2c' = Append(s2c, item)
Open == peer[the] = "open"

-----------------------------------------------------------------------------
(* The client.  The connection is made once the server listens; it may     *)
(* write before accept_loop has the stream.                                *)

ClientWrites(at, items, next) ==
  /\ client = at
  /\ accept \notin {"bind", "failed"} /\ peer[the] # "closed"
  /\ c2s' = c2s \o items
  /\ client' = next
  /\ UNCHANGED <<vars, mode, polite, s2c, heard, queued, writing, served>>

\* Preface and SETTINGS are two writes.
ClientPreface  == ClientWrites("preface", <<"preface">>, "settings")
ClientSettings == ClientWrites("settings", <<"settings">>, "await")

\* An HTTP/1.1 request: its first 24 octets, others, and its end.
ClientRequest  == ClientWrites("request", <<"line", "headers", "end">>, "answer")

\* Mutation: write_loop is spawned before the handshake.
ClientSendsEarly ==
  \/ ClientWrites("up", <<"data">>, "asked")
  \/ ClientWrites("settings", <<"data", "settings">>, "await")

\* Client::send, relayed by write_loop, which runs once the handshake is over.
ClientSends == ClientWrites("up", <<"data">>, "asked")

ClientReads(next) ==
  /\ heard < Len(s2c) /\ Open
  /\ heard' = heard + 1
  /\ client' = next
  /\ UNCHANGED <<vars, mode, polite, c2s, s2c, queued, writing, served>>

NextItem == s2c[heard + 1]
IsSettings(item) == item \in {"echo", "ack"}

\* Mutation: the kind of the first frame is not looked at.
ClientAwaitsAny ==
  client = "await" /\ heard < Len(s2c) /\ ClientReads("up")

\* handshake: the first frame is SETTINGS, or the protocol is unknown.
ClientAwaits ==
  /\ client = "await" /\ heard < Len(s2c)
  /\ ClientReads(IF IsSettings(NextItem) THEN "up" ELSE "failed")

\* The program that has asked for the upgrade expects the 101 first.
ClientAnswered ==
  /\ client = "answer" /\ heard < Len(s2c)
  /\ ClientReads(IF NextItem = "switching" THEN "preface" ELSE "failed")

\* read_loop takes whatever follows.
ClientListens == client \in {"up", "asked"} /\ ClientReads(client)

Client ==
  \/ ClientPreface \/ ClientSettings \/ ClientRequest \/ ClientSends
  \/ ClientAwaits \/ ClientAnswered \/ ClientListens

\* The client gives up, or the network loses the connection.
Lost == PeerCloses(the) /\ UNCHANGED <<serverVars, openingVars>>

-----------------------------------------------------------------------------
(* read_loop of the server                                                 *)

\* The server reads the first n items of what has come.
ServerReads(n) ==
  /\ Len(c2s) >= n
  /\ c2s' = SubSeq(c2s, n + 1, Len(c2s))
  /\ UNCHANGED <<serverVars, mode, polite, client, heard, queued, writing, served>>

\* A read that fails, or that ends with the connection.
ReadFails ==
  /\ peer[the] = "closed"
  /\ ReadPreface(the) \/ ReadUpgrade(the) \/ ReadPrefaceAgain(the) \/ ReadBreak(the)
  /\ reader'[the] \notin {"upgrade", "again"}
  /\ UNCHANGED <<serverVars, openingVars>>

\* handshake_http2_prior_knowledge: 24 octets.
OpenPreface ==
  /\ ReadPreface(the)
  /\ ServerReads(1)
  /\ reader'[the] = IF Head(c2s) = "preface" THEN "frames" ELSE "upgrade"
  /\ UNCHANGED s2c

\* Mutation: the preface after the upgrade is not read.
OpenUpgradeOnce ==
  /\ reader[the] = "upgrade"
  /\ \/ /\ GoReader(the, "frames") /\ ServerReads(2) /\ Written("switching")
     \/ /\ GoReader(the, "panicked") /\ ServerReads(1) /\ UNCHANGED s2c
  /\ UNCHANGED <<rlocal, flags, trans>>

\* handshake_http_1_1_upgrade: one read, of the rest of the request or of the
\* part of it that has come; the 101 is written here, not by write_loop.
OpenUpgrade ==
  /\ ReadUpgrade(the)
  /\ \/ ServerReads(2) /\ reader'[the] = "again" /\ Written("switching")
     \/ ServerReads(1) /\ reader'[the] = "panicked" /\ UNCHANGED s2c

OpenPrefaceAgain ==
  /\ ReadPrefaceAgain(the)
  /\ ServerReads(1)
  /\ UNCHANGED s2c

OpenFrame ==
  /\ ReadFrame(the)
  /\ ServerReads(1)
  /\ Head(c2s) \in Frames /\ trans' = Append(trans, FrameMsg(Head(c2s), the))
  /\ UNCHANGED s2c

OpenReader ==
  \/ OpenPreface \/ OpenUpgrade \/ OpenPrefaceAgain \/ OpenFrame \/ ReadFails
  \/ /\ ReaderStore(the) \/ ReaderSample(the) \/ ReaderSend(the)
     /\ UNCHANGED <<serverVars, openingVars>>

-----------------------------------------------------------------------------
(* write_loop of the server                                                *)

ServerWrites(item) ==
  /\ Written(item)
  /\ UNCHANGED <<serverVars, mode, polite, client, c2s, heard, served>>

\* Data::write_to writes the head ...
WriteDataHead ==
  /\ writer[the] = "recv" /\ queued # <<>> /\ Head(queued) = "data" /\ ~writing
  /\ Open
  /\ writing' = TRUE
  /\ ServerWrites("head")
  /\ UNCHANGED <<linkVars, trans, queued>>

\* ... and then the payload.
WriteDataBody ==
  /\ WriteItem(the) /\ writing
  /\ writing' = FALSE /\ queued' = Tail(queued)
  /\ ServerWrites("payload")

\* Settings::write_to is one write.
WriteSettingsItem ==
  /\ WriteItem(the) /\ Head(queued) # "data"
  /\ queued' = Tail(queued)
  /\ ServerWrites(Head(queued))
  /\ UNCHANGED writing

WriteStops ==
  /\ WriteBreak(the)
  /\ queued' = Tail(queued) /\ writing' = FALSE
  /\ UNCHANGED <<serverVars, mode, polite, client, c2s, s2c, heard, served>>

OpenWriter ==
  \/ WriteDataHead \/ WriteDataBody \/ WriteSettingsItem \/ WriteStops
  \/ /\ WriterStore(the) \/ WriterSample(the) \/ WriterSend(the)
     /\ UNCHANGED <<serverVars, openingVars>>

-----------------------------------------------------------------------------
(* accept_loop, forward_loop and the application                           *)

OpenAccept ==
  /\ Bind \/ Announce \/ \E t \in Tokens : Accept(the, t)
  /\ UNCHANGED openingVars

Queue(item) ==
  queued' = IF outgoing' = outgoing THEN queued ELSE Append(queued, item)

\* Mutation: every new link is greeted, as RFC 7540 has a server do.
OpenForwardGreets ==
  /\ \/ /\ trans # <<>> /\ Head(trans).kind = "new"
        /\ Take(Head(trans))
        /\ links'    = [links EXCEPT ![token[the]] = the]
        /\ attached' = [attached EXCEPT ![the] = @ + 1]
        /\ SendTo(token[the], "write") /\ queued' = Append(queued, "ack")
        /\ UNCHANGED <<fwd, replyTo, detached, served>>
     \/ /\ trans # <<>> /\ Head(trans).kind # "new" /\ Handle(Head(trans))
        /\ Queue(IF Head(trans).kind = "settings" THEN "echo" ELSE "stop")
        /\ served' = (served \/ Head(trans).kind = "data")
     \/ AckSettings /\ Queue("ack") /\ UNCHANGED served
  /\ UNCHANGED <<mode, polite, client, c2s, s2c, heard, writing>>

\* The answer to SETTINGS is a copy of it, then an ack; DATA goes to f.
OpenForward ==
  /\ \/ /\ trans # <<>> /\ Handle(Head(trans))
        /\ Queue(IF Head(trans).kind = "settings" THEN "echo" ELSE "stop")
        /\ served' = (served \/ Head(trans).kind = "data")
     \/ AckSettings /\ Queue("ack") /\ UNCHANGED served
  /\ UNCHANGED <<mode, polite, client, c2s, s2c, heard, writing>>

Answers == Len(SelectSeq(s2c, LAMBDA i : i = "head"))
             + Len(SelectSeq(queued, LAMBDA i : i = "data"))
             - (IF writing THEN 1 ELSE 0)

\* The application answers DATA, or sends as soon as it has the link.
OpenApp ==
  /\ polite => served
  /\ \/ FindLink(the) /\ UNCHANGED queued
     \/ Answers < MaxAnswers /\ AppSend(the) /\ queued' = Append(queued, "data")
  /\ UNCHANGED <<mode, polite, client, c2s, s2c, heard, writing, served>>

OpeningNext ==
  \/ Client \/ Lost \/ OpenReader \/ OpenWriter \/ OpenAccept \/ OpenForward
  \/ OpenApp

OpeningSpec == OpeningInit /\ [][OpeningNext]_allVars

\* Both programs go on while they can; the network and the application owe
\* nothing, and the server's socket takes what is written to it.
OpeningFairSpec ==
  /\ OpeningSpec
  /\ WF_allVars(Client) /\ WF_allVars(OpenReader) /\ WF_allVars(OpenWriter)
  /\ WF_allVars(OpenAccept) /\ WF_allVars(OpenForward)

-----------------------------------------------------------------------------
(* Properties                                                              *)

(* The 101 is the first thing a program that asked for an upgrade reads, but
   for what the application sent on the link unasked: read_loop writes it on
   the socket write_loop writes to, from ATTACHED on, and nothing orders the
   two (link.rs, handshake_http_1_1_upgrade). *)
AnswerFirst ==
  \A i \in DOMAIN s2c : s2c[i] = "switching" =>
    \A j \in 1 .. i - 1 : ~polite /\ s2c[j] \in {"head", "payload"}

(* A client whose handshake succeeded has taken its own SETTINGS for the
   server's: the echo, not the ack nor anything the application sent.  So it
   fails, for good, when the application is quicker (client.rs, handshake;
   server.rs, forward_loop). *)
HandshakeTakesEcho ==
  /\ client \in {"up", "asked"} => s2c[IF mode = "prior" THEN 1 ELSE 2] = "echo"
  /\ client = "failed" => ~polite

(* The application hears ATTACHED before any DATA of a link.  The server alone
   does not see to that, as read_loop runs before NewLink is sent: it holds
   because a client sends nothing before the echo of its SETTINGS, and there
   is no echo before ATTACHED (client.rs, handshake; link.rs, Link::new). *)
AttachedBeforeData == served => attached[the] = 1

(* A SETTINGS frame that overtook the NewLink of its link. *)
Overtaken == fwd = "panicked" /\ attached[the] = 0

(* A client that waits, without a timeout, for the answer to its request or
   for SETTINGS gets one, unless the connection is lost, the read loop had to
   parse a request that came in pieces, or the forward loop had to answer a
   link it did not know yet: in the last two cases the socket stays open and
   the client waits for ever (client.rs, link.rs, handshake; server.rs,
   forward_loop). *)
HandshakeEnds ==
  client \in {"answer", "await"}
    ~> \/ client \in {"up", "asked", "failed"}
       \/ peer[the] = "closed" \/ reader[the] = "panicked" \/ Overtaken

-----------------------------------------------------------------------------
(* The inductive invariant                                                 *)

OpeningTyped ==
  /\ mode \in {"prior", "upgrade"} /\ polite \in BOOLEAN
  /\ client \in {"preface", "settings", "request", "answer", "await", "up", "asked", "failed"}
  /\ c2s \in Seq({"preface", "settings", "data", "line", "headers", "end"})
  /\ s2c \in Seq({"switching", "echo", "ack", "head", "payload"})
  /\ heard \in 0 .. Len(s2c)
  /\ queued \in Seq({"data", "echo", "ack", "stop"})
  /\ writing \in BOOLEAN /\ served \in BOOLEAN

\* queued says what the items of outgoing are.
QueuedIsOutgoing ==
  /\ Len(queued) = Len(outgoing[the])
  /\ \A i \in 1 .. Len(queued) : outgoing[the][i] = "stop" <=> queued[i] = "stop"
  /\ writing => queued # <<>> /\ Head(queued) = "data"

\* read_loop has not got as far as the frames, and never will if it panicked.
Early == reader[the] \in {"idle", "preface", "upgrade", "panicked"}

\* Until it has, there is nothing to echo and nothing to answer.
NothingRead ==
  Early => /\ \A i \in 1 .. Len(trans) : trans[i].kind \notin Frames
           /\ fwd # "ack" /\ ~served
           /\ s2c \in Seq({"head", "payload"})
           /\ queued \in Seq({"data", "stop"})

\* No DATA has been sent by a client whose handshake is not over.
NoData ==
  /\ ~served
  /\ c2s \in Seq({"preface", "settings", "line", "headers", "end"})
  /\ \A i \in 1 .. Len(trans) : trans[i].kind # "data"

AskedFirst == client # "asked" => NoData

\* Before ATTACHED only the 101 can have been written.
AttachedFirst ==
  attached[the] # 1 => NoData /\ client \notin {"up", "asked"} /\ s2c \in Seq({"switching"})

PoliteWaits ==
  polite /\ ~served => /\ s2c \in Seq({"switching", "echo", "ack"})
                       /\ queued \in Seq({"echo", "ack", "stop"})

\* The ack of SETTINGS is behind the echo, in the stream, in the channel and
\* between the two sends of forward_loop, as long as write_loop runs.
EchoAhead(n) == \/ \E j \in 1 .. Len(s2c) : s2c[j] = "echo"
                \/ \E j \in 1 .. n : queued[j] = "echo"
EchoFirst ==
  /\ \A i \in 1 .. Len(s2c) : s2c[i] = "ack" => \E j \in 1 .. i - 1 : s2c[j] = "echo"
  /\ writer[the] = "recv" =>
       /\ \A i \in 1 .. Len(queued) : queued[i] = "ack" => EchoAhead(i - 1)
       /\ fwd = "ack" => EchoAhead(Len(queued))

\* How far the client has read.
Answer == IF mode = "prior" THEN 0 ELSE 1
ClientPlace ==
  /\ client \in {"request", "answer"} => mode = "upgrade" /\ heard = 0
  /\ client \in {"preface", "settings", "await"} => heard = Answer
  /\ client \in {"up", "asked"} => heard > Answer
  /\ mode = "upgrade" /\ heard > 0 /\ client # "failed" => s2c[1] = "switching"

\* What the server reads first tells the mode.
FirstRead ==
  /\ reader[the] \in {"idle", "preface"} =>
       IF client = (IF mode = "prior" THEN "preface" ELSE "request") THEN c2s = <<>>
       ELSE c2s # <<>> /\ Head(c2s) = IF mode = "prior" THEN "preface" ELSE "line"
  /\ mode = "prior" => reader[the] # "upgrade"

\* A 101 is written if it was asked for.
UpgradeAnswered ==
  /\ mode = "prior" => \A i \in 1 .. Len(s2c) : s2c[i] # "switching"
  /\ mode = "upgrade" /\ peer[the] # "closed" /\ ~Early =>
       \E i \in 1 .. Len(s2c) : s2c[i] = "switching"

(* What the proofs of the three safety properties carry from step to step: who
   may have written what, and which task wrote it, at each stage of the two
   handshakes (link.rs and client.rs, handshake; server.rs, forward_loop). *)
OpeningIInv ==
  /\ OpeningTyped /\ QueuedIsOutgoing /\ NothingRead /\ AskedFirst /\ AttachedFirst
  /\ PoliteWaits /\ EchoFirst /\ ClientPlace /\ FirstRead /\ UpgradeAnswered
  /\ AnswerFirst /\ HandshakeTakesEcho
=============================================================================
