--------------------------- MODULE OpeningProofs ----------------------------
(***************************************************************************)
(* The safety properties of Opening, for any capacities of the channels    *)
(* and any number of answers: they rest on the invariant of the server,    *)
(* every step of which is a step of the server it extends.                 *)
(***************************************************************************)
EXTENDS Opening, ServerProofs, SequenceTheorems

USE LinkAssumption, OpeningAssumption

LEMMA OnlyLink == the \in Links /\ \A l \in Links : l = the
<1>1. PICK l \in Links : Links = {l}
  BY Zenon DEF OpeningAssumption
<1> QED
  BY <1>1 DEF the

-----------------------------------------------------------------------------
(* The server beneath                                                      *)

LEMMA ReaderSteps ==
  ASSUME OpenReader
  PROVE  Reader(the) /\ UNCHANGED serverVars
<1>1. CASE OpenPreface \/ OpenUpgrade \/ OpenPrefaceAgain \/ OpenFrame
  BY <1>1 DEF OpenPreface, OpenUpgrade, OpenPrefaceAgain, OpenFrame, ServerReads, Reader
<1>2. CASE ReadFails
  BY <1>2 DEF ReadFails, Reader
<1> QED
  BY <1>1, <1>2 DEF OpenReader, Reader

LEMMA WriterSteps ==
  ASSUME OpenWriter
  PROVE  UNCHANGED serverVars /\ (Writer(the) \/ UNCHANGED <<linkVars, trans>>)
BY DEF OpenWriter, Writer, WriteDataHead, WriteDataBody, WriteSettingsItem, WriteStops,
   ServerWrites

LEMMA ServerSteps ==
  ASSUME [OpeningNext]_allVars
  PROVE  [Next]_vars
<1>1. CASE Client
  BY <1>1 DEF Client, ClientPreface, ClientSettings, ClientRequest, ClientSends, ClientAwaits,
     ClientAnswered, ClientListens, ClientWrites, ClientReads
<1>2. CASE Lost
  BY <1>2, OnlyLink DEF Lost, Next, LinkStep
<1>3. CASE OpenReader
  BY <1>3, OnlyLink, ReaderSteps DEF Next, LinkStep
<1>4. CASE OpenWriter
  BY <1>4, OnlyLink, WriterSteps DEF Next, LinkStep, vars
<1>5. CASE OpenAccept
  BY <1>5, OnlyLink DEF OpenAccept, Next, AcceptLoop
<1>6. CASE OpenForward
  BY <1>6 DEF OpenForward, Next, Forward
<1>7. CASE OpenApp
  BY <1>7, OnlyLink DEF OpenApp, Next, App
<1>8. CASE UNCHANGED allVars
  BY <1>8 DEF allVars
<1> QED
  BY <1>1, <1>2, <1>3, <1>4, <1>5, <1>6, <1>7, <1>8 DEF OpeningNext

(* The server invariant holds throughout. *)
LEMMA ServerInvariant == OpeningSpec => []IInv
<1>1. OpeningInit => Init
  BY DEF OpeningInit
<1>2. [OpeningNext]_allVars => [Next]_vars
  BY ServerSteps
<1> QED
  BY <1>1, <1>2, Inductive, PTL DEF OpeningSpec, Spec

\* ATTACHED is for good.
LEMMA AttachedStays ==
  ASSUME IInv, IInv', [Next]_vars, attached[the] = 1
  PROVE  attached'[the] = 1
<1>1. attached \in [Links -> Nat] /\ attached' \in [Links -> Nat] /\ attached'[the] <= 1
  BY OnlyLink DEF IInv, TypeOK, AttachBeforeDetach
<1>2. attached' = attached \/ \E m : attached' = [attached EXCEPT ![m] = @ + 1]
  BY DEF Next, AcceptLoop, Bind, Announce, AcceptError, AcceptTimeout, ReportExited, Accept,
     GoAccept, Forward, Handle, ForwardOrDrop, ForwardSettings, AckSettings, ForwardNewLink,
     ForwardReadClosed, ForwardDetach, ForwardExited, Main, JoinAccept, JoinForward, App,
     Shutdown, FindLink, DropLink, AppSend, appVars, LinkStep, serverVars, vars
<1> QED
  BY <1>1, <1>2, OnlyLink

-----------------------------------------------------------------------------
(* The channels                                                            *)

\* What is sent to the link, it has been attached to.
LEMMA QueuedAttached ==
  ASSUME IInv, OpeningTyped, QueuedIsOutgoing, queued # <<>>
  PROVE  attached[the] = 1
<1>1. outgoing[the] # <<>>
  BY OnlyLink DEF IInv, TypeOK, LinkTypeOK, OpeningTyped, QueuedIsOutgoing
<1> QED
  BY <1>1, OnlyLink DEF IInv, MapSound

\* No frame is in the channel of the server that was not there before.
NoNewFrames ==
  \A i \in 1 .. Len(trans') : trans'[i].kind \in Frames =>
    \E j \in 1 .. Len(trans) : trans[j].kind = trans'[i].kind

LEMMA TakenNoNew ==
  ASSUME IInv, NEW m, Take(m)
  PROVE  NoNewFrames
<1>1. trans \in Seq(Msg) /\ trans # <<>> /\ trans' = Tail(trans)
  BY DEF IInv, TypeOK, LinkTypeOK, Take
<1>2. \A i \in 1 .. Len(trans') : i + 1 \in 1 .. Len(trans) /\ trans'[i] = trans[i + 1]
  BY <1>1, TailFacts
<1> QED
  BY <1>2 DEF NoNewFrames

LEMMA ReportedNoNew ==
  ASSUME IInv, NEW m \in Msg, m.kind \notin Frames, Report(m)
  PROVE  NoNewFrames
<1>1. trans \in Seq(Msg) /\ trans' = Append(trans, m)
  BY DEF IInv, TypeOK, LinkTypeOK, Report
<1>2. \A i \in 1 .. Len(trans') : 
         (i \in 1 .. Len(trans) /\ trans'[i] = trans[i]) \/ trans'[i] = m
  BY <1>1, AppendFacts
<1> QED
  BY <1>2 DEF NoNewFrames

LEMMA SameNoNew ==
  ASSUME UNCHANGED trans
  PROVE  NoNewFrames
BY DEF NoNewFrames

\* DATA is a frame.
LEMMA DataIsFrame == "data" \in Frames /\ "settings" \in Frames
BY DEF Frames

LEMMA ConcatFacts ==
  ASSUME NEW S, NEW p \in Seq(S), NEW q \in Seq(S)
  PROVE  /\ p \o q \in Seq(S)
         /\ p # <<>> => p \o q # <<>> /\ Head(p \o q) = Head(p)
         /\ p = <<>> /\ q # <<>> => p \o q # <<>> /\ Head(p \o q) = Head(q)
<1> DEFINE r == p \o q
<1>1. /\ r \in Seq(S) /\ Len(r) = Len(p) + Len(q)
      /\ \A i \in 1 .. Len(p) + Len(q) : r[i] = IF i <= Len(p) THEN p[i] ELSE q[i - Len(p)]
  BY ConcatProperties, Zenon
<1> HIDE DEF r
<1>2. CASE p # <<>>
  BY <1>1, <1>2
<1>3. CASE p = <<>> /\ q # <<>>
  BY <1>1, <1>3
<1> QED
  BY <1>1, <1>2, <1>3 DEF r

-----------------------------------------------------------------------------
(* The client                                                              *)

\* The client does nothing to the server's variables but for the stream it
\* writes to.
ClientOnly ==
  UNCHANGED <<vars, mode, polite, s2c, queued, writing, served>>

LEMMA ClientKeeps ==
  ASSUME OpeningIInv, ClientOnly
  PROVE  /\ (QueuedIsOutgoing /\ NothingRead /\ PoliteWaits /\ EchoFirst)'
         /\ (UpgradeAnswered /\ AnswerFirst)'
         /\ UNCHANGED <<mode, polite, s2c, attached, reader, trans, served, Early>>
<1>1. /\ UNCHANGED <<mode, polite, s2c, queued, writing, served>>
      /\ UNCHANGED <<outgoing, reader, writer, peer, trans, fwd, attached>>
  BY DEF ClientOnly, vars, linkVars, serverVars
<1>2. QueuedIsOutgoing' /\ NothingRead' /\ PoliteWaits'
  BY <1>1 DEF OpeningIInv, QueuedIsOutgoing, NothingRead, PoliteWaits, Early
<1>3. EchoFirst'
  BY <1>1 DEF OpeningIInv, EchoFirst, EchoAhead
<1>4. UpgradeAnswered' /\ AnswerFirst'
  BY <1>1 DEF OpeningIInv, UpgradeAnswered, AnswerFirst, Early
<1> QED
  BY <1>1, <1>2, <1>3, <1>4 DEF Early

LEMMA WritesStep ==
  ASSUME OpeningIInv, ClientPreface \/ ClientSettings \/ ClientRequest \/ ClientSends
  PROVE  OpeningIInv'
<1>1. ClientOnly /\ heard' = heard
  BY DEF ClientPreface, ClientSettings, ClientRequest, ClientSends, ClientWrites, ClientOnly
<1>2. /\ (QueuedIsOutgoing /\ NothingRead /\ PoliteWaits /\ EchoFirst)'
      /\ (UpgradeAnswered /\ AnswerFirst)'
      /\ UNCHANGED <<mode, polite, s2c, attached, reader, trans, served>>
  BY <1>1, ClientKeeps
<1>3. UNCHANGED <<queued, writing>>
  BY <1>1 DEF ClientOnly
<1> DEFINE Quiet == {"preface", "settings", "line", "headers", "end"}
           All   == {"preface", "settings", "data", "line", "headers", "end"}
<1>4. /\ OpeningTyped /\ AskedFirst /\ AttachedFirst /\ ClientPlace /\ FirstRead
      /\ HandshakeTakesEcho
  BY DEF OpeningIInv
<1>5. CASE ClientSends
  <2>1. client = "up" /\ client' = "asked" /\ c2s' = c2s \o <<"data">>
    BY <1>5 DEF ClientSends, ClientWrites
  <2>2. c2s \in Seq(All) /\ <<"data">> \in Seq(All)
    BY <1>4 DEF OpeningTyped
  <2>3. c2s' \in Seq(All) /\ (c2s # <<>> => c2s' # <<>> /\ Head(c2s') = Head(c2s))
    BY <2>1, <2>2, ConcatFacts
  <2>4. OpeningTyped'
    BY <1>1, <1>2, <1>3, <1>4, <2>1, <2>3 DEF OpeningTyped
  <2>5. AskedFirst' /\ ClientPlace'
    BY <1>1, <1>2, <1>4, <2>1 DEF AskedFirst, ClientPlace, Answer
  <2>6. AttachedFirst'
    BY <1>2, <1>4, <2>1 DEF AttachedFirst
  <2>7. FirstRead'
    BY <1>2, <1>4, <2>1, <2>3 DEF FirstRead
  <2>8. HandshakeTakesEcho'
    BY <1>2, <1>4, <2>1 DEF HandshakeTakesEcho
  <2> QED
    BY <1>2, <2>4, <2>5, <2>6, <2>7, <2>8 DEF OpeningIInv
<1>6. ASSUME NEW items \in Seq(Quiet), NEW at, NEW next,
             c2s' = c2s \o items, client = at, client' = next, items # <<>>,
             \/ at = "preface" /\ next = "settings" /\ Head(items) = "preface"
             \/ at = "settings" /\ next = "await"
             \/ at = "request" /\ next = "answer" /\ Head(items) = "line"
      PROVE  OpeningIInv'
  <2>1. c2s \in Seq(All) /\ items \in Seq(All)
    BY <1>4, <1>6 DEF OpeningTyped
  <2>2. /\ c2s' \in Seq(All)
        /\ c2s # <<>> => c2s' # <<>> /\ Head(c2s') = Head(c2s)
        /\ c2s = <<>> => c2s' # <<>> /\ Head(c2s') = Head(items)
    BY <1>6, <2>1, ConcatFacts
  <2>3. OpeningTyped'
    BY <1>1, <1>2, <1>3, <1>4, <1>6, <2>2 DEF OpeningTyped
  <2>4. NoData
    BY <1>4, <1>6 DEF AskedFirst
  <2>5. c2s' \in Seq(Quiet)
    BY <1>6, <2>4, ConcatFacts DEF NoData
  <2>6. NoData'
    BY <1>2, <2>4, <2>5 DEF NoData
  <2>7. AskedFirst' /\ AttachedFirst'
    BY <1>2, <1>4, <1>6, <2>6 DEF AskedFirst, AttachedFirst
  <2>8. ClientPlace'
    BY <1>1, <1>2, <1>4, <1>6 DEF ClientPlace, Answer
  <2>9. FirstRead'
    BY <1>2, <1>4, <1>6, <2>2 DEF FirstRead, ClientPlace, OpeningTyped
  <2>10. HandshakeTakesEcho'
    BY <1>2, <1>6 DEF HandshakeTakesEcho
  <2> QED
    BY <1>2, <2>3, <2>7, <2>8, <2>9, <2>10 DEF OpeningIInv
<1>7. /\ <<"preface">> \in Seq(Quiet) /\ <<"settings">> \in Seq(Quiet)
      /\ <<"line", "headers", "end">> \in Seq(Quiet)
      /\ Head(<<"preface">>) = "preface" /\ Head(<<"line", "headers", "end">>) = "line"
  OBVIOUS
<1>8. CASE ClientPreface
  BY <1>6, <1>7, <1>8 DEF ClientPreface, ClientWrites
<1>9. CASE ClientSettings
  BY <1>6, <1>7, <1>9 DEF ClientSettings, ClientWrites
<1>10. CASE ClientRequest
  BY <1>6, <1>7, <1>10 DEF ClientRequest, ClientWrites
<1> QED
  BY <1>5, <1>8, <1>9, <1>10

\* What the client reads next when it waits for SETTINGS.
LEMMA AwaitedIsEcho ==
  ASSUME OpeningIInv, client = "await", heard < Len(s2c)
  PROVE  /\ heard = Answer
         /\ IsSettings(NextItem) => NextItem = "echo"
         /\ ~IsSettings(NextItem) => ~polite
<1>1. /\ heard = Answer /\ heard \in Nat /\ heard + 1 \in 1 .. Len(s2c)
      /\ mode \in {"prior", "upgrade"}
      /\ mode = "upgrade" => s2c[1] = "switching"
  BY DEF OpeningIInv, ClientPlace, OpeningTyped, Answer
<1>2. ASSUME NextItem = "ack" PROVE FALSE
  <2>1. PICK j \in 1 .. heard : s2c[j] = "echo"
    BY <1>1, <1>2 DEF OpeningIInv, EchoFirst, NextItem
  <2> QED
    BY <1>1, <2>1 DEF Answer
<1>3. ASSUME ~IsSettings(NextItem), polite PROVE FALSE
  <2>1. s2c \in Seq({"switching", "echo", "ack"})
    BY <1>3 DEF OpeningIInv, AskedFirst, NoData, PoliteWaits
  <2>2. s2c[heard + 1] = "switching"
    BY <1>1, <1>3, <2>1 DEF IsSettings, NextItem
  <2>3. mode = "upgrade" /\ heard = 1
    BY <1>1, <2>2 DEF OpeningIInv, UpgradeAnswered, Answer
  <2> QED
    BY <1>1, <1>3, <2>2, <2>3 DEF OpeningIInv, AnswerFirst
<1> QED
  BY <1>1, <1>2, <1>3 DEF IsSettings

LEMMA ReadsStep ==
  ASSUME OpeningIInv, ClientAwaits \/ ClientAnswered \/ ClientListens
  PROVE  OpeningIInv'
<1>1. /\ ClientOnly /\ UNCHANGED c2s /\ heard' = heard + 1 /\ heard < Len(s2c)
      /\ peer[the] = "open"
  BY DEF ClientAwaits, ClientAnswered, ClientListens, ClientReads, ClientOnly, Open
<1>2. /\ (QueuedIsOutgoing /\ NothingRead /\ PoliteWaits /\ EchoFirst)'
      /\ (UpgradeAnswered /\ AnswerFirst)'
      /\ UNCHANGED <<mode, polite, s2c, attached, reader, trans, served>>
  BY <1>1, ClientKeeps
<1>3. UNCHANGED <<queued, writing>>
  BY <1>1 DEF ClientOnly
<1>4. /\ OpeningTyped /\ AskedFirst /\ AttachedFirst /\ ClientPlace /\ FirstRead
      /\ HandshakeTakesEcho /\ EchoFirst
  BY DEF OpeningIInv
<1>5. ASSUME NEW s \in {"preface", "up", "asked", "failed"}, client' = s,
             \/ client = "await" /\ s = "up" /\ NextItem = "echo" /\ heard = Answer
             \/ client = "await" /\ s = "failed" /\ ~polite
             \/ client = "answer" /\ s = "preface" /\ NextItem = "switching"
             \/ client = "answer" /\ s = "failed" /\ ~polite
             \/ client \in {"up", "asked"} /\ s = client
      PROVE  OpeningIInv'
  <2>1. OpeningTyped'
    BY <1>1, <1>2, <1>3, <1>4, <1>5 DEF OpeningTyped
  <2>2. NoData => NoData'
    BY <1>1, <1>2 DEF NoData
  <2>3. AskedFirst'
    BY <1>4, <1>5, <2>2 DEF AskedFirst
  <2>4. AttachedFirst'
    <3>1. s = "up" /\ client = "await" => attached[the] = 1
      BY <1>1, <1>4, <1>5 DEF AttachedFirst, NextItem, OpeningTyped
    <3> QED
      BY <1>2, <1>4, <1>5, <2>2, <3>1 DEF AttachedFirst
  <2>5. ClientPlace'
    BY <1>1, <1>2, <1>4, <1>5 DEF ClientPlace, OpeningTyped, Answer, NextItem
  <2>6. FirstRead'
    BY <1>1, <1>2, <1>4, <1>5 DEF FirstRead, ClientPlace
  <2>7. HandshakeTakesEcho'
    BY <1>2, <1>4, <1>5 DEF HandshakeTakesEcho, NextItem, Answer
  <2> QED
    BY <1>2, <2>1, <2>3, <2>4, <2>5, <2>6, <2>7 DEF OpeningIInv
<1>6. CASE ClientAwaits
  <2>1. client = "await" /\ client' = IF IsSettings(NextItem) THEN "up" ELSE "failed"
    BY <1>6 DEF ClientAwaits, ClientReads
  <2> QED
    BY <1>1, <1>5, <2>1, AwaitedIsEcho
<1>7. CASE ClientAnswered
  <2>1. client = "answer" /\ client' = IF NextItem = "switching" THEN "preface" ELSE "failed"
    BY <1>7 DEF ClientAnswered, ClientReads
  <2>2. heard = 0 /\ mode = "upgrade" /\ NextItem = s2c[1] /\ 1 \in 1 .. Len(s2c)
    BY <1>1, <1>4, <2>1 DEF ClientPlace, NextItem, OpeningTyped
  <2>3. ASSUME NextItem # "switching", polite PROVE FALSE
    <3>1. s2c \in Seq({"switching", "echo", "ack"})
      BY <1>4, <2>1, <2>3 DEF OpeningIInv, AskedFirst, NoData, PoliteWaits
    <3>2. s2c[1] \in {"echo", "ack"}
      BY <2>2, <2>3, <3>1
    <3>3. ~Early
      BY <2>2, <3>2 DEF OpeningIInv, NothingRead
    <3>4. PICK i \in 1 .. Len(s2c) : s2c[i] = "switching"
      BY <1>1, <2>2, <3>3 DEF OpeningIInv, UpgradeAnswered
    <3>5. i # 1 /\ i \in DOMAIN s2c /\ 1 \in 1 .. i - 1
      BY <1>4, <3>2, <3>4 DEF OpeningTyped
    <3> QED
      BY <2>3, <3>4, <3>5 DEF OpeningIInv, AnswerFirst
  <2> QED
    BY <1>5, <2>1, <2>3
<1>8. CASE ClientListens
  BY <1>5, <1>8 DEF ClientListens, ClientReads
<1> QED
  BY <1>6, <1>7, <1>8

LEMMA LostStep ==
  ASSUME OpeningIInv, IInv, Lost
  PROVE  OpeningIInv'
<1>1. /\ UNCHANGED openingVars /\ peer'[the] = "closed"
      /\ UNCHANGED <<reader, writer, outgoing, trans, fwd, attached>>
  BY OnlyLink DEF Lost, PeerCloses, serverVars, IInv, TypeOK, LinkTypeOK
<1>2. OpeningTyped' /\ QueuedIsOutgoing'
  BY <1>1 DEF OpeningIInv, OpeningTyped, QueuedIsOutgoing, openingVars
<1>3. (NothingRead /\ AskedFirst /\ AttachedFirst /\ PoliteWaits)'
  BY <1>1 DEF OpeningIInv, openingVars, NothingRead, AskedFirst, AttachedFirst, PoliteWaits,
     NoData, Early
<1>4. EchoFirst'
  BY <1>1 DEF OpeningIInv, openingVars, EchoFirst, EchoAhead
<1>5. ClientPlace' /\ FirstRead' /\ UpgradeAnswered'
  BY <1>1 DEF OpeningIInv, openingVars, ClientPlace, Answer, FirstRead, UpgradeAnswered
<1>6. AnswerFirst' /\ HandshakeTakesEcho'
  BY <1>1 DEF OpeningIInv, openingVars, AnswerFirst, HandshakeTakesEcho
<1> QED
  BY <1>2, <1>3, <1>4, <1>5, <1>6 DEF OpeningIInv

-----------------------------------------------------------------------------
(* read_loop                                                               *)

LEMMA ShorterFacts ==
  ASSUME NEW S, NEW s \in Seq(S), NEW n \in Nat
  PROVE  SubSeq(s, n + 1, Len(s)) \in Seq(S)
<1>1. \A i \in n + 1 .. Len(s) : s[i] \in S
  OBVIOUS
<1>2. n + 1 \in Int /\ Len(s) \in Int
  OBVIOUS
<1> QED
  BY <1>1, <1>2, SubSeqProperties

\* What the read loop leaves alone.
ReaderOnly ==
  /\ UNCHANGED <<mode, polite, client, heard, queued, writing, served>>
  /\ UNCHANGED <<outgoing, writer, fwd, attached, peer>>

LEMMA ReaderOnlySteps ==
  ASSUME OpenReader
  PROVE  ReaderOnly
BY DEF OpenReader, OpenPreface, OpenUpgrade, OpenPrefaceAgain, OpenFrame, ReadFails, ServerReads,
   ReadPreface, ReadUpgrade, ReadPrefaceAgain, ReadFrame, ReadBreak, ReaderStore, ReaderSample,
   ReaderSend, GoReader, openingVars, serverVars, ReaderOnly

\* A part of what the client has sent may have been read.
ReadOn == c2s' = c2s \/ \E n \in Nat : c2s' = SubSeq(c2s, n + 1, Len(c2s))

LEMMA ReadOnKeeps ==
  ASSUME OpeningTyped, ReadOn
  PROVE  /\ c2s' \in Seq({"preface", "settings", "data", "line", "headers", "end"})
         /\ c2s \in Seq({"preface", "settings", "line", "headers", "end"}) =>
              c2s' \in Seq({"preface", "settings", "line", "headers", "end"})
<1>1. ASSUME NEW S, c2s \in Seq(S) PROVE c2s' \in Seq(S)
  BY <1>1, ShorterFacts, ZenonT(30) DEF ReadOn
<1> QED
  BY <1>1 DEF OpeningTyped

\* The read loop goes on; it writes nothing, and reports no frame.
LEMMA ReaderMoves ==
  ASSUME OpeningIInv, ReaderOnly, ReadOn, NoNewFrames, UNCHANGED s2c,
         reader'[the] \notin {"idle", "preface"},
         mode = "prior" => reader'[the] # "upgrade",
         Early' => Early,
         mode = "upgrade" /\ peer[the] # "closed" /\ ~Early' => ~Early
  PROVE  OpeningIInv'
<1>1. OpeningTyped' /\ QueuedIsOutgoing'
  BY ReadOnKeeps DEF OpeningIInv, OpeningTyped, QueuedIsOutgoing, ReaderOnly
<1>2. NothingRead'
  BY DEF OpeningIInv, NothingRead, NoNewFrames, ReaderOnly
<1>3. NoData => NoData'
  BY ReadOnKeeps, DataIsFrame DEF OpeningIInv, NoData, NoNewFrames, ReaderOnly
<1>4. (AskedFirst /\ AttachedFirst /\ PoliteWaits)'
  BY <1>3 DEF OpeningIInv, AskedFirst, AttachedFirst, PoliteWaits, ReaderOnly
<1>5. EchoFirst'
  BY DEF OpeningIInv, EchoFirst, EchoAhead, ReaderOnly
<1>6. ClientPlace' /\ FirstRead' /\ UpgradeAnswered'
  BY DEF OpeningIInv, ClientPlace, Answer, FirstRead, UpgradeAnswered, ReaderOnly
<1>7. AnswerFirst' /\ HandshakeTakesEcho'
  BY DEF OpeningIInv, AnswerFirst, HandshakeTakesEcho, ReaderOnly
<1> QED
  BY <1>1, <1>2, <1>4, <1>5, <1>6, <1>7 DEF OpeningIInv

LEMMA ReaderFrameStep ==
  ASSUME OpeningIInv, IInv, OpenFrame
  PROVE  OpeningIInv'
<1>1. ReaderOnly
  BY ReaderOnlySteps DEF OpenReader
<1>2. /\ UNCHANGED <<s2c, reader>> /\ ReadOn /\ reader[the] = "frames" /\ c2s # <<>>
      /\ trans' = Append(trans, FrameMsg(Head(c2s), the)) /\ Head(c2s) \in Frames
  BY DEF OpenFrame, ServerReads, ReadFrame, ReadOn, OpeningIInv, OpeningTyped
<1>3. ~Early /\ ~Early'
  BY <1>2 DEF Early
<1>4. OpeningTyped' /\ QueuedIsOutgoing'
  BY <1>1, <1>2, ReadOnKeeps DEF OpeningIInv, OpeningTyped, QueuedIsOutgoing, ReaderOnly
<1>5. NoData => NoData'
  <2> SUFFICES ASSUME NoData PROVE NoData'
    OBVIOUS
  <2>1. FrameMsg(Head(c2s), the) \in Msg /\ FrameMsg(Head(c2s), the).kind = Head(c2s)
    BY <1>2, FrameType, OnlyLink DEF FrameMsg
  <2>2. Head(c2s) # "data"
    BY <1>2 DEF NoData
  <2>3. \A i \in 1 .. Len(trans') : trans'[i].kind # "data"
    BY <1>2, <2>1, <2>2, AppendFacts DEF NoData, IInv, TypeOK, LinkTypeOK
  <2> QED
    BY <1>1, <1>2, <2>3, ReadOnKeeps DEF OpeningIInv, NoData, ReaderOnly
<1>6. (NothingRead /\ AskedFirst /\ AttachedFirst /\ PoliteWaits)'
  BY <1>1, <1>2, <1>3, <1>5 DEF OpeningIInv, NothingRead, AskedFirst, AttachedFirst, PoliteWaits,
     ReaderOnly
<1>7. EchoFirst'
  BY <1>1, <1>2 DEF OpeningIInv, EchoFirst, EchoAhead, ReaderOnly
<1>8. ClientPlace' /\ FirstRead' /\ UpgradeAnswered'
  BY <1>1, <1>2, <1>3 DEF OpeningIInv, ClientPlace, Answer, FirstRead, UpgradeAnswered, ReaderOnly
<1>9. AnswerFirst' /\ HandshakeTakesEcho'
  BY <1>1, <1>2 DEF OpeningIInv, AnswerFirst, HandshakeTakesEcho, ReaderOnly
<1> QED
  BY <1>4, <1>6, <1>7, <1>8, <1>9 DEF OpeningIInv

\* The 101 is written before anything else the server has to say, and once.
LEMMA UpgradeStep ==
  ASSUME OpeningIInv, IInv, OpenUpgrade
  PROVE  OpeningIInv'
<1>1. ReaderOnly
  BY ReaderOnlySteps DEF OpenReader
<1>2. UNCHANGED trans /\ ReadOn /\ reader[the] = "upgrade"
  BY DEF OpenUpgrade, ReadUpgrade, ServerReads, ReadOn
<1>3. NoNewFrames
  BY <1>2, SameNoNew
<1>4. mode = "upgrade" /\ Early
  BY <1>2 DEF OpeningIInv, OpeningTyped, FirstRead, Early
<1>5. CASE reader'[the] = "panicked" /\ UNCHANGED s2c
  BY <1>1, <1>2, <1>3, <1>4, <1>5, ReaderMoves DEF Early
<1>6. CASE reader'[the] = "again" /\ Written("switching")
  <2> DEFINE n == Len(s2c)
             Item == {"switching", "echo", "ack", "head", "payload"}
  <2>1. /\ s2c \in Seq(Item) /\ n \in Nat /\ s2c' \in Seq(Item) /\ Len(s2c') = n + 1
        /\ \A i \in 1 .. n : s2c'[i] = s2c[i]
        /\ s2c'[n + 1] = "switching"
    BY <1>6, AppendFacts DEF Written, OpeningIInv, OpeningTyped
  <2>2. /\ s2c \in Seq({"head", "payload"}) /\ ~served
        /\ polite => s2c = <<>>
    <3>1. s2c \in Seq({"head", "payload"}) /\ ~served
      BY <1>4 DEF OpeningIInv, NothingRead
    <3>2. ASSUME polite PROVE s2c = <<>>
      BY <3>1, <3>2 DEF OpeningIInv, PoliteWaits
    <3> QED
      BY <3>1, <3>2
  <2>3. OpeningTyped' /\ QueuedIsOutgoing'
    BY <1>1, <1>2, <2>1, ReadOnKeeps DEF OpeningIInv, OpeningTyped, QueuedIsOutgoing, ReaderOnly
  <2>4. ~Early'
    BY <1>6 DEF Early
  <2>5. NoData'
    <3>1. ASSUME client = "asked" PROVE FALSE
      <4>1. heard > 1 /\ heard \in 0 .. n /\ s2c[1] = "switching"
        BY <1>4, <3>1 DEF OpeningIInv, ClientPlace, OpeningTyped, Answer
      <4> QED
        BY <2>2, <4>1
    <3>2. NoData /\ OpeningTyped
      BY <3>1 DEF OpeningIInv, AskedFirst
    <3> QED
      BY <1>1, <1>2, <3>2, ReadOnKeeps DEF NoData, ReaderOnly
  <2>6. AttachedFirst'
    <3>1. ASSUME attached[the] # 1 PROVE s2c' \in Seq({"switching"})
      <4>1. s2c \in Seq({"switching"})
        BY <3>1 DEF OpeningIInv, AttachedFirst
      <4> QED
        BY <1>6, <4>1, AppendFacts DEF Written
    <3> QED
      BY <1>1, <2>5, <3>1 DEF OpeningIInv, AttachedFirst, ReaderOnly
  <2>7. PoliteWaits'
    <3>1. ASSUME polite PROVE s2c' \in Seq({"switching", "echo", "ack"})
      BY <1>6, <2>2, <3>1 DEF Written
    <3> QED
      BY <1>1, <3>1 DEF OpeningIInv, PoliteWaits, ReaderOnly
  <2>8. EchoFirst'
    BY <1>1, <2>1 DEF OpeningIInv, EchoFirst, EchoAhead, ReaderOnly
  <2>9. ClientPlace'
    BY <1>1, <2>1 DEF OpeningIInv, OpeningTyped, ClientPlace, Answer, ReaderOnly
  <2>10. FirstRead' /\ UpgradeAnswered'
    BY <1>1, <1>4, <1>6, <2>1 DEF FirstRead, UpgradeAnswered, ReaderOnly
  <2>11. AnswerFirst'
    <3>1. \A j \in 1 .. n : ~polite /\ s2c'[j] \in {"head", "payload"}
      BY <2>1, <2>2
    <3>2. DOMAIN s2c' = 1 .. n + 1
      BY <2>1
    <3> QED
      BY <1>1, <2>1, <3>1, <3>2 DEF AnswerFirst, ReaderOnly
  <2>12. HandshakeTakesEcho'
    BY <1>1, <2>1, <2>2 DEF OpeningIInv, OpeningTyped, HandshakeTakesEcho, ClientPlace, ReaderOnly,
       Answer
  <2> QED
    BY <1>1, <2>3, <2>4, <2>5, <2>6, <2>7, <2>8, <2>9, <2>10, <2>11, <2>12
       DEF OpeningIInv, NothingRead, AskedFirst
<1> QED
  BY <1>5, <1>6 DEF OpenUpgrade

LEMMA ReaderStep ==
  ASSUME OpeningIInv, IInv, OpenReader
  PROVE  OpeningIInv'
<1>1. ReaderOnly /\ reader \in [Links -> ReaderState] /\ the \in Links
  BY ReaderOnlySteps, OnlyLink DEF IInv, TypeOK, LinkTypeOK
<1>2. CASE OpenPreface
  <2>1. /\ UNCHANGED <<s2c, trans>> /\ ReadOn /\ reader[the] = "preface" /\ c2s # <<>>
        /\ reader'[the] = IF Head(c2s) = "preface" THEN "frames" ELSE "upgrade"
    BY <1>2 DEF OpenPreface, ReadPreface, ServerReads, ReadOn, OpeningIInv, OpeningTyped
  <2>2. Head(c2s) = IF mode = "prior" THEN "preface" ELSE "line"
    BY <2>1 DEF OpeningIInv, FirstRead
  <2>3. mode \in {"prior", "upgrade"} /\ NoNewFrames
    BY <2>1, SameNoNew DEF OpeningIInv, OpeningTyped
  <2> QED
    BY <1>1, <2>1, <2>2, <2>3, ReaderMoves DEF Early
<1>3. CASE OpenPrefaceAgain
  <2>1. /\ UNCHANGED <<s2c, trans>> /\ ReadOn /\ reader[the] = "again"
        /\ reader'[the] = "frames"
    BY <1>1, <1>3 DEF OpenPrefaceAgain, ReadPrefaceAgain, GoReader, ServerReads, ReadOn
  <2> QED
    BY <1>1, <2>1, SameNoNew, ReaderMoves DEF Early
<1>4. CASE ReadFails
  <2>1. UNCHANGED <<s2c, trans, c2s>> /\ peer[the] = "closed"
    BY <1>4 DEF ReadFails, ReadPreface, ReadUpgrade, ReadPrefaceAgain, ReadBreak, openingVars
  <2>2. /\ reader'[the] \in {"frames", "panicked", "store"}
        /\ reader'[the] = "panicked" => reader[the] = "upgrade"
    BY <1>1, <1>4 DEF ReadFails, ReadPreface, ReadUpgrade, ReadPrefaceAgain, ReadBreak, GoReader
  <2> QED
    BY <1>1, <2>1, <2>2, SameNoNew, ReaderMoves DEF Early, ReadOn
<1>5. CASE (ReaderStore(the) \/ ReaderSample(the) \/ ReaderSend(the))
             /\ UNCHANGED <<serverVars, openingVars>>
  <2>1. UNCHANGED <<s2c, c2s>>
    BY <1>5 DEF openingVars
  <2>2. /\ reader[the] \in {"store", "sample", "send"}
        /\ reader'[the] \in {"sample", "send", "done"}
    BY <1>1, <1>5 DEF ReaderStore, ReaderSample, ReaderSend, GoReader
  <2>3. NoNewFrames
    <3>1. CASE UNCHANGED trans
      BY <3>1, SameNoNew
    <3>2. CASE ReaderSend(the)
      <4>1. ChangedMsg(the, rlocal[the]) \in Msg
        BY <1>1, ChangedType DEF IInv, TypeOK, LinkTypeOK
      <4>2. ChangedMsg(the, rlocal[the]).kind \notin Frames
        BY DEF ChangedMsg, Frames
      <4> QED
        BY <3>2, <4>1, <4>2, ReportedNoNew DEF ReaderSend
    <3> QED
      BY <1>5, <3>1, <3>2 DEF ReaderStore, ReaderSample
  <2> QED
    BY <1>1, <2>1, <2>2, <2>3, ReaderMoves DEF Early, ReadOn
<1> QED
  BY <1>2, <1>3, <1>4, <1>5, UpgradeStep, ReaderFrameStep DEF OpenReader

-----------------------------------------------------------------------------
(* write_loop                                                              *)

\* What the write loop leaves alone.
WriterOnly ==
  /\ UNCHANGED <<mode, polite, client, c2s, heard, served>>
  /\ UNCHANGED <<reader, fwd, attached, peer>>

LEMMA WriterOnlySteps ==
  ASSUME OpenWriter
  PROVE  WriterOnly
BY DEF OpenWriter, WriteDataHead, WriteDataBody, WriteSettingsItem, WriteStops, ServerWrites,
   WriteItem, WriteBreak, WriterStore, WriterSample, WriterSend, GoWriter, openingVars, serverVars,
   linkVars, WriterOnly

\* The first item is taken from both channels, or stays in both.
LEMMA TakenFromBoth ==
  ASSUME OpeningIInv, IInv, queued # <<>>, queued' = Tail(queued),
         outgoing'[the] = Tail(outgoing[the]), ~writing'
  PROVE  QueuedIsOutgoing'
<1>1. /\ outgoing[the] \in Seq({"write", "stop"}) /\ Len(queued) = Len(outgoing[the])
      /\ queued \in Seq({"data", "echo", "ack", "stop"})
  BY OnlyLink DEF IInv, TypeOK, LinkTypeOK, OpeningIInv, OpeningTyped, QueuedIsOutgoing
<1>2. outgoing[the] # <<>>
  BY <1>1
<1>3. /\ Len(queued') = Len(queued) - 1 /\ Len(outgoing'[the]) = Len(queued) - 1
      /\ \A i \in 1 .. Len(queued') :
           /\ i + 1 \in 1 .. Len(queued)
           /\ queued'[i] = queued[i + 1] /\ outgoing'[the][i] = outgoing[the][i + 1]
  BY <1>1, <1>2, TailFacts
<1> QED
  BY <1>3 DEF OpeningIInv, QueuedIsOutgoing

\* Something of the first item is written.
LEMMA WritesOne ==
  ASSUME OpeningIInv, IInv, WriterOnly, UNCHANGED <<trans, writer>>,
         writer[the] = "recv", queued # <<>>,
         NEW item \in {"head", "payload", "echo", "ack"}, Written(item),
         IF item \in {"echo", "ack"} THEN queued[1] = item ELSE queued[1] = "data",
         \/ queued' = queued /\ item \notin {"echo", "ack"}
         \/ queued' = Tail(queued),
         QueuedIsOutgoing', writing' \in BOOLEAN
  PROVE  OpeningIInv'
<1> DEFINE n == Len(s2c)
           Item == {"switching", "echo", "ack", "head", "payload"}
<1>1. /\ s2c \in Seq(Item) /\ n \in Nat /\ s2c' \in Seq(Item) /\ Len(s2c') = n + 1
      /\ \A i \in 1 .. n : s2c'[i] = s2c[i]
      /\ s2c'[n + 1] = item
  BY AppendFacts DEF Written, OpeningIInv, OpeningTyped
<1>2. /\ queued \in Seq({"data", "echo", "ack", "stop"}) /\ 1 \in 1 .. Len(queued)
      /\ \A S : queued \in Seq(S) => queued' \in Seq(S) /\ queued[1] \in S
  <2>1. queued \in Seq({"data", "echo", "ack", "stop"})
    BY DEF OpeningIInv, OpeningTyped
  <2>2. ASSUME NEW S, queued \in Seq(S) PROVE queued' \in Seq(S) /\ queued[1] \in S
    BY <2>2, TailFacts
  <2>3. 1 \in 1 .. Len(queued)
    BY <2>1
  <2> QED
    BY <2>1, <2>2, <2>3
<1>3. OpeningTyped'
  BY <1>1, <1>2 DEF OpeningIInv, OpeningTyped, WriterOnly
<1>4. attached[the] = 1
  BY QueuedAttached DEF OpeningIInv
<1>5. NothingRead'
  <2>1. ASSUME Early PROVE s2c' \in Seq({"head", "payload"}) /\ queued' \in Seq({"data", "stop"})
    <3>1. s2c \in Seq({"head", "payload"}) /\ queued \in Seq({"data", "stop"})
      BY <2>1 DEF OpeningIInv, NothingRead
    <3>2. item \in {"head", "payload"} /\ queued' \in Seq({"data", "stop"})
      BY <1>2, <3>1
    <3> QED
      BY <3>1, <3>2, AppendFacts DEF Written
  <2> QED
    BY <2>1 DEF OpeningIInv, NothingRead, Early, WriterOnly
<1>6. AskedFirst' /\ AttachedFirst'
  BY <1>4 DEF OpeningIInv, AskedFirst, AttachedFirst, NoData, WriterOnly
<1>7. PoliteWaits'
  <2>1. ASSUME polite, ~served
        PROVE  s2c' \in Seq({"switching", "echo", "ack"}) /\ queued' \in Seq({"echo", "ack", "stop"})
    <3>1. s2c \in Seq({"switching", "echo", "ack"}) /\ queued \in Seq({"echo", "ack", "stop"})
      BY <2>1 DEF OpeningIInv, PoliteWaits
    <3>2. item \in {"echo", "ack"} /\ queued' \in Seq({"echo", "ack", "stop"})
      BY <1>2, <3>1
    <3> QED
      BY <3>1, <3>2, AppendFacts DEF Written
  <2> QED
    BY <2>1 DEF PoliteWaits, WriterOnly
<1>8. EchoFirst'
  <2>1. \A i \in 1 .. n + 1 : s2c'[i] = "ack" => \E j \in 1 .. i - 1 : s2c'[j] = "echo"
    <3>1. ASSUME NEW i \in 1 .. n, s2c'[i] = "ack" PROVE \E j \in 1 .. i - 1 : s2c'[j] = "echo"
      BY <1>1, <3>1 DEF OpeningIInv, EchoFirst
    <3>2. ASSUME item = "ack" PROVE \E j \in 1 .. n : s2c'[j] = "echo"
      <4>1. EchoAhead(0)
        BY <1>2, <3>2 DEF OpeningIInv, EchoFirst
      <4> QED
        BY <1>1, <4>1 DEF EchoAhead
    <3> QED
      BY <1>1, <3>1, <3>2
  <2>2. CASE queued' = queued
    BY <1>1, <2>1, <2>2 DEF OpeningIInv, EchoFirst, EchoAhead, WriterOnly
  <2>3. CASE queued' = Tail(queued)
    <3>1. /\ Len(queued') = Len(queued) - 1 /\ Len(queued) \in Nat
          /\ \A i \in 1 .. Len(queued') : i + 1 \in 1 .. Len(queued) /\ queued'[i] = queued[i + 1]
      BY <1>2, <2>3, TailFacts
    <3>2. ASSUME NEW k \in 1 .. Len(queued), EchoAhead(k) PROVE EchoAhead(k - 1)'
      <4>1. CASE \E j \in 1 .. Len(s2c) : s2c[j] = "echo"
        BY <1>1, <4>1 DEF EchoAhead
      <4>2. CASE queued[1] = "echo"
        <5>1. item = "echo"
          BY <4>2
        <5> QED
          BY <1>1, <5>1 DEF EchoAhead
      <4>3. ASSUME NEW j \in 2 .. k, queued[j] = "echo" PROVE EchoAhead(k - 1)'
        <5>1. j - 1 \in 1 .. k - 1 /\ j - 1 \in 1 .. Len(queued')
          BY <3>1
        <5>2. queued'[j - 1] = "echo"
          BY <3>1, <4>3, <5>1
        <5> QED
          BY <5>1, <5>2 DEF EchoAhead
      <4> QED
        BY <3>2, <4>1, <4>2, <4>3 DEF EchoAhead
    <3>3. ASSUME NEW i \in 1 .. Len(queued'), queued'[i] = "ack" PROVE EchoAhead(i - 1)'
      <4>1. i + 1 \in 1 .. Len(queued) /\ queued[i + 1] = "ack" /\ i \in 1 .. Len(queued)
        BY <3>1, <3>3
      <4>2. EchoAhead(i)
        BY <4>1 DEF OpeningIInv, EchoFirst
      <4> QED
        BY <3>2, <4>1, <4>2
    <3>4. ASSUME NEW k \in 1 .. Len(queued), k = Len(queued), fwd' = "ack"
          PROVE  EchoAhead(Len(queued))'
      <4>1. EchoAhead(k)
        BY <3>4 DEF OpeningIInv, EchoFirst, WriterOnly
      <4>2. EchoAhead(k - 1)' /\ Len(queued') = k - 1
        BY <3>1, <3>2, <3>4, <4>1
      <4> QED
        BY <4>2 DEF EchoAhead
    <3>5. Len(queued) \in 1 .. Len(queued)
      BY <1>2
    <3> QED
      BY <1>1, <2>1, <3>3, <3>4, <3>5 DEF EchoFirst
  <2> QED
    BY <2>2, <2>3
<1>9. ClientPlace'
  BY <1>1 DEF OpeningIInv, OpeningTyped, ClientPlace, Answer, WriterOnly
<1>10. FirstRead' /\ UpgradeAnswered'
  BY <1>1 DEF OpeningIInv, FirstRead, UpgradeAnswered, Early, WriterOnly
<1>11. AnswerFirst'
  <2>1. DOMAIN s2c' = 1 .. n + 1 /\ DOMAIN s2c = 1 .. n
    BY <1>1
  <2> QED
    BY <1>1, <2>1 DEF OpeningIInv, AnswerFirst, WriterOnly
<1>12. HandshakeTakesEcho'
  BY <1>1 DEF OpeningIInv, OpeningTyped, HandshakeTakesEcho, ClientPlace, WriterOnly, Answer
<1> QED
  BY <1>3, <1>5, <1>6, <1>7, <1>8, <1>9, <1>10, <1>11, <1>12 DEF OpeningIInv

\* The write loop ends; it writes nothing.
LEMMA WriterMoves ==
  ASSUME OpeningIInv, WriterOnly, UNCHANGED s2c, NoNewFrames, writer'[the] # "recv",
         queued' = queued \/ (queued # <<>> /\ queued' = Tail(queued)),
         QueuedIsOutgoing', writing' \in BOOLEAN
  PROVE  OpeningIInv'
<1>1. ASSUME NEW S, queued \in Seq(S) PROVE queued' \in Seq(S)
  BY <1>1, TailFacts
<1>2. OpeningTyped'
  BY <1>1 DEF OpeningIInv, OpeningTyped, WriterOnly
<1>3. NothingRead' /\ PoliteWaits'
  BY <1>1 DEF OpeningIInv, NothingRead, PoliteWaits, Early, NoNewFrames, WriterOnly
<1>4. NoData => NoData'
  BY DataIsFrame DEF NoData, NoNewFrames, WriterOnly
<1>5. AskedFirst' /\ AttachedFirst' /\ EchoFirst'
  BY <1>4 DEF OpeningIInv, AskedFirst, AttachedFirst, EchoFirst, WriterOnly
<1>6. ClientPlace' /\ FirstRead' /\ UpgradeAnswered'
  BY DEF OpeningIInv, ClientPlace, Answer, FirstRead, UpgradeAnswered, Early, WriterOnly
<1>7. AnswerFirst' /\ HandshakeTakesEcho'
  BY DEF OpeningIInv, AnswerFirst, HandshakeTakesEcho, WriterOnly
<1> QED
  BY <1>2, <1>3, <1>5, <1>6, <1>7 DEF OpeningIInv

LEMMA WriterStep ==
  ASSUME OpeningIInv, IInv, OpenWriter
  PROVE  OpeningIInv'
<1>1. /\ WriterOnly /\ the \in Links
      /\ outgoing \in [Links -> Seq({"write", "stop"})] /\ writer \in [Links -> WriterState]
      /\ Len(queued) = Len(outgoing[the]) /\ queued \in Seq({"data", "echo", "ack", "stop"})
      /\ writing \in BOOLEAN
  BY WriterOnlySteps, OnlyLink DEF IInv, TypeOK, LinkTypeOK, OpeningIInv, OpeningTyped,
     QueuedIsOutgoing
<1>2. CASE WriteDataHead
  <2>1. /\ UNCHANGED <<trans, writer, queued, outgoing>> /\ writing' = TRUE
        /\ writer[the] = "recv" /\ queued # <<>> /\ Head(queued) = "data" /\ Written("head")
    BY <1>2 DEF WriteDataHead, ServerWrites, linkVars
  <2>2. QueuedIsOutgoing' /\ queued[1] = "data" /\ writing' \in BOOLEAN
    BY <1>1, <2>1 DEF OpeningIInv, QueuedIsOutgoing
  <2> QED
    BY <1>1, <2>1, <2>2, WritesOne
<1>3. ASSUME WriteItem(the), NEW item \in {"payload", "echo", "ack"}, queued # <<>>,
             queued' = Tail(queued), Written(item), ~writing', writing' \in BOOLEAN,
             IF item = "payload" THEN queued[1] = "data" ELSE queued[1] = item
      PROVE  OpeningIInv'
  <2>1. /\ UNCHANGED <<trans, writer>> /\ writer[the] = "recv"
        /\ outgoing' = [outgoing EXCEPT ![the] = Tail(@)]
    BY <1>3 DEF WriteItem, Receive
  <2>2. QueuedIsOutgoing'
    BY <1>1, <1>3, <2>1, TakenFromBoth
  <2> QED
    BY <1>1, <1>3, <2>1, <2>2, WritesOne
<1>4. CASE WriteDataBody
  <2>1. /\ WriteItem(the) /\ writing /\ writing' = FALSE /\ queued' = Tail(queued)
        /\ Written("payload")
    BY <1>4 DEF WriteDataBody, ServerWrites
  <2>2. queued # <<>> /\ queued[1] = "data"
    BY <1>1, <2>1 DEF OpeningIInv, QueuedIsOutgoing
  <2> QED
    BY <1>3, <2>1, <2>2
<1>5. CASE WriteSettingsItem
  <2>1. /\ WriteItem(the) /\ writing' = writing /\ queued' = Tail(queued)
        /\ Written(Head(queued)) /\ Head(queued) # "data"
    BY <1>5 DEF WriteSettingsItem, ServerWrites
  <2>2. ~writing
    BY <2>1 DEF OpeningIInv, QueuedIsOutgoing
  <2>3. outgoing[the] # <<>> /\ Head(outgoing[the]) = "write"
    BY <2>1 DEF WriteItem, Receive
  <2>4. queued # <<>> /\ 1 \in 1 .. Len(queued) /\ Head(queued) = queued[1]
        /\ outgoing[the][1] = "write"
    BY <1>1, <2>3
  <2>5. queued[1] # "stop"
    BY <2>4 DEF OpeningIInv, QueuedIsOutgoing
  <2>6. queued[1] \in {"echo", "ack"}
    BY <1>1, <2>1, <2>4, <2>5
  <2>7. ~writing' /\ writing' \in BOOLEAN
    BY <1>1, <2>1, <2>2, Zenon
  <2> QED
    BY <1>3, <2>1, <2>4, <2>6, <2>7
<1>6. CASE WriteStops
  <2>1. /\ WriteBreak(the) /\ queued' = Tail(queued) /\ writing' = FALSE /\ UNCHANGED s2c
    BY <1>6 DEF WriteStops
  <2>2. /\ outgoing[the] # <<>> /\ outgoing' = [outgoing EXCEPT ![the] = Tail(@)]
        /\ UNCHANGED trans /\ writer' = [writer EXCEPT ![the] = "store"]
    BY <2>1 DEF WriteBreak, Receive, GoWriter
  <2>3. queued # <<>>
    BY <1>1, <2>2
  <2>4. QueuedIsOutgoing'
    BY <1>1, <2>1, <2>2, <2>3, TakenFromBoth
  <2>5. writer'[the] # "recv" /\ writing' \in BOOLEAN
    BY <1>1, <2>1, <2>2
  <2> QED
    BY <1>1, <2>1, <2>2, <2>3, <2>4, <2>5, SameNoNew, WriterMoves
<1>7. CASE (WriterStore(the) \/ WriterSample(the) \/ WriterSend(the))
             /\ UNCHANGED <<serverVars, openingVars>>
  <2>1. UNCHANGED <<s2c, queued, writing>>
    BY <1>7 DEF openingVars
  <2>2. UNCHANGED outgoing /\ writer'[the] \in {"sample", "send", "done"}
    BY <1>1, <1>7 DEF WriterStore, WriterSample, WriterSend, GoWriter
  <2>3. NoNewFrames
    <3>1. CASE UNCHANGED trans
      BY <3>1, SameNoNew
    <3>2. CASE WriterSend(the)
      <4>1. ChangedMsg(the, wlocal[the]) \in Msg
        BY <1>1, ChangedType DEF IInv, TypeOK, LinkTypeOK
      <4>2. ChangedMsg(the, wlocal[the]).kind \notin Frames
        BY DEF ChangedMsg, Frames
      <4> QED
        BY <3>2, <4>1, <4>2, ReportedNoNew DEF WriterSend
    <3> QED
      BY <1>7, <3>1, <3>2 DEF WriterStore, WriterSample
  <2>4. QueuedIsOutgoing'
    BY <2>1, <2>2 DEF OpeningIInv, QueuedIsOutgoing
  <2>5. writing' \in BOOLEAN
    BY <1>1, <2>1, Zenon
  <2> QED
    BY <1>1, <2>1, <2>2, <2>3, <2>4, <2>5, WriterMoves
<1> QED
  BY <1>2, <1>4, <1>5, <1>6, <1>7 DEF OpenWriter

-----------------------------------------------------------------------------
(* accept_loop, forward_loop and the application                           *)

\* What the server does without a socket.
ServerOnly ==
  /\ UNCHANGED <<mode, polite, client, c2s, s2c, heard, writing>>
  /\ attached[the] = 1 => attached'[the] = 1
  /\ peer'[the] # "closed" => peer[the] # "closed"

\* A server task sends nothing to the link.
LEMMA ServerQuiet ==
  ASSUME OpeningIInv, ServerOnly, NoNewFrames, UNCHANGED queued,
         outgoing'[the] = outgoing[the],
         fwd' = "ack" => fwd = "ack",
         served' \in BOOLEAN, served => served',
         served' => served \/ \E i \in 1 .. Len(trans) : trans[i].kind = "data",
         \/ reader'[the] = reader[the] /\ writer'[the] = writer[the]
         \/ reader[the] = "idle" /\ reader'[the] = "preface"
  PROVE  OpeningIInv'
<1>1. OpeningTyped' /\ QueuedIsOutgoing'
  BY DEF OpeningIInv, OpeningTyped, QueuedIsOutgoing, ServerOnly
<1>2. Early' <=> Early
  BY DEF Early
<1>3. NoData => NoData'
  BY DataIsFrame DEF NoData, NoNewFrames, ServerOnly
<1>4. NothingRead'
  BY <1>2, DataIsFrame DEF OpeningIInv, NothingRead, NoNewFrames, ServerOnly
<1>5. AskedFirst' /\ AttachedFirst'
  BY <1>3 DEF OpeningIInv, AskedFirst, AttachedFirst, ServerOnly
<1>6. PoliteWaits'
  BY DEF OpeningIInv, PoliteWaits, ServerOnly
<1>7. EchoFirst'
  <2>1. CASE writer'[the] = writer[the]
    BY <2>1 DEF OpeningIInv, EchoFirst, EchoAhead, ServerOnly
  <2>2. CASE Early
    <3>1. queued \in Seq({"data", "stop"}) /\ fwd' # "ack"
      BY <2>2 DEF OpeningIInv, NothingRead
    <3>2. \A i \in 1 .. Len(queued') : queued'[i] # "ack"
      BY <3>1
    <3> QED
      BY <3>1, <3>2 DEF OpeningIInv, EchoFirst, ServerOnly
  <2> QED
    BY <2>1, <2>2 DEF Early
<1>8. ClientPlace' /\ FirstRead' /\ UpgradeAnswered'
  BY <1>2 DEF OpeningIInv, ClientPlace, Answer, FirstRead, UpgradeAnswered, ServerOnly
<1>9. AnswerFirst' /\ HandshakeTakesEcho'
  BY DEF OpeningIInv, AnswerFirst, HandshakeTakesEcho, ServerOnly
<1> QED
  BY <1>1, <1>4, <1>5, <1>6, <1>7, <1>8, <1>9 DEF OpeningIInv

\* A server task sends one item to the link.
LEMMA ServerSends ==
  ASSUME OpeningIInv, IInv, ServerOnly, NoNewFrames, UNCHANGED <<served, reader, writer>>,
         NEW item \in {"data", "echo", "ack", "stop"}, queued' = Append(queued, item),
         outgoing'[the] = Append(outgoing[the], IF item = "stop" THEN "stop" ELSE "write"),
         item = "data" /\ polite => served,
         item \in {"echo", "ack"} => ~Early,
         item = "ack" => fwd = "ack",
         fwd' = "ack" => fwd = "ack" \/ item = "echo"
  PROVE  OpeningIInv'
<1> DEFINE n == Len(queued)
           Item == {"data", "echo", "ack", "stop"}
<1>1. /\ queued \in Seq(Item) /\ n \in Nat /\ queued' \in Seq(Item) /\ Len(queued') = n + 1
      /\ \A i \in 1 .. n : queued'[i] = queued[i]
      /\ queued'[n + 1] = item
  BY AppendFacts DEF OpeningIInv, OpeningTyped
<1>2. OpeningTyped'
  <2>1. served' \in BOOLEAN /\ writing' \in BOOLEAN /\ polite' \in BOOLEAN
    BY Zenon DEF OpeningIInv, OpeningTyped, ServerOnly
  <2> QED
    BY <1>1, <2>1 DEF OpeningIInv, OpeningTyped, ServerOnly
<1>3. QueuedIsOutgoing'
  <2> DEFINE word == IF item = "stop" THEN "stop" ELSE "write"
  <2>1. outgoing[the] \in Seq({"write", "stop"}) /\ Len(outgoing[the]) = n
    BY OnlyLink DEF IInv, TypeOK, LinkTypeOK, OpeningIInv, QueuedIsOutgoing
  <2>2. /\ Len(outgoing'[the]) = n + 1 /\ outgoing'[the][n + 1] = word
        /\ \A i \in 1 .. n : outgoing'[the][i] = outgoing[the][i]
    BY <2>1, AppendFacts
  <2>3. writing' => queued' # <<>> /\ Head(queued') = "data"
    <3>1. writing => queued # <<>> /\ Head(queued) = "data"
      BY DEF OpeningIInv, QueuedIsOutgoing
    <3>2. queued # <<>> => queued' # <<>> /\ Head(queued') = Head(queued)
      BY <1>1
    <3> QED
      BY <3>1, <3>2 DEF ServerOnly
  <2>4. \A i \in 1 .. n + 1 : outgoing'[the][i] = "stop" <=> queued'[i] = "stop"
    BY <1>1, <2>2 DEF OpeningIInv, QueuedIsOutgoing
  <2> QED
    BY <1>1, <2>2, <2>3, <2>4 DEF QueuedIsOutgoing
<1>4. NoData => NoData'
  BY DataIsFrame DEF NoData, NoNewFrames, ServerOnly
<1>5. NothingRead'
  <2>1. ASSUME Early PROVE queued' \in Seq({"data", "stop"})
    BY <2>1, AppendFacts DEF OpeningIInv, NothingRead
  <2> QED
    BY <2>1 DEF OpeningIInv, NothingRead, Early, NoNewFrames, ServerOnly
<1>6. AskedFirst' /\ AttachedFirst'
  BY <1>4 DEF OpeningIInv, AskedFirst, AttachedFirst, ServerOnly
<1>7. PoliteWaits'
  <2>1. ASSUME polite, ~served PROVE queued' \in Seq({"echo", "ack", "stop"})
    BY <2>1, AppendFacts DEF OpeningIInv, PoliteWaits
  <2> QED
    BY <2>1 DEF OpeningIInv, PoliteWaits, ServerOnly
<1>8. EchoFirst'
  <2>1. ASSUME NEW k \in 0 .. n, EchoAhead(k) PROVE EchoAhead(k)'
    BY <1>1, <2>1 DEF EchoAhead, ServerOnly
  <2>2. ASSUME NEW k, k = n, writer[the] = "recv", fwd = "ack"
        PROVE  EchoAhead(k)' /\ EchoAhead(Len(queued))'
    <3>1. EchoAhead(k)'
      BY <1>1, <2>1, <2>2 DEF OpeningIInv, EchoFirst
    <3> QED
      BY <1>1, <2>2, <3>1 DEF EchoAhead
  <2>3. ASSUME item = "echo" PROVE EchoAhead(Len(queued))'
    BY <1>1, <2>3 DEF EchoAhead
  <2>4. ASSUME writer[the] = "recv", NEW i \in 1 .. n + 1, queued'[i] = "ack"
        PROVE  EchoAhead(i - 1)'
    <3>1. CASE i \in 1 .. n
      BY <1>1, <2>1, <2>4, <3>1 DEF OpeningIInv, EchoFirst
    <3>2. CASE i = n + 1
      BY <1>1, <2>2, <2>4, <3>2
    <3> QED
      BY <1>1, <3>1, <3>2
  <2>5. \A i \in 1 .. Len(s2c') : s2c'[i] = "ack" => \E j \in 1 .. i - 1 : s2c'[j] = "echo"
    BY DEF OpeningIInv, EchoFirst, ServerOnly
  <2> QED
    BY <1>1, <2>2, <2>3, <2>4, <2>5 DEF EchoFirst
<1>9. ClientPlace' /\ FirstRead' /\ UpgradeAnswered'
  BY DEF OpeningIInv, ClientPlace, Answer, FirstRead, UpgradeAnswered, Early, ServerOnly
<1>10. AnswerFirst' /\ HandshakeTakesEcho'
  BY DEF OpeningIInv, AnswerFirst, HandshakeTakesEcho, ServerOnly
<1> QED
  BY <1>2, <1>3, <1>5, <1>6, <1>7, <1>8, <1>9, <1>10 DEF OpeningIInv

LEMMA OpenAcceptStep ==
  ASSUME OpeningIInv, IInv, OpenAccept, attached[the] = 1 => attached'[the] = 1
  PROVE  OpeningIInv'
<1>1. /\ UNCHANGED <<mode, polite, client, c2s, s2c, heard, queued, writing, served>>
      /\ Bind \/ Announce \/ \E t \in Tokens : Accept(the, t)
  BY DEF OpenAccept, openingVars
<1>2. served' \in BOOLEAN /\ (served => served') /\ (served' => served)
  BY <1>1, Zenon DEF OpeningIInv, OpeningTyped
<1>3. UNCHANGED <<fwd, outgoing>>
  BY <1>1 DEF Bind, Announce, Accept, GoAccept, NewLink, linkVars
<1>4. CASE Bind
  <2>1. UNCHANGED <<reader, writer, peer, trans>>
    BY <1>4 DEF Bind, linkVars
  <2>2. ServerOnly
    BY <1>1, <2>1 DEF ServerOnly
  <2> QED
    BY <1>1, <1>2, <1>3, <2>1, <2>2, SameNoNew, ServerQuiet
<1>5. CASE Announce
  <2>1. UNCHANGED <<reader, writer, peer>> /\ Report(NewLinkMsg(announcing))
    BY <1>5 DEF Announce, linkVars
  <2>2. NewLinkMsg(announcing) \in Msg /\ NewLinkMsg(announcing).kind \notin Frames
    <3>1. announcing \in Links
      BY <1>5 DEF IInv, TypeOK, AnnouncedOnce, Announce
    <3> QED
      BY <3>1 DEF NewLinkMsg, Msg, MsgKind, Frames
  <2>3. NoNewFrames
    BY <2>1, <2>2, ReportedNoNew
  <2>4. ServerOnly
    BY <1>1, <2>1 DEF ServerOnly
  <2> QED
    BY <1>1, <1>2, <1>3, <2>1, <2>3, <2>4, ServerQuiet
<1>6. ASSUME NEW t \in Tokens, Accept(the, t) PROVE OpeningIInv'
  <2>1. /\ peer[the] = "none" /\ reader' = [reader EXCEPT ![the] = "preface"]
        /\ UNCHANGED trans
    BY <1>6 DEF Accept, NewLink
  <2>2. reader[the] = "idle" /\ reader'[the] = "preface"
    BY <2>1, OnlyLink DEF IInv, TypeOK, LinkTypeOK, Untouched
  <2>3. ServerOnly
    BY <1>1, <2>1 DEF ServerOnly
  <2> QED
    BY <1>1, <1>2, <1>3, <2>1, <2>2, <2>3, SameNoNew, ServerQuiet
<1> QED
  BY <1>1, <1>4, <1>5, <1>6

\* send_to puts the item into the channel of the link.
LEMMA SentToLink ==
  ASSUME OpeningIInv, IInv, NEW t \in Tokens, Reachable(t), NEW item, SendTo(t, item)
  PROVE  /\ outgoing'[the] = Append(outgoing[the], item)
         /\ outgoing' # outgoing
         /\ UNCHANGED <<reader, writer, peer>>
<1>1. links[t] = the
  BY OnlyLink DEF Reachable, IInv, TypeOK
<1>2. outgoing' = [outgoing EXCEPT ![the] = Append(@, item)] /\ UNCHANGED <<reader, writer, peer>>
  BY <1>1 DEF SendTo, Send
<1>3. outgoing \in [Links -> Seq({"write", "stop"})] /\ outgoing[the] \in Seq({"write", "stop"})
  BY OnlyLink DEF IInv, TypeOK, LinkTypeOK
<1>4. outgoing'[the] = Append(outgoing[the], item)
  BY <1>2, <1>3, OnlyLink
<1>5. Len(Append(outgoing[the], item)) = Len(outgoing[the]) + 1 /\ Len(outgoing[the]) \in Nat
  BY <1>3
<1> QED
  BY <1>2, <1>4, <1>5

\* A message of a link names one whose descriptor is known.
LEMMA FirstMessage ==
  ASSUME IInv, trans # <<>>
  PROVE  /\ trans[1] = Head(trans) /\ 1 \in 1 .. Len(trans)
         /\ trans[1].kind # "exited" => token[trans[1].link] \in Tokens
<1>1. trans \in Seq(Msg) /\ trans[1] = Head(trans) /\ 1 \in 1 .. Len(trans)
  BY TailFacts DEF IInv, TypeOK, LinkTypeOK
<1>2. trans[1].kind # "exited" => trans[1].link \in Links
  BY <1>1 DEF IInv, AnnouncedOnce, Queued, FromLink
<1>3. ASSUME trans[1].link \in Links PROVE token[trans[1].link] \in Tokens
  BY <1>1, <1>3 DEF IInv, Untouched, Queued
<1> QED
  BY <1>1, <1>2, <1>3

LEMMA HandleStep ==
  ASSUME OpeningIInv, IInv, attached[the] = 1 => attached'[the] = 1,
         UNCHANGED <<mode, polite, client, c2s, s2c, heard, writing>>,
         trans # <<>>, Handle(Head(trans)),
         Queue(IF Head(trans).kind = "settings" THEN "echo" ELSE "stop"),
         served' = (served \/ Head(trans).kind = "data")
  PROVE  OpeningIInv'
<1>1. /\ trans[1] = Head(trans) /\ 1 \in 1 .. Len(trans)
      /\ trans[1].kind # "exited" => token[trans[1].link] \in Tokens
  BY FirstMessage
<1>2. NoNewFrames /\ fwd = "recv"
  BY TakenNoNew DEF Handle, ForwardOrDrop, ForwardSettings, ForwardNewLink, ForwardReadClosed,
     ForwardDetach, ForwardExited, Take
<1>3. /\ served' \in BOOLEAN /\ (served => served')
      /\ (served' => served \/ Head(trans).kind = "data")
      /\ (Head(trans).kind # "data" => (served' <=> served))
  BY Zenon DEF OpeningIInv, OpeningTyped
<1>4. served' => served \/ \E i \in 1 .. Len(trans) : trans[i].kind = "data"
  BY <1>1, <1>3
<1>5. ASSUME UNCHANGED linkVars, fwd' # "ack" PROVE OpeningIInv'
  <2>1. UNCHANGED <<queued, outgoing, reader, writer, peer>>
    BY <1>5 DEF linkVars, Queue
  <2>2. ServerOnly
    BY <2>1 DEF ServerOnly
  <2> QED
    BY <1>2, <1>3, <1>4, <1>5, <2>1, <2>2, ServerQuiet
<1>6. ASSUME NEW item \in {"echo", "stop"}, Reachable(token[trans[1].link]),
             trans[1].kind # "exited", trans[1].kind # "data",
             SendTo(token[trans[1].link], IF item = "stop" THEN "stop" ELSE "write"),
             item = IF trans[1].kind = "settings" THEN "echo" ELSE "stop",
             fwd' = "ack" => item = "echo"
      PROVE  OpeningIInv'
  <2>1. /\ outgoing'[the] = Append(outgoing[the], IF item = "stop" THEN "stop" ELSE "write")
        /\ outgoing' # outgoing /\ UNCHANGED <<reader, writer, peer>>
    BY <1>1, <1>6, SentToLink
  <2>2. queued' = Append(queued, item)
    BY <1>1, <1>6, <2>1 DEF Queue
  <2>3. served' = served
    BY <1>1, <1>3, <1>6, Zenon DEF OpeningIInv, OpeningTyped
  <2>4. item = "echo" => ~Early
    BY <1>1, <1>6, DataIsFrame DEF OpeningIInv, NothingRead
  <2>5. ServerOnly
    BY <2>1 DEF ServerOnly
  <2> QED
    BY <1>2, <1>6, <2>1, <2>2, <2>3, <2>4, <2>5, ServerSends
<1>7. CASE ForwardSettings(Head(trans))
  <2>1. CASE /\ Reachable(token[trans[1].link])
             /\ SendTo(token[trans[1].link], "write")
    BY <1>1, <1>6, <1>7, <2>1 DEF ForwardSettings
  <2>2. CASE UNCHANGED linkVars /\ fwd' = "panicked"
    BY <1>5, <2>2
  <2> QED
    BY <1>1, <1>7, <2>1, <2>2 DEF ForwardSettings
<1>8. CASE ForwardReadClosed(Head(trans))
  <2>1. trans[1].kind = "changed" /\ fwd' = "recv"
    BY <1>1, <1>2, <1>8 DEF ForwardReadClosed
  <2>2. CASE /\ Reachable(token[trans[1].link])
             /\ SendTo(token[trans[1].link], "stop")
    BY <1>6, <2>1, <2>2
  <2>3. CASE UNCHANGED linkVars
    BY <1>5, <2>1, <2>3
  <2> QED
    BY <1>1, <1>8, <2>2, <2>3 DEF ForwardReadClosed
<1>9. CASE \/ ForwardOrDrop(Head(trans)) \/ ForwardNewLink(Head(trans))
           \/ ForwardDetach(Head(trans)) \/ ForwardExited(Head(trans))
  <2>1. UNCHANGED linkVars /\ fwd' \in {"recv", "done"}
    BY <1>2, <1>9 DEF ForwardOrDrop, ForwardNewLink, ForwardDetach, ForwardExited
  <2> QED
    BY <1>5, <2>1
<1> QED
  BY <1>7, <1>8, <1>9 DEF Handle

LEMMA OpenForwardStep ==
  ASSUME OpeningIInv, IInv, OpenForward, attached[the] = 1 => attached'[the] = 1
  PROVE  OpeningIInv'
<1>1. UNCHANGED <<mode, polite, client, c2s, s2c, heard, writing>>
  BY DEF OpenForward
<1>2. CASE AckSettings /\ Queue("ack") /\ UNCHANGED served
  <2>1. /\ fwd = "ack" /\ replyTo # None /\ token[replyTo] \in Tokens /\ UNCHANGED trans
        /\ fwd' # "ack"
    BY <1>2 DEF AckSettings, IInv, AnnouncedOnce
  <2>2. NoNewFrames
    BY <2>1, SameNoNew
  <2>3. served' \in BOOLEAN /\ (served => served') /\ (served' => served)
    BY <1>2, Zenon DEF OpeningIInv, OpeningTyped
  <2>4. CASE UNCHANGED linkVars
    <3>1. UNCHANGED <<queued, outgoing, reader, writer, peer>>
      BY <1>2, <2>4 DEF linkVars, Queue
    <3>2. ServerOnly
      BY <1>1, <3>1 DEF ServerOnly
    <3> QED
      BY <2>1, <2>2, <2>3, <3>1, <3>2, ServerQuiet
  <2>5. CASE Reachable(token[replyTo]) /\ SendTo(token[replyTo], "write")
    <3>1. /\ outgoing'[the] = Append(outgoing[the], "write") /\ outgoing' # outgoing
          /\ UNCHANGED <<reader, writer, peer>>
      BY <2>1, <2>5, SentToLink
    <3>2. queued' = Append(queued, "ack")
      BY <1>2, <3>1 DEF Queue
    <3>3. ServerOnly
      BY <1>1, <3>1 DEF ServerOnly
    <3>4. ~Early
      BY <2>1 DEF OpeningIInv, NothingRead
    <3> QED
      BY <1>2, <2>1, <2>2, <3>1, <3>2, <3>3, <3>4, ServerSends
  <2> QED
    BY <1>2, <2>4, <2>5 DEF AckSettings
<1> QED
  BY <1>1, <1>2, HandleStep DEF OpenForward

LEMMA OpenAppStep ==
  ASSUME OpeningIInv, IInv, OpenApp, attached[the] = 1 => attached'[the] = 1
  PROVE  OpeningIInv'
<1>1. /\ UNCHANGED <<mode, polite, client, c2s, s2c, heard, writing, served>>
      /\ polite => served
  BY DEF OpenApp
<1>2. UNCHANGED <<reader, writer, peer, trans, fwd>>
  BY DEF OpenApp, FindLink, AppSend, linkVars, appVars
<1>3. NoNewFrames /\ ServerOnly
  BY <1>1, <1>2, SameNoNew DEF ServerOnly
<1>4. CASE FindLink(the) /\ UNCHANGED queued
  <2>1. UNCHANGED outgoing
    BY <1>4 DEF FindLink, linkVars
  <2>2. served' \in BOOLEAN /\ (served => served') /\ (served' => served)
    BY <1>1, Zenon DEF OpeningIInv, OpeningTyped
  <2> QED
    BY <1>2, <1>3, <1>4, <2>1, <2>2, ServerQuiet
<1>5. CASE AppSend(the) /\ queued' = Append(queued, "data")
  <2>1. outgoing'[the] = Append(outgoing[the], "write")
    BY <1>5, OnlyLink DEF AppSend, Send, IInv, TypeOK, LinkTypeOK
  <2> QED
    BY <1>1, <1>2, <1>3, <1>5, <2>1, ServerSends
<1> QED
  BY <1>4, <1>5 DEF OpenApp

-----------------------------------------------------------------------------
(* The inductive invariant                                                 *)

LEMMA OpeningStarts ==
  ASSUME OpeningInit
  PROVE  OpeningIInv
<1>1. /\ mode \in {"prior", "upgrade"} /\ polite \in BOOLEAN
      /\ client = IF mode = "prior" THEN "preface" ELSE "request"
      /\ c2s = <<>> /\ s2c = <<>> /\ heard = 0 /\ queued = <<>>
  BY DEF OpeningInit
<1>2. ~writing /\ writing \in BOOLEAN /\ ~served /\ served \in BOOLEAN
  BY Zenon DEF OpeningInit
<1>3. /\ reader[the] = "idle" /\ outgoing[the] = <<>> /\ trans = <<>> /\ fwd = "recv"
  BY OnlyLink DEF OpeningInit, Init, LinkInit
<1>4. OpeningTyped
  BY <1>1, <1>2 DEF OpeningTyped
<1>5. QueuedIsOutgoing /\ NothingRead /\ PoliteWaits
  BY <1>1, <1>2, <1>3 DEF QueuedIsOutgoing, NothingRead, PoliteWaits
<1>6. NoData
  BY <1>1, <1>2, <1>3 DEF NoData
<1>7. AskedFirst /\ AttachedFirst
  BY <1>1, <1>6 DEF AskedFirst, AttachedFirst
<1>8. EchoFirst /\ ClientPlace /\ FirstRead
  BY <1>1, <1>3 DEF EchoFirst, ClientPlace, Answer, FirstRead
<1>9. UpgradeAnswered /\ AnswerFirst /\ HandshakeTakesEcho
  BY <1>1, <1>3 DEF UpgradeAnswered, Early, AnswerFirst, HandshakeTakesEcho
<1> QED
  BY <1>4, <1>5, <1>7, <1>8, <1>9 DEF OpeningIInv

LEMMA OpeningStays ==
  ASSUME OpeningIInv, UNCHANGED allVars
  PROVE  OpeningIInv'
<1>1. UNCHANGED <<vars, openingVars>>
  BY DEF allVars
<1>2. UNCHANGED <<reader, writer, peer, outgoing, trans, fwd, attached>>
  BY <1>1 DEF vars, linkVars, serverVars
<1>3. OpeningTyped' /\ QueuedIsOutgoing' /\ NothingRead' /\ PoliteWaits'
  BY <1>1, <1>2 DEF OpeningIInv, openingVars, OpeningTyped, QueuedIsOutgoing, NothingRead,
     PoliteWaits, Early
<1>4. AskedFirst' /\ AttachedFirst' /\ EchoFirst'
  BY <1>1, <1>2 DEF OpeningIInv, openingVars, AskedFirst, AttachedFirst, NoData, EchoFirst,
     EchoAhead
<1>5. ClientPlace' /\ FirstRead' /\ UpgradeAnswered'
  BY <1>1, <1>2 DEF OpeningIInv, openingVars, ClientPlace, Answer, FirstRead, UpgradeAnswered,
     Early
<1>6. AnswerFirst' /\ HandshakeTakesEcho'
  BY <1>1, <1>2 DEF OpeningIInv, openingVars, AnswerFirst, HandshakeTakesEcho
<1> QED
  BY <1>3, <1>4, <1>5, <1>6 DEF OpeningIInv

(* The inductive invariant behind the theorems below holds in every reachable
   state. *)
THEOREM OpeningInductive == OpeningSpec => []OpeningIInv
<1>1. IInv /\ IInv' /\ OpeningIInv /\ [OpeningNext]_allVars => OpeningIInv'
  <2> SUFFICES ASSUME IInv, IInv', OpeningIInv, [OpeningNext]_allVars
               PROVE  OpeningIInv'
    OBVIOUS
  <2>1. attached[the] = 1 => attached'[the] = 1
    BY ServerSteps, AttachedStays
  <2>2. CASE Client
    BY <2>2, WritesStep, ReadsStep DEF Client
  <2>3. CASE UNCHANGED allVars
    BY <2>3, OpeningStays
  <2> QED
    BY <2>1, <2>2, <2>3, LostStep, ReaderStep, WriterStep, OpenAcceptStep, OpenForwardStep,
       OpenAppStep DEF OpeningNext
<1> QED
  BY <1>1, OpeningStarts, ServerInvariant, PTL DEF OpeningSpec

-----------------------------------------------------------------------------
(* The properties                                                          *)

(* The 101 is the first thing a program that asked for an upgrade reads, but
   for what an application sent unasked. *)
THEOREM AnswerFirstHolds == OpeningSpec => []AnswerFirst
<1>1. OpeningIInv => AnswerFirst
  BY DEF OpeningIInv
<1> QED
  BY <1>1, OpeningInductive, PTL

(* A handshake succeeds on the echo of the client's own SETTINGS, and fails only
   when an application was quicker. *)
THEOREM HandshakeTakesEchoHolds == OpeningSpec => []HandshakeTakesEcho
<1>1. OpeningIInv => HandshakeTakesEcho
  BY DEF OpeningIInv
<1> QED
  BY <1>1, OpeningInductive, PTL

(* The application hears ATTACHED before any DATA. *)
THEOREM AttachedBeforeDataHolds == OpeningSpec => []AttachedBeforeData
<1>1. OpeningIInv => AttachedBeforeData
  BY DEF OpeningIInv, AttachedFirst, NoData, AttachedBeforeData
<1> QED
  BY <1>1, OpeningInductive, PTL
=============================================================================
