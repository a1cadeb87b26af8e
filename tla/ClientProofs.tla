---------------------------- MODULE ClientProofs ----------------------------
(***************************************************************************)
(* The safety properties of Client and its refinement of Sessions, for any *)
(* channel capacities, any number of sessions and whatever the peer sends. *)
(***************************************************************************)
EXTENDS ClientInv, SequenceTheorems, TLAPS

USE ClientAssumption

LEMMA AppendFacts ==
  ASSUME NEW Elem, NEW s \in Seq(Elem), NEW e \in Elem
  PROVE  /\ Append(s, e) \in Seq(Elem)
         /\ Len(Append(s, e)) = Len(s) + 1
         /\ \A i \in 1..Len(s) : Append(s, e)[i] = s[i]
         /\ Append(s, e)[Len(s) + 1] = e
         /\ Len(s) \in Nat
OBVIOUS

LEMMA TailFacts ==
  ASSUME NEW Elem, NEW s \in Seq(Elem), s # <<>>
  PROVE  /\ Tail(s) \in Seq(Elem)
         /\ Len(Tail(s)) = Len(s) - 1
         /\ \A i \in 1..Len(Tail(s)) : Tail(s)[i] = s[i + 1]
         /\ Head(s) = s[1] /\ Head(s) \in Elem
         /\ Len(s) \in Nat \ {0}
OBVIOUS

LEMMA PrependFacts ==
  ASSUME NEW Elem, NEW p \in Seq(Elem), NEW s \in Seq(Elem), Len(p) = 1
  PROVE  /\ p \o s \in Seq(Elem)
         /\ Len(p \o s) = Len(s) + 1 /\ Len(s) \in Nat
         /\ (p \o s)[1] = p[1]
         /\ \A i \in 1..Len(p \o s) : i # 1 => i - 1 \in 1..Len(s) /\ (p \o s)[i] = s[i - 1]
         /\ \A i \in 1..Len(s) : (p \o s)[i + 1] = s[i] /\ i + 1 \in 1..Len(p \o s)
<1> DEFINE r == p \o s
<1>0. /\ r \in Seq(Elem) /\ Len(r) = Len(p) + Len(s)
      /\ \A i \in 1 .. Len(p) + Len(s) : r[i] = IF i <= Len(p) THEN p[i] ELSE s[i - Len(p)]
  BY ConcatProperties, Zenon
<1> HIDE DEF r
<1>1. /\ r \in Seq(Elem) /\ Len(s) \in Nat /\ Len(r) = Len(s) + 1
      /\ \A i \in 1 .. 1 + Len(s) : r[i] = IF i <= 1 THEN p[i] ELSE s[i - 1]
  BY <1>0
<1>2. r[1] = p[1]
  BY <1>1
<1>3. ASSUME NEW i \in 1..Len(r), i # 1
      PROVE  i - 1 \in 1..Len(s) /\ r[i] = s[i - 1]
  BY <1>1, <1>3
<1>4. ASSUME NEW i \in 1..Len(s)
      PROVE  r[i + 1] = s[i] /\ i + 1 \in 1..Len(r)
  <2>1. i + 1 \in 1..Len(r) /\ i + 1 # 1 /\ (i + 1) - 1 = i
    BY <1>1
  <2> QED
    BY <1>3, <2>1
<1> QED
  BY <1>1, <1>2, <1>3, <1>4 DEF r

-----------------------------------------------------------------------------
(* Types                                                                   *)

\* The parts of TypeOK.
ChannelsOK ==
  /\ incoming \in Seq(Msg) /\ Len(incoming) <= InCap
  /\ outgoing \in Seq(Item) /\ Len(outgoing) <= OutCap

WordsOK ==
  /\ exitLoop \in BOOLEAN
  /\ flags \in SUBSET ClientFlag
  /\ rlocal \in SUBSET ClientFlag /\ wlocal \in SUBSET ClientFlag
  /\ rawToken \in 0..session
  /\ session \in 0..MaxSessions
  /\ mantain = "handshake" => session < MaxSessions

PlacesOK ==
  /\ mantain \in MantainState /\ reader \in ReaderState /\ writer \in WriterState
  /\ main \in {"mantain", "forward", "terminated", "panicked"}
  /\ conn \in {"none", "open", "eof", "reset", "shut"}
  /\ sends \in 0..MaxSends

ForwardOK ==
  /\ forward \in {"recv", "sample", "relay", "done"}
  /\ inHand \in Seq(Msg)
  /\ relay \in {"stop", "pass"}
  /\ told \in Nat
  /\ forward \in {"sample", "relay"} => Len(inHand) = 1

Types == ChannelsOK /\ WordsOK /\ PlacesOK /\ ForwardOK

LEMMA MessageTypes ==
  ASSUME WordsOK, NEW fs \in SUBSET ClientFlag
  PROVE  ChangedMsg(fs) \in Msg /\ FrameMsg \in Msg
<1>1. rawToken \in Nat
  BY DEF WordsOK
<1> QED
  BY <1>1 DEF ChangedMsg, FrameMsg, Msg

LEMMA IncomingTypes ==
  ASSUME ChannelsOK, NEW m \in Msg, Incoming(m), UNCHANGED outgoing
  PROVE  ChannelsOK'
BY AppendFacts DEF ChannelsOK, Incoming

LEMMA OutgoingTypes ==
  ASSUME ChannelsOK, WordsOK, NEW k \in {"write", "stop", "pass"},
         Len(outgoing) < OutCap, outgoing' = Append(outgoing, NewItem(k)),
         UNCHANGED incoming
  PROVE  ChannelsOK'
<1>1. session \in Nat
  BY DEF WordsOK
<1>2. NewItem(k) \in Item
  BY <1>1 DEF NewItem, Item, FlushToCome
<1> QED
  BY <1>2, AppendFacts DEF ChannelsOK

LEMMA PopTypes ==
  ASSUME ChannelsOK, Pop, UNCHANGED incoming
  PROVE  ChannelsOK' /\ Head(outgoing) \in Item
BY TailFacts DEF ChannelsOK, Pop

LEMMA ReceiveTypes ==
  ASSUME ChannelsOK, NEW m, Receive(m), UNCHANGED outgoing
  PROVE  ChannelsOK' /\ m \in Msg
BY TailFacts DEF ChannelsOK, Receive

LEMMA MantainTypes == Types /\ Mantain => Types'
<1> SUFFICES ASSUME Types, Mantain PROVE Types'
  OBVIOUS
<1> USE DEF Types, GoMantain, loopVars, fwdVars, envVars
<1>1. CASE CheckExit \/ Connect \/ Delay \/ HandshakeFails
  <2>1. ChannelsOK' /\ ForwardOK'
    BY <1>1 DEF CheckExit, Connect, Delay, HandshakeFails, ChannelsOK, ForwardOK
  <2>2. WordsOK'
    BY <1>1 DEF CheckExit, Connect, Delay, HandshakeFails, WordsOK
  <2>3. PlacesOK'
    BY <1>1 DEF CheckExit, Connect, Delay, HandshakeFails, PlacesOK, MantainState
  <2> QED
    BY <2>1, <2>2, <2>3
<1>2. CASE HandshakeOk \/ JoinReader \/ JoinWriter \/ Finish
  <2>1. ChannelsOK' /\ ForwardOK'
    BY <1>2 DEF HandshakeOk, JoinReader, JoinWriter, EndSession, Finish, ChannelsOK, ForwardOK
  <2>2. WordsOK'
    <3> USE DEF WordsOK, ClientFlag
    <3>1. CASE HandshakeOk
      BY <3>1 DEF HandshakeOk
    <3>2. CASE JoinReader \/ Finish
      BY <3>2 DEF JoinReader, Finish
    <3>3. CASE JoinWriter
      <4>1. flags' \in SUBSET ClientFlag
        BY <3>3 DEF JoinWriter, EndSession
      <4> QED
        BY <3>3, <4>1 DEF JoinWriter, EndSession
    <3> QED
      BY <1>2, <3>1, <3>2, <3>3
  <2>3. PlacesOK'
    BY <1>2 DEF HandshakeOk, JoinReader, JoinWriter, EndSession, Finish, PlacesOK, MantainState
  <2> QED
    BY <2>1, <2>2, <2>3
<1>3. CASE AnnounceSession \/ StartSession
  <2>1. flags \in SUBSET ClientFlag
    BY DEF WordsOK
  <2>2. ChannelsOK'
    BY <1>3, <2>1, MessageTypes, IncomingTypes DEF AnnounceSession, StartSession
  <2>3. WordsOK' /\ ForwardOK'
    BY <1>3 DEF AnnounceSession, StartSession, WordsOK, ForwardOK
  <2>4. PlacesOK'
    BY <1>3 DEF AnnounceSession, StartSession, PlacesOK, MantainState, ReaderState, WriterState
  <2> QED
    BY <2>2, <2>3, <2>4
<1> QED
  BY <1>1, <1>2, <1>3 DEF Mantain

LEMMA ReaderTypes == Types /\ Reader => Types'
<1> SUFFICES ASSUME Types, Reader PROVE Types'
  OBVIOUS
<1> USE DEF Types, GoReader, fwdVars, envVars
<1>1. flags \in SUBSET ClientFlag /\ rlocal \in SUBSET ClientFlag
  BY DEF WordsOK
<1>2. ChannelsOK'
  <2>1. CASE ReadFrame \/ ReaderSend
    BY <1>1, <2>1, MessageTypes, IncomingTypes DEF ReadFrame, ReaderSend
  <2>2. CASE ReadOversized \/ ReadBreak \/ ReaderLoad \/ ReaderStore \/ ReaderSample
    BY <2>2 DEF ReadOversized, ReadBreak, ReaderLoad, ReaderStore, ReaderSample, ChannelsOK
  <2> QED
    BY <2>1, <2>2 DEF Reader
<1>3. WordsOK' /\ ForwardOK'
  BY DEF Reader, ReadFrame, ReadOversized, ReadBreak, ReaderLoad, ReaderStore,
         ReaderSample, ReaderSend, WordsOK, ForwardOK, ClientFlag
<1>4. PlacesOK'
  BY DEF Reader, ReadFrame, ReadOversized, ReadBreak, ReaderLoad, ReaderStore,
         ReaderSample, ReaderSend, PlacesOK, ReaderState
<1> QED
  BY <1>2, <1>3, <1>4

LEMMA WriterTypes == Types /\ Writer => Types'
<1> SUFFICES ASSUME Types, Writer PROVE Types'
  OBVIOUS
<1> USE DEF Types, GoWriter, fwdVars, envVars
<1>1. wlocal \in SUBSET ClientFlag
  BY DEF WordsOK
<1>2. ChannelsOK'
  <2>1. CASE WriterSend
    BY <1>1, <2>1, MessageTypes, IncomingTypes DEF WriterSend
  <2>2. CASE WriteItem \/ WriteBreak \/ Flush
    BY <2>2, PopTypes DEF WriteItem, WriteBreak, Flush
  <2>3. CASE WriterLoad \/ WriterStore \/ WriterSample
    BY <2>3 DEF WriterLoad, WriterStore, WriterSample, ChannelsOK
  <2> QED
    BY <2>1, <2>2, <2>3 DEF Writer
<1>3. WordsOK' /\ ForwardOK'
  BY DEF Writer, WriteItem, WriteBreak, Flush, WriterLoad, WriterStore,
         WriterSample, WriterSend, WordsOK, ForwardOK, ClientFlag
<1>4. PlacesOK'
  BY DEF Writer, WriteItem, WriteBreak, Flush, WriterLoad, WriterStore,
         WriterSample, WriterSend, PlacesOK, WriterState
<1> QED
  BY <1>2, <1>3, <1>4

LEMMA ForwardTypes == Types /\ Forward => Types'
<1> SUFFICES ASSUME Types, Forward PROVE Types'
  OBVIOUS
<1> USE DEF Types, GoForward, loopVars, envVars
<1>1. ASSUME NEW m, Handle(m) PROVE Types'
  <2>1. ChannelsOK' /\ m \in Msg
    BY <1>1, ReceiveTypes DEF Handle, ForwardMessage, ForwardReadClosed
  <2>2. m.token \in Nat
    BY <2>1 DEF Msg
  <2>3. WordsOK' /\ PlacesOK'
    BY <1>1 DEF Handle, ForwardMessage, ForwardReadClosed, WordsOK, PlacesOK
  <2>4. <<m>> \in Seq(Msg) /\ Len(<<m>>) = 1
    BY <2>1
  <2>5. ForwardOK'
    BY <1>1, <2>2, <2>4 DEF Handle, ForwardMessage, ForwardReadClosed, Deliver, ForwardOK, Receive
  <2> QED
    BY <2>1, <2>3, <2>5
<1>2. CASE SampleFlags
  BY <1>2 DEF SampleFlags, ChannelsOK, WordsOK, PlacesOK, ForwardOK
<1>3. CASE Relay
  <2>1. ChannelsOK'
    BY <1>3, OutgoingTypes DEF Relay, ForwardOK
  <2>2. inHand[1] \in Msg
    <3>1. inHand \in Seq(Msg) /\ Len(inHand) = 1
      BY <1>3, Zenon DEF Relay, ForwardOK
    <3> QED
      BY <3>1
  <2>3. inHand[1].token \in Nat
    BY <2>2 DEF Msg
  <2>4. ForwardOK'
    BY <1>3, <2>3 DEF Relay, Deliver, ForwardOK
  <2>5. WordsOK' /\ PlacesOK'
    BY <1>3 DEF Relay, WordsOK, PlacesOK
  <2> QED
    BY <2>1, <2>4, <2>5
<1> QED
  BY <1>1, <1>2, <1>3 DEF Forward

LEMMA TypesStep == Types /\ [Next]_vars => Types'
<1> SUFFICES ASSUME Types, [Next]_vars PROVE Types'
  OBVIOUS
<1> USE DEF Types, loopVars, fwdVars, envVars
<1>1. CASE Main \/ Shutdown \/ PeerCloses
  <2>1. ChannelsOK' /\ WordsOK' /\ ForwardOK'
    BY <1>1 DEF Main, Shutdown, PeerCloses, ChannelsOK, WordsOK, ForwardOK
  <2>2. PlacesOK'
    BY <1>1 DEF Main, Shutdown, PeerCloses, PlacesOK
  <2> QED
    BY <2>1, <2>2
<1>2. CASE AppSend
  <2>1. ChannelsOK'
    BY <1>2, OutgoingTypes DEF AppSend
  <2>2. WordsOK' /\ PlacesOK' /\ ForwardOK'
    BY <1>2 DEF AppSend, WordsOK, PlacesOK, ForwardOK
  <2> QED
    BY <2>1, <2>2
<1>3. CASE UNCHANGED vars
  BY <1>3 DEF vars, ChannelsOK, WordsOK, PlacesOK, ForwardOK
<1> QED
  BY <1>1, <1>2, <1>3, MantainTypes, ReaderTypes, WriterTypes, ForwardTypes DEF Next

LEMMA TypesInvariant == Spec => []Types
<1>1. ASSUME Init PROVE Types
  <2>1. ChannelsOK
    BY <1>1 DEF Init, ChannelsOK
  <2>2. WordsOK
    <3>1. exitLoop \in BOOLEAN
      BY <1>1, Zenon DEF Init
    <3>2. /\ session = 0 /\ rawToken = 0 /\ mantain = "check"
          /\ flags = {} /\ rlocal = {} /\ wlocal = {}
      BY <1>1 DEF Init
    <3> QED
      BY <3>1, <3>2 DEF WordsOK
  <2>3. PlacesOK /\ ForwardOK
    BY <1>1 DEF Init, PlacesOK, ForwardOK, MantainState, ReaderState, WriterState
  <2> QED
    BY <2>1, <2>2, <2>3 DEF Types
<1> QED
  BY <1>1, TypesStep, PTL DEF Spec

(* Every variable keeps its type, both channels their capacity, and the token
   is that of a session there has been. *)
THEOREM TypeCorrect == Spec => []TypeOK
<1>1. Types => TypeOK
  BY DEF Types, ChannelsOK, WordsOK, PlacesOK, ForwardOK, TypeOK
<1> QED
  BY <1>1, TypesInvariant, PTL

-----------------------------------------------------------------------------
(* The two loops of a session and the flags word                           *)

Loops == CleanStart /\ LoopsAwaited /\ FlagsStored

LEMMA LoopsMantain == Loops /\ Types /\ Mantain => Loops'
<1> SUFFICES ASSUME Loops, Types, Mantain PROVE Loops'
  OBVIOUS
<1> USE DEF Loops, CleanStart, LoopsAwaited, FlagsStored, Live, GoMantain, loopVars,
        fwdVars, envVars, Closed, HasStored
<1>1. CASE CheckExit \/ Connect \/ Delay \/ HandshakeFails
  BY <1>1 DEF CheckExit, Connect, Delay, HandshakeFails
<1>2. CASE HandshakeOk
  BY <1>2 DEF HandshakeOk
<1>3. CASE AnnounceSession \/ StartSession
  BY <1>3 DEF AnnounceSession, StartSession
<1>4. CASE JoinReader
  BY <1>4 DEF JoinReader
<1>5. CASE JoinWriter
  <2>1. /\ mantain = "joinWriter" /\ reader = "done" /\ writer = "done"
        /\ mantain' \in {"check", "finish"} /\ UNCHANGED <<reader, writer, rlocal, wlocal>>
        /\ flags' \subseteq (flags \ {"READ_CLOSED", "WRITE_CLOSED"}) \cup {"RECONNECTED"}
    BY <1>5 DEF JoinWriter, EndSession
  <2> QED
    BY <2>1
<1>6. CASE Finish
  BY <1>6 DEF Finish
<1> QED
  BY <1>1, <1>2, <1>3, <1>4, <1>5, <1>6 DEF Mantain

LEMMA LoopsReader == Loops /\ Types /\ Reader => Loops'
<1> SUFFICES ASSUME Loops, Types, Reader PROVE Loops'
  OBVIOUS
<1> USE DEF Loops, CleanStart, LoopsAwaited, FlagsStored, Live, GoReader,
        fwdVars, envVars, Closed, HasStored
<1>1. CASE ReadFrame \/ ReadOversized \/ ReadBreak
  BY <1>1 DEF ReadFrame, ReadOversized, ReadBreak
<1>2. CASE ReaderLoad
  BY <1>2 DEF ReaderLoad
<1>3. CASE ReaderStore
  BY <1>3 DEF ReaderStore
<1>4. CASE ReaderSample
  BY <1>4 DEF ReaderSample
<1>5. CASE ReaderSend
  BY <1>5 DEF ReaderSend
<1> QED
  BY <1>1, <1>2, <1>3, <1>4, <1>5 DEF Reader

LEMMA LoopsWriter == Loops /\ Types /\ Writer => Loops'
<1> SUFFICES ASSUME Loops, Types, Writer PROVE Loops'
  OBVIOUS
<1> USE DEF Loops, CleanStart, LoopsAwaited, FlagsStored, Live, GoWriter,
        fwdVars, envVars, Closed, HasStored
<1>1. CASE WriteItem \/ WriteBreak \/ Flush
  BY <1>1 DEF WriteItem, WriteBreak, Flush
<1>2. CASE WriterLoad
  BY <1>2 DEF WriterLoad
<1>3. CASE WriterStore
  BY <1>3 DEF WriterStore
<1>4. CASE WriterSample
  BY <1>4 DEF WriterSample
<1>5. CASE WriterSend
  BY <1>5 DEF WriterSend
<1> QED
  BY <1>1, <1>2, <1>3, <1>4, <1>5 DEF Writer

\* No other step touches a loop or the word.
LEMMA ElsewhereQuiet ==
  ASSUME Forward \/ Main \/ Shutdown \/ AppSend \/ PeerCloses \/ UNCHANGED vars
  PROVE  UNCHANGED <<flags, rawToken, mantain, session, reader, writer, rlocal, wlocal>>
<1> USE DEF loopVars, fwdVars, envVars
<1>1. ASSUME Forward
      PROVE  UNCHANGED <<flags, rawToken, mantain, session, reader, writer, rlocal, wlocal>>
  BY <1>1 DEF Forward, Handle, ForwardMessage, ForwardReadClosed, SampleFlags, Relay, GoForward
<1> QED
  BY <1>1 DEF Main, Shutdown, AppSend, PeerCloses, vars

LEMMA LoopsStep == Loops /\ Types /\ [Next]_vars => Loops'
<1> SUFFICES ASSUME Loops, Types, [Next]_vars PROVE Loops'
  OBVIOUS
<1>1. CASE Forward \/ Main \/ Shutdown \/ AppSend \/ PeerCloses \/ UNCHANGED vars
  BY <1>1, ElsewhereQuiet DEF Loops, CleanStart, LoopsAwaited, FlagsStored, Live
<1> QED
  BY <1>1, LoopsMantain, LoopsReader, LoopsWriter DEF Next

-----------------------------------------------------------------------------
(* What is left of the sessions before                                     *)

\* What FlushDropsOld says of an item.
Dropped(item) ==
  /\ item.of \in {session - 1, session}
  /\ ~item.late => item.of = session /\ FlushToCome
  /\ item.of < session => FlushToCome

LEMMA DroppedItems == FlushDropsOld <=> \A i \in 1..Len(outgoing) : Dropped(outgoing[i])
BY DEF FlushDropsOld, Dropped

LEMMA FlushStep == FlushDropsOld /\ Loops /\ Types /\ [Next]_vars => FlushDropsOld'
<1> SUFFICES ASSUME FlushDropsOld, Loops, Types, [Next]_vars PROVE FlushDropsOld'
  OBVIOUS
<1> USE DEF loopVars, fwdVars, envVars
<1>0. /\ outgoing \in Seq(Item) /\ session \in Nat
      /\ \A i \in 1..Len(outgoing) : outgoing[i] \in Item /\ Dropped(outgoing[i])
  BY DroppedItems DEF Types, ChannelsOK, WordsOK
\* The channel is as it was, and so is what the ghosts look at.
<1>1. ASSUME UNCHANGED <<outgoing, session>>, FlushToCome => FlushToCome' PROVE FlushDropsOld'
  BY <1>0, <1>1 DEF FlushDropsOld, Dropped
<1>2. ASSUME Mantain PROVE FlushDropsOld'
  <2>1. UNCHANGED outgoing
    BY <1>2 DEF Mantain, CheckExit, Connect, Delay, HandshakeOk, HandshakeFails,
       AnnounceSession, StartSession, JoinReader, JoinWriter, EndSession, Finish, GoMantain
  <2>2. CASE HandshakeOk
    <3>1. writer = "done" /\ ~FlushToCome
      BY <2>2 DEF Loops, CleanStart, HandshakeOk, FlushToCome
    <3>2. session' = session + 1 /\ FlushToCome'
      BY <2>2 DEF HandshakeOk, GoMantain, FlushToCome
    <3>3. \A i \in 1..Len(outgoing) : outgoing[i].late /\ outgoing[i].of = session
      <4> SUFFICES ASSUME NEW i \in 1..Len(outgoing)
                   PROVE  outgoing[i].late /\ outgoing[i].of = session
        OBVIOUS
      <4>1. outgoing[i].late
        BY <1>0, <3>1, Zenon DEF Dropped
      <4>2. outgoing[i].of = session
        BY <1>0, <3>1 DEF Dropped
      <4> QED
        BY <4>1, <4>2
    <3>4. session' - 1 = session
      BY <1>0, <3>2
    <3>5. \A i \in 1..Len(outgoing) : outgoing[i].of \in {session' - 1, session'}
      BY <3>3, <3>4, Zenon
    <3> QED
      BY <2>1, <3>2, <3>3, <3>5, Zenon DEF FlushDropsOld
  <2>3. CASE ~HandshakeOk
    <3>1. UNCHANGED session /\ (FlushToCome => FlushToCome')
      BY <1>2, <2>3 DEF Mantain, CheckExit, Connect, Delay, HandshakeFails,
         AnnounceSession, StartSession, JoinReader, JoinWriter, EndSession, Finish, GoMantain,
         FlushToCome
    <3> QED
      BY <1>1, <2>1, <3>1
  <2> QED
    BY <2>2, <2>3
<1>3. ASSUME Reader PROVE FlushDropsOld'
  <2>1. UNCHANGED <<outgoing, session, writer, mantain>>
    BY <1>3 DEF Reader, ReadFrame, ReadOversized, ReadBreak, ReaderLoad, ReaderStore,
       ReaderSample, ReaderSend, GoReader
  <2> QED
    BY <1>1, <2>1 DEF FlushToCome
<1>4. ASSUME Writer PROVE FlushDropsOld'
  <2>1. UNCHANGED <<session, mantain>>
    BY <1>4 DEF Writer, WriteItem, WriteBreak, Flush, WriterLoad, WriterStore,
       WriterSample, WriterSend, GoWriter
  <2>2. CASE WriteItem \/ WriteBreak \/ Flush
    <3>1. Pop /\ FlushToCome'
      BY <2>2 DEF WriteItem, WriteBreak, Flush, GoWriter, FlushToCome
    <3>2. /\ Len(outgoing') = Len(outgoing) - 1
          /\ \A i \in 1..Len(outgoing') : outgoing'[i] = outgoing[i + 1]
      BY <1>0, <3>1, TailFacts DEF Pop
    <3>3. \A i \in 1..Len(outgoing') : i + 1 \in 1..Len(outgoing)
      BY <1>0, <3>2
    <3> QED
      BY <1>0, <2>1, <3>1, <3>2, <3>3 DEF FlushDropsOld, Dropped
  <2>3. CASE WriterLoad
    BY <2>3 DEF WriterLoad, FlushDropsOld
  <2>4. CASE WriterStore \/ WriterSample \/ WriterSend
    <3>1. /\ writer \notin {"recv", "flush"} /\ writer' \notin {"recv", "flush"}
          /\ UNCHANGED outgoing
      BY <2>4 DEF WriterStore, WriterSample, WriterSend, GoWriter
    <3> QED
      BY <1>1, <2>1, <3>1 DEF FlushToCome
  <2> QED
    BY <1>4, <2>2, <2>3, <2>4 DEF Writer
<1>5. ASSUME NEW k \in {"write", "stop", "pass"}, outgoing' = Append(outgoing, NewItem(k)),
             UNCHANGED <<session, writer, mantain>>
      PROVE  FlushDropsOld'
  <2>1. NewItem(k) \in Item
    BY <1>0 DEF NewItem, Item, FlushToCome
  <2>2. NewItem(k).of = session /\ (NewItem(k).late <=> ~FlushToCome)
    BY DEF NewItem
  <2>3. Dropped(NewItem(k))
    BY <1>0, <2>2 DEF Dropped
  <2>4. FlushToCome' <=> FlushToCome
    BY <1>5 DEF FlushToCome
  <2>5. \A i \in 1..Len(outgoing') : Dropped(outgoing'[i])
    BY <1>0, <1>5, <2>1, <2>3, AppendFacts
  <2> QED
    BY <1>5, <2>4, <2>5 DEF FlushDropsOld, Dropped
<1>6. ASSUME Forward PROVE FlushDropsOld'
  <2>1. CASE Relay
    <3>1. relay \in {"write", "stop", "pass"}
      BY DEF Types, ForwardOK
    <3> QED
      BY <1>5, <2>1, <3>1 DEF Relay, GoForward
  <2>2. CASE ~Relay
    <3>1. UNCHANGED <<outgoing, session, writer, mantain>>
      BY <1>6, <2>2 DEF Forward, Handle, ForwardMessage, ForwardReadClosed, SampleFlags,
         GoForward
    <3> QED
      BY <1>1, <3>1 DEF FlushToCome
  <2> QED
    BY <2>1, <2>2
<1>7. ASSUME AppSend PROVE FlushDropsOld'
  BY <1>5, <1>7 DEF AppSend
<1>8. ASSUME Main \/ Shutdown \/ PeerCloses \/ UNCHANGED vars PROVE FlushDropsOld'
  <2>1. UNCHANGED <<outgoing, session, writer, mantain>>
    BY <1>8 DEF Main, Shutdown, PeerCloses, vars
  <2> QED
    BY <1>1, <2>1 DEF FlushToCome
<1> QED
  BY <1>2, <1>3, <1>4, <1>6, <1>7, <1>8 DEF Next

-----------------------------------------------------------------------------
(* The order of the incoming channel                                       *)

\* A report of a loop never looks newly handshaked; the announcement does.
LEMMA ReportsNotNew ==
  ASSUME NEW m, \/ m.kind = "frame"
                \/ m.flags \cap Closed # {}
                \/ ToRelay(m)
  PROVE  ~IsNewlyHandshaked(m)
BY DEF IsNewlyHandshaked, ToRelay, Closed

LEMMA AnnouncementNew ==
  ASSUME Types, Loops, mantain = "announce"
  PROVE  IsNewlyHandshaked(ChangedMsg(flags))
<1>1. flags \subseteq {"HANDSHAKED", "RECONNECTED"} /\ "HANDSHAKED" \in flags
  BY DEF Types, WordsOK, ClientFlag, Loops, CleanStart, FlagsStored
<1>2. flags \in {{"HANDSHAKED"}, {"HANDSHAKED", "RECONNECTED"}}
  BY <1>1
<1> QED
  BY <1>2 DEF IsNewlyHandshaked, ChangedMsg

LEMMA TokensAreNat ==
  ASSUME NEW q \in Seq(Msg)
  PROVE  \A i \in 1..Len(q) : q[i].token \in Nat
<1> TAKE i \in 1..Len(q)
<1>1. q[i] \in Msg
  OBVIOUS
<1> QED
  BY <1>1 DEF Msg

\* A message of the session announced last, behind everything else.
LEMMA OrderReport ==
  ASSUME NEW q \in Seq(Msg), NEW t \in Nat, NEW o \in Nat, InOrder(q, t, o),
         NEW m \in Msg, ~IsNewlyHandshaked(m), m.token = o
  PROVE  InOrder(Append(q, m), t, o)
<1> DEFINE r == Append(q, m)
<1>1. /\ Len(r) = Len(q) + 1 /\ Len(q) \in Nat
      /\ \A i \in 1..Len(q) : r[i] = q[i]
      /\ r[Len(q) + 1] = m
  BY AppendFacts
<1>2. \A i \in 1..Len(q) : q[i].token \in Nat
  BY TokensAreNat
<1> HIDE DEF r
<1>3. /\ t <= o
      /\ \A i \in 1..Len(r) : t <= r[i].token /\ r[i].token <= o
      /\ \A i \in 1..Len(r) : IsNewlyHandshaked(r[i]) => t < r[i].token
  <2>1. \A i \in 1..Len(r) : i \in 1..Len(q) \/ i = Len(q) + 1
    BY <1>1
  <2> QED
    BY <1>1, <1>2, <2>1 DEF InOrder
<1>4. ASSUME NEW i \in 1..Len(r), NEW j \in 1..Len(r), i < j
      PROVE  /\ r[i].token <= r[j].token
             /\ IsNewlyHandshaked(r[j]) => r[i].token < r[j].token
  <2>1. i \in 1..Len(q) /\ r[i] = q[i]
    BY <1>1, <1>4
  <2>2. CASE j \in 1..Len(q)
    BY <1>1, <1>4, <2>1, <2>2 DEF InOrder
  <2>3. CASE j = Len(q) + 1
    BY <1>1, <1>2, <2>1, <2>3 DEF InOrder
  <2> QED
    BY <1>1, <2>2, <2>3
<1>5. ASSUME NEW i \in 1..Len(r), t < r[i].token
      PROVE  \E j \in 1..i : IsNewlyHandshaked(r[j]) /\ r[j].token = r[i].token
  <2>1. CASE i \in 1..Len(q)
    <3>1. PICK j \in 1..i : IsNewlyHandshaked(q[j]) /\ q[j].token = q[i].token
      BY <1>1, <1>5, <2>1 DEF InOrder
    <3> QED
      BY <1>1, <2>1, <3>1
  <2>2. CASE i = Len(q) + 1
    <3>1. o \in t + 1..o
      BY <1>1, <1>5, <2>2
    <3>2. PICK j \in 1..Len(q) : IsNewlyHandshaked(q[j]) /\ q[j].token = o
      BY <3>1 DEF InOrder
    <3> QED
      BY <1>1, <2>2, <3>2
  <2> QED
    BY <1>1, <2>1, <2>2
<1>6. ASSUME NEW k \in t + 1..o
      PROVE  \E i \in 1..Len(r) : IsNewlyHandshaked(r[i]) /\ r[i].token = k
  <2>1. PICK i \in 1..Len(q) : IsNewlyHandshaked(q[i]) /\ q[i].token = k
    BY DEF InOrder
  <2> QED
    BY <1>1, <2>1
<1>7. InOrder(r, t, o)
  BY <1>3, <1>4, <1>5, <1>6 DEF InOrder
<1> QED
  BY <1>7 DEF r

\* The announcement of the next session.
LEMMA OrderAnnounce ==
  ASSUME NEW q \in Seq(Msg), NEW t \in Nat, NEW o \in Nat, InOrder(q, t, o),
         NEW m \in Msg, IsNewlyHandshaked(m), m.token = o + 1
  PROVE  InOrder(Append(q, m), t, o + 1)
<1> DEFINE r == Append(q, m)
<1>1. /\ Len(r) = Len(q) + 1 /\ Len(q) \in Nat
      /\ \A i \in 1..Len(q) : r[i] = q[i]
      /\ r[Len(q) + 1] = m
  BY AppendFacts
<1>2. \A i \in 1..Len(q) : q[i].token \in Nat
  BY TokensAreNat
<1> HIDE DEF r
<1>3. /\ t <= o + 1
      /\ \A i \in 1..Len(r) : t <= r[i].token /\ r[i].token <= o + 1
      /\ \A i \in 1..Len(r) : IsNewlyHandshaked(r[i]) => t < r[i].token
  <2>1. t <= o
    BY DEF InOrder
  <2>2. ASSUME NEW i \in 1..Len(r)
        PROVE  /\ t <= r[i].token /\ r[i].token <= o + 1
               /\ IsNewlyHandshaked(r[i]) => t < r[i].token
    <3>1. CASE i \in 1..Len(q)
      <4>1. /\ t <= q[i].token /\ q[i].token <= o
            /\ IsNewlyHandshaked(q[i]) => t < q[i].token
        BY <3>1 DEF InOrder
      <4> QED
        BY <1>1, <1>2, <3>1, <4>1
    <3>2. CASE i = Len(q) + 1
      BY <1>1, <2>1, <3>2
    <3> QED
      BY <1>1, <3>1, <3>2
  <2> QED
    BY <2>1, <2>2
<1>4. ASSUME NEW i \in 1..Len(r), NEW j \in 1..Len(r), i < j
      PROVE  /\ r[i].token <= r[j].token
             /\ IsNewlyHandshaked(r[j]) => r[i].token < r[j].token
  <2>1. i \in 1..Len(q) /\ r[i] = q[i]
    BY <1>1, <1>4
  <2>2. CASE j \in 1..Len(q)
    BY <1>1, <1>4, <2>1, <2>2 DEF InOrder
  <2>3. CASE j = Len(q) + 1
    BY <1>1, <1>2, <2>1, <2>3 DEF InOrder
  <2> QED
    BY <1>1, <2>2, <2>3
<1>5. ASSUME NEW i \in 1..Len(r), t < r[i].token
      PROVE  \E j \in 1..i : IsNewlyHandshaked(r[j]) /\ r[j].token = r[i].token
  <2>1. CASE i \in 1..Len(q)
    <3>1. PICK j \in 1..i : IsNewlyHandshaked(q[j]) /\ q[j].token = q[i].token
      BY <1>1, <1>5, <2>1 DEF InOrder
    <3> QED
      BY <1>1, <2>1, <3>1
  <2> QED
    BY <1>1, <2>1
<1>6. ASSUME NEW k \in t + 1..o + 1
      PROVE  \E i \in 1..Len(r) : IsNewlyHandshaked(r[i]) /\ r[i].token = k
  <2>1. CASE k \in t + 1..o
    <3>1. PICK i \in 1..Len(q) : IsNewlyHandshaked(q[i]) /\ q[i].token = k
      BY <2>1 DEF InOrder
    <3> QED
      BY <1>1, <3>1
  <2> QED
    BY <1>1, <2>1
<1>7. InOrder(r, t, o + 1)
  BY <1>3, <1>4, <1>5, <1>6 DEF InOrder
<1> QED
  BY <1>7 DEF r

\* The oldest message opens the next session, or belongs to the one told last.
LEMMA OrderTake ==
  ASSUME NEW q \in Seq(Msg), NEW t \in Nat, NEW o \in Nat, InOrder(q, t, o), q # <<>>
  PROVE  /\ IsNewlyHandshaked(q[1]) => q[1].token = t + 1 /\ t + 1 <= o
         /\ ~IsNewlyHandshaked(q[1]) => q[1].token = t
         /\ InOrder(Tail(q), q[1].token, o)
<1> DEFINE r == Tail(q)
<1>1. /\ Len(r) = Len(q) - 1 /\ Len(q) \in Nat \ {0}
      /\ \A i \in 1..Len(r) : r[i] = q[i + 1]
  BY TailFacts
<1>2. \A i \in 1..Len(q) : q[i].token \in Nat
  BY TokensAreNat
<1> HIDE DEF r
<1>3. ASSUME IsNewlyHandshaked(q[1])
      PROVE  q[1].token = t + 1 /\ t + 1 <= o
  <2>1. t < q[1].token /\ q[1].token <= o
    BY <1>1, <1>3 DEF InOrder
  <2>2. t + 1 \in t + 1..o
    BY <1>1, <1>2, <2>1
  <2>3. PICK i \in 1..Len(q) : IsNewlyHandshaked(q[i]) /\ q[i].token = t + 1
    BY <2>2 DEF InOrder
  <2>4. i = 1
    BY <1>1, <1>2, <2>1, <2>3 DEF InOrder
  <2> QED
    BY <2>2, <2>3, <2>4
<1>4. ASSUME ~IsNewlyHandshaked(q[1])
      PROVE  q[1].token = t
  <2>1. t <= q[1].token
    BY <1>1 DEF InOrder
  <2>2. ~(t < q[1].token)
    BY <1>1, <1>4 DEF InOrder
  <2> QED
    BY <1>1, <1>2, <2>1, <2>2
<1> DEFINE u == q[1].token
<1>5. /\ u \in Nat /\ t <= u
      /\ \A i \in 1..Len(q) : IsNewlyHandshaked(q[i]) /\ u < q[i].token => i # 1
  BY <1>1, <1>2 DEF InOrder
<1> HIDE DEF u
<1>6. ASSUME NEW i \in 1..Len(r)
      PROVE  /\ u <= r[i].token /\ r[i].token <= o
             /\ IsNewlyHandshaked(r[i]) => u < r[i].token
  <2>1. /\ i + 1 \in 1..Len(q) /\ 1 \in 1..Len(q) /\ 1 < i + 1
        /\ r[i] = q[i + 1]
    BY <1>1
  <2> QED
    BY <2>1 DEF InOrder, u
<1>7. ASSUME NEW i \in 1..Len(r), NEW j \in 1..Len(r), i < j
       PROVE  /\ r[i].token <= r[j].token
              /\ IsNewlyHandshaked(r[j]) => r[i].token < r[j].token
  <2>1. /\ i + 1 \in 1..Len(q) /\ j + 1 \in 1..Len(q) /\ i + 1 < j + 1
        /\ r[i] = q[i + 1] /\ r[j] = q[j + 1]
    BY <1>1, <1>7
  <2> QED
    BY <2>1 DEF InOrder
<1>8. u <= o
  BY <1>1 DEF InOrder, u
<1>9. ASSUME NEW i \in 1..Len(r), u < r[i].token
      PROVE  \E j \in 1..i : IsNewlyHandshaked(r[j]) /\ r[j].token = r[i].token
  <2>1. t < q[i + 1].token /\ i + 1 \in 1..Len(q)
    BY <1>1, <1>2, <1>5, <1>9
  <2>2. PICK j \in 1..i + 1 : IsNewlyHandshaked(q[j]) /\ q[j].token = q[i + 1].token
    BY <2>1 DEF InOrder
  <2>3. j # 1
    BY <1>1, <1>5, <1>9, <2>1, <2>2, SMTT(30)
  <2>4. j - 1 \in 1..i /\ r[j - 1] = q[j]
    BY <1>1, <2>3
  <2> QED
    BY <1>1, <2>2, <2>4
<1>10. ASSUME NEW k \in u + 1..o
      PROVE  \E i \in 1..Len(r) : IsNewlyHandshaked(r[i]) /\ r[i].token = k
  <2>1. k \in t + 1..o
    BY <1>5
  <2>2. PICK i \in 1..Len(q) : IsNewlyHandshaked(q[i]) /\ q[i].token = k
    BY <2>1 DEF InOrder
  <2>3. u < q[i].token
    BY <1>5, <2>2
  <2>4. i # 1
    BY <1>5, <2>2, <2>3
  <2>5. i - 1 \in 1..Len(r) /\ r[i - 1] = q[i]
    BY <1>1, <2>4
  <2> QED
    BY <2>2, <2>5
<1>11. InOrder(r, u, o)
  BY <1>6, <1>7, <1>8, <1>9, <1>10 DEF InOrder
<1> QED
  BY <1>3, <1>4, <1>11 DEF r, u

\* Every sender of the channel reports under the session announced last.
LEMMA SendersOrder ==
  ASSUME IncomingInOrder, Loops, Types, Live, mantain # "announce",
         NEW m \in Msg, m.token = rawToken, ~IsNewlyHandshaked(m),
         Incoming(m), UNCHANGED <<session, told>>, mantain' # "announce"
  PROVE  IncomingInOrder'
<1>1. /\ incoming \in Seq(Msg) /\ told \in Nat /\ session \in Nat
      /\ rawToken = session /\ Opened = session /\ Opened' = session
  BY DEF Types, ChannelsOK, WordsOK, ForwardOK, Loops, LoopsAwaited, Opened
<1>2. InOrder(Append(incoming, m), told, session)
  BY <1>1, OrderReport DEF IncomingInOrder
<1> QED
  BY <1>1, <1>2 DEF IncomingInOrder, Incoming

LEMMA OrderMantain ==
  ASSUME IncomingInOrder, Loops, Types, Mantain
  PROVE  IncomingInOrder'
<1>0. UNCHANGED told
  BY DEF Mantain, CheckExit, Connect, Delay, HandshakeOk, HandshakeFails, AnnounceSession,
     StartSession, JoinReader, JoinWriter, EndSession, Finish, GoMantain, fwdVars
<1>1. flags \in SUBSET ClientFlag /\ session \in Nat /\ told \in Nat /\ incoming \in Seq(Msg)
  BY DEF Types, ChannelsOK, WordsOK, ForwardOK
<1>2. CASE AnnounceSession
  <2>1. /\ ChangedMsg(flags) \in Msg /\ IsNewlyHandshaked(ChangedMsg(flags))
    BY <1>1, <1>2, MessageTypes, AnnouncementNew DEF Types, AnnounceSession
  <2>2. ChangedMsg(flags).token = session /\ session # 0
    <3>1. rawToken = session
      BY <1>2 DEF AnnounceSession, Loops, LoopsAwaited, Live
    <3>2. told <= session - 1
      BY <1>2 DEF AnnounceSession, IncomingInOrder, InOrder, Opened
    <3> QED
      BY <1>1, <3>1, <3>2 DEF ChangedMsg
  <2>3. Opened = session - 1 /\ Opened' = session
    BY <1>2 DEF AnnounceSession, Opened, GoMantain
  <2>4. InOrder(Append(incoming, ChangedMsg(flags)), told, (session - 1) + 1)
    <3>1. session - 1 \in Nat /\ InOrder(incoming, told, session - 1)
      BY <1>1, <2>2, <2>3 DEF IncomingInOrder
    <3>2. ChangedMsg(flags).token = (session - 1) + 1
      BY <1>1, <2>2
    <3> QED
      BY <1>1, <2>1, <3>1, <3>2, OrderAnnounce
  <2>5. (session - 1) + 1 = session
    BY <1>1
  <2> QED
    BY <1>0, <1>2, <2>3, <2>4, <2>5 DEF AnnounceSession, Incoming, IncomingInOrder
<1>3. CASE StartSession
  <2>1. FrameMsg \in Msg /\ ~IsNewlyHandshaked(FrameMsg) /\ FrameMsg.token = rawToken
    BY <1>1, MessageTypes, ReportsNotNew DEF Types, FrameMsg
  <2>2. Live /\ mantain # "announce" /\ mantain' # "announce" /\ UNCHANGED session
    BY <1>3 DEF StartSession, GoMantain, Live
  <2> QED
    BY <1>0, <1>3, <2>1, <2>2, SendersOrder DEF StartSession
<1>4. CASE HandshakeOk
  <2>1. Opened = session /\ Opened' = session /\ UNCHANGED <<incoming, told>>
    BY <1>0, <1>1, <1>4 DEF HandshakeOk, GoMantain, Opened
  <2> QED
    BY <2>1 DEF IncomingInOrder
<1>5. CASE CheckExit \/ Connect \/ Delay \/ HandshakeFails \/ JoinReader \/ JoinWriter \/ Finish
  <2>1. mantain # "announce" /\ mantain' # "announce" /\ UNCHANGED <<session, incoming, told>>
    BY <1>0, <1>5 DEF CheckExit, Connect, Delay, HandshakeFails, JoinReader, JoinWriter,
       EndSession, Finish, GoMantain
  <2> QED
    BY <2>1 DEF IncomingInOrder, Opened
<1> QED
  BY <1>2, <1>3, <1>4, <1>5 DEF Mantain

LEMMA OrderLoops ==
  ASSUME IncomingInOrder, Loops, Types, Reader \/ Writer
  PROVE  IncomingInOrder'
<1>0. UNCHANGED <<told, session, mantain>>
  BY DEF Reader, ReadFrame, ReadOversized, ReadBreak, ReaderLoad, ReaderStore, ReaderSample,
     ReaderSend, GoReader, Writer, WriteItem, WriteBreak, Flush, WriterLoad, WriterStore,
     WriterSample, WriterSend, GoWriter, fwdVars
<1>1. rlocal \in SUBSET ClientFlag /\ wlocal \in SUBSET ClientFlag
  BY DEF Types, WordsOK
<1>2. CASE ReadFrame \/ ReaderSend \/ WriterSend
  <2>1. Live /\ mantain # "announce"
    BY <1>2 DEF ReadFrame, ReaderSend, WriterSend, Live, Loops, CleanStart
  <2>2. /\ FrameMsg \in Msg /\ ~IsNewlyHandshaked(FrameMsg) /\ FrameMsg.token = rawToken
        /\ ChangedMsg(rlocal) \in Msg /\ ChangedMsg(rlocal).token = rawToken
        /\ ChangedMsg(wlocal) \in Msg /\ ChangedMsg(wlocal).token = rawToken
    BY <1>1, MessageTypes, ReportsNotNew DEF Types, FrameMsg, ChangedMsg
  <2>3. /\ reader = "send" => ~IsNewlyHandshaked(ChangedMsg(rlocal))
        /\ writer = "send" => ~IsNewlyHandshaked(ChangedMsg(wlocal))
    BY ReportsNotNew DEF Loops, FlagsStored, ChangedMsg
  <2>4. CASE ReadFrame
    BY <1>0, <2>1, <2>2, <2>4, SendersOrder DEF ReadFrame
  <2>5. CASE ReaderSend
    BY <1>0, <2>1, <2>2, <2>3, <2>5, SendersOrder DEF ReaderSend
  <2>6. CASE WriterSend
    BY <1>0, <2>1, <2>2, <2>3, <2>6, SendersOrder DEF WriterSend
  <2> QED
    BY <1>2, <2>4, <2>5, <2>6
<1>3. CASE ~(ReadFrame \/ ReaderSend \/ WriterSend)
  <2>1. UNCHANGED incoming
    BY <1>3 DEF Reader, ReadOversized, ReadBreak, ReaderLoad, ReaderStore, ReaderSample,
       Writer, WriteItem, WriteBreak, Flush, WriterLoad, WriterStore, WriterSample
  <2> QED
    BY <1>0, <2>1 DEF IncomingInOrder, Opened
<1> QED
  BY <1>2, <1>3

LEMMA OrderForward ==
  ASSUME IncomingInOrder, RelayOfTold, Types, Forward
  PROVE  IncomingInOrder' /\ RelayOfTold'
<1>0. Opened' = Opened
  BY ElsewhereQuiet DEF Opened
<1>1. ASSUME NEW m, Handle(m)
      PROVE  IncomingInOrder' /\ RelayOfTold'
  <2>1. /\ forward = "recv" /\ inHand = <<>> /\ incoming # <<>>
        /\ m = incoming[1] /\ incoming' = Tail(incoming)
    <3>1. Receive(m)
      BY <1>1 DEF Handle, ForwardMessage, ForwardReadClosed
    <3>2. incoming \in Seq(Msg)
      BY DEF Types, ChannelsOK
    <3> QED
      BY <3>1, <3>2, TailFacts DEF Receive, RelayOfTold
  <2>2. told \in Nat /\ Opened \in Nat /\ incoming \in Seq(Msg)
    <3>1. told \in Nat /\ session \in Nat /\ incoming \in Seq(Msg)
      BY DEF Types, ChannelsOK, WordsOK, ForwardOK
    <3>2. Opened \in Int /\ told <= Opened
      BY <3>1 DEF Opened, IncomingInOrder, InOrder
    <3> QED
      BY <3>1, <3>2
  <2>3. /\ ~IsNewlyHandshaked(m) => m.token = told
        /\ InOrder(Tail(incoming), m.token, Opened)
    BY <2>1, <2>2, OrderTake DEF IncomingInOrder
  <2>4. CASE ForwardMessage(m)
    <3>1. told' = m.token
      <4>1. ForwardBreaks(m) => ~IsNewlyHandshaked(m)
        BY DEF ForwardBreaks, IsNewlyHandshaked
      <4> QED
        BY <2>3, <2>4, <4>1 DEF ForwardMessage, Deliver
    <3>2. forward' \in {"recv", "done"} /\ inHand' = <<>>
      BY <2>1, <2>4 DEF ForwardMessage, GoForward
    <3> QED
      BY <1>0, <2>1, <2>3, <3>1, <3>2 DEF IncomingInOrder, RelayOfTold
  <2>5. CASE ForwardReadClosed(m)
    <3>1. ~IsNewlyHandshaked(m)
      BY <2>5, ReportsNotNew DEF ForwardReadClosed
    <3>2. told' = told /\ m.token = told /\ forward' = "sample" /\ inHand' = <<m>> /\ ToRelay(m)
      BY <2>3, <2>5, <3>1 DEF ForwardReadClosed, GoForward
    <3>3. IncomingInOrder'
      BY <1>0, <2>1, <2>3, <3>2 DEF IncomingInOrder
    <3> QED
      BY <3>2, <3>3 DEF RelayOfTold
  <2> QED
    BY <1>1, <2>4, <2>5 DEF Handle
<1>2. CASE SampleFlags
  BY <1>0, <1>2 DEF SampleFlags, GoForward, IncomingInOrder, RelayOfTold
<1>3. CASE Relay
  <2>1. ~IsNewlyHandshaked(inHand[1])
    BY <1>3, ReportsNotNew DEF Relay, RelayOfTold
  <2>2. told' = told /\ forward' = "recv" /\ inHand' = <<>> /\ incoming' = incoming
    BY <1>3, <2>1 DEF Relay, Deliver, GoForward
  <2> QED
    BY <1>0, <2>2 DEF IncomingInOrder, RelayOfTold
<1> QED
  BY <1>1, <1>2, <1>3 DEF Forward

LEMMA OrderStep ==
  ASSUME IncomingInOrder, RelayOfTold, Loops, Types, [Next]_vars
  PROVE  IncomingInOrder' /\ RelayOfTold'
<1>1. CASE Mantain \/ Reader \/ Writer
  <2>1. UNCHANGED <<forward, inHand, told>>
    BY <1>1 DEF Mantain, CheckExit, Connect, Delay, HandshakeOk, HandshakeFails,
       AnnounceSession, StartSession, JoinReader, JoinWriter, EndSession, Finish, GoMantain,
       Reader, ReadFrame, ReadOversized, ReadBreak, ReaderLoad, ReaderStore, ReaderSample,
       ReaderSend, GoReader, Writer, WriteItem, WriteBreak, Flush, WriterLoad, WriterStore,
       WriterSample, WriterSend, GoWriter, fwdVars
  <2> QED
    BY <1>1, <2>1, OrderMantain, OrderLoops DEF RelayOfTold
<1>2. CASE Forward
  BY <1>2, OrderForward
<1>3. CASE Main \/ Shutdown \/ AppSend \/ PeerCloses \/ UNCHANGED vars
  <2>1. UNCHANGED <<forward, inHand, told, incoming>>
    BY <1>3 DEF Main, Shutdown, AppSend, PeerCloses, vars, fwdVars
  <2>2. Opened' = Opened
    BY <1>3, ElsewhereQuiet DEF Opened
  <2> QED
    BY <2>1, <2>2 DEF IncomingInOrder, RelayOfTold
<1> QED
  BY <1>1, <1>2, <1>3 DEF Next

-----------------------------------------------------------------------------
(* The inductive invariant                                                 *)

LEMMA InvStep == IInv /\ Types /\ [Next]_vars => IInv'
BY LoopsStep, FlushStep, OrderStep DEF IInv, Loops

(* The inductive invariant behind the theorems below holds in every reachable
   state. *)
THEOREM Inductive == Spec => []IInv
<1>1. ASSUME Init PROVE IInv
  <2>1. CleanStart /\ LoopsAwaited /\ FlagsStored
    BY <1>1 DEF Init, CleanStart, LoopsAwaited, FlagsStored, Live
  <2>2. FlushDropsOld /\ RelayOfTold
    BY <1>1 DEF Init, FlushDropsOld, RelayOfTold
  <2>3. IncomingInOrder
    <3>1. incoming = <<>> /\ told = 0 /\ Opened = 0
      BY <1>1 DEF Init, Opened
    <3>2. Len(incoming) = 0
      BY <3>1
    <3> QED
      BY <3>1, <3>2 DEF IncomingInOrder, InOrder
  <2> QED
    BY <2>1, <2>2, <2>3 DEF IInv
<1> QED
  BY <1>1, TypesInvariant, InvStep, PTL DEF Spec

(* No closed flag of a session survives into the next, and no loop of it. *)
THEOREM CleanStartHolds == Spec => []CleanStart
<1>1. IInv => CleanStart
  BY DEF IInv
<1> QED
  BY <1>1, Inductive, PTL

(* What was queued for a session is not written in a later one. *)
THEOREM FlushDropsOldHolds == Spec => []FlushDropsOld
<1>1. IInv => FlushDropsOld
  BY DEF IInv
<1> QED
  BY <1>1, Inductive, PTL

\* What is being relayed is ahead of what is in the channel.
LEMMA PendingInOrder ==
  ASSUME IInv, Types
  PROVE  InOrder(Pending, told, Opened) /\ Pending \in Seq(Msg)
<1>1. /\ incoming \in Seq(Msg) /\ inHand \in Seq(Msg)
      /\ InOrder(incoming, told, Opened) /\ told \in Nat
  BY DEF IInv, IncomingInOrder, Types, ChannelsOK, ForwardOK
<1>2. CASE inHand = <<>>
  BY <1>1, <1>2 DEF Pending
<1>3. CASE inHand # <<>>
  <2> DEFINE m == inHand[1]
             r == Pending
  <2>1. Len(inHand) = 1 /\ ~IsNewlyHandshaked(m) /\ m.token = told
    BY <1>3, ReportsNotNew DEF IInv, RelayOfTold
  <2>2. /\ r \in Seq(Msg) /\ Len(r) = Len(incoming) + 1 /\ Len(incoming) \in Nat
        /\ r[1] = m
        /\ \A i \in 1..Len(r) : i # 1 => i - 1 \in 1..Len(incoming) /\ r[i] = incoming[i - 1]
        /\ \A i \in 1..Len(incoming) : r[i + 1] = incoming[i] /\ i + 1 \in 1..Len(r)
    BY <1>1, <2>1, PrependFacts DEF Pending
  <2> HIDE DEF m, r
  <2>3. told <= Opened /\ Opened \in Int
    BY <1>1 DEF InOrder, Opened, Types, WordsOK
  <2>4. ASSUME NEW i \in 1..Len(r)
        PROVE  /\ told <= r[i].token /\ r[i].token <= Opened
               /\ IsNewlyHandshaked(r[i]) => told < r[i].token
    <3>1. CASE i = 1
      BY <1>1, <2>1, <2>2, <2>3, <3>1
    <3>2. CASE i # 1
      BY <1>1, <2>2, <3>2 DEF InOrder
    <3> QED
      BY <3>1, <3>2
  <2>5. ASSUME NEW i \in 1..Len(r), NEW j \in 1..Len(r), i < j
        PROVE  /\ r[i].token <= r[j].token
               /\ IsNewlyHandshaked(r[j]) => r[i].token < r[j].token
    <3>1. j # 1
      BY <2>2, <2>5
    <3>2. CASE i = 1
      BY <2>1, <2>2, <2>4, <3>2
    <3>3. CASE i # 1
      <4>1. /\ i - 1 \in 1..Len(incoming) /\ j - 1 \in 1..Len(incoming) /\ i - 1 < j - 1
            /\ r[i] = incoming[i - 1] /\ r[j] = incoming[j - 1]
        BY <2>2, <2>5, <3>1, <3>3
      <4> QED
        BY <1>1, <4>1 DEF InOrder
    <3> QED
      BY <3>2, <3>3
  <2>6. ASSUME NEW i \in 1..Len(r), told < r[i].token
        PROVE  \E j \in 1..i : IsNewlyHandshaked(r[j]) /\ r[j].token = r[i].token
    <3>1. i # 1
      BY <1>1, <2>1, <2>2, <2>6
    <3>2. PICK j \in 1..i - 1 : /\ IsNewlyHandshaked(incoming[j])
                                /\ incoming[j].token = incoming[i - 1].token
      BY <1>1, <2>2, <2>6, <3>1 DEF InOrder
    <3>3. j + 1 \in 1..i /\ r[j + 1] = incoming[j]
      BY <2>2, <3>1, <3>2
    <3> QED
      BY <2>2, <3>1, <3>2, <3>3
  <2>7. ASSUME NEW k \in told + 1..Opened
        PROVE  \E i \in 1..Len(r) : IsNewlyHandshaked(r[i]) /\ r[i].token = k
    <3>1. PICK i \in 1..Len(incoming) : /\ IsNewlyHandshaked(incoming[i])
                                        /\ incoming[i].token = k
      BY <1>1 DEF InOrder
    <3> QED
      BY <2>2, <3>1
  <2>8. InOrder(r, told, Opened)
    BY <2>3, <2>4, <2>5, <2>6, <2>7 DEF InOrder
  <2> QED
    BY <2>2, <2>8 DEF r
<1> QED
  BY <1>2, <1>3

\* The latest opening at or before message i is the one of its session.
LEMMA LatestOpening ==
  ASSUME NEW q \in Seq(Msg), NEW t \in Nat, NEW o, InOrder(q, t, o), NEW i \in 1..Len(q)
  PROVE  LET earlier == {j \in 1..i : IsNewlyHandshaked(q[j])}
         IN  IF earlier = {} THEN q[i].token = t
             ELSE LET j == CHOOSE j \in earlier : \A k \in earlier : k <= j
                  IN  q[i].token = q[j].token
<1> DEFINE earlier == {j \in 1..i : IsNewlyHandshaked(q[j])}
<1>1. \A j \in 1..Len(q) : q[j].token \in Nat
  BY TokensAreNat
<1>2. \A j \in 1..i : j \in 1..Len(q) /\ j \in Nat
  OBVIOUS
<1>3. CASE earlier = {}
  <2>1. ~(t < q[i].token)
    BY <1>3 DEF InOrder
  <2>2. t <= q[i].token
    BY DEF InOrder
  <2> QED
    BY <1>1, <1>3, <2>1, <2>2
<1>4. CASE earlier # {}
  <2>1. PICK e \in earlier : TRUE
    BY <1>4
  <2>2. t < q[i].token
    <3>1. t < q[e].token
      BY <1>2, <2>1 DEF InOrder
    <3>2. q[e].token <= q[i].token
      <4>1. e = i \/ e < i
        BY <1>2, <2>1
      <4> QED
        BY <1>1, <1>2, <2>1, <4>1 DEF InOrder
    <3> QED
      BY <1>1, <1>2, <2>1, <3>1, <3>2
  <2>3. PICK n \in 1..i : IsNewlyHandshaked(q[n]) /\ q[n].token = q[i].token
    BY <2>2 DEF InOrder
  <2>4. n \in earlier /\ \A k \in earlier : k <= n
    <3>1. SUFFICES ASSUME NEW k \in earlier, n < k PROVE FALSE
      BY <1>2, <2>3
    <3>2. q[n].token < q[k].token
      BY <1>2, <2>3, <3>1 DEF InOrder
    <3>3. q[k].token <= q[i].token
      <4>1. k = i \/ k < i
        BY <1>2, <3>1
      <4> QED
        BY <1>1, <1>2, <3>1, <4>1 DEF InOrder
    <3> QED
      BY <1>1, <1>2, <2>3, <3>1, <3>2, <3>3
  <2> DEFINE j == CHOOSE j \in earlier : \A k \in earlier : k <= j
  <2>5. j \in earlier /\ \A k \in earlier : k <= j
    BY <2>4
  <2>6. j = n
    BY <1>2, <2>4, <2>5
  <2> QED
    BY <1>4, <2>3, <2>6
<1> QED
  BY <1>3, <1>4

(* The application can tell the sessions apart by the order of its messages,
   although three tasks send them. *)
THEOREM SessionsInOrderHolds == Spec => []SessionsInOrder
<1>1. ASSUME IInv, Types PROVE SessionsInOrder
  <2>1. InOrder(Pending, told, Opened) /\ Pending \in Seq(Msg) /\ told \in Nat
    BY <1>1, PendingInOrder DEF Types, ForwardOK
  <2>2. \A k \in told + 1..Opened :
          \E i \in 1..Len(Pending) : IsNewlyHandshaked(Pending[i]) /\ Pending[i].token = k
    BY <2>1 DEF InOrder
  <2>3. \A i \in 1..Len(Pending) :
          LET earlier == {j \in 1..i : IsNewlyHandshaked(Pending[j])}
          IN  IF earlier = {} THEN Pending[i].token = told
              ELSE LET j == CHOOSE j \in earlier : \A k \in earlier : k <= j
                   IN  Pending[i].token = Pending[j].token
    BY <2>1, LatestOpening
  <2>4. \A i, j \in 1..Len(Pending) :
          i < j /\ IsNewlyHandshaked(Pending[i]) /\ IsNewlyHandshaked(Pending[j])
            => Pending[i].token < Pending[j].token
    BY <2>1 DEF InOrder
  <2> QED
    BY <2>2, <2>3, <2>4 DEF SessionsInOrder
<1> QED
  BY <1>1, Inductive, TypesInvariant, PTL

-----------------------------------------------------------------------------
(* The refinement of Sessions                                              *)

Finished == mantain \in {"done", "panicked"}

LEMMA SessionsStutter ==
  ASSUME UNCHANGED <<session, told>>, Live' = Live, Finished' = Finished
  PROVE  UNCHANGED S!sessions
BY DEF S!sessions, Finished

\* Only the end of the last loop ends a session.
LEMMA LoopEnds ==
  ASSUME UNCHANGED <<session, told, mantain>>, Live, Live' \in BOOLEAN
  PROVE  S!Next \/ UNCHANGED S!sessions
<1>1. CASE Live'
  BY <1>1 DEF S!sessions
<1>2. CASE ~Live'
  BY <1>2 DEF S!Next, S!Close
<1> QED
  BY <1>1, <1>2

LEMMA SessionsMantain ==
  ASSUME IInv, Types, Mantain
  PROVE  S!Next \/ UNCHANGED S!sessions
<1> USE DEF GoMantain, loopVars, fwdVars, Live, Finished
<1>1. CASE HandshakeOk
  <2>1. reader = "done" /\ writer = "done"
    BY <1>1 DEF HandshakeOk, IInv, CleanStart
  <2>2. S!Open
    BY <1>1, <2>1 DEF HandshakeOk, S!Open
  <2> QED
    BY <2>2 DEF S!Next
<1>2. CASE CheckExit \/ Connect \/ Delay \/ AnnounceSession
  BY <1>2 DEF CheckExit, Connect, Delay, AnnounceSession, S!sessions
<1>3. CASE StartSession
  BY <1>3 DEF StartSession, S!sessions
<1>4. CASE HandshakeFails \/ JoinReader
  <2>1. /\ UNCHANGED <<session, told>> /\ Live' = Live
        /\ mantain \notin {"done", "panicked"}
    BY <1>4 DEF HandshakeFails, JoinReader
  <2>2. CASE mantain' = "panicked"
    BY <2>1, <2>2 DEF S!Next, S!Finish
  <2>3. CASE mantain' # "panicked"
    BY <1>4, <2>1, <2>3 DEF HandshakeFails, JoinReader, S!sessions
  <2> QED
    BY <2>2, <2>3
<1>5. CASE JoinWriter
  <2>1. reader = "done" /\ writer = "done"
    BY <1>5 DEF JoinWriter, IInv, LoopsAwaited
  <2>2. mantain = "joinWriter" /\ mantain' \in {"check", "finish"}
        /\ UNCHANGED <<session, told, reader, writer>>
    BY <1>5 DEF JoinWriter, EndSession
  <2> QED
    BY <2>1, <2>2 DEF S!sessions
<1>6. CASE Finish
  BY <1>6 DEF Finish, S!Next, S!Finish
<1> QED
  BY <1>1, <1>2, <1>3, <1>4, <1>5, <1>6 DEF Mantain

LEMMA SessionsForward ==
  ASSUME IInv, Types, Forward
  PROVE  S!Next \/ UNCHANGED S!sessions
<1>1. /\ UNCHANGED <<session, mantain, reader, writer>>
      /\ Live' = Live
  BY ElsewhereQuiet DEF Live
<1>2. CASE told' = told
  BY <1>1, <1>2 DEF S!sessions
<1>3. CASE told' # told
  <2>1. ~SampleFlags /\ ~Relay
    <3>1. ASSUME Relay PROVE FALSE
      <4>1. ~IsNewlyHandshaked(inHand[1])
        BY <3>1, ReportsNotNew DEF Relay, IInv, RelayOfTold
      <4> QED
        BY <1>3, <3>1, <4>1 DEF Relay, Deliver
    <3> QED
      BY <1>3, <3>1 DEF SampleFlags
  <2>2. PICK m : Handle(m)
    BY <2>1 DEF Forward
  <2>3. ForwardMessage(m) /\ IsNewlyHandshaked(m) /\ told' = m.token
    BY <1>3, <2>2 DEF Handle, ForwardMessage, ForwardReadClosed, Deliver
  <2>4. /\ incoming \in Seq(Msg) /\ told \in Nat /\ session \in Nat
        /\ incoming # <<>> /\ m = incoming[1]
    <3>1. incoming \in Seq(Msg) /\ told \in Nat /\ session \in Nat
      BY DEF Types, ChannelsOK, WordsOK, ForwardOK
    <3> QED
      BY <2>3, <3>1, TailFacts DEF ForwardMessage, Receive
  <2>5. Opened \in Nat /\ InOrder(incoming, told, Opened) /\ Opened <= session
    <3>1. Opened \in Int /\ told <= Opened /\ Opened <= session
      BY <2>4 DEF Opened, IInv, IncomingInOrder, InOrder
    <3> QED
      BY <2>4, <3>1 DEF IInv, IncomingInOrder
  <2>6. m.token = told + 1 /\ told + 1 <= Opened
    BY <2>3, <2>4, <2>5, OrderTake
  <2>7. told < session /\ told' = told + 1
    BY <2>3, <2>4, <2>5, <2>6
  <2> QED
    BY <1>1, <2>7 DEF S!Next, S!Tell
<1> QED
  BY <1>2, <1>3

LEMMA SessionsStep ==
  ASSUME IInv, Types, [Next]_vars
  PROVE  [S!Next]_(S!sessions)
<1> USE DEF loopVars, fwdVars, envVars
<1>1. CASE Reader \/ Writer
  <2>1. UNCHANGED <<session, told, mantain>>
    BY <1>1 DEF Reader, ReadFrame, ReadOversized, ReadBreak, ReaderLoad, ReaderStore,
       ReaderSample, ReaderSend, GoReader, Writer, WriteItem, WriteBreak, Flush, WriterLoad,
       WriterStore, WriterSample, WriterSend, GoWriter
  <2>2. Live
    BY <1>1 DEF Live, Reader, ReadFrame, ReadOversized, ReadBreak, ReaderLoad, ReaderStore,
       ReaderSample, ReaderSend, Writer, WriteItem, WriteBreak, Flush, WriterLoad,
       WriterStore, WriterSample, WriterSend
  <2> QED
    BY <2>1, <2>2, LoopEnds DEF Live
<1>2. CASE Main \/ Shutdown \/ AppSend \/ PeerCloses \/ UNCHANGED vars
  <2>1. UNCHANGED <<session, told, mantain, reader, writer>>
    BY <1>2 DEF Main, Shutdown, AppSend, PeerCloses, vars
  <2> QED
    BY <2>1 DEF S!sessions, Live
<1> QED
  BY <1>1, <1>2, SessionsMantain, SessionsForward DEF Next

(* The client implements Sessions: its sessions do not overlap, and each is
   told to the application once. *)
THEOREM Implementation == Spec => ImplementsSessions
<1>1. Init => S!Init
  BY DEF Init, S!Init, Live
<1>2. IInv /\ Types /\ [Next]_vars => [S!Next]_(S!sessions)
  BY SessionsStep
<1> QED
  BY <1>1, <1>2, Inductive, TypesInvariant, PTL DEF Spec, ImplementsSessions, S!Spec
=============================================================================
