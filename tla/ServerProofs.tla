---------------------------- MODULE ServerProofs ----------------------------
(***************************************************************************)
(* The safety properties of Server, for any number of connections and      *)
(* descriptors, any channel capacities and whatever the peers send.        *)
(***************************************************************************)
EXTENDS ServerInv, TLAPS

USE LinkAssumption

LEMMA AppendFacts ==
  ASSUME NEW S, NEW s \in Seq(S), NEW e \in S
  PROVE  /\ Append(s, e) \in Seq(S)
         /\ Len(Append(s, e)) = Len(s) + 1
         /\ \A i \in 1..Len(s) : Append(s, e)[i] = s[i]
         /\ Append(s, e)[Len(s) + 1] = e
         /\ Len(s) \in Nat
OBVIOUS

LEMMA TailFacts ==
  ASSUME NEW S, NEW s \in Seq(S), s # <<>>
  PROVE  /\ Tail(s) \in Seq(S)
         /\ Len(Tail(s)) = Len(s) - 1
         /\ \A i \in 1..Len(Tail(s)) : Tail(s)[i] = s[i + 1]
         /\ Head(s) = s[1] /\ Head(s) \in S
         /\ Len(s) \in Nat \ {0}
OBVIOUS

LEMMA ExceptType ==
  ASSUME NEW S, NEW T, NEW g \in [S -> T], NEW x, NEW v, x \in S => v \in T
  PROVE  [g EXCEPT ![x] = v] \in [S -> T]
OBVIOUS

-----------------------------------------------------------------------------
(* Types                                                                   *)

LEMMA FrameType ==
  ASSUME NEW l \in Links, NEW k \in Frames
  PROVE  FrameMsg(k, l) \in Msg
BY DEF FrameMsg, Msg, MsgKind

LEMMA ChangedType ==
  ASSUME NEW l \in Links, NEW f \in SUBSET LinkFlag
  PROVE  ChangedMsg(l, f) \in Msg
BY DEF ChangedMsg, Msg, MsgKind

LEMMA FlagTypes ==
  ASSUME NEW b \in SUBSET LinkFlag
  PROVE  /\ FlagsRead(b) \in SUBSET LinkFlag
         /\ b \cup READ_CLOSED \in SUBSET LinkFlag
         /\ b \cup WRITE_CLOSED \in SUBSET LinkFlag
BY DEF FlagsRead, LinkFlag, READ_CLOSED, WRITE_CLOSED

\* The channel of the server stays well-typed and within its capacity.
QueueOK == trans \in Seq(Msg) /\ Len(trans) <= TransCap

LEMMA ReportTypes ==
  ASSUME QueueOK, NEW m \in Msg, Report(m)
  PROVE  QueueOK'
BY AppendFacts DEF QueueOK, Report, Room

LEMMA TakeTypes ==
  ASSUME QueueOK, NEW m, Take(m)
  PROVE  QueueOK' /\ m \in Msg
BY TailFacts DEF QueueOK, Take

\* So do the channels of the links.
OutgoingOK ==
  /\ outgoing \in [Links -> Seq({"write", "stop"})]
  /\ \A l \in Links : Len(outgoing[l]) <= OutCap

LEMMA SendTypes ==
  ASSUME OutgoingOK, NEW l, NEW item \in {"write", "stop"},
         CanSend(l), Send(l, item)
  PROVE  OutgoingOK'
<1>0. CASE l \notin Links
  BY <1>0 DEF OutgoingOK, Send
<1> SUFFICES ASSUME l \in Links PROVE OutgoingOK'
  BY <1>0
<1>1. outgoing[l] \in Seq({"write", "stop"}) /\ Len(outgoing[l]) < OutCap
  BY DEF OutgoingOK, CanSend
<1>2. Append(outgoing[l], item) \in Seq({"write", "stop"})
      /\ Len(Append(outgoing[l], item)) <= OutCap
  BY <1>1, AppendFacts
<1> QED
  BY <1>2 DEF OutgoingOK, Send

LEMMA ReceiveTypes ==
  ASSUME OutgoingOK, NEW l \in Links, NEW item, Receive(l, item)
  PROVE  OutgoingOK'
<1>1. outgoing[l] \in Seq({"write", "stop"}) /\ Len(outgoing[l]) <= OutCap
  BY DEF OutgoingOK
<1>2. Tail(outgoing[l]) \in Seq({"write", "stop"}) /\ Len(Tail(outgoing[l])) <= OutCap
  BY <1>1, TailFacts DEF Receive
<1> QED
  BY <1>2 DEF OutgoingOK, Receive
LEMMA TypeStep == TypeOK /\ [Next]_vars => TypeOK'
<1> SUFFICES ASSUME TypeOK, [Next]_vars PROVE TypeOK'
  OBVIOUS
<1> USE DEF TypeOK, LinkTypeOK, QueueOK, OutgoingOK
<1>1. ASSUME NEW l \in Links, PeerCloses(l), UNCHANGED serverVars
      PROVE  TypeOK'
  BY <1>1 DEF PeerCloses, serverVars
<1>2. ASSUME NEW l \in Links, Reader(l), UNCHANGED serverVars
      PROVE  TypeOK'
  <2> USE DEF GoReader, ReaderState, serverVars
  <2>1. CASE ReadPreface(l) \/ ReadUpgrade(l) \/ ReadPrefaceAgain(l) \/ ReadUnexpected(l)
    BY <1>2, <2>1 DEF ReadPreface, ReadUpgrade, ReadPrefaceAgain, ReadUnexpected
  <2>2. CASE ReadFrame(l)
    <3>1. QueueOK'
      BY <2>2, FrameType, ReportTypes DEF ReadFrame
    <3> QED
      BY <1>2, <2>2, <3>1 DEF ReadFrame
  <2>3. CASE ReadBreak(l) \/ ReaderSample(l)
    <3>1. FlagsRead(flags[l]) \in SUBSET LinkFlag
      BY FlagTypes
    <3>2. rlocal' = [rlocal EXCEPT ![l] = FlagsRead(flags[l])]
      BY <2>3 DEF ReadBreak, ReaderSample
    <3>3. rlocal' \in [Links -> SUBSET LinkFlag]
      BY <3>1, <3>2
    <3>4. reader' \in [Links -> ReaderState]
      BY <2>3 DEF ReadBreak, ReaderSample
    <3> QED
      BY <1>2, <2>3, <3>3, <3>4 DEF ReadBreak, ReaderSample
  <2>4. CASE ReaderStore(l)
    <3>1. rlocal[l] \cup READ_CLOSED \in SUBSET LinkFlag
      BY FlagTypes
    <3>2. flags' \in [Links -> SUBSET LinkFlag] /\ reader' \in [Links -> ReaderState]
      BY <2>4, <3>1, ExceptType DEF ReaderStore
    <3> QED
      BY <1>2, <2>4, <3>2 DEF ReaderStore
  <2>5. CASE ReaderSend(l)
    <3>1. ChangedMsg(l, rlocal[l]) \in Msg
      BY ChangedType
    <3>2. QueueOK'
      BY <2>5, <3>1, ReportTypes DEF ReaderSend
    <3> QED
      BY <1>2, <2>5, <3>2 DEF ReaderSend
  <2> QED
    BY <1>2, <2>1, <2>2, <2>3, <2>4, <2>5 DEF Reader
<1>3. ASSUME NEW l \in Links, Writer(l), UNCHANGED serverVars
      PROVE  TypeOK'
  <2> USE DEF GoWriter, WriterState, serverVars
  <2>1. CASE WriteItem(l)
    BY <1>3, <2>1, ReceiveTypes DEF WriteItem
  <2>2. CASE WriteBreak(l)
    <3>1. FlagsRead(flags[l]) \in SUBSET LinkFlag
      BY FlagTypes
    <3>2. OutgoingOK'
      BY <2>2, ReceiveTypes DEF WriteBreak
    <3> QED
      BY <1>3, <2>2, <3>1, <3>2 DEF WriteBreak
  <2>3. CASE WriterStore(l)
    <3>1. wlocal[l] \cup WRITE_CLOSED \in SUBSET LinkFlag
      BY FlagTypes
    <3>2. flags' \in [Links -> SUBSET LinkFlag] /\ writer' \in [Links -> WriterState]
      BY <2>3, <3>1, ExceptType DEF WriterStore
    <3> QED
      BY <1>3, <2>3, <3>2 DEF WriterStore
  <2>4. CASE WriterSample(l)
    <3>1. FlagsRead(flags[l]) \in SUBSET LinkFlag
      BY FlagTypes
    <3>2. wlocal' \in [Links -> SUBSET LinkFlag] /\ writer' \in [Links -> WriterState]
      BY <2>4, <3>1, ExceptType DEF WriterSample
    <3> QED
      BY <1>3, <2>4, <3>2 DEF WriterSample
  <2>5. CASE WriterSend(l)
    <3>1. ChangedMsg(l, wlocal[l]) \in Msg
      BY ChangedType
    <3>2. QueueOK'
      BY <2>5, <3>1, ReportTypes DEF WriterSend
    <3> QED
      BY <1>3, <2>5, <3>2 DEF WriterSend
  <2> QED
    BY <1>3, <2>1, <2>2, <2>3, <2>4, <2>5 DEF Writer
<1>4. CASE AcceptLoop
  <2> USE DEF GoAccept, AcceptState, linkVars
  <2>1. CASE Bind \/ AcceptError \/ AcceptTimeout
    BY <2>1 DEF Bind, AcceptError, AcceptTimeout
  <2>2. ASSUME NEW l \in Links, NEW t \in Tokens, Accept(l, t)
        PROVE  TypeOK'
    BY <2>2 DEF Accept, NewLink, ReaderState, WriterState
  <2>3. CASE Announce
    <3>1. NewLinkMsg(announcing) \in Msg
      BY DEF NewLinkMsg, Msg, MsgKind
    <3> QED
      BY <2>3, <3>1, ReportTypes DEF Announce
  <2>4. CASE ReportExited
    <3>1. ExitedMsg \in Msg
      BY DEF ExitedMsg, Msg, MsgKind
    <3> QED
      BY <2>4, <3>1, ReportTypes DEF ReportExited
  <2> QED
    BY <1>4, <2>1, <2>2, <2>3, <2>4 DEF AcceptLoop
<1>5. CASE Forward
  <2> USE DEF ForwardState, linkVars
  <2>1. CASE AckSettings
    <3>1. OutgoingOK'
      BY <2>1, SendTypes DEF AckSettings, Reachable, SendTo, linkVars
    <3> QED
      BY <2>1, <3>1 DEF AckSettings, SendTo
  <2>2. ASSUME NEW m, Handle(m)
        PROVE  TypeOK'
    <3>1. QueueOK' /\ m \in Msg /\ Take(m)
      BY <2>2, TakeTypes DEF Handle, ForwardOrDrop, ForwardSettings,
         ForwardNewLink, ForwardReadClosed, ForwardDetach, ForwardExited
    <3>2. m.link \in Links \cup {None}
      BY <3>1 DEF Msg
    <3> USE <3>1, <3>2 DEF Take
    <3>3. CASE ForwardOrDrop(m) \/ ForwardExited(m)
      BY <3>3 DEF ForwardOrDrop, ForwardExited
    <3>4. CASE ForwardSettings(m)
      <4>1. OutgoingOK'
        BY <3>4, SendTypes DEF ForwardSettings, Reachable, SendTo, linkVars
      <4> QED
        BY <3>4, <4>1 DEF ForwardSettings, SendTo
    <3>5. CASE ForwardNewLink(m)
      <4>1. links' \in [Tokens -> Links \cup {None}]
        BY <3>5, ExceptType DEF ForwardNewLink
      <4>2. attached' \in [Links -> Nat]
        BY <3>5, ExceptType DEF ForwardNewLink
      <4> QED
        BY <3>5, <4>1, <4>2 DEF ForwardNewLink
    <3>6. CASE ForwardReadClosed(m)
      <4>1. OutgoingOK'
        BY <3>6, SendTypes DEF ForwardReadClosed, Reachable, SendTo, linkVars
      <4> QED
        BY <3>6, <4>1 DEF ForwardReadClosed, SendTo
    <3>7. CASE ForwardDetach(m)
      <4>1. links' \in [Tokens -> Links \cup {None}]
        BY <3>7, ExceptType DEF ForwardDetach
      <4>2. detached' \in [Links -> Nat]
        BY <3>7, ExceptType DEF ForwardDetach
      <4> QED
        BY <3>7, <4>1, <4>2 DEF ForwardDetach
    <3> QED
      BY <2>2, <3>3, <3>4, <3>5, <3>6, <3>7 DEF Handle
  <2> QED
    BY <1>5, <2>1, <2>2 DEF Forward
<1>6. CASE Main \/ Shutdown
  BY <1>6 DEF Main, JoinAccept, JoinForward, Shutdown, appVars, linkVars, MainState
<1>7. ASSUME NEW l \in Links, FindLink(l) \/ DropLink(l) \/ AppSend(l)
      PROVE  TypeOK'
  BY <1>7, SendTypes DEF FindLink, DropLink, AppSend, appVars, linkVars
<1>8. CASE UNCHANGED vars
  BY <1>8 DEF vars, linkVars, serverVars
<1> QED
  BY <1>1, <1>2, <1>3, <1>4, <1>5, <1>6, <1>7, <1>8 DEF Next, App, LinkStep

(* Types: no step of any task, whatever the peers send, puts a foreign value
   in a variable or overfills a channel (link.rs, server.rs). *)
THEOREM TypeCorrect == Spec => []TypeOK
<1>1. Init => TypeOK
  <2> SUFFICES ASSUME Init PROVE TypeOK
    OBVIOUS
  <2>1. QueueOK /\ OutgoingOK
    BY DEF Init, LinkInit, QueueOK, OutgoingOK
  <2>2. LinkTypeOK
    BY <2>1 DEF Init, LinkInit, LinkTypeOK, QueueOK, OutgoingOK, ReaderState, WriterState
  <2> QED
    BY <2>2 DEF Init, TypeOK, AcceptState, ForwardState, MainState
<1> QED
  BY <1>1, TypeStep, PTL DEF Spec

-----------------------------------------------------------------------------
(* How a step changes the channel of the server                            *)

Grown(m) ==
  /\ Len(trans) \in Nat /\ Len(trans') = Len(trans) + 1
  /\ \A i \in Queued : trans'[i] = trans[i]
  /\ trans'[Len(trans) + 1] = m

Shrunk ==
  /\ Len(trans) \in Nat \ {0} /\ Len(trans') = Len(trans) - 1
  /\ \A i \in 1..Len(trans') : trans'[i] = trans[i + 1]

LEMMA ReportGrows ==
  ASSUME TypeOK, NEW m \in Msg, Report(m)
  PROVE  Grown(m)
BY AppendFacts DEF TypeOK, LinkTypeOK, Report, Grown, Queued

LEMMA TakeShrinks ==
  ASSUME TypeOK, NEW m, Take(m)
  PROVE  Shrunk /\ m = trans[1] /\ m \in Msg
BY TailFacts DEF TypeOK, LinkTypeOK, Take, Shrunk

-----------------------------------------------------------------------------
(* What the parts of the invariant depend on                               *)

LEMMA Kept ==
  ASSUME UNCHANGED trans
  PROVE
  /\ Untouched /\ UNCHANGED <<peer, token, reader, writer, announcing, attached>>
       => Untouched'
  /\ AnnouncedOnce /\ UNCHANGED <<announcing, attached, fwd, replyTo, token>>
       /\ (accept = "announce" <=> accept' = "announce") => AnnouncedOnce'
  /\ MapSound /\ UNCHANGED <<links, token, attached, detached, held, outgoing, writer>>
       => MapSound'
  /\ DistinctTokens /\ UNCHANGED token
       /\ (\A k \in Links : OpenLink(k)' => OpenLink(k)) => DistinctTokens'
  /\ InTokenOrder /\ UNCHANGED <<links, token>> => InTokenOrder'
  /\ FlagsSound /\ UNCHANGED <<flags, rlocal, wlocal, reader, writer>> => FlagsSound'
  /\ FramesFirst => FramesFirst'
  /\ TokenIdentity /\ UNCHANGED <<links, token, replyTo>> => TokenIdentity'
  /\ AttachBeforeDetach /\ UNCHANGED <<attached, detached>> => AttachBeforeDetach'
  /\ NoFrameAfterDetach /\ UNCHANGED <<detached, reader, writer>> => NoFrameAfterDetach'
  /\ DetachCompletes /\ UNCHANGED <<flags, reader, rlocal, writer, wlocal, detached>>
       => DetachCompletes'
<1> USE DEF Queued, FromLink, FrameAt, ChangedAt, ReaderClosed, WriterClosed, InMap
<1>1. Untouched /\ UNCHANGED <<peer, token, reader, writer, announcing, attached>>
       => Untouched'
  BY DEF Untouched
<1>2. AnnouncedOnce /\ UNCHANGED <<announcing, attached, fwd, replyTo, token>>
       /\ (accept = "announce" <=> accept' = "announce") => AnnouncedOnce'
  BY DEF AnnouncedOnce, Announced
<1>3. MapSound /\ UNCHANGED <<links, token, attached, detached, held, outgoing, writer>>
       => MapSound'
  BY DEF MapSound
<1>4. DistinctTokens /\ UNCHANGED token
       /\ (\A k \in Links : OpenLink(k)' => OpenLink(k)) => DistinctTokens'
  BY DEF DistinctTokens
<1>5. InTokenOrder /\ UNCHANGED <<links, token>> => InTokenOrder'
  BY DEF InTokenOrder
<1>6. FlagsSound /\ UNCHANGED <<flags, rlocal, wlocal, reader, writer>> => FlagsSound'
  BY DEF FlagsSound
<1>7. FramesFirst => FramesFirst'
  BY DEF FramesFirst
<1>8. TokenIdentity /\ UNCHANGED <<links, token, replyTo>> => TokenIdentity'
  BY DEF TokenIdentity
<1>9. AttachBeforeDetach /\ UNCHANGED <<attached, detached>> => AttachBeforeDetach'
  BY DEF AttachBeforeDetach
<1>10. NoFrameAfterDetach /\ UNCHANGED <<detached, reader, writer>> => NoFrameAfterDetach'
  BY DEF NoFrameAfterDetach
<1>11. DetachCompletes /\ UNCHANGED <<flags, reader, rlocal, writer, wlocal, detached>>
       => DetachCompletes'
  BY DEF DetachCompletes, ReportsBoth
<1> QED
  BY <1>1, <1>2, <1>3, <1>4, <1>5, <1>6, <1>7, <1>8, <1>9, <1>10, <1>11

LEMMA UntouchedKept ==
  ASSUME Untouched, UNCHANGED <<trans, token, announcing, attached>>,
         \A k \in Links : /\ peer'[k] = "none" <=> peer[k] = "none"
                          /\ reader'[k] = "idle" <=> reader[k] = "idle"
                          /\ writer'[k] = "idle" <=> writer[k] = "idle"
  PROVE  Untouched'
<1> SUFFICES ASSUME NEW l \in Links
             PROVE  \/ /\ peer'[l] # "none" /\ token'[l] \in Tokens
                       /\ reader'[l] # "idle" /\ writer'[l] # "idle"
                    \/ /\ peer'[l] = "none" /\ token'[l] = None
                       /\ reader'[l] = "idle" /\ writer'[l] = "idle"
                       /\ announcing' # l /\ attached'[l] = 0
                       /\ \A i \in 1..Len(trans') : trans'[i].link # l
  BY DEF Untouched, Queued
<1> QED
  BY DEF Untouched, Queued

\* Steps of the application, of the joining thread and of the peer.
LEMMA QuietStep ==
  ASSUME IInv, TypeOK', UNCHANGED <<trans, token, reader, writer, rlocal, wlocal, flags>>,
         UNCHANGED <<announcing, links, fwd, replyTo, attached, detached>>,
         accept = "announce" <=> accept' = "announce",
         \/ UNCHANGED <<peer, held, outgoing>>
         \/ \E l \in Links : PeerCloses(l) /\ UNCHANGED held
         \/ \E l \in Links : FindLink(l) \/ DropLink(l) \/ AppSend(l)
  PROVE  IInv'
<1>1. Untouched'
  <2>1. \A k \in Links : /\ peer'[k] = "none" <=> peer[k] = "none"
                         /\ reader'[k] = "idle" <=> reader[k] = "idle"
                         /\ writer'[k] = "idle" <=> writer[k] = "idle"
    BY DEF IInv, PeerCloses, FindLink, DropLink, AppSend, linkVars, TypeOK, LinkTypeOK
  <2> QED
    BY <2>1, UntouchedKept DEF IInv
<1>2. \A l \in Links : OpenLink(l)' => OpenLink(l)
  BY DEF IInv, OpenLink, ReaderAlive, WriterAlive, InMap, Announced, PeerCloses,
         FindLink, DropLink, AppSend, linkVars
<1>3. MapSound'
  BY DEF IInv, MapSound, InMap, WriterClosed, PeerCloses, FindLink, DropLink, AppSend,
         Send, linkVars, TypeOK, LinkTypeOK
<1> QED
  BY <1>1, <1>2, <1>3, Kept DEF IInv

-----------------------------------------------------------------------------
(* The steps of the two loops of a link that do not report                 *)

LEMMA ReaderLocalStep ==
  ASSUME IInv, TypeOK', NEW l \in Links, UNCHANGED serverVars,
         \/ ReadPreface(l) \/ ReadUpgrade(l) \/ ReadPrefaceAgain(l) \/ ReadUnexpected(l)
         \/ ReadBreak(l) \/ ReaderStore(l) \/ ReaderSample(l)
  PROVE  IInv'
<1> USE DEF IInv, GoReader, serverVars
<1>1. /\ reader[l] \notin {"idle", "done", "panicked", "send"}
      /\ reader' = [reader EXCEPT ![l] = reader'[l]]
      /\ reader'[l] \notin {"idle", "done"}
      /\ UNCHANGED <<trans, token, peer, writer, wlocal, outgoing>>
  BY DEF ReadPreface, ReadUpgrade, ReadPrefaceAgain, ReadUnexpected, ReadBreak,
         ReaderStore, ReaderSample, TypeOK, LinkTypeOK
<1>2. \A k \in Links : ReaderClosed(k) => ReaderClosed(k)'
  BY <1>1 DEF ReadPreface, ReadUpgrade, ReadPrefaceAgain, ReadUnexpected, ReadBreak,
         ReaderStore, ReaderSample, ReaderClosed, TypeOK, LinkTypeOK
<1>3. Untouched'
  <2>1. \A k \in Links : /\ peer'[k] = "none" <=> peer[k] = "none"
                         /\ reader'[k] = "idle" <=> reader[k] = "idle"
                         /\ writer'[k] = "idle" <=> writer[k] = "idle"
    BY <1>1 DEF TypeOK, LinkTypeOK
  <2> QED
    BY <1>1, <2>1, UntouchedKept
<1>4. \A k \in Links : OpenLink(k)' => OpenLink(k)
  BY <1>1 DEF OpenLink, ReaderAlive, WriterAlive, InMap, Announced, TypeOK, LinkTypeOK
<1>5. FlagsSound'
  <2>1. FlagsRead(flags[l]) \subseteq flags[l]
    BY DEF FlagsRead
  <2>2. rlocal'[l] \cup flags'[l] \subseteq rlocal[l] \cup flags[l] \cup READ_CLOSED
    BY <2>1, <1>1 DEF ReadPreface, ReadUpgrade, ReadPrefaceAgain, ReadUnexpected,
       ReadBreak, ReaderStore, ReaderSample, TypeOK, LinkTypeOK
  <2>3. ReaderClosed(l)' \/ rlocal'[l] \cup flags'[l] \subseteq rlocal[l] \cup flags[l]
    BY <2>1, <1>1 DEF ReadPreface, ReadUpgrade, ReadPrefaceAgain, ReadUnexpected,
       ReadBreak, ReaderStore, ReaderSample, ReaderClosed, TypeOK, LinkTypeOK
  <2>4. \A k \in Links : k # l => rlocal'[k] = rlocal[k] /\ flags'[k] = flags[k]
    BY DEF ReadPreface, ReadUpgrade, ReadPrefaceAgain, ReadUnexpected,
       ReadBreak, ReaderStore, ReaderSample, TypeOK, LinkTypeOK
  <2>5. \A k \in Links :
          /\ flags'[k] \cup rlocal'[k] \cup wlocal'[k] \subseteq READ_WRITE_CLOSED
          /\ "READ_CLOSED" \in flags'[k] \cup rlocal'[k] \cup wlocal'[k] => ReaderClosed(k)'
          /\ "WRITE_CLOSED" \in flags'[k] \cup rlocal'[k] \cup wlocal'[k] => WriterClosed(k)'
    BY <2>2, <2>3, <2>4, <1>1, <1>2 DEF FlagsSound, WriterClosed,
       READ_CLOSED, WRITE_CLOSED, READ_WRITE_CLOSED
  <2>6. \A i \in Queued : trans[i].kind = "changed" => trans[i].link \in Links
    BY DEF AnnouncedOnce, FromLink
  <2> QED
    BY <2>5, <2>6, <1>1, <1>2 DEF FlagsSound, ChangedAt, Queued, WriterClosed
<1>6. NoFrameAfterDetach'
  BY <1>1, <1>2 DEF NoFrameAfterDetach, WriterClosed, FrameAt, Queued
<1>7. DetachCompletes'
  <2>1. FlagsRead(READ_WRITE_CLOSED) = READ_WRITE_CLOSED
    BY DEF FlagsRead
  <2>2. ASSUME NEW k \in Links, k # l
        PROVE  (ReportsBoth(k) => ReportsBoth(k)') /\ flags'[k] = flags[k]
    <3>1. reader'[k] = reader[k]
      BY <1>1, <2>2 DEF TypeOK, LinkTypeOK
    <3>2. rlocal'[k] = rlocal[k] /\ flags'[k] = flags[k]
      BY <2>2 DEF ReadPreface, ReadUpgrade, ReadPrefaceAgain, ReadUnexpected,
         ReadBreak, ReaderStore, ReaderSample, TypeOK, LinkTypeOK
    <3> QED
      BY <1>1, <3>1, <3>2 DEF ReportsBoth, Queued
  <2>3. flags'[l] = READ_WRITE_CLOSED => ReportsBoth(l)' \/ detached'[l] > 0
    <3>1. CASE ReaderStore(l)
      BY <3>1, <1>1 DEF ReaderStore, ReportsBoth, TypeOK, LinkTypeOK
    <3>2. CASE ReaderSample(l)
      BY <3>2, <1>1, <2>1 DEF ReaderSample, ReportsBoth, TypeOK, LinkTypeOK
    <3>3. CASE ~ReaderStore(l) /\ ~ReaderSample(l)
      BY <3>3, <1>1 DEF ReadPreface, ReadUpgrade, ReadPrefaceAgain, ReadUnexpected,
         ReadBreak, ReportsBoth, Queued, DetachCompletes, TypeOK, LinkTypeOK
    <3> QED
      BY <3>1, <3>2, <3>3
  <2> QED
    BY <2>2, <2>3 DEF DetachCompletes
<1> QED
  BY <1>1, <1>3, <1>4, <1>5, <1>6, <1>7, Kept

LEMMA WriterLocalStep ==
  ASSUME IInv, TypeOK', NEW l \in Links, UNCHANGED serverVars,
         WriteItem(l) \/ WriteBreak(l) \/ WriterStore(l) \/ WriterSample(l)
  PROVE  IInv'
<1> USE DEF IInv, GoWriter, serverVars
<1>1. /\ writer[l] \notin {"idle", "done", "send"}
      /\ writer'[l] \notin {"idle", "done"}
      /\ writer[l] = "sample" => writer'[l] = "send"
      /\ \A k \in Links : k # l => writer'[k] = writer[k] /\ outgoing'[k] = outgoing[k]
      /\ UNCHANGED <<trans, token, peer, reader, rlocal>>
  BY DEF WriteItem, WriteBreak, Receive, WriterStore, WriterSample, TypeOK, LinkTypeOK
<1>2. /\ \A k \in Links : WriterClosed(k) => WriterClosed(k)'
      /\ \A k \in Links : k # l /\ WriterClosed(k)' => WriterClosed(k)
  BY <1>1 DEF WriterClosed
<1>3. Untouched'
  <2>1. \A k \in Links : /\ peer'[k] = "none" <=> peer[k] = "none"
                         /\ reader'[k] = "idle" <=> reader[k] = "idle"
                         /\ writer'[k] = "idle" <=> writer[k] = "idle"
    BY <1>1 DEF TypeOK, LinkTypeOK
  <2> QED
    BY <1>1, <2>1, UntouchedKept
<1>4. \A k \in Links : OpenLink(k)' => OpenLink(k)
  BY <1>1 DEF OpenLink, ReaderAlive, WriterAlive, InMap, Announced, TypeOK, LinkTypeOK
<1>5. FlagsSound'
  <2>1. FlagsRead(flags[l]) \subseteq flags[l]
    BY DEF FlagsRead
  <2>2. wlocal'[l] \cup flags'[l] \subseteq wlocal[l] \cup flags[l] \cup WRITE_CLOSED
    BY <2>1, <1>1, SMTT(30) DEF WriteItem, WriteBreak, WriterStore, WriterSample, TypeOK, LinkTypeOK
  <2>3. WriterClosed(l)' \/ wlocal'[l] \cup flags'[l] \subseteq wlocal[l] \cup flags[l]
    BY <2>1, <1>1 DEF WriteItem, WriteBreak, WriterStore, WriterSample, WriterClosed,
       TypeOK, LinkTypeOK
  <2>4. \A k \in Links : k # l => wlocal'[k] = wlocal[k] /\ flags'[k] = flags[k]
    BY DEF WriteItem, WriteBreak, WriterStore, WriterSample, TypeOK, LinkTypeOK
  <2>5. \A k \in Links :
          /\ flags'[k] \cup rlocal'[k] \cup wlocal'[k] \subseteq READ_WRITE_CLOSED
          /\ "READ_CLOSED" \in flags'[k] \cup rlocal'[k] \cup wlocal'[k] => ReaderClosed(k)'
          /\ "WRITE_CLOSED" \in flags'[k] \cup rlocal'[k] \cup wlocal'[k] => WriterClosed(k)'
    BY <2>2, <2>3, <2>4, <1>1, <1>2 DEF FlagsSound, ReaderClosed,
       READ_CLOSED, WRITE_CLOSED, READ_WRITE_CLOSED
  <2>6. \A i \in Queued : trans[i].kind = "changed" => trans[i].link \in Links
    BY DEF AnnouncedOnce, FromLink
  <2> QED
    BY <2>5, <2>6, <1>1, <1>2 DEF FlagsSound, ChangedAt, Queued, ReaderClosed
<1>6. MapSound'
  <2>1. outgoing'[l] # <<>> \/ WriterClosed(l)' \/ writer'[l] = "store" => attached[l] = 1
    <3>1. CASE WriteItem(l) \/ WriteBreak(l)
      BY <3>1 DEF WriteItem, WriteBreak, Receive, MapSound
    <3>2. CASE WriterStore(l) \/ WriterSample(l)
      BY <3>2 DEF WriterStore, WriterSample, MapSound, WriterClosed
    <3> QED
      BY <3>1, <3>2
  <2> QED
    BY <2>1, <1>1, <1>2 DEF MapSound
<1>7. NoFrameAfterDetach'
  BY <1>1, <1>2 DEF NoFrameAfterDetach, ReaderClosed, FrameAt, Queued
<1>8. DetachCompletes'
  <2>1. FlagsRead(READ_WRITE_CLOSED) = READ_WRITE_CLOSED
    BY DEF FlagsRead
  <2>2. ASSUME NEW k \in Links, k # l
        PROVE  (ReportsBoth(k) => ReportsBoth(k)') /\ flags'[k] = flags[k]
    <3>1. wlocal'[k] = wlocal[k] /\ flags'[k] = flags[k]
      BY <2>2 DEF WriteItem, WriteBreak, WriterStore, WriterSample, TypeOK, LinkTypeOK
    <3> QED
      BY <1>1, <2>2, <3>1 DEF ReportsBoth, Queued
  <2>3. flags'[l] = READ_WRITE_CLOSED => ReportsBoth(l)' \/ detached'[l] > 0
    <3>1. CASE WriterStore(l)
      BY <3>1, <1>1 DEF WriterStore, ReportsBoth, TypeOK, LinkTypeOK
    <3>2. CASE WriterSample(l)
      BY <3>2, <1>1, <2>1 DEF WriterSample, ReportsBoth, TypeOK, LinkTypeOK
    <3>3. CASE ~WriterStore(l) /\ ~WriterSample(l)
      BY <3>3, <1>1 DEF WriteItem, WriteBreak, Receive, ReportsBoth, Queued,
         DetachCompletes, TypeOK, LinkTypeOK
    <3> QED
      BY <3>1, <3>2, <3>3
  <2> QED
    BY <2>2, <2>3 DEF DetachCompletes
<1> QED
  BY <1>1, <1>3, <1>4, <1>5, <1>6, <1>7, <1>8, Kept

-----------------------------------------------------------------------------
(* The steps that report to the server                                     *)

\* A link that is open has been accepted; one that is in the map is open.
LEMMA OpenLinks ==
  ASSUME IInv
  PROVE  /\ \A l \in Links : OpenLink(l) => token[l] \in Tokens
         /\ \A t \in Tokens : links[t] # None =>
              /\ links[t] \in Links /\ token[links[t]] = t
              /\ OpenLink(links[t]) /\ attached[links[t]] = 1
<1> USE DEF IInv
<1>1. ASSUME NEW t \in Tokens, links[t] # None
      PROVE  /\ links[t] \in Links /\ token[links[t]] = t
             /\ OpenLink(links[t]) /\ attached[links[t]] = 1
  BY <1>1 DEF MapSound, OpenLink, InMap, TypeOK
<1>2. ASSUME NEW l \in Links, OpenLink(l)
      PROVE  token[l] \in Tokens
  <2>1. CASE peer[l] # "none"
    BY <2>1 DEF Untouched
  <2>2. CASE peer[l] = "none"
    <3>1. ~ReaderAlive(l) /\ ~WriterAlive(l) /\ announcing # l /\ l \notin held /\ ~Announced(l)
      BY <2>2 DEF Untouched, ReaderAlive, WriterAlive, Announced, Queued, MapSound
    <3> QED
      BY <1>2, <3>1 DEF OpenLink, InMap
  <2> QED
    BY <2>1, <2>2
<1> QED
  BY <1>1, <1>2

\* A message of an open link cannot be taken for one of another link.
LEMMA ReportKeepsOrder ==
  ASSUME IInv, NEW m, Grown(m), UNCHANGED <<token, links, replyTo>>,
         m.kind # "exited" => m.link \in Links /\ OpenLink(m.link),
         m.kind = "new" => attached[m.link] = 0
  PROVE  InTokenOrder' /\ TokenIdentity'
<1> USE DEF Queued, FromLink, Grown
<1>1. ASSUME m.kind # "exited"
      PROVE  /\ links[token[m.link]] \in {None, m.link}
             /\ m.kind = "new" => links[token[m.link]] = None
  BY <1>1, OpenLinks DEF IInv, DistinctTokens
<1>2. ASSUME m.kind # "exited"
      PROVE  /\ token[m.link] \in Tokens
             /\ \A j \in Queued : trans[j].kind = "new" /\ token[trans[j].link] = token[m.link]
                  => trans[j].link = m.link
  <2> SUFFICES ASSUME NEW j \in Queued, trans[j].kind = "new",
                      token[trans[j].link] = token[m.link]
               PROVE  trans[j].link = m.link
    BY <1>2, OpenLinks
  <2>1. trans[j].link \in Links /\ OpenLink(trans[j].link)
    BY DEF IInv, AnnouncedOnce, OpenLink, Announced
  <2> QED
    BY <1>2, <2>1 DEF IInv, DistinctTokens
<1>3. ASSUME NEW i \in 1..Len(trans'), trans'[i].kind # "exited"
      PROVE  /\ trans'[i].link \in Links /\ token[trans'[i].link] \in Tokens
             /\ links[token[trans'[i].link]] \in {None, trans'[i].link}
             /\ trans'[i].kind = "new" => links[token[trans'[i].link]] = None
             /\ \A j \in 1..i - 1 :
                  /\ trans'[j].kind = "new"
                  /\ token[trans'[j].link] = token[trans'[i].link]
                  => trans'[j].link = trans'[i].link
  <2>1. \A j \in 1..i - 1 : j \in 1..Len(trans) /\ trans'[j] = trans[j]
    OBVIOUS
  <2>2. CASE i \in 1..Len(trans)
    <3>1. trans'[i] = trans[i]
      BY <2>2
    <3>2. trans[i].link \in Links
      BY <1>3, <2>2, <3>1 DEF IInv, AnnouncedOnce
    <3>3. token[trans[i].link] \in Tokens
      BY <2>2, <3>2 DEF IInv, Untouched
    <3>4. /\ links[token[trans[i].link]] \in {None, trans[i].link}
          /\ trans[i].kind = "new" => links[token[trans[i].link]] = None
      BY <1>3, <2>2, <3>1 DEF IInv, TokenIdentity
    <3>5. \A j \in 1..i - 1 :
            /\ trans[j].kind = "new"
            /\ token[trans[j].link] = token[trans[i].link]
            => trans[j].link = trans[i].link
      BY <1>3, <2>2, <3>1 DEF IInv, InTokenOrder
    <3> QED
      BY <2>1, <3>1, <3>2, <3>3, <3>4, <3>5
  <2>3. CASE i = Len(trans) + 1
    <3>1. trans'[i] = m
      BY <2>3
    <3> QED
      BY <1>1, <1>2, <1>3, <2>1, <2>3, <3>1
  <2> QED
    BY <2>2, <2>3
<1>4. \A l \in Links : token[l] \in Tokens /\ links[token[l]] = l => InMap(l)'
  BY DEF InMap
<1> HIDE DEF Grown
<1>6. InTokenOrder'
  BY <1>3, <1>4 DEF InTokenOrder
<1>7. TokenIdentity'
  BY <1>3 DEF IInv, TokenIdentity
<1> QED
  BY <1>6, <1>7

\* What a report of a link leaves alone, and what its own parts are.
LEMMA ReportKeeps ==
  ASSUME IInv, NEW m, Grown(m), UNCHANGED <<token, links, replyTo, attached, detached, held>>,
         UNCHANGED <<peer, announcing, fwd, outgoing>>, accept = "announce" <=> accept' = "announce",
         m.kind \notin {"new", "exited"}, NEW l \in Links, m.link = l, peer[l] # "none",
         reader'[l] # "idle", writer'[l] # "idle", writer'[l] = "done" => writer[l] \in {"send", "done"},
         \A k \in Links : k # l => reader'[k] = reader[k] /\ writer'[k] = writer[k],
         writer'[l] \in {writer[l], "done"},
         reader'[l] = reader[l] \/ reader'[l] = "done",
         ReaderAlive(l) \/ WriterAlive(l)
  PROVE  /\ Untouched' /\ AnnouncedOnce' /\ MapSound' /\ DistinctTokens'
         /\ InTokenOrder' /\ TokenIdentity' /\ AttachBeforeDetach'
<1> USE DEF IInv
<1>1. \A i \in 1..Len(trans') : i \in Queued \/ trans'[i] = m
  BY DEF Grown, Queued
<1>2. \A i \in 1..Len(trans') : trans'[i].kind = "new" => i \in Queued
  BY <1>1
<1>3. \A i \in Queued : i \in 1..Len(trans') /\ trans'[i] = trans[i]
  BY DEF Grown, Queued
<1>4. Untouched'
  BY <1>1, <1>3 DEF Untouched, Queued
<1>5. \A k \in Links : Announced(k)' <=> Announced(k)
  BY <1>2, <1>3 DEF Announced, Queued
<1>6. AnnouncedOnce'
  <2>1. \A i \in 1..Len(trans') : trans'[i].kind # "exited" <=> trans'[i].link \in Links
    BY <1>1, <1>3 DEF AnnouncedOnce, Queued, FromLink
  <2>2. \A i \in 1..Len(trans') : trans'[i].kind = "new" =>
          /\ attached'[trans'[i].link] = 0
          /\ \A j \in 1..Len(trans') :
               trans'[j].kind = "new" /\ trans'[j].link = trans'[i].link => i = j
    BY <1>2, <1>3 DEF AnnouncedOnce
  <2>3. announcing' # None => attached'[announcing'] = 0 /\ ~Announced(announcing)'
    <3>1. announcing # None => announcing \in Links
      BY DEF TypeOK
    <3> QED
      BY <3>1, <1>5 DEF AnnouncedOnce
  <2>4. /\ announcing' # None <=> accept' = "announce"
        /\ fwd' = "ack" <=> replyTo' # None
        /\ replyTo' # None => token'[replyTo'] \in Tokens
    BY DEF AnnouncedOnce
  <2> QED
    BY <2>1, <2>2, <2>3, <2>4 DEF AnnouncedOnce, Queued, FromLink
<1>7. MapSound'
  BY DEF MapSound, WriterClosed
<1>8. \A k \in Links : OpenLink(k)' => OpenLink(k)
  BY <1>5 DEF OpenLink, InMap, ReaderAlive, WriterAlive
<1>9. DistinctTokens'
  BY <1>8 DEF DistinctTokens
<1>10. OpenLink(l)
  BY DEF OpenLink
<1>11. InTokenOrder' /\ TokenIdentity'
  BY <1>10, ReportKeepsOrder
<1> QED
  BY <1>4, <1>6, <1>7, <1>9, <1>11 DEF AttachBeforeDetach

LEMMA ReadFrameStep ==
  ASSUME IInv, TypeOK', NEW l \in Links, UNCHANGED serverVars, ReadFrame(l)
  PROVE  IInv'
<1> USE DEF IInv
<1>1. PICK k \in Frames : Report(FrameMsg(k, l))
  BY DEF ReadFrame
<1> DEFINE m == FrameMsg(k, l)
<1>2. Grown(m)
  BY <1>1, FrameType, ReportGrows
<1>3. m.kind = k /\ m.link = l /\ m.flags = {} /\ k \notin {"new", "exited", "changed"}
  BY DEF FrameMsg, Frames
<1> HIDE DEF m
<1>4. reader[l] = "frames" /\ peer[l] # "none" /\ writer[l] # "idle"
  BY DEF ReadFrame, Untouched
<1>5. UNCHANGED <<token, peer, reader, writer, rlocal, wlocal, flags, outgoing, serverVars>>
  BY DEF ReadFrame
<1>6. /\ Untouched' /\ AnnouncedOnce' /\ MapSound' /\ DistinctTokens'
      /\ InTokenOrder' /\ TokenIdentity' /\ AttachBeforeDetach'
  <2>1. ReaderAlive(l)
    BY <1>4 DEF ReaderAlive
  <2>2. /\ UNCHANGED <<token, links, replyTo, attached, detached, held>>
        /\ UNCHANGED <<peer, announcing, fwd, outgoing>>
        /\ accept = "announce" <=> accept' = "announce"
    BY <1>5 DEF serverVars
  <2>3. /\ m.kind \notin {"new", "exited"} /\ m.link = l /\ peer[l] # "none"
        /\ reader'[l] # "idle" /\ writer'[l] # "idle"
        /\ writer'[l] = "done" => writer[l] \in {"send", "done"}
        /\ \A n \in Links : n # l => reader'[n] = reader[n] /\ writer'[n] = writer[n]
        /\ writer'[l] \in {writer[l], "done"}
        /\ reader'[l] = reader[l] \/ reader'[l] = "done"
    BY <1>3, <1>4, <1>5
  <2> QED
    BY <1>2, <2>1, <2>2, <2>3, ReportKeeps
<1>7. \A i \in 1..Len(trans') :
        (i \in Queued /\ trans'[i] = trans[i]) \/ (i = Len(trans) + 1 /\ trans'[i] = m)
  BY <1>2 DEF Grown, Queued
<1>8. \A i \in Queued : i < Len(trans) + 1 /\ i \in 1..Len(trans') /\ trans'[i] = trans[i]
  BY <1>2 DEF Grown, Queued
<1>9. FlagsSound'
  BY <1>3, <1>5, <1>7 DEF FlagsSound, ChangedAt, Queued, ReaderClosed, WriterClosed
<1>10. FramesFirst'
  <2> SUFFICES ASSUME NEW i \in 1..Len(trans'), NEW j \in 1..Len(trans'),
                      ChangedAt(i, "READ_CLOSED")', FrameAt(j)', trans'[i].link = trans'[j].link
               PROVE  j < i
    BY DEF FramesFirst, Queued
  <2>1. i \in Queued /\ trans'[i] = trans[i]
    BY <1>3, <1>7 DEF ChangedAt
  <2>2. CASE j \in Queued
    BY <1>8, <2>1, <2>2 DEF FramesFirst, ChangedAt, FrameAt
  <2>3. CASE trans'[j] = m
    BY <1>3, <1>4, <2>1, <2>3 DEF FlagsSound, ChangedAt, ReaderClosed
  <2> QED
    BY <1>7, <2>2, <2>3
<1>11. NoFrameAfterDetach'
  BY <1>3, <1>4, <1>5, <1>7 DEF NoFrameAfterDetach, FrameAt, Queued, ReaderClosed,
     WriterClosed, serverVars
<1>12. DetachCompletes'
  BY <1>5, <1>8 DEF DetachCompletes, ReportsBoth, Queued, serverVars
<1> QED
  BY <1>6, <1>9, <1>10, <1>11, <1>12

LEMMA LoopEndStep ==
  ASSUME IInv, TypeOK', NEW l \in Links, UNCHANGED serverVars,
         ReaderSend(l) \/ WriterSend(l)
  PROVE  IInv'
<1> USE DEF IInv
<1> DEFINE f == IF ReaderSend(l) THEN rlocal[l] ELSE wlocal[l]
           m == ChangedMsg(l, f)
<1>1. f \in SUBSET LinkFlag
  BY DEF TypeOK, LinkTypeOK
<1>1a. /\ ReaderSend(l) => f = rlocal[l]
       /\ WriterSend(l) => f = wlocal[l]
  BY DEF ReaderSend, WriterSend, GoReader, GoWriter, TypeOK, LinkTypeOK
<1> HIDE DEF f
<1>2. Grown(m)
  BY <1>1, <1>1a, ChangedType, ReportGrows DEF ReaderSend, WriterSend
<1>3. m.kind = "changed" /\ m.link = l /\ m.flags = f
  BY DEF ChangedMsg
<1>3a. f = READ_WRITE_CLOSED => m = ChangedMsg(l, READ_WRITE_CLOSED)
  OBVIOUS
<1> HIDE DEF m
<1>4. /\ peer[l] # "none" /\ reader[l] # "idle" /\ writer[l] # "idle"
      /\ \/ reader[l] = "send" /\ reader'[l] = "done" /\ writer'[l] = writer[l] /\ f = rlocal[l]
         \/ writer[l] = "send" /\ writer'[l] = "done" /\ reader'[l] = reader[l] /\ f = wlocal[l]
  <2>1. CASE ReaderSend(l)
    BY <2>1, <1>1a DEF ReaderSend, Untouched, GoReader, TypeOK, LinkTypeOK
  <2>2. CASE WriterSend(l)
    BY <2>2, <1>1a DEF WriterSend, Untouched, GoWriter, TypeOK, LinkTypeOK
  <2> QED
    BY <2>1, <2>2
<1>5. /\ UNCHANGED <<token, peer, rlocal, wlocal, flags, outgoing, serverVars>>
      /\ \A k \in Links : k # l => reader'[k] = reader[k] /\ writer'[k] = writer[k]
  BY DEF ReaderSend, WriterSend, GoReader, GoWriter, TypeOK, LinkTypeOK
<1>6. /\ Untouched' /\ AnnouncedOnce' /\ MapSound' /\ DistinctTokens'
      /\ InTokenOrder' /\ TokenIdentity' /\ AttachBeforeDetach'
  <2>1. ReaderAlive(l) \/ WriterAlive(l)
    BY <1>4 DEF ReaderAlive, WriterAlive
  <2>2. /\ UNCHANGED <<token, links, replyTo, attached, detached, held>>
        /\ UNCHANGED <<peer, announcing, fwd, outgoing>>
        /\ accept = "announce" <=> accept' = "announce"
    BY <1>5 DEF serverVars
  <2>3. /\ m.kind \notin {"new", "exited"} /\ m.link = l /\ peer[l] # "none"
        /\ reader'[l] # "idle" /\ writer'[l] # "idle"
        /\ writer'[l] = "done" => writer[l] \in {"send", "done"}
        /\ \A n \in Links : n # l => reader'[n] = reader[n] /\ writer'[n] = writer[n]
        /\ writer'[l] \in {writer[l], "done"}
        /\ reader'[l] = reader[l] \/ reader'[l] = "done"
    BY <1>3, <1>4, <1>5
  <2> QED
    BY <1>2, <2>1, <2>2, <2>3, ReportKeeps
<1>7. \A i \in 1..Len(trans') :
        (i \in Queued /\ trans'[i] = trans[i]) \/ (i = Len(trans) + 1 /\ trans'[i] = m)
  BY <1>2 DEF Grown, Queued
<1>8. /\ \A i \in Queued : i < Len(trans) + 1 /\ i \in 1..Len(trans') /\ trans'[i] = trans[i]
      /\ Len(trans) + 1 \in 1..Len(trans') /\ trans'[Len(trans) + 1] = m
  BY <1>2 DEF Grown, Queued
<1>9. \A k \in Links : ReaderClosed(k)' = ReaderClosed(k) /\ WriterClosed(k)' = WriterClosed(k)
  BY <1>4, <1>5 DEF ReaderClosed, WriterClosed
<1>10. FlagsSound'
  <2>1. \A i \in 1..Len(trans') : \A b \in LinkFlag :
          ChangedAt(i, b)' => (b \in f /\ trans'[i].link = l)
                              \/ (i \in Queued /\ ChangedAt(i, b) /\ trans'[i].link = trans[i].link)
    BY <1>3, <1>7 DEF ChangedAt
  <2>2. \A i \in Queued : trans[i].kind = "changed" => trans[i].link \in Links
    BY DEF AnnouncedOnce, FromLink
  <2> QED
    BY <1>4, <1>5, <1>9, <2>1, <2>2 DEF FlagsSound, Queued, LinkFlag, ChangedAt
<1>11. FramesFirst'
  <2> SUFFICES ASSUME NEW i \in 1..Len(trans'), NEW j \in 1..Len(trans'),
                      ChangedAt(i, "READ_CLOSED")', FrameAt(j)', trans'[i].link = trans'[j].link
               PROVE  j < i
    BY DEF FramesFirst, Queued
  <2>1. j \in Queued /\ trans'[j] = trans[j]
    BY <1>3, <1>7 DEF FrameAt, Frames
  <2>2. CASE i \in Queued
    BY <1>8, <2>1, <2>2 DEF FramesFirst, ChangedAt, FrameAt
  <2>3. CASE i = Len(trans) + 1
    BY <1>8, <2>1, <2>3
  <2> QED
    BY <1>7, <2>2, <2>3
<1>12. NoFrameAfterDetach'
  <2>1. \A i \in 1..Len(trans') : FrameAt(i)' => i \in Queued /\ FrameAt(i) /\ trans'[i] = trans[i]
    BY <1>3, <1>7 DEF FrameAt, Frames
  <2> QED
    BY <1>5, <1>9, <2>1 DEF NoFrameAfterDetach, Queued, serverVars
<1>13. DetachCompletes'
  <2>1. \A k \in Links : ReportsBoth(k) => ReportsBoth(k)'
    BY <1>3a, <1>4, <1>5, <1>8 DEF ReportsBoth, Queued
  <2> QED
    BY <1>5, <2>1 DEF DetachCompletes, serverVars
<1> QED
  BY <1>6, <1>10, <1>11, <1>12, <1>13

-----------------------------------------------------------------------------
(* accept_loop                                                             *)

\* Neither a NewLink nor the exit message is a frame or carries flags.
LEMMA ServerReport ==
  ASSUME IInv, NEW m, Grown(m), m.kind \in {"new", "exited"},
         UNCHANGED <<flags, rlocal, wlocal, reader, writer, detached>>
  PROVE  FlagsSound' /\ FramesFirst' /\ NoFrameAfterDetach' /\ DetachCompletes'
<1> USE DEF IInv
<1>1. \A i \in 1..Len(trans') :
        (i \in Queued /\ trans'[i] = trans[i]) \/ trans'[i] = m
  BY DEF Grown, Queued
<1>2. \A i \in Queued : i \in 1..Len(trans') /\ trans'[i] = trans[i]
  BY DEF Grown, Queued
<1>3. \A i \in 1..Len(trans') : trans'[i].kind = "changed" \/ trans'[i].kind \in Frames
        => i \in Queued /\ trans'[i] = trans[i]
  BY <1>1 DEF Frames
<1>4. FlagsSound'
  BY <1>3 DEF FlagsSound, ChangedAt, Queued, ReaderClosed, WriterClosed
<1>5. FramesFirst'
  BY <1>3 DEF FramesFirst, ChangedAt, FrameAt, Queued
<1>6. NoFrameAfterDetach'
  BY <1>3 DEF NoFrameAfterDetach, FrameAt, Queued, ReaderClosed, WriterClosed
<1>7. DetachCompletes'
  BY <1>2 DEF DetachCompletes, ReportsBoth, Queued
<1> QED
  BY <1>4, <1>5, <1>6, <1>7

LEMMA AnnounceStep ==
  ASSUME IInv, TypeOK', Announce
  PROVE  IInv'
<1> USE DEF IInv
<1> DEFINE m == NewLinkMsg(announcing)
<1>1. announcing \in Links /\ attached[announcing] = 0 /\ ~Announced(announcing)
  BY DEF Announce, AnnouncedOnce, TypeOK
<1>2. m \in Msg /\ m.kind = "new" /\ m.link = announcing
  BY <1>1 DEF NewLinkMsg, Msg, MsgKind
<1>3. Grown(m)
  BY <1>2, ReportGrows DEF Announce
<1> HIDE DEF m
<1>4. /\ UNCHANGED <<token, peer, reader, writer, rlocal, wlocal, flags, outgoing>>
      /\ UNCHANGED <<links, fwd, replyTo, held, attached, detached>>
      /\ announcing' = None /\ accept = "announce" /\ accept' = "accept"
  BY DEF Announce, GoAccept, linkVars
<1>5. \A i \in 1..Len(trans') :
        (i \in Queued /\ trans'[i] = trans[i]) \/ (i = Len(trans) + 1 /\ trans'[i] = m)
  BY <1>3 DEF Grown, Queued
<1>6. \A i \in Queued : i \in 1..Len(trans') /\ trans'[i] = trans[i]
  BY <1>3 DEF Grown, Queued
<1>7. FlagsSound' /\ FramesFirst' /\ NoFrameAfterDetach' /\ DetachCompletes'
  BY <1>2, <1>3, <1>4, ServerReport
<1>8. OpenLink(announcing)
  BY DEF OpenLink
<1>9. InTokenOrder' /\ TokenIdentity'
  BY <1>1, <1>2, <1>3, <1>4, <1>8, ReportKeepsOrder
<1>10. Untouched'
  BY <1>1, <1>2, <1>4, <1>5 DEF Untouched, Queued
<1>11. AnnouncedOnce'
  <2>1. \A i \in 1..Len(trans') : trans'[i].kind # "exited" <=> trans'[i].link \in Links
    BY <1>1, <1>2, <1>5 DEF AnnouncedOnce, Queued, FromLink
  <2>2. \A i \in Queued : trans[i].kind = "new" => trans[i].link # announcing
    BY <1>1 DEF Announced, Queued
  <2>3. ASSUME NEW i \in 1..Len(trans'), trans'[i].kind = "new"
        PROVE  /\ attached'[trans'[i].link] = 0
               /\ \A j \in 1..Len(trans') :
                    trans'[j].kind = "new" /\ trans'[j].link = trans'[i].link => i = j
    <3>1. CASE i \in Queued /\ trans'[i] = trans[i]
      BY <2>2, <2>3, <3>1, <1>2, <1>4, <1>5 DEF AnnouncedOnce
    <3>2. CASE i = Len(trans) + 1 /\ trans'[i] = m
      BY <2>2, <3>2, <1>1, <1>2, <1>4, <1>5
    <3> QED
      BY <3>1, <3>2, <1>5
  <2>4. /\ announcing' # None <=> accept' = "announce"
        /\ announcing' # None => attached'[announcing'] = 0 /\ ~Announced(announcing)'
        /\ fwd' = "ack" <=> replyTo' # None
        /\ replyTo' # None => token'[replyTo'] \in Tokens
    BY <1>4 DEF AnnouncedOnce
  <2> QED
    BY <2>1, <2>3, <2>4 DEF AnnouncedOnce, Queued, FromLink
<1>12. MapSound'
  BY <1>4 DEF MapSound, WriterClosed
<1>13. DistinctTokens'
  <2>1. \A k \in Links : Announced(k)' => Announced(k) \/ k = announcing
    BY <1>2, <1>5 DEF Announced, Queued
  <2>2. \A k \in Links : OpenLink(k)' => OpenLink(k)
    BY <1>1, <1>4, <2>1 DEF OpenLink, InMap, ReaderAlive, WriterAlive
  <2> QED
    BY <1>4, <2>2 DEF DistinctTokens
<1>14. AttachBeforeDetach'
  BY <1>4 DEF AttachBeforeDetach
<1> QED
  BY <1>7, <1>9, <1>10, <1>11, <1>12, <1>13, <1>14

LEMMA ReportExitedStep ==
  ASSUME IInv, TypeOK', ReportExited
  PROVE  IInv'
<1> USE DEF IInv
<1> DEFINE m == ExitedMsg
<1>1. m \in Msg /\ m.kind = "exited" /\ m.link = None
  BY DEF ExitedMsg, Msg, MsgKind
<1>2. Grown(m)
  BY <1>1, ReportGrows DEF ReportExited
<1> HIDE DEF m
<1>3. /\ UNCHANGED <<token, peer, reader, writer, rlocal, wlocal, flags, outgoing>>
      /\ UNCHANGED <<announcing, links, fwd, replyTo, held, attached, detached>>
      /\ accept # "announce" /\ accept' # "announce"
  BY DEF ReportExited, GoAccept, linkVars
<1>4. \A i \in 1..Len(trans') : (i \in Queued /\ trans'[i] = trans[i]) \/ trans'[i] = m
  BY <1>2 DEF Grown, Queued
<1>5. \A i \in Queued : i \in 1..Len(trans') /\ trans'[i] = trans[i]
  BY <1>2 DEF Grown, Queued
<1>6. FlagsSound' /\ FramesFirst' /\ NoFrameAfterDetach' /\ DetachCompletes'
  BY <1>1, <1>2, <1>3, ServerReport
<1>7. InTokenOrder' /\ TokenIdentity'
  BY <1>1, <1>2, <1>3, ReportKeepsOrder
<1>8. Untouched'
  BY <1>1, <1>3, <1>4 DEF Untouched, Queued
<1>9. \A k \in Links : Announced(k)' <=> Announced(k)
  BY <1>1, <1>4, <1>5 DEF Announced, Queued
<1>10. AnnouncedOnce'
  <2>1. \A i \in 1..Len(trans') : trans'[i].kind # "exited" <=> trans'[i].link \in Links
    BY <1>1, <1>4 DEF AnnouncedOnce, Queued, FromLink
  <2>2. \A i \in 1..Len(trans') : trans'[i].kind = "new" =>
          /\ attached'[trans'[i].link] = 0
          /\ \A j \in 1..Len(trans') :
               trans'[j].kind = "new" /\ trans'[j].link = trans'[i].link => i = j
    BY <1>1, <1>3, <1>4 DEF AnnouncedOnce
  <2>3. /\ announcing' # None <=> accept' = "announce"
        /\ announcing' # None => attached'[announcing'] = 0 /\ ~Announced(announcing)'
        /\ fwd' = "ack" <=> replyTo' # None
        /\ replyTo' # None => token'[replyTo'] \in Tokens
    BY <1>3 DEF AnnouncedOnce
  <2> QED
    BY <2>1, <2>2, <2>3 DEF AnnouncedOnce, Queued, FromLink
<1>11. MapSound'
  BY <1>3 DEF MapSound, WriterClosed
<1>12. DistinctTokens'
  BY <1>3, <1>9 DEF DistinctTokens, OpenLink, InMap, ReaderAlive, WriterAlive
<1>13. AttachBeforeDetach'
  BY <1>3 DEF AttachBeforeDetach
<1> QED
  BY <1>6, <1>7, <1>8, <1>10, <1>11, <1>12, <1>13

LEMMA AcceptStep ==
  ASSUME IInv, TypeOK', NEW l \in Links, NEW t \in Tokens, Accept(l, t)
  PROVE  IInv'
<1> USE DEF IInv
<1>1. /\ peer[l] = "none" /\ token[l] = None /\ reader[l] = "idle" /\ writer[l] = "idle"
      /\ attached[l] = 0 /\ \A i \in Queued : trans[i].link # l
  BY DEF Accept, NewLink, Untouched
<1>2. /\ UNCHANGED <<rlocal, wlocal, flags, outgoing, trans>>
      /\ UNCHANGED <<links, fwd, replyTo, held, attached, detached>>
      /\ announcing' = l /\ accept = "accept" /\ accept' = "announce"
      /\ token'[l] = t /\ peer'[l] = "open" /\ reader'[l] = "preface" /\ writer'[l] = "recv"
      /\ \A k \in Links : k # l => /\ token'[k] = token[k] /\ peer'[k] = peer[k]
                                   /\ reader'[k] = reader[k] /\ writer'[k] = writer[k]
  BY DEF Accept, NewLink, GoAccept, TypeOK, LinkTypeOK
<1>3. links[t] = None /\ \A u \in Tokens : links[u] # l
  BY <1>1, OpenLinks DEF Accept
<1>4. \A k \in Links : k # l => (OpenLink(k)' => OpenLink(k))
  BY <1>2 DEF OpenLink, InMap, Announced, ReaderAlive, WriterAlive
<1>5. \A i \in Queued : FromLink(i) => trans[i].link \in Links /\ token'[trans[i].link] = token[trans[i].link]
  BY <1>1, <1>2 DEF AnnouncedOnce
<1>6. Untouched'
  BY <1>1, <1>2 DEF Untouched, Queued
<1>7. AnnouncedOnce'
  <2>1. replyTo' # None => token'[replyTo'] \in Tokens
    BY <1>2 DEF AnnouncedOnce, TypeOK
  <2> QED
    BY <1>1, <1>2, <2>1 DEF AnnouncedOnce, Announced, Queued, FromLink
<1>8. MapSound'
  <2>1. \A u \in Tokens : links[u] # None => links[u] \in Links /\ token'[links[u]] = token[links[u]]
    BY <1>2, <1>3 DEF TypeOK
  <2>2. outgoing[l] = <<>> /\ l \notin held
    BY <1>1 DEF MapSound
  <2>3. \A k \in Links : k # l => WriterClosed(k)' = WriterClosed(k)
    BY <1>2 DEF WriterClosed
  <2>4. ~WriterClosed(l)' /\ writer'[l] # "store"
    BY <1>2 DEF WriterClosed
  <2> QED
    BY <1>2, <2>1, <2>2, <2>3, <2>4 DEF MapSound
<1>9. DistinctTokens'
  <2>1. \A k \in Links : k # l /\ OpenLink(k)' => token'[k] # t
    BY <1>2, <1>4 DEF Accept
  <2> QED
    BY <1>2, <1>4, <2>1 DEF DistinctTokens
<1>10. InTokenOrder'
  <2>1. \A i \in Queued : FromLink(i) => (InMap(trans[i].link)' <=> InMap(trans[i].link))
    BY <1>2, <1>5 DEF InMap
  <2>2. \A i \in Queued : \A j \in 1..i - 1 : j \in Queued
    BY DEF Queued, TypeOK, LinkTypeOK
  <2>3. \A i \in Queued : trans[i].kind = "new" => FromLink(i)
    BY DEF FromLink
  <2> QED
    BY <1>2, <1>5, <2>1, <2>2, <2>3 DEF InTokenOrder, Queued, FromLink
<1>11. TokenIdentity'
  <2>1. replyTo # None => links[token'[replyTo]] \in {None, replyTo}
    BY <1>2, <1>3 DEF TokenIdentity, TypeOK
  <2> QED
    BY <1>2, <1>5, <2>1 DEF TokenIdentity, Queued, FromLink
<1>12. \A k \in Links : ReaderClosed(k)' = ReaderClosed(k) /\ WriterClosed(k)' = WriterClosed(k)
  BY <1>1, <1>2 DEF ReaderClosed, WriterClosed
<1>13. FlagsSound'
  <2>1. \A i \in Queued : trans[i].kind = "changed" => trans[i].link \in Links
    BY DEF AnnouncedOnce, FromLink
  <2> QED
    BY <1>2, <1>12, <2>1 DEF FlagsSound, ChangedAt, Queued
<1>14. FramesFirst' /\ AttachBeforeDetach'
  BY <1>2 DEF FramesFirst, AttachBeforeDetach, ChangedAt, FrameAt, Queued
<1>15. NoFrameAfterDetach'
  BY <1>2, <1>12 DEF NoFrameAfterDetach, FrameAt, Queued
<1>16. DetachCompletes'
  BY <1>1, <1>2 DEF DetachCompletes, ReportsBoth, Queued
<1> QED
  BY <1>6, <1>7, <1>8, <1>9, <1>10, <1>11, <1>13, <1>14, <1>15, <1>16

-----------------------------------------------------------------------------
(* forward_loop                                                            *)

\* What holds of every queued message still holds once the first is taken.
LEMMA TakeKeeps ==
  ASSUME IInv, NEW m, Take(m),
         UNCHANGED <<token, peer, reader, writer, rlocal, wlocal, flags>>
  PROVE  /\ m \in Msg /\ 1 \in Queued /\ m = trans[1] /\ replyTo = None
         /\ \A i \in 1..Len(trans') : i + 1 \in Queued /\ i + 1 # 1 /\ trans'[i] = trans[i + 1]
         /\ \A i \in Queued : i # 1 => i - 1 \in 1..Len(trans') /\ trans'[i - 1] = trans[i]
         /\ UNCHANGED attached => Untouched'
         /\ FlagsSound' /\ FramesFirst'
         /\ \A i \in Queued : FromLink(i) => trans[i].link \in Links /\ token[trans[i].link] \in Tokens
<1> USE DEF IInv
<1>1. Shrunk /\ m = trans[1] /\ m \in Msg
  BY TakeShrinks
<1>2. \A i \in 1..Len(trans') : i + 1 \in Queued /\ i + 1 # 1 /\ trans'[i] = trans[i + 1]
  BY <1>1 DEF Shrunk, Queued
<1>3. \A i \in Queued : i # 1 => i - 1 \in 1..Len(trans') /\ trans'[i - 1] = trans[i]
  BY <1>1 DEF Shrunk, Queued
<1>4. 1 \in Queued
  BY <1>1 DEF Shrunk, Queued
<1>5. UNCHANGED attached => Untouched'
  BY <1>2 DEF Untouched, Queued, Take
<1>6. FlagsSound'
  BY <1>2 DEF FlagsSound, ChangedAt, Queued, ReaderClosed, WriterClosed
<1>7. FramesFirst'
  <2> SUFFICES ASSUME NEW i \in 1..Len(trans'), NEW j \in 1..Len(trans'),
                      ChangedAt(i, "READ_CLOSED")', FrameAt(j)', trans'[i].link = trans'[j].link
               PROVE  j < i
    BY DEF FramesFirst, Queued
  <2>1. j + 1 < i + 1
    BY <1>2 DEF FramesFirst, ChangedAt, FrameAt
  <2> QED
    BY <2>1
<1>8. replyTo = None
  BY DEF Take, AnnouncedOnce
<1>9. \A i \in Queued : FromLink(i) => trans[i].link \in Links /\ token[trans[i].link] \in Tokens
  BY DEF AnnouncedOnce, Untouched
<1> QED
  BY <1>1, <1>2, <1>3, <1>4, <1>5, <1>6, <1>7, <1>8, <1>9

\* What is known of the messages left behind m, before forward_loop acts on m.
LEMMA TakeOrder ==
  ASSUME IInv, NEW m, Take(m), NEW i \in 1..Len(trans'), trans'[i].kind # "exited"
  PROVE  /\ trans'[i].link \in Links /\ token[trans'[i].link] \in Tokens
         /\ links[token[trans'[i].link]] \in {None, trans'[i].link}
         /\ trans'[i].kind = "new" =>
              /\ links[token[trans'[i].link]] = None
              /\ attached[trans'[i].link] = 0
              /\ \A j \in 1..Len(trans') :
                   trans'[j].kind = "new" /\ trans'[j].link = trans'[i].link => i = j
         /\ \A j \in 1..i - 1 : trans'[j].kind = "new" /\ token[trans'[j].link] = token[trans'[i].link]
              => trans'[j].link = trans'[i].link
         /\ m.kind = "new" /\ token[m.link] = token[trans'[i].link]
              => m.link = trans'[i].link /\ trans'[i].kind # "new"
<1> USE DEF IInv
<1>1. Shrunk /\ m = trans[1]
  BY TakeShrinks
<1>2. i + 1 \in Queued /\ trans'[i] = trans[i + 1] /\ FromLink(i + 1) /\ 1 \in 1..(i + 1) - 1
  BY <1>1 DEF Shrunk, Queued, FromLink
<1>3. trans[i + 1].link \in Links /\ token[trans[i + 1].link] \in Tokens
  BY <1>2 DEF AnnouncedOnce, Untouched
<1>4. /\ links[token[trans[i + 1].link]] \in {None, trans[i + 1].link}
      /\ trans[i + 1].kind = "new" => links[token[trans[i + 1].link]] = None
  BY <1>2 DEF TokenIdentity
<1>5. trans[i + 1].kind = "new" =>
        /\ attached[trans[i + 1].link] = 0
        /\ \A j \in Queued : trans[j].kind = "new" /\ trans[j].link = trans[i + 1].link => i + 1 = j
  BY <1>2 DEF AnnouncedOnce
<1>6. \A j \in 1..(i + 1) - 1 :
        trans[j].kind = "new" /\ token[trans[j].link] = token[trans[i + 1].link]
        => trans[j].link = trans[i + 1].link
  BY <1>2 DEF InTokenOrder
<1>7. \A j \in 1..Len(trans') : j + 1 \in Queued /\ trans'[j] = trans[j + 1] /\ (i + 1 = j + 1 => i = j)
  BY <1>1 DEF Shrunk, Queued
<1>8. \A j \in 1..i - 1 : j \in 1..Len(trans') /\ j + 1 \in 1..(i + 1) - 1
  OBVIOUS
<1>9. \A j \in 1..i - 1 : trans'[j].kind = "new" /\ token[trans'[j].link] = token[trans'[i].link]
        => trans'[j].link = trans'[i].link
  <2> SUFFICES ASSUME NEW j \in 1..i - 1, trans'[j].kind = "new",
                      token[trans'[j].link] = token[trans'[i].link]
               PROVE  trans'[j].link = trans'[i].link
    OBVIOUS
  <2>1. trans'[j] = trans[j + 1] /\ j + 1 \in 1..(i + 1) - 1
    BY <1>7, <1>8
  <2> QED
    BY <2>1, <1>2, <1>6
<1>10. ASSUME trans[i + 1].kind = "new", NEW j \in 1..Len(trans'), trans'[j].kind = "new",
              trans'[j].link = trans[i + 1].link
       PROVE  i = j
  <2>1. j + 1 \in Queued /\ trans'[j] = trans[j + 1]
    BY <1>7
  <2> QED
    BY <2>1, <1>5, <1>7, <1>10
<1>11. ASSUME m.kind = "new", token[m.link] = token[trans[i + 1].link]
       PROVE  m.link = trans[i + 1].link /\ trans[i + 1].kind # "new"
  <2>1. trans[1].link = trans[i + 1].link /\ 1 \in Queued /\ 1 # i + 1
    BY <1>1, <1>2, <1>6, <1>11 DEF Shrunk, Queued
  <2> QED
    BY <1>1, <1>5, <1>11, <2>1
<1> QED
  BY <1>2, <1>3, <1>4, <1>5, <1>9, <1>10, <1>11

\* The two invariants that speak of the order, from facts like those.
LEMMA OrderRestored ==
  ASSUME UNCHANGED token,
         \A i \in 1..Len(trans') : trans'[i].kind # "exited" =>
           /\ token[trans'[i].link] \in Tokens
           /\ links'[token[trans'[i].link]] \in {None, trans'[i].link}
           /\ trans'[i].kind = "new" => links'[token[trans'[i].link]] = None
           /\ \A j \in 1..i - 1 :
                trans'[j].kind = "new" /\ token[trans'[j].link] = token[trans'[i].link]
                => trans'[j].link = trans'[i].link,
         replyTo' # None => links'[token[replyTo']] \in {None, replyTo'}
  PROVE  InTokenOrder' /\ TokenIdentity'
<1>1. \A l : token[l] \in Tokens /\ links'[token[l]] = l => InMap(l)'
  BY DEF InMap
<1>2. InTokenOrder'
  BY <1>1 DEF InTokenOrder, Queued, FromLink
<1>3. TokenIdentity'
  BY DEF TokenIdentity, Queued, FromLink
<1> QED
  BY <1>2, <1>3

\* Taking a message announces no link twice, if only its link is attached.
LEMMA TakeAnnounced ==
  ASSUME IInv, NEW m, Take(m), fwd' = "ack" <=> replyTo' # None,
         replyTo' # None => token'[replyTo'] \in Tokens,
         \/ UNCHANGED attached
         \/ /\ m.kind = "new"
            /\ \A k \in Links : k # m.link => attached'[k] = attached[k]
  PROVE  AnnouncedOnce' /\ \A k \in Links : Announced(k)' => Announced(k)
<1> USE DEF IInv
<1>1. /\ 1 \in Queued /\ m = trans[1]
      /\ \A i \in 1..Len(trans') : i + 1 \in Queued /\ i + 1 # 1 /\ trans'[i] = trans[i + 1]
  BY TakeShrinks DEF Shrunk, Queued
<1>2. \A k \in Links : Announced(k)' => Announced(k)
  BY <1>1 DEF Announced, Queued
<1>3. m.kind = "new" => Announced(m.link)
  BY <1>1 DEF Announced, Queued
<1>4. ASSUME NEW i \in 1..Len(trans')
      PROVE  trans'[i].kind # "exited" <=> trans'[i].link \in Links
  <2>1. i + 1 \in Queued /\ trans'[i] = trans[i + 1]
    BY <1>1
  <2> QED
    BY <2>1 DEF AnnouncedOnce, FromLink
<1>5. ASSUME NEW i \in 1..Len(trans'), trans'[i].kind = "new"
      PROVE  /\ attached'[trans'[i].link] = 0
             /\ \A j \in 1..Len(trans') :
                  trans'[j].kind = "new" /\ trans'[j].link = trans'[i].link => i = j
  <2>1. /\ attached[trans'[i].link] = 0 /\ trans'[i].link \in Links
        /\ \A j \in 1..Len(trans') :
             trans'[j].kind = "new" /\ trans'[j].link = trans'[i].link => i = j
        /\ m.kind = "new" => m.link # trans'[i].link
    BY <1>5, TakeOrder
  <2> QED
    BY <2>1
<1>6. /\ announcing' # None <=> accept' = "announce"
      /\ announcing' # None => attached'[announcing'] = 0 /\ ~Announced(announcing)'
  BY <1>2, <1>3 DEF AnnouncedOnce, Take, TypeOK
<1> QED
  BY <1>2, <1>4, <1>5, <1>6 DEF AnnouncedOnce, Queued, FromLink

LEMMA TakeNoFrame ==
  ASSUME IInv, NEW m, Take(m), UNCHANGED <<reader, writer, detached>>
  PROVE  NoFrameAfterDetach'
<1> USE DEF IInv
<1>1. \A i \in 1..Len(trans') : i + 1 \in Queued /\ trans'[i] = trans[i + 1]
  BY TakeShrinks DEF Shrunk, Queued
<1>2. \A k \in Links : detached[k] > 0 => \A i \in Queued : trans[i].kind \in Frames => trans[i].link # k
  BY DEF NoFrameAfterDetach, FrameAt
<1>3. \A k \in Links : detached[k] > 0 =>
        \A i \in 1..Len(trans') : trans'[i].kind \in Frames => trans'[i].link # k
  BY <1>1, <1>2
<1> QED
  BY <1>3 DEF NoFrameAfterDetach, FrameAt, Queued, ReaderClosed, WriterClosed

LEMMA TakeReports ==
  ASSUME IInv, NEW m, Take(m), UNCHANGED <<reader, writer, rlocal, wlocal>>,
         NEW k \in Links, m # ChangedMsg(k, READ_WRITE_CLOSED), ReportsBoth(k)
  PROVE  ReportsBoth(k)'
<1>1. \A i \in Queued : trans[i] # m => i - 1 \in 1..Len(trans') /\ trans'[i - 1] = trans[i]
  BY TakeShrinks DEF IInv, Shrunk, Queued
<1>2. (\E i \in Queued : trans[i] = ChangedMsg(k, READ_WRITE_CLOSED))
        => \E i \in 1..Len(trans') : trans'[i] = ChangedMsg(k, READ_WRITE_CLOSED)
  BY <1>1
<1> QED
  BY <1>2 DEF ReportsBoth, Queued

\* A message that neither attaches nor detaches a link.
LEMMA TakeOther ==
  ASSUME IInv, NEW m, Take(m), m.kind # "new", m.kind = "changed" => m.flags # READ_WRITE_CLOSED,
         UNCHANGED <<token, peer, reader, writer, rlocal, wlocal, flags, links, attached, detached>>,
         fwd' = "ack" <=> replyTo' # None, replyTo' # None => replyTo' = m.link /\ m.kind # "exited"
  PROVE  /\ Untouched' /\ AnnouncedOnce' /\ DistinctTokens' /\ InTokenOrder' /\ FlagsSound'
         /\ FramesFirst' /\ TokenIdentity' /\ AttachBeforeDetach' /\ NoFrameAfterDetach'
         /\ DetachCompletes'
<1> USE DEF IInv
<1>1. /\ m \in Msg /\ 1 \in Queued /\ m = trans[1] /\ replyTo = None
      /\ \A i \in 1..Len(trans') : i + 1 \in Queued /\ i + 1 # 1 /\ trans'[i] = trans[i + 1]
      /\ \A i \in Queued : i # 1 => i - 1 \in 1..Len(trans') /\ trans'[i - 1] = trans[i]
      /\ Untouched' /\ FlagsSound' /\ FramesFirst'
  BY TakeKeeps
<1>2. UNCHANGED <<accept, announcing, exitAccept, main, held>>
  BY DEF Take
<1>3. \A k \in Links : Announced(k)' <=> Announced(k)
  <2>1. \A i \in 1..Len(trans') : trans'[i] = trans[i + 1] /\ i + 1 \in Queued
    BY <1>1
  <2>2. \A k \in Links : Announced(k)' => Announced(k)
    BY <2>1 DEF Announced, Queued
  <2>3. ASSUME NEW k \in Links, NEW i \in Queued, trans[i].kind = "new", trans[i].link = k
        PROVE  Announced(k)'
    <3>1. i - 1 \in 1..Len(trans') /\ trans'[i - 1] = trans[i]
      BY <1>1, <2>3
    <3> QED
      BY <2>3, <3>1 DEF Announced
  <2> QED
    BY <2>2, <2>3 DEF Announced, Queued
<1>4. AnnouncedOnce'
  <2>1. replyTo' # None => token[replyTo'] \in Tokens
    BY <1>1 DEF FromLink, AnnouncedOnce, Untouched
  <2> QED
    BY <2>1, TakeAnnounced
<1>5. DistinctTokens'
  BY <1>2, <1>3 DEF DistinctTokens, OpenLink, InMap, ReaderAlive, WriterAlive
<1>6. InTokenOrder' /\ TokenIdentity'
  <2>1. replyTo' # None => links'[token[replyTo']] \in {None, replyTo'}
    BY <1>1 DEF TokenIdentity, FromLink
  <2> QED
    BY <2>1, TakeOrder, OrderRestored
<1>8. AttachBeforeDetach'
  BY DEF AttachBeforeDetach
<1>9. NoFrameAfterDetach'
  BY <1>1, TakeNoFrame
<1>10. DetachCompletes'
  <2>1. \A k \in Links : m # ChangedMsg(k, READ_WRITE_CLOSED)
    BY DEF ChangedMsg
  <2> QED
    BY <2>1, TakeReports DEF DetachCompletes
<1> QED
  BY <1>1, <1>4, <1>5, <1>6, <1>8, <1>9, <1>10

\* What send_to puts in a channel is for a link of the map, which is attached.
LEMMA SendKeepsMap ==
  ASSUME IInv, UNCHANGED <<links, token, attached, detached, held, writer>>,
         \/ UNCHANGED outgoing
         \/ \E t \in Tokens, item \in {"write", "stop"} : Reachable(t) /\ Send(links[t], item)
  PROVE  MapSound'
<1> USE DEF IInv
<1>1. \A l \in Links : outgoing'[l] = outgoing[l] \/ attached[l] = 1
  BY OpenLinks DEF Send, Reachable, TypeOK, LinkTypeOK
<1> QED
  BY <1>1 DEF MapSound, WriterClosed

LEMMA ForwardOtherStep ==
  ASSUME IInv, TypeOK', NEW m,
         ForwardOrDrop(m) \/ ForwardSettings(m) \/ ForwardReadClosed(m) \/ ForwardExited(m)
  PROVE  IInv'
<1> USE DEF IInv
<1>1. Take(m)
  BY DEF ForwardOrDrop, ForwardSettings, ForwardReadClosed, ForwardExited
<1>2. /\ m = trans[1] /\ 1 \in Queued /\ replyTo = None /\ fwd = "recv"
      /\ m.kind # "exited" => m.link \in Links /\ token[m.link] \in Tokens
  <2>1. /\ m = trans[1] /\ 1 \in Queued /\ replyTo = None
        /\ \A i \in Queued : FromLink(i) => trans[i].link \in Links /\ token[trans[i].link] \in Tokens
    BY <1>1, TakeKeeps DEF ForwardOrDrop, ForwardSettings, ForwardReadClosed, ForwardExited,
       linkVars, SendTo
  <2> QED
    BY <1>1, <2>1 DEF FromLink, Take
<1>3. /\ UNCHANGED <<token, peer, reader, writer, rlocal, wlocal, flags>>
      /\ UNCHANGED <<links, attached, detached>>
  BY DEF ForwardOrDrop, ForwardSettings, ForwardReadClosed, ForwardExited, linkVars, SendTo
<1>4. m.kind # "new" /\ (m.kind = "changed" => m.flags # READ_WRITE_CLOSED)
  BY DEF ForwardOrDrop, ForwardSettings, ForwardReadClosed, ForwardExited,
     READ_CLOSED, READ_WRITE_CLOSED, WRITE_CLOSED
<1>5. /\ fwd' = "ack" <=> replyTo' # None
      /\ replyTo' # None => replyTo' = m.link /\ m.kind # "exited"
  BY <1>2 DEF ForwardOrDrop, ForwardSettings, ForwardReadClosed, ForwardExited
<1>6. \/ UNCHANGED outgoing
      \/ \E t \in Tokens, item \in {"write", "stop"} : Reachable(t) /\ Send(links[t], item)
  BY <1>2 DEF ForwardOrDrop, ForwardSettings, ForwardReadClosed, ForwardExited, linkVars, SendTo
<1>7. MapSound'
  BY <1>1, <1>3, <1>6, SendKeepsMap DEF Take
<1>8. /\ Untouched' /\ AnnouncedOnce' /\ DistinctTokens' /\ InTokenOrder' /\ FlagsSound'
      /\ FramesFirst' /\ TokenIdentity' /\ AttachBeforeDetach' /\ NoFrameAfterDetach'
      /\ DetachCompletes'
  BY <1>1, <1>3, <1>4, <1>5, TakeOther
<1> QED
  BY <1>7, <1>8

LEMMA AckSettingsStep ==
  ASSUME IInv, TypeOK', AckSettings
  PROVE  IInv'
<1> USE DEF IInv
<1>1. /\ UNCHANGED <<token, peer, reader, writer, rlocal, wlocal, flags, trans, links>>
      /\ UNCHANGED <<accept, announcing, held, attached, detached>>
      /\ replyTo' = None /\ fwd' # "ack"
  BY DEF AckSettings, linkVars, SendTo
<1>2. token[replyTo] \in Tokens
  BY DEF AckSettings, AnnouncedOnce
<1>3. \/ UNCHANGED outgoing
      \/ \E t \in Tokens, item \in {"write", "stop"} : Reachable(t) /\ Send(links[t], item)
  BY <1>2 DEF AckSettings, linkVars, SendTo
<1>4. MapSound'
  BY <1>1, <1>3, SendKeepsMap
<1>5. AnnouncedOnce'
  BY <1>1 DEF AnnouncedOnce, Announced, Queued, FromLink
<1>6. TokenIdentity'
  BY <1>1 DEF TokenIdentity, Queued, FromLink
<1>7. \A k \in Links : OpenLink(k)' => OpenLink(k)
  BY <1>1 DEF OpenLink, InMap, Announced, ReaderAlive, WriterAlive
<1> QED
  BY <1>1, <1>4, <1>5, <1>6, <1>7, Kept

LEMMA ForwardNewLinkStep ==
  ASSUME IInv, TypeOK', NEW m, ForwardNewLink(m)
  PROVE  IInv'
<1> USE DEF IInv
<1> DEFINE l == m.link
           t == token[l]
<1>1. /\ Take(m) /\ m.kind = "new"
      /\ UNCHANGED <<token, peer, reader, writer, rlocal, wlocal, flags, outgoing>>
      /\ UNCHANGED <<fwd, replyTo, detached, accept, announcing, held>>
  BY DEF ForwardNewLink, linkVars, Take
<1>2. /\ 1 \in Queued /\ m = trans[1] /\ replyTo = None
      /\ \A i \in 1..Len(trans') : i + 1 \in Queued /\ i + 1 # 1 /\ trans'[i] = trans[i + 1]
      /\ \A i \in Queued : i # 1 => i - 1 \in 1..Len(trans') /\ trans'[i - 1] = trans[i]
      /\ FlagsSound' /\ FramesFirst'
      /\ \A i \in Queued : FromLink(i) => trans[i].link \in Links /\ token[trans[i].link] \in Tokens
  BY <1>1, TakeKeeps
<1>3. l \in Links /\ t \in Tokens /\ attached[l] = 0 /\ detached[l] = 0 /\ announcing # l
  <2>1. l \in Links /\ t \in Tokens
    BY <1>1, <1>2 DEF FromLink
  <2>2. attached[l] = 0 /\ announcing # l
    BY <1>1, <1>2, <2>1 DEF AnnouncedOnce, Announced, Queued
  <2> QED
    BY <2>1, <2>2 DEF AttachBeforeDetach, TypeOK
<1>4. links[t] = None
  BY <1>1, <1>2, <1>3 DEF TokenIdentity, FromLink
<1>5. /\ links'[t] = l /\ attached'[l] = 1
      /\ \A u \in Tokens : u # t => links'[u] = links[u]
      /\ \A k \in Links : k # l => attached'[k] = attached[k]
  BY <1>3 DEF ForwardNewLink, TypeOK
<1>6. peer[l] # "none"
  BY <1>2, <1>3 DEF Untouched
<1> HIDE DEF l, t
<1>7. Untouched'
  BY <1>1, <1>2, <1>3, <1>5, <1>6 DEF Untouched, Queued
<1>8. AnnouncedOnce' /\ \A k \in Links : Announced(k)' => Announced(k)
  <2>1. fwd' = "ack" <=> replyTo' # None
    BY <1>1 DEF AnnouncedOnce
  <2>2. \A k \in Links : k # m.link => attached'[k] = attached[k]
    BY <1>5 DEF l
  <2> QED
    BY <1>1, <1>2, <2>1, <2>2, TakeAnnounced
<1>9. MapSound'
  <2>1. \A u \in Tokens : links[u] # l
    BY <1>3, OpenLinks
  <2>2. \A u \in Tokens : links'[u] # None =>
          token'[links'[u]] = u /\ attached'[links'[u]] = 1 /\ detached'[links'[u]] = 0
    BY <1>1, <1>3, <1>5, <2>1 DEF MapSound, t, TypeOK
  <2> QED
    BY <1>1, <1>3, <1>5, <2>2 DEF MapSound, WriterClosed
<1>10. DistinctTokens'
  <2>1. OpenLink(l)
    BY <1>1, <1>2, <1>3 DEF OpenLink, Announced, Queued, l
  <2>2. \A k \in Links : InMap(k)' => InMap(k) \/ k = l
    BY <1>1, <1>3, <1>5 DEF InMap
  <2>3. \A k \in Links : OpenLink(k)' => OpenLink(k)
    BY <1>1, <1>8, <2>1, <2>2 DEF OpenLink, ReaderAlive, WriterAlive
  <2> QED
    BY <1>1, <2>3 DEF DistinctTokens
<1>11. InTokenOrder' /\ TokenIdentity'
  <2>1. ASSUME NEW i \in 1..Len(trans'), trans'[i].kind # "exited"
        PROVE  /\ token[trans'[i].link] \in Tokens
               /\ links'[token[trans'[i].link]] \in {None, trans'[i].link}
               /\ trans'[i].kind = "new" => links'[token[trans'[i].link]] = None
               /\ \A j \in 1..i - 1 :
                    trans'[j].kind = "new" /\ token[trans'[j].link] = token[trans'[i].link]
                    => trans'[j].link = trans'[i].link
    <3>1. /\ token[trans'[i].link] \in Tokens
          /\ links[token[trans'[i].link]] \in {None, trans'[i].link}
          /\ trans'[i].kind = "new" => links[token[trans'[i].link]] = None
          /\ \A j \in 1..i - 1 :
               trans'[j].kind = "new" /\ token[trans'[j].link] = token[trans'[i].link]
               => trans'[j].link = trans'[i].link
          /\ token[trans'[i].link] = t => l = trans'[i].link /\ trans'[i].kind # "new"
      BY <1>1, <2>1, TakeOrder DEF l, t
    <3> QED
      BY <1>5, <3>1
  <2> QED
    BY <1>1, <1>2, <2>1, OrderRestored
<1>12. AttachBeforeDetach'
  BY <1>1, <1>3, <1>5 DEF AttachBeforeDetach, TypeOK
<1>13. NoFrameAfterDetach'
  BY <1>1, TakeNoFrame
<1>14. DetachCompletes'
  <2>1. \A k \in Links : m # ChangedMsg(k, READ_WRITE_CLOSED)
    BY <1>1 DEF ChangedMsg
  <2> QED
    BY <1>1, <2>1, TakeReports DEF DetachCompletes
<1> QED
  BY <1>2, <1>7, <1>8, <1>9, <1>10, <1>11, <1>12, <1>13, <1>14

LEMMA ForwardDetachStep ==
  ASSUME IInv, TypeOK', NEW m, ForwardDetach(m)
  PROVE  IInv'
<1> USE DEF IInv
<1> DEFINE l == m.link
           t == token[l]
<1>1. /\ Take(m) /\ m.kind = "changed" /\ m.flags = READ_WRITE_CLOSED
      /\ UNCHANGED <<token, peer, reader, writer, rlocal, wlocal, flags, outgoing>>
      /\ UNCHANGED <<fwd, replyTo, attached, accept, announcing, held>>
  BY DEF ForwardDetach, linkVars, Take
<1>2. /\ 1 \in Queued /\ m = trans[1] /\ replyTo = None /\ m \in Msg
      /\ \A i \in 1..Len(trans') : i + 1 \in Queued /\ i + 1 # 1 /\ trans'[i] = trans[i + 1]
      /\ \A i \in Queued : i # 1 => i - 1 \in 1..Len(trans') /\ trans'[i - 1] = trans[i]
      /\ FlagsSound' /\ FramesFirst' /\ Untouched'
      /\ \A i \in Queued : FromLink(i) => trans[i].link \in Links /\ token[trans[i].link] \in Tokens
  BY <1>1, TakeKeeps
<1>3. l \in Links /\ t \in Tokens
  BY <1>1, <1>2 DEF FromLink
<1>4. ReaderClosed(l) /\ WriterClosed(l) /\ attached[l] = 1
  <2>1. ChangedAt(1, "READ_CLOSED") /\ ChangedAt(1, "WRITE_CLOSED")
    BY <1>1, <1>2 DEF ChangedAt, READ_WRITE_CLOSED, READ_CLOSED, WRITE_CLOSED
  <2>2. ReaderClosed(l) /\ WriterClosed(l)
    BY <1>2, <2>1 DEF FlagsSound
  <2> QED
    BY <1>3, <2>2 DEF MapSound
<1>5. /\ links'[t] = None /\ detached'[l] > 0
      /\ \A u \in Tokens : u # t => links'[u] = links[u]
      /\ \A k \in Links : k # l => detached'[k] = detached[k]
      /\ \A k \in Links : detached[k] > 0 => detached'[k] > 0
  BY <1>3 DEF ForwardDetach, TypeOK
<1>6. \A i \in Queued : FrameAt(i) => trans[i].link # l
  <2> SUFFICES ASSUME NEW i \in Queued, FrameAt(i), trans[i].link = l
               PROVE  FALSE
    OBVIOUS
  <2>1. ChangedAt(1, "READ_CLOSED")
    BY <1>1, <1>2 DEF ChangedAt, READ_WRITE_CLOSED, READ_CLOSED, WRITE_CLOSED
  <2>2. i < 1
    BY <1>2, <2>1 DEF FramesFirst
  <2> QED
    BY <2>2 DEF Queued
<1> HIDE DEF l, t
<1>8. AnnouncedOnce' /\ \A k \in Links : Announced(k)' => Announced(k)
  <2>1. fwd' = "ack" <=> replyTo' # None
    BY <1>1 DEF AnnouncedOnce
  <2> QED
    BY <1>1, <1>2, <2>1, TakeAnnounced
<1>9. MapSound'
  <2>1. ASSUME NEW u \in Tokens, links'[u] # None
        PROVE  token'[links'[u]] = u /\ attached'[links'[u]] = 1 /\ detached'[links'[u]] = 0
    <3>1. u # t /\ links'[u] = links[u]
      BY <1>5, <2>1
    <3>2. links[u] \in Links /\ token[links[u]] = u /\ attached[links[u]] = 1 /\ detached[links[u]] = 0
      BY <2>1, <3>1, OpenLinks DEF MapSound
    <3>3. links[u] # l
      BY <3>1, <3>2 DEF t
    <3> QED
      BY <1>1, <1>5, <3>1, <3>2, <3>3
  <2> QED
    BY <1>1, <2>1 DEF MapSound, WriterClosed
<1>10. DistinctTokens'
  <2>1. \A k \in Links : InMap(k)' => InMap(k)
    BY <1>1, <1>3, <1>5 DEF InMap
  <2>2. \A k \in Links : OpenLink(k)' => OpenLink(k)
    BY <1>1, <1>8, <2>1 DEF OpenLink, ReaderAlive, WriterAlive
  <2> QED
    BY <1>1, <2>2 DEF DistinctTokens
<1>11. InTokenOrder' /\ TokenIdentity'
  <2>1. ASSUME NEW i \in 1..Len(trans'), trans'[i].kind # "exited"
        PROVE  /\ token[trans'[i].link] \in Tokens
               /\ links'[token[trans'[i].link]] \in {None, trans'[i].link}
               /\ trans'[i].kind = "new" => links'[token[trans'[i].link]] = None
               /\ \A j \in 1..i - 1 :
                    trans'[j].kind = "new" /\ token[trans'[j].link] = token[trans'[i].link]
                    => trans'[j].link = trans'[i].link
    <3>1. /\ token[trans'[i].link] \in Tokens
          /\ links[token[trans'[i].link]] \in {None, trans'[i].link}
          /\ trans'[i].kind = "new" => links[token[trans'[i].link]] = None
          /\ \A j \in 1..i - 1 :
               trans'[j].kind = "new" /\ token[trans'[j].link] = token[trans'[i].link]
               => trans'[j].link = trans'[i].link
      BY <1>1, <2>1, TakeOrder
    <3> QED
      BY <1>5, <3>1
  <2> QED
    BY <1>1, <1>2, <2>1, OrderRestored
<1>12. AttachBeforeDetach'
  BY <1>1, <1>4, <1>5 DEF AttachBeforeDetach
<1>13. NoFrameAfterDetach'
  <2>1. \A k \in Links : ReaderClosed(k)' = ReaderClosed(k) /\ WriterClosed(k)' = WriterClosed(k)
    BY <1>1 DEF ReaderClosed, WriterClosed
  <2>2. \A k \in Links : detached'[k] > 0 => k = l \/ detached[k] > 0
    BY <1>5
  <2>3. ASSUME NEW k \in Links, detached'[k] > 0
        PROVE  /\ ReaderClosed(k)' /\ WriterClosed(k)'
               /\ \A i \in Queued : FrameAt(i) => trans[i].link # k
    BY <1>4, <1>6, <2>1, <2>2, <2>3 DEF NoFrameAfterDetach
  <2>4. \A i \in 1..Len(trans') : trans'[i].kind \in Frames => FrameAt(i + 1)
    BY <1>2 DEF FrameAt
  <2> QED
    BY <1>2, <2>3, <2>4 DEF NoFrameAfterDetach, FrameAt, Queued
<1>14. DetachCompletes'
  <2>1. \A k \in Links : k # l => m # ChangedMsg(k, READ_WRITE_CLOSED)
    BY DEF ChangedMsg, l
  <2>2. \A k \in Links : k # l /\ ReportsBoth(k) => ReportsBoth(k)'
    BY <1>1, <2>1, TakeReports
  <2> QED
    BY <1>1, <1>5, <2>2 DEF DetachCompletes
<1> QED
  BY <1>2, <1>8, <1>9, <1>10, <1>11, <1>12, <1>13, <1>14

-----------------------------------------------------------------------------
(* The inductive invariant                                                 *)

LEMMA InvStep == IInv /\ [Next]_vars => IInv'
<1> SUFFICES ASSUME IInv, [Next]_vars
             PROVE  IInv'
  OBVIOUS
<1>1. TypeOK'
  BY TypeStep DEF IInv
<1>2. CASE AcceptLoop
  <2>1. CASE Bind \/ AcceptError \/ AcceptTimeout
    <3>1. /\ UNCHANGED <<trans, token, reader, writer, rlocal, wlocal, flags>>
          /\ UNCHANGED <<announcing, links, fwd, replyTo, attached, detached>>
          /\ accept = "announce" <=> accept' = "announce"
          /\ UNCHANGED <<peer, held, outgoing>>
      BY <2>1 DEF Bind, AcceptError, AcceptTimeout, GoAccept, linkVars
    <3> QED
      BY <1>1, <3>1, QuietStep
  <2> QED
    BY <1>1, <1>2, <2>1, AnnounceStep, ReportExitedStep, AcceptStep DEF AcceptLoop
<1>3. CASE Forward
  BY <1>1, <1>3, AckSettingsStep, ForwardOtherStep, ForwardNewLinkStep, ForwardDetachStep
     DEF Forward, Handle
<1>4. CASE Main \/ App
  <2>1. /\ UNCHANGED <<trans, token, reader, writer, rlocal, wlocal, flags>>
        /\ UNCHANGED <<announcing, links, fwd, replyTo, attached, detached, accept>>
    BY <1>4 DEF Main, JoinAccept, JoinForward, App, Shutdown, FindLink, DropLink, AppSend,
       appVars, linkVars
  <2>2. CASE Main \/ Shutdown
    <3>1. UNCHANGED <<peer, held, outgoing>>
      BY <2>2 DEF Main, JoinAccept, JoinForward, Shutdown, linkVars
    <3> QED
      BY <1>1, <2>1, <3>1, QuietStep
  <2>3. ASSUME NEW l \in Links, FindLink(l) \/ DropLink(l) \/ AppSend(l)
        PROVE  IInv'
    BY <1>1, <2>1, <2>3, QuietStep
  <2> QED
    BY <1>4, <2>2, <2>3 DEF App
<1>5. ASSUME NEW l \in Links, LinkStep(l)
      PROVE  IInv'
  <2>1. CASE PeerCloses(l)
    <3>1. UNCHANGED serverVars
      BY <1>5 DEF LinkStep
    <3>2. /\ UNCHANGED <<trans, token, reader, writer, rlocal, wlocal, flags>>
          /\ UNCHANGED <<announcing, links, fwd, replyTo, attached, detached, held>>
          /\ accept = "announce" <=> accept' = "announce"
      BY <2>1, <3>1 DEF PeerCloses, serverVars
    <3> QED
      BY <1>1, <2>1, <3>2, QuietStep
  <2>2. CASE Reader(l)
    BY <1>1, <1>5, <2>2, ReaderLocalStep, ReadFrameStep, LoopEndStep DEF LinkStep, Reader
  <2>3. CASE Writer(l)
    BY <1>1, <1>5, <2>3, WriterLocalStep, LoopEndStep DEF LinkStep, Writer
  <2> QED
    BY <1>5, <2>1, <2>2, <2>3 DEF LinkStep
<1>6. CASE UNCHANGED vars
  <2>1. /\ UNCHANGED <<trans, token, reader, writer, rlocal, wlocal, flags, peer, outgoing>>
        /\ UNCHANGED <<announcing, links, fwd, replyTo, attached, detached, held, accept>>
    BY <1>6 DEF vars, linkVars, serverVars
  <2> QED
    BY <1>1, <2>1, QuietStep
<1> QED
  BY <1>2, <1>3, <1>4, <1>5, <1>6 DEF Next

(* The inductive invariant holds of every reachable state of the server. *)
THEOREM Inductive == Spec => []IInv
<1>1. Init => TypeOK
  <2> SUFFICES ASSUME Init PROVE TypeOK
    OBVIOUS
  <2>1. QueueOK /\ OutgoingOK
    BY DEF Init, LinkInit, QueueOK, OutgoingOK
  <2>2. LinkTypeOK
    BY <2>1 DEF Init, LinkInit, LinkTypeOK, QueueOK, OutgoingOK, ReaderState, WriterState
  <2> QED
    BY <2>2 DEF Init, TypeOK, AcceptState, ForwardState, MainState
<1>2. Init => IInv
  <2> SUFFICES ASSUME Init PROVE IInv
    OBVIOUS
  <2>1. Len(trans) = 0 /\ Queued = {}
    BY DEF Init, LinkInit, Queued
  <2>2. Untouched /\ AnnouncedOnce
    BY <2>1 DEF Init, LinkInit, Untouched, AnnouncedOnce, Announced
  <2>3. MapSound
    BY DEF Init, LinkInit, MapSound, WriterClosed
  <2>4. DistinctTokens
    BY <2>1 DEF Init, LinkInit, DistinctTokens, OpenLink, ReaderAlive, WriterAlive, InMap,
       Announced, Queued
  <2>5. InTokenOrder /\ FramesFirst /\ TokenIdentity
    BY <2>1 DEF Init, InTokenOrder, FramesFirst, TokenIdentity
  <2>6. FlagsSound
    BY <2>1 DEF Init, LinkInit, FlagsSound
  <2>7. AttachBeforeDetach /\ NoFrameAfterDetach /\ DetachCompletes
    BY DEF Init, LinkInit, AttachBeforeDetach, NoFrameAfterDetach, DetachCompletes,
       READ_WRITE_CLOSED, READ_CLOSED
  <2> QED
    BY <1>1, <2>2, <2>3, <2>4, <2>5, <2>6, <2>7 DEF IInv
<1> QED
  BY <1>2, InvStep, PTL DEF Spec

(* Whatever forward_loop does under a descriptor is done to the link that
   sent the message, however often the system reuses the descriptor. *)
THEOREM TokenIdentityHolds == Spec => []TokenIdentity
<1>1. IInv => TokenIdentity
  BY DEF IInv
<1> QED
  BY <1>1, Inductive, PTL

(* ATTACHED comes at most once, and before DETACHED. *)
THEOREM AttachBeforeDetachHolds == Spec => []AttachBeforeDetach
<1>1. IInv => AttachBeforeDetach
  BY DEF IInv
<1> QED
  BY <1>1, Inductive, PTL

(* No frame of a link is delivered after its DETACHED. *)
THEOREM NoFrameAfterDetachHolds == Spec => []NoFrameAfterDetach
<1>1. IInv => NoFrameAfterDetach
  BY DEF IInv
<1> QED
  BY <1>1, Inductive, PTL

(* A link both of whose bits were stored is detached, or will be told. *)
THEOREM DetachCompletesHolds == Spec => []DetachCompletes
<1>1. IInv => DetachCompletes
  BY DEF IInv
<1> QED
  BY <1>1, Inductive, PTL
=============================================================================
