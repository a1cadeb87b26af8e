----------------------------- MODULE ClientInv ------------------------------
(* The properties of Client and the fairness of its tasks. *)
EXTENDS Client

\* What is on its way to the application, oldest first.
Pending == inHand \o incoming

\* The session of the loops has been announced.
Opened == IF mantain = "announce" THEN session - 1 ELSE session

-----------------------------------------------------------------------------
(* Safety                                                                  *)

(* The application sees sessions one after the other: each is opened by one
   message with is_newly_handshaked flags, and every later message carries
   its token until the next is opened.  No message of a loop of session k is
   queued behind the opening of session k + 1, and none that says a loop
   closed looks newly handshaked although the two loops overwrite each
   other's flags (client.rs, mantain_loop, is_newly_handshaked). *)
SessionsInOrder ==
  /\ \A k \in told + 1..Opened :
       \E i \in 1..Len(Pending) : IsNewlyHandshaked(Pending[i]) /\ Pending[i].token = k
  /\ \A i \in 1..Len(Pending) :
       LET earlier == {j \in 1..i : IsNewlyHandshaked(Pending[j])}
       IN  IF earlier = {} THEN Pending[i].token = told
           ELSE LET j == CHOOSE j \in earlier : \A k \in earlier : k <= j
                IN  Pending[i].token = Pending[j].token
  /\ \A i, j \in 1..Len(Pending) :
       i < j /\ IsNewlyHandshaked(Pending[i]) /\ IsNewlyHandshaked(Pending[j])
         => Pending[i].token < Pending[j].token

(* What is queued while a session lasts is written in a later one only if it got
   into the channel behind the flush of its own write loop ("Flush the outgoing
   channel", client.rs, write_loop): try_send and the relay of forward_loop both
   can.  It is then written in the session after that and in none later, as the
   flush of that one drops it at the latest. *)
FlushDropsOld ==
  \A i \in 1..Len(outgoing) :
    LET item == outgoing[i]
    IN  /\ item.of \in {session - 1, session}
        /\ ~item.late => item.of = session /\ FlushToCome
        /\ item.of < session => FlushToCome

(* A session starts with neither closed flag, whatever the loops of the one
   before stored last (client.rs, remove_flags after both joins), and the
   loops never outlive mantain_loop's wait for them. *)
CleanStart ==
  /\ mantain \notin {"joinReader", "joinWriter", "panicked"} =>
       /\ reader = "done" /\ writer = "done"
       /\ flags \cap {"READ_CLOSED", "WRITE_CLOSED"} = {}
  /\ mantain = "joinReader" =>
       /\ "READ_CLOSED" \in flags => reader \in {"sample", "send", "done"}
       /\ "WRITE_CLOSED" \in flags => writer \in {"sample", "send", "done"}

-----------------------------------------------------------------------------
(* The sessions the application sees                                       *)

\* A session has a task from its handshake until both its loops are over.
Live ==
  \/ mantain \in {"announce", "settings"}
  \/ reader \notin {"done", "panicked"} \/ writer # "done"

S == INSTANCE Sessions WITH
       opened <- session, live <- Live, told <- told,
       finished <- mantain \in {"done", "panicked"}

(* The client implements Sessions: a reconnection waits for the end of both
   loops of the session before, even of the one that was told to end through
   two channels, and the application is told of every session exactly once,
   although loops that end report the same flags word (client.rs,
   mantain_loop, forward_loop, is_newly_handshaked). *)
ImplementsSessions == S!Spec

-----------------------------------------------------------------------------
(* The inductive invariant                                                 *)

Closed   == {"READ_CLOSED", "WRITE_CLOSED"}
HasStored == {"sample", "send", "done"}

\* The loops run only while mantain_loop waits for them, or has panicked.
LoopsAwaited ==
  /\ mantain = "joinWriter" => reader = "done"
  /\ Live => rawToken = session

\* A loop has loaded a closed flag only if the other one has stored it, and a
\* report carries one of them even if the other loop has overwritten its own.
FlagsStored ==
  /\ mantain = "joinReader" =>
       /\ reader = "store" /\ "WRITE_CLOSED" \in rlocal => writer \in HasStored
       /\ writer = "store" /\ "READ_CLOSED" \in wlocal => reader \in HasStored
  /\ reader = "sample" \/ writer = "sample" => flags \cap Closed # {}
  /\ reader = "send" => rlocal \cap Closed # {}
  /\ writer = "send" => wlocal \cap Closed # {}
  /\ mantain = "announce" => "HANDSHAKED" \in flags
  /\ mantain # "done" => "MANTAIN_LOOP_EXITED" \notin flags \cup rlocal \cup wlocal

\* What forward_loop relays is of the session the application is in.
RelayOfTold ==
  IF forward \in {"sample", "relay"}
  THEN /\ Len(inHand) = 1 /\ ToRelay(inHand[1])
       /\ inHand[1].token = told
  ELSE inHand = <<>>

\* The messages of channel q, when t sessions have been told and o announced:
\* those of a session are behind the one that opens it, those of an earlier
\* session are ahead of it, and each session not told yet has one.
InOrder(q, t, o) ==
  /\ t <= o
  /\ \A i \in 1..Len(q) : t <= q[i].token /\ q[i].token <= o
  /\ \A i, j \in 1..Len(q) : i < j => q[i].token <= q[j].token
  /\ \A i, j \in 1..Len(q) :
       i < j /\ IsNewlyHandshaked(q[j]) => q[i].token < q[j].token
  /\ \A i \in 1..Len(q) : IsNewlyHandshaked(q[i]) => t < q[i].token
  /\ \A i \in 1..Len(q) : t < q[i].token =>
       \E j \in 1..i : IsNewlyHandshaked(q[j]) /\ q[j].token = q[i].token
  /\ \A k \in t + 1..o :
       \E i \in 1..Len(q) : IsNewlyHandshaked(q[i]) /\ q[i].token = k

IncomingInOrder == InOrder(incoming, told, Opened)

(* What the proofs of the four properties above carry from step to step: how
   the flags of a report came about (client.rs, add_flags of the two loops)
   and in which order the three senders of the incoming channel use it. *)
IInv ==
  /\ CleanStart /\ FlushDropsOld
  /\ LoopsAwaited /\ FlagsStored /\ RelayOfTold /\ IncomingInOrder

-----------------------------------------------------------------------------
(* Fairness and liveness                                                   *)

\* The handshake and the loops wait for the peer only while it is connected.
ReaderEnds ==
  \/ conn # "open" /\ ReadBreak
  \/ ReaderLoad \/ ReaderStore \/ ReaderSample \/ ReaderSend
WriterEnds ==
  \/ conn # "open" /\ WriteItem
  \/ WriteBreak \/ Flush \/ WriterLoad \/ WriterStore \/ WriterSample \/ WriterSend
MantainRuns ==
  \/ conn # "open" /\ HandshakeFails
  \/ CheckExit \/ Connect \/ Delay
  \/ AnnounceSession \/ StartSession \/ JoinReader \/ JoinWriter \/ Finish

Fairness ==
  /\ WF_vars(MantainRuns) /\ WF_vars(ReaderEnds) /\ WF_vars(WriterEnds)
  /\ WF_vars(Forward) /\ WF_vars(Main)

FairSpec == Spec /\ Fairness

\* forward_loop waits for room in the outgoing channel.  If the application has
\* filled it behind a write loop that is past its flush and itself waits for
\* room in the incoming channel, nobody ever makes room again.
Stuck == [](Len(outgoing) = OutCap)

(* When the connection is gone the session ends: the reader's end reaches a
   writer that has nothing to write by way of both channels, and mantain_loop
   goes on, or fails if the reader did.  The one way to hang is Stuck
   (client.rs, read_loop, on_client_changed, write_loop, mantain_loop). *)
SessionEnds ==
  [](mantain = "joinReader" /\ conn # "open"
       => <>(mantain \notin {"joinReader", "joinWriter"} \/ Stuck))

(* The application is told of every session that is made, the later ones too,
   whose flags word has been through the hands of both loops (client.rs,
   mantain_loop, is_newly_handshaked). *)
SessionsAreTold ==
  \A k \in 1..MaxSessions : [](session >= k => <>(told >= k \/ Stuck))

(* shutdown ends mantain_loop, from any of its waits, unless the peer keeps a
   connection open (client.rs, is_exit_loop, delay_until_exit_loop). *)
ShutdownStopsMantain ==
  [](exitLoop => <>(mantain \in {"done", "panicked"} \/ conn = "open" \/ Stuck))

-----------------------------------------------------------------------------
(* What the repository's comments and assertions say                       *)

(* client.rs, ClientFlags: TERMINATED is "The client has been shutdown", and
   on_client_changed breaks forward_loop on MANTAIN_LOOP_EXITED. *)
MantainExitTerminates == mantain = "done" ~> main = "terminated"

(* client.rs, write_loop: "Break write loop when read loop exited". *)
BreaksWhenReaderExited ==
  [][writer = "recv" /\ writer' = "flush" /\ Head(outgoing).kind = "stop"
       => reader # "frames"]_vars
=============================================================================
