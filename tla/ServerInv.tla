----------------------------- MODULE ServerInv ------------------------------
(***************************************************************************)
(* The properties of Server, the inductive invariant behind its safety     *)
(* theorems, and the fairness of its tasks.                                *)
(***************************************************************************)
EXTENDS Server

\* The queued messages of a link: a NewLink, a frame or a LinkChanged.
FromLink(i) == trans[i].kind # "exited"
FrameAt(i)  == trans[i].kind \in Frames
ChangedAt(i, f) == trans[i].kind = "changed" /\ f \in trans[i].flags
Queued      == 1..Len(trans)

ReaderClosed(l) == reader[l] \in {"sample", "send", "done"}
WriterClosed(l) == writer[l] \in {"sample", "send", "done"}

-----------------------------------------------------------------------------
(* Safety                                                                  *)

(* A token names one connection for as long as anything about it is still
   to be handled.  forward_loop looks a link up by descriptor, and
   descriptors are reused: yet whatever it does for a queued message, or for
   the SETTINGS it is acknowledging, hits the link that sent the message or
   none, and a NewLink never overwrites an entry (server.rs, forward_loop). *)
TokenIdentity ==
  /\ \A i \in Queued : FromLink(i) =>
       links[token[trans[i].link]] \in
         (IF trans[i].kind = "new" THEN {None} ELSE {None, trans[i].link})
  /\ replyTo # None => links[token[replyTo]] \in {None, replyTo}

(* The callbacks of a link come in order: ATTACHED at most once, DETACHED
   only after it, although both loops run before NewLink is sent and their
   LinkChanged messages may overtake it (Link::new, accept_loop). *)
AttachBeforeDetach ==
  \A l \in Links : /\ attached[l] <= 1
                   /\ detached[l] > 0 => attached[l] = 1

(* DETACHED is the last the application hears of a link's data: by then both
   loops have recorded their end and no frame of the link is left in the
   channel (link.rs, the order of add_flags and the two sends). *)
NoFrameAfterDetach ==
  \A l \in Links : detached[l] > 0 =>
    /\ ReaderClosed(l) /\ WriterClosed(l)
    /\ \A i \in Queued : FrameAt(i) => trans[i].link # l

(* Reports of a link that read READ_WRITE_CLOSED, sent or about to be. *)
ReportsBoth(l) ==
  \/ reader[l] = "sample" \/ writer[l] = "sample"
  \/ reader[l] = "send" /\ rlocal[l] = READ_WRITE_CLOSED
  \/ writer[l] = "send" /\ wlocal[l] = READ_WRITE_CLOSED
  \/ \E i \in Queued : trans[i] = ChangedMsg(l, READ_WRITE_CLOSED)

(* Losing a flag is the only way a finished link can stay attached: if both
   bits made it into the word, DETACHED has been delivered or its message is
   on its way, whichever loop stored last (link.rs, add_flags then flags). *)
DetachCompletes ==
  \A l \in Links :
    flags[l] = READ_WRITE_CLOSED => ReportsBoth(l) \/ detached[l] > 0

-----------------------------------------------------------------------------
(* The registry the application sees                                       *)

Life == [l \in Links |-> IF detached[l] > 0 THEN "detached"
                         ELSE IF attached[l] > 0 THEN "attached" ELSE "new"]
Phase == IF main = "terminated" THEN "terminated"
         ELSE IF fwd = "done" THEN "stopped"
         ELSE IF fwd = "panicked" THEN "failed" ELSE "serving"

R == INSTANCE Registry WITH owner <- links, life <- Life, phase <- Phase

(* The server implements the registry: attach under a free descriptor, once;
   detach once, of the right link, even when both loops report both flags;
   nothing after FORWARD_LOOP_EXITED (server.rs, forward_loop). *)
ImplementsRegistry == R!Spec

-----------------------------------------------------------------------------
(* The inductive invariant                                                 *)

\* A connection not yet accepted has left no trace.
Untouched ==
  \A l \in Links :
    \/ /\ peer[l] # "none" /\ token[l] \in Tokens
       /\ reader[l] # "idle" /\ writer[l] # "idle"
    \/ /\ peer[l] = "none" /\ token[l] = None
       /\ reader[l] = "idle" /\ writer[l] = "idle"
       /\ announcing # l /\ attached[l] = 0
       /\ \A i \in Queued : trans[i].link # l

\* A link is announced once: it is being sent, queued or attached.
AnnouncedOnce ==
  /\ announcing # None <=> accept = "announce"
  /\ announcing # None => attached[announcing] = 0 /\ ~Announced(announcing)
  /\ \A i \in Queued : trans[i].kind = "new" =>
       /\ attached[trans[i].link] = 0
       /\ \A j \in Queued : trans[j].kind = "new" /\ trans[j].link = trans[i].link => i = j
  /\ \A i \in Queued : FromLink(i) <=> trans[i].link \in Links
  /\ fwd = "ack" <=> replyTo # None
  /\ replyTo # None => token[replyTo] \in Tokens

\* The map holds links under their own token, from ATTACHED to DETACHED;
\* nothing is sent to a link, nor held by the application, before ATTACHED.
MapSound ==
  /\ \A t \in Tokens : links[t] # None =>
       token[links[t]] = t /\ attached[links[t]] = 1 /\ detached[links[t]] = 0
  /\ \A l \in Links : l \in held \/ outgoing[l] # <<>> \/ WriterClosed(l)
                                 \/ writer[l] = "store" => attached[l] = 1

\* Open sockets have distinct descriptors.
DistinctTokens ==
  \A k, l \in Links : OpenLink(k) /\ OpenLink(l) /\ token[k] = token[l] => k = l

\* No other link of the same descriptor is attached, or announced ahead of a
\* queued message.
InTokenOrder ==
  \A i \in Queued : FromLink(i) =>
    /\ InMap(trans[i].link) \/ links[token[trans[i].link]] = None
    /\ \A j \in 1..i - 1 :
         /\ trans[j].kind = "new"
         /\ token[trans[j].link] = token[trans[i].link]
         => trans[j].link = trans[i].link

\* A bit is set, loaded or reported only after its loop has stored it.
FlagsSound ==
  /\ \A l \in Links :
       /\ flags[l] \cup rlocal[l] \cup wlocal[l] \subseteq READ_WRITE_CLOSED
       /\ "READ_CLOSED" \in flags[l] \cup rlocal[l] \cup wlocal[l] => ReaderClosed(l)
       /\ "WRITE_CLOSED" \in flags[l] \cup rlocal[l] \cup wlocal[l] => WriterClosed(l)
  /\ \A i \in Queued :
       /\ ChangedAt(i, "READ_CLOSED") => ReaderClosed(trans[i].link)
       /\ ChangedAt(i, "WRITE_CLOSED") => WriterClosed(trans[i].link)

\* Nothing of a link's data follows its READ_CLOSED.
FramesFirst ==
  \A i, j \in Queued :
    ChangedAt(i, "READ_CLOSED") /\ FrameAt(j) /\ trans[i].link = trans[j].link => j < i

IInv ==
  /\ TypeOK /\ Untouched /\ AnnouncedOnce /\ MapSound /\ DistinctTokens
  /\ InTokenOrder /\ FlagsSound /\ FramesFirst
  /\ TokenIdentity /\ AttachBeforeDetach /\ NoFrameAfterDetach /\ DetachCompletes

\* Besides: an attached link is in the map until its DETACHED, and TERMINATED
\* comes after FORWARD_LOOP_EXITED.
Registered ==
  /\ \A l \in Links : attached[l] = 1 /\ detached[l] = 0 => InMap(l)
  /\ main = "terminated" => fwd = "done"

-----------------------------------------------------------------------------
(* Fairness and liveness                                                   *)

\* read_loop from the moment its input ends: while the peer is connected and
\* silent it may wait for ever.
ReaderEnds(l) ==
  /\ \/ peer[l] = "closed" /\ (ReadPreface(l) \/ ReadUpgrade(l)
                                \/ ReadPrefaceAgain(l) \/ ReadBreak(l))
     \/ ReaderStore(l) \/ ReaderSample(l) \/ ReaderSend(l)
  /\ UNCHANGED serverVars

\* write_loop, except that a peer which stays and does not read may block a
\* write for ever; once it is gone the write ends or fails.
WriterEnds(l) ==
  /\ \/ peer[l] = "closed" /\ WriteItem(l)
     \/ WriteBreak(l) \/ WriterStore(l) \/ WriterSample(l) \/ WriterSend(l)
  /\ UNCHANGED serverVars

\* Every other task is runnable on the executor's threads whenever its step is
\* enabled, so each is weakly fair; the peers and the application owe nothing.
Fairness ==
  /\ WF_vars(Bind) /\ WF_vars(Announce)
  /\ WF_vars(AcceptTimeout) /\ WF_vars(ReportExited)
  /\ WF_vars(Forward) /\ WF_vars(Main)
  /\ \A l \in Links : WF_vars(ReaderEnds(l)) /\ WF_vars(WriterEnds(l))

FairSpec == Spec /\ Fairness

(* shutdown ends the server: the accept loop sees the flag when arrivals
   pause, its exit message gets through the links' traffic and f receives
   TERMINATED -- unless bind had failed or the forward loop has panicked. *)
ShutdownEnds ==
  exitAccept ~> (main = "terminated" \/ accept = "failed" \/ fwd = "panicked")

(* Once the peer is gone, a READ_CLOSED relayed to a write loop that is still
   serving leads to DETACHED: the loop reaches it behind all queued writes (or
   fails on one of them), sees both bits, and its message comes back through
   the channel (link.rs, write_loop; server.rs, forward_loop). *)
RelayedCloseDetaches ==
  \A l \in Links :
    (/\ peer[l] = "closed" /\ writer[l] = "recv"
     /\ \E i \in 1..Len(outgoing[l]) : outgoing[l][i] = "stop")
      ~> (detached[l] > 0 \/ fwd \in {"done", "panicked"})

-----------------------------------------------------------------------------
(* What the repository's tests, comments and assertions say                *)

(* lib.rs, test_attach_and_detach: attached_links equals detached_links once
   every client is gone, so no link is detached more often than attached. *)
DetachedNoMoreThanAttached == \A l \in Links : detached[l] <= attached[l]

(* The same test: while the server runs, a link whose client is gone is
   detached. *)
ClosedLinksDetach ==
  \A l \in Links : (peer[l] = "closed" /\ attached[l] = 1)
    ~> (detached[l] > 0 \/ fwd \in {"done", "panicked"})
=============================================================================
