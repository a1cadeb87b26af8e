------------------------------- MODULE Server -------------------------------
(***************************************************************************)
(* The server (src/server.rs) around its links: accept_loop, forward_loop, *)
(* the thread of Server::spawn that joins both, and the application, which *)
(* receives every callback f(...) and holds links obtained by find_link.   *)
(***************************************************************************)
EXTENDS Link

VARIABLES
  accept,     \* where accept_loop is
  announcing, \* the link whose NewLink accept_loop is sending
  exitAccept, \* exit_accept_loop, set by shutdown
  links,      \* the map from tokens to attached links
  fwd,        \* where forward_loop is
  replyTo,    \* the link whose SETTINGS forward_loop is acknowledging
  main,       \* which task the spawned thread is joining
  held,       \* links the application holds a clone of
  attached,   \* how many ATTACHED callbacks each link has had
  detached    \* how many DETACHED callbacks each link has had

serverVars == <<accept, announcing, exitAccept, links, fwd, replyTo, main,
                held, attached, detached>>
vars == <<linkVars, trans, serverVars>>

AcceptState  == {"bind", "accept", "announce", "exiting", "done", "failed"}
ForwardState == {"recv", "ack", "done", "panicked"}
MainState    == {"accept", "forward", "terminated", "panicked"}

TypeOK ==
  /\ LinkTypeOK
  /\ accept     \in AcceptState
  /\ announcing \in Links \cup {None}
  /\ exitAccept \in BOOLEAN
  /\ links      \in [Tokens -> Links \cup {None}]
  /\ fwd        \in ForwardState
  /\ replyTo    \in Links \cup {None}
  /\ main       \in MainState
  /\ held       \subseteq Links
  /\ attached   \in [Links -> Nat]
  /\ detached   \in [Links -> Nat]

Init ==
  /\ LinkInit
  /\ accept     = "bind"
  /\ announcing = None
  /\ exitAccept = FALSE
  /\ links      = [t \in Tokens |-> None]
  /\ fwd        = "recv"
  /\ replyTo    = None
  /\ main       = "accept"
  /\ held       = {}
  /\ attached   = [l \in Links |-> 0]
  /\ detached   = [l \in Links |-> 0]

-----------------------------------------------------------------------------
(* The socket of a link is closed when the last Arc<Link> is dropped: the  *)
(* two tasks, the map, a NewLink being sent or queued, the application.    *)

InMap(l)     == token[l] \in Tokens /\ links[token[l]] = l
Announced(l) == \E i \in 1..Len(trans) : trans[i].kind = "new" /\ trans[i].link = l

\* Mutation: the two tasks hold weak references.
OpenLinkWithoutTasks(l) ==
  InMap(l) \/ Announced(l) \/ announcing = l \/ l \in held

OpenLink(l) ==
  \/ ReaderAlive(l) \/ WriterAlive(l)
  \/ InMap(l) \/ Announced(l) \/ announcing = l
  \/ l \in held

-----------------------------------------------------------------------------
(* accept_loop                                                             *)

GoAccept(s) ==
  /\ accept' = s
  /\ UNCHANGED <<exitAccept, links, fwd, replyTo, main, held, attached, detached>>

\* TcpListener::bind; an error is returned at once, with no message sent.
Bind ==
  /\ accept = "bind"
  /\ GoAccept("accept") \/ GoAccept("failed")
  /\ UNCHANGED <<linkVars, trans, announcing>>

Accept(l, t) ==
  /\ accept = "accept"
  /\ \A k \in Links : OpenLink(k) => token[k] # t
  /\ NewLink(l, t)
  /\ announcing' = l
  /\ GoAccept("announce")

Announce ==
  /\ accept = "announce"
  /\ Report(NewLinkMsg(announcing))
  /\ announcing' = None
  /\ GoAccept("accept")
  /\ UNCHANGED linkVars

\* Any failure of accept ends the loop ...
AcceptError ==
  /\ accept = "accept"
  /\ GoAccept("exiting")
  /\ UNCHANGED <<linkVars, trans, announcing>>

\* ... and so does shutdown, once 40 ms have passed without a connection.
AcceptTimeout ==
  /\ accept = "accept"
  /\ exitAccept
  /\ GoAccept("exiting")
  /\ UNCHANGED <<linkVars, trans, announcing>>

\* Mutation: try_send instead of send.
TryReportExited ==
  /\ accept = "exiting"
  /\ IF Room THEN Report(ExitedMsg) ELSE UNCHANGED trans
  /\ GoAccept("done")
  /\ UNCHANGED <<linkVars, announcing>>

ReportExited ==
  /\ accept = "exiting"
  /\ Report(ExitedMsg)
  /\ GoAccept("done")
  /\ UNCHANGED <<linkVars, announcing>>

-----------------------------------------------------------------------------
(* forward_loop                                                            *)

Take(m) ==
  /\ fwd = "recv"
  /\ trans # <<>>
  /\ m = Head(trans)
  /\ trans' = Tail(trans)
  /\ UNCHANGED <<accept, announcing, exitAccept, main, held>>

\* send_to finds the link by its token and try_sends to it.
Reachable(t) == links[t] # None /\ CanSend(links[t])
SendTo(t, item) ==
  /\ Send(links[t], item)
  /\ UNCHANGED <<token, peer, reader, writer, rlocal, wlocal, flags>>

\* DATA and HEADERS go to the application; a SETTINGS ack, GOAWAY and
\* WINDOW_UPDATE are dropped; so is LinkChanged with WRITE_CLOSED alone.
ForwardOrDrop(m) ==
  /\ Take(m)
  /\ \/ m.kind \in {"data", "other"}
     \/ m.kind = "changed" /\ m.flags \notin {READ_CLOSED, READ_WRITE_CLOSED}
  /\ UNCHANGED <<linkVars, links, fwd, replyTo, attached, detached>>

\* SETTINGS is echoed, then acknowledged; both send_to calls are unwrapped.
ForwardSettings(m) ==
  /\ Take(m)
  /\ m.kind = "settings"
  /\ \/ /\ Reachable(token[m.link])
        /\ SendTo(token[m.link], "write")
        /\ fwd' = "ack" /\ replyTo' = m.link
     \/ /\ ~Reachable(token[m.link])
        /\ fwd' = "panicked"
        /\ UNCHANGED <<linkVars, replyTo>>
  /\ UNCHANGED <<links, attached, detached>>

AckSettings ==
  /\ fwd = "ack"
  /\ \/ /\ Reachable(token[replyTo])
        /\ SendTo(token[replyTo], "write")
        /\ fwd' = "recv"
     \/ /\ ~Reachable(token[replyTo])
        /\ fwd' = "panicked"
        /\ UNCHANGED linkVars
  /\ replyTo' = None
  /\ UNCHANGED <<trans, accept, announcing, exitAccept, links, main, held,
                 attached, detached>>

ForwardNewLink(m) ==
  /\ Take(m)
  /\ m.kind = "new"
  /\ links'    = [links EXCEPT ![token[m.link]] = m.link]
  /\ attached' = [attached EXCEPT ![m.link] = @ + 1]
  /\ UNCHANGED <<linkVars, fwd, replyTo, detached>>

\* The reader is gone: tell the writer.  A failed send_to is only logged.
ForwardReadClosed(m) ==
  /\ Take(m)
  /\ m.kind = "changed"
  /\ m.flags = READ_CLOSED
  /\ \/ Reachable(token[m.link]) /\ SendTo(token[m.link], "stop")
     \/ ~Reachable(token[m.link]) /\ UNCHANGED linkVars
  /\ UNCHANGED <<links, fwd, replyTo, attached, detached>>

\* Mutation: the first flag is tested instead of the whole word.
ForwardDetachOnRead(m) ==
  /\ Take(m)
  /\ m.kind = "changed"
  /\ "READ_CLOSED" \in m.flags
  /\ links'    = [links EXCEPT ![token[m.link]] = None]
  /\ detached' = [detached EXCEPT ![m.link] = @ + 1]
  /\ UNCHANGED <<linkVars, fwd, replyTo, attached>>

\* Mutation: the second flag is tested instead of the whole word.
ForwardDetachOnWrite(m) ==
  /\ Take(m)
  /\ m.kind = "changed"
  /\ "WRITE_CLOSED" \in m.flags
  /\ links'    = [links EXCEPT ![token[m.link]] = None]
  /\ detached' = [detached EXCEPT ![m.link] = @ + 1]
  /\ UNCHANGED <<linkVars, fwd, replyTo, attached>>

\* Mutation: the link stays in the map.
ForwardDetachKeeps(m) ==
  /\ Take(m)
  /\ m.kind = "changed"
  /\ m.flags = READ_WRITE_CLOSED
  /\ detached' = [detached EXCEPT ![m.link] = @ + 1]
  /\ UNCHANGED <<linkVars, links, fwd, replyTo, attached>>

ForwardDetach(m) ==
  /\ Take(m)
  /\ m.kind = "changed"
  /\ m.flags = READ_WRITE_CLOSED
  /\ links'    = [links EXCEPT ![token[m.link]] = None]
  /\ detached' = [detached EXCEPT ![m.link] = @ + 1]
  /\ UNCHANGED <<linkVars, fwd, replyTo, attached>>

\* ACCEPT_LOOP_EXITED: f(FORWARD_LOOP_EXITED), and the loop ends.
ForwardExited(m) ==
  /\ Take(m)
  /\ m.kind = "exited"
  /\ fwd' = "done"
  /\ UNCHANGED <<linkVars, links, replyTo, attached, detached>>

Handle(m) ==
  \/ ForwardOrDrop(m) \/ ForwardSettings(m) \/ ForwardNewLink(m)
  \/ ForwardReadClosed(m) \/ ForwardDetach(m) \/ ForwardExited(m)

Forward == (trans # <<>> /\ Handle(Head(trans))) \/ AckSettings

-----------------------------------------------------------------------------
(* Server::spawn and the application                                       *)

\* block_on: t1.await, whatever accept_loop returned, then t2.await, which
\* gives f back for TERMINATED, or panics if forward_loop did.
JoinAccept ==
  /\ main = "accept"
  /\ accept \in {"done", "failed"}
  /\ main' = "forward"
  /\ UNCHANGED <<linkVars, trans, accept, announcing, exitAccept, links, fwd,
                 replyTo, held, attached, detached>>

JoinForward ==
  /\ main = "forward"
  /\ \/ fwd = "done" /\ main' = "terminated"
     \/ fwd = "panicked" /\ main' = "panicked"
  /\ UNCHANGED <<linkVars, trans, accept, announcing, exitAccept, links, fwd,
                 replyTo, held, attached, detached>>

Main == JoinAccept \/ JoinForward

appVars == <<trans, accept, announcing, links, fwd, replyTo, main, attached, detached>>

Shutdown ==
  /\ ~exitAccept
  /\ exitAccept' = TRUE
  /\ UNCHANGED <<linkVars, appVars, held>>

\* find_link under the read lock; the clone outlives the lock.
FindLink(l) ==
  /\ InMap(l) /\ l \notin held
  /\ held' = held \cup {l}
  /\ UNCHANGED <<linkVars, appVars, exitAccept>>

DropLink(l) ==
  /\ l \in held
  /\ held' = held \ {l}
  /\ UNCHANGED <<linkVars, appVars, exitAccept>>

\* Link::send on a held link, which may have been detached since.
AppSend(l) ==
  /\ l \in held
  /\ CanSend(l)
  /\ Send(l, "write")
  /\ UNCHANGED <<token, peer, reader, writer, rlocal, wlocal, flags>>
  /\ UNCHANGED <<appVars, exitAccept, held>>

App == Shutdown \/ \E l \in Links : FindLink(l) \/ DropLink(l) \/ AppSend(l)

-----------------------------------------------------------------------------

LinkStep(l) == (PeerCloses(l) \/ Reader(l) \/ Writer(l)) /\ UNCHANGED serverVars

AcceptLoop ==
  \/ Bind \/ Announce \/ AcceptError \/ AcceptTimeout \/ ReportExited
  \/ \E l \in Links, t \in Tokens : Accept(l, t)

Next == AcceptLoop \/ Forward \/ Main \/ App \/ \E l \in Links : LinkStep(l)

Spec == Init /\ [][Next]_vars
=============================================================================
