------------------------------- MODULE Timers --------------------------------
(***************************************************************************)
(* The timeouts by which accept_loop (src/server.rs) and mantain_loop      *)
(* (src/client.rs) notice a shutdown, and the pace of reconnection, of one *)
(* server and the clients that connect to it.  Both loops look at their    *)
(* exit flag only when a timed wait is over; a connection, of one of these *)
(* clients or of any other program, starts the server's wait anew.         *)
(*                                                                         *)
(* Time passes in ticks.  A timer is never early; it is late by at most    *)
(* Late ticks, which stands for everything the executor does meanwhile.    *)
(* The send of NewLink has no timer: it takes as long as the channel to    *)
(* forward_loop is full, for ever if forward_loop has panicked.            *)
(***************************************************************************)
EXTENDS Integers

CONSTANTS
  Clients,        \* the clients of this server
  Poll,           \* the 40 ms of both loops
  ReconnectDelay, \* RECONNECT_DELAY_MS, 3000 ms
  Late,           \* how late a timer may be
  MaxArrivals,    \* bound: connections accepted after shutdown
  MaxHeld         \* bound: ticks accept_loop waits for room after shutdown

ASSUME TimersAssumption ==
  /\ Poll \in Nat \ {0} /\ ReconnectDelay \in Nat /\ Late \in Nat
  /\ MaxArrivals \in Nat /\ MaxHeld \in Nat

VARIABLES
  accept,     \* where accept_loop is: in its timed wait, sending, past its loop
  acceptWait, \* how long it has waited for a connection
  exitAccept, \* exit_accept_loop
  overdue,    \* how long ago Server::shutdown was called
  arrivals,   \* how many connections have been accepted since
  held,       \* how long it has waited for room in the channel since
  mantain,    \* where mantain_loop is
  wait,       \* how long it has been in the wait it is in
  elapsed,    \* how long ago delay_until_exit_loop was entered
  exitLoop,   \* exit_loop
  exitWait    \* how long it has gone on after Client::shutdown, without a peer

serverVars == <<accept, acceptWait, exitAccept, overdue, arrivals, held>>
clientVars == <<mantain, wait, elapsed, exitLoop, exitWait>>
vars == <<serverVars, clientVars>>

Init ==
  /\ accept = "wait" /\ acceptWait = 0
  /\ exitAccept = FALSE /\ overdue = 0 /\ arrivals = 0 /\ held = 0
  /\ mantain  = [c \in Clients |-> "check"]
  /\ wait     = [c \in Clients |-> 0]
  /\ elapsed  = [c \in Clients |-> 0]
  /\ exitLoop = [c \in Clients |-> FALSE]
  /\ exitWait = [c \in Clients |-> 0]

\* A timeout of Poll may fire, and may not be put off any longer.
Fires(waited)  == waited >= Poll
Overrun(waited) == waited = Poll + Late

-----------------------------------------------------------------------------
(* accept_loop                                                             *)

\* A connection ends the wait, however long it has lasted; the flag is not
\* looked at.  It is one of these clients' or another program's.
AcceptConnection ==
  /\ accept = "wait"
  /\ accept' = "send"
  /\ arrivals' = IF exitAccept THEN arrivals + 1 ELSE arrivals
  /\ arrivals' <= MaxArrivals
  /\ acceptWait' = 0
  /\ UNCHANGED <<exitAccept, overdue, held, clientVars>>

\* trans_tx.send(NewLink): as soon as there is room, and the next timed wait
\* starts at zero.
SendNewLink ==
  /\ accept = "send"
  /\ accept' = "wait"
  /\ UNCHANGED <<acceptWait, exitAccept, overdue, arrivals, held, clientVars>>

\* incoming.next() fails: the loop is left whatever the flag says.
AcceptError ==
  /\ accept = "wait"
  /\ accept' = "done"
  /\ UNCHANGED <<acceptWait, exitAccept, overdue, arrivals, held, clientVars>>

\* Mutation: the flag must be seen at two timeouts in a row.
AcceptTimeoutTwice ==
  /\ accept = "wait"
  /\ Fires(acceptWait)
  /\ accept' = IF exitAccept /\ overdue > Poll + Late THEN "done" ELSE "wait"
  /\ acceptWait' = 0
  /\ UNCHANGED <<exitAccept, overdue, arrivals, held, clientVars>>

AcceptTimeout ==
  /\ accept = "wait"
  /\ Fires(acceptWait)
  /\ accept' = IF exitAccept THEN "done" ELSE "wait"
  /\ acceptWait' = 0
  /\ UNCHANGED <<exitAccept, overdue, arrivals, held, clientVars>>

ServerShutdown ==
  /\ ~exitAccept
  /\ exitAccept' = TRUE
  /\ UNCHANGED <<accept, acceptWait, overdue, arrivals, held, clientVars>>

-----------------------------------------------------------------------------
(* mantain_loop                                                            *)

Go(c, s) ==
  /\ mantain' = [mantain EXCEPT ![c] = s]
  /\ wait' = [wait EXCEPT ![c] = 0]
  /\ elapsed' = [elapsed EXCEPT ![c] = IF s \in {"delay", "sleep"} THEN @ ELSE 0]
  /\ UNCHANGED <<exitLoop, exitWait>>

CheckExit(c) ==
  /\ mantain[c] = "check"
  /\ Go(c, IF exitLoop[c] THEN "done" ELSE "connect")
  /\ UNCHANGED serverVars

\* The connection is made, by the kernel as long as the listener is there;
\* handshake and session have no timeout.
Connected(c) ==
  /\ mantain[c] = "connect"
  /\ accept # "done"
  /\ Go(c, "serving")
  /\ UNCHANGED serverVars

Refused(c) ==
  /\ mantain[c] = "connect"
  /\ Go(c, "delay")
  /\ UNCHANGED serverVars

\* A connect that times out is tried again at once.
ConnectTimeout(c) ==
  /\ mantain[c] = "connect"
  /\ Fires(wait[c])
  /\ Go(c, "check")
  /\ UNCHANGED serverVars

\* Mutation: the delay is slept through whatever the exit flag says.
DelayDeaf(c) ==
  /\ mantain[c] = "delay"
  /\ Go(c, IF elapsed[c] >= ReconnectDelay THEN "check" ELSE "sleep")
  /\ UNCHANGED serverVars

\* Mutation: the number of sleeps is counted, not the time.
DelayOnce(c) ==
  /\ mantain[c] = "delay"
  /\ Go(c, IF exitLoop[c] \/ elapsed[c] >= Poll THEN "check" ELSE "sleep")
  /\ UNCHANGED serverVars

\* delay_until_exit_loop: the head of its while loop ...
Delay(c) ==
  /\ mantain[c] = "delay"
  /\ Go(c, IF exitLoop[c] \/ elapsed[c] >= ReconnectDelay THEN "check" ELSE "sleep")
  /\ UNCHANGED serverVars

\* ... and the sleep of 40 ms in it.
Sleep(c) ==
  /\ mantain[c] = "sleep"
  /\ Fires(wait[c])
  /\ Go(c, "delay")
  /\ UNCHANGED serverVars

\* The session has ended: a client that reconnects does so at once, others,
\* and those whose handshake failed, leave the loop.
SessionOver(c) ==
  /\ mantain[c] = "serving"
  /\ Go(c, "check") \/ Go(c, "done")
  /\ UNCHANGED serverVars

ClientShutdown(c) ==
  /\ ~exitLoop[c]
  /\ exitLoop' = [exitLoop EXCEPT ![c] = TRUE]
  /\ UNCHANGED <<serverVars, mantain, wait, elapsed, exitWait>>

-----------------------------------------------------------------------------
(* Time                                                                    *)

\* What needs no waiting happens first, and so does a timer that is due.
Urgent ==
  \/ accept = "wait" /\ Overrun(acceptWait)
  \/ \E c \in Clients :
       \/ mantain[c] \in {"check", "delay"}
       \/ mantain[c] \in {"connect", "sleep"} /\ Overrun(wait[c])

Waits(c) == mantain[c] \in {"connect", "sleep"}

Tick ==
  /\ ~Urgent
  /\ acceptWait' = IF accept = "wait" THEN acceptWait + 1 ELSE acceptWait
  /\ overdue' = IF exitAccept /\ accept # "done" THEN overdue + 1 ELSE overdue
  /\ held' = IF exitAccept /\ accept = "send" THEN held + 1 ELSE held
  /\ held' <= MaxHeld
  /\ wait' = [c \in Clients |-> IF Waits(c) THEN wait[c] + 1 ELSE wait[c]]
  /\ elapsed' = [c \in Clients |-> IF mantain[c] = "sleep" THEN elapsed[c] + 1
                                   ELSE elapsed[c]]
  /\ exitWait' = [c \in Clients |-> IF exitLoop[c] /\ Waits(c) THEN exitWait[c] + 1
                                    ELSE exitWait[c]]
  /\ UNCHANGED <<accept, exitAccept, arrivals, mantain, exitLoop>>

Client(c) ==
  \/ CheckExit(c) \/ Connected(c) \/ Refused(c) \/ ConnectTimeout(c)
  \/ Delay(c) \/ Sleep(c) \/ SessionOver(c) \/ ClientShutdown(c)

Next ==
  \/ AcceptConnection \/ SendNewLink \/ AcceptTimeout \/ AcceptError \/ ServerShutdown \/ Tick
  \/ \E c \in Clients : Client(c)

Spec == Init /\ [][Next]_vars

-----------------------------------------------------------------------------
(* Properties                                                              *)

(* A server that has been told to shut down goes on accepting for one timeout,
   for one more per connection that arrives meanwhile, and for as long as it
   waits for room in the channel to forward_loop: clients that reconnect without
   a pause and a forward_loop that is busy or has panicked can hold it up for as
   long as they like, nothing else can (server.rs, accept_loop). *)
ShutdownDelayedByArrivals ==
  exitAccept /\ accept # "done" => overdue <= (arrivals + 1) * (Poll + Late) + held

(* A client that has been told to shut down and has no connection leaves
   mantain_loop within 40 ms, from a connect in progress as well as from the
   three seconds after a refusal (client.rs, delay_until_exit_loop, the
   timeout of connect). *)
ClientNoticesExit == \A c \in Clients : exitWait[c] <= Poll + Late

(* A refused client leaves the server alone for RECONNECT_DELAY_MS, and comes
   back no later than one sleep after it (client.rs, delay_until_exit_loop). *)
ReconnectPaced ==
  [][\A c \in Clients : mantain[c] = "delay" /\ mantain'[c] = "check"
       => exitLoop[c] \/ elapsed[c] \in ReconnectDelay .. ReconnectDelay + Poll + Late - 1]_vars

-----------------------------------------------------------------------------
(* The inductive invariant                                                 *)

Typed ==
  /\ accept \in {"wait", "send", "done"} /\ acceptWait \in Nat
  /\ exitAccept \in BOOLEAN /\ overdue \in Nat /\ arrivals \in Nat /\ held \in Nat
  /\ mantain \in [Clients -> {"check", "connect", "delay", "sleep", "serving", "done"}]
  /\ wait \in [Clients -> Nat] /\ elapsed \in [Clients -> Nat]
  /\ exitLoop \in [Clients -> BOOLEAN] /\ exitWait \in [Clients -> Nat]

\* No timed wait is longer than a timer that is late; the time since the server
\* was told is the wait it is in, one per arrival, and what it was held for.
ServerOnTime ==
  /\ acceptWait <= Poll + Late
  /\ accept = "send" => acceptWait = 0
  /\ ~exitAccept => overdue = 0
  /\ exitAccept /\ accept # "done" =>
       overdue <= arrivals * (Poll + Late) + acceptWait + held

\* A client that has been told starts no further wait.
ClientOnTime(c) ==
  /\ Waits(c) => wait[c] <= Poll + Late
  /\ ~exitLoop[c] => exitWait[c] = 0
  /\ Waits(c) => exitWait[c] <= wait[c]
  /\ exitWait[c] <= Poll + Late

\* A sleep of the delay after a refusal begins before the delay is over.
DelayOnTime(c) ==
  /\ mantain[c] \notin {"delay", "sleep"} => elapsed[c] = 0
  /\ mantain[c] = "sleep" => elapsed[c] < ReconnectDelay + wait[c]
  /\ mantain[c] = "delay" => elapsed[c] < ReconnectDelay + Poll + Late

(* What the proofs of the three properties carry from step to step: how long
   each wait of the two loops can have lasted (server.rs, accept_loop;
   client.rs, mantain_loop, delay_until_exit_loop). *)
IInv ==
  /\ Typed /\ ServerOnTime
  /\ \A c \in Clients : ClientOnTime(c) /\ DelayOnTime(c)
=============================================================================
