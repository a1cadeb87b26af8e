---------------------------- MODULE TimersProofs ----------------------------
(***************************************************************************)
(* The bounds on shutdown and reconnection, for any number of clients and  *)
(* whatever the timeouts, the delay and the lateness of timers are.        *)
(***************************************************************************)
EXTENDS Timers, TLAPS

USE TimersAssumption

\* How long a wait can last.
Longest == Poll + Late

LEMMA LongestFacts == Longest \in Nat \ {0} /\ Poll <= Longest
BY DEF Longest

LEMMA OneMore ==
  ASSUME NEW n \in Nat
  PROVE  (n + 1) * Longest = n * Longest + Longest /\ n * Longest \in Nat
<1>1. Longest \in Nat
  BY LongestFacts
<1> QED
  BY <1>1

-----------------------------------------------------------------------------
(* accept_loop                                                             *)

LEMMA ServerAlone ==
  ASSUME IInv, \/ AcceptConnection \/ SendNewLink \/ AcceptTimeout \/ AcceptError
               \/ ServerShutdown
  PROVE  IInv'
<1> USE DEF AcceptConnection, SendNewLink, AcceptTimeout, AcceptError, ServerShutdown
<1>0. /\ Typed /\ ServerOnTime
      /\ acceptWait \in Nat /\ overdue \in Nat /\ arrivals \in Nat /\ held \in Nat
      /\ exitAccept \in BOOLEAN /\ arrivals * Longest \in Nat /\ Longest \in Nat
  BY OneMore, LongestFacts DEF IInv, Typed
<1>1. UNCHANGED clientVars
  OBVIOUS
<1>2. \A c \in Clients : (ClientOnTime(c) /\ DelayOnTime(c))'
  BY <1>1 DEF IInv, ClientOnTime, DelayOnTime, Waits, clientVars
<1>3. Typed'
  <2>1. /\ accept' \in {"wait", "send", "done"} /\ acceptWait' \in Nat /\ overdue' \in Nat
        /\ arrivals' \in Nat /\ held' \in Nat
    BY <1>0 DEF Typed
  <2>2. exitAccept' = exitAccept \/ exitAccept' = TRUE
    BY Zenon
  <2>3. exitAccept' \in BOOLEAN
    BY <1>0, <2>2, Zenon
  <2> QED
    BY <1>0, <1>1, <2>1, <2>3 DEF Typed, clientVars
\* An arrival starts a wait of its own, and what was waited so far is at most one.
<1>4. CASE AcceptConnection
  <2>1. /\ accept = "wait" /\ accept' = "send" /\ acceptWait' = 0
        /\ UNCHANGED <<overdue, exitAccept, held>>
        /\ exitAccept => arrivals' = arrivals + 1
    BY <1>4
  <2>2. exitAccept => overdue' <= arrivals' * Longest + acceptWait' + held'
    <3> SUFFICES ASSUME exitAccept
                 PROVE  overdue <= arrivals' * Longest + acceptWait' + held
      BY <2>1
    <3>1. overdue <= arrivals * Longest + acceptWait + held /\ acceptWait <= Longest
      BY <1>0, <2>1 DEF ServerOnTime, Longest
    <3>2. arrivals' * Longest = arrivals * Longest + Longest
      BY <1>0, <2>1, OneMore
    <3> QED
      BY <1>0, <2>1, <3>1, <3>2
  <2>3. ServerOnTime'
    BY <1>0, <2>1, <2>2 DEF ServerOnTime, Longest
  <2> QED
    BY <1>2, <1>3, <2>3 DEF IInv
<1>5. CASE SendNewLink
  <2>1. ServerOnTime'
    BY <1>0, <1>5 DEF ServerOnTime, Longest
  <2> QED
    BY <1>2, <1>3, <2>1 DEF IInv
<1>6. CASE AcceptTimeout
  <2>1. /\ acceptWait' = 0 /\ UNCHANGED <<overdue, arrivals, exitAccept, held>>
        /\ accept' \in {"wait", "done"} /\ (exitAccept => accept' = "done")
    BY <1>6
  <2>2. ServerOnTime'
    BY <1>0, <2>1 DEF ServerOnTime, Longest
  <2> QED
    BY <1>2, <1>3, <2>2 DEF IInv
<1>7. CASE AcceptError
  <2>1. UNCHANGED <<acceptWait, exitAccept, overdue>> /\ accept' = "done"
    BY <1>7
  <2>2. ServerOnTime'
    BY <1>0, <2>1 DEF ServerOnTime
  <2> QED
    BY <1>2, <1>3, <2>2 DEF IInv
<1>8. CASE ServerShutdown
  <2>1. /\ overdue' = 0 /\ UNCHANGED <<accept, acceptWait, arrivals, held>>
        /\ exitAccept'
    BY <1>0, <1>8 DEF ServerOnTime
  <2>2. 0 <= arrivals * Longest + acceptWait + held
    BY <1>0
  <2>3. ServerOnTime'
    BY <1>0, <2>1, <2>2 DEF ServerOnTime, Longest
  <2> QED
    BY <1>2, <1>3, <2>3 DEF IInv
<1> QED
  BY <1>4, <1>5, <1>6, <1>7, <1>8

-----------------------------------------------------------------------------
(* mantain_loop                                                            *)

\* A step of one client concerns no other.
LEMMA OneClient ==
  ASSUME IInv, NEW c \in Clients, NEW s \in {"check", "connect", "delay", "sleep", "serving", "done"},
         Go(c, s), UNCHANGED serverVars,
         s \in {"connect", "sleep"} => ~exitLoop[c],
         s = "sleep" => elapsed[c] < ReconnectDelay,
         s = "delay" => elapsed[c] < ReconnectDelay + Poll + Late
  PROVE  IInv'
<1>1. Typed' /\ ServerOnTime'
  BY DEF IInv, Typed, ServerOnTime, Go, serverVars
<1>2. ASSUME NEW d \in Clients
      PROVE  (ClientOnTime(d) /\ DelayOnTime(d))'
  <2>0. /\ wait[d] \in Nat /\ exitWait[d] \in Nat /\ elapsed[d] \in Nat
        /\ ClientOnTime(d) /\ DelayOnTime(d)
    BY DEF IInv, Typed
  <2>1. CASE d = c
    <3>1. /\ mantain'[d] = s /\ wait'[d] = 0 /\ exitWait'[d] = exitWait[d]
          /\ exitLoop'[d] = exitLoop[d]
          /\ elapsed'[d] = IF s \in {"delay", "sleep"} THEN elapsed[d] ELSE 0
      BY <2>1 DEF Go, IInv, Typed
    <3>2. ClientOnTime(d)'
      BY <2>0, <2>1, <3>1 DEF ClientOnTime, Waits
    <3>3. DelayOnTime(d)'
      BY <2>0, <2>1, <3>1 DEF DelayOnTime
    <3> QED
      BY <3>2, <3>3
  <2>2. CASE d # c
    <3>1. /\ mantain'[d] = mantain[d] /\ wait'[d] = wait[d] /\ exitWait'[d] = exitWait[d]
          /\ exitLoop'[d] = exitLoop[d] /\ elapsed'[d] = elapsed[d]
      BY <2>2 DEF Go, IInv, Typed
    <3> QED
      BY <2>0, <3>1 DEF ClientOnTime, DelayOnTime, Waits
  <2> QED
    BY <2>1, <2>2
<1> QED
  BY <1>1, <1>2 DEF IInv

LEMMA ClientStep ==
  ASSUME IInv, NEW c \in Clients, Client(c)
  PROVE  IInv'
<1>0. /\ Typed /\ ServerOnTime /\ ClientOnTime(c) /\ DelayOnTime(c)
      /\ wait[c] \in Nat /\ elapsed[c] \in Nat
  BY DEF IInv, Typed
<1>1. CASE Connected(c)
  BY <1>1, OneClient DEF Connected
<1>2. CASE ClientShutdown(c)
  <2>1. Typed' /\ ServerOnTime'
    BY <1>0, <1>2 DEF ClientShutdown, Typed, ServerOnTime, serverVars
  <2>2. ASSUME NEW d \in Clients PROVE (ClientOnTime(d) /\ DelayOnTime(d))'
    <3>1. /\ UNCHANGED <<mantain, wait, elapsed, exitWait>>
          /\ ~exitLoop'[d] => ~exitLoop[d]
      BY <1>0, <1>2 DEF ClientShutdown, Typed
    <3> QED
      BY <3>1 DEF IInv, ClientOnTime, DelayOnTime, Waits
  <2> QED
    BY <2>1, <2>2 DEF IInv
<1>3. CASE CheckExit(c)
  <2>1. \/ Go(c, "done")
        \/ Go(c, "connect") /\ ~exitLoop[c]
    BY <1>3 DEF CheckExit
  <2> QED
    BY <1>3, <2>1, OneClient DEF CheckExit
<1>4. CASE Refused(c)
  <2>1. elapsed[c] = 0 /\ Go(c, "delay") /\ UNCHANGED serverVars
    BY <1>0, <1>4 DEF Refused, DelayOnTime
  <2>2. elapsed[c] < ReconnectDelay + Poll + Late
    BY <2>1
  <2> QED
    BY <2>1, <2>2, OneClient
<1>5. CASE ConnectTimeout(c) \/ SessionOver(c)
  BY <1>5, OneClient DEF ConnectTimeout, SessionOver
<1>6. CASE Delay(c)
  <2>1. \/ Go(c, "check")
        \/ Go(c, "sleep") /\ ~exitLoop[c] /\ elapsed[c] < ReconnectDelay
    BY <1>0, <1>6 DEF Delay
  <2> QED
    BY <1>6, <2>1, OneClient DEF Delay
<1>7. CASE Sleep(c)
  <2>1. /\ Go(c, "delay") /\ UNCHANGED serverVars
        /\ elapsed[c] < ReconnectDelay + wait[c] /\ wait[c] <= Poll + Late
    BY <1>0, <1>7 DEF Sleep, DelayOnTime, ClientOnTime, Waits
  <2>2. elapsed[c] < ReconnectDelay + Poll + Late
    BY <1>0, <2>1
  <2> QED
    BY <2>1, <2>2, OneClient
<1> QED
  BY <1>1, <1>2, <1>3, <1>4, <1>5, <1>6, <1>7 DEF Client

-----------------------------------------------------------------------------
(* Time                                                                    *)

LEMMA TickStep ==
  ASSUME IInv, Tick
  PROVE  IInv'
<1>0. /\ Typed /\ ServerOnTime
      /\ acceptWait \in Nat /\ overdue \in Nat /\ arrivals \in Nat /\ held \in Nat
      /\ arrivals * Longest \in Nat /\ Longest \in Nat
  BY OneMore, LongestFacts DEF IInv, Typed
<1>1. UNCHANGED <<accept, exitAccept, arrivals, mantain, exitLoop>>
  BY DEF Tick
<1>2. Typed'
  <2>1. acceptWait' \in Nat /\ overdue' \in Nat /\ held' \in Nat
    BY <1>0 DEF Tick
  <2>2. \A c \in Clients : wait[c] \in Nat /\ elapsed[c] \in Nat /\ exitWait[c] \in Nat
    BY <1>0 DEF Typed
  <2>3. wait' \in [Clients -> Nat] /\ elapsed' \in [Clients -> Nat]
        /\ exitWait' \in [Clients -> Nat]
    BY <2>2 DEF Tick
  <2> QED
    BY <1>0, <1>1, <2>1, <2>3 DEF Typed
<1>3. ServerOnTime'
  <2>1. CASE accept = "wait"
    <3>1. acceptWait # Longest /\ acceptWait <= Longest
      BY <1>0, <2>1 DEF Tick, Urgent, Overrun, ServerOnTime, Longest
    <3>2. acceptWait' = acceptWait + 1 /\ acceptWait' <= Longest
      BY <1>0, <2>1, <3>1 DEF Tick
    <3>3. /\ overdue' = IF exitAccept THEN overdue + 1 ELSE overdue
          /\ held' = held
      BY <2>1 DEF Tick
    <3>4. exitAccept => overdue' <= arrivals * Longest + acceptWait' + held'
      BY <1>0, <2>1, <3>2, <3>3 DEF ServerOnTime, Longest
    <3> QED
      BY <1>0, <1>1, <2>1, <3>2, <3>3, <3>4 DEF ServerOnTime, Longest
  <2>2. CASE accept = "send"
    <3>1. /\ overdue' = IF exitAccept THEN overdue + 1 ELSE overdue
          /\ held' = IF exitAccept THEN held + 1 ELSE held
          /\ acceptWait' = acceptWait
      BY <2>2 DEF Tick
    <3> QED
      BY <1>0, <1>1, <2>2, <3>1 DEF ServerOnTime, Longest
  <2>3. CASE accept = "done"
    BY <1>0, <1>1, <2>3 DEF Tick, ServerOnTime
  <2> QED
    BY <1>0, <2>1, <2>2, <2>3 DEF Typed
<1>4. ASSUME NEW c \in Clients
      PROVE  (ClientOnTime(c) /\ DelayOnTime(c))'
  <2>0. /\ wait[c] \in Nat /\ elapsed[c] \in Nat /\ exitWait[c] \in Nat
        /\ ClientOnTime(c) /\ DelayOnTime(c)
    BY <1>0 DEF IInv, Typed
  <2>1. /\ wait'[c] = IF Waits(c) THEN wait[c] + 1 ELSE wait[c]
        /\ elapsed'[c] = IF mantain[c] = "sleep" THEN elapsed[c] + 1 ELSE elapsed[c]
        /\ exitWait'[c] = IF exitLoop[c] /\ Waits(c) THEN exitWait[c] + 1 ELSE exitWait[c]
        /\ Waits(c)' <=> Waits(c)
    BY <1>1 DEF Tick, Waits
  <2>2. Waits(c) => wait[c] # Longest
    BY DEF Tick, Urgent, Overrun, Waits, Longest
  <2>3. ClientOnTime(c)'
    BY <1>0, <1>1, <2>0, <2>1, <2>2 DEF ClientOnTime, Longest
  <2>4. DelayOnTime(c)'
    BY <1>1, <2>0, <2>1 DEF DelayOnTime, Waits
  <2> QED
    BY <2>3, <2>4
<1> QED
  BY <1>2, <1>3, <1>4 DEF IInv

(* The inductive invariant behind the theorems below holds in every reachable
   state. *)
THEOREM Inductive == Spec => []IInv
<1>1. ASSUME Init PROVE IInv
  <2>1. Typed
    <3>1. exitAccept \in BOOLEAN
      BY <1>1, Zenon DEF Init
    <3>2. /\ accept \in {"wait", "send", "done"} /\ acceptWait \in Nat /\ overdue \in Nat
          /\ arrivals \in Nat /\ held \in Nat /\ exitWait \in [Clients -> Nat]
          /\ wait \in [Clients -> Nat] /\ elapsed \in [Clients -> Nat]
      BY <1>1 DEF Init
    <3>3. /\ mantain \in [Clients -> {"check", "connect", "delay", "sleep", "serving", "done"}]
          /\ exitLoop \in [Clients -> BOOLEAN]
      BY <1>1 DEF Init
    <3> QED
      BY <3>1, <3>2, <3>3 DEF Typed
  <2>2. ServerOnTime
    BY <1>1, LongestFacts DEF Init, ServerOnTime, Longest
  <2>3. \A c \in Clients : ClientOnTime(c) /\ DelayOnTime(c)
    <3>1. ASSUME NEW c \in Clients
          PROVE  mantain[c] = "check" /\ wait[c] = 0 /\ elapsed[c] = 0 /\ exitWait[c] = 0
      BY <1>1 DEF Init
    <3>2. ASSUME NEW c \in Clients PROVE ~Waits(c)
      BY <3>1 DEF Waits
    <3>3. ASSUME NEW c \in Clients PROVE ClientOnTime(c)
      <4>1. exitWait[c] = 0 /\ exitWait[c] <= Poll + Late /\ ~Waits(c)
        BY <3>1, <3>2
      <4> QED
        BY <4>1, Zenon DEF ClientOnTime
    <3>4. ASSUME NEW c \in Clients PROVE DelayOnTime(c)
      BY <3>1 DEF DelayOnTime
    <3> QED
      BY <3>3, <3>4
  <2> QED
    BY <2>1, <2>2, <2>3 DEF IInv
<1>2. ASSUME IInv, UNCHANGED vars PROVE IInv'
  BY <1>2 DEF vars, serverVars, clientVars, IInv, Typed, ServerOnTime, ClientOnTime,
     DelayOnTime, Waits
<1>3. IInv /\ [Next]_vars => IInv'
  BY <1>2, ServerAlone, ClientStep, TickStep DEF Next
<1> QED
  BY <1>1, <1>3, PTL DEF Spec

-----------------------------------------------------------------------------
(* The properties                                                          *)

(* Only arrivals, each by one timeout, and a full channel delay the shutdown of
   the server. *)
THEOREM ShutdownDelayedByArrivalsHolds == Spec => []ShutdownDelayedByArrivals
<1>1. ASSUME IInv PROVE ShutdownDelayedByArrivals
  <2>1. /\ overdue \in Nat /\ acceptWait \in Nat /\ arrivals \in Nat /\ held \in Nat
        /\ acceptWait <= Longest /\ Longest \in Nat
        /\ exitAccept /\ accept # "done" => overdue <= arrivals * Longest + acceptWait + held
    BY <1>1, LongestFacts DEF IInv, Typed, ServerOnTime, Longest
  <2>2. (arrivals + 1) * Longest = arrivals * Longest + Longest /\ arrivals * Longest \in Nat
    BY <2>1, OneMore
  <2>3. exitAccept /\ accept # "done" => overdue <= (arrivals + 1) * Longest + held
    BY <2>1, <2>2
  <2> QED
    BY <2>3 DEF ShutdownDelayedByArrivals, Longest
<1> QED
  BY <1>1, Inductive, PTL

(* A client without a connection leaves its loop within one timeout. *)
THEOREM ClientNoticesExitHolds == Spec => []ClientNoticesExit
<1>1. IInv => ClientNoticesExit
  BY DEF IInv, ClientOnTime, ClientNoticesExit
<1> QED
  BY <1>1, Inductive, PTL

(* A refused client comes back after the delay, and at most a sleep later. *)
THEOREM ReconnectPacedHolds == Spec => ReconnectPaced
<1>1. ASSUME IInv, [Next]_vars, NEW c \in Clients,
             mantain[c] = "delay", mantain'[c] = "check"
      PROVE  exitLoop[c] \/ elapsed[c] \in ReconnectDelay .. ReconnectDelay + Poll + Late - 1
  <2>1. Delay(c)
    <3>1. ASSUME NEW d \in Clients, Client(d) PROVE Delay(c)
      <4>1. \/ UNCHANGED mantain
            \/ \E s : mantain' = [mantain EXCEPT ![d] = s]
        BY <3>1 DEF Client, CheckExit, Connected, Refused, ConnectTimeout, Delay, Sleep,
           SessionOver, ClientShutdown, Go
      <4>2. d = c
        BY <1>1, <4>1 DEF IInv, Typed
      <4> QED
        BY <1>1, <3>1, <4>2 DEF Client, CheckExit, Connected, Refused, ConnectTimeout, Delay,
           Sleep, SessionOver, ClientShutdown
    <3>2. mantain' # mantain
      BY <1>1
    <3> QED
      BY <1>1, <3>1, <3>2 DEF Next, AcceptConnection, SendNewLink, AcceptTimeout,
         AcceptError, ServerShutdown, Tick, vars, clientVars
  <2>2. exitLoop[c] \/ elapsed[c] >= ReconnectDelay
    BY <1>1, <2>1 DEF Delay, Go, IInv, Typed
  <2>3. elapsed[c] \in Nat /\ elapsed[c] < ReconnectDelay + Poll + Late
    BY <1>1 DEF IInv, Typed, DelayOnTime
  <2> QED
    BY <2>2, <2>3
<1>2. IInv /\ [Next]_vars =>
        [\A c \in Clients : mantain[c] = "delay" /\ mantain'[c] = "check"
           => exitLoop[c] \/ elapsed[c] \in ReconnectDelay .. ReconnectDelay + Poll + Late - 1]_vars
  BY <1>1
<1> QED
  BY <1>2, Inductive, PTL DEF Spec, ReconnectPaced
=============================================================================
