---------------------------- MODULE RegistryProofs ----------------------------
(***************************************************************************)
(* Server implements Registry, for any number of connections and           *)
(* descriptors, any channel capacities and whatever the peers send.        *)
(***************************************************************************)
EXTENDS ServerProofs

USE LinkAssumption

-----------------------------------------------------------------------------
(* The mapping                                                             *)

\* Steps that leave the map, the callbacks, and both ends alone.
LEMMA Stutter ==
  ASSUME UNCHANGED <<links, attached, detached>>, Phase' = Phase
  PROVE  UNCHANGED R!registry
BY DEF R!registry, Life

LEMMA RegisteredStep ==
  ASSUME IInv, TypeOK', Registered, [Next]_vars
  PROVE  Registered'
<1> USE DEF IInv
<1>1. CASE Main
  BY <1>1 DEF Main, JoinAccept, JoinForward, Registered, InMap, linkVars
<1>2. ASSUME NEW m, ForwardNewLink(m)
      PROVE  Registered'
  <2>1. m = trans[1] /\ 1 \in Queued /\ FromLink(1) /\ m.kind = "new" /\ fwd = "recv"
    BY <1>2, TakeShrinks DEF ForwardNewLink, Shrunk, Queued, FromLink, Take
  <2>2. m.link \in Links /\ token[m.link] \in Tokens /\ links[token[m.link]] = None
    BY <2>1 DEF AnnouncedOnce, Untouched, TokenIdentity
  <2>3. UNCHANGED <<token, detached, fwd, main>>
    BY <1>2 DEF ForwardNewLink, linkVars, Take
  <2>4. /\ links'[token[m.link]] = m.link
        /\ \A u \in Tokens : u # token[m.link] => links'[u] = links[u]
        /\ \A k \in Links : k # m.link => attached'[k] = attached[k]
    BY <1>2, <2>2 DEF ForwardNewLink, TypeOK
  <2>5. \A k \in Links : InMap(k) => InMap(k)'
    BY <2>2, <2>3, <2>4 DEF InMap
  <2>6. InMap(m.link)'
    BY <2>2, <2>3, <2>4 DEF InMap
  <2> QED
    BY <2>3, <2>4, <2>5, <2>6 DEF Registered
<1>3. ASSUME NEW m, ForwardDetach(m)
      PROVE  Registered'
  <2>1. m = trans[1] /\ 1 \in Queued /\ FromLink(1)
    BY <1>3, TakeShrinks DEF ForwardDetach, Shrunk, Queued, FromLink
  <2>2. m.link \in Links /\ token[m.link] \in Tokens /\ links[token[m.link]] \in {None, m.link}
    BY <2>1 DEF AnnouncedOnce, Untouched, TokenIdentity
  <2>3. UNCHANGED <<token, attached, fwd, main>>
    BY <1>3 DEF ForwardDetach, linkVars, Take
  <2>4. /\ detached'[m.link] > 0
        /\ \A u \in Tokens : u # token[m.link] => links'[u] = links[u]
        /\ \A k \in Links : k # m.link => detached'[k] = detached[k]
    BY <1>3, <2>2 DEF ForwardDetach, TypeOK
  <2>5. \A k \in Links : k # m.link /\ InMap(k) => InMap(k)'
    BY <2>2, <2>3, <2>4 DEF InMap
  <2> QED
    BY <2>3, <2>4, <2>5 DEF Registered, TypeOK
<1>4. ASSUME NEW m, ForwardOrDrop(m) \/ ForwardSettings(m) \/ ForwardReadClosed(m)
                    \/ ForwardExited(m)
      PROVE  Registered'
  <2>1. UNCHANGED <<token, links, attached, detached, main>> /\ fwd = "recv"
    BY <1>4 DEF ForwardOrDrop, ForwardSettings, ForwardReadClosed, ForwardExited, Take,
       linkVars, SendTo
  <2> QED
    BY <2>1 DEF Registered, InMap
<1>5. CASE AckSettings
  BY <1>5 DEF AckSettings, Registered, InMap, linkVars, SendTo
<1>6. CASE AcceptLoop \/ App \/ (\E l \in Links : LinkStep(l)) \/ UNCHANGED vars
  <2>1. UNCHANGED <<links, attached, detached, fwd, main>>
    BY <1>6 DEF AcceptLoop, Bind, Announce, AcceptError, AcceptTimeout, ReportExited, Accept,
       GoAccept, App, Shutdown, FindLink, DropLink, AppSend, appVars, LinkStep, serverVars, vars
  <2>2. \A k \in Links : attached[k] = 1 => token'[k] = token[k]
    <3>1. ASSUME NEW l \in Links, NEW t \in Tokens, Accept(l, t), NEW k \in Links, attached[k] = 1
          PROVE  token'[k] = token[k]
      <4>1. attached[l] = 0
        BY <3>1 DEF Accept, NewLink, Untouched
      <4> QED
        BY <3>1, <4>1 DEF Accept, NewLink, TypeOK, LinkTypeOK
    <3>2. ASSUME NEW l \in Links, LinkStep(l)
          PROVE  UNCHANGED token
      BY <3>2 DEF LinkStep, PeerCloses, Reader, Writer, ReadPreface, ReadUpgrade,
         ReadPrefaceAgain, ReadFrame, ReadUnexpected, ReadBreak, ReaderStore, ReaderSample,
         ReaderSend, GoReader, WriteItem, WriteBreak, WriterStore, WriterSample, WriterSend,
         GoWriter
    <3>3. CASE App \/ UNCHANGED vars
      BY <3>3 DEF App, Shutdown, FindLink, DropLink, AppSend, linkVars, vars
    <3>4. CASE Bind \/ Announce \/ AcceptError \/ AcceptTimeout \/ ReportExited
      BY <3>4 DEF Bind, Announce, AcceptError, AcceptTimeout, ReportExited, linkVars
    <3> QED
      BY <1>6, <3>1, <3>2, <3>3, <3>4 DEF AcceptLoop
  <2> QED
    BY <2>1, <2>2 DEF Registered, InMap
<1> QED
  BY <1>1, <1>2, <1>3, <1>4, <1>5, <1>6 DEF Next, Forward, Handle

\* The forward loop ends, or goes on, without touching the map.
LEMMA EndOrStutter ==
  ASSUME Registered, UNCHANGED <<links, attached, detached, main>>,
         fwd \in {"recv", "ack"}, fwd' \in {"recv", "ack", "panicked", "done"}
  PROVE  R!Next \/ UNCHANGED R!registry
<1>1. Phase = "serving" /\ main' # "terminated"
  BY DEF Phase, Registered
<1>2. UNCHANGED <<links, Life>>
  BY DEF Life
<1>3. Phase' \in {"serving", "stopped", "failed"}
  BY <1>1 DEF Phase
<1> QED
  BY <1>1, <1>2, <1>3 DEF R!Next, R!End, R!registry

-----------------------------------------------------------------------------
(* Every step of the server is a step of the registry, or none of its own. *)

LEMMA AttachStep ==
  ASSUME IInv, TypeOK', Registered, NEW m, ForwardNewLink(m)
  PROVE  R!Attach(m.link, token[m.link])
<1> USE DEF IInv
<1>1. m = trans[1] /\ 1 \in Queued /\ FromLink(1) /\ m.kind = "new" /\ fwd = "recv"
  BY TakeShrinks DEF ForwardNewLink, Shrunk, Queued, FromLink, Take
<1>2. m.link \in Links /\ token[m.link] \in Tokens /\ links[token[m.link]] = None
  BY <1>1 DEF AnnouncedOnce, Untouched, TokenIdentity
<1>3. attached[m.link] = 0 /\ detached[m.link] = 0
  BY <1>1, <1>2 DEF AnnouncedOnce, AttachBeforeDetach, TypeOK
<1>4. UNCHANGED <<detached, fwd, main>> /\ attached' = [attached EXCEPT ![m.link] = 1]
  BY <1>3 DEF ForwardNewLink, Take
<1>5. Life[m.link] = "new" /\ Life' = [Life EXCEPT ![m.link] = "attached"]
  <2>1. ASSUME NEW k \in Links
        PROVE  Life'[k] = [Life EXCEPT ![m.link] = "attached"][k]
    BY <1>2, <1>3, <1>4 DEF Life, TypeOK
  <2>2. Life' = [k \in Links |-> Life'[k]]
    BY DEF Life
  <2>3. [Life EXCEPT ![m.link] = "attached"]
          = [k \in Links |-> [Life EXCEPT ![m.link] = "attached"][k]]
    BY DEF Life
  <2> QED
    BY <1>2, <1>3, <2>1, <2>2, <2>3 DEF Life
<1>6. Phase = "serving" /\ Phase' = Phase
  BY <1>1, <1>4 DEF Phase, Registered
<1>7. links' = [links EXCEPT ![token[m.link]] = m.link]
  BY DEF ForwardNewLink
<1> QED
  BY <1>2, <1>5, <1>6, <1>7 DEF R!Attach

\* The first DETACHED of a link detaches it; another finds nothing to do.
LEMMA DetachStep ==
  ASSUME IInv, TypeOK', Registered, NEW m, ForwardDetach(m)
  PROVE  R!Detach(m.link, token[m.link]) \/ UNCHANGED R!registry
<1> USE DEF IInv
<1> DEFINE l == m.link
           t == token[l]
<1>1. /\ m = trans[1] /\ 1 \in Queued /\ FromLink(1) /\ fwd = "recv"
      /\ m.kind = "changed" /\ m.flags = READ_WRITE_CLOSED
  BY TakeShrinks DEF ForwardDetach, Shrunk, Queued, FromLink, Take
<1>2. l \in Links /\ t \in Tokens /\ links[t] \in {None, l}
  BY <1>1 DEF AnnouncedOnce, Untouched, TokenIdentity
<1>3. attached[l] = 1
  <2>1. WriterClosed(l)
    BY <1>1 DEF FlagsSound, ChangedAt, READ_WRITE_CLOSED, READ_CLOSED, WRITE_CLOSED
  <2> QED
    BY <1>2, <2>1 DEF MapSound
<1>4. /\ UNCHANGED <<attached, fwd, main>>
      /\ detached' = [detached EXCEPT ![l] = @ + 1]
      /\ links' = [links EXCEPT ![t] = None]
  BY DEF ForwardDetach, Take
<1>5. Phase = "serving" /\ Phase' = Phase
  BY <1>1, <1>4 DEF Phase, Registered
<1> HIDE DEF l, t
<1>6. Life' = [Life EXCEPT ![l] = "detached"]
  <2>1. ASSUME NEW k \in Links
        PROVE  Life'[k] = [Life EXCEPT ![l] = "detached"][k]
    BY <1>2, <1>4 DEF Life, TypeOK
  <2>2. Life' = [k \in Links |-> Life'[k]]
    BY DEF Life
  <2>3. [Life EXCEPT ![l] = "detached"] = [k \in Links |-> [Life EXCEPT ![l] = "detached"][k]]
    BY DEF Life
  <2> QED
    BY <2>1, <2>2, <2>3
<1>7. CASE detached[l] = 0
  <2>1. links[t] = l
    BY <1>2, <1>3, <1>7 DEF Registered, InMap, t
  <2>2. Life[l] = "attached"
    BY <1>2, <1>3, <1>7 DEF Life
  <2>3. R!Detach(l, t)
    BY <1>4, <1>5, <1>6, <2>1, <2>2 DEF R!Detach
  <2> QED
    BY <2>3 DEF l, t
<1>8. CASE detached[l] # 0
  <2>1. links[t] = None
    BY <1>2, <1>8 DEF MapSound
  <2>2. links' = links
    BY <1>2, <1>4, <2>1 DEF TypeOK
  <2>3. Life[l] = "detached"
    BY <1>2, <1>8 DEF Life, TypeOK
  <2>4. [Life EXCEPT ![l] = "detached"] = Life
    BY <1>2, <2>3 DEF Life
  <2> QED
    BY <1>5, <1>6, <2>2, <2>4 DEF R!registry
<1> QED
  BY <1>7, <1>8

LEMMA RegistryStep ==
  ASSUME IInv, TypeOK', Registered, [Next]_vars
  PROVE  R!Next \/ UNCHANGED R!registry
<1> USE DEF IInv
<1>1. CASE Main
  <2>1. UNCHANGED <<links, attached, detached, fwd>>
    BY <1>1 DEF Main, JoinAccept, JoinForward
  <2>2. CASE JoinAccept
    <3>1. Phase' = Phase
      BY <2>1, <2>2 DEF JoinAccept, Phase
    <3> QED
      BY <2>1, <3>1, Stutter
  <2>3. CASE JoinForward
    <3>1. Phase' = Phase \/ (Phase = "stopped" /\ Phase' = "terminated")
      BY <2>1, <2>3 DEF JoinForward, Phase
    <3>2. UNCHANGED <<links, Life>>
      BY <2>1 DEF Life
    <3> QED
      BY <3>1, <3>2 DEF R!Next, R!End, R!registry
  <2> QED
    BY <1>1, <2>2, <2>3 DEF Main
<1>2. ASSUME NEW m, ForwardNewLink(m)
      PROVE  R!Next
  <2>1. R!Attach(m.link, token[m.link])
    BY <1>2, AttachStep
  <2>2. m.link \in Links /\ token[m.link] \in Tokens
    BY <1>2, TakeShrinks DEF ForwardNewLink, Shrunk, Queued, FromLink, AnnouncedOnce, Untouched
  <2> QED
    BY <2>1, <2>2 DEF R!Next
<1>3. ASSUME NEW m, ForwardDetach(m)
      PROVE  R!Next \/ UNCHANGED R!registry
  <2>1. R!Detach(m.link, token[m.link]) \/ UNCHANGED R!registry
    BY <1>3, DetachStep
  <2>2. m.link \in Links /\ token[m.link] \in Tokens
    BY <1>3, TakeShrinks DEF ForwardDetach, Shrunk, Queued, FromLink, AnnouncedOnce, Untouched
  <2> QED
    BY <2>1, <2>2 DEF R!Next
<1>4. ASSUME NEW m, ForwardOrDrop(m) \/ ForwardSettings(m) \/ ForwardReadClosed(m)
                    \/ ForwardExited(m)
      PROVE  R!Next \/ UNCHANGED R!registry
  <2>1. /\ UNCHANGED <<links, attached, detached, main>>
        /\ fwd = "recv" /\ fwd' \in {"recv", "ack", "panicked", "done"}
    BY <1>4 DEF ForwardOrDrop, ForwardSettings, ForwardReadClosed, ForwardExited, Take
  <2> QED
    BY <2>1, EndOrStutter
<1>5. CASE AckSettings
  <2>1. /\ UNCHANGED <<links, attached, detached, main>>
        /\ fwd = "ack" /\ fwd' \in {"recv", "panicked"}
    BY <1>5 DEF AckSettings
  <2> QED
    BY <2>1, EndOrStutter
<1>6. CASE AcceptLoop \/ App \/ (\E l \in Links : LinkStep(l)) \/ UNCHANGED vars
  <2>1. UNCHANGED <<links, attached, detached, fwd, main>>
    BY <1>6 DEF AcceptLoop, Bind, Announce, AcceptError, AcceptTimeout, ReportExited, Accept,
       GoAccept, App, Shutdown, FindLink, DropLink, AppSend, appVars, LinkStep, serverVars, vars
  <2>2. Phase' = Phase
    BY <2>1 DEF Phase
  <2> QED
    BY <2>1, <2>2, Stutter
<1> QED
  BY <1>1, <1>2, <1>3, <1>4, <1>5, <1>6 DEF Next, Forward, Handle

(* The server implements the registry. *)
THEOREM Implementation == Spec => ImplementsRegistry
<1>1. Init => R!Init
  BY DEF Init, R!Init, Life, Phase
<1>2. Init => Registered
  BY DEF Init, Registered
<1>3. Spec => []TypeOK /\ []IInv
  BY TypeCorrect, Inductive
<1>4. Registered /\ IInv /\ TypeOK' /\ [Next]_vars => Registered'
  BY RegisteredStep
<1>5. Registered /\ IInv /\ TypeOK' /\ [Next]_vars => [R!Next]_(R!registry)
  BY RegistryStep
<1> QED
  BY <1>1, <1>2, <1>3, <1>4, <1>5, PTL DEF Spec, ImplementsRegistry, R!Spec
=============================================================================
