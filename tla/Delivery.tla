------------------------------ MODULE Delivery ------------------------------
(***************************************************************************)
(* What Wire promises to whoever reads one direction of a connection,      *)
(* without octets: the frames arrive one by one, in the order they were    *)
(* sent and each when all of it is there; what has arrived stays as it is. *)
(* The reader ends on a frame it refuses or, once the stream is closed,    *)
(* when nothing whole is left, and not a step earlier.                     *)
(***************************************************************************)
EXTENDS Naturals, Sequences

CONSTANT Taken(_, _)    \* what a reader should make of an item

VARIABLES
  side,       \* who reads
  sent,       \* the items sent
  partial,    \* the last of them is not all there
  open,       \* more may follow
  delivered,  \* the frames that have arrived
  over        \* the reader has ended

delivery == <<side, sent, partial, open, delivered, over>>

Init == sent = <<>> /\ partial = FALSE /\ open = TRUE /\ delivered = <<>> /\ over = FALSE

Whole   == IF partial THEN Len(sent) - 1 ELSE Len(sent)
Coming  == Taken(side, sent[Len(delivered) + 1])
Refused == Coming.kind \in {"panic", "error"}

\* One more item, or the first part of one.
Send ==
  /\ open /\ ~partial
  /\ Len(sent') = Len(sent) + 1
  /\ \A i \in 1..Len(sent) : sent'[i] = sent[i]
  /\ partial' \in BOOLEAN
  /\ UNCHANGED <<side, open, delivered, over>>

Complete ==
  /\ open /\ partial
  /\ partial' = FALSE
  /\ UNCHANGED <<side, sent, open, delivered, over>>

Close ==
  /\ open
  /\ open' = FALSE
  /\ UNCHANGED <<side, sent, partial, delivered, over>>

Deliver ==
  /\ ~over /\ Len(delivered) < Whole
  /\ ~Refused
  /\ delivered' = Append(delivered, Coming)
  /\ UNCHANGED <<side, sent, partial, open, over>>

\* A head can be enough to refuse a frame.
Refuse ==
  /\ ~over /\ Len(delivered) < Len(sent)
  /\ over' = TRUE
  /\ Refused
  /\ UNCHANGED <<side, sent, partial, open, delivered>>

Drained ==
  /\ ~over /\ ~open /\ Len(delivered) = Whole
  /\ over' = TRUE
  /\ UNCHANGED <<side, sent, partial, open, delivered>>

Next == Send \/ Complete \/ Close \/ Deliver \/ Refuse \/ Drained

Spec == Init /\ [][Next]_delivery
=============================================================================
