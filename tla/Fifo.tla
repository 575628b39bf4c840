------------------------------- MODULE Fifo -------------------------------
(***************************************************************************)
(* What the two concurrent containers of internal/containers promise: a    *)
(* first-in first-out queue that many goroutines write, that one or more   *)
(* read, and that stops accepting values once it is closed while what it   *)
(* holds can still be drained. MpmcQueue and MpscAccumulator implement it. *)
(***************************************************************************)
EXTENDS Sequences

CONSTANTS Items, Readers

VARIABLES
  items,  \* values accepted and not yet taken, oldest first
  taken,  \* per reader, the values it got, in order
  shut    \* Close has happened

fifoVars == <<items, taken, shut>>

FifoInit ==
  /\ items = <<>>
  /\ taken = [r \in Readers |-> <<>>]
  /\ shut = FALSE

Accept(x) ==
  /\ ~shut
  /\ items' = Append(items, x)
  /\ UNCHANGED <<taken, shut>>

Take(r) ==
  /\ items # <<>>
  /\ taken' = [taken EXCEPT ![r] = Append(@, Head(items))]
  /\ items' = Tail(items)
  /\ UNCHANGED shut

Shut ==
  /\ shut' = TRUE
  /\ UNCHANGED <<items, taken>>

FifoNext ==
  \/ \E x \in Items : Accept(x)
  \/ \E r \in Readers : Take(r)
  \/ Shut

FifoSpec == FifoInit /\ [][FifoNext]_fifoVars
=============================================================================
