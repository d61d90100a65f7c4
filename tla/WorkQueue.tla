----------------------------- MODULE WorkQueue -----------------------------
(***************************************************************************)
(* What the rebuild work slot promises to the data loop and to the main    *)
(* thread, with every promise one atomic step: a command that was accepted *)
(* is taken exactly once, taken and running are the same instant, the      *)
(* thread that leases the producer side learns of a moment at which        *)
(* nothing was queued or running, and a closed slot is empty for ever.     *)
(* RebuildWorkSlot implements this with compare-and-swap (WorkSlot).       *)
(***************************************************************************)
CONSTANTS Command, NoCommand

VARIABLES
  slot,      \* the accepted command that nobody has taken
  running,   \* the command the worker is executing
  lease,     \* "none", "waiting" (producer excluded) or "quiet"
  closed,    \* no further command is accepted
  ended      \* the worker thread has ended

vars == <<slot, running, lease, closed, ended>>

Init == /\ slot = NoCommand /\ running = NoCommand
        /\ lease = "none" /\ closed = FALSE /\ ended = FALSE

Submit == /\ slot = NoCommand /\ lease = "none" /\ ~closed
          /\ slot' \in Command
          /\ UNCHANGED <<running, lease, closed, ended>>

Take == /\ slot # NoCommand /\ running = NoCommand /\ ~ended
        /\ running' = slot /\ slot' = NoCommand
        /\ UNCHANGED <<lease, closed, ended>>

Finish == /\ running # NoCommand
          /\ running' = NoCommand
          /\ UNCHANGED <<slot, lease, closed, ended>>

Fence == /\ lease = "none"
         /\ lease' = "waiting"
         /\ UNCHANGED <<slot, running, closed, ended>>

Quiesce == /\ lease = "waiting" /\ slot = NoCommand /\ running = NoCommand
           /\ lease' = "quiet"
           /\ UNCHANGED <<slot, running, closed, ended>>

Release == /\ lease = "quiet"
           /\ lease' = "none"
           /\ UNCHANGED <<slot, running, closed, ended>>

Close == /\ slot = NoCommand /\ ~closed
         /\ closed' = TRUE
         /\ UNCHANGED <<slot, running, lease, ended>>

End == /\ closed /\ running = NoCommand /\ slot = NoCommand /\ ~ended
       /\ ended' = TRUE
       /\ UNCHANGED <<slot, running, lease, closed>>

Next == Submit \/ Take \/ Finish \/ Fence \/ Quiesce \/ Release \/ Close \/ End

Spec == Init /\ [][Next]_vars
============================================================================
