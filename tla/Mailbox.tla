------------------------------ MODULE Mailbox ------------------------------
(***************************************************************************)
(* What the completion mailbox of NodeShared promises: one place, in which *)
(* a writer exchanges the contents in one step and gets the predecessor    *)
(* back to destroy it, and from which the data loop takes the contents in  *)
(* one step.  A completion is therefore always with exactly one owner.     *)
(* NodeShared implements this with compare-and-swap (MailboxSlot).         *)
(***************************************************************************)
CONSTANTS Message, Empty, Writer

VARIABLES
  box,     \* the completion in the mailbox, or Empty
  taken,   \* what the data loop took and still holds
  back     \* what an exchange gave back to each writer

vars == <<box, taken, back>>

Init == box = Empty /\ taken = Empty /\ back = [w \in Writer |-> Empty]

Exchange(w) == /\ back[w] = Empty
               /\ box' \in Message \cup {Empty}
               /\ back' = [back EXCEPT ![w] = box]
               /\ UNCHANGED taken

Drop(w) == back' = [back EXCEPT ![w] = Empty] /\ UNCHANGED <<box, taken>>

Take == /\ box # Empty /\ taken = Empty
        /\ taken' = box /\ box' = Empty
        /\ UNCHANGED back

Consume == taken' = Empty /\ UNCHANGED <<box, back>>

Next == Take \/ Consume \/ \E w \in Writer : Exchange(w) \/ Drop(w)

Spec == Init /\ [][Next]_vars
============================================================================
