--------------------------- MODULE WorkSlotProofs ---------------------------
(***************************************************************************)
(* The compare-and-swap slot keeps its protocol invariant and implements   *)
(* the atomic queue, for every set of commands.                            *)
(***************************************************************************)
EXTENDS WorkSlot, TLAPS

------------------------------------------------------------------------------
(* The protocol invariant is inductive as it stands. *)

\* The slot starts empty, with an idle worker and no lease.
LEMMA InitSlotInv == Init => SlotInv
BY NoCommandAssumption
DEF Init, SlotInv, TypeOK, CellProtocol, WorkerProtocol, LeaseProtocol

\* A step of the producer keeps the slot protocol.
LEMMA ProducerStep ==
  ASSUME SlotInv, Producer
  PROVE  SlotInv'
<1> USE NoCommandAssumption
    DEF SlotInv, TypeOK, CellProtocol, WorkerProtocol, LeaseProtocol, slotVars, syncVars
<1>1. CASE Produce BY <1>1 DEF Produce
<1>2. CASE SubmitClaim BY <1>2 DEF SubmitClaim
<1>3. CASE SubmitMove BY <1>3 DEF SubmitMove
<1>4. CASE SubmitStore BY <1>4 DEF SubmitStore
<1>5. CASE SubmitUnpark BY <1>5 DEF SubmitUnpark, Wake
<1> QED BY <1>1, <1>2, <1>3, <1>4, <1>5 DEF Producer, Submission

\* A step of the worker keeps the slot protocol.
LEMMA WorkerKeeps ==
  ASSUME SlotInv, Worker
  PROVE  SlotInv'
<1> USE NoCommandAssumption
    DEF SlotInv, TypeOK, CellProtocol, WorkerProtocol, LeaseProtocol, slotVars, syncVars
<1>1. CASE WorkerLock BY <1>1 DEF WorkerLock
<1>2. CASE TakeClaim BY <1>2 DEF TakeClaim
<1>3. CASE TakeNone BY <1>3 DEF TakeNone
<1>4. CASE TakeMove BY <1>4 DEF TakeMove
<1>5. CASE TakeStore BY <1>5 DEF TakeStore
<1>6. CASE WorkerRun BY <1>6 DEF WorkerRun
<1>7. CASE WorkerFinish BY <1>7 DEF WorkerFinish
<1>8. CASE WorkerClosed BY <1>8 DEF WorkerClosed
<1>9. CASE WorkerStopping BY <1>9 DEF WorkerStopping
<1>10. CASE WorkerUnparked BY <1>10 DEF WorkerUnparked
<1>11. CASE WorkerSpurious BY <1>11 DEF WorkerSpurious
<1> QED BY <1>1, <1>2, <1>3, <1>4, <1>5, <1>6, <1>7, <1>8, <1>9, <1>10, <1>11
    DEF Worker, WorkerStep

\* A step of the main thread keeps the slot protocol.
LEMMA MainKeeps ==
  ASSUME SlotInv, Main
  PROVE  SlotInv'
<1> USE NoCommandAssumption
    DEF SlotInv, TypeOK, CellProtocol, WorkerProtocol, LeaseProtocol, slotVars, syncVars
<1>1. CASE StartPublish BY <1>1 DEF StartPublish
<1>2. CASE StartWake BY <1>2 DEF StartWake, Wake
<1>3. CASE Fence BY <1>3 DEF Fence
<1>4. CASE WaitWake BY <1>4 DEF WaitWake, Wake
<1>5. CASE WaitLock BY <1>5 DEF WaitLock
<1>6. CASE WaitQuiet BY <1>6 DEF WaitQuiet
<1>7. CASE WaitBlock BY <1>7 DEF WaitBlock
<1>8. CASE WaitSpurious BY <1>8 DEF WaitSpurious
<1>9. CASE Release BY <1>9 DEF Release
<1>10. CASE Stop BY <1>10 DEF Stop
<1>11. CASE StopWake BY <1>11 DEF StopWake, Wake
<1>12. CASE CloseWin BY <1>12 DEF CloseWin
<1>13. CASE CloseRetry BY <1>13 DEF CloseRetry, Wake
<1>14. CASE Join BY <1>14 DEF Join
<1> QED BY <1>1, <1>2, <1>3, <1>4, <1>5, <1>6, <1>7, <1>8, <1>9, <1>10, <1>11,
           <1>12, <1>13, <1>14
    DEF Main, MainStep

\* Every step of every thread keeps the slot protocol.
LEMMA NextKeeps ==
  ASSUME SlotInv, [Next]_vars
  PROVE  SlotInv'
<1>1. CASE Producer BY <1>1, ProducerStep
<1>2. CASE Worker BY <1>2, WorkerKeeps
<1>3. CASE Main BY <1>3, MainKeeps
<1>4. CASE Terminated \/ UNCHANGED vars
  BY <1>4 DEF Terminated, vars, SlotInv, TypeOK, CellProtocol, WorkerProtocol, LeaseProtocol
<1> QED BY <1>1, <1>2, <1>3, <1>4 DEF Next

\* The cell is only touched by its BUSY owner, FULL covers a command, the
\* active flag covers its execution and the lease excludes the producer.
THEOREM SlotInvariance == Spec => []SlotInv
<1>1. Init => SlotInv BY InitSlotInv
<1>2. SlotInv /\ [Next]_vars => SlotInv' BY NextKeeps
<1> QED BY <1>1, <1>2, PTL DEF Spec

\* wait_idle returns true only while nothing is queued, moving or running.
THEOREM WaitIdleIsSound == Spec => []QuietMeansIdle
<1>1. SlotInv => QuietMeansIdle
  BY DEF SlotInv, CellProtocol, WorkerProtocol, LeaseProtocol, QuietMeansIdle
<1> QED BY <1>1, SlotInvariance, PTL

\* The worker ends with an empty slot and empty hands.
THEOREM StopLeavesNothing == Spec => []NothingStranded
<1>1. SlotInv => NothingStranded
  BY DEF SlotInv, TypeOK, CellProtocol, WorkerProtocol, LeaseProtocol, NothingStranded
<1> QED BY <1>1, SlotInvariance, PTL

------------------------------------------------------------------------------
(* Refinement: the FULL store is the submission, the EMPTY store the take. *)

\* The empty slot is the empty queue.
LEMMA QueueInit == Init => Queue!Init
BY DEF Init, Queue!Init

\* The steps of the producer: storing FULL accepts the command.
LEMMA ProducerRefines ==
  ASSUME SlotInv, Producer
  PROVE  [Queue!Next]_(Queue!vars)
<1> USE NoCommandAssumption
    DEF SlotInv, TypeOK, CellProtocol, WorkerProtocol, LeaseProtocol, slotVars, syncVars
<1>1. CASE SubmitStore
  <2>1. Queue!Submit BY <1>1 DEF SubmitStore, Queue!Submit
  <2> QED BY <2>1 DEF Queue!Next
<1>2. CASE Produce BY <1>2 DEF Produce, Queue!vars
<1>3. CASE SubmitClaim BY <1>3 DEF SubmitClaim, Queue!vars
<1>4. CASE SubmitMove BY <1>4 DEF SubmitMove, Queue!vars
<1>5. CASE SubmitUnpark BY <1>5 DEF SubmitUnpark, Queue!vars
<1> QED BY <1>1, <1>2, <1>3, <1>4, <1>5 DEF Producer, Submission

\* The steps of the worker: storing EMPTY takes the command, lowering active
\* finishes it, and seeing CLOSED ends the thread.
LEMMA WorkerRefines ==
  ASSUME SlotInv, Worker
  PROVE  [Queue!Next]_(Queue!vars)
<1> USE NoCommandAssumption
    DEF SlotInv, TypeOK, CellProtocol, WorkerProtocol, LeaseProtocol, slotVars, syncVars
<1>1. CASE TakeStore
  <2>1. Queue!Take BY <1>1 DEF TakeStore, Queue!Take
  <2> QED BY <2>1 DEF Queue!Next
<1>2. CASE WorkerFinish
  <2>1. Queue!Finish BY <1>2 DEF WorkerFinish, Queue!Finish
  <2> QED BY <2>1 DEF Queue!Next
<1>3. CASE WorkerClosed
  <2>1. CASE state = "CLOSED"
    <3>1. Queue!End BY <1>3, <2>1 DEF WorkerClosed, Queue!End
    <3> QED BY <3>1 DEF Queue!Next
  <2>2. CASE state # "CLOSED" BY <1>3, <2>2 DEF WorkerClosed, Queue!vars
  <2> QED BY <2>1, <2>2
<1>4. CASE TakeClaim BY <1>4 DEF TakeClaim, Queue!vars
<1>5. CASE TakeMove BY <1>5 DEF TakeMove, Queue!vars
<1>6. CASE WorkerLock BY <1>6 DEF WorkerLock, Queue!vars
<1>7. CASE TakeNone BY <1>7 DEF TakeNone, Queue!vars
<1>8. CASE WorkerRun BY <1>8 DEF WorkerRun, Queue!vars
<1>9. CASE WorkerStopping BY <1>9 DEF WorkerStopping, Queue!vars
<1>10. CASE WorkerUnparked BY <1>10 DEF WorkerUnparked, Queue!vars
<1>11. CASE WorkerSpurious BY <1>11 DEF WorkerSpurious, Queue!vars
<1> QED BY <1>1, <1>2, <1>3, <1>4, <1>5, <1>6, <1>7, <1>8, <1>9, <1>10, <1>11
    DEF Worker, WorkerStep

\* The steps of the main thread: the lease, the look under the mutex, the
\* release and the EMPTY -> CLOSED claim.
LEMMA MainRefines ==
  ASSUME SlotInv, Main
  PROVE  [Queue!Next]_(Queue!vars)
<1> USE NoCommandAssumption
    DEF SlotInv, TypeOK, CellProtocol, WorkerProtocol, LeaseProtocol, slotVars, syncVars
<1>1. CASE Fence
  <2>1. Queue!Fence BY <1>1 DEF Fence, Queue!Fence
  <2> QED BY <2>1 DEF Queue!Next
<1>2. CASE WaitQuiet
  <2>1. Queue!Quiesce BY <1>2 DEF WaitQuiet, Queue!Quiesce
  <2> QED BY <2>1 DEF Queue!Next
<1>3. CASE Release
  <2>1. Queue!Release BY <1>3 DEF Release, Queue!Release
  <2> QED BY <2>1 DEF Queue!Next
<1>4. CASE CloseWin
  <2>1. Queue!Close BY <1>4 DEF CloseWin, Queue!Close
  <2> QED BY <2>1 DEF Queue!Next
<1>5. CASE StartPublish BY <1>5 DEF StartPublish, Queue!vars
<1>6. CASE StartWake BY <1>6 DEF StartWake, Queue!vars
<1>7. CASE WaitWake BY <1>7 DEF WaitWake, Queue!vars
<1>8. CASE WaitLock BY <1>8 DEF WaitLock, Queue!vars
<1>9. CASE WaitBlock BY <1>9 DEF WaitBlock, Queue!vars
<1>10. CASE WaitSpurious BY <1>10 DEF WaitSpurious, Queue!vars
<1>11. CASE Stop BY <1>11 DEF Stop, Queue!vars
<1>12. CASE StopWake BY <1>12 DEF StopWake, Queue!vars
<1>13. CASE CloseRetry BY <1>13 DEF CloseRetry, Queue!vars
<1>14. CASE Join BY <1>14 DEF Join, Queue!vars
<1> QED BY <1>1, <1>2, <1>3, <1>4, <1>5, <1>6, <1>7, <1>8, <1>9, <1>10, <1>11,
           <1>12, <1>13, <1>14
    DEF Main, MainStep

\* The compare-and-swap slot, its worker loop, wait_idle and stop implement
\* the atomic queue that Rebuild is written against.
THEOREM SlotImplementsQueue == Spec => ImplementsQueue
<1>1. Init => Queue!Init BY QueueInit
<1>2. SlotInv /\ [Next]_vars => [Queue!Next]_(Queue!vars)
  <2> SUFFICES ASSUME SlotInv, [Next]_vars PROVE [Queue!Next]_(Queue!vars)
    OBVIOUS
  <2>1. CASE Producer BY <2>1, ProducerRefines
  <2>2. CASE Worker BY <2>2, WorkerRefines
  <2>3. CASE Main BY <2>3, MainRefines
  <2>4. CASE Terminated \/ UNCHANGED vars BY <2>4 DEF Terminated, vars, Queue!vars
  <2> QED BY <2>1, <2>2, <2>3, <2>4 DEF Next
<1> QED BY <1>1, <1>2, SlotInvariance, PTL DEF Spec, ImplementsQueue, Queue!Spec
==============================================================================
