------------------------------ MODULE WorkSlot ------------------------------
(***************************************************************************)
(* RebuildWorkSlot and its worker thread at the grain of single atomic     *)
(* operations: the compare-and-swap claim of the cell (EMPTY, FULL, BUSY,  *)
(* CLOSED), the unpark token, the mutex and condition variable that the    *)
(* takeover waits on, and shutdown.                                        *)
(*                                                                         *)
(* Three threads: the data loop, sole producer, which keeps a command it   *)
(* could not submit; the worker, sole consumer; the main thread, which     *)
(* starts the worker, excludes the producer and waits for it, and finally  *)
(* stops it.  A producer may be anywhere in its submission when stop runs. *)
(***************************************************************************)
CONSTANTS Command, NoCommand

ASSUME NoCommandAssumption == NoCommand \notin Command

VARIABLES
  state,     \* RebuildWorkSlot.state
  value,     \* RebuildWorkSlot.value: the cell the BUSY owner may touch
  stopping,  \* RebuildWorkSlot.stopping
  active,    \* the bool under RebuildWorkSlot.active
  lock,      \* who holds that mutex
  handle,    \* RebuildWorkSlot.thread is set
  token,     \* the worker's unpark token
  ppc, pcmd, \* the data loop, and the command it holds (deferred_work)
  wpc, wcmd, \* the worker, and the command it took
  mpc, lease \* the main thread, and DataState.rebuild_takeover

slotVars == <<state, value>>
syncVars == <<active, lock>>
vars == <<state, value, stopping, active, lock, handle, token, ppc, pcmd, wpc,
          wcmd, mpc, lease>>

\* RebuildWorker::start has spawned the thread.
Init ==
  /\ state = "EMPTY" /\ value = NoCommand /\ stopping = FALSE
  /\ active = FALSE /\ lock = "none" /\ handle = FALSE /\ token = FALSE
  /\ ppc = "idle" /\ pcmd = NoCommand
  /\ wpc = "top" /\ wcmd = NoCommand
  /\ mpc = "publish" /\ lease = FALSE

------------------------------------------------------------------------------
(* The data loop: try_submit.  The node exists once start has returned. *)

\* Mutant: the handle is there, but nobody is woken.
WakeForgotten == UNCHANGED token

\* wake / the unpark of try_submit: nothing happens before the handle is set
Wake == token' = (token \/ handle)

Produce ==
  /\ ppc = "idle" /\ pcmd = NoCommand /\ ~lease
  /\ mpc \notin {"publish", "started", "joined"}
  /\ pcmd' \in Command \ {value, wcmd}
  /\ UNCHANGED <<slotVars, stopping, syncVars, handle, token, ppc, wpc, wcmd, mpc, lease>>

\* EMPTY -> BUSY; a refused command stays with the producer, which tries again.
SubmitClaim ==
  /\ ppc = "idle" /\ pcmd # NoCommand /\ ~lease
  /\ state = "EMPTY"
  /\ state' = "BUSY" /\ ppc' = "claimed"
  /\ UNCHANGED <<value, stopping, syncVars, handle, token, pcmd, wpc, wcmd, mpc, lease>>

SubmitMove ==
  /\ ppc = "claimed"
  /\ value' = pcmd /\ pcmd' = NoCommand /\ ppc' = "moved"
  /\ UNCHANGED <<state, stopping, syncVars, handle, token, wpc, wcmd, mpc, lease>>

SubmitStore ==
  /\ ppc = "moved"
  /\ state' = "FULL" /\ ppc' = "unpark"
  /\ UNCHANGED <<value, stopping, syncVars, handle, token, pcmd, wpc, wcmd, mpc, lease>>

SubmitUnpark ==
  /\ ppc = "unpark"
  /\ Wake /\ ppc' = "idle"
  /\ UNCHANGED <<slotVars, stopping, syncVars, handle, pcmd, wpc, wcmd, mpc, lease>>

Submission == SubmitMove \/ SubmitStore \/ SubmitUnpark
Producer == Produce \/ SubmitClaim \/ Submission

------------------------------------------------------------------------------
(* The worker: rebuild_worker_loop and take *)

WorkerLock ==
  /\ wpc = "top" /\ lock = "none"
  /\ lock' = "worker" /\ wpc' = "take"
  /\ UNCHANGED <<slotVars, stopping, active, handle, token, ppc, pcmd, wcmd, mpc, lease>>

\* FULL -> BUSY, or nothing to take: BUSY reads like EMPTY.
TakeClaim ==
  /\ wpc = "take" /\ state = "FULL"
  /\ state' = "BUSY" /\ wpc' = "claimed"
  /\ UNCHANGED <<value, stopping, syncVars, handle, token, ppc, pcmd, wcmd, mpc, lease>>

TakeNone ==
  /\ wpc = "take" /\ state # "FULL"
  /\ lock' = "none" /\ wpc' = "closed"
  /\ UNCHANGED <<slotVars, stopping, active, handle, token, ppc, pcmd, wcmd, mpc, lease>>

TakeMove ==
  /\ wpc = "claimed"
  /\ wcmd' = value /\ value' = NoCommand /\ wpc' = "moved"
  /\ UNCHANGED <<state, stopping, syncVars, handle, token, ppc, pcmd, mpc, lease>>

\* Mutant: the slot is emptied before the worker counts as active.
TakeStoreInactive ==
  /\ wpc = "moved"
  /\ state' = "EMPTY" /\ lock' = "none" /\ wpc' = "run"
  /\ UNCHANGED <<value, stopping, active, handle, token, ppc, pcmd, wcmd, mpc, lease>>

\* EMPTY, active and the unlock: no waiter can look between them.
TakeStore ==
  /\ wpc = "moved"
  /\ state' = "EMPTY" /\ active' = TRUE /\ lock' = "none" /\ wpc' = "run"
  /\ UNCHANGED <<value, stopping, handle, token, ppc, pcmd, wcmd, mpc, lease>>

\* The command is executed, or destroyed when stopping; a panic is caught.
WorkerRun ==
  /\ wpc = "run"
  /\ wpc' = "finish"
  /\ UNCHANGED <<slotVars, stopping, syncVars, handle, token, ppc, pcmd, wcmd, mpc, lease>>

\* Mutant: nobody is told that the worker is idle.
WorkerFinishSilent ==
  /\ wpc = "finish" /\ lock = "none"
  /\ active' = FALSE /\ wcmd' = NoCommand /\ wpc' = "top"
  /\ UNCHANGED <<slotVars, stopping, lock, handle, token, ppc, pcmd, mpc, lease>>

\* Under the mutex: active falls and every waiter is notified.
WorkerFinish ==
  /\ wpc = "finish" /\ lock = "none"
  /\ active' = FALSE /\ wcmd' = NoCommand /\ wpc' = "top"
  /\ mpc' = IF mpc = "waiting" THEN "lock" ELSE mpc
  /\ UNCHANGED <<slotVars, stopping, lock, handle, token, ppc, pcmd, lease>>

WorkerClosed ==
  /\ wpc = "closed"
  /\ wpc' = IF state = "CLOSED" THEN "exited" ELSE "stopping"
  /\ UNCHANGED <<slotVars, stopping, syncVars, handle, token, ppc, pcmd, wcmd, mpc, lease>>

\* A stopping worker yields until the close is visible; any other one parks.
WorkerStopping ==
  /\ wpc = "stopping"
  /\ wpc' = IF stopping THEN "top" ELSE "park"
  /\ UNCHANGED <<slotVars, stopping, syncVars, handle, token, ppc, pcmd, wcmd, mpc, lease>>

WorkerUnparked ==
  /\ wpc = "park" /\ token
  /\ token' = FALSE /\ wpc' = "top"
  /\ UNCHANGED <<slotVars, stopping, syncVars, handle, ppc, pcmd, wcmd, mpc, lease>>

\* park may return for no reason.
WorkerSpurious ==
  /\ wpc = "park"
  /\ wpc' = "top"
  /\ UNCHANGED <<slotVars, stopping, syncVars, handle, token, ppc, pcmd, wcmd, mpc, lease>>

WorkerStep ==
  \/ WorkerLock \/ TakeClaim \/ TakeNone \/ TakeMove \/ TakeStore \/ WorkerRun
  \/ WorkerFinish \/ WorkerClosed \/ WorkerStopping \/ WorkerUnparked
Worker == WorkerStep \/ WorkerSpurious

------------------------------------------------------------------------------
(* The main thread *)

\* RebuildWorker::start: publish the handle, then cover a worker already parked.
StartPublish ==
  /\ mpc = "publish"
  /\ handle' = TRUE /\ mpc' = "started"
  /\ UNCHANGED <<slotVars, stopping, syncVars, token, ppc, pcmd, wpc, wcmd, lease>>

StartWake ==
  /\ mpc = "started"
  /\ Wake /\ mpc' = "idle"
  /\ UNCHANGED <<slotVars, stopping, syncVars, handle, ppc, pcmd, wpc, wcmd, lease>>

\* The lease closure runs between cycles and carries retained work away.
Fence ==
  /\ mpc = "idle" /\ ppc = "idle"
  /\ lease' = TRUE /\ pcmd' = NoCommand /\ mpc' = "wake"
  /\ UNCHANGED <<slotVars, stopping, syncVars, handle, token, ppc, wpc, wcmd>>

\* wait_idle
WaitWake ==
  /\ mpc = "wake"
  /\ Wake /\ mpc' = "lock"
  /\ UNCHANGED <<slotVars, stopping, syncVars, handle, ppc, pcmd, wpc, wcmd, lease>>

WaitLock ==
  /\ mpc = "lock" /\ lock = "none"
  /\ lock' = "main" /\ mpc' = "check"
  /\ UNCHANGED <<slotVars, stopping, active, handle, token, ppc, pcmd, wpc, wcmd, lease>>

WaitQuiet ==
  /\ mpc = "check" /\ ~active /\ state = "EMPTY"
  /\ lock' = "none" /\ mpc' = "quiet"
  /\ UNCHANGED <<slotVars, stopping, active, handle, token, ppc, pcmd, wpc, wcmd, lease>>

\* Condvar::wait gives the mutex back as it blocks.
WaitBlock ==
  /\ mpc = "check" /\ ~(~active /\ state = "EMPTY")
  /\ lock' = "none" /\ mpc' = "waiting"
  /\ UNCHANGED <<slotVars, stopping, active, handle, token, ppc, pcmd, wpc, wcmd, lease>>

WaitSpurious ==
  /\ mpc = "waiting"
  /\ mpc' = "lock"
  /\ UNCHANGED <<slotVars, stopping, syncVars, handle, token, ppc, pcmd, wpc, wcmd, lease>>

Release ==
  /\ mpc = "quiet"
  /\ lease' = FALSE /\ mpc' = "idle"
  /\ UNCHANGED <<slotVars, stopping, syncVars, handle, token, ppc, pcmd, wpc, wcmd>>

\* RebuildWorker::stop and RebuildWorkSlot::close
Stop ==
  /\ mpc = "idle"
  /\ stopping' = TRUE /\ mpc' = "stopwake"
  /\ UNCHANGED <<slotVars, syncVars, handle, token, ppc, pcmd, wpc, wcmd, lease>>

StopWake ==
  /\ mpc \in {"stopwake", "closewake"}
  /\ Wake /\ mpc' = IF mpc = "stopwake" THEN "close" ELSE "join"
  /\ UNCHANGED <<slotVars, stopping, syncVars, handle, ppc, pcmd, wpc, wcmd, lease>>

CloseWin ==
  /\ mpc = "close" /\ state = "EMPTY"
  /\ state' = "CLOSED" /\ mpc' = "closewake"
  /\ UNCHANGED <<value, stopping, syncVars, handle, token, ppc, pcmd, wpc, wcmd, lease>>

CloseRetry ==
  /\ mpc = "close" /\ state \in {"FULL", "BUSY"}
  /\ Wake
  /\ UNCHANGED <<slotVars, stopping, syncVars, handle, ppc, pcmd, wpc, wcmd, mpc, lease>>

Join ==
  /\ mpc = "join" /\ wpc = "exited"
  /\ mpc' = "joined"
  /\ UNCHANGED <<slotVars, stopping, syncVars, handle, token, ppc, pcmd, wpc, wcmd, lease>>

MainStep ==
  \/ StartPublish \/ StartWake \/ WaitWake \/ WaitLock \/ WaitQuiet \/ WaitBlock
  \/ Release \/ StopWake \/ CloseWin \/ CloseRetry \/ Join
Main == MainStep \/ Fence \/ WaitSpurious \/ Stop

\* After the join the node is torn down.
Terminated == mpc = "joined" /\ ppc = "idle" /\ UNCHANGED vars

Next == Producer \/ Worker \/ Main \/ Terminated

Spec == Init /\ [][Next]_vars

------------------------------------------------------------------------------
TypeOK ==
  /\ state \in {"EMPTY", "FULL", "BUSY", "CLOSED"}
  /\ value \in Command \cup {NoCommand}
  /\ stopping \in BOOLEAN /\ active \in BOOLEAN /\ handle \in BOOLEAN
  /\ token \in BOOLEAN /\ lease \in BOOLEAN
  /\ lock \in {"none", "worker", "main"}
  /\ ppc \in {"idle", "claimed", "moved", "unpark"}
  /\ pcmd \in Command \cup {NoCommand} /\ wcmd \in Command \cup {NoCommand}
  /\ wpc \in {"top", "take", "claimed", "moved", "run", "finish", "closed",
              "stopping", "park", "exited"}
  /\ mpc \in {"publish", "started", "idle", "wake", "lock", "check", "waiting",
              "quiet", "stopwake", "close", "closewake", "join", "joined"}

\* The BUSY owner, and what each state says of the cell: "WORK_FULL always
\* covers a Some cell", an EMPTY or CLOSED slot covers none, and the cell is
\* never touched by two threads (the safety comment on the Sync impl).
CellProtocol ==
  /\ state = "BUSY" <=> ppc \in {"claimed", "moved"} \/ wpc \in {"claimed", "moved"}
  /\ ~(ppc \in {"claimed", "moved"} /\ wpc \in {"claimed", "moved"})
  /\ value # NoCommand <=> state = "FULL" \/ ppc = "moved" \/ wpc = "claimed"
  /\ ppc = "claimed" => pcmd # NoCommand
  /\ ppc \in {"moved", "unpark"} => pcmd = NoCommand

\* Who holds the mutex, and what active says of the worker.
WorkerProtocol ==
  /\ lock = "worker" <=> wpc \in {"take", "claimed", "moved"}
  /\ lock = "main" <=> mpc = "check"
  /\ active <=> wpc \in {"run", "finish"}
  /\ wcmd # NoCommand <=> wpc \in {"moved", "run", "finish"}

\* The lease and shutdown: a quiet waiter faces an idle worker, a closed slot
\* is never reopened, and the worker ends only after the close.
LeaseProtocol ==
  /\ lease <=> mpc \in {"wake", "lock", "check", "waiting", "quiet"}
  /\ lease => ppc = "idle" /\ pcmd = NoCommand
  /\ mpc = "quiet" => state = "EMPTY" /\ ~active
  /\ state = "CLOSED" <=> mpc \in {"closewake", "join", "joined"}
  /\ wpc = "exited" => state = "CLOSED"

\* The inductive invariant of the slot protocol.
SlotInv == TypeOK /\ CellProtocol /\ WorkerProtocol /\ LeaseProtocol

\* wait_idle returns only when every command published before the lease has
\* been processed, and nothing can start until the lease is released.
QuietMeansIdle ==
  mpc = "quiet" => value = NoCommand /\ wcmd = NoCommand /\ pcmd = NoCommand

\* stop joins a worker that has left no command behind in the slot.
NothingStranded ==
  wpc = "exited" => value = NoCommand /\ wcmd = NoCommand

\* The queue the rest of the node reasons about: a command is in it from the
\* FULL store to the EMPTY store.
Queue == INSTANCE WorkQueue WITH
  slot <- IF state = "FULL" \/ wpc = "claimed" THEN value
          ELSE IF wpc = "moved" THEN wcmd ELSE NoCommand,
  running <- IF active THEN wcmd ELSE NoCommand,
  lease <- IF ~lease THEN "none" ELSE IF mpc = "quiet" THEN "quiet" ELSE "waiting",
  closed <- state = "CLOSED",
  ended <- wpc = "exited"

\* The compare-and-swap slot implements the atomic queue.
ImplementsQueue == Queue!Spec

(***************************************************************************)
(* Every thread keeps running; park and Condvar::wait are not assumed to   *)
(* return by themselves, and the mutex is not assumed to be fair beyond    *)
(* letting a thread in that asks again and again.                          *)
(***************************************************************************)
FairSpec == Spec /\ WF_vars(Submission) /\ SF_vars(WorkerStep) /\ SF_vars(MainStep)

\* No wake-up is lost: a submitted command is taken and finished, although the
\* worker may be parking while it is published.
SubmittedIsProcessed == (state = "FULL") ~> (wpc = "finish")

\* The takeover never waits for ever.
WaitReturns == lease ~> ~lease
==============================================================================
