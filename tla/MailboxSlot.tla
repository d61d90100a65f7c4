---------------------------- MODULE MailboxSlot ----------------------------
(***************************************************************************)
(* The completion mailbox of NodeShared at the grain of single atomic      *)
(* operations: the worker deposits and the main thread discards through    *)
(* exchange, which loads the state, claims it with a compare-and-swap that *)
(* may fail spuriously, moves the value and publishes EMPTY or FULL; the   *)
(* data loop looks with a plain load, claims FULL with one compare-and-    *)
(* swap, and never waits.                                                  *)
(***************************************************************************)
CONSTANTS Message, Empty

ASSUME EmptyAssumption == Empty \notin Message

Writer == {"worker", "main"}

VARIABLES
  state,   \* NodeShared.slot_state
  cell,    \* NodeShared.slot: the value the BUSY owner may touch
  xpc,     \* where each writer is in exchange
  seen,    \* the state each writer loaded
  new,     \* the value each writer brings
  prev,    \* the predecessor each writer got back, until it is dropped
  rpc,     \* where the data loop is in take_swap
  taken    \* the completion the data loop holds

writerVars == <<xpc, seen, new, prev>>
readerVars == <<rpc, taken>>
vars == <<state, cell, xpc, seen, new, prev, rpc, taken>>

None == [w \in Writer |-> Empty]

Init ==
  /\ state = "EMPTY" /\ cell = Empty
  /\ xpc = [w \in Writer |-> "idle"] /\ seen = [w \in Writer |-> "EMPTY"]
  /\ new = None /\ prev = None
  /\ rpc = "idle" /\ taken = Empty

------------------------------------------------------------------------------
(* exchange: the worker's deposit and the main thread's discard_swap *)

Deposit ==
  /\ xpc["worker"] = "idle" /\ prev["worker"] = Empty
  /\ \E m \in Message \ {cell, taken, prev["main"]} : new' = [new EXCEPT !["worker"] = m]
  /\ xpc' = [xpc EXCEPT !["worker"] = "load"]
  /\ UNCHANGED <<state, cell, seen, prev, readerVars>>

Discard ==
  /\ xpc["main"] = "idle" /\ prev["main"] = Empty
  /\ xpc' = [xpc EXCEPT !["main"] = "load"]
  /\ UNCHANGED <<state, cell, seen, new, prev, readerVars>>

\* BUSY makes the writer yield and load again.
ExchangeLoad(w) ==
  /\ xpc[w] = "load" /\ state # "BUSY"
  /\ seen' = [seen EXCEPT ![w] = state]
  /\ xpc' = [xpc EXCEPT ![w] = "claim"]
  /\ UNCHANGED <<state, cell, new, prev, readerVars>>

ExchangeClaim(w) ==
  /\ xpc[w] = "claim" /\ state = seen[w]
  /\ state' = "BUSY" /\ xpc' = [xpc EXCEPT ![w] = "swap"]
  /\ UNCHANGED <<cell, seen, new, prev, readerVars>>

\* The state moved on since the load.
ExchangeStale(w) ==
  /\ xpc[w] = "claim" /\ state # seen[w]
  /\ xpc' = [xpc EXCEPT ![w] = "load"]
  /\ UNCHANGED <<state, cell, seen, new, prev, readerVars>>

\* compare_exchange_weak may fail although nothing moved.
ExchangeSpurious(w) ==
  /\ xpc[w] = "claim" /\ state = seen[w]
  /\ xpc' = [xpc EXCEPT ![w] = "load"]
  /\ UNCHANGED <<state, cell, seen, new, prev, readerVars>>

\* Mutant: the predecessor is overwritten.
ExchangeSwapLossy(w) ==
  /\ xpc[w] = "swap"
  /\ cell' = new[w] /\ new' = [new EXCEPT ![w] = Empty]
  /\ xpc' = [xpc EXCEPT ![w] = "store"]
  /\ UNCHANGED <<state, seen, prev, readerVars>>

ExchangeSwap(w) ==
  /\ xpc[w] = "swap"
  /\ prev' = [prev EXCEPT ![w] = cell]
  /\ cell' = new[w] /\ new' = [new EXCEPT ![w] = Empty]
  /\ xpc' = [xpc EXCEPT ![w] = "store"]
  /\ UNCHANGED <<state, seen, readerVars>>

\* Mutant: a discard leaves the slot BUSY.
ExchangeStoreForgotten(w) ==
  /\ xpc[w] = "store"
  /\ state' = IF w = "worker" THEN "FULL" ELSE state
  /\ xpc' = [xpc EXCEPT ![w] = "idle"]
  /\ UNCHANGED <<cell, seen, new, prev, readerVars>>

ExchangeStore(w) ==
  /\ xpc[w] = "store"
  /\ state' = IF w = "worker" THEN "FULL" ELSE "EMPTY"
  /\ xpc' = [xpc EXCEPT ![w] = "idle"]
  /\ UNCHANGED <<cell, seen, new, prev, readerVars>>

\* The predecessor, device and all, is destroyed off the real-time path.
DropPrev(w) ==
  /\ xpc[w] = "idle" /\ prev[w] # Empty
  /\ prev' = [prev EXCEPT ![w] = Empty]
  /\ UNCHANGED <<state, cell, xpc, seen, new, readerVars>>

WriterStep(w) ==
  \/ ExchangeLoad(w) \/ ExchangeClaim(w) \/ ExchangeStale(w) \/ ExchangeSwap(w)
  \/ ExchangeStore(w) \/ DropPrev(w)

------------------------------------------------------------------------------
(* The data loop: swap_ready and take_swap *)

SwapReady ==
  /\ rpc = "idle" /\ taken = Empty /\ state = "FULL"
  /\ rpc' = "ready"
  /\ UNCHANGED <<state, cell, writerVars, taken>>

TakeClaim ==
  /\ rpc = "ready" /\ state = "FULL"
  /\ state' = "BUSY" /\ rpc' = "move"
  /\ UNCHANGED <<cell, writerVars, taken>>

\* A writer got in between: nothing this cycle.
TakeMiss ==
  /\ rpc = "ready" /\ state # "FULL"
  /\ rpc' = "idle"
  /\ UNCHANGED <<state, cell, writerVars, taken>>

TakeMove ==
  /\ rpc = "move"
  /\ taken' = cell /\ cell' = Empty /\ rpc' = "store"
  /\ UNCHANGED <<state, writerVars>>

TakeStore ==
  /\ rpc = "store"
  /\ state' = "EMPTY" /\ rpc' = "idle"
  /\ UNCHANGED <<cell, writerVars, taken>>

\* poll_rebuild applies the completion, or sends it on to the worker.
ConsumeTaken ==
  /\ rpc = "idle" /\ taken # Empty
  /\ taken' = Empty
  /\ UNCHANGED <<state, cell, writerVars, rpc>>

Reader == SwapReady \/ TakeClaim \/ TakeMiss \/ TakeMove \/ TakeStore \/ ConsumeTaken

Next == \/ Deposit \/ Discard \/ Reader
        \/ \E w \in Writer : WriterStep(w) \/ ExchangeSpurious(w)

Spec == Init /\ [][Next]_vars

------------------------------------------------------------------------------
InCell(w) == xpc[w] \in {"swap", "store"}
ReaderInCell == rpc \in {"move", "store"}

TypeOK ==
  /\ state \in {"EMPTY", "FULL", "BUSY"} /\ cell \in Message \cup {Empty}
  /\ xpc \in [Writer -> {"idle", "load", "claim", "swap", "store"}]
  /\ seen \in [Writer -> {"EMPTY", "FULL"}]
  /\ new \in [Writer -> Message \cup {Empty}]
  /\ prev \in [Writer -> Message \cup {Empty}]
  /\ rpc \in {"idle", "ready", "move", "store"} /\ taken \in Message \cup {Empty}

\* The cell is touched by one thread at a time, the one that moved the state
\* to BUSY; outside of that FULL covers a message and EMPTY covers none (the
\* safety comment on the Sync impl of NodeShared).
CellExclusive ==
  /\ state = "BUSY" <=> ReaderInCell \/ \E w \in Writer : InCell(w)
  /\ ReaderInCell => \A w \in Writer : ~InCell(w)
  /\ ~(InCell("worker") /\ InCell("main"))
  /\ state = "FULL" => cell # Empty
  /\ state = "EMPTY" => cell = Empty
  /\ rpc = "move" => cell # Empty
  /\ rpc = "store" => cell = Empty

\* What each thread carries on its way through exchange and take_swap.
Carried ==
  /\ new["main"] = Empty
  /\ new["worker"] # Empty <=> xpc["worker"] \in {"load", "claim", "swap"}
  /\ xpc["worker"] = "store" => cell # Empty
  /\ xpc["main"] = "store" => cell = Empty
  /\ \A w \in Writer : xpc[w] \in {"load", "claim", "swap"} => prev[w] = Empty
  /\ rpc \in {"ready", "move"} => taken = Empty

\* A completion is with one owner only: in the cell, with the data loop, or
\* brought by or given back to one writer, so that the device it carries is
\* neither leaked into two places nor closed twice.
OneOwner ==
  /\ taken # Empty => taken # cell /\ \A w \in Writer : taken # prev[w] /\ taken # new[w]
  /\ \A w \in Writer : prev[w] # Empty => prev[w] # cell /\ prev[w] # new["worker"]
  /\ prev["worker"] # Empty => prev["worker"] # prev["main"]
  /\ new["worker"] # Empty => new["worker"] # cell

\* The inductive invariant of the mailbox protocol.
MailboxInv == TypeOK /\ CellExclusive /\ Carried /\ OneOwner

\* The atomic mailbox: an exchange happens with its move, and so does a take.
Box == INSTANCE Mailbox WITH box <- cell, taken <- taken, back <- prev

\* The compare-and-swap slot implements the atomic mailbox.
ImplementsMailbox == Box!Spec

(***************************************************************************)
(* Writers and the data loop keep running.  A writer may lose the claim to *)
(* another thread or to a spurious failure, but not for ever.              *)
(***************************************************************************)
FairSpec ==
  /\ Spec /\ WF_vars(Reader)
  /\ \A w \in Writer : WF_vars(WriterStep(w)) /\ SF_vars(ExchangeLoad(w))
                      /\ SF_vars(ExchangeClaim(w))

\* A writer gets its turn at the cell: deposit and discard_swap return.
ExchangeReturns == \A w \in Writer : (xpc[w] = "load") ~> (xpc[w] = "idle")
==============================================================================
