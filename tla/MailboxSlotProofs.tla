-------------------------- MODULE MailboxSlotProofs --------------------------
(***************************************************************************)
(* The compare-and-swap mailbox keeps its protocol invariant and           *)
(* implements the atomic mailbox, for every set of completions.            *)
(***************************************************************************)
EXTENDS MailboxSlot, TLAPS

------------------------------------------------------------------------------
(* The protocol invariant is inductive as it stands. *)

\* The mailbox starts empty, with nobody in it.
LEMMA InitMailboxInv == Init => MailboxInv
BY EmptyAssumption
DEF Init, None, Writer, MailboxInv, TypeOK, CellExclusive, Carried, OneOwner, InCell,
    ReaderInCell

\* A step of a writer through exchange keeps the protocol.
LEMMA WriterKeeps ==
  ASSUME MailboxInv, NEW w \in Writer, WriterStep(w) \/ ExchangeSpurious(w)
  PROVE  MailboxInv'
<1> USE EmptyAssumption
    DEF Writer, MailboxInv, TypeOK, CellExclusive, Carried, OneOwner, InCell,
        ReaderInCell, readerVars
<1>1. CASE ExchangeLoad(w) BY <1>1 DEF ExchangeLoad
<1>2. CASE ExchangeClaim(w) BY <1>2 DEF ExchangeClaim
<1>3. CASE ExchangeStale(w) BY <1>3 DEF ExchangeStale
<1>4. CASE ExchangeSwap(w) BY <1>4 DEF ExchangeSwap
<1>5. CASE ExchangeStore(w) BY <1>5 DEF ExchangeStore
<1>6. CASE DropPrev(w) BY <1>6 DEF DropPrev
<1>7. CASE ExchangeSpurious(w) BY <1>7 DEF ExchangeSpurious
<1> QED BY <1>1, <1>2, <1>3, <1>4, <1>5, <1>6, <1>7 DEF WriterStep

\* A new completion, or a new discard, keeps the protocol.
LEMMA CallsKeep ==
  ASSUME MailboxInv, Deposit \/ Discard
  PROVE  MailboxInv'
<1> USE EmptyAssumption
    DEF Writer, MailboxInv, TypeOK, CellExclusive, Carried, OneOwner, InCell,
        ReaderInCell, readerVars
<1>1. CASE Deposit BY <1>1 DEF Deposit
<1>2. CASE Discard BY <1>2 DEF Discard
<1> QED BY <1>1, <1>2

\* A step of the data loop keeps the protocol.
LEMMA ReaderKeeps ==
  ASSUME MailboxInv, Reader
  PROVE  MailboxInv'
<1> USE EmptyAssumption
    DEF Writer, MailboxInv, TypeOK, CellExclusive, Carried, OneOwner, InCell,
        ReaderInCell, writerVars
<1>1. CASE SwapReady BY <1>1 DEF SwapReady
<1>2. CASE TakeClaim BY <1>2 DEF TakeClaim
<1>3. CASE TakeMiss BY <1>3 DEF TakeMiss
<1>4. CASE TakeMove BY <1>4 DEF TakeMove
<1>5. CASE TakeStore BY <1>5 DEF TakeStore
<1>6. CASE ConsumeTaken BY <1>6 DEF ConsumeTaken
<1> QED BY <1>1, <1>2, <1>3, <1>4, <1>5, <1>6 DEF Reader

\* One thread at a time is in the cell, FULL covers a completion and EMPTY
\* none, and no completion has two owners.
THEOREM MailboxInvariance == Spec => []MailboxInv
<1>1. Init => MailboxInv BY InitMailboxInv
<1>2. MailboxInv /\ [Next]_vars => MailboxInv'
  <2> SUFFICES ASSUME MailboxInv, [Next]_vars PROVE MailboxInv' OBVIOUS
  <2>1. CASE Deposit \/ Discard BY <2>1, CallsKeep
  <2>2. CASE Reader BY <2>2, ReaderKeeps
  <2>3. CASE \E w \in Writer : WriterStep(w) \/ ExchangeSpurious(w) BY <2>3, WriterKeeps
  <2>4. CASE UNCHANGED vars
    BY <2>4 DEF vars, MailboxInv, TypeOK, CellExclusive, Carried, OneOwner, InCell, ReaderInCell
  <2> QED BY <2>1, <2>2, <2>3, <2>4 DEF Next
<1> QED BY <1>1, <1>2, PTL DEF Spec

\* exchange and take_swap touch the UnsafeCell one thread at a time.
THEOREM CellIsExclusive == Spec => []CellExclusive
<1>1. MailboxInv => CellExclusive BY DEF MailboxInv
<1> QED BY <1>1, MailboxInvariance, PTL

\* No completion, and so no device, is in two places.
THEOREM CompletionHasOneOwner == Spec => []OneOwner
<1>1. MailboxInv => OneOwner BY DEF MailboxInv
<1> QED BY <1>1, MailboxInvariance, PTL

------------------------------------------------------------------------------
(* Refinement: the move of the cell is the exchange, or the take. *)

\* The steps of a writer: the swap under BUSY is the exchange.
LEMMA WriterRefines ==
  ASSUME MailboxInv, NEW w \in Writer, WriterStep(w) \/ ExchangeSpurious(w)
  PROVE  [Box!Next]_(Box!vars)
<1> USE DEF MailboxInv, TypeOK, Carried, readerVars
<1>1. CASE ExchangeSwap(w)
  <2>1. Box!Exchange(w) BY <1>1 DEF ExchangeSwap, Box!Exchange
  <2> QED BY <2>1 DEF Box!Next
<1>2. CASE DropPrev(w)
  <2>1. Box!Drop(w) BY <1>2 DEF DropPrev, Box!Drop
  <2> QED BY <2>1 DEF Box!Next
<1>3. CASE ExchangeLoad(w) BY <1>3 DEF ExchangeLoad, Box!vars
<1>4. CASE ExchangeClaim(w) BY <1>4 DEF ExchangeClaim, Box!vars
<1>5. CASE ExchangeStale(w) BY <1>5 DEF ExchangeStale, Box!vars
<1>6. CASE ExchangeStore(w) BY <1>6 DEF ExchangeStore, Box!vars
<1>7. CASE ExchangeSpurious(w) BY <1>7 DEF ExchangeSpurious, Box!vars
<1> QED BY <1>1, <1>2, <1>3, <1>4, <1>5, <1>6, <1>7 DEF WriterStep

\* The steps of the data loop: moving the completion out under BUSY is the take.
LEMMA ReaderRefines ==
  ASSUME MailboxInv, Reader
  PROVE  [Box!Next]_(Box!vars)
<1>1. CASE TakeMove
  <2>1. Box!Take
    BY <1>1 DEF TakeMove, Box!Take, MailboxInv, CellExclusive, Carried, writerVars
  <2> QED BY <2>1 DEF Box!Next
<1>2. CASE ConsumeTaken
  <2>1. Box!Consume BY <1>2 DEF ConsumeTaken, Box!Consume, writerVars
  <2> QED BY <2>1 DEF Box!Next
<1>3. CASE SwapReady BY <1>3 DEF SwapReady, Box!vars, writerVars
<1>4. CASE TakeClaim BY <1>4 DEF TakeClaim, Box!vars, writerVars
<1>5. CASE TakeMiss BY <1>5 DEF TakeMiss, Box!vars, writerVars
<1>6. CASE TakeStore BY <1>6 DEF TakeStore, Box!vars, writerVars
<1> QED BY <1>1, <1>2, <1>3, <1>4, <1>5, <1>6 DEF Reader

\* exchange and take_swap implement the atomic mailbox that Rebuild is
\* written against.
THEOREM SlotImplementsMailbox == Spec => ImplementsMailbox
<1>1. Init => Box!Init BY DEF Init, None, Box!Init
<1>2. MailboxInv /\ [Next]_vars => [Box!Next]_(Box!vars)
  <2> SUFFICES ASSUME MailboxInv, [Next]_vars PROVE [Box!Next]_(Box!vars) OBVIOUS
  <2>1. CASE Deposit BY <2>1 DEF Deposit, Box!vars, readerVars
  <2>2. CASE Discard BY <2>2 DEF Discard, Box!vars, readerVars
  <2>3. CASE Reader BY <2>3, ReaderRefines
  <2>4. CASE \E w \in Writer : WriterStep(w) \/ ExchangeSpurious(w) BY <2>4, WriterRefines
  <2>5. CASE UNCHANGED vars BY <2>5 DEF vars, Box!vars
  <2> QED BY <2>1, <2>2, <2>3, <2>4, <2>5 DEF Next
<1> QED BY <1>1, <1>2, MailboxInvariance, PTL DEF Spec, ImplementsMailbox, Box!Spec
==============================================================================
