----------------------------- MODULE WaitRing -----------------------------
(***************************************************************************)
(* The wait list of a resource as resourceManager.c keeps it: an array of  *)
(* pids with a head and a tail that wrap around, one cell left empty so    *)
(* that a full ring can be told from an empty one.  The ring of I/O        *)
(* requests in ioHandler.c has the same head and tail.                     *)
(***************************************************************************)
EXTENDS Integers, Sequences

CONSTANTS
  Item,     \* the pids
  Size,     \* MAX_WAIT_PIDS, 32 in the source
  NoItem    \* what the cells hold before anything is put

ASSUME SizeAssumption == Size \in Nat /\ Size >= 2

VARIABLES
  waitPids,   \* the cells
  head,       \* the next cell to take from
  tail,       \* the next cell to write
  reply       \* what the last call returned

ringVars == <<waitPids, head, tail, reply>>

Cells == 0 .. Size - 1

Reply(ok, x) == [ok |-> ok, item |-> x]

Init ==
  /\ waitPids = [c \in Cells |-> NoItem]
  /\ head = 0 /\ tail = 0
  /\ reply = Reply(TRUE, NoItem)

After(c) == (c + 1) % Size

\* Mutant: the cell that tells full from empty is used as well.
enqueue_full_ring(x) ==
  /\ waitPids' = [waitPids EXCEPT ![tail] = x]
  /\ tail' = After(tail)
  /\ reply' = Reply(TRUE, NoItem)
  /\ UNCHANGED head

enqueue(x) ==
  IF After(tail) = head
  THEN /\ reply' = Reply(FALSE, NoItem)
       /\ UNCHANGED <<waitPids, head, tail>>
  ELSE /\ waitPids' = [waitPids EXCEPT ![tail] = x]
       /\ tail' = After(tail)
       /\ reply' = Reply(TRUE, NoItem)
       /\ UNCHANGED head

\* Mutant: the empty ring is not told apart.
dequeue_unchecked ==
  /\ reply' = Reply(TRUE, waitPids[head])
  /\ head' = After(head)
  /\ UNCHANGED <<waitPids, tail>>

dequeue ==
  IF head = tail
  THEN /\ reply' = Reply(FALSE, NoItem)
       /\ UNCHANGED <<waitPids, head, tail>>
  ELSE /\ reply' = Reply(TRUE, waitPids[head])
       /\ head' = After(head)
       /\ UNCHANGED <<waitPids, tail>>

Next == dequeue \/ \E x \in Item : enqueue(x)

Spec == Init /\ [][Next]_ringVars

-----------------------------------------------------------------------------
TypeOK ==
  /\ waitPids \in [Cells -> Item \cup {NoItem}]
  /\ head \in Cells /\ tail \in Cells
  /\ reply \in [ok : BOOLEAN, item : Item \cup {NoItem}]

\* The cells from head up to tail, around the end of the array.
Count == IF head <= tail THEN tail - head ELSE tail - head + Size

Wrap(c) == IF c < Size THEN c ELSE c - Size

Contents == [i \in 1 .. Count |-> waitPids[Wrap(head + i - 1)]]

\* Every occupied cell holds an item that was put, never an unset one: a wake-up
\* is never for pid 0 (resourceManager.c:32-45, 65-77).
NoUnsetItem == \A i \in 1 .. Count : Contents[i] \in Item

\* The indices stay inside the array and every cell between them is set
\* (resourceManager.c:32-45).
RingInv == TypeOK /\ NoUnsetItem

\* The ring is a bounded FIFO of Size - 1 items (resourceManager.c:32-45).
Fifo == INSTANCE BoundedFifo WITH queue <- Contents, Capacity <- Size - 1

ImplementsFifo == Fifo!Spec
=============================================================================
