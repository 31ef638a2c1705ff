-------------------------- MODULE WaitRingProofs --------------------------
(***************************************************************************)
(* For every ring size of at least two and every set of items, the ring of *)
(* resourceManager.c is a bounded FIFO of one item less than its cells,    *)
(* and an occupied cell always holds an item that was put.                 *)
(***************************************************************************)
EXTENDS WaitRing, SequenceTheorems, TLAPS

\* The wrap-around of an index, without the remainder.
LEMMA AfterValue ==
  ASSUME NEW c \in Cells
  PROVE  /\ After(c) \in Cells
         /\ After(c) = IF c + 1 = Size THEN 0 ELSE c + 1
<1>1. CASE c + 1 = Size
  BY <1>1, SizeAssumption DEF After, Cells
<1>2. CASE c + 1 # Size
  BY <1>2, SizeAssumption DEF After, Cells
<1>. QED BY <1>1, <1>2

\* The indices that Contents reads are cells, and there are at most Size - 1.
LEMMA ContentsShape ==
  ASSUME TypeOK
  PROVE  /\ Count \in 0 .. Size - 1
         /\ \A i \in 1 .. Count : Wrap(head + i - 1) \in Cells
         /\ Contents \in Seq(Item \cup {NoItem})
         /\ Len(Contents) = Count
<1>1. Count \in 0 .. Size - 1
  BY SizeAssumption DEF TypeOK, Count, Cells
<1>2. \A i \in 1 .. Count : Wrap(head + i - 1) \in Cells
  BY <1>1, SizeAssumption DEF TypeOK, Wrap, Cells
<1>3. Contents \in [1 .. Count -> Item \cup {NoItem}]
  BY <1>2 DEF Contents, TypeOK
<1>. QED BY <1>1, <1>2, <1>3

-----------------------------------------------------------------------------
LEMMA TypeInit == Init => TypeOK
BY SizeAssumption DEF Init, TypeOK, Cells, Reply

LEMMA ReplyType ==
  ASSUME NEW ok \in BOOLEAN, NEW x \in Item \cup {NoItem}
  PROVE  Reply(ok, x) \in [ok : BOOLEAN, item : Item \cup {NoItem}]
BY DEF Reply

LEMMA TypeStep == TypeOK /\ [Next]_ringVars => TypeOK'
<1>. SUFFICES ASSUME TypeOK, [Next]_ringVars PROVE TypeOK'
  OBVIOUS
<1>1. CASE dequeue
  <2>1. \E ok \in BOOLEAN, x \in Item \cup {NoItem} : reply' = Reply(ok, x)
    BY <1>1 DEF TypeOK, dequeue
  <2>2. reply' \in [ok : BOOLEAN, item : Item \cup {NoItem}]
    BY <2>1, ReplyType
  <2>3. head' \in Cells /\ tail' \in Cells
    BY <1>1, AfterValue DEF TypeOK, dequeue
  <2>. QED BY <1>1, <2>2, <2>3 DEF TypeOK, dequeue
<1>2. ASSUME NEW x \in Item, enqueue(x) PROVE TypeOK'
  <2>1. \E ok \in BOOLEAN, y \in Item \cup {NoItem} : reply' = Reply(ok, y)
    BY <1>2 DEF enqueue
  <2>2. reply' \in [ok : BOOLEAN, item : Item \cup {NoItem}]
    BY <2>1, ReplyType
  <2>3. head' \in Cells /\ tail' \in Cells
    BY <1>2, AfterValue DEF TypeOK, enqueue
  <2>4. waitPids' \in [Cells -> Item \cup {NoItem}]
    BY <1>2 DEF TypeOK, enqueue
  <2>. QED BY <2>2, <2>3, <2>4 DEF TypeOK
<1>3. CASE UNCHANGED ringVars
  BY <1>3 DEF TypeOK, ringVars
<1>. QED BY <1>1, <1>2, <1>3 DEF Next

\* The indices stay inside the array and the cells hold items.
THEOREM RingType == Spec => []TypeOK
BY TypeInit, TypeStep, PTL DEF Spec

-----------------------------------------------------------------------------
\* What the two operations do to the contents.

LEMMA EnqueueAppends ==
  ASSUME TypeOK, NEW x \in Item, enqueue(x), After(tail) # head
  PROVE  /\ Count < Size - 1 /\ Count' = Count + 1
         /\ Contents' = Append(Contents, x)
<1>2. After(tail) = IF tail + 1 = Size THEN 0 ELSE tail + 1
  BY AfterValue DEF TypeOK
<1>3. Count < Size - 1 /\ Count' = Count + 1
  BY <1>2, SizeAssumption DEF TypeOK, enqueue, Count, Cells
<1>4. Wrap(head + Count) = tail
  BY <1>3, SizeAssumption DEF TypeOK, Count, Wrap, Cells
<1>5. ASSUME NEW i \in 1 .. Count
      PROVE  Wrap(head + i - 1) # tail
  BY <1>3, SizeAssumption DEF TypeOK, Count, Wrap, Cells
<1>6. Contents' = [i \in 1 .. Count + 1 |-> waitPids'[Wrap(head + i - 1)]]
  BY <1>3 DEF Contents, enqueue, Wrap
<1>7. ASSUME NEW i \in 1 .. Count + 1
      PROVE  waitPids'[Wrap(head + i - 1)] = IF i <= Count THEN Contents[i] ELSE x
  <2>0. Count \in Nat /\ Len(Contents) = Count
    BY ContentsShape
  <2>1. CASE i <= Count
    BY <2>0, <2>1, <1>5, ContentsShape DEF TypeOK, enqueue, Contents
  <2>2. CASE i = Count + 1
    BY <2>0, <2>2, <1>4 DEF TypeOK, enqueue
  <2>. QED BY <2>0, <2>1, <2>2
<1>8. /\ Append(Contents, x) \in Seq(Item \cup {NoItem})
      /\ Len(Append(Contents, x)) = Count + 1
      /\ \A i \in 1 .. Count + 1 :
           Append(Contents, x)[i] = IF i <= Count THEN Contents[i] ELSE x
  BY ContentsShape, AppendProperties
<1>9. /\ Contents' \in Seq(Item \cup {NoItem})
      /\ Len(Contents') = Count + 1
  <2>1. Count + 1 \in Nat
    BY ContentsShape
  <2>2. \A i \in 1 .. Count + 1 : waitPids'[Wrap(head + i - 1)] \in Item \cup {NoItem}
    BY <1>7, ContentsShape
  <2>3. Contents' \in [1 .. Count + 1 -> Item \cup {NoItem}]
    BY <1>6, <2>2
  <2>. QED BY <2>1, <2>3
<1>10. \A i \in 1 .. Count + 1 : Contents'[i] = Append(Contents, x)[i]
  BY <1>6, <1>7, <1>8
<1>. QED BY <1>3, <1>8, <1>9, <1>10, SeqEqual

LEMMA DequeueTakesHead ==
  ASSUME TypeOK, dequeue, head # tail
  PROVE  /\ Contents # <<>>
         /\ Head(Contents) = waitPids[head]
         /\ Count' = Count - 1
         /\ Contents' = Tail(Contents)
<1>1. After(head) = IF head + 1 = Size THEN 0 ELSE head + 1
  BY AfterValue DEF TypeOK
<1>2. Count >= 1 /\ Count' = Count - 1
  BY <1>1, SizeAssumption DEF TypeOK, dequeue, Count, Cells
<1>3. Count \in Nat /\ Len(Contents) = Count /\ Contents \in Seq(Item \cup {NoItem})
  BY ContentsShape
<1>4. Wrap(head) = head
  BY SizeAssumption DEF TypeOK, Wrap, Cells
<1>5. Contents[1] = waitPids[head]
  BY <1>2, <1>3, <1>4 DEF Contents, TypeOK, Cells
<1>6. Contents' = [i \in 1 .. Count - 1 |-> waitPids[Wrap(head' + i - 1)]]
  BY <1>2 DEF Contents, dequeue, Wrap
<1>7. ASSUME NEW i \in 1 .. Count - 1
      PROVE  waitPids[Wrap(head' + i - 1)] = Contents[i + 1]
  <2>1. Wrap(head' + i - 1) = Wrap(head + (i + 1) - 1)
    BY <1>1, <1>2, <1>3, SizeAssumption DEF TypeOK, dequeue, Wrap, Count, Cells
  <2>. QED BY <2>1, <1>3 DEF Contents
<1>8. /\ Contents # <<>>
      /\ Tail(Contents) \in Seq(Item \cup {NoItem})
      /\ Len(Tail(Contents)) = Count - 1
      /\ \A i \in 1 .. Count - 1 : Tail(Contents)[i] = Contents[i + 1]
  BY <1>2, <1>3, HeadTailProperties
<1>9. Contents' \in [1 .. Count - 1 -> Item \cup {NoItem}]
  BY <1>3, <1>6, <1>7
<1>10. /\ Contents' \in Seq(Item \cup {NoItem})
       /\ Len(Contents') = Count - 1
  BY <1>2, <1>3, <1>9
<1>11. \A i \in 1 .. Count - 1 : Contents'[i] = Tail(Contents)[i]
  BY <1>6, <1>7, <1>8
<1>12. Contents' = Tail(Contents)
  BY <1>8, <1>10, <1>11, SeqEqual
<1>. QED BY <1>2, <1>3, <1>5, <1>8, <1>12

\* The ring refuses exactly when it holds Size - 1 items, or none.
LEMMA FullAndEmpty ==
  ASSUME TypeOK
  PROVE  /\ After(tail) = head <=> Count = Size - 1
         /\ head = tail <=> Contents = <<>>
<1>1. After(tail) = IF tail + 1 = Size THEN 0 ELSE tail + 1
  BY AfterValue DEF TypeOK
<1>2. head = tail <=> Count = 0
  BY SizeAssumption DEF TypeOK, Count, Cells
<1>3. Count = 0 <=> Contents = <<>>
  BY ContentsShape
<1>4. After(tail) = head <=> Count = Size - 1
  BY <1>1, SizeAssumption DEF TypeOK, Count, Cells
<1>. QED BY <1>2, <1>3, <1>4

-----------------------------------------------------------------------------
LEMMA UnsetStep == TypeOK /\ NoUnsetItem /\ [Next]_ringVars => NoUnsetItem'
<1>. SUFFICES ASSUME TypeOK, NoUnsetItem, [Next]_ringVars PROVE NoUnsetItem'
  OBVIOUS
<1>. USE DEF NoUnsetItem
<1>0. Count \in Nat /\ Len(Contents) = Count /\ Contents \in Seq(Item \cup {NoItem})
  BY ContentsShape
<1>1. CASE dequeue /\ head # tail
  <2>1. \A i \in 1 .. Count - 1 : Tail(Contents)[i] = Contents[i + 1]
    BY <1>0, <1>1, DequeueTakesHead, HeadTailProperties
  <2>. QED BY <1>0, <1>1, <2>1, DequeueTakesHead
<1>2. ASSUME NEW x \in Item, enqueue(x), After(tail) # head PROVE NoUnsetItem'
  <2>1. \A i \in 1 .. Count + 1 :
          Append(Contents, x)[i] = IF i <= Count THEN Contents[i] ELSE x
    BY <1>0, AppendProperties
  <2>. QED BY <1>0, <1>2, <2>1, EnqueueAppends
<1>3. ASSUME UNCHANGED <<waitPids, head, tail>> PROVE NoUnsetItem'
  BY <1>3 DEF Contents, Count, Wrap
<1>. QED BY <1>1, <1>2, <1>3 DEF Next, ringVars, dequeue, enqueue

\* The indices stay in range and an occupied cell holds an item that was put:
\* what a release takes from the ring is always the pid of a process that queued.
THEOREM RingHoldsItems == Spec => []RingInv
<1>1. Init => NoUnsetItem
  BY SizeAssumption DEF Init, NoUnsetItem, Count
<1>. QED BY <1>1, RingType, UnsetStep, PTL DEF Spec, RingInv

-----------------------------------------------------------------------------
LEMMA RefinesInit == Init => Fifo!Init
<1>. SUFFICES ASSUME Init PROVE Fifo!Init
  OBVIOUS
<1>1. TypeOK /\ head = tail
  BY TypeInit DEF Init
<1>. QED BY <1>1, FullAndEmpty DEF Init, Fifo!Init, Reply, Fifo!Reply

LEMMA RefinesStep ==
  TypeOK /\ [Next]_ringVars => [Fifo!Next]_(Fifo!fifoVars)
<1>. SUFFICES ASSUME TypeOK, [Next]_ringVars
     PROVE  [Fifo!Next]_(Fifo!fifoVars)
  OBVIOUS
<1>1. CASE dequeue /\ head # tail
  <2>1. Fifo!Take
    BY <1>1, DequeueTakesHead DEF dequeue, Fifo!Take, Reply, Fifo!Reply
  <2>. QED BY <2>1 DEF Fifo!Next
<1>2. CASE dequeue /\ head = tail
  <2>1. UNCHANGED Contents
    BY <1>2 DEF dequeue, Contents, Count, Wrap
  <2>2. Fifo!Take
    BY <1>2, <2>1, FullAndEmpty DEF dequeue, Fifo!Take, Reply, Fifo!Reply
  <2>. QED BY <2>2 DEF Fifo!Next
<1>3. ASSUME NEW x \in Item, enqueue(x), After(tail) # head PROVE Fifo!Next
  <2>1. Fifo!Put(x)
    BY <1>3, EnqueueAppends, ContentsShape DEF enqueue, Fifo!Put, Reply, Fifo!Reply
  <2>. QED BY <2>1 DEF Fifo!Next
<1>4. ASSUME NEW x \in Item, enqueue(x), After(tail) = head PROVE Fifo!Next
  <2>1. UNCHANGED Contents
    BY <1>4 DEF enqueue, Contents, Count, Wrap
  <2>2. Fifo!Put(x)
    BY <1>4, <2>1, FullAndEmpty, ContentsShape
    DEF enqueue, Fifo!Put, Reply, Fifo!Reply
  <2>. QED BY <2>2 DEF Fifo!Next
<1>5. CASE UNCHANGED ringVars
  BY <1>5 DEF ringVars, Fifo!fifoVars, Contents, Count, Wrap
<1>. QED BY <1>1, <1>2, <1>3, <1>4, <1>5 DEF Next

\* The ring implements the bounded FIFO.
THEOREM RingImplementsFifo == Spec => ImplementsFifo
BY RefinesInit, RefinesStep, RingType, PTL DEF Spec, ImplementsFifo, Fifo!Spec
=============================================================================
