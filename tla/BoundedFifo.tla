---------------------------- MODULE BoundedFifo ----------------------------
(***************************************************************************)
(* The queue that callers of a wait list rely on: at most Capacity items,  *)
(* taken in the order they were put, a put on a full queue and a take from *)
(* an empty one refused without effect.                                    *)
(***************************************************************************)
EXTENDS Naturals, Sequences

CONSTANTS Item, Capacity, NoItem

VARIABLES
  queue,    \* the items, oldest first
  reply     \* what the last call returned: success, and the item taken

fifoVars == <<queue, reply>>

Reply(ok, x) == [ok |-> ok, item |-> x]

Init == queue = <<>> /\ reply = Reply(TRUE, NoItem)

Put(x) ==
  \/ /\ Len(queue) < Capacity
     /\ queue' = Append(queue, x)
     /\ reply' = Reply(TRUE, NoItem)
  \/ /\ Len(queue) = Capacity
     /\ reply' = Reply(FALSE, NoItem)
     /\ UNCHANGED queue

Take ==
  \/ /\ queue # <<>>
     /\ reply' = Reply(TRUE, Head(queue))
     /\ queue' = Tail(queue)
  \/ /\ queue = <<>>
     /\ reply' = Reply(FALSE, NoItem)
     /\ UNCHANGED queue

Next == Take \/ \E x \in Item : Put(x)

Spec == Init /\ [][Next]_fifoVars
=============================================================================
