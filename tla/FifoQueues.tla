----------------------------- MODULE FifoQueues -----------------------------
(***************************************************************************)
(* What XDOS queues promise: a table of bounded first-in first-out queues. *)
(* A queue that is deleted loses its messages and one that is made is      *)
(* empty; bound 0 means there is no queue.                                 *)
(***************************************************************************)
EXTENDS Naturals, Sequences

CONSTANTS Ids, Messages, MaxLen

VARIABLES queue, bound, taken

Init == /\ queue = [i \in Ids |-> <<>>]
        /\ bound = [i \in Ids |-> 0]
        /\ taken.from \notin Ids

Make(i, n) == /\ bound[i] = 0
              /\ bound' = [bound EXCEPT ![i] = n]
              /\ UNCHANGED <<queue, taken>>

Delete(i) == /\ bound[i] # 0
             /\ bound' = [bound EXCEPT ![i] = 0]
             /\ queue' = [queue EXCEPT ![i] = <<>>]
             /\ UNCHANGED taken

Put(i, m) == /\ Len(queue[i]) < bound[i]
             /\ queue' = [queue EXCEPT ![i] = Append(@, m)]
             /\ UNCHANGED <<bound, taken>>

Get(i) == /\ queue[i] # <<>>
          /\ taken' = [from |-> i, msg |-> Head(queue[i])]
          /\ queue' = [queue EXCEPT ![i] = Tail(@)]
          /\ UNCHANGED bound

Next == \E i \in Ids : \/ Delete(i) \/ Get(i)
                       \/ \E n \in 1 .. MaxLen : Make(i, n)
                       \/ \E m \in Messages : Put(i, m)

Spec == Init /\ [][Next]_<<queue, bound, taken>>

=============================================================================
