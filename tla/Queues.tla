------------------------------- MODULE Queues -------------------------------
(***************************************************************************)
(* The VecDeque<ThreadId> of a condition variable as a sequence.           *)
(***************************************************************************)
EXTENDS Naturals, Sequences

Elems(queue) == {queue[i] : i \in 1 .. Len(queue)}

Distinct(queue) == \A i, j \in 1 .. Len(queue) : queue[i] = queue[j] => i = j

\* VecDeque::retain(|&x| x != t), for a queue that holds t at most once, as
\* CondQueuesConsistent of module Scheduler says of every queue.
Without(queue, t) ==
    IF \E i \in 1 .. Len(queue) : queue[i] = t
    THEN LET i == CHOOSE j \in 1 .. Len(queue) : queue[j] = t
         IN SubSeq(queue, 1, i - 1) \o SubSeq(queue, i + 1, Len(queue))
    ELSE queue
=============================================================================
