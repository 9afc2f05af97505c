-------------------------- MODULE ConcurrentQueue ---------------------------
(***************************************************************************)
(* What ConcurrentQueueInterface (core/common/concurrent_queue.h) promises *)
(* to producers and consumers: a queue whose operations take effect at one *)
(* instant each.  A WaitAndPop waits until there is something to take.     *)
(***************************************************************************)
EXTENDS Integers, Sequences

CONSTANTS
  Consumers,   \* the threads that call WaitAndPop
  MaxItems     \* bound on the items pushed; they are numbered from 1

VARIABLES
  pushed,      \* how many items have been pushed
  items,       \* the items in the queue
  waiting,     \* the consumers inside WaitAndPop
  got          \* the items each consumer has taken, in order

Init ==
  /\ pushed = 0
  /\ items = << >>
  /\ waiting = {}
  /\ got = [c \in Consumers |-> << >>]

Push ==
  /\ pushed < MaxItems
  /\ pushed' = pushed + 1
  /\ items' = Append(items, pushed + 1)
  /\ UNCHANGED <<waiting, got>>

Call(c) ==
  /\ c \notin waiting
  /\ waiting' = waiting \cup {c}
  /\ UNCHANGED <<pushed, items, got>>

Return(c) ==
  /\ c \in waiting
  /\ items # << >>
  /\ items' = Tail(items)
  /\ got' = [got EXCEPT ![c] = Append(@, Head(items))]
  /\ waiting' = waiting \ {c}
  /\ UNCHANGED pushed

Next == Push \/ \E c \in Consumers : Call(c) \/ Return(c)

Spec == Init /\ [][Next]_<<pushed, items, waiting, got>>
=============================================================================
