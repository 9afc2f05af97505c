--------------------------- MODULE StdLockedQueue ---------------------------
(***************************************************************************)
(* StdLockedQueue (core/common/std_locked_queue.h): a std::queue, a mutex  *)
(* and a condition variable.  What a thread does while it holds mutex_     *)
(* nobody else can see, so that each stretch from taking mutex_ to         *)
(* releasing it (at the return, or inside cond_var_.wait) is one action.   *)
(***************************************************************************)
EXTENDS Integers, Sequences, FiniteSets

CONSTANTS
  Consumers,   \* the threads that call WaitAndPop
  MaxItems     \* bound on the items pushed; they are numbered from 1

ASSUME ConsumersAssumption == IsFiniteSet(Consumers)
ASSUME MaxItemsAssumption == MaxItems \in Nat

VARIABLES
  data_,       \* the std::queue
  pc,          \* where each consumer is in WaitAndPop
  pushed,      \* how many items have been pushed
  got          \* history: the items each consumer has taken, in order

vars == <<data_, pc, pushed, got>>

At(l) == {c \in Consumers : pc[c] = l}

Init ==
  /\ data_ = << >>
  /\ pc = [c \in Consumers |-> "outside"]
  /\ pushed = 0
  /\ got = [c \in Consumers |-> << >>]

-----------------------------------------------------------------------------
(* Mutant: notify_one only when the queue was empty.                       *)
NotifyWhenEmpty ==
  IF At("waiting") = {} \/ data_ # << >> THEN UNCHANGED pc
  ELSE \E c \in At("waiting") : pc' = [pc EXCEPT ![c] = "woken"]

(* Mutant: notify_one is forgotten.                                        *)
NotifyNobody == UNCHANGED pc

(* cond_var_.notify_one: one of the waiting threads, if any, wakes up.     *)
NotifyOne ==
  IF At("waiting") = {} THEN UNCHANGED pc
  ELSE \E c \in At("waiting") : pc' = [pc EXCEPT ![c] = "woken"]

Push ==
  /\ pushed < MaxItems
  /\ pushed' = pushed + 1
  /\ data_' = Append(data_, pushed + 1)
  /\ NotifyOne
  /\ UNCHANGED got

(* A consumer calls WaitAndPop and is about to take mutex_.                *)
Call(c) ==
  /\ pc[c] = "outside"
  /\ pc' = [pc EXCEPT ![c] = "called"]
  /\ UNCHANGED <<data_, pushed, got>>

(* It holds mutex_, for the first time or again after a wake-up, and the   *)
(* predicate of the wait is false: it goes to sleep.                       *)
Wait(c) ==
  /\ pc[c] \in {"called", "woken"}
  /\ data_ = << >>
  /\ pc' = [pc EXCEPT ![c] = "waiting"]
  /\ UNCHANGED <<data_, pushed, got>>

(* Mutant: the item is copied from the front but not removed.              *)
PopCopies(c) ==
  /\ pc[c] \in {"called", "woken"}
  /\ data_ # << >>
  /\ got' = [got EXCEPT ![c] = Append(@, Head(data_))]
  /\ pc' = [pc EXCEPT ![c] = "outside"]
  /\ UNCHANGED <<data_, pushed>>

(* Mutant: a woken thread does not test the predicate again.               *)
PopUnchecked(c) ==
  /\ pc[c] = "called" => data_ # << >>
  /\ pc[c] \in {"called", "woken"}
  /\ got' = [got EXCEPT ![c] = Append(@, IF data_ = << >> THEN -1 ELSE Head(data_))]
  /\ data_' = IF data_ = << >> THEN << >> ELSE Tail(data_)
  /\ pc' = [pc EXCEPT ![c] = "outside"]
  /\ UNCHANGED pushed

(* ... and the predicate is true: it takes the front and returns.          *)
Pop(c) ==
  /\ pc[c] \in {"called", "woken"}
  /\ data_ # << >>
  /\ got' = [got EXCEPT ![c] = Append(@, Head(data_))]
  /\ data_' = Tail(data_)
  /\ pc' = [pc EXCEPT ![c] = "outside"]
  /\ UNCHANGED pushed

(* A condition variable may wake a thread for no reason.                   *)
SpuriousWakeup(c) ==
  /\ pc[c] = "waiting"
  /\ pc' = [pc EXCEPT ![c] = "woken"]
  /\ UNCHANGED <<data_, pushed, got>>

WaitAndPop(c) == Call(c) \/ Wait(c) \/ Pop(c)

Next == Push \/ \E c \in Consumers : WaitAndPop(c) \/ SpuriousWakeup(c)

Spec == Init /\ [][Next]_vars

(* A consumer that can take mutex_ does so, and calls WaitAndPop again     *)
(* after each item, as the loops of Executor do.  A waiting one runs only  *)
(* when it is notified: nothing obliges a spurious wake-up.                *)
FairSpec == Spec /\ \A c \in Consumers : WF_vars(WaitAndPop(c))

-----------------------------------------------------------------------------
TypeOK ==
  /\ data_ \in Seq(1 .. MaxItems)
  /\ pc \in [Consumers -> {"outside", "called", "waiting", "woken"}]
  /\ pushed \in 0 .. MaxItems
  /\ got \in [Consumers -> Seq(1 .. MaxItems)]

(* No wake-up is lost or stolen: while some consumer sleeps, at least as   *)
(* many are awake after a notification as there are items, however late    *)
(* callers and woken threads compete for the items.                        *)
NoLostWakeup ==
  At("waiting") # {} => Len(data_) <= Cardinality(At("woken"))

(* Every item that is pushed is taken.                                     *)
EveryItemTaken ==
  \A i \in 1 .. MaxItems :
    (pushed >= i) ~> \E c \in Consumers : \E k \in DOMAIN got[c] : got[c][k] = i

Abstract == INSTANCE ConcurrentQueue
  WITH items <- data_, waiting <- Consumers \ At("outside")

(* Every step is a step of ConcurrentQueue: items come out once, and in    *)
(* the order they went in.                                                 *)
ImplementsQueue == Abstract!Spec
=============================================================================
