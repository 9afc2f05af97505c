------------------------ MODULE StdLockedQueueProofs ------------------------
(***************************************************************************)
(* StdLockedQueue for any number of consumers and items: no wake-up is     *)
(* lost, and the queue implements ConcurrentQueue.                         *)
(***************************************************************************)
EXTENDS StdLockedQueue, FiniteSetTheorems, TLAPS

(* Type correctness: WaitAndPop never takes from an empty std::queue and   *)
(* hands out only items that were pushed.                                  *)
THEOREM TypeCorrect == Spec => []TypeOK
<1>1. Init => TypeOK
    BY MaxItemsAssumption DEF Init, TypeOK
<1>2. TypeOK /\ [Next]_vars => TypeOK'
    <2> SUFFICES ASSUME TypeOK, [Next]_vars PROVE TypeOK'
        OBVIOUS
    <2> USE MaxItemsAssumption DEF TypeOK
    <2>1. CASE Push
        <3>1. pushed + 1 \in 1 .. MaxItems
            BY <2>1 DEF Push
        <3>2. pc' \in [Consumers -> {"outside", "called", "waiting", "woken"}]
            BY <2>1 DEF Push, NotifyOne, At
        <3> QED BY <2>1, <3>1, <3>2 DEF Push
    <2>2. ASSUME NEW c \in Consumers, Call(c) \/ Wait(c) \/ SpuriousWakeup(c) PROVE TypeOK'
        BY <2>2 DEF Call, Wait, SpuriousWakeup
    <2>3. ASSUME NEW c \in Consumers, Pop(c) PROVE TypeOK'
        <3>1. Head(data_) \in 1 .. MaxItems /\ Tail(data_) \in Seq(1 .. MaxItems)
            BY <2>3 DEF Pop
        <3> QED BY <2>3, <3>1 DEF Pop
    <2>4. CASE UNCHANGED vars
        BY <2>4 DEF vars
    <2> QED BY <2>1, <2>2, <2>3, <2>4 DEF Next, WaitAndPop
<1> QED BY <1>1, <1>2, PTL DEF Spec

-----------------------------------------------------------------------------
(* The set of consumers at a place is finite.                              *)
LEMMA AtFinite ==
  ASSUME NEW l
  PROVE  IsFiniteSet(At(l)) /\ Cardinality(At(l)) \in Nat
<1>1. At(l) \subseteq Consumers
    BY DEF At
<1> QED BY <1>1, ConsumersAssumption, FS_Subset, FS_CardinalityType

(* A consumer that wakes up adds one to the woken ones.                    *)
LEMMA OneMoreWoken ==
  ASSUME TypeOK, NEW c \in At("waiting"), pc' = [pc EXCEPT ![c] = "woken"]
  PROVE  Cardinality(At("woken")') = Cardinality(At("woken")) + 1
<1>1. At("woken")' = At("woken") \cup {c} /\ c \notin At("woken")
    BY DEF At, TypeOK
<1> QED BY <1>1, AtFinite, FS_AddElement

(* No wake-up is lost: notify_one under mutex_ for every item is enough,   *)
(* although a woken thread may find the queue empty again.                 *)
THEOREM WakeupsKept == Spec => []NoLostWakeup
<1>1. Init => NoLostWakeup
    BY DEF Init, NoLostWakeup, At
<1>2. TypeOK /\ NoLostWakeup /\ [Next]_vars => NoLostWakeup'
    <2> SUFFICES ASSUME TypeOK, NoLostWakeup, [Next]_vars, At("waiting")' # {}
                 PROVE  Len(data_') <= Cardinality(At("woken")')
        BY DEF NoLostWakeup
    <2>1. CASE Push
        <3>1. At("waiting") # {}
            BY <2>1 DEF Push, NotifyOne, At
        <3>2. PICK c \in At("waiting") : pc' = [pc EXCEPT ![c] = "woken"]
            BY <2>1, <3>1 DEF Push, NotifyOne
        <3>3. Len(data_') = Len(data_) + 1 /\ Len(data_) \in Nat
            BY <2>1 DEF Push, TypeOK
        <3>4. Len(data_) <= Cardinality(At("woken"))
            BY <3>1 DEF NoLostWakeup
        <3>5. Cardinality(At("woken")') = Cardinality(At("woken")) + 1
            BY <3>2, OneMoreWoken
        <3>6. Cardinality(At("woken")) \in Nat
            BY AtFinite
        <3> QED BY <3>3, <3>4, <3>5, <3>6
    <2>2. ASSUME NEW c \in Consumers, Call(c)
          PROVE  Len(data_') <= Cardinality(At("woken")')
        <3>1. At("woken")' = At("woken") /\ At("waiting")' = At("waiting")
            BY <2>2 DEF Call, At, TypeOK
        <3> QED BY <2>2, <3>1 DEF Call, NoLostWakeup
    <2>3. ASSUME NEW c \in Consumers, Wait(c)
          PROVE  Len(data_') <= Cardinality(At("woken")')
        <3>1. Len(data_') = 0
            BY <2>3 DEF Wait
        <3>2. At("woken")' \subseteq At("woken")
            BY <2>3 DEF Wait, At, TypeOK
        <3>3. Cardinality(At("woken")') \in Nat
            BY <3>2, AtFinite, FS_Subset, FS_CardinalityType
        <3> QED BY <3>1, <3>3
    <2>4. ASSUME NEW c \in Consumers, Pop(c)
          PROVE  Len(data_') <= Cardinality(At("woken")')
        <3>1. Len(data_') = Len(data_) - 1 /\ Len(data_) \in Nat
            BY <2>4 DEF Pop, TypeOK
        <3>2. At("waiting")' = At("waiting")
            BY <2>4 DEF Pop, At, TypeOK
        <3>3. Len(data_) <= Cardinality(At("woken"))
            BY <3>2 DEF NoLostWakeup
        <3>4. CASE pc[c] = "called"
            <4>1. At("woken")' = At("woken")
                BY <2>4, <3>4 DEF Pop, At, TypeOK
            <4> QED BY <3>1, <3>3, <4>1, AtFinite
        <3>5. CASE pc[c] = "woken"
            <4>1. At("woken")' = At("woken") \ {c} /\ c \in At("woken")
                BY <2>4, <3>5 DEF Pop, At, TypeOK
            <4>2. Cardinality(At("woken")') = Cardinality(At("woken")) - 1
                BY <4>1, AtFinite, FS_RemoveElement
            <4> QED BY <3>1, <3>3, <4>2, AtFinite
        <3> QED BY <2>4, <3>4, <3>5 DEF Pop
    <2>5. ASSUME NEW c \in Consumers, SpuriousWakeup(c)
          PROVE  Len(data_') <= Cardinality(At("woken")')
        <3>1. c \in At("waiting") /\ pc' = [pc EXCEPT ![c] = "woken"] /\ data_' = data_
            BY <2>5 DEF SpuriousWakeup, At
        <3>2. Len(data_) <= Cardinality(At("woken")) /\ Len(data_) \in Nat
            BY <3>1 DEF NoLostWakeup, TypeOK
        <3>3. Cardinality(At("woken")') = Cardinality(At("woken")) + 1
            BY <3>1, OneMoreWoken
        <3>4. Cardinality(At("woken")) \in Nat
            BY AtFinite
        <3> QED BY <3>1, <3>2, <3>3, <3>4
    <2>6. CASE UNCHANGED vars
        BY <2>6 DEF vars, NoLostWakeup, At
    <2> QED BY <2>1, <2>2, <2>3, <2>4, <2>5, <2>6 DEF Next, WaitAndPop
<1> QED BY <1>1, <1>2, TypeCorrect, PTL DEF Spec

-----------------------------------------------------------------------------
(* The locked queue implements ConcurrentQueue: Push and the last part of  *)
(* WaitAndPop are its Push and Return, and sleeping and waking are         *)
(* invisible.                                                              *)
THEOREM Refinement == Spec => ImplementsQueue
<1> DEFINE inside == Consumers \ At("outside")
<1>1. Init => Abstract!Init
    BY DEF Init, Abstract!Init, At
<1>2. TypeOK /\ [Next]_vars => [Abstract!Next]_<<pushed, data_, inside, got>>
    <2> SUFFICES ASSUME TypeOK, [Next]_vars
                 PROVE  Abstract!Next \/ UNCHANGED <<pushed, data_, inside, got>>
        OBVIOUS
    <2>1. CASE Push
        <3>1. inside' = inside
            BY <2>1 DEF Push, NotifyOne, At, TypeOK
        <3> QED BY <2>1, <3>1 DEF Push, Abstract!Next, Abstract!Push
    <2>2. ASSUME NEW c \in Consumers, Call(c) PROVE Abstract!Call(c)
        <3>1. inside' = inside \cup {c} /\ c \notin inside
            BY <2>2 DEF Call, At, TypeOK
        <3> QED BY <2>2, <3>1 DEF Call, Abstract!Call
    <2>3. ASSUME NEW c \in Consumers, Wait(c) \/ SpuriousWakeup(c)
          PROVE  UNCHANGED <<pushed, data_, inside, got>>
        BY <2>3 DEF Wait, SpuriousWakeup, At, TypeOK
    <2>4. ASSUME NEW c \in Consumers, Pop(c) PROVE Abstract!Return(c)
        <3>1. inside' = inside \ {c} /\ c \in inside
            BY <2>4 DEF Pop, At, TypeOK
        <3> QED BY <2>4, <3>1 DEF Pop, Abstract!Return
    <2>5. CASE UNCHANGED vars
        BY <2>5 DEF vars, At
    <2> QED BY <2>1, <2>2, <2>3, <2>4, <2>5 DEF Next, WaitAndPop, Abstract!Next
<1> QED BY <1>1, <1>2, TypeCorrect, PTL DEF Spec, ImplementsQueue, Abstract!Spec
=============================================================================
