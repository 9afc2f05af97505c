----------------------------- MODULE MCExecutor -----------------------------
(***************************************************************************)
(* Small instances of ExecutorEnv.  perform is a void method that no       *)
(* instance but FullOffer registers.                                       *)
(***************************************************************************)
EXTENDS ExecutorEnv, TLC

CONSTANTS c1, s1, s2, echo, perform

(* The program registers echo only.                                        *)
EchoOffer == {<<s1, echo>>}

(* The program registers both methods of its service.                      *)
FullOffer == {<<s1, echo>>, <<s1, perform>>}

(* Two services with a method of the same name.                            *)
SharedName == {<<s1, echo>>, <<s2, echo>>}

AllCalls  == Bodies
MixedCalls == {<<s1, echo, 1>>, <<s1, echo, 2>>, <<s1, perform, 1>>}
EchoCalls == {<<s, echo, a>> : s \in Services, a \in Args}

(* Two requests over each connection, or one over the second.             *)
TwoEach   == [c \in Conns |-> 2]
TwoAndOne == [c \in Conns |-> IF c = c1 THEN 2 ELSE 1]

Symmetry == Permutations(WorkThreads) \cup Permutations(WriteThreads)
=============================================================================
