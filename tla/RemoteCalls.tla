---------------------------- MODULE RemoteCalls -----------------------------
(***************************************************************************)
(* What dousi promises of remote calls, without threads, queues, streams   *)
(* or tables: a call that has been issued is performed at most once, on    *)
(* its own arguments, and its future yields the value of that performance  *)
(* or nothing.  A call may stay without result for ever: messages are not  *)
(* sent again and a broken connection is not replaced.                     *)
(***************************************************************************)
EXTENDS Integers, Sequences

CONSTANTS
  Conns, Services, Bodies,
  Result(_, _)   \* the serialized result of a call on a service

VARIABLES
  issued,   \* the calls over each connection; a call's id is its position - 1
  log,      \* the performances so far
  result    \* what the futures of each connection hold, by id

Init ==
  /\ issued = [c \in Conns |-> << >>]
  /\ log = << >>
  /\ result = [c \in Conns |-> [o \in {} |-> {}]]

Performances(c, o) == {i \in DOMAIN log : log[i].conn = c /\ log[i].id = o}

Issue(c, body) ==
  /\ issued' = [issued EXCEPT ![c] = Append(@, body)]
  /\ UNCHANGED <<log, result>>

Perform(c, o, s) ==
  /\ o + 1 \in DOMAIN issued[c]
  /\ Performances(c, o) = {}
  /\ log' = Append(log, [conn |-> c, id |-> o, value |-> Result(s, issued[c][o + 1])])
  /\ UNCHANGED <<issued, result>>

Return(c, o) ==
  /\ o \notin DOMAIN result[c]
  /\ \E i \in Performances(c, o) :
       result' = [result EXCEPT ![c] =
         [p \in DOMAIN result[c] \cup {o} |->
            IF p = o THEN log[i].value ELSE result[c][p]]]
  /\ UNCHANGED <<issued, log>>

Next ==
  \E c \in Conns :
    \/ \E body \in Bodies : Issue(c, body)
    \/ \E k \in DOMAIN issued[c] : \/ \E s \in Services : Perform(c, k - 1, s)
                                   \/ Return(c, k - 1)

Spec == Init /\ [][Next]_<<issued, log, result>>
=============================================================================
