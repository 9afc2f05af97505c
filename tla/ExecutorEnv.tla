---------------------------- MODULE ExecutorEnv ----------------------------
(***************************************************************************)
(* Executor closed by arbitrary well-formed clients: each may connect,     *)
(* send any of Calls under increasing object ids (the way Submitter        *)
(* numbers them) without waiting for answers, and lose its connection at   *)
(* any time.  Nothing takes messages out of toClient, which is therefore   *)
(* the record of every response written.                                   *)
(***************************************************************************)
EXTENDS Executor

CONSTANTS
  Calls,         \* the calls that clients make
  MaxRequests,   \* bound on the messages sent over each connection
  Faults         \* whether connections may be lost

ASSUME MaxRequestsAssumption == MaxRequests \in [Conns -> 0 .. IdSpace]
ASSUME CallsAssumption == Calls \subseteq Bodies
ASSUME FaultsAssumption == Faults \in BOOLEAN

vars == <<execVars, wireVars>>

Init ==
  /\ ExecInit
  /\ WireInit

-----------------------------------------------------------------------------
(* The kernel completes the handshake of a connecting client, whether or   *)
(* not the server has called accept.                                       *)
Connect(c) ==
  /\ running
  /\ link[c] = "none"
  /\ link' = [link EXCEPT ![c] = "up"]
  /\ UNCHANGED <<execVars, toServer, toClient>>

Sent(c) == Len(received[c]) + Len(toServer[c])

Send(c, body) ==
  /\ link[c] = "up"
  /\ Sent(c) < MaxRequests[c]
  /\ toServer' = [toServer EXCEPT ![c] =
                    Append(@, [object_id |-> Sent(c), data |-> body])]
  /\ UNCHANGED <<execVars, toClient, link>>

LoseConnection(c) ==
  /\ Faults
  /\ LinkCut(c)
  /\ UNCHANGED execVars

EnvNext ==
  \E c \in Conns : Connect(c) \/ LoseConnection(c) \/ \E body \in Calls : Send(c, body)

Next == ExecNext \/ EnvNext

Spec == Init /\ [][Next]_vars

(* Every thread of the server keeps running: io_service::run and the       *)
(* thread loops never return, and the pop loops retry every 500us.  Which  *)
(* of several idle threads takes a request is left open.                   *)
Fairness ==
  /\ WF_vars(\E s \in Services, m \in Methods : RegisterMethod(s, m))
  /\ WF_vars(Loop)
  /\ \A c \in Conns : WF_vars(OnAccept(c)) /\ WF_vars(IoNext(c))
  /\ \A t \in WorkThreads : WF_vars(WorkNext(t))
  /\ \A i \in IoThreads : WF_vars(InlineNext(i))
  /\ \A w \in WriteThreads : WF_vars(WriteNext(w))

FairSpec == Spec /\ Fairness

-----------------------------------------------------------------------------
(* Every place of the server, and of the way back, where that message or   *)
(* its response is.                                                        *)
Places(c, o) ==
  ({"request_queue_"} \X Queued(c, o)) \cup ({"worker"} \X Performing(c, o)) \cup
  ({"response_queue_"} \X Answered(c, o)) \cup ({"writer"} \X Writing(c, o)) \cup
  ({"toClient"} \X Written(c, o))

(* Between the two queues and their thread pools a request is never        *)
(* duplicated, and never lost while its connection and the process live:   *)
(* it is in one place of the server at a time, until its one response is   *)
(* on the way back.                                                        *)
ExactlyOnce ==
  \A c \in Conns : \A i \in DOMAIN received[c] :
    LET places == Places(c, received[c][i].object_id)
    IN  /\ \A a, b \in places : a = b
        /\ link[c] = "up" /\ running => places # {}

(* Requests of one connection are performed in the order they were sent.   *)
SubmissionOrder ==
  \A i, j \in DOMAIN performed :
    i < j /\ performed[i].request.stream_id_ = performed[j].request.stream_id_
      => performed[i].request.object_id_ < performed[j].request.object_id_

(* A method runs on the service that the call names.                       *)
NamedService ==
  \A i \in DOMAIN performed :
    performed[i].service = performed[i].request.unpacked_[1]

(* Every message a client sent is answered.  The protocol gives a response *)
(* an error code, so that a call that cannot be performed is answered too. *)
Responded ==
  \A c \in Conns : \A o \in 0 .. MaxRequests[c] - 1 :
    (Sent(c) > o) ~> \E i \in DOMAIN toClient[c] : toClient[c][i].object_id = o

(* streams_ only grows and an entry never changes, so that a response      *)
(* that waits in response_queue_ cannot be redirected to a later           *)
(* connection.                                                             *)
StreamsKept ==
  [][\A i \in DOMAIN streams_ : i \in DOMAIN streams_' /\ streams_'[i] = streams_[i]]_vars
=============================================================================
