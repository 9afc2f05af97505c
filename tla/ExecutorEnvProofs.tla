------------------------- MODULE ExecutorEnvProofs --------------------------
(***************************************************************************)
(* The theorems about the server of ExecutorEnv, for any number of         *)
(* connections, threads, services and requests: types, the assert on       *)
(* streams_ and the correlation of responses with requests (by IInv of     *)
(* ExecutorProofs); that no message is handled twice or lost (ExactlyOnce, *)
(* by Once); and that requests are performed in the order they were sent   *)
(* when there is no work pool (SubmissionOrder, by Inline).                *)
(***************************************************************************)
EXTENDS ExecutorEnv, ExecutorProofs


(* No step of the clients breaks the types.                                *)
LEMMA EnvTypeStep == TypeOK /\ (EnvNext \/ UNCHANGED vars) => TypeOK'
<1> SUFFICES ASSUME TypeOK, EnvNext \/ UNCHANGED vars PROVE TypeOK'
    OBVIOUS
<1> USE DEF TypeOK, wireVars
<1>1. ASSUME NEW c \in Conns, Connect(c) \/ LoseConnection(c) PROVE TypeOK'
    <2>1. link' \in [Conns -> {"none", "up", "cut"}]
        BY <1>1 DEF Connect, LoseConnection, LinkCut
    <2>2. UNCHANGED <<execVars, toServer, toClient>>
        BY <1>1 DEF Connect, LoseConnection, LinkCut
    <2> QED BY <2>1, <2>2 DEF execVars
<1>2. ASSUME NEW c \in Conns, NEW body \in Calls, Send(c, body) PROVE TypeOK'
    <2>1. [object_id |-> Sent(c), data |-> body] \in RequestMessages
        <3>1. Sent(c) \in Nat
            BY DEF Sent
        <3>2. Sent(c) < MaxRequests[c]
            BY <1>2 DEF Send
        <3>3. MaxRequests[c] \in Nat /\ MaxRequests[c] <= IdSpace
            BY MaxRequestsAssumption, IdAssumption
        <3> QED BY <3>1, <3>2, <3>3, CallsAssumption, IdAssumption DEF RequestMessages, ObjectIds
    <2>2. toServer' \in [Conns -> Seq(RequestMessages)]
        BY <1>2, <2>1 DEF Send
    <2> QED BY <1>2, <2>2 DEF Send, execVars
<1>3. CASE UNCHANGED vars
    BY <1>3 DEF vars, execVars
<1> QED BY <1>1, <1>2, <1>3 DEF EnvNext

(* Every step preserves the invariant and only adds to the histories.      *)
LEMMA InvStep == IInv /\ [Next]_vars => IInv' /\ HistoryGrows
<1> SUFFICES ASSUME IInv, [Next]_vars PROVE IInv' /\ HistoryGrows
    OBVIOUS
<1>1. CASE ExecNext
    BY <1>1, ServerStep
<1>2. CASE EnvNext \/ UNCHANGED vars
    <2>1. UNCHANGED <<execVars, toClient>>
        BY <1>2 DEF EnvNext, Connect, LoseConnection, LinkCut, Send, vars, wireVars
    <2> QED BY <1>2, <2>1, EnvTypeStep, Untouched DEF IInv
<1> QED BY <1>1, <1>2 DEF Next

(* The inductive invariant.                                                *)
THEOREM Invariance == Spec => []IInv
<1>1. Init => IInv
    BY InitType, InitCorrelated DEF Init, IInv
<1> QED BY <1>1, InvStep, PTL DEF Spec

(* Type correctness of the server.                                         *)
THEOREM TypeCorrect == Spec => []TypeOK
<1>1. IInv => TypeOK
    BY DEF IInv
<1> QED BY <1>1, Invariance, PTL

(* Every request and response under way belongs to a message of the        *)
(* connection that streams_ gives for it.                                  *)
THEOREM Correlation == Spec => []Correlated
<1>1. IInv => Correlated
    BY DEF IInv
<1> QED BY <1>1, Invariance, PTL

(* The assert in LoopToWriteResponse never fails: the stream of a response *)
(* is in streams_ whenever a write thread looks for it.                    *)
THEOREM StreamAlwaysFound == Spec => []StreamFound
<1>1. IInv => StreamFound
    BY DEF IInv, Correlated, WritersGenuine, GenuineResponse, StreamFound
<1> QED BY <1>1, Invariance, PTL

(* A connection is only sent responses to its own messages, each under the *)
(* object id and with the result of the message it answers.                *)
THEOREM AnswerMatches == Spec => []AnswersItsRequest
<1>1. IInv => AnswersItsRequest
    BY DEF IInv
<1> QED BY <1>1, Invariance, PTL

(* An entry of streams_ is never removed or replaced.                      *)
THEOREM StreamsStay == Spec => StreamsKept
<1>1. IInv /\ [Next]_vars
        => [\A i \in DOMAIN streams_ : i \in DOMAIN streams_' /\ streams_'[i] = streams_[i]]_vars
    BY InvStep DEF HistoryGrows
<1> QED BY <1>1, Invariance, PTL DEF Spec, StreamsKept

-----------------------------------------------------------------------------
(* No message is handled twice, and none is lost.                          *)

(* The client numbers its messages from 0 and they arrive in order.        *)
Numbered ==
  \A c \in Conns :
    /\ \A k \in DOMAIN received[c] : received[c][k].object_id = k - 1
    /\ \A k \in DOMAIN toServer[c] :
         toServer[c][k].object_id = Len(received[c]) + k - 1

(* Nothing is sent before the client has connected.                        *)
Unopened ==
  \A c \in Conns : link[c] = "none" => toServer[c] = << >> /\ received[c] = << >>

(* The two halves of ExactlyOnce.                                          *)
NoneTwice == \A c \in Conns : \A o \in ObjectIds : Lone(c, o)

(* No message that was read is lost while its connection is up.            *)
NoneLost ==
  \A c \in Conns : link[c] = "up" /\ running =>
    \A o \in Nat : o < Len(received[c]) => ~ Nowhere(c, o)

(* The inductive invariant.                                                *)
Once == Numbered /\ OwnEntry /\ ClosedIsCut /\ Unopened /\ NoneTwice /\ NoneLost

(* Places is a tagged union: at most one place is one of at most one kind. *)
LEMMA OnceImplies == IInv /\ Once => ExactlyOnce
<1> SUFFICES ASSUME IInv, Once, NEW c \in Conns, NEW i \in DOMAIN received[c]
             PROVE  LET places == Places(c, received[c][i].object_id)
                    IN  /\ \A a, b \in places : a = b
                        /\ link[c] = "up" /\ running => places # {}
    BY DEF ExactlyOnce
<1> DEFINE o == received[c][i].object_id
<1>1. o \in ObjectIds
    <2>1. received[c] \in Seq(RequestMessages)
        BY DEF IInv, TypeOK
    <2>2. received[c][i] \in RequestMessages
        BY <2>1
    <2> QED BY <2>2 DEF RequestMessages
<1>2. Lone(c, o) /\ (link[c] = "up" /\ running => ~ Nowhere(c, o))
    <2>1. o \in Nat /\ o < Len(received[c])
        <3>1. i \in Nat /\ i >= 1 /\ i <= Len(received[c]) /\ Len(received[c]) \in Nat
            BY DEF IInv, TypeOK
        <3> QED BY <3>1 DEF Once, Numbered
    <2> QED BY <1>1, <2>1 DEF Once, NoneTwice, NoneLost
<1> HIDE DEF o
<1>3. \A a, b \in Places(c, o) : a = b
    BY <1>2 DEF Places, Lone
<1>4. Places(c, o) = {} => Nowhere(c, o)
    <2>1. ASSUME NEW tag, NEW S, {tag} \X S = {} PROVE S = {}
        <3>1. \A x \in S : <<tag, x>> \in {tag} \X S
            OBVIOUS
        <3> QED BY <2>1, <3>1
    <2>2. ASSUME Places(c, o) = {}
          PROVE  /\ {"request_queue_"} \X Queued(c, o) = {} /\ {"worker"} \X Performing(c, o) = {}
                 /\ {"response_queue_"} \X Answered(c, o) = {} /\ {"writer"} \X Writing(c, o) = {}
                 /\ {"toClient"} \X Written(c, o) = {}
        <3>1. /\ {"request_queue_"} \X Queued(c, o) \subseteq Places(c, o)
              /\ {"worker"} \X Performing(c, o) \subseteq Places(c, o)
              /\ {"response_queue_"} \X Answered(c, o) \subseteq Places(c, o)
              /\ {"writer"} \X Writing(c, o) \subseteq Places(c, o)
              /\ {"toClient"} \X Written(c, o) \subseteq Places(c, o)
            BY Zenon DEF Places
        <3> QED BY <2>2, <3>1
    <2> QED BY <2>1, <2>2, Zenon DEF Nowhere
<1> QED BY <1>2, <1>3, <1>4 DEF o

(* At the start there is no message at all.                                *)
LEMMA InitOnce == Init => Once
<1> SUFFICES ASSUME Init PROVE Once
    OBVIOUS
<1>1. Numbered /\ OwnEntry /\ ClosedIsCut /\ Unopened /\ NoneLost
    BY DEF Init, ExecInit, WireInit, Numbered, OwnEntry, ClosedIsCut, Unopened, NoneLost
<1>2. ASSUME NEW c \in Conns, NEW o PROVE Nowhere(c, o)
    BY DEF Init, ExecInit, WireInit, Nowhere, Queued, Performing, Answered, Writing, Written
<1>3. ASSUME NEW c \in Conns, NEW o \in ObjectIds PROVE Lone(c, o)
    BY <1>2 DEF Lone, Nowhere
<1> QED BY <1>1, <1>3 DEF Once, NoneTwice

(* Messages that are numbered have different ids.                          *)
LEMMA NumberedApart == IInv /\ Numbered => NoIdAgain
<1> SUFFICES ASSUME IInv, Numbered, NEW c \in Conns, NEW k \in DOMAIN received[c],
                    NEW j \in DOMAIN toServer[c]
             PROVE  received[c][k].object_id # toServer[c][j].object_id
    BY DEF NoIdAgain
<1>1. /\ k \in Nat /\ k <= Len(received[c]) /\ Len(received[c]) \in Nat
      /\ j \in Nat /\ j >= 1
    BY DEF IInv, TypeOK
<1> QED BY <1>1 DEF Numbered

(* Object ids keep following the order in which messages are read.         *)
LEMMA NumberedStep ==
  ASSUME IInv, Numbered, [Next]_vars
  PROVE  Numbered'
<1> USE DEF wireVars, mainVars, acceptVars, setupVars, history
<1>0. \A c \in Conns : received[c] \in Seq(RequestMessages) /\ toServer[c] \in Seq(RequestMessages)
    BY DEF IInv, TypeOK
<1>1. CASE UNCHANGED <<received, toServer>>
    BY <1>1 DEF Numbered
<1>2. ASSUME NEW c \in Conns, MessageRead(c) PROVE Numbered'
    <2> DEFINE m == Head(toServer[c])
    <2>1. \A d \in Conns : d # c => received'[d] = received[d] /\ toServer'[d] = toServer[d]
        BY <1>2 DEF MessageRead, IInv, TypeOK
    <2>2. received'[c] = Append(received[c], m) /\ toServer'[c] = Tail(toServer[c]) /\ toServer[c] # << >>
        BY <1>2 DEF MessageRead, IInv, TypeOK
    <2>3. m \in RequestMessages /\ m = toServer[c][1] /\ 1 \in DOMAIN toServer[c]
        BY <1>0, <2>2
    <2>4. m.object_id = Len(received[c]) /\ Len(received[c]) \in Nat
        BY <1>0, <2>3 DEF Numbered
    <2> HIDE DEF m
    <2>5. ASSUME NEW k \in DOMAIN received'[c] PROVE received'[c][k].object_id = k - 1
        <3>1. CASE k \in DOMAIN received[c]
            <4>1. received'[c][k] = received[c][k]
                BY <1>0, <2>2, <2>3, <3>1, AppendKeeps
            <4> QED BY <3>1, <4>1 DEF Numbered
        <3>2. CASE k = Len(received[c]) + 1
            <4>1. received'[c][k] = m
                BY <1>0, <2>2, <2>3, <3>2, AppendKeeps
            <4> QED BY <2>4, <3>2, <4>1
        <3> QED BY <1>0, <2>2, <2>3, <3>1, <3>2, AppendKeeps
    <2>6. ASSUME NEW k \in DOMAIN toServer'[c]
          PROVE  toServer'[c][k].object_id = Len(received'[c]) + k - 1
        <3>1. k \in Nat /\ k + 1 \in DOMAIN toServer[c] /\ toServer'[c][k] = toServer[c][k + 1]
            <4>1. k \in DOMAIN Tail(toServer[c])
                BY <2>2
            <4>2. k \in Nat
                BY <1>0, <2>2, <4>1
            <4> QED BY <1>0, <2>2, <4>1, <4>2, TailShifts
        <3>2. Len(received'[c]) = Len(received[c]) + 1
            BY <1>0, <2>2, <2>3
        <3>3. toServer[c][k + 1].object_id = Len(received[c]) + (k + 1) - 1
            BY <3>1 DEF Numbered
        <3> QED BY <2>4, <3>1, <3>2, <3>3
    <2>7. ASSUME NEW d \in Conns
          PROVE  /\ \A k \in DOMAIN received'[d] : received'[d][k].object_id = k - 1
                 /\ \A k \in DOMAIN toServer'[d] :
                      toServer'[d][k].object_id = Len(received'[d]) + k - 1
        <3>1. CASE d = c
            BY <2>5, <2>6, <3>1
        <3>2. CASE d # c
            BY <2>1, <3>2 DEF Numbered
        <3> QED BY <3>1, <3>2
    <2> QED BY <2>7 DEF Numbered
<1>3. ASSUME NEW c \in Conns, NEW body \in Calls, Send(c, body) PROVE Numbered'
    <2> DEFINE m == [object_id |-> Sent(c), data |-> body]
    <2>1. \A d \in Conns : d # c => toServer'[d] = toServer[d]
        BY <1>3 DEF Send, IInv, TypeOK
    <2>2. toServer'[c] = Append(toServer[c], m) /\ UNCHANGED received
        BY <1>3 DEF Send, IInv, TypeOK, execVars
    <2>3. m.object_id = Len(received[c]) + Len(toServer[c])
        BY DEF Sent
    <2> HIDE DEF m
    <2>4. ASSUME NEW k \in DOMAIN toServer'[c]
          PROVE  toServer'[c][k].object_id = Len(received[c]) + k - 1
        <3>1. CASE k \in DOMAIN toServer[c]
            <4>1. toServer'[c][k] = toServer[c][k]
                BY <1>0, <2>2, <3>1
            <4> QED BY <3>1, <4>1 DEF Numbered
        <3>2. CASE k = Len(toServer[c]) + 1
            <4>1. toServer'[c][k] = m
                BY <1>0, <2>2, <3>2
            <4>2. Len(toServer[c]) \in Nat /\ Len(received[c]) \in Nat
                BY <1>0
            <4>3. Len(received[c]) + k - 1 = Len(received[c]) + Len(toServer[c])
                BY <3>2, <4>2
            <4> QED BY <2>3, <4>1, <4>3
        <3> QED BY <1>0, <2>2, <3>1, <3>2
    <2> QED BY <2>1, <2>2, <2>4 DEF Numbered
<1>4. ASSUME NEW s, NEW m, RegisterMethod(s, m) \/ Loop \/ OnAcceptError \/ OnAccept(s)
      PROVE  UNCHANGED <<received, toServer>>
    BY <1>4 DEF RegisterMethod, Loop, OnAcceptError, OnAccept
<1>5. ASSUME NEW c, ReadFails(c) \/ OnWriteError(c) PROVE UNCHANGED <<received, toServer>>
    BY <1>5 DEF ReadFails, OnWriteError
<1>6. ASSUME NEW t, WorkNext(t) \/ InlineNext(t) PROVE UNCHANGED <<received, toServer>>
    BY <1>6 DEF WorkNext, InlineNext, PerformNext, PopRequest, LookupMethod,
        CallMethod, CallEmptyFunction, FinishRequest, FinishInline, PushResponse
<1>7. ASSUME NEW w, WriteNext(w) PROVE UNCHANGED <<received, toServer>>
    BY <1>7 DEF WriteNext, PopResponse, FindStream, WriteResponse, LoseResponse
<1>8. ASSUME NEW c, Connect(c) \/ LoseConnection(c) PROVE UNCHANGED <<received, toServer>>
    BY <1>8 DEF Connect, LoseConnection, LinkCut, execVars
<1>9. ASSUME UNCHANGED vars PROVE UNCHANGED <<received, toServer>>
    BY <1>9 DEF vars, execVars
<1>10. ASSUME NEW c \in Conns, QueueRequest(c) \/ PerformInline(c) PROVE MessageRead(c)
    BY <1>10 DEF QueueRequest, PerformInline
<1> QED
    BY <1>1, <1>2, <1>3, <1>4, <1>5, <1>6, <1>7, <1>8, <1>9, <1>10
    DEF Next, ExecNext, EnvNext, MainNext, IoNext

(* How a step changes the wire.                                            *)
LEMMA LinkSteps ==
  ASSUME IInv, [Next]_vars
  PROVE  /\ \A c \in Conns : link'[c] = "up" => link[c] = "up" \/ Connect(c)
         /\ \A c \in Conns : link'[c] = "none" => link[c] = "none"
         /\ \A c \in Conns : toServer'[c] # << >> => toServer[c] # << >> \/ link[c] = "up"
         /\ running' => running
         /\ UNCHANGED received \/ \E c \in Conns : QueueRequest(c) \/ PerformInline(c)
<1>1. CASE ExecNext
    <2>1. ASSUME NEW c \in Conns, QueueRequest(c) \/ PerformInline(c)
          PROVE  \A d \in Conns : toServer'[d] # << >> => toServer[d] # << >>
        <3>1. toServer' = [toServer EXCEPT ![c] = Tail(@)] /\ toServer[c] # << >>
            BY <2>1 DEF QueueRequest, PerformInline, MessageRead
        <3> QED BY <3>1 DEF IInv, TypeOK
    <2>2. \A d \in Conns : toServer'[d] # << >> => toServer[d] # << >>
        BY <1>1, <2>1, WireSteps
    <2>3. \A d \in Conns : (link'[d] = "up" => link[d] = "up") /\ (link'[d] = "none" => link[d] = "none")
        BY <1>1, WireSteps
    <2>4. running' => running
        BY <1>1, WireSteps
    <2>5. UNCHANGED received \/ \E c \in Conns : QueueRequest(c) \/ PerformInline(c)
        BY <1>1, WireSteps
    <2> QED BY <2>2, <2>3, <2>4, <2>5, Zenon
<1>2. ASSUME NEW c \in Conns, Connect(c) PROVE UNCHANGED <<execVars, toServer>> /\ link[c] = "none"
                                              /\ \A d \in Conns : d # c => link'[d] = link[d]
    BY <1>2 DEF Connect, IInv, TypeOK
<1>3. ASSUME NEW c \in Conns, LoseConnection(c)
      PROVE  UNCHANGED <<execVars, toServer>> /\ \A d \in Conns : link'[d] \in {link[d], "cut"}
    BY <1>3 DEF LoseConnection, LinkCut, IInv, TypeOK
<1>4. ASSUME NEW c \in Conns, NEW body, Send(c, body)
      PROVE  UNCHANGED <<execVars, link>> /\ link[c] = "up"
             /\ \A d \in Conns : d # c => toServer'[d] = toServer[d]
    BY <1>4 DEF Send, IInv, TypeOK
<1>5. CASE UNCHANGED vars
    BY <1>5 DEF vars, wireVars, execVars
<1>6. ASSUME NEW c \in Conns, Connect(c) PROVE link'[c] = "up"
    BY <1>6 DEF Connect, IInv, TypeOK
<1> QED BY <1>1, <1>2, <1>3, <1>4, <1>5, <1>6 DEF Next, EnvNext, execVars

(* Every step preserves Once.                                              *)
LEMMA OnceStep ==
  ASSUME IInv, IInv', Once, [Next]_vars
  PROVE  Once'
<1>0. IInv /\ Numbered /\ OwnEntry /\ ClosedIsCut /\ Unopened /\ NoneTwice /\ NoneLost
    BY DEF Once
<1>a. NoIdAgain
    BY <1>0, NumberedApart
<1> DEFINE Kept == Numbered' /\ OwnEntry' /\ ClosedIsCut' /\ \A c \in Conns : \A o : Moved(c, o)
<1>b. ASSUME ExecNext PROVE Kept
    BY <1>b, <1>0, <1>a, NumberedStep, EntriesStep, ClosedStep, StepMoves
<1>c. ASSUME EnvNext \/ UNCHANGED vars PROVE Kept
    <2>1. UNCHANGED <<execVars, toClient>>
        BY <1>c DEF EnvNext, Connect, LoseConnection, LinkCut, Send, vars, wireVars
    <2>2. \A c \in Conns : link[c] = "cut" => link'[c] = "cut"
        BY <1>c DEF EnvNext, Connect, LoseConnection, LinkCut, Send, vars, wireVars, IInv, TypeOK
    <2>3. OwnEntry' /\ ClosedIsCut'
        BY <1>0, <2>1, <2>2, Untouched DEF ClosedIsCut, execVars
    <2>4. ASSUME NEW c \in Conns, NEW o PROVE Moved(c, o)
        BY <2>1, PlaceFrame, AllFrame DEF SameStream, execVars
    <2> QED BY <1>0, <2>3, <2>4, NumberedStep
<1>1. Kept
    BY <1>b, <1>c DEF Next
<1>2. \A c \in Conns : \A o : Moved(c, o)
    BY <1>1
<1>3. NoneTwice'
    BY <1>0, <1>2 DEF NoneTwice, Moved
<1>4. Unopened'
    <2>1. ASSUME NEW c \in Conns, QueueRequest(c) \/ PerformInline(c), NEW d \in Conns, link'[d] = "none"
          PROVE  received'[d] = << >>
        <3>1. toServer[c] # << >> /\ received' = [received EXCEPT ![c] = Append(@, Head(toServer[c]))]
            BY <2>1 DEF QueueRequest, PerformInline, MessageRead
        <3>2. link[d] = "none"
            BY <2>1, LinkSteps
        <3> QED BY <1>0, <3>1, <3>2 DEF Unopened, IInv, TypeOK
    <2> QED BY <1>0, <2>1, LinkSteps DEF Unopened
<1>5. NoneLost'
    <2> SUFFICES ASSUME NEW c \in Conns, link'[c] = "up", running', NEW o \in Nat, o < Len(received'[c])
                 PROVE  ~ Nowhere(c, o)'
        BY DEF NoneLost
    <2>1. running /\ (link[c] = "up" \/ Connect(c))
        BY LinkSteps
    <2>2. CASE Connect(c)
        <3>1. link[c] = "none" /\ UNCHANGED received
            BY <2>2 DEF Connect, execVars
        <3> QED BY <1>0, <3>1 DEF Unopened
    <2>3. ASSUME link[c] = "up", o < Len(received[c]) PROVE ~ Nowhere(c, o)'
        BY <1>0, <1>2, <2>1, <2>3 DEF NoneLost, Moved
    <2>4. ASSUME NEW d \in Conns, QueueRequest(d) \/ PerformInline(d), link[c] = "up",
                 ~ (o < Len(received[c]))
          PROVE  ~ Nowhere(c, o)'
        <3>1. /\ MessageRead(d) /\ received[c] \in Seq(RequestMessages)
              /\ toServer[d] \in Seq(RequestMessages) /\ toServer[d] # << >>
            BY <2>4 DEF QueueRequest, PerformInline, MessageRead, IInv, TypeOK
        <3>2. d = c
            BY <2>4, <3>1 DEF MessageRead, IInv, TypeOK
        <3>3. Len(received'[c]) = Len(received[c]) + 1 /\ Len(received[c]) \in Nat
            BY <3>1, <3>2 DEF MessageRead, IInv, TypeOK
        <3>4. Head(toServer[c]).object_id = Len(received[c])
            <4>1. 1 \in DOMAIN toServer[c] /\ Head(toServer[c]) = toServer[c][1]
                BY <3>1, <3>2
            <4> QED BY <1>0, <3>3, <4>1 DEF Numbered
        <3>5. o = Len(received[c]) /\ Head(toServer[c]).object_id = o
            BY <2>4, <3>3, <3>4
        <3> QED BY <1>0, <1>a, <2>4, <3>2, <3>5, ReadMoves
    <2> QED BY <2>1, <2>2, <2>3, <2>4, LinkSteps
<1> QED BY <1>1, <1>3, <1>4, <1>5 DEF Once

(* The inductive invariant behind ExactlyOnce: object ids are distinct, a  *)
(* closed socket means a lost connection, and every message that was read  *)
(* is in one place of the server or was answered.                          *)
THEOREM OnceInvariance == Spec => [](IInv /\ Once)
<1>1. Init => Once
    BY InitOnce
<1>2. IInv /\ IInv' /\ Once /\ [Next]_vars => Once'
    BY OnceStep
<1> QED BY <1>1, <1>2, Invariance, PTL DEF Spec

(* Between the queues and the thread pools no request is duplicated, and   *)
(* none is lost while its connection and the process live.                 *)
THEOREM HandledOnce == Spec => []ExactlyOnce
BY OnceInvariance, OnceImplies, PTL

-----------------------------------------------------------------------------
(* The order of performance without a work thread pool.                    *)

(* The connection that a request came from.                                *)
ConnOf(r) == streams_[r.stream_id_]

(* Without a work pool an io thread performs a request inside the read     *)
(* callback of the stream it came from, and it is the last one read there. *)
InsideCallback ==
  \A p \in Performers : worker[p].pc # "idle" =>
    /\ stream[ConnOf(worker[p].request)].io = p
    /\ stream[ConnOf(worker[p].request)].read = "callback"
    /\ worker[p].request.object_id_ = Len(received[ConnOf(worker[p].request)]) - 1

(* What was performed had been read, before what is about to be performed. *)
PerformedRead ==
  \A i \in DOMAIN performed :
    /\ performed[i].request.stream_id_ \in DOMAIN streams_
    /\ performed[i].request.object_id_ < Len(received[ConnOf(performed[i].request)])

(* A thread that is about to run a method has the latest request of its    *)
(* connection.                                                             *)
PerformedBefore ==
  \A i \in DOMAIN performed : \A p \in Performers :
    /\ worker[p].pc \in {"lookup", "invoke"}
    /\ worker[p].request.stream_id_ = performed[i].request.stream_id_
    => performed[i].request.object_id_ < worker[p].request.object_id_

(* The inductive invariant without a work pool.                            *)
Inline == InsideCallback /\ PerformedRead /\ PerformedBefore /\ SubmissionOrder

(* At the start nothing has been performed.                                *)
LEMMA InitInline == Init => Inline
BY DEF Init, ExecInit, Inline, InsideCallback, PerformedRead, PerformedBefore, SubmissionOrder, Idle

(* The parts of Inline that are about the performing threads, after a step *)
(* that leaves those threads and the streams they serve alone.             *)
LEMMA CallbacksKept ==
  ASSUME IInv, IInv', HistoryGrows, InsideCallback, NEW P \in SUBSET Performers,
         \A p \in P : worker'[p].pc # "idle" =>
           /\ worker[p].pc # "idle" /\ worker'[p].request = worker[p].request
           /\ LET c == ConnOf(worker[p].request)
              IN  stream'[c].io = stream[c].io /\ stream'[c].read = stream[c].read
                    /\ received'[c] = received[c]
  PROVE  \A p \in P : worker'[p].pc # "idle" =>
           /\ stream'[streams_'[worker'[p].request.stream_id_]].io = p
           /\ stream'[streams_'[worker'[p].request.stream_id_]].read = "callback"
           /\ worker'[p].request.object_id_ = Len(received'[streams_'[worker'[p].request.stream_id_]]) - 1
<1> SUFFICES ASSUME NEW p \in P, worker'[p].pc # "idle"
             PROVE  /\ stream'[streams_'[worker'[p].request.stream_id_]].io = p
                    /\ stream'[streams_'[worker'[p].request.stream_id_]].read = "callback"
                    /\ worker'[p].request.object_id_ = Len(received'[streams_'[worker'[p].request.stream_id_]]) - 1
    OBVIOUS
<1>0. p \in Performers /\ worker[p].pc # "idle" /\ worker'[p].request = worker[p].request
    OBVIOUS
<1>1. worker[p].request.stream_id_ \in DOMAIN streams_
    BY <1>0 DEF IInv, Correlated, WorkersGenuine, GenuineRequest
<1>2. streams_'[worker[p].request.stream_id_] = ConnOf(worker[p].request)
    BY <1>1 DEF HistoryGrows, ConnOf
<1> QED BY <1>0, <1>2 DEF InsideCallback

(* No connection has fewer messages read after a step than before.         *)
LEMMA ReadGrows ==
  ASSUME IInv, IInv', HistoryGrows, NEW c \in Conns
  PROVE  Len(received'[c]) \in Nat /\ Len(received[c]) \in Nat /\ Len(received'[c]) >= Len(received[c])
<1>1. received[c] \in Seq(RequestMessages) /\ received'[c] \in Seq(RequestMessages)
    BY DEF IInv, TypeOK
<1>2. Len(received[c]) # 0 => Len(received[c]) \in DOMAIN received'[c]
    BY <1>1 DEF HistoryGrows
<1> QED BY <1>1, <1>2

(* What was performed stays read.                                          *)
LEMMA ReadKept ==
  ASSUME IInv, IInv', HistoryGrows, PerformedRead, UNCHANGED performed
  PROVE  PerformedRead'
<1> SUFFICES ASSUME NEW i \in DOMAIN performed
             PROVE  /\ performed[i].request.stream_id_ \in DOMAIN streams_'
                    /\ performed[i].request.object_id_ < Len(received'[streams_'[performed[i].request.stream_id_]])
    BY DEF PerformedRead, ConnOf
<1> DEFINE r == performed[i].request
<1>0. r.object_id_ \in Int
    <2>1. performed \in Seq([service : Services, request : DousiRequests])
        BY DEF IInv, TypeOK
    <2>2. performed[i] \in [service : Services, request : DousiRequests]
        BY <2>1, ElementIn
    <2> QED BY <2>2, IdAssumption DEF DousiRequests, ObjectIds
<1>1. r.stream_id_ \in DOMAIN streams_ /\ r.object_id_ < Len(received[streams_[r.stream_id_]])
    BY DEF PerformedRead, ConnOf
<1>2. streams_'[r.stream_id_] = streams_[r.stream_id_] /\ r.stream_id_ \in DOMAIN streams_'
    BY <1>1 DEF HistoryGrows
<1>3. streams_[r.stream_id_] \in Conns
    BY <1>1 DEF IInv, TypeOK
<1> QED BY <1>0, <1>1, <1>2, <1>3, ReadGrows

(* A step of no performing thread and of no stream they serve.             *)
LEMMA InlineFrame ==
  ASSUME IInv, IInv', HistoryGrows, Inline, UNCHANGED <<worker, performed>>,
         \A p \in Performers : worker[p].pc # "idle" =>
           LET c == ConnOf(worker[p].request)
           IN  stream'[c].io = stream[c].io /\ stream'[c].read = stream[c].read
                 /\ received'[c] = received[c]
  PROVE  Inline'
<1>1. InsideCallback'
    <2>1. \A p \in Performers : worker'[p].pc # "idle" =>
           /\ stream'[streams_'[worker'[p].request.stream_id_]].io = p
           /\ stream'[streams_'[worker'[p].request.stream_id_]].read = "callback"
           /\ worker'[p].request.object_id_ = Len(received'[streams_'[worker'[p].request.stream_id_]]) - 1
        BY CallbacksKept DEF Inline
    <2> QED BY <2>1 DEF InsideCallback, ConnOf
<1>2. PerformedRead'
    BY ReadKept DEF Inline
<1>3. PerformedBefore' /\ SubmissionOrder'
    BY DEF Inline, PerformedBefore, SubmissionOrder
<1> QED BY <1>1, <1>2, <1>3 DEF Inline

(* The connection of the request that a thread performs.                   *)
LEMMA Served ==
  ASSUME IInv, OwnEntry, Inline, NEW p \in Performers, worker[p].pc # "idle"
  PROVE  /\ worker[p].request.stream_id_ \in DOMAIN streams_
         /\ ConnOf(worker[p].request) \in Conns
         /\ stream[ConnOf(worker[p].request)].socket_ # "none"
         /\ stream[ConnOf(worker[p].request)].stream_id_ = worker[p].request.stream_id_
         /\ stream[ConnOf(worker[p].request)].io = p
         /\ stream[ConnOf(worker[p].request)].read = "callback"
         /\ worker[p].request \in DousiRequests
<1>1. worker[p].request.stream_id_ \in DOMAIN streams_
    BY DEF IInv, Correlated, WorkersGenuine, GenuineRequest
<1>2. ConnOf(worker[p].request) \in Conns
    BY <1>1 DEF ConnOf, IInv, TypeOK
<1>3. stream[ConnOf(worker[p].request)].socket_ # "none"
    BY <1>1 DEF ConnOf, IInv, Correlated, StreamsEntered
<1>4. worker[p].request \in DousiRequests
    BY WorkerFields DEF IInv, TypeOK
<1> QED BY <1>1, <1>2, <1>3, <1>4 DEF Inline, InsideCallback, OwnEntry, ConnOf

(* Without a work pool every step preserves Inline: an io thread reads the *)
(* next message of a stream only after it has performed the last.          *)
LEMMA InlineStep ==
  ASSUME WorkThreads = {}, IInv, IInv', Once, Inline, [Next]_vars
  PROVE  Inline'
<1> USE DEF wireVars, mainVars, acceptVars, setupVars, history
<1>a. HistoryGrows
    BY InvStep
<1>b. Numbered /\ OwnEntry
    BY DEF Once
<1>c. stream \in [Conns -> Streams] /\ worker \in [Performers -> WorkerStates]
      /\ received \in [Conns -> Seq(RequestMessages)]
    BY DEF IInv, TypeOK
<1>d. ASSUME UNCHANGED <<worker, performed, received, stream>> PROVE Inline'
    BY <1>a, <1>d, InlineFrame
<1>1. ASSUME NEW c \in Conns, OnAccept(c) PROVE Inline'
    <2>1. \A p \in Performers : worker[p].pc # "idle" => ConnOf(worker[p].request) # c
        BY <1>1, <1>b, Served DEF OnAccept
    <2>2. \A d \in Conns : d # c => stream'[d] = stream[d]
        BY <1>1, <1>c DEF OnAccept
    <2> QED BY <1>1, <1>a, <1>b, <2>1, <2>2, Served, InlineFrame DEF OnAccept
<1>2. ASSUME NEW c \in Conns, ReadFails(c) PROVE Inline'
    <2>1. \A p \in Performers : worker[p].pc # "idle" => ConnOf(worker[p].request) # c
        BY <1>2, <1>b, Served DEF ReadFails
    <2>2. \A d \in Conns : d # c => stream'[d] = stream[d]
        BY <1>2, <1>c DEF ReadFails
    <2> QED BY <1>2, <1>a, <1>b, <2>1, <2>2, Served, InlineFrame DEF ReadFails
<1>3. ASSUME NEW c \in Conns, OnWriteError(c) PROVE Inline'
    <2>1. \A d \in Conns : /\ stream'[d].io = stream[d].io
                           /\ stream[d].read = "callback" => stream'[d].read = stream[d].read
        BY <1>3, <1>c, WriteErrorCloses
    <2> QED BY <1>3, <1>a, <1>b, <2>1, Served, InlineFrame DEF OnWriteError
<1>4. ASSUME NEW w \in WriteThreads, LoseResponse(w) PROVE Inline'
    <2>1. writer[w].stream \in Conns
        BY <1>4, WriterFields DEF LoseResponse, IInv, TypeOK
    <2>2. \A d \in Conns : stream'[d].io = stream[d].io /\ stream'[d].read = stream[d].read
        <3>1. CASE stream' = [stream EXCEPT ![writer[w].stream].write = "failed"]
            BY <1>c, <2>1, <3>1 DEF Streams
        <3> QED BY <1>4, <3>1 DEF LoseResponse
    <2> QED BY <1>4, <1>a, <1>b, <2>2, Served, InlineFrame DEF LoseResponse
<1>5. ASSUME NEW c \in Conns, PerformInline(c) PROVE Inline'
    <2> DEFINE t == stream[c].io
               m == Head(toServer[c])
    <2>1. /\ MessageRead(c) /\ stream[c].read # "callback" /\ stream[c].socket_ # "none"
          /\ worker[t] = Idle
          /\ worker' = [worker EXCEPT ![t] = [pc |-> "lookup", request |-> RequestOf(c, m)]]
          /\ stream' = [stream EXCEPT ![c].read = "callback"]
          /\ UNCHANGED <<streams_, performed>>
        BY <1>5 DEF PerformInline, MessageRead, IInv, Correlated, StreamsEntered
    <2>2. t \in Performers /\ stream[c] \in Streams
        BY <1>c DEF Streams, Performers
    <2>3. \A d \in Conns : d # c => stream'[d] = stream[d] /\ received'[d] = received[d]
        BY <1>c, <2>1 DEF MessageRead
    <2>4. stream'[c].io = t /\ stream'[c].read = "callback"
        BY <1>c, <2>1, <2>2 DEF Streams
    <2>5. m.object_id = Len(received[c]) /\ Len(received[c]) \in Nat
          /\ Len(received'[c]) = Len(received[c]) + 1
        <3>1. received[c] \in Seq(RequestMessages) /\ toServer[c] \in Seq(RequestMessages)
              /\ toServer[c] # << >> /\ received'[c] = Append(received[c], m)
            BY <2>1 DEF MessageRead, IInv, TypeOK
        <3>2. m = toServer[c][1] /\ 1 \in DOMAIN toServer[c] /\ Len(received[c]) \in Nat
            BY <3>1
        <3> QED BY <1>b, <3>1, <3>2 DEF Numbered
    <2>6. worker'[t].pc = "lookup" /\ worker'[t].request.stream_id_ = stream[c].stream_id_
          /\ worker'[t].request.object_id_ = Len(received[c])
          /\ \A p \in Performers : p # t => worker'[p] = worker[p]
        BY <1>c, <2>1, <2>2, <2>5 DEF RequestOf
    <2>7. streams_[stream[c].stream_id_] = c /\ stream[c].stream_id_ \in DOMAIN streams_
        BY <2>1 DEF IInv, Correlated, StreamsEntered
    <2> HIDE DEF t, m
    <2>8. \A p \in Performers \ {t} : worker'[p].pc # "idle" =>
           /\ stream'[streams_'[worker'[p].request.stream_id_]].io = p
           /\ stream'[streams_'[worker'[p].request.stream_id_]].read = "callback"
           /\ worker'[p].request.object_id_ = Len(received'[streams_'[worker'[p].request.stream_id_]]) - 1
        <3>1. \A p \in Performers : worker[p].pc # "idle" =>
                ConnOf(worker[p].request) # c /\ ConnOf(worker[p].request) \in Conns
            BY <1>b, <2>1, Served
        <3>2. \A p \in Performers \ {t} : worker'[p].pc # "idle" =>
                /\ worker[p].pc # "idle" /\ worker'[p].request = worker[p].request
                /\ LET d == ConnOf(worker[p].request)
                   IN  stream'[d].io = stream[d].io /\ stream'[d].read = stream[d].read
                         /\ received'[d] = received[d]
            BY <2>3, <2>6, <3>1
        <3>3. InsideCallback /\ Performers \ {t} \in SUBSET Performers
            BY DEF Inline
        <3> QED BY <1>a, <3>2, <3>3, CallbacksKept
    <2>9. InsideCallback'
        <3> SUFFICES ASSUME NEW p \in Performers, worker'[p].pc # "idle"
                     PROVE  /\ stream'[streams_'[worker'[p].request.stream_id_]].io = p
                            /\ stream'[streams_'[worker'[p].request.stream_id_]].read = "callback"
                            /\ worker'[p].request.object_id_
                                 = Len(received'[streams_'[worker'[p].request.stream_id_]]) - 1
            BY DEF InsideCallback, ConnOf
        <3>1. CASE p = t
            <4>1. streams_'[worker'[p].request.stream_id_] = c
                BY <2>1, <2>6, <2>7, <3>1
            <4>2. worker'[p].request.object_id_ = Len(received'[c]) - 1
                BY <2>5, <2>6, <3>1
            <4> QED BY <2>4, <3>1, <4>1, <4>2
        <3>2. CASE p # t
            BY <2>8, <3>2
        <3> QED BY <3>1, <3>2
    <2>10. PerformedRead'
        BY <1>a, <2>1, ReadKept DEF Inline
    <2>11. PerformedBefore'
        BY <2>1, <2>6, <2>7 DEF Inline, PerformedRead, PerformedBefore, ConnOf
    <2>12. SubmissionOrder'
        BY <2>1 DEF Inline, SubmissionOrder
    <2> QED BY <2>9, <2>10, <2>11, <2>12 DEF Inline
<1>6. ASSUME NEW p \in Performers, worker[p].pc # "idle", worker'[p].request = worker[p].request,
             worker'[p].pc \notin {"idle", "lookup"}, worker[p].pc \in {"lookup", "invoke"},
             worker'[p].pc = "invoke" => UNCHANGED performed,
             \A q \in Performers : q # p => worker'[q] = worker[q],
             UNCHANGED <<stream, streams_, received>>
      PROVE  InsideCallback' /\ (UNCHANGED performed => Inline')
    <2>1. InsideCallback'
        <3> SUFFICES ASSUME NEW q \in Performers, worker'[q].pc # "idle"
                     PROVE  /\ stream[streams_[worker'[q].request.stream_id_]].io = q
                            /\ stream[streams_[worker'[q].request.stream_id_]].read = "callback"
                            /\ worker'[q].request.object_id_
                                 = Len(received[streams_[worker'[q].request.stream_id_]]) - 1
            BY <1>6 DEF InsideCallback, ConnOf
        <3>1. worker[q].pc # "idle" /\ worker'[q].request = worker[q].request
            BY <1>6
        <3> QED BY <3>1 DEF Inline, InsideCallback, ConnOf
    <2>2. UNCHANGED performed => PerformedRead' /\ PerformedBefore' /\ SubmissionOrder'
        BY <1>6, <1>a, ReadKept DEF Inline, PerformedBefore, SubmissionOrder
    <2> QED BY <2>1, <2>2 DEF Inline
<1>7. ASSUME NEW p \in Performers, LookupMethod(p) PROVE Inline'
    BY <1>6, <1>7, <1>c DEF LookupMethod
<1>8. ASSUME NEW p \in Performers, CallMethod(p) PROVE Inline'
    <2> DEFINE r == worker[p].request
               e == [service |-> worker[p].method, request |-> r]
               n == Len(performed) + 1
    <2>1. /\ worker[p].pc = "invoke" /\ worker'[p].pc = "respond" /\ worker'[p].request = r
          /\ \A q \in Performers : q # p => worker'[q] = worker[q]
          /\ performed' = Append(performed, e)
          /\ UNCHANGED <<stream, streams_, received>>
        BY <1>8, <1>c DEF CallMethod
    <2>2. InsideCallback'
        BY <1>6, <2>1
    <2>3. performed \in Seq([service : Services, request : DousiRequests])
        BY DEF IInv, TypeOK
    <2>4. e.request = r
        OBVIOUS
    <2>5. worker[p].method \in Services /\ r \in DousiRequests
        BY <1>8, <1>c, WorkerFields DEF CallMethod, Callables
    <2>6. e \in [service : Services, request : DousiRequests]
        BY <2>5
    <2> HIDE DEF e
    <2>7. /\ DOMAIN performed' = DOMAIN performed \cup {n}
          /\ \A k \in DOMAIN performed : performed'[k] = performed[k]
          /\ performed'[n] = e
        BY <2>1, <2>3, <2>6, AppendKeeps
    <2>8. \A k \in DOMAIN performed : k \in Nat /\ k < n
        BY <2>3
    <2>9. n \in Nat
        BY <2>3
    <2> HIDE DEF n
    <2>10. /\ r.stream_id_ \in DOMAIN streams_ /\ r.object_id_ = Len(received[ConnOf(r)]) - 1
           /\ Len(received[ConnOf(r)]) \in Nat /\ stream[ConnOf(r)].io = p
        <3>1. r.stream_id_ \in DOMAIN streams_ /\ ConnOf(r) \in Conns /\ stream[ConnOf(r)].io = p
            BY <1>b, <2>1, Served
        <3>2. r.object_id_ = Len(received[ConnOf(r)]) - 1
            BY <2>1 DEF Inline, InsideCallback
        <3> QED BY <1>c, <3>1, <3>2
    <2>11. PerformedRead'
        <3> SUFFICES ASSUME NEW i \in DOMAIN performed'
                     PROVE  /\ performed'[i].request.stream_id_ \in DOMAIN streams_
                            /\ performed'[i].request.object_id_
                                 < Len(received[streams_[performed'[i].request.stream_id_]])
            BY <2>1 DEF PerformedRead, ConnOf
        <3>1. CASE i = n
            BY <2>4, <2>7, <2>10, <3>1 DEF ConnOf
        <3>2. CASE i \in DOMAIN performed
            BY <2>7, <3>2 DEF Inline, PerformedRead, ConnOf
        <3> QED BY <2>7, <3>1, <3>2
    <2>12. PerformedBefore'
        <3> SUFFICES ASSUME NEW i \in DOMAIN performed', NEW q \in Performers,
                            worker'[q].pc \in {"lookup", "invoke"},
                            worker'[q].request.stream_id_ = performed'[i].request.stream_id_
                     PROVE  performed'[i].request.object_id_ < worker'[q].request.object_id_
            BY DEF PerformedBefore
        <3>1. q # p /\ worker'[q] = worker[q]
            BY <2>1
        <3>2. CASE i = n
            <4>1. worker[q].request.stream_id_ = r.stream_id_
                BY <2>4, <2>7, <3>1, <3>2
            <4>2. stream[ConnOf(worker[q].request)].io = q
                BY <1>b, <3>1, Served
            <4> QED BY <2>10, <3>1, <4>1, <4>2 DEF ConnOf
        <3>3. CASE i \in DOMAIN performed
            BY <2>7, <3>1, <3>3 DEF Inline, PerformedBefore
        <3> QED BY <2>7, <3>2, <3>3
    <2>13. SubmissionOrder'
        <3> SUFFICES ASSUME NEW i \in DOMAIN performed', NEW j \in DOMAIN performed', i < j,
                            performed'[i].request.stream_id_ = performed'[j].request.stream_id_
                     PROVE  performed'[i].request.object_id_ < performed'[j].request.object_id_
            BY DEF SubmissionOrder
        <3>1. CASE j = n
            <4>1. i \in DOMAIN performed
                BY <2>7, <2>9, <3>1
            <4> QED BY <2>1, <2>4, <2>7, <3>1, <4>1 DEF Inline, PerformedBefore
        <3>2. CASE j \in DOMAIN performed
            <4>1. i \in DOMAIN performed
                BY <2>7, <2>8, <2>9, <3>2
            <4> QED BY <2>7, <3>2, <4>1 DEF Inline, SubmissionOrder
        <3> QED BY <2>7, <3>1, <3>2
    <2> QED BY <2>2, <2>11, <2>12, <2>13 DEF Inline
<1>9. ASSUME NEW i \in IoThreads, NEW c \in Conns, FinishInline(i, c) PROVE Inline'
    <2>1. /\ worker' = [worker EXCEPT ![i] = Idle] /\ i \in Performers
          /\ stream' = [stream EXCEPT ![c].read = "pending"] /\ stream[c].io = i
          /\ UNCHANGED <<streams_, received, performed>>
        BY <1>9 DEF FinishInline, PushResponse, Performers
    <2>2. worker'[i].pc = "idle" /\ \A p \in Performers : p # i => worker'[p] = worker[p]
        BY <1>c, <2>1 DEF Idle
    <2>3. \A d \in Conns : d # c => stream'[d] = stream[d]
        BY <1>c, <2>1
    <2>4. \A p \in Performers : p # i /\ worker[p].pc # "idle"
            => ConnOf(worker[p].request) # c /\ ConnOf(worker[p].request) \in Conns
        BY <1>b, <2>1, Served
    <2>5. \A p \in Performers : worker'[p].pc # "idle" =>
           /\ stream'[streams_'[worker'[p].request.stream_id_]].io = p
           /\ stream'[streams_'[worker'[p].request.stream_id_]].read = "callback"
           /\ worker'[p].request.object_id_ = Len(received'[streams_'[worker'[p].request.stream_id_]]) - 1
        BY <1>a, <2>1, <2>2, <2>3, <2>4, CallbacksKept DEF Inline
    <2>6. PerformedRead'
        BY <1>a, <2>1, ReadKept DEF Inline
    <2>7. PerformedBefore' /\ SubmissionOrder'
        BY <2>1, <2>2 DEF Inline, PerformedBefore, SubmissionOrder
    <2> QED BY <2>5, <2>6, <2>7 DEF Inline, InsideCallback, ConnOf
<1>10. ASSUME NEW s, NEW m, RegisterMethod(s, m) \/ Loop \/ OnAcceptError
       PROVE  UNCHANGED <<worker, performed, received, stream>>
    BY <1>10 DEF RegisterMethod, Loop, OnAcceptError
<1>11. ASSUME NEW p, CallEmptyFunction(p) PROVE UNCHANGED <<worker, performed, received, stream>>
    BY <1>11 DEF CallEmptyFunction
<1>12. ASSUME NEW w, PopResponse(w) \/ FindStream(w) \/ WriteResponse(w)
       PROVE  UNCHANGED <<worker, performed, received, stream>>
    BY <1>12 DEF PopResponse, FindStream, WriteResponse
<1>13. ASSUME EnvNext \/ UNCHANGED vars PROVE UNCHANGED <<worker, performed, received, stream>>
    BY <1>13 DEF EnvNext, Connect, LoseConnection, LinkCut, Send, vars, execVars
<1>14. \A c : ~ QueueRequest(c)
    BY DEF QueueRequest
<1>15. IoThreads \subseteq Performers
    BY DEF Performers
<1> QED
    BY <1>d, <1>1, <1>2, <1>3, <1>4, <1>5, <1>7, <1>8, <1>9, <1>10, <1>11, <1>12, <1>13, <1>14, <1>15
    DEF Next, ExecNext, MainNext, IoNext, InlineNext, WriteNext, PerformNext

(* Without a work thread pool the requests of one connection are performed *)
(* in the order in which it sent them.                                     *)
THEOREM OrderedInline ==
  ASSUME WorkThreads = {}
  PROVE  Spec => []SubmissionOrder
<1>1. Init => Inline
    BY InitInline
<1>2. IInv /\ Once /\ (IInv /\ Once)' /\ Inline /\ [Next]_vars => Inline'
    BY InlineStep
<1>3. Inline => SubmissionOrder
    BY DEF Inline
<1> QED BY <1>1, <1>2, <1>3, OnceInvariance, PTL DEF Spec
=============================================================================
