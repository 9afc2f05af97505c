--------------------------- MODULE ExecutorProofs ---------------------------
(***************************************************************************)
(* What every step of the server preserves, for any number of connections, *)
(* threads, services and requests and whatever the clients send.  The      *)
(* theorems about a whole system are in ExecutorEnvProofs and RpcProofs.   *)
(*                                                                         *)
(* A write thread finds the stream of its response because the stream was  *)
(* in streams_ when the request was made and streams_ only grows;          *)
(* Correlated says so of every place a request or a response passes.       *)
(* Types depend on it too, since the stream that a write thread looks up   *)
(* is a connection only if the lookup succeeds.  TypeOK /\ Correlated /\   *)
(* AnswersItsRequest is preserved.                                         *)
(*                                                                         *)
(* On top of it, a message that was read is in at most one place of the    *)
(* server (Lone), and no step loses it (Moved).                            *)
(***************************************************************************)
EXTENDS Executor, TLAPS


(* The fields of a performing thread at each place of PerformRequest.      *)
LEMMA WorkerFields ==
  ASSUME NEW w \in WorkerStates
  PROVE  /\ w.pc \in {"idle", "lookup", "invoke", "respond"}
         /\ w.pc = "idle" <=> w = Idle
         /\ w.pc # "idle" => w.request \in DousiRequests
         /\ w.pc = "invoke" => w.method \in Callables
         /\ w.pc = "respond" => w.method \in Services
BY DEF WorkerStates, Idle

(* The fields of a write thread at each place of LoopToWriteResponse.      *)
LEMMA WriterFields ==
  ASSUME NEW w \in WriterStates
  PROVE  /\ w.pc \in {"idle", "find", "write"}
         /\ w.pc = "idle" <=> w = Idle
         /\ w.pc # "idle" => w.response \in DousiResponses
         /\ w.pc = "write" => w.stream \in Conns
BY DEF WriterStates, Idle

(* The serialized result of a method is a sequence of at most one value.   *)
LEMMA ResultType ==
  ASSUME NEW s \in Services, NEW b \in Bodies
  PROVE  Result(s, b) \in Seq(Values)
<1>1. [service |-> s, body |-> b] \in Values
    BY DEF Values
<1>2. \A v \in Values : <<v>> \in Seq(Values)
    OBVIOUS
<1> QED BY <1>1, <1>2 DEF Result

(* Appending keeps the elements that are there.                            *)
LEMMA AppendKeeps ==
  ASSUME NEW S, NEW q \in Seq(S), NEW e \in S
  PROVE  /\ DOMAIN Append(q, e) = DOMAIN q \cup {Len(q) + 1}
         /\ \A k \in DOMAIN q : Append(q, e)[k] = q[k]
         /\ Append(q, e)[Len(q) + 1] = e
OBVIOUS

(* What is left of a queue after a pop was in it before.                   *)
LEMMA TailShifts ==
  ASSUME NEW S, NEW q \in Seq(S), q # << >>
  PROVE  /\ 1 \in DOMAIN q /\ Head(q) = q[1]
         /\ \A k \in DOMAIN Tail(q) : k + 1 \in DOMAIN q /\ Tail(q)[k] = q[k + 1]
OBVIOUS

(* An element of a sequence.                                               *)
LEMMA ElementIn ==
  ASSUME NEW S, NEW q \in Seq(S), NEW i \in DOMAIN q
  PROVE  q[i] \in S
OBVIOUS

(* A stream with one of its fields set.                                    *)
LEMMA StreamField ==
  ASSUME NEW s \in Streams
  PROVE  /\ \A r \in {"none", "pending", "completed", "callback", "ended"} : [s EXCEPT !.read = r] \in Streams
         /\ [s EXCEPT !.write = "failed"] \in Streams
BY DEF Streams

(* What the completion of a failed write does to the streams.              *)
LEMMA WriteErrorCloses ==
  ASSUME NEW c \in Conns, stream \in [Conns -> Streams], OnWriteError(c)
  PROVE  /\ stream' \in [Conns -> Streams]
         /\ \A d \in Conns \ {c} : stream'[d] = stream[d]
         /\ stream'[c].stream_id_ = stream[c].stream_id_ /\ stream'[c].io = stream[c].io
         /\ stream'[c].socket_ = "closed" /\ stream'[c].write = "ok"
         /\ stream[c].read = "callback" => stream'[c].read = "callback"
<1> DEFINE s == [[stream[c] EXCEPT !.socket_ = "closed"] EXCEPT !.write = "ok"]
           t == [s EXCEPT !.read = "completed"]
<1>1. /\ s \in Streams /\ s.stream_id_ = stream[c].stream_id_ /\ s.io = stream[c].io
      /\ s.socket_ = "closed" /\ s.write = "ok" /\ s.read = stream[c].read
    BY DEF Streams
<1>2. /\ t \in Streams /\ t.stream_id_ = s.stream_id_ /\ t.io = s.io
      /\ t.socket_ = s.socket_ /\ t.write = s.write
    <2>1. t \in Streams
        BY <1>1, StreamField
    <2> HIDE DEF s
    <2> QED BY <1>1, <2>1 DEF Streams
<1>3. \/ stream' = [stream EXCEPT ![c] = s]
      \/ stream' = [stream EXCEPT ![c] = t] /\ stream[c].read = "pending"
    BY DEF OnWriteError
<1> HIDE DEF s, t
<1> QED BY <1>1, <1>2, <1>3

(* The server starts in a well-typed state.                                *)
LEMMA InitType == ExecInit /\ WireInit => TypeOK
<1> SUFFICES ASSUME ExecInit, WireInit PROVE TypeOK
    OBVIOUS
<1> USE DEF ExecInit, WireInit
<1>1. next_index_ \in IoThreads /\ accept_io \in IoThreads /\ 0 \in IoThreads
    BY IoAssumption DEF IoThreads
<1>2. streams_ \in [0 .. curr_stream_id_ - 1 -> Conns]
    <2>1. 0 .. curr_stream_id_ - 1 = {}
        OBVIOUS
    <2> QED BY <2>1
<1>3. stream \in [Conns -> Streams]
    BY <1>1 DEF Streams
<1>4. worker \in [Performers -> WorkerStates] /\ writer \in [WriteThreads -> WriterStates]
    BY DEF WorkerStates, WriterStates
<1>5. registered_methods_ \in [Methods -> Callables \cup {NoKey}]
    OBVIOUS
<1> QED BY <1>1, <1>2, <1>3, <1>4, <1>5 DEF TypeOK

(* At the start nothing is under way.                                      *)
LEMMA InitCorrelated == ExecInit /\ WireInit => Correlated /\ AnswersItsRequest
BY DEF ExecInit, WireInit, Correlated, StreamsEntered, RequestsGenuine,
       WorkersGenuine, ResponsesGenuine, WritersGenuine, AnswersItsRequest, Idle

-----------------------------------------------------------------------------
(* No step breaks the types.  FindStream is where Correlated is needed.    *)
LEMMA TypeStep == TypeOK /\ Correlated /\ ExecNext => TypeOK'
<1> SUFFICES ASSUME TypeOK, Correlated, ExecNext PROVE TypeOK'
    OBVIOUS
<1> USE DEF TypeOK, mainVars, acceptVars, setupVars, wireVars, history
<1>a. ASSUME NEW i \in IoThreads PROVE (i + 1) % IoThreadNum \in IoThreads
    BY IoAssumption DEF IoThreads
<1>b. ASSUME NEW c \in Conns, MessageRead(c)
      PROVE  /\ Head(toServer[c]) \in RequestMessages
             /\ toServer' \in [Conns -> Seq(RequestMessages)]
             /\ received' \in [Conns -> Seq(RequestMessages)]
             /\ RequestOf(c, Head(toServer[c])) \in DousiRequests
             /\ worker[stream[c].io] = Idle
             /\ running
    <2>1. Head(toServer[c]) \in RequestMessages
        BY <1>b DEF MessageRead
    <2>2. RequestOf(c, Head(toServer[c])) \in DousiRequests
        BY <2>1 DEF RequestOf, RequestMessages, DousiRequests, Bodies, Streams
    <2> QED BY <1>b, <2>1, <2>2 DEF MessageRead
<1>c. \A p \in Performers : worker[p] \in WorkerStates
    OBVIOUS
<1>d. \A w \in WriteThreads : writer[w] \in WriterStates
    OBVIOUS
<1>e. \A c \in Conns : stream[c] \in Streams /\ stream[c].io \in IoThreads
    BY DEF Streams
<1>f. WorkThreads \subseteq Performers /\ IoThreads \subseteq Performers
    BY DEF Performers
<1>1. ASSUME NEW s \in Services, NEW m \in Methods, RegisterMethod(s, m) PROVE TypeOK'
    BY <1>1 DEF RegisterMethod, Callables
<1>2. CASE Loop
    BY <1>2, <1>a DEF Loop, DoAccept, GetNextIOService
<1>3. ASSUME NEW c \in Conns, OnAccept(c) PROVE TypeOK'
    <2>1. streams_' \in [0 .. curr_stream_id_' - 1 -> Conns]
        <3>1. (0 .. curr_stream_id_ - 1) \cup {curr_stream_id_} = 0 .. curr_stream_id_' - 1
            BY <1>3 DEF OnAccept, RequestStreamID
        <3> QED BY <1>3, <3>1 DEF OnAccept
    <2>2. stream' \in [Conns -> Streams]
        BY <1>3 DEF OnAccept, Streams
    <2> QED BY <1>3, <1>a, <2>1, <2>2 DEF OnAccept, DoAccept, GetNextIOService, RequestStreamID
<1>4. CASE OnAcceptError
    BY <1>4, <1>a DEF OnAcceptError, DoAccept, GetNextIOService
<1>5. ASSUME NEW c \in Conns, QueueRequest(c) PROVE TypeOK'
    <2>1. stream' \in [Conns -> Streams]
        BY <1>5, <1>e, StreamField DEF QueueRequest
    <2> QED BY <1>5, <1>b, <2>1 DEF QueueRequest
<1>6. ASSUME NEW c \in Conns, PerformInline(c) PROVE TypeOK'
    <2>1. worker' \in [Performers -> WorkerStates]
        BY <1>6, <1>b DEF PerformInline, WorkerStates
    <2>2. stream' \in [Conns -> Streams]
        BY <1>6, <1>e, StreamField DEF PerformInline
    <2> QED BY <1>6, <1>b, <2>1, <2>2 DEF PerformInline
<1>7. ASSUME NEW c \in Conns, ReadFails(c) PROVE TypeOK'
    <2>1. stream' \in [Conns -> Streams]
        BY <1>7, <1>e, StreamField DEF ReadFails
    <2> QED BY <1>7, <2>1 DEF ReadFails
<1>8. ASSUME NEW c \in Conns, OnWriteError(c) PROVE TypeOK'
    <2>1. stream' \in [Conns -> Streams]
        BY <1>8, WriteErrorCloses
    <2> QED BY <1>8, <2>1 DEF OnWriteError
<1>9. ASSUME NEW t \in WorkThreads, PopRequest(t) PROVE TypeOK'
    <2>1. Head(request_queue_) \in DousiRequests /\ Tail(request_queue_) \in Seq(DousiRequests)
        BY <1>9 DEF PopRequest
    <2>2. worker' \in [Performers -> WorkerStates]
        BY <1>9, <1>f, <2>1 DEF PopRequest, WorkerStates
    <2> QED BY <1>9, <2>1, <2>2 DEF PopRequest
<1>10. ASSUME NEW p \in Performers, LookupMethod(p) PROVE TypeOK'
    <2>1. worker[p].request \in DousiRequests /\ worker[p].request.method_name_ \in Methods
        BY <1>10, <1>c, WorkerFields DEF LookupMethod, DousiRequests
    <2>2. registered_methods_' \in [Methods -> Callables \cup {NoKey}]
        BY <1>10, <2>1 DEF LookupMethod, Callables
    <2>3. worker' \in [Performers -> WorkerStates]
        BY <1>10, <2>1 DEF LookupMethod, WorkerStates, Callables
    <2> QED BY <1>10, <2>2, <2>3 DEF LookupMethod
<1>11. ASSUME NEW p \in Performers, CallMethod(p) PROVE TypeOK'
    <2>1. worker[p].request \in DousiRequests /\ worker[p].method \in Services
        BY <1>11, <1>c, WorkerFields DEF CallMethod, Callables
    <2>2. worker' \in [Performers -> WorkerStates]
        BY <1>11, <2>1 DEF CallMethod, WorkerStates
    <2>3. performed' \in Seq([service : Services, request : DousiRequests])
        BY <1>11, <2>1 DEF CallMethod
    <2> QED BY <1>11, <2>2, <2>3 DEF CallMethod
<1>12. ASSUME NEW p \in Performers, CallEmptyFunction(p) PROVE TypeOK'
    BY <1>12 DEF CallEmptyFunction
<1>13. ASSUME NEW p \in Performers, PushResponse(p), stream' \in [Conns -> Streams] PROVE TypeOK'
    <2>1. worker[p].request \in DousiRequests /\ worker[p].method \in Services
        BY <1>13, <1>c, WorkerFields DEF PushResponse
    <2>2. ResponseOf(worker[p]) \in DousiResponses
        BY <2>1, ResultType DEF ResponseOf, DousiRequests, DousiResponses
    <2>3. worker' \in [Performers -> WorkerStates]
        BY <1>13 DEF PushResponse, WorkerStates
    <2> QED BY <1>13, <2>2, <2>3 DEF PushResponse
<1>14. ASSUME NEW t \in WorkThreads, FinishRequest(t) PROVE TypeOK'
    BY <1>13, <1>14, <1>f DEF FinishRequest
<1>15. ASSUME NEW i \in IoThreads, NEW c \in Conns, FinishInline(i, c) PROVE TypeOK'
    <2>1. stream' \in [Conns -> Streams]
        BY <1>15, <1>e, StreamField DEF FinishInline
    <2> QED BY <1>13, <1>15, <1>f, <2>1 DEF FinishInline
<1>16. ASSUME NEW w \in WriteThreads, PopResponse(w) PROVE TypeOK'
    <2>1. Head(response_queue_) \in DousiResponses /\ Tail(response_queue_) \in Seq(DousiResponses)
        BY <1>16 DEF PopResponse
    <2>2. writer' \in [WriteThreads -> WriterStates]
        BY <1>16, <2>1 DEF PopResponse, WriterStates
    <2> QED BY <1>16, <2>1, <2>2 DEF PopResponse
<1>17. ASSUME NEW w \in WriteThreads, FindStream(w) PROVE TypeOK'
    <2>1. writer[w].response \in DousiResponses
        BY <1>17, <1>d, WriterFields DEF FindStream
    <2>2. streams_[writer[w].response.stream_id_] \in Conns
        BY <1>17 DEF FindStream, Correlated, WritersGenuine, GenuineResponse
    <2>3. writer' \in [WriteThreads -> WriterStates]
        BY <1>17, <2>1, <2>2 DEF FindStream, WriterStates
    <2> QED BY <1>17, <2>3 DEF FindStream
<1>18. ASSUME NEW w \in WriteThreads, WriteResponse(w) PROVE TypeOK'
    <2>1. writer[w].response \in DousiResponses /\ writer[w].stream \in Conns
        BY <1>18, <1>d, WriterFields DEF WriteResponse
    <2>2. toClient' \in [Conns -> Seq(ResponseMessages)]
        <3> DEFINE r == writer[w].response
                   m == [object_id |-> r.object_id_, data |-> r.result_]
        <3>1. m \in ResponseMessages
            BY <2>1 DEF DousiResponses, ResponseMessages
        <3>2. toClient' = [toClient EXCEPT ![writer[w].stream] = Append(@, m)]
            BY <1>18 DEF WriteResponse
        <3> HIDE DEF m
        <3> QED BY <2>1, <3>1, <3>2
    <2>3. writer' \in [WriteThreads -> WriterStates]
        BY <1>18 DEF WriteResponse, WriterStates
    <2> QED BY <1>18, <2>2, <2>3 DEF WriteResponse
<1>19. ASSUME NEW w \in WriteThreads, LoseResponse(w) PROVE TypeOK'
    <2>1. writer[w].stream \in Conns
        BY <1>19, <1>d, WriterFields DEF LoseResponse
    <2>2. stream' \in [Conns -> Streams]
        <3>1. CASE stream' = [stream EXCEPT ![writer[w].stream].write = "failed"]
            BY <1>e, <3>1, <2>1, StreamField
        <3> QED BY <1>19, <3>1 DEF LoseResponse
    <2>3. writer' \in [WriteThreads -> WriterStates]
        BY <1>19 DEF LoseResponse, WriterStates
    <2> QED BY <1>19, <2>2, <2>3 DEF LoseResponse
<1> QED
    BY <1>1, <1>2, <1>3, <1>4, <1>5, <1>6, <1>7, <1>8, <1>9, <1>10, <1>11,
       <1>12, <1>14, <1>15, <1>16, <1>17, <1>18, <1>19, <1>f
    DEF ExecNext, MainNext, IoNext, WorkNext, InlineNext,
        WriteNext, PerformNext

-----------------------------------------------------------------------------
(* No step removes or changes an entry of streams_ or a message received.  *)
LEMMA StepGrows == TypeOK /\ ExecNext => HistoryGrows
<1> SUFFICES ASSUME TypeOK, ExecNext PROVE HistoryGrows
    OBVIOUS
<1> USE DEF mainVars, acceptVars, setupVars, wireVars, history
<1>1. ASSUME NEW c \in Conns, OnAccept(c) PROVE HistoryGrows
    BY <1>1 DEF OnAccept, HistoryGrows, TypeOK
<1>2. ASSUME NEW c \in Conns, MessageRead(c), UNCHANGED streams_ PROVE HistoryGrows
    <2>1. \A d \in Conns : received[d] \in Seq(RequestMessages)
        BY DEF TypeOK
    <2>2. received' = [received EXCEPT ![c] = Append(@, Head(toServer[c]))]
        BY <1>2 DEF MessageRead
    <2>3. \A d \in Conns : received'[d] =
            IF d = c THEN Append(received[d], Head(toServer[c])) ELSE received[d]
        BY <2>2 DEF TypeOK
    <2>4. \A d \in Conns : \A k \in DOMAIN received[d] :
            k \in DOMAIN received'[d] /\ received'[d][k] = received[d][k]
        <3>1. Head(toServer[c]) \in RequestMessages
            BY <1>2 DEF MessageRead, TypeOK
        <3>2. \A k \in DOMAIN received[c] :
                /\ k \in DOMAIN Append(received[c], Head(toServer[c]))
                /\ Append(received[c], Head(toServer[c]))[k] = received[c][k]
            BY <2>1, <3>1, AppendKeeps
        <3> QED BY <2>3, <3>2
    <2> QED BY <1>2, <2>4 DEF HistoryGrows
<1>3. CASE UNCHANGED <<streams_, received>>
    BY <1>3 DEF HistoryGrows
<1>4. ASSUME NEW c \in Conns, QueueRequest(c) \/ PerformInline(c)
      PROVE  MessageRead(c) /\ UNCHANGED streams_
    BY <1>4 DEF QueueRequest, PerformInline
<1>5. ASSUME NEW s, NEW m, RegisterMethod(s, m) \/ Loop \/ OnAcceptError
      PROVE  UNCHANGED <<streams_, received>>
    BY <1>5 DEF RegisterMethod, Loop, OnAcceptError
<1>6. ASSUME NEW c, ReadFails(c) \/ OnWriteError(c) PROVE UNCHANGED <<streams_, received>>
    BY <1>6 DEF ReadFails, OnWriteError
<1>7. ASSUME NEW t, WorkNext(t) \/ InlineNext(t) PROVE UNCHANGED <<streams_, received>>
    BY <1>7 DEF WorkNext, InlineNext, PerformNext, PopRequest, LookupMethod,
        CallMethod, CallEmptyFunction, FinishRequest, FinishInline, PushResponse
<1>8. ASSUME NEW w, WriteNext(w) PROVE UNCHANGED <<streams_, received>>
    BY <1>8 DEF WriteNext, PopResponse, FindStream, WriteResponse, LoseResponse
<1> QED
    BY <1>1, <1>2, <1>3, <1>4, <1>5, <1>6, <1>7, <1>8
    DEF ExecNext, MainNext, IoNext

(* A genuine request stays genuine while the histories grow.               *)
LEMMA RequestKept ==
  ASSUME TypeOK, HistoryGrows
  PROVE  \A r : GenuineRequest(r, streams_, received)
                  => GenuineRequest(r, streams_', received')
<1> SUFFICES ASSUME NEW r, GenuineRequest(r, streams_, received)
             PROVE  GenuineRequest(r, streams_', received')
    OBVIOUS
<1> DEFINE c == streams_[r.stream_id_]
<1>1. r.stream_id_ \in DOMAIN streams_ /\ c \in Conns
    BY DEF GenuineRequest, TypeOK
<1>2. r.stream_id_ \in DOMAIN streams_' /\ streams_'[r.stream_id_] = c
    BY <1>1 DEF HistoryGrows
<1>3. PICK k \in DOMAIN received[c] :
        received[c][k].object_id = r.object_id_ /\ received[c][k].data = r.unpacked_
    BY DEF GenuineRequest
<1> HIDE DEF c
<1>4. k \in DOMAIN received'[c] /\ received'[c][k] = received[c][k]
    BY <1>1 DEF HistoryGrows
<1> QED BY <1>2, <1>3, <1>4 DEF GenuineRequest

(* A genuine response stays genuine while the histories grow.              *)
LEMMA ResponseKept ==
  ASSUME TypeOK, HistoryGrows
  PROVE  \A r : GenuineResponse(r, streams_, received)
                  => GenuineResponse(r, streams_', received')
<1> SUFFICES ASSUME NEW r, GenuineResponse(r, streams_, received)
             PROVE  GenuineResponse(r, streams_', received')
    OBVIOUS
<1> DEFINE c == streams_[r.stream_id_]
<1>1. r.stream_id_ \in DOMAIN streams_ /\ c \in Conns
    BY DEF GenuineResponse, TypeOK
<1>2. r.stream_id_ \in DOMAIN streams_' /\ streams_'[r.stream_id_] = c
    BY <1>1 DEF HistoryGrows
<1>3. PICK k \in DOMAIN received[c] :
        /\ received[c][k].object_id = r.object_id_
        /\ \E s \in Services : r.result_ = Result(s, received[c][k].data)
    BY DEF GenuineResponse
<1> HIDE DEF c
<1>4. k \in DOMAIN received'[c] /\ received'[c][k] = received[c][k]
    BY <1>1 DEF HistoryGrows
<1> QED BY <1>2, <1>3, <1>4 DEF GenuineResponse

(* A part of Correlated holds after a step that leaves its variables       *)
(* alone.                                                                  *)
LEMMA Undisturbed ==
  ASSUME TypeOK, Correlated, AnswersItsRequest, HistoryGrows
  PROVE  /\ UNCHANGED <<stream, streams_>> => StreamsEntered'
         /\ UNCHANGED request_queue_ => RequestsGenuine'
         /\ UNCHANGED worker => WorkersGenuine'
         /\ UNCHANGED response_queue_ => ResponsesGenuine'
         /\ UNCHANGED writer => WritersGenuine'
         /\ UNCHANGED toClient => AnswersItsRequest'
<1>1. UNCHANGED <<stream, streams_>> => StreamsEntered'
    BY DEF Correlated, StreamsEntered, HistoryGrows
<1>2. UNCHANGED request_queue_ => RequestsGenuine'
    BY RequestKept DEF Correlated, RequestsGenuine
<1>3. UNCHANGED worker => WorkersGenuine'
    BY RequestKept DEF Correlated, WorkersGenuine
<1>4. UNCHANGED response_queue_ => ResponsesGenuine'
    BY ResponseKept DEF Correlated, ResponsesGenuine
<1>5. UNCHANGED writer => WritersGenuine'
    <2> SUFFICES ASSUME UNCHANGED writer, NEW w \in WriteThreads, writer[w].pc # "idle"
                 PROVE  /\ GenuineResponse(writer[w].response, streams_', received')
                        /\ writer[w].pc = "write" =>
                             writer[w].stream = streams_'[writer[w].response.stream_id_]
        BY DEF WritersGenuine
    <2>1. GenuineResponse(writer[w].response, streams_, received)
        BY DEF Correlated, WritersGenuine
    <2>2. writer[w].response.stream_id_ \in DOMAIN streams_
        BY <2>1 DEF GenuineResponse
    <2> QED BY <2>1, <2>2, ResponseKept DEF Correlated, WritersGenuine, HistoryGrows
<1>6. UNCHANGED toClient => AnswersItsRequest'
    BY DEF AnswersItsRequest, HistoryGrows
<1> QED BY <1>1, <1>2, <1>3, <1>4, <1>5, <1>6

(* StreamsEntered holds after a step that changes one stream, but neither  *)
(* its id nor whether it was accepted.                                     *)
LEMMA SameStreams ==
  ASSUME TypeOK, StreamsEntered, UNCHANGED streams_,
         NEW c \in Conns,
         \A d \in Conns \ {c} : stream'[d] = stream[d],
         stream'[c].stream_id_ = stream[c].stream_id_,
         stream'[c].socket_ # "none" <=> stream[c].socket_ # "none",
         stream'[c].write = "failed" \/ stream'[c].read = "completed" => stream[c].socket_ # "none"
  PROVE  StreamsEntered'
<1>1. ASSUME NEW d \in Conns
      PROVE  /\ stream'[d].stream_id_ = stream[d].stream_id_
             /\ stream'[d].socket_ # "none" <=> stream[d].socket_ # "none"
             /\ stream'[d].write = "failed" \/ stream'[d].read = "completed"
                  => stream[d].socket_ # "none"
    <2>1. CASE d = c
        BY <2>1
    <2>2. CASE d # c
        BY <2>2 DEF StreamsEntered
    <2> QED BY <2>1, <2>2
<1>2. \A i \in DOMAIN streams_ : streams_[i] \in Conns
    BY DEF TypeOK
<1> QED BY <1>1, <1>2 DEF StreamsEntered

-----------------------------------------------------------------------------
(* No step breaks the correlation, and no response is written to a         *)
(* connection that did not ask for it.                                     *)
LEMMA CorrelatedStep ==
  TypeOK /\ Correlated /\ AnswersItsRequest /\ ExecNext
    => Correlated' /\ AnswersItsRequest'
<1> SUFFICES ASSUME TypeOK, Correlated, AnswersItsRequest, ExecNext
             PROVE  Correlated' /\ AnswersItsRequest'
    OBVIOUS
<1> DEFINE Goal == Correlated' /\ AnswersItsRequest'
<1> USE DEF mainVars, acceptVars, setupVars, wireVars, history
<1>a. HistoryGrows
    BY StepGrows
<1>b. TypeOK'
    BY TypeStep
<1>c. \A p \in Performers : worker[p] \in WorkerStates /\ worker'[p] \in WorkerStates
    BY <1>b DEF TypeOK
<1>d. \A w \in WriteThreads : writer[w] \in WriterStates /\ writer'[w] \in WriterStates
    BY <1>b DEF TypeOK
<1>e. WorkThreads \subseteq Performers /\ IoThreads \subseteq Performers
    BY DEF Performers
<1>f. ASSUME StreamsEntered', RequestsGenuine', WorkersGenuine', ResponsesGenuine',
             WritersGenuine', AnswersItsRequest'
      PROVE  Goal
    BY <1>f DEF Correlated
<1>g. ASSUME UNCHANGED <<streams_, stream, request_queue_, worker, response_queue_, writer, toClient>>
      PROVE  Goal
    BY <1>a, <1>f, <1>g, Undisturbed
<1> HIDE DEF Goal
<1>1. ASSUME NEW s \in Services, NEW m \in Methods, RegisterMethod(s, m) PROVE Goal
    BY <1>1, <1>g DEF RegisterMethod
<1>2. ASSUME Loop \/ OnAcceptError PROVE Goal
    BY <1>2, <1>g DEF Loop, OnAcceptError
<1>3. ASSUME NEW c \in Conns, OnAccept(c) PROVE Goal
    <2>1. StreamsEntered'
        <3> USE <1>3 DEF OnAccept, RequestStreamID, TypeOK, Correlated, StreamsEntered
        <3>1. ASSUME NEW d \in Conns, stream'[d].socket_ # "none"
              PROVE  /\ stream'[d].stream_id_ \in DOMAIN streams_'
                     /\ streams_'[stream'[d].stream_id_] = d
            <4>1. CASE d = c
                BY <4>1
            <4>2. CASE d # c
                BY <3>1, <4>2
            <4> QED BY <4>1, <4>2
        <3>2. ASSUME NEW i \in DOMAIN streams_' PROVE stream'[streams_'[i]].socket_ # "none"
            OBVIOUS
        <3>3. ASSUME NEW d \in Conns, stream'[d].write = "failed" \/ stream'[d].read = "completed"
              PROVE  stream'[d].socket_ # "none"
            BY <3>3
        <3> QED BY <3>1, <3>2, <3>3
    <2> QED BY <1>3, <1>a, <1>f, <2>1, Undisturbed DEF OnAccept
<1>4. ASSUME NEW c \in Conns, MessageRead(c)
      PROVE  GenuineRequest(RequestOf(c, Head(toServer[c])), streams_', received')
    <2> DEFINE m == Head(toServer[c])
    <2>1. m \in RequestMessages /\ received[c] \in Seq(RequestMessages)
        BY <1>4 DEF MessageRead, TypeOK
    <2>2. received'[c] = Append(received[c], m)
        BY <1>4 DEF MessageRead, TypeOK
    <2>3. /\ Len(received[c]) + 1 \in DOMAIN received'[c]
          /\ received'[c][Len(received[c]) + 1] = m
        BY <2>1, <2>2, AppendKeeps
    <2>4. /\ stream[c].stream_id_ \in DOMAIN streams_'
          /\ streams_'[stream[c].stream_id_] = c
        BY <1>4, <1>a DEF MessageRead, Correlated, StreamsEntered, HistoryGrows
    <2> QED BY <2>3, <2>4 DEF GenuineRequest, RequestOf
<1>5. ASSUME NEW c \in Conns, QueueRequest(c) PROVE Goal
    <2>1. RequestsGenuine'
        <3> DEFINE r == RequestOf(c, Head(toServer[c]))
        <3>1. r \in DousiRequests
            BY <1>5, <1>b DEF QueueRequest, TypeOK
        <3>2. /\ request_queue_' = Append(request_queue_, r)
              /\ GenuineRequest(r, streams_', received')
            BY <1>4, <1>5 DEF QueueRequest
        <3>3. \A i \in DOMAIN request_queue_ :
                GenuineRequest(request_queue_[i], streams_', received')
            BY <1>a, RequestKept DEF Correlated, RequestsGenuine
        <3> QED BY <3>1, <3>2, <3>3, AppendKeeps DEF RequestsGenuine, TypeOK
    <2>2. StreamsEntered'
        <3>1. stream[c].socket_ # "none" /\ stream[c] \in Streams
            BY <1>5 DEF QueueRequest, MessageRead, TypeOK, Correlated, StreamsEntered
        <3>2. /\ \A d \in Conns \ {c} : stream'[d] = stream[d]
              /\ stream'[c].stream_id_ = stream[c].stream_id_
              /\ stream'[c].socket_ = stream[c].socket_
            BY <1>5, <3>1 DEF QueueRequest, TypeOK, Streams
        <3> QED BY <1>5, <3>1, <3>2, SameStreams DEF QueueRequest, Correlated
    <2> QED BY <1>5, <1>a, <1>f, <2>1, <2>2, Undisturbed DEF QueueRequest
<1>6. ASSUME NEW c \in Conns, PerformInline(c) PROVE Goal
    <2>1. WorkersGenuine'
        BY <1>6, <1>4, <1>a, RequestKept
           DEF PerformInline, TypeOK, Correlated, WorkersGenuine
    <2>2. StreamsEntered'
        <3>1. stream[c].socket_ # "none" /\ stream[c] \in Streams
            BY <1>6 DEF PerformInline, MessageRead, TypeOK, Correlated, StreamsEntered
        <3>2. /\ \A d \in Conns \ {c} : stream'[d] = stream[d]
              /\ stream'[c].stream_id_ = stream[c].stream_id_
              /\ stream'[c].socket_ = stream[c].socket_
            BY <1>6, <3>1 DEF PerformInline, TypeOK, Streams
        <3> QED BY <1>6, <3>1, <3>2, SameStreams DEF PerformInline, Correlated
    <2> QED BY <1>6, <1>a, <1>f, <2>1, <2>2, Undisturbed DEF PerformInline
<1>7. ASSUME NEW c \in Conns, ReadFails(c) \/ OnWriteError(c) PROVE Goal
    <2>1. StreamsEntered'
        <3>1. CASE ReadFails(c)
            <4>1. /\ \A d \in Conns \ {c} : stream'[d] = stream[d]
                  /\ stream'[c].stream_id_ = stream[c].stream_id_
                  /\ stream'[c].socket_ = stream[c].socket_
                  /\ stream'[c].write = stream[c].write /\ stream'[c].read = "ended"
                BY <3>1 DEF ReadFails, TypeOK, Streams
            <4> QED BY <3>1, <4>1, SameStreams DEF ReadFails, Correlated, StreamsEntered
        <3>2. CASE OnWriteError(c)
            <4>1. stream[c].socket_ # "none"
                BY <3>2 DEF OnWriteError, Correlated, StreamsEntered
            <4>2. /\ \A d \in Conns \ {c} : stream'[d] = stream[d]
                  /\ stream'[c].stream_id_ = stream[c].stream_id_
                  /\ stream'[c].socket_ # "none"
                BY <3>2, WriteErrorCloses DEF TypeOK
            <4> QED BY <3>2, <4>1, <4>2, SameStreams DEF OnWriteError, Correlated
        <3> QED BY <1>7, <3>1, <3>2
    <2> QED BY <1>7, <1>a, <1>f, <2>1, Undisturbed DEF ReadFails, OnWriteError
<1>8. ASSUME NEW t \in WorkThreads, PopRequest(t) PROVE Goal
    <2>1. /\ request_queue_ # << >> /\ request_queue_ \in Seq(DousiRequests)
          /\ request_queue_' = Tail(request_queue_)
          /\ UNCHANGED <<streams_, received>>
        BY <1>8 DEF PopRequest, TypeOK
    <2>2. RequestsGenuine'
        BY <2>1, TailShifts DEF Correlated, RequestsGenuine
    <2>3. GenuineRequest(Head(request_queue_), streams_, received)
        BY <2>1, TailShifts DEF Correlated, RequestsGenuine
    <2>4. WorkersGenuine'
        BY <1>8, <1>e, <2>1, <2>3 DEF PopRequest, TypeOK, Correlated, WorkersGenuine
    <2> QED BY <1>8, <1>a, <1>f, <2>2, <2>4, Undisturbed DEF PopRequest
<1>9. ASSUME NEW p \in Performers, LookupMethod(p) \/ CallMethod(p) PROVE Goal
    <2>1. worker[p].pc # "idle" /\ UNCHANGED <<streams_, received>>
        BY <1>9 DEF LookupMethod, CallMethod
    <2>2. worker'[p].request = worker[p].request
        <3>1. CASE LookupMethod(p)
            BY <3>1 DEF LookupMethod, TypeOK
        <3>2. CASE CallMethod(p)
            BY <3>2 DEF CallMethod, TypeOK
        <3> QED BY <1>9, <3>1, <3>2
    <2>3. \A q \in Performers \ {p} : worker'[q] = worker[q]
        <3>1. CASE LookupMethod(p)
            BY <3>1 DEF LookupMethod, TypeOK
        <3>2. CASE CallMethod(p)
            BY <3>2 DEF CallMethod, TypeOK
        <3> QED BY <1>9, <3>1, <3>2
    <2>4. WorkersGenuine'
        BY <2>1, <2>2, <2>3 DEF Correlated, WorkersGenuine
    <2> QED BY <1>9, <1>a, <1>f, <2>4, Undisturbed DEF LookupMethod, CallMethod
<1>10. ASSUME NEW p \in Performers, CallEmptyFunction(p) PROVE Goal
    BY <1>10, <1>g DEF CallEmptyFunction
<1>11. ASSUME NEW p \in Performers, PushResponse(p), StreamsEntered' PROVE Goal
    <2> DEFINE r == ResponseOf(worker[p])
    <2>1. /\ UNCHANGED <<streams_, received>>
          /\ response_queue_' = Append(response_queue_, r)
          /\ worker' = [worker EXCEPT ![p] = Idle]
        BY <1>11 DEF PushResponse
    <2>2. worker[p].method \in Services /\ worker[p].request \in DousiRequests
        BY <1>11, <1>c, WorkerFields DEF PushResponse
    <2>3. GenuineRequest(worker[p].request, streams_, received)
        BY <1>11 DEF PushResponse, Correlated, WorkersGenuine
    <2>4. GenuineResponse(r, streams_, received)
        BY <2>2, <2>3 DEF GenuineRequest, GenuineResponse, ResponseOf
    <2>5. r \in DousiResponses
        BY <2>2, ResultType DEF ResponseOf, DousiRequests, DousiResponses
    <2>6. ResponsesGenuine'
        <3> HIDE DEF r
        <3> QED BY <2>1, <2>4, <2>5, AppendKeeps
                DEF TypeOK, Correlated, ResponsesGenuine
    <2>7. WorkersGenuine'
        BY <2>1 DEF TypeOK, Correlated, WorkersGenuine, Idle
    <2> QED BY <1>11, <1>a, <1>f, <2>6, <2>7, Undisturbed DEF PushResponse
<1>12. ASSUME NEW t \in WorkThreads, FinishRequest(t) PROVE Goal
    BY <1>11, <1>12, <1>a, <1>e, Undisturbed DEF FinishRequest, PushResponse
<1>13. ASSUME NEW i \in IoThreads, NEW c \in Conns, FinishInline(i, c) PROVE Goal
    <2>1. StreamsEntered'
        <3>1. /\ \A d \in Conns \ {c} : stream'[d] = stream[d]
              /\ stream'[c].stream_id_ = stream[c].stream_id_
              /\ stream'[c].socket_ = stream[c].socket_
              /\ stream'[c].write = stream[c].write
            BY <1>13 DEF FinishInline, TypeOK, Streams
        <3> QED BY <1>13, <3>1, SameStreams
                DEF FinishInline, PushResponse, Correlated, StreamsEntered
    <2> QED BY <1>11, <1>13, <1>e, <2>1 DEF FinishInline
<1>14. ASSUME NEW w \in WriteThreads, PopResponse(w) PROVE Goal
    <2>1. /\ response_queue_ # << >> /\ response_queue_ \in Seq(DousiResponses)
          /\ response_queue_' = Tail(response_queue_)
          /\ UNCHANGED <<streams_, received>>
        BY <1>14 DEF PopResponse, TypeOK
    <2>2. ResponsesGenuine'
        BY <2>1, TailShifts DEF Correlated, ResponsesGenuine
    <2>3. GenuineResponse(Head(response_queue_), streams_, received)
        BY <2>1, TailShifts DEF Correlated, ResponsesGenuine
    <2>4. WritersGenuine'
        BY <1>14, <2>1, <2>3 DEF PopResponse, TypeOK, Correlated, WritersGenuine
    <2> QED BY <1>14, <1>a, <1>f, <2>2, <2>4, Undisturbed DEF PopResponse
<1>15. ASSUME NEW w \in WriteThreads, FindStream(w) PROVE Goal
    <2>1. WritersGenuine'
        BY <1>15 DEF FindStream, TypeOK, Correlated, WritersGenuine
    <2> QED BY <1>15, <1>a, <1>f, <2>1, Undisturbed DEF FindStream
<1>16. ASSUME NEW w \in WriteThreads, WriteResponse(w) PROVE Goal
    <2> DEFINE c == writer[w].stream
               r == writer[w].response
               m == [object_id |-> r.object_id_, data |-> r.result_]
    <2>1. /\ c \in Conns /\ r \in DousiResponses
          /\ toClient' = [toClient EXCEPT ![c] = Append(@, m)]
          /\ UNCHANGED <<streams_, received>>
        BY <1>16, <1>d, WriterFields DEF WriteResponse
    <2>2. GenuineResponse(r, streams_, received) /\ c = streams_[r.stream_id_]
        BY <1>16 DEF WriteResponse, Correlated, WritersGenuine
    <2>3. PICK k \in DOMAIN received[c] :
            /\ received[c][k].object_id = m.object_id
            /\ \E s \in Services : m.data = Result(s, received[c][k].data)
        BY <2>2 DEF GenuineResponse
    <2>4. m \in ResponseMessages
        BY <2>1 DEF DousiResponses, ResponseMessages
    <2>5. AnswersItsRequest'
        <3> HIDE DEF m, c
        <3>1. ASSUME NEW d \in Conns, d # c PROVE toClient'[d] = toClient[d]
            BY <2>1, <3>1 DEF TypeOK
        <3>2. toClient'[c] = Append(toClient[c], m) /\ toClient[c] \in Seq(ResponseMessages)
            BY <2>1 DEF TypeOK
        <3>3. \A i \in DOMAIN toClient'[c] : \/ toClient'[c][i] = m
                                             \/ /\ i \in DOMAIN toClient[c]
                                                /\ toClient'[c][i] = toClient[c][i]
            BY <3>2, <2>4, AppendKeeps
        <3> QED BY <2>1, <2>3, <3>1, <3>3 DEF AnswersItsRequest
    <2>6. WritersGenuine'
        BY <1>16, <2>1 DEF WriteResponse, TypeOK, Correlated, WritersGenuine, Idle
    <2> QED BY <1>16, <1>a, <1>f, <2>5, <2>6, Undisturbed DEF WriteResponse
<1>17. ASSUME NEW w \in WriteThreads, LoseResponse(w) PROVE Goal
    <2>1. /\ writer[w].stream \in Conns
          /\ writer[w].stream = streams_[writer[w].response.stream_id_]
          /\ writer[w].response.stream_id_ \in DOMAIN streams_
        BY <1>17, <1>d, WriterFields
           DEF LoseResponse, Correlated, WritersGenuine, GenuineResponse
    <2>2. ASSUME stream' = [stream EXCEPT ![writer[w].stream].write = "failed"]
          PROVE  StreamsEntered'
        <3> DEFINE c == writer[w].stream
        <3>1. stream[c].socket_ # "none" /\ UNCHANGED streams_
            BY <1>17, <2>1 DEF LoseResponse, Correlated, StreamsEntered
        <3>2. /\ \A d \in Conns \ {c} : stream'[d] = stream[d]
              /\ stream'[c].stream_id_ = stream[c].stream_id_
              /\ stream'[c].socket_ = stream[c].socket_
            BY <2>1, <2>2 DEF TypeOK, Streams
        <3> QED BY <2>1, <3>1, <3>2, SameStreams DEF Correlated
    <2>3. StreamsEntered'
        BY <1>17, <1>a, <2>2, Undisturbed DEF LoseResponse
    <2>4. WritersGenuine'
        BY <1>17 DEF LoseResponse, TypeOK, Correlated, WritersGenuine, Idle
    <2> QED BY <1>17, <1>a, <1>f, <2>3, <2>4, Undisturbed DEF LoseResponse
<1>18. Goal
    BY <1>1, <1>2, <1>3, <1>5, <1>6, <1>7, <1>8, <1>9, <1>10, <1>12, <1>13,
       <1>14, <1>15, <1>16, <1>17, <1>e
    DEF ExecNext, MainNext, IoNext, WorkNext, InlineNext, WriteNext,
        PerformNext
<1> QED BY <1>18 DEF Goal

-----------------------------------------------------------------------------
(* The part of the invariant that does not depend on what clients send.    *)
IInv == TypeOK /\ Correlated /\ AnswersItsRequest

(* Every entry of streams_ is that of the stream that has its id.          *)
OwnEntry == \A i \in DOMAIN streams_ : stream[streams_[i]].stream_id_ = i

(* A write fails, and the socket is closed for it, only once the           *)
(* connection is lost.                                                     *)
ClosedIsCut ==
  \A c \in Conns : stream[c].write = "failed" \/ stream[c].socket_ = "closed" => link[c] = "cut"

(* No message under way has the id of one that was read before.            *)
NoIdAgain ==
  \A c \in Conns : \A k \in DOMAIN received[c] : \A j \in DOMAIN toServer[c] :
    received[c][k].object_id # toServer[c][j].object_id

(* Nothing of message o of c is anywhere in the server or on the way back. *)
Nowhere(c, o) ==
  /\ Queued(c, o) = {} /\ Performing(c, o) = {} /\ Answered(c, o) = {}
  /\ Writing(c, o) = {} /\ Written(c, o) = {}

(* No two places hold message o of c or its response.                      *)
Lone(c, o) ==
  /\ \A x, y \in Queued(c, o) : x = y
  /\ \A x, y \in Performing(c, o) : x = y
  /\ \A x, y \in Answered(c, o) : x = y
  /\ \A x, y \in Writing(c, o) : x = y
  /\ \A x, y \in Written(c, o) : x = y
  /\ Queued(c, o) # {} => Performing(c, o) = {} /\ Answered(c, o) = {}
                            /\ Writing(c, o) = {} /\ Written(c, o) = {}
  /\ Performing(c, o) # {} => Answered(c, o) = {} /\ Writing(c, o) = {} /\ Written(c, o) = {}
  /\ Answered(c, o) # {} => Writing(c, o) = {} /\ Written(c, o) = {}
  /\ Writing(c, o) # {} => Written(c, o) = {}

(* A step of the clients leaves what holds of the server alone.            *)
LEMMA Untouched ==
  ASSUME IInv, UNCHANGED execVars
  PROVE  /\ Correlated' /\ HistoryGrows
         /\ OwnEntry => OwnEntry'
         /\ UNCHANGED toClient => AnswersItsRequest'
<1> USE DEF execVars
<1>1. HistoryGrows
    BY DEF HistoryGrows
<1>2. Correlated' /\ (UNCHANGED toClient => AnswersItsRequest')
    BY <1>1, Undisturbed DEF IInv, Correlated
<1> QED BY <1>1, <1>2 DEF OwnEntry

(* Every step of the server preserves the invariant.                       *)
LEMMA ServerStep == IInv /\ ExecNext => IInv' /\ HistoryGrows
BY TypeStep, CorrelatedStep, StepGrows DEF IInv

(* A message that was not read yet is nowhere.                             *)
LEMMA UnreadNowhere ==
  ASSUME IInv, NEW c \in Conns, NEW o, \A k \in DOMAIN received[c] : received[c][k].object_id # o
  PROVE  Nowhere(c, o)
<1>1. stream[c].socket_ # "none" => streams_[stream[c].stream_id_] = c
    BY DEF IInv, Correlated, StreamsEntered
<1>2. Queued(c, o) = {}
    BY <1>1 DEF Queued, Belongs, IInv, Correlated, RequestsGenuine, GenuineRequest
<1>3. Performing(c, o) = {}
    <2> SUFFICES ASSUME NEW p \in Performing(c, o) PROVE FALSE
        OBVIOUS
    <2>1. p \in Performers /\ worker[p] \in WorkerStates /\ worker[p] # Idle
        BY DEF Performing, IInv, TypeOK
    <2>2. worker[p].pc # "idle"
        BY <2>1, WorkerFields
    <2> QED BY <1>1, <2>1, <2>2
            DEF Performing, Belongs, IInv, Correlated, WorkersGenuine, GenuineRequest
<1>4. Answered(c, o) = {}
    BY <1>1 DEF Answered, Belongs, IInv, Correlated, ResponsesGenuine, GenuineResponse
<1>5. Writing(c, o) = {}
    <2> SUFFICES ASSUME NEW w \in Writing(c, o) PROVE FALSE
        OBVIOUS
    <2>1. w \in WriteThreads /\ writer[w] \in WriterStates /\ writer[w] # Idle
        BY DEF Writing, IInv, TypeOK
    <2>2. writer[w].pc # "idle"
        BY <2>1, WriterFields
    <2> QED BY <1>1, <2>1, <2>2
            DEF Writing, Belongs, IInv, Correlated, WritersGenuine, GenuineResponse
<1>6. Written(c, o) = {}
    BY DEF Written, IInv, AnswersItsRequest
<1> QED BY <1>2, <1>3, <1>4, <1>5, <1>6 DEF Nowhere

(* The stream of c keeps its id and stays accepted, or not.                *)
SameStream(c) ==
  /\ stream'[c].stream_id_ = stream[c].stream_id_
  /\ stream'[c].socket_ = "none" <=> stream[c].socket_ = "none"

(* The read loop and a failed write leave the identity of a stream alone.  *)
LEMMA FieldKeeps ==
  ASSUME TypeOK, NEW c \in Conns, NEW d \in Conns, NEW v,
         \/ stream' = [stream EXCEPT ![c].read = v]
         \/ stream' = [stream EXCEPT ![c].write = v]
  PROVE  SameStream(d)
<1>1. stream \in [Conns -> Streams] /\ stream[c] \in Streams
    BY DEF TypeOK
<1>2. CASE d # c
    BY <1>1, <1>2 DEF SameStream
<1>3. CASE d = c
    <2>1. CASE stream' = [stream EXCEPT ![c].read = v]
        BY <1>1, <1>3, <2>1 DEF SameStream, Streams
    <2>2. CASE stream' = [stream EXCEPT ![c].write = v]
        BY <1>1, <1>3, <2>2 DEF SameStream, Streams
    <2> QED BY <2>1, <2>2
<1> QED BY <1>2, <1>3

(* A place is left alone by a step that leaves its variable alone.         *)
LEMMA PlaceFrame ==
  ASSUME NEW c \in Conns, NEW o, SameStream(c)
  PROVE  /\ UNCHANGED request_queue_ => Queued(c, o)' = Queued(c, o)
         /\ UNCHANGED worker => Performing(c, o)' = Performing(c, o)
         /\ UNCHANGED response_queue_ => Answered(c, o)' = Answered(c, o)
         /\ UNCHANGED writer => Writing(c, o)' = Writing(c, o)
         /\ UNCHANGED toClient => Written(c, o)' = Written(c, o)
BY DEF SameStream, Queued, Performing, Answered, Writing, Written, Belongs

(* The places of message o of c after a step: still at most one, and one   *)
(* if there was one, unless the connection is gone.                        *)
Moved(c, o) ==
  /\ Lone(c, o) => Lone(c, o)'
  /\ Nowhere(c, o)' => Nowhere(c, o) \/ link[c] # "up"

(* A step that leaves all five places alone moves nothing.                 *)
LEMMA AllFrame ==
  ASSUME NEW c \in Conns, NEW o, Queued(c, o)' = Queued(c, o), Performing(c, o)' = Performing(c, o),
         Answered(c, o)' = Answered(c, o), Writing(c, o)' = Writing(c, o), Written(c, o)' = Written(c, o)
  PROVE  Moved(c, o)
BY DEF Moved, Lone, Nowhere

(* Accepting a connection moves no message: no request of an earlier       *)
(* stream has the id that the new stream is given.                         *)
LEMMA AcceptMoves ==
  ASSUME IInv, NEW c \in Conns, OnAccept(c), NEW d \in Conns, NEW o
  PROVE  Moved(d, o)
<1> USE DEF wireVars
<1>0. UNCHANGED <<request_queue_, worker, response_queue_, writer, toClient>>
    BY DEF OnAccept
<1>1. CASE d # c
    <2>1. SameStream(d)
        BY <1>1 DEF OnAccept, SameStream, IInv, TypeOK
    <2> QED BY <2>1, <1>0, PlaceFrame, AllFrame
<1>2. CASE d = c
    <2>1. stream[c].socket_ = "none" /\ stream'[c].stream_id_ = curr_stream_id_
        BY DEF OnAccept, IInv, TypeOK
    <2>2. \A i \in DOMAIN streams_ : i # curr_stream_id_
        BY DEF IInv, TypeOK
    <2>3. Queued(c, o) = {} /\ Queued(c, o)' = {}
        BY <1>0, <2>1, <2>2 DEF Queued, Belongs, IInv, Correlated, RequestsGenuine, GenuineRequest
    <2>4. Performing(c, o) = {} /\ Performing(c, o)' = {}
        <3>1. \A p \in Performers : worker[p] # Idle => worker[p].pc # "idle"
            BY WorkerFields DEF IInv, TypeOK
        <3> QED BY <1>0, <2>1, <2>2, <3>1
                DEF Performing, Belongs, IInv, Correlated, WorkersGenuine, GenuineRequest
    <2>5. Answered(c, o) = {} /\ Answered(c, o)' = {}
        BY <1>0, <2>1, <2>2 DEF Answered, Belongs, IInv, Correlated, ResponsesGenuine, GenuineResponse
    <2>6. Writing(c, o) = {} /\ Writing(c, o)' = {}
        <3>1. \A w \in WriteThreads : writer[w] # Idle => writer[w].pc # "idle"
            BY WriterFields DEF IInv, TypeOK
        <3> QED BY <1>0, <2>1, <2>2, <3>1
                DEF Writing, Belongs, IInv, Correlated, WritersGenuine, GenuineResponse
    <2>7. Written(c, o)' = Written(c, o)
        BY <1>0 DEF Written
    <2> QED BY <1>2, <2>3, <2>4, <2>5, <2>6, <2>7, AllFrame
<1> QED BY <1>1, <1>2

(* A message read moves from the wire into the server.                     *)
LEMMA ReadMoves ==
  ASSUME IInv, NoIdAgain, NEW c \in Conns, QueueRequest(c) \/ PerformInline(c),
         NEW d \in Conns, NEW o
  PROVE  /\ Moved(d, o)
         /\ d = c /\ o = Head(toServer[c]).object_id => ~ Nowhere(d, o)'
<1> DEFINE m == Head(toServer[c])
<1> USE DEF wireVars
<1>1. /\ MessageRead(c) /\ UNCHANGED <<response_queue_, writer, toClient>>
      /\ stream[c].socket_ # "none" /\ worker[stream[c].io] = Idle
    BY DEF QueueRequest, PerformInline, MessageRead, IInv, Correlated, StreamsEntered
<1>2. \A e \in Conns : SameStream(e)
    <2>1. CASE QueueRequest(c)
        BY <2>1, FieldKeeps DEF QueueRequest, IInv
    <2>2. CASE PerformInline(c)
        BY <2>2, FieldKeeps DEF PerformInline, IInv
    <2> QED BY <2>1, <2>2
<1>3. 1 \in DOMAIN toServer[c] /\ m = toServer[c][1]
    <2>1. toServer[c] \in Seq(RequestMessages) /\ toServer[c] # << >>
        BY <1>1 DEF IInv, TypeOK, MessageRead
    <2> QED BY <2>1
<1>4. Nowhere(c, m.object_id)
    BY <1>3, UnreadNowhere DEF NoIdAgain
<1>5. /\ RequestOf(c, m).stream_id_ = stream[c].stream_id_
      /\ RequestOf(c, m).object_id_ = m.object_id
    BY DEF RequestOf
<1>6. d # c => stream[d].stream_id_ # stream[c].stream_id_ \/ stream[d].socket_ = "none"
    BY <1>1 DEF IInv, Correlated, StreamsEntered
<1>7. RequestOf(c, m) \in DousiRequests
    <2>1. m \in RequestMessages
        BY <1>1 DEF MessageRead, IInv, TypeOK
    <2> QED BY <2>1 DEF RequestOf, IInv, TypeOK, RequestMessages, DousiRequests, Bodies, Streams
<1> HIDE DEF m
<1>8. CASE QueueRequest(c)
    <2>1. request_queue_' = Append(request_queue_, RequestOf(c, m)) /\ UNCHANGED worker
          /\ request_queue_ \in Seq(DousiRequests)
        BY <1>8 DEF QueueRequest, m, IInv, TypeOK
    <2>2. /\ DOMAIN request_queue_' = DOMAIN request_queue_ \cup {Len(request_queue_) + 1}
          /\ \A k \in DOMAIN request_queue_ : request_queue_'[k] = request_queue_[k]
          /\ request_queue_'[Len(request_queue_) + 1] = RequestOf(c, m)
        BY <1>7, <2>1, AppendKeeps
    <2>3. d # c \/ o # m.object_id => Queued(d, o)' = Queued(d, o)
        <3> SUFFICES ASSUME d # c \/ o # m.object_id, NEW k
                     PROVE  k \in Queued(d, o)' <=> k \in Queued(d, o)
            OBVIOUS
        <3>1. stream'[d].stream_id_ = stream[d].stream_id_
              /\ (stream'[d].socket_ = "none" <=> stream[d].socket_ = "none")
            BY <1>2 DEF SameStream
        <3>2. CASE k \in DOMAIN request_queue_
            BY <2>2, <3>1, <3>2 DEF Queued, Belongs
        <3>3. CASE k = Len(request_queue_) + 1
            <4>1. k \notin DOMAIN request_queue_
                BY <2>1, <3>3
            <4>2. k \notin Queued(d, o)'
                BY <1>5, <1>6, <2>2, <3>1, <3>3 DEF Queued, Belongs
            <4> QED BY <4>1, <4>2 DEF Queued
        <3> QED BY <2>2, <3>2, <3>3 DEF Queued
    <2>4. d = c /\ o = m.object_id => Queued(d, o)' = {Len(request_queue_) + 1}
        BY <1>1, <1>2, <1>4, <1>5, <2>2 DEF Queued, Belongs, Nowhere, SameStream
    <2>5. /\ Performing(d, o)' = Performing(d, o) /\ Answered(d, o)' = Answered(d, o)
          /\ Writing(d, o)' = Writing(d, o) /\ Written(d, o)' = Written(d, o)
        BY <1>1, <1>2, <2>1, PlaceFrame
    <2>6. CASE d = c /\ o = m.object_id
        BY <1>4, <2>4, <2>5, <2>6 DEF Moved, Lone, Nowhere
    <2>7. CASE d # c \/ o # m.object_id
        <3>1. Moved(d, o)
            BY <2>3, <2>5, <2>7, AllFrame
        <3> QED BY <2>7, <3>1 DEF m
    <2> QED BY <2>4, <2>6, <2>7 DEF Nowhere, m
<1>9. CASE PerformInline(c)
    <2> DEFINE t == stream[c].io
    <2>1. /\ worker' = [worker EXCEPT ![t] = [pc |-> "lookup", request |-> RequestOf(c, m)]]
          /\ UNCHANGED request_queue_
          /\ worker \in [Performers -> WorkerStates]
        BY <1>9 DEF PerformInline, m, IInv, TypeOK
    <2>2. t \in Performers /\ worker[t] = Idle
        BY <1>1 DEF IInv, TypeOK, Streams, Performers
    <2>3. /\ \A p \in Performers : p # t => worker'[p] = worker[p]
          /\ worker'[t] # Idle /\ worker'[t].request = RequestOf(c, m)
        BY <2>1, <2>2 DEF Idle
    <2> HIDE DEF t
    <2>4. d # c \/ o # m.object_id => Performing(d, o)' = Performing(d, o)
        <3> SUFFICES ASSUME d # c \/ o # m.object_id, NEW p \in Performers
                     PROVE  p \in Performing(d, o)' <=> p \in Performing(d, o)
            BY DEF Performing
        <3>1. stream'[d].stream_id_ = stream[d].stream_id_
              /\ (stream'[d].socket_ = "none" <=> stream[d].socket_ = "none")
            BY <1>2 DEF SameStream
        <3>2. CASE p = t
            BY <1>5, <1>6, <2>2, <2>3, <3>1, <3>2 DEF Performing, Belongs
        <3>3. CASE p # t
            BY <2>3, <3>1, <3>3 DEF Performing, Belongs
        <3> QED BY <3>2, <3>3
    <2>5. d = c /\ o = m.object_id => Performing(d, o)' = {t}
        BY <1>1, <1>2, <1>4, <1>5, <2>2, <2>3 DEF Performing, Belongs, Nowhere, SameStream
    <2>6. /\ Queued(d, o)' = Queued(d, o) /\ Answered(d, o)' = Answered(d, o)
          /\ Writing(d, o)' = Writing(d, o) /\ Written(d, o)' = Written(d, o)
        BY <1>1, <1>2, <2>1, PlaceFrame
    <2>7. CASE d = c /\ o = m.object_id
        BY <1>4, <2>5, <2>6, <2>7 DEF Moved, Lone, Nowhere
    <2>8. CASE d # c \/ o # m.object_id
        <3>1. Moved(d, o)
            BY <2>4, <2>6, <2>8, AllFrame
        <3> QED BY <2>8, <3>1 DEF m
    <2> QED BY <2>5, <2>7, <2>8 DEF Nowhere, m
<1> QED BY <1>8, <1>9

(* LoopToPerformRequest takes a request from the queue to its thread.      *)
LEMMA PopRequestMoves ==
  ASSUME IInv, NEW t \in WorkThreads, PopRequest(t), NEW d \in Conns, NEW o
  PROVE  Moved(d, o)
<1> USE DEF wireVars
<1>1. /\ request_queue_ \in Seq(DousiRequests) /\ request_queue_ # << >>
      /\ request_queue_' = Tail(request_queue_)
      /\ worker \in [Performers -> WorkerStates] /\ t \in Performers /\ worker[t] = Idle
      /\ worker' = [worker EXCEPT ![t] = [pc |-> "lookup", request |-> Head(request_queue_)]]
      /\ UNCHANGED <<stream, response_queue_, writer, toClient>>
    BY DEF PopRequest, IInv, TypeOK, Performers
<1>2. SameStream(d)
    BY <1>1 DEF SameStream
<1>3. \A k : k \in Queued(d, o)' => k \in Nat /\ k >= 1 /\ k + 1 \in Queued(d, o)
    <2> SUFFICES ASSUME NEW k \in Queued(d, o)' PROVE k \in Nat /\ k >= 1 /\ k + 1 \in Queued(d, o)
        OBVIOUS
    <2>1. k \in DOMAIN Tail(request_queue_)
        BY <1>1 DEF Queued
    <2>2. k \in Nat /\ k >= 1
        BY <1>1, <2>1
    <2>3. k + 1 \in DOMAIN request_queue_ /\ Tail(request_queue_)[k] = request_queue_[k + 1]
        BY <1>1, <2>1, TailShifts
    <2> QED BY <1>1, <2>2, <2>3 DEF Queued, Belongs
<1>4. \A k \in Queued(d, o) : k \in Nat /\ (k = 1 \/ k - 1 \in Queued(d, o)')
    <2> SUFFICES ASSUME NEW k \in Queued(d, o) PROVE k \in Nat /\ (k = 1 \/ k - 1 \in Queued(d, o)')
        OBVIOUS
    <2>1. k \in DOMAIN request_queue_ /\ k \in Nat
        BY <1>1 DEF Queued
    <2>2. CASE k # 1
        <3>1. k - 1 \in DOMAIN Tail(request_queue_) /\ Tail(request_queue_)[k - 1] = request_queue_[k]
            BY <1>1, <2>1, <2>2
        <3> QED BY <1>1, <2>1, <3>1 DEF Queued, Belongs
    <2> QED BY <2>1, <2>2
<1>5. \A p : p \in Performing(d, o)' <=> p \in Performing(d, o) \/ (p = t /\ 1 \in Queued(d, o))
    <2>1. worker'[t] # Idle /\ worker'[t].request = Head(request_queue_)
        BY <1>1 DEF Idle
    <2>2. \A p \in Performers : p # t => worker'[p] = worker[p]
        BY <1>1
    <2>3. 1 \in DOMAIN request_queue_ /\ Head(request_queue_) = request_queue_[1]
        BY <1>1, TailShifts
    <2> QED BY <1>1, <2>1, <2>2, <2>3 DEF Performing, Queued, Belongs
<1>6. Answered(d, o)' = Answered(d, o) /\ Writing(d, o)' = Writing(d, o) /\ Written(d, o)' = Written(d, o)
    BY <1>1, <1>2, PlaceFrame
<1>7. Nowhere(d, o)' => Nowhere(d, o)
    BY <1>4, <1>5, <1>6 DEF Nowhere
<1>8. ASSUME Lone(d, o) PROVE Lone(d, o)'
    <2>1. \A x, y \in Queued(d, o)' : x = y
        <3> SUFFICES ASSUME NEW x \in Queued(d, o)', NEW y \in Queued(d, o)' PROVE x = y
            OBVIOUS
        <3>1. x + 1 = y + 1 /\ x \in Nat /\ y \in Nat
            BY <1>3, <1>8 DEF Lone
        <3> QED BY <3>1
    <2>2. Queued(d, o)' # {} => Performing(d, o)' = {} /\ 1 \notin Queued(d, o) /\ Queued(d, o) # {}
        <3> SUFFICES ASSUME NEW x \in Queued(d, o)'
                     PROVE  Performing(d, o)' = {} /\ 1 \notin Queued(d, o) /\ Queued(d, o) # {}
            OBVIOUS
        <3>1. x \in Nat /\ x >= 1 /\ x + 1 \in Queued(d, o)
            BY <1>3
        <3>2. 1 \notin Queued(d, o)
            <4> SUFFICES ASSUME 1 \in Queued(d, o) PROVE FALSE
                OBVIOUS
            <4>1. x + 1 = 1
                BY <1>8, <3>1 DEF Lone
            <4> QED BY <3>1, <4>1
        <3> QED BY <1>5, <1>8, <3>1, <3>2 DEF Lone
    <2> QED BY <1>5, <1>6, <1>8, <2>1, <2>2 DEF Lone
<1> QED BY <1>7, <1>8 DEF Moved

(* The end of PerformRequest passes a request on as its response.          *)
LEMMA PushMoves ==
  ASSUME IInv, NEW t \in Performers, PushResponse(t), NEW d \in Conns, NEW o, SameStream(d)
  PROVE  Moved(d, o)
<1> USE DEF wireVars
<1> DEFINE r == ResponseOf(worker[t])
           n == Len(response_queue_) + 1
<1>1. /\ response_queue_ \in Seq(DousiResponses)
      /\ response_queue_' = Append(response_queue_, r)
      /\ worker \in [Performers -> WorkerStates] /\ worker[t] # Idle
      /\ worker' = [worker EXCEPT ![t] = Idle]
      /\ UNCHANGED <<request_queue_, writer, toClient>>
    BY DEF PushResponse, IInv, TypeOK, Idle
<1>2. r \in DousiResponses
    <2>1. worker[t].request \in DousiRequests /\ worker[t].method \in Services
        BY <1>1, WorkerFields DEF PushResponse
    <2> QED BY <2>1, ResultType DEF ResponseOf, DousiRequests, DousiResponses
<1>3. r.stream_id_ = worker[t].request.stream_id_ /\ r.object_id_ = worker[t].request.object_id_
    BY DEF ResponseOf
<1> HIDE DEF r
<1>4. /\ DOMAIN response_queue_' = DOMAIN response_queue_ \cup {n}
      /\ \A k \in DOMAIN response_queue_ : response_queue_'[k] = response_queue_[k]
      /\ response_queue_'[n] = r /\ n \notin DOMAIN response_queue_
    <2>1. n \notin DOMAIN response_queue_
        BY <1>1
    <2> QED BY <1>1, <1>2, <2>1, AppendKeeps
<1> HIDE DEF n
<1>5. \A k : k \in Answered(d, o)' <=> k \in Answered(d, o) \/ (k = n /\ t \in Performing(d, o))
    BY <1>1, <1>3, <1>4 DEF Answered, Performing, Belongs, SameStream
<1>6. \A p : p \in Performing(d, o)' <=> p \in Performing(d, o) /\ p # t
    BY <1>1 DEF Performing, Belongs, SameStream
<1>7. Queued(d, o)' = Queued(d, o) /\ Writing(d, o)' = Writing(d, o) /\ Written(d, o)' = Written(d, o)
    BY <1>1, PlaceFrame
<1> QED BY <1>5, <1>6, <1>7 DEF Moved, Lone, Nowhere

(* LookupMethod and CallMethod keep the request of their thread.           *)
LEMMA PerformMoves ==
  ASSUME IInv, NEW t \in Performers, LookupMethod(t) \/ CallMethod(t), NEW d \in Conns, NEW o
  PROVE  Moved(d, o)
<1> USE DEF wireVars
<1>1. /\ \A p \in Performers : p # t => worker'[p] = worker[p]
      /\ worker[t] # Idle /\ worker'[t] # Idle /\ worker'[t].request = worker[t].request
      /\ UNCHANGED <<stream, request_queue_, response_queue_, writer, toClient>>
    <2>1. CASE LookupMethod(t)
        BY <2>1 DEF LookupMethod, IInv, TypeOK, Idle
    <2>2. CASE CallMethod(t)
        BY <2>2 DEF CallMethod, IInv, TypeOK, Idle
    <2> QED BY <2>1, <2>2
<1>2. Performing(d, o)' = Performing(d, o)
    BY <1>1 DEF Performing, Belongs
<1>3. SameStream(d)
    BY <1>1 DEF SameStream
<1> QED BY <1>1, <1>2, <1>3, PlaceFrame, AllFrame

(* LoopToWriteResponse takes a response from the queue to its thread.      *)
LEMMA PopResponseMoves ==
  ASSUME IInv, NEW t \in WriteThreads, PopResponse(t), NEW d \in Conns, NEW o
  PROVE  Moved(d, o)
<1> USE DEF wireVars
<1>1. /\ response_queue_ \in Seq(DousiResponses) /\ response_queue_ # << >>
      /\ response_queue_' = Tail(response_queue_)
      /\ writer \in [WriteThreads -> WriterStates] /\ writer[t] = Idle
      /\ writer' = [writer EXCEPT ![t] = [pc |-> "find", response |-> Head(response_queue_)]]
      /\ UNCHANGED <<stream, request_queue_, worker, toClient>>
    BY DEF PopResponse, IInv, TypeOK
<1>2. SameStream(d)
    BY <1>1 DEF SameStream
<1>3. \A k : k \in Answered(d, o)' => k \in Nat /\ k >= 1 /\ k + 1 \in Answered(d, o)
    <2> SUFFICES ASSUME NEW k \in Answered(d, o)'
                 PROVE  k \in Nat /\ k >= 1 /\ k + 1 \in Answered(d, o)
        OBVIOUS
    <2>1. k \in DOMAIN Tail(response_queue_)
        BY <1>1 DEF Answered
    <2>2. k \in Nat /\ k >= 1
        BY <1>1, <2>1
    <2>3. k + 1 \in DOMAIN response_queue_ /\ Tail(response_queue_)[k] = response_queue_[k + 1]
        BY <1>1, <2>1, TailShifts
    <2> QED BY <1>1, <2>2, <2>3 DEF Answered, Belongs
<1>4. \A k \in Answered(d, o) : k \in Nat /\ (k = 1 \/ k - 1 \in Answered(d, o)')
    <2> SUFFICES ASSUME NEW k \in Answered(d, o)
                 PROVE  k \in Nat /\ (k = 1 \/ k - 1 \in Answered(d, o)')
        OBVIOUS
    <2>1. k \in DOMAIN response_queue_ /\ k \in Nat
        BY <1>1 DEF Answered
    <2>2. CASE k # 1
        <3>1. /\ k - 1 \in DOMAIN Tail(response_queue_)
              /\ Tail(response_queue_)[k - 1] = response_queue_[k]
            BY <1>1, <2>1, <2>2
        <3> QED BY <1>1, <2>1, <3>1 DEF Answered, Belongs
    <2> QED BY <2>1, <2>2
<1>5. \A w : w \in Writing(d, o)' <=> w \in Writing(d, o) \/ (w = t /\ 1 \in Answered(d, o))
    <2>1. writer'[t] # Idle /\ writer'[t].response = Head(response_queue_)
        BY <1>1 DEF Idle
    <2>2. \A w \in WriteThreads : w # t => writer'[w] = writer[w]
        BY <1>1
    <2>3. 1 \in DOMAIN response_queue_ /\ Head(response_queue_) = response_queue_[1]
        BY <1>1, TailShifts
    <2> QED BY <1>1, <2>1, <2>2, <2>3 DEF Writing, Answered, Belongs
<1>6. Queued(d, o)' = Queued(d, o) /\ Performing(d, o)' = Performing(d, o) /\ Written(d, o)' = Written(d, o)
    BY <1>1, <1>2, PlaceFrame
<1>7. Nowhere(d, o)' => Nowhere(d, o)
    BY <1>4, <1>5, <1>6 DEF Nowhere
<1>8. ASSUME Lone(d, o) PROVE Lone(d, o)'
    <2>1. \A x, y \in Answered(d, o)' : x = y
        <3> SUFFICES ASSUME NEW x \in Answered(d, o)', NEW y \in Answered(d, o)' PROVE x = y
            OBVIOUS
        <3>1. x + 1 = y + 1 /\ x \in Nat /\ y \in Nat
            BY <1>3, <1>8 DEF Lone
        <3> QED BY <3>1
    <2>2. Answered(d, o)' # {} => Writing(d, o)' = {} /\ 1 \notin Answered(d, o) /\ Answered(d, o) # {}
        <3> SUFFICES ASSUME NEW x \in Answered(d, o)'
                     PROVE  Writing(d, o)' = {} /\ 1 \notin Answered(d, o) /\ Answered(d, o) # {}
            OBVIOUS
        <3>1. x \in Nat /\ x >= 1 /\ x + 1 \in Answered(d, o)
            BY <1>3
        <3>2. 1 \notin Answered(d, o)
            <4> SUFFICES ASSUME 1 \in Answered(d, o) PROVE FALSE
                OBVIOUS
            <4>1. x + 1 = 1
                BY <1>8, <3>1 DEF Lone
            <4> QED BY <3>1, <4>1
        <3> QED BY <1>5, <1>8, <3>1, <3>2 DEF Lone
    <2> QED BY <1>5, <1>6, <1>8, <2>1, <2>2 DEF Lone
<1> QED BY <1>7, <1>8 DEF Moved

(* FindStream keeps the response of its thread.                            *)
LEMMA FindMoves ==
  ASSUME IInv, NEW t \in WriteThreads, FindStream(t), NEW d \in Conns, NEW o
  PROVE  Moved(d, o)
<1> USE DEF wireVars
<1>1. /\ \A w \in WriteThreads : w # t => writer'[w] = writer[w]
      /\ writer[t] # Idle /\ writer'[t] # Idle /\ writer'[t].response = writer[t].response
      /\ UNCHANGED <<stream, request_queue_, response_queue_, worker, toClient>>
    BY DEF FindStream, IInv, TypeOK, Idle
<1>2. Writing(d, o)' = Writing(d, o)
    BY <1>1 DEF Writing, Belongs
<1>3. SameStream(d)
    BY <1>1 DEF SameStream
<1> QED BY <1>1, <1>2, <1>3, PlaceFrame, AllFrame

(* AsioStream::Write puts the response on its connection.                  *)
LEMMA WriteMoves ==
  ASSUME IInv, OwnEntry, NEW t \in WriteThreads, WriteResponse(t), NEW d \in Conns, NEW o
  PROVE  Moved(d, o)
<1> USE DEF wireVars
<1> DEFINE c == writer[t].stream
           r == writer[t].response
           m == [object_id |-> r.object_id_, data |-> r.result_]
           n == Len(toClient[c]) + 1
<1>1. /\ writer \in [WriteThreads -> WriterStates] /\ writer[t] # Idle
      /\ writer' = [writer EXCEPT ![t] = Idle]
      /\ toClient' = [toClient EXCEPT ![c] = Append(@, m)]
      /\ UNCHANGED <<stream, request_queue_, worker, response_queue_>>
    BY DEF WriteResponse, IInv, TypeOK, Idle
<1>2. c \in Conns /\ r \in DousiResponses
    BY <1>1, WriterFields DEF WriteResponse
<1>3. m \in ResponseMessages /\ m.object_id = r.object_id_
    BY <1>2 DEF DousiResponses, ResponseMessages
<1>4. r.stream_id_ \in DOMAIN streams_ /\ c = streams_[r.stream_id_]
    BY DEF WriteResponse, IInv, Correlated, WritersGenuine, GenuineResponse
<1>5. t \in Writing(d, o) <=> d = c /\ r.object_id_ = o
    <2>1. \A e \in Conns : stream[e].socket_ # "none" /\ r.stream_id_ = stream[e].stream_id_ => e = c
        BY <1>4 DEF IInv, Correlated, StreamsEntered
    <2>2. stream[c].socket_ # "none"
        BY <1>4 DEF IInv, Correlated, StreamsEntered
    <2>3. r.stream_id_ = stream[c].stream_id_
        BY <1>4 DEF OwnEntry
    <2> QED BY <1>1, <2>1, <2>2, <2>3 DEF Writing, Belongs
<1> HIDE DEF c, r, m
<1>6. toClient'[c] = Append(toClient[c], m) /\ toClient[c] \in Seq(ResponseMessages)
      /\ (d # c => toClient'[d] = toClient[d])
    BY <1>1, <1>2 DEF IInv, TypeOK
<1>7. /\ DOMAIN toClient'[c] = DOMAIN toClient[c] \cup {n}
      /\ \A k \in DOMAIN toClient[c] : toClient'[c][k] = toClient[c][k]
      /\ toClient'[c][n] = m
    BY <1>3, <1>6, AppendKeeps
<1>8. n \notin DOMAIN toClient[c]
    BY <1>6
<1> HIDE DEF n
<1>9. \A k : k \in Written(d, o)' <=> k \in Written(d, o) \/ (k = n /\ t \in Writing(d, o))
    BY <1>3, <1>5, <1>6, <1>7, <1>8 DEF Written
<1>10. \A w : w \in Writing(d, o)' <=> w \in Writing(d, o) /\ w # t
    BY <1>1 DEF Writing, Belongs
<1>11. SameStream(d)
    BY <1>1 DEF SameStream
<1>12. Queued(d, o)' = Queued(d, o) /\ Performing(d, o)' = Performing(d, o) /\ Answered(d, o)' = Answered(d, o)
    BY <1>1, <1>11, PlaceFrame
<1> QED BY <1>9, <1>10, <1>12 DEF Moved, Lone, Nowhere

(* AsioStream::Write on a connection that is gone drops the response.      *)
LEMMA LoseMoves ==
  ASSUME IInv, OwnEntry, ClosedIsCut, NEW t \in WriteThreads, LoseResponse(t), NEW d \in Conns, NEW o
  PROVE  Moved(d, o)
<1> USE DEF wireVars
<1> DEFINE c == writer[t].stream
<1>1. /\ writer \in [WriteThreads -> WriterStates] /\ writer[t] # Idle
      /\ writer' = [writer EXCEPT ![t] = Idle]
      /\ UNCHANGED <<request_queue_, worker, response_queue_, toClient>>
      /\ stream' = stream \/ stream' = [stream EXCEPT ![c].write = "failed"]
    BY DEF LoseResponse, IInv, TypeOK, Idle
<1>2. SameStream(d)
    <2>1. c \in Conns
        BY <1>1, WriterFields DEF LoseResponse
    <2>2. CASE stream' = stream
        BY <2>2 DEF SameStream
    <2> QED BY <1>1, <2>1, <2>2, FieldKeeps DEF IInv
<1>3. t \in Writing(d, o) => link[d] # "up"
    <2>1. c \in Conns /\ c = streams_[writer[t].response.stream_id_]
        BY <1>1, WriterFields DEF LoseResponse, IInv, Correlated, WritersGenuine
    <2>2. link[c] = "cut"
        BY <2>1 DEF LoseResponse, ClosedIsCut
    <2>3. t \in Writing(d, o) => d = c
        BY <2>1 DEF Writing, Belongs, IInv, Correlated, StreamsEntered
    <2> QED BY <2>2, <2>3
<1>4. \A w : w \in Writing(d, o)' <=> w \in Writing(d, o) /\ w # t
    BY <1>1, <1>2 DEF Writing, Belongs, SameStream
<1>5. Queued(d, o)' = Queued(d, o) /\ Performing(d, o)' = Performing(d, o)
      /\ Answered(d, o)' = Answered(d, o) /\ Written(d, o)' = Written(d, o)
    BY <1>1, <1>2, PlaceFrame
<1> QED BY <1>3, <1>4, <1>5 DEF Moved, Lone, Nowhere

(* No step puts a message in two places or loses it.                       *)
LEMMA StepMoves ==
  ASSUME IInv, NoIdAgain, OwnEntry, ClosedIsCut, ExecNext, NEW d \in Conns, NEW o
  PROVE  Moved(d, o)
<1> USE DEF wireVars, mainVars, acceptVars, setupVars, history
<1>1. ASSUME SameStream(d), UNCHANGED <<request_queue_, worker, response_queue_, writer, toClient>>
      PROVE  Moved(d, o)
    BY <1>1, PlaceFrame, AllFrame
<1>2. UNCHANGED stream => SameStream(d)
    BY DEF SameStream
<1>3. ASSUME NEW s, NEW m, RegisterMethod(s, m) \/ Loop \/ OnAcceptError PROVE Moved(d, o)
    BY <1>1, <1>2, <1>3 DEF RegisterMethod, Loop, OnAcceptError
<1>4. ASSUME NEW c \in Conns, ReadFails(c) PROVE Moved(d, o)
    <2>1. SameStream(d)
        BY <1>4 DEF ReadFails, SameStream, IInv, TypeOK, Streams
    <2> QED BY <1>1, <1>4, <2>1 DEF ReadFails
<1>5. ASSUME NEW c \in Conns, OnWriteError(c) PROVE Moved(d, o)
    <2>1. stream[c].socket_ # "none"
        BY <1>5 DEF OnWriteError, IInv, Correlated, StreamsEntered
    <2>2. SameStream(d)
        BY <1>5, <2>1, WriteErrorCloses DEF SameStream, IInv, TypeOK
    <2> QED BY <1>1, <1>5, <2>2 DEF OnWriteError
<1>6. ASSUME NEW p, CallEmptyFunction(p) PROVE Moved(d, o)
    BY <1>1, <1>2, <1>6 DEF CallEmptyFunction
<1>7. ASSUME NEW t \in WorkThreads, FinishRequest(t) PROVE Moved(d, o)
    BY <1>2, <1>7, PushMoves DEF FinishRequest, Performers
<1>8. ASSUME NEW i \in IoThreads, NEW c \in Conns, FinishInline(i, c) PROVE Moved(d, o)
    <2>1. SameStream(d)
        BY <1>8 DEF FinishInline, SameStream, IInv, TypeOK, Streams
    <2> QED BY <1>8, <2>1, PushMoves DEF FinishInline, Performers
<1>9. WorkThreads \subseteq Performers /\ IoThreads \subseteq Performers
    BY DEF Performers
<1> QED
    BY <1>3, <1>4, <1>5, <1>6, <1>7, <1>8, <1>9, AcceptMoves, ReadMoves, PopRequestMoves,
       PerformMoves, PopResponseMoves, FindMoves, WriteMoves, LoseMoves
    DEF ExecNext, MainNext, IoNext, WorkNext, InlineNext, WriteNext, PerformNext

-----------------------------------------------------------------------------
(* No step gives an entry of streams_ to another stream.                   *)
LEMMA EntriesStep ==
  ASSUME IInv, OwnEntry, ExecNext
  PROVE  OwnEntry'
<1> USE DEF wireVars, mainVars, acceptVars, setupVars, history
<1>1. ASSUME UNCHANGED streams_, \A d \in Conns : SameStream(d) PROVE OwnEntry'
    BY <1>1 DEF OwnEntry, SameStream, IInv, TypeOK
<1>2. UNCHANGED stream => \A d \in Conns : SameStream(d)
    BY DEF SameStream
<1>3. ASSUME NEW c \in Conns, OnAccept(c) PROVE OwnEntry'
    <2> SUFFICES ASSUME NEW i \in DOMAIN streams_' PROVE stream'[streams_'[i]].stream_id_ = i
        BY DEF OwnEntry
    <2>1. CASE i = curr_stream_id_
        BY <1>3, <2>1 DEF OnAccept, IInv, TypeOK
    <2>2. CASE i # curr_stream_id_
        <3>1. i \in DOMAIN streams_ /\ streams_'[i] = streams_[i] /\ streams_[i] \in Conns
            BY <1>3, <2>2 DEF OnAccept, IInv, TypeOK
        <3>2. streams_[i] # c
            BY <1>3, <3>1 DEF OnAccept, IInv, Correlated, StreamsEntered
        <3>3. stream'[streams_[i]] = stream[streams_[i]]
            BY <1>3, <3>1, <3>2 DEF OnAccept, IInv, TypeOK
        <3> QED BY <3>1, <3>3 DEF OwnEntry
    <2> QED BY <2>1, <2>2
<1>4. ASSUME NEW c \in Conns, QueueRequest(c) \/ PerformInline(c) \/ ReadFails(c) PROVE OwnEntry'
    <2>1. UNCHANGED streams_ /\ (stream' = stream \/ \E v : stream' = [stream EXCEPT ![c].read = v])
        BY <1>4 DEF QueueRequest, PerformInline, ReadFails
    <2> QED BY <1>1, <1>2, <2>1, FieldKeeps DEF IInv
<1>5. ASSUME NEW c \in Conns, OnWriteError(c) PROVE OwnEntry'
    <2>1. stream[c].socket_ # "none"
        BY <1>5 DEF OnWriteError, IInv, Correlated, StreamsEntered
    <2>2. \A d \in Conns : SameStream(d)
        BY <1>5, <2>1, WriteErrorCloses DEF SameStream, IInv, TypeOK
    <2> QED BY <1>1, <1>5, <2>2 DEF OnWriteError
<1>6. ASSUME NEW i \in IoThreads, NEW c \in Conns, FinishInline(i, c) PROVE OwnEntry'
    <2>1. UNCHANGED streams_ /\ \E v : stream' = [stream EXCEPT ![c].read = v]
        BY <1>6 DEF FinishInline, PushResponse
    <2> QED BY <1>1, <2>1, FieldKeeps DEF IInv
<1>7. ASSUME NEW w \in WriteThreads, LoseResponse(w) PROVE OwnEntry'
    <2>1. writer[w].stream \in Conns
        BY <1>7, WriterFields DEF LoseResponse, IInv, TypeOK
    <2>2. UNCHANGED streams_
          /\ (stream' = stream \/ \E v : stream' = [stream EXCEPT ![writer[w].stream].write = v])
        BY <1>7 DEF LoseResponse
    <2> QED BY <1>1, <1>2, <2>1, <2>2, FieldKeeps DEF IInv
<1>8. ASSUME NEW s, NEW m, RegisterMethod(s, m) \/ Loop \/ OnAcceptError
      PROVE  UNCHANGED <<streams_, stream>>
    BY <1>8 DEF RegisterMethod, Loop, OnAcceptError
<1>9. ASSUME NEW t, WorkNext(t) \/ PerformNext(t) PROVE UNCHANGED <<streams_, stream>>
    BY <1>9 DEF WorkNext, PerformNext, PopRequest, LookupMethod, CallMethod, CallEmptyFunction,
        FinishRequest, PushResponse
<1>10. ASSUME NEW w, PopResponse(w) \/ FindStream(w) \/ WriteResponse(w) PROVE UNCHANGED <<streams_, stream>>
    BY <1>10 DEF PopResponse, FindStream, WriteResponse
<1> QED
    BY <1>1, <1>2, <1>3, <1>4, <1>5, <1>6, <1>7, <1>8, <1>9, <1>10
    DEF ExecNext, MainNext, IoNext, InlineNext, WriteNext

(* A socket is only closed after a failed write on a lost connection.      *)
LEMMA ClosedStep ==
  ASSUME IInv, ClosedIsCut, ExecNext
  PROVE  ClosedIsCut'
<1> USE DEF wireVars, mainVars, acceptVars, setupVars, history
<1>a. stream \in [Conns -> Streams] /\ link \in [Conns -> {"none", "up", "cut"}]
    BY DEF IInv, TypeOK
<1>1. ASSUME \A c \in Conns : link[c] = "cut" => link'[c] = "cut",
             \A c \in Conns : stream'[c].write = "failed" \/ stream'[c].socket_ = "closed"
               => stream[c].write = "failed" \/ stream[c].socket_ = "closed" \/ link[c] = "cut"
      PROVE  ClosedIsCut'
    BY <1>1 DEF ClosedIsCut
<1>2. CASE UNCHANGED <<stream, link>>
    BY <1>2 DEF ClosedIsCut
<1>3. ASSUME NEW c \in Conns, OnAccept(c) PROVE ClosedIsCut'
    BY <1>1, <1>3, <1>a DEF OnAccept
<1>4. ASSUME NEW c \in Conns, NEW v, stream' = [stream EXCEPT ![c].read = v], UNCHANGED link
      PROVE  ClosedIsCut'
    <2>1. \A d \in Conns : stream'[d].write = stream[d].write /\ stream'[d].socket_ = stream[d].socket_
        BY <1>4, <1>a DEF Streams
    <2> QED BY <1>1, <1>4, <2>1
<1>5. ASSUME NEW c \in Conns, OnWriteError(c) PROVE ClosedIsCut'
    <2>1. \A d \in Conns : d # c => stream'[d] = stream[d]
        BY <1>5, <1>a, WriteErrorCloses
    <2>2. stream[c].write = "failed" /\ UNCHANGED link
        BY <1>5 DEF OnWriteError
    <2> QED BY <1>1, <2>1, <2>2
<1>6. ASSUME NEW w \in WriteThreads, LoseResponse(w) PROVE ClosedIsCut'
    <2> DEFINE c == writer[w].stream
    <2>1. c \in Conns /\ UNCHANGED link /\ (link[c] = "cut" \/ stream[c].socket_ = "closed")
        BY <1>6, WriterFields DEF LoseResponse, IInv, TypeOK
    <2>2. CASE UNCHANGED stream
        BY <1>2, <2>1, <2>2
    <2>3. CASE stream' = [stream EXCEPT ![c].write = "failed"]
        <3>1. \A d \in Conns : d # c => stream'[d] = stream[d]
            BY <1>a, <2>1, <2>3
        <3> QED BY <1>1, <2>1, <3>1
    <2> QED BY <1>6, <2>2, <2>3 DEF LoseResponse
<1>7. ASSUME NEW p, CallEmptyFunction(p) PROVE ClosedIsCut'
    BY <1>1, <1>7, <1>a DEF CallEmptyFunction
<1>8. ASSUME NEW c \in Conns, QueueRequest(c) \/ PerformInline(c) \/ ReadFails(c)
      PROVE  UNCHANGED link /\ \E v : stream' = [stream EXCEPT ![c].read = v]
    BY <1>8 DEF QueueRequest, PerformInline, ReadFails
<1>9. ASSUME NEW i, NEW c \in Conns, FinishInline(i, c)
       PROVE  UNCHANGED link /\ \E v : stream' = [stream EXCEPT ![c].read = v]
    BY <1>9 DEF FinishInline, PushResponse
<1>10. ASSUME NEW s, NEW m, RegisterMethod(s, m) \/ Loop \/ OnAcceptError
       PROVE  UNCHANGED <<stream, link>>
    BY <1>10 DEF RegisterMethod, Loop, OnAcceptError
<1>11. ASSUME NEW t, PopRequest(t) \/ LookupMethod(t) \/ CallMethod(t) \/ FinishRequest(t)
       PROVE UNCHANGED <<stream, link>>
    BY <1>11 DEF PopRequest, LookupMethod, CallMethod, FinishRequest, PushResponse
<1>12. ASSUME NEW w, PopResponse(w) \/ FindStream(w) \/ WriteResponse(w) PROVE UNCHANGED <<stream, link>>
    BY <1>12 DEF PopResponse, FindStream, WriteResponse
<1> QED
    BY <1>2, <1>3, <1>4, <1>5, <1>6, <1>7, <1>8, <1>9, <1>10, <1>11, <1>12
    DEF ExecNext, MainNext, IoNext, WorkNext, InlineNext, WriteNext, PerformNext

(* How a step of the server changes the wire.                              *)
LEMMA WireSteps ==
  ASSUME IInv, ExecNext
  PROVE  /\ \A c \in Conns : link'[c] = "up" => link[c] = "up"
         /\ \A c \in Conns : link'[c] = "none" <=> link[c] = "none"
         /\ running' => running
         /\ \/ UNCHANGED <<received, toServer>>
            \/ \E c \in Conns : QueueRequest(c) \/ PerformInline(c)
<1> USE DEF wireVars, mainVars, acceptVars, setupVars, history
<1> DEFINE Goal == /\ \A c \in Conns : link'[c] = "up" => link[c] = "up"
                   /\ \A c \in Conns : link'[c] = "none" <=> link[c] = "none"
                   /\ running' => running
                   /\ \/ UNCHANGED <<received, toServer>>
                      \/ \E c \in Conns : QueueRequest(c) \/ PerformInline(c)
<1>1. ASSUME UNCHANGED <<link, toServer, running, received>> PROVE Goal
    BY <1>1
<1>2. ASSUME NEW c \in Conns, QueueRequest(c) \/ PerformInline(c) PROVE Goal
    <2>1. UNCHANGED <<link, running>>
        BY <1>2 DEF QueueRequest, PerformInline, MessageRead
    <2> QED BY <1>2, <2>1
<1>3. ASSUME NEW p, CallEmptyFunction(p) PROVE Goal
    BY <1>3 DEF CallEmptyFunction
<1>4. ASSUME NEW s, NEW m, RegisterMethod(s, m) \/ Loop \/ OnAcceptError \/ OnAccept(s)
             \/ ReadFails(s) \/ OnWriteError(s)
      PROVE  UNCHANGED <<link, toServer, running, received>>
    BY <1>4 DEF RegisterMethod, Loop, OnAcceptError, OnAccept, ReadFails, OnWriteError
<1>5. ASSUME NEW t, NEW c, PopRequest(t) \/ LookupMethod(t) \/ CallMethod(t) \/ FinishRequest(t) \/ FinishInline(t, c)
      PROVE UNCHANGED <<link, toServer, running, received>>
    BY <1>5 DEF PopRequest, LookupMethod, CallMethod, FinishRequest, FinishInline, PushResponse
<1>6. ASSUME NEW w, WriteNext(w) PROVE UNCHANGED <<link, toServer, running, received>>
    BY <1>6 DEF WriteNext, PopResponse, FindStream, WriteResponse, LoseResponse
<1> HIDE DEF Goal
<1>7. Goal
    BY <1>1, <1>2, <1>3, <1>4, <1>5, <1>6
    DEF ExecNext, MainNext, IoNext, WorkNext, InlineNext, PerformNext
<1> QED BY <1>7 DEF Goal
=============================================================================
