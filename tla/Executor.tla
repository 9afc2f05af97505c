------------------------------ MODULE Executor ------------------------------
(***************************************************************************)
(* The server side of dousi: Executor (core/executor/executor.h and .cc),  *)
(* with the AsioStream object it keeps for each accepted connection and    *)
(* the IOThreadPool it takes io threads from.                              *)
(*                                                                         *)
(* Threads and their code:                                                 *)
(*   main          RegisterMethod ..., then Loop: DoAccept on io_service_  *)
(*   io threads    the read loop and the write completions of the streams  *)
(*                 bound to them; InvokeMethod runs here                   *)
(*   WorkThreads   LoopToPerformRequest                                    *)
(*   WriteThreads  LoopToWriteResponse                                     *)
(*                                                                         *)
(* The module is open: it shares the variables of Wire with the clients,   *)
(* whose steps come from ExecutorEnv (arbitrary well-formed clients) or    *)
(* from Rpc (the dousi client).                                            *)
(***************************************************************************)
EXTENDS Wire

CONSTANTS
  WorkThreads,    \* work_thread_pool_; {} means work_thread_num_ = 0
  WriteThreads,   \* write_thread_pool_
  IoThreadNum,    \* io_thread_num_
  Offered,        \* the <<service, method>> pairs the program registers
  NoKey,          \* "registered_methods_ has no such key"
  EmptyFunction   \* a default-constructed std::function

ASSUME IoAssumption == IoThreadNum \in Nat \ {0}
ASSUME OfferedAssumption == Offered \subseteq Services \X Methods
ASSUME FunctionAssumption == NoKey \notin Services /\ EmptyFunction \notin Services
ASSUME KeyAssumption == NoKey # EmptyFunction

VARIABLES
  main,                \* "setup" until Loop is called
  to_register,         \* the RegisterMethod calls main still has to make
  registered_methods_, \* method name -> the service it was registered for
  curr_stream_id_,     \* next stream id
  next_index_,         \* IOThreadPool::next_index_
  accept_io,           \* io thread of the socket of the pending async_accept
  streams_,            \* stream id -> stream object (named by its connection)
  stream,              \* the AsioStream object of each connection
  request_queue_,
  response_queue_,
  worker,              \* local state of the threads that perform requests
  writer,              \* local state of the write threads
  running,             \* FALSE once std::terminate has ended the process
  received,            \* history: messages read from each connection
  performed            \* history: method bodies in the order they were run

setupVars  == <<main, to_register>>
acceptVars == <<curr_stream_id_, next_index_, accept_io, streams_>>
mainVars   == <<setupVars, registered_methods_, acceptVars>>
history    == <<received, performed>>
execVars   == <<main, to_register, registered_methods_, curr_stream_id_,
                next_index_, accept_io, streams_, stream, request_queue_,
                response_queue_, worker, writer, running, received, performed>>

-----------------------------------------------------------------------------
IoThreads  == 0 .. IoThreadNum - 1
Performers == WorkThreads \cup IoThreads

DousiRequests  == [object_id_ : ObjectIds, stream_id_ : Nat,
                   unpacked_ : Bodies, method_name_ : Methods]
DousiResponses == [object_id_ : ObjectIds, stream_id_ : Nat,
                   result_ : Seq(Values)]

Callables == Services \cup {EmptyFunction}

(* AsioStream: its id, the io thread of its socket, whether the socket is  *)
(* open, how far the read loop is (a read is "completed" if its handler    *)
(* waits to run on a socket that has been closed since), and whether the   *)
(* completion of a failed write is waiting to run.                         *)
Streams == [stream_id_ : Nat, io : IoThreads,
            socket_ : {"none", "open", "closed"},
            read : {"none", "pending", "completed", "callback", "ended"},
            write : {"ok", "failed"}]

Idle == [pc |-> "idle"]

WorkerStates == {Idle} \cup [pc : {"lookup"}, request : DousiRequests]
  \cup [pc : {"invoke"}, request : DousiRequests, method : Callables]
  \cup [pc : {"respond"}, request : DousiRequests, method : Services]

WriterStates == {Idle} \cup [pc : {"find"}, response : DousiResponses]
  \cup [pc : {"write"}, response : DousiResponses, stream : Conns]

ExecInit ==
  /\ main = "setup"
  /\ to_register = Offered
  /\ registered_methods_ = [m \in Methods |-> NoKey]
  /\ curr_stream_id_ = 0
  /\ next_index_ = 0
  /\ accept_io = 0
  /\ streams_ = [i \in {} |-> {}]
  /\ stream = [c \in Conns |-> [stream_id_ |-> 0, io |-> 0, socket_ |-> "none",
                                read |-> "none", write |-> "ok"]]
  /\ request_queue_ = << >>
  /\ response_queue_ = << >>
  /\ worker = [p \in Performers |-> Idle]
  /\ writer = [w \in WriteThreads |-> Idle]
  /\ running = TRUE
  /\ received = [c \in Conns |-> << >>]
  /\ performed = << >>

-----------------------------------------------------------------------------
(* The main thread.                                                        *)

(* RegisterMethod: the key is the method name alone, so that a second      *)
(* service with a method of the same name replaces the first.              *)
RegisterMethod(s, m) ==
  /\ main = "setup"
  /\ <<s, m>> \in to_register
  /\ to_register' = to_register \ {<<s, m>>}
  /\ registered_methods_' = [registered_methods_ EXCEPT ![m] = s]
  /\ UNCHANGED <<main, acceptVars, stream, request_queue_, response_queue_,
                 worker, writer, running, wireVars, history>>

(* Mutant: the index does not wrap around.                                 *)
NextIOServiceNoWrap == next_index_' = next_index_ + 1

(* GetNextIOService hands out the io threads in turn.                      *)
GetNextIOService == next_index_' = (next_index_ + 1) % IoThreadNum

(* DoAccept: a socket on the next io thread and an async_accept for it.    *)
DoAccept == accept_io' = next_index_ /\ GetNextIOService

(* Loop, called once the services are registered.                          *)
Loop ==
  /\ main = "setup"
  /\ to_register = {}
  /\ main' = "loop"
  /\ DoAccept
  /\ UNCHANGED <<to_register, registered_methods_, curr_stream_id_, streams_,
                 stream, request_queue_, response_queue_, worker, writer,
                 running, wireVars, history>>

(* Mutant: the counter is not advanced.                                    *)
RequestStreamIDStuck == UNCHANGED curr_stream_id_

(* RequestStreamID returns curr_stream_id_ and advances it.                *)
RequestStreamID == curr_stream_id_' = curr_stream_id_ + 1

(* The handler of async_accept: the new stream is entered in streams_      *)
(* before its read loop is started, both under streams_mutex_.             *)
OnAccept(c) ==
  /\ running
  /\ main = "loop"
  /\ link[c] # "none"
  /\ stream[c].socket_ = "none"
  /\ RequestStreamID
  /\ stream' = [stream EXCEPT ![c] =
       [stream_id_ |-> curr_stream_id_, io |-> accept_io, socket_ |-> "open",
        read |-> "pending", write |-> "ok"]]
  /\ streams_' = [i \in DOMAIN streams_ \cup {curr_stream_id_} |->
                    IF i = curr_stream_id_ THEN c ELSE streams_[i]]
  /\ DoAccept
  /\ UNCHANGED <<setupVars, registered_methods_, request_queue_,
                 response_queue_, worker, writer, running, wireVars, history>>

(* The handler of async_accept with an error_code: only DoAccept again.    *)
OnAcceptError ==
  /\ running
  /\ main = "loop"
  /\ DoAccept
  /\ UNCHANGED <<setupVars, registered_methods_, curr_stream_id_, streams_,
                 stream, request_queue_, response_queue_, worker, writer,
                 running, wireVars, history>>

-----------------------------------------------------------------------------
(* The io threads.                                                         *)

(* A complete message of c has been read (DoReadObjectID, DoReadHeader,    *)
(* DoReadBody) and the io thread of the stream runs the handler; also if   *)
(* the socket has been closed after the read.                              *)
MessageRead(c) ==
  /\ running
  /\ \/ stream[c].socket_ = "open" /\ stream[c].read = "pending"
     \/ stream[c].read = "completed"
  /\ worker[stream[c].io] = Idle
  /\ toServer[c] # << >>
  /\ toServer' = [toServer EXCEPT ![c] = Tail(@)]
  /\ received' = [received EXCEPT ![c] = Append(@, Head(toServer[c]))]

(* Mutant: the id of the latest stream instead of the stream's own, as if  *)
(* the callback captured it by reference.                                  *)
RequestOfLatest(c, message) ==
  [object_id_   |-> message.object_id,
   stream_id_   |-> curr_stream_id_ - 1,
   unpacked_    |-> message.data,
   method_name_ |-> message.data[2]]

(* The DousiRequest that InvokeMethod builds from a message of c.          *)
RequestOf(c, message) ==
  [object_id_   |-> message.object_id,
   stream_id_   |-> stream[c].stream_id_,
   unpacked_    |-> message.data,
   method_name_ |-> message.data[2]]

(* InvokeMethod with a work thread pool, then the next DoReadObjectID.     *)
QueueRequest(c) ==
  /\ WorkThreads # {}
  /\ MessageRead(c)
  /\ request_queue_' = Append(request_queue_, RequestOf(c, Head(toServer[c])))
  /\ stream' = [stream EXCEPT ![c].read = "pending"]
  /\ UNCHANGED <<mainVars, response_queue_, worker, writer, running,
                 toClient, link, performed>>

(* Mutant: PerformRequest is posted to any idle io thread, and the next    *)
(* read does not wait for it.                                              *)
PerformPosted(c) ==
  /\ WorkThreads = {}
  /\ MessageRead(c)
  /\ \E i \in IoThreads :
       /\ worker[i] = Idle
       /\ worker' = [worker EXCEPT ![i] =
            [pc |-> "lookup", request |-> RequestOf(c, Head(toServer[c]))]]
  /\ stream' = [stream EXCEPT ![c].read = "pending"]
  /\ UNCHANGED <<mainVars, request_queue_, response_queue_, writer, running,
                 toClient, link, performed>>

(* InvokeMethod without one: PerformRequest runs inside the callback and   *)
(* the next read waits for it.                                             *)
PerformInline(c) ==
  /\ WorkThreads = {}
  /\ MessageRead(c)
  /\ worker' = [worker EXCEPT ![stream[c].io] =
       [pc |-> "lookup", request |-> RequestOf(c, Head(toServer[c]))]]
  /\ stream' = [stream EXCEPT ![c].read = "callback"]
  /\ UNCHANGED <<mainVars, request_queue_, response_queue_, writer, running,
                 toClient, link, performed>>

(* Mutant: the handler erases the stream of a broken connection.           *)
ReadFailsErases(c) ==
  /\ running
  /\ stream[c].read = "pending"
  /\ worker[stream[c].io] = Idle
  /\ link[c] = "cut" \/ stream[c].socket_ = "closed"
  /\ stream' = [stream EXCEPT ![c].read = "ended"]
  /\ streams_' = [i \in DOMAIN streams_ \ {stream[c].stream_id_} |-> streams_[i]]
  /\ UNCHANGED <<setupVars, registered_methods_, curr_stream_id_, next_index_,
                 accept_io, request_queue_, response_queue_, worker, writer,
                 running, wireVars, history>>

(* A read completes with an error_code: the handler returns and no further *)
(* read is started.  The stream stays in streams_.                         *)
ReadFails(c) ==
  /\ running
  /\ stream[c].read = "pending"
  /\ worker[stream[c].io] = Idle
  /\ link[c] = "cut" \/ stream[c].socket_ = "closed"
  /\ stream' = [stream EXCEPT ![c].read = "ended"]
  /\ UNCHANGED <<mainVars, request_queue_, response_queue_, worker, writer,
                 running, wireVars, history>>

(* The completion of a failed async_write closes the socket.  That aborts  *)
(* the pending read, unless it had a whole message and its own completion  *)
(* is already queued behind this one.                                      *)
OnWriteError(c) ==
  /\ running
  /\ stream[c].write = "failed"
  /\ worker[stream[c].io] = Idle
  /\ \/ stream' = [stream EXCEPT ![c].socket_ = "closed", ![c].write = "ok"]
     \/ /\ stream[c].socket_ = "open" /\ stream[c].read = "pending"
        /\ toServer[c] # << >>
        /\ stream' = [stream EXCEPT ![c].socket_ = "closed", ![c].write = "ok",
                                    ![c].read = "completed"]
  /\ UNCHANGED <<mainVars, request_queue_, response_queue_, worker, writer,
                 running, wireVars, history>>

-----------------------------------------------------------------------------
(* Performing requests: a work thread, or an io thread without work pool.  *)

(* Mutant: the head is read but left in the queue.                         *)
PopRequestPeeks(t) ==
  /\ running
  /\ worker[t] = Idle
  /\ request_queue_ # << >>
  /\ worker' = [worker EXCEPT ![t] =
                  [pc |-> "lookup", request |-> Head(request_queue_)]]
  /\ UNCHANGED <<mainVars, stream, request_queue_, response_queue_, writer,
                 running, wireVars, history>>

(* LoopToPerformRequest takes a request.                                   *)
PopRequest(t) ==
  /\ running
  /\ worker[t] = Idle
  /\ request_queue_ # << >>
  /\ worker' = [worker EXCEPT ![t] =
                  [pc |-> "lookup", request |-> Head(request_queue_)]]
  /\ request_queue_' = Tail(request_queue_)
  /\ UNCHANGED <<mainVars, stream, response_queue_, writer, running, wireVars,
                 history>>

(* registered_methods_[name] under mutex_: operator[] enters an empty      *)
(* std::function for a name that is not there.                             *)
LookupMethod(p) ==
  /\ running
  /\ worker[p].pc = "lookup"
  /\ LET name   == worker[p].request.method_name_
         method == IF registered_methods_[name] = NoKey THEN EmptyFunction
                   ELSE registered_methods_[name]
     IN  /\ registered_methods_' = [registered_methods_ EXCEPT ![name] = method]
         /\ worker' = [worker EXCEPT ![p] =
              [pc |-> "invoke", request |-> worker[p].request,
               method |-> method]]
  /\ UNCHANGED <<setupVars, acceptVars, stream, request_queue_,
                 response_queue_, writer, running, wireVars, history>>

(* The registered method runs on its service object.                       *)
CallMethod(p) ==
  /\ running
  /\ worker[p].pc = "invoke"
  /\ worker[p].method # EmptyFunction
  /\ performed' = Append(performed, [service |-> worker[p].method,
                                     request |-> worker[p].request])
  /\ worker' = [worker EXCEPT ![p] =
       [pc |-> "respond", request |-> worker[p].request,
        method |-> worker[p].method]]
  /\ UNCHANGED <<mainVars, stream, request_queue_, response_queue_, writer,
                 running, wireVars, received>>

(* Calling an empty std::function throws std::bad_function_call; nothing   *)
(* on the thread catches it, and std::terminate ends the process.  The     *)
(* operating system then resets every connection.                          *)
CallEmptyFunction(p) ==
  /\ running
  /\ worker[p].pc = "invoke"
  /\ worker[p].method = EmptyFunction
  /\ running' = FALSE
  /\ link' = [c \in Conns |-> IF link[c] = "none" THEN "none" ELSE "cut"]
  /\ UNCHANGED <<mainVars, stream, request_queue_, response_queue_, worker,
                 writer, toServer, toClient, history>>

(* Mutant: the object id is left at zero.                                  *)
ResponseOfZero(w) ==
  [object_id_ |-> 0,
   stream_id_ |-> w.request.stream_id_,
   result_    |-> Result(w.method, w.request.unpacked_)]

(* The response that PerformRequest pushes.                                *)
ResponseOf(w) ==
  [object_id_ |-> w.request.object_id_,
   stream_id_ |-> w.request.stream_id_,
   result_    |-> Result(w.method, w.request.unpacked_)]

(* Mutant: no response is pushed for a void method.                        *)
PushNonEmpty(t) ==
  /\ running
  /\ worker[t].pc = "respond"
  /\ response_queue_' = IF ResponseOf(worker[t]).result_ = << >> THEN response_queue_
                        ELSE Append(response_queue_, ResponseOf(worker[t]))
  /\ worker' = [worker EXCEPT ![t] = Idle]
  /\ UNCHANGED <<mainVars, request_queue_, writer, running, wireVars, history>>

(* The end of PerformRequest ...                                           *)
PushResponse(t) ==
  /\ running
  /\ worker[t].pc = "respond"
  /\ response_queue_' = Append(response_queue_, ResponseOf(worker[t]))
  /\ worker' = [worker EXCEPT ![t] = Idle]
  /\ UNCHANGED <<mainVars, request_queue_, writer, running, wireVars, history>>

(* ... on a work thread, which loops,                                      *)
FinishRequest(t) ==
  /\ PushResponse(t)
  /\ UNCHANGED stream

(* ... or inside the callback of c, which goes on to DoReadObjectID.       *)
FinishInline(i, c) ==
  /\ stream[c].io = i
  /\ stream[c].read = "callback"
  /\ PushResponse(i)
  /\ stream' = [stream EXCEPT ![c].read = "pending"]

-----------------------------------------------------------------------------
(* LoopToWriteResponse.                                                    *)

PopResponse(w) ==
  /\ running
  /\ writer[w] = Idle
  /\ response_queue_ # << >>
  /\ writer' = [writer EXCEPT ![w] =
                  [pc |-> "find", response |-> Head(response_queue_)]]
  /\ response_queue_' = Tail(response_queue_)
  /\ UNCHANGED <<mainVars, stream, request_queue_, worker, running, wireVars,
                 history>>

(* The lookup under streams_mutex_.                                        *)
FindStream(w) ==
  /\ running
  /\ writer[w].pc = "find"
  /\ writer' = [writer EXCEPT ![w] =
       [pc |-> "write", response |-> writer[w].response,
        stream |-> streams_[writer[w].response.stream_id_]]]
  /\ UNCHANGED <<mainVars, stream, request_queue_, response_queue_, worker,
                 running, wireVars, history>>

(* AsioStream::Write on a live connection.                                 *)
WriteResponse(w) ==
  /\ running
  /\ writer[w].pc = "write"
  /\ LET c == writer[w].stream
         r == writer[w].response
     IN  /\ link[c] = "up"
         /\ stream[c].socket_ = "open"
         /\ toClient' = [toClient EXCEPT ![c] =
              Append(@, [object_id |-> r.object_id_, data |-> r.result_])]
  /\ writer' = [writer EXCEPT ![w] = Idle]
  /\ UNCHANGED <<mainVars, stream, request_queue_, response_queue_, worker,
                 running, toServer, link, history>>

(* AsioStream::Write on a connection that is gone: the response is lost.   *)
(* The kernel may take the bytes of a lost connection without an error.    *)
LoseResponse(w) ==
  /\ running
  /\ writer[w].pc = "write"
  /\ LET c == writer[w].stream
     IN  /\ link[c] = "cut" \/ stream[c].socket_ = "closed"
         /\ \/ stream' = [stream EXCEPT ![c].write = "failed"]
            \/ stream[c].socket_ = "open" /\ UNCHANGED stream
  /\ writer' = [writer EXCEPT ![w] = Idle]
  /\ UNCHANGED <<mainVars, request_queue_, response_queue_, worker, running,
                 wireVars, history>>

-----------------------------------------------------------------------------
MainNext ==
  \/ \E s \in Services, m \in Methods : RegisterMethod(s, m)
  \/ Loop
  \/ \E c \in Conns : OnAccept(c)
  \/ OnAcceptError

IoNext(c) ==
  \/ QueueRequest(c)
  \/ PerformInline(c)
  \/ ReadFails(c)
  \/ OnWriteError(c)

PerformNext(p) ==
  \/ LookupMethod(p)
  \/ CallMethod(p)
  \/ CallEmptyFunction(p)

WorkNext(t) ==
  \/ PopRequest(t)
  \/ PerformNext(t)
  \/ FinishRequest(t)

InlineNext(i) ==
  \/ PerformNext(i)
  \/ \E c \in Conns : FinishInline(i, c)

WriteNext(w) ==
  \/ PopResponse(w)
  \/ FindStream(w)
  \/ WriteResponse(w)
  \/ LoseResponse(w)

ExecNext ==
  \/ MainNext
  \/ \E c \in Conns : IoNext(c)
  \/ \E t \in WorkThreads : WorkNext(t)
  \/ \E i \in IoThreads : InlineNext(i)
  \/ \E w \in WriteThreads : WriteNext(w)

-----------------------------------------------------------------------------
(* What holds of the server whatever its clients send.                     *)

TypeOK ==
  /\ main \in {"setup", "loop"}
  /\ to_register \subseteq Offered
  /\ registered_methods_ \in [Methods -> Callables \cup {NoKey}]
  /\ curr_stream_id_ \in Nat
  /\ next_index_ \in IoThreads
  /\ accept_io \in IoThreads
  /\ streams_ \in [0 .. curr_stream_id_ - 1 -> Conns]
  /\ stream \in [Conns -> Streams]
  /\ request_queue_ \in Seq(DousiRequests)
  /\ response_queue_ \in Seq(DousiResponses)
  /\ worker \in [Performers -> WorkerStates]
  /\ writer \in [WriteThreads -> WriterStates]
  /\ running \in BOOLEAN
  /\ toServer \in [Conns -> Seq(RequestMessages)]
  /\ toClient \in [Conns -> Seq(ResponseMessages)]
  /\ link \in [Conns -> {"none", "up", "cut"}]
  /\ received \in [Conns -> Seq(RequestMessages)]
  /\ performed \in Seq([service : Services, request : DousiRequests])

(* assert(it != streams_.end()) in LoopToWriteResponse: whatever response  *)
(* a write thread has taken, the stream of its request is in streams_.     *)
StreamFound ==
  \A w \in WriteThreads :
    writer[w].pc = "find" => writer[w].response.stream_id_ \in DOMAIN streams_

(* r, a request or a response, belongs to the message that c sent under    *)
(* object id o.                                                            *)
Belongs(r, c, o) ==
  /\ stream[c].socket_ # "none"
  /\ r.stream_id_ = stream[c].stream_id_
  /\ r.object_id_ = o

(* The positions in the queues and the threads that hold that message or   *)
(* its response, and the responses to it that were written.                *)
Queued(c, o)     == {i \in DOMAIN request_queue_ : Belongs(request_queue_[i], c, o)}
Performing(c, o) == {p \in Performers : worker[p] # Idle /\ Belongs(worker[p].request, c, o)}
Answered(c, o)   == {i \in DOMAIN response_queue_ : Belongs(response_queue_[i], c, o)}
Writing(c, o)    == {w \in WriteThreads : writer[w] # Idle /\ Belongs(writer[w].response, c, o)}
Written(c, o)    == {i \in DOMAIN toClient[c] : toClient[c][i].object_id = o}

(* A response reaches the connection its request came from, under the      *)
(* object id of that request, with the result of that request and of no    *)
(* other: the correlation that the client relies on, as the pools answer   *)
(* out of order.                                                           *)
AnswersItsRequest ==
  \A c \in Conns : \A i \in DOMAIN toClient[c] :
    \E k \in DOMAIN received[c] :
      /\ received[c][k].object_id = toClient[c][i].object_id
      /\ \E s \in Services : toClient[c][i].data = Result(s, received[c][k].data)

(* r is the request that InvokeMethod made of one of the messages of the   *)
(* connection that streams gives for its stream id.                        *)
GenuineRequest(r, streams, messages) ==
  /\ r.stream_id_ \in DOMAIN streams
  /\ LET sent == messages[streams[r.stream_id_]]
     IN  \E k \in DOMAIN sent : /\ sent[k].object_id = r.object_id_
                                /\ sent[k].data = r.unpacked_

(* r is a response to such a message.                                      *)
GenuineResponse(r, streams, messages) ==
  /\ r.stream_id_ \in DOMAIN streams
  /\ LET sent == messages[streams[r.stream_id_]]
     IN  \E k \in DOMAIN sent :
           /\ sent[k].object_id = r.object_id_
           /\ \E s \in Services : r.result_ = Result(s, sent[k].data)

(* streams_ holds the accepted streams and no other.                       *)
StreamsEntered ==
  /\ \A c \in Conns : stream[c].socket_ # "none" =>
       /\ stream[c].stream_id_ \in DOMAIN streams_
       /\ streams_[stream[c].stream_id_] = c
  /\ \A i \in DOMAIN streams_ : stream[streams_[i]].socket_ # "none"
  /\ \A c \in Conns : stream[c].write = "failed" \/ stream[c].read = "completed"
       => stream[c].socket_ # "none"

RequestsGenuine ==
  \A i \in DOMAIN request_queue_ :
    GenuineRequest(request_queue_[i], streams_, received)

WorkersGenuine ==
  \A p \in Performers : worker[p].pc # "idle" =>
    GenuineRequest(worker[p].request, streams_, received)

ResponsesGenuine ==
  \A i \in DOMAIN response_queue_ :
    GenuineResponse(response_queue_[i], streams_, received)

WritersGenuine ==
  \A w \in WriteThreads : writer[w].pc # "idle" =>
    /\ GenuineResponse(writer[w].response, streams_, received)
    /\ writer[w].pc = "write" =>
         writer[w].stream = streams_[writer[w].response.stream_id_]

(* Wherever a request or a response is on its way through the queues and   *)
(* the pools, streams_ leads it back to the connection and the message it  *)
(* came from, however many connections have come and gone meanwhile.       *)
Correlated ==
  /\ StreamsEntered
  /\ RequestsGenuine
  /\ WorkersGenuine
  /\ ResponsesGenuine
  /\ WritersGenuine

(* The entries of streams_ and the messages received are only added to.    *)
HistoryGrows ==
  /\ \A i \in DOMAIN streams_ : i \in DOMAIN streams_' /\ streams_'[i] = streams_[i]
  /\ \A c \in Conns : \A k \in DOMAIN received[c] :
       k \in DOMAIN received'[c] /\ received'[c][k] = received[c][k]
=============================================================================
