# A TLA+ model of dousi

dousi is an RPC library in C++. A server program creates an `RpcServer`,
registers methods of its services and loops; a client program opens an
`RpcClient`, calls methods through a `ServiceHandle` and waits on a
`DousiFuture`. This directory holds TLA+ specifications of it, the TLC
configurations that check them on small instances, and TLAPS proofs of what
matters most for instances of every size. Paths below are relative to `src/`
unless a longer one is given.

## 1. Inventory

| Part | State | Operations | Source |
|---|---|---|---|
| `Executor` | `registered_methods_`, `streams_`, `curr_stream_id_`, `request_queue_`, `response_queue_`, work and write threads | `RegisterMethod`, `Loop`, `DoAccept`, `InvokeMethod`, `PerformRequest`, `LoopToPerformRequest`, `LoopToWriteResponse`, `Shutdown` | `src/dousi/core/executor/executor.{h,cc}` |
| `IOThreadPool` | `next_index_`, one io_service per thread | `GetNextIOService` | `core/executor/io_thread_pool.h` |
| `AsioStream` | socket, read loop, writes in flight | `Start`, `DoReadObjectID/Header/Body`, `Write` | `core/stream/stream.{h,cc}` |
| `Submitter` | `curr_object_id_`, `cached_objects_`, stream, io thread | `Init`, `RequestObjectID`, `Submit`, `GetObject`, the result callback, destructor | `core/submitter/submitter.h` |
| `ServiceHandle`, `DousiFuture` | object id, `has_data_`, `data_ptr_` | `Call`, `Get` | `core/submitter/service_handle.h`, `dousi_future.h` |
| queues | the items, the waiting threads | `Push`, `WaitAndPop` | `core/common/*_queue.h` |
| `InvokeHelper` and traits | none | decode, call, encode | `core/common/tuple_traits.h` |
| `RpcServer`, `RpcClient`, `DousiService` | owners of the above | construction, destruction | `rpc/*.h`, `core/executor/dousi_service.h` |
| Java client | JNI global references | `nativeNewRpcClient`, `nativeInvoke`, `nativeDestroy` | `jni/*` |
| logging, `Endpoint`, utilities | log provider and threshold; host and port | start, log; parse, resolve | `common/*` |

How they interact. A user thread draws an object id, packs
`(service, method, arguments)` and writes it to the connection (`Submit`). The
io thread of the server's stream reads the frame and runs `InvokeMethod`, which
pushes a `DousiRequest` to `request_queue_`, or, without work threads, performs
it at once. A work thread looks the method up, calls it and pushes a
`DousiResponse` to `response_queue_`; a write thread looks the stream up in
`streams_` and writes. The io thread of the client stores the bytes in
`cached_objects_`, where `GetObject` polls for them. State is shared under
`mutex_` (methods, results) and `streams_mutex_`; the queues are the only other
link between threads.

What is hard. Four kinds of threads handle one request in turn; responses
overtake each other; object ids of different connections coincide; connections
break while requests are queued; nothing is sent again and nothing times out, so
that a lost message is a `Get` that never returns; `Write` is called while
another write is in flight; ids are narrowed on the wire; an exception on a
thread ends the process. Around the request path, lifetimes are hard: methods are
bound to raw pointers to handles, threads outlive the objects that started them,
and log and JNI references are global and unprotected. `PROJECT.json` lists these hazards with their lines.

What makes each part correct:

* server: a request is in one place at a time and gets one response; the
  response leads back to its connection and its message; `streams_` has the
  stream that a write thread looks up; every message is eventually answered;
* client: a future yields the result of its own call; a `Get` ends;
* stream: the callback gets the messages written, whole and in order;
* queues: every item comes out once, in order, and nobody sleeps beside one;
* life of a server: it listens where its address says; a method is registered
  under its own name; no thread is left with a freed executor or service object;
* Java client: a result goes to the client's own Java object under a live
  reference and under an id Java knows; `nativeDestroy` returns;
* log: a logger that exists is never taken from the threads that use it;
* the whole: a call is performed at most once, and its future yields the value
  of that performance or nothing (`RemoteCalls`).

## 2. Modules

| Module | Models | Notes |
|---|---|---|
| `Wire` | connections, messages, what methods return | shared variables of clients and server |
| `Executor` | server, with its streams and io threads | open: no client steps; the properties that hold with any clients |
| `ExecutorEnv` | `Executor` + arbitrary well-formed clients | the properties that speak of these clients' ids |
| `Submitter` | client, futures, user threads | open: no server steps |
| `Rpc` | `Submitter` + `Executor` | properties of the whole; refinement mapping |
| `RemoteCalls` | what dousi promises of a call | abstract |
| `Stream` | one direction of one `AsioStream` pair | cells instead of bytes |
| `ConcurrentQueue` | `ConcurrentQueueInterface` | abstract |
| `StdLockedQueue` | the queue with a condition variable | implements `ConcurrentQueue` |
| `Server` | `RpcServer`, `Executor` from construction to destruction, `DousiService` handles, created services | the path of a request is in `Executor`; uses the next three |
| `Endpoint` | parsing and writing `host:port` | operators only |
| `Nameof` | `pretty_name`, by which `Remote` names methods | operators only |
| `Logging` | `StartDousiLog` and log statements | open: `Server` and `JavaClient` call it |
| `JavaClient` | native methods, `NativeClientForJava`, the io thread's callback | composed with `Logging` |
| `MCExecutor`, `MCRpc`, `MCStream`, `MCServer`, `MCJavaClient` | instances for TLC | |
| `ExecutorProofs`, `LoggingProofs` | lemmas about the steps of an open module | used by the proofs of the modules that close it |
| `ExecutorEnvProofs`, `RpcProofs`, `StreamProofs`, `StdLockedQueueProofs`, `ServerProofs`, `JavaClientProofs` | theorems | |

Correspondence of state and actions. Variables keep the names of the members
they stand for. `stream[c]` is the server's `AsioStream` for connection `c`:
`read` says whether a read is pending, its callback is running or the loop has
ended; `write = "failed"` means that the completion of a failed write has not
run yet. That completion closes the socket; a read that had its message by then
still runs its callback (`read = "completed"`), and only the next one fails. `worker[p]` and `writer[w]` are the local variables of a thread and its
place in the loop; a thread that holds a mutex takes one step for the whole
critical section. The callbacks of one io thread exclude each other, so a
callback of stream `c` needs `worker[stream[c].io]` idle. `received`,
`performed` and `issued` are history variables. A lost connection
(`link = "cut"`) keeps the messages already under way: they may or may not be
read before the read fails. A write to it may be reported as failed or not.

An unregistered method (`registered_methods_[name]` on a missing key) gives an
empty `std::function`; calling it throws on a thread without handler, which is
`std::terminate`: `running` becomes `FALSE`, every connection is cut.

`Result` is what a method computes, as a function of the service object and the
call: enough to tell the results of different calls apart. A void method has the
empty result, which `msgpack::unpack` refuses on the client (`ReadThrows`).

The data race in `GetObject` (a `find` without `mutex_` while the io thread
inserts) is modelled by its possible outcomes: `ReadCached` finds the entry,
`ReadRaces` misses it, which the assert turns into the end of the process.

In `Executor` and `Submitter` a connection is a queue of whole messages. That is
what `Stream` establishes as long as writes either do not overlap or fit (`Fits`:
each frame in flight goes out in one transfer and the socket buffers hold them
all, the common case of small messages), and what fails otherwise
(`StreamOverlap`): nothing in the code makes its callers keep to that.

The queues of `Executor` are sequences with an atomic push and pop:
`boost::lockfree::queue` gives that, and a `WaitAndPop` that finds the queue empty
sleeps and tries again without changing anything.

`Server` keeps what `Executor` leaves out. `owners` are the shared pointers to the
executor (the `RpcServer`, written 0, and the handles, numbered in the order of
creation); when the last one goes, `~Executor` joins the pools (`"joining"`), from
which, their loops having no exit, nothing leads on. That is what happens to a
constructor that throws: `ListenThrows` models the stack unwinding that never
ends. The service object made together with handle `h` is called object `h`; it is
alive while the handle or `created_services_` shares it. A work thread that finds a
method bound to a dead handle reads freed memory: either the old pointer is still
there (`Invoke`) or the process ends (`InvokeCrashes`). A name that clients ask for
(`Names`) need not be registered: `Lookup` then enters an `EmptyFunction`, which a
later `RegisterMethod` replaces, and calling it ends the process
(`CallEmptyFunction`), as in `Executor`. The application may call
from several threads; what it does with objects that it knows to be dead is left
out.

`Endpoint` and `Nameof` work on texts as sequences of characters, counted from 1.
`stoi` is modelled with sign, longest run of digits, range and narrowing;
`BeforeBrackets` says in one set expression what the two backward loops of
`pretty_name` compute: their unsigned counter is zero exactly where as many
brackets have been closed as opened.

In `Logging` a thread's place in `StartDousiLog` or in a statement is `log[t]`; a
step reads or writes the shared threshold, spdlog's registry or `logging_provider`
once. What spdlog does with a message is left out. In `JavaClient` client `c` has
the threads `<<"java", c>>` and `<<"io", c>>`; `disturbed` collects the clients
during whose life another one was created or deleted the references that all of
them share. The server it talks to is only a set of ids that may be answered.

Definitions whose comment begins with "Mutant" are faulty variants of the
definition that follows them; they are used to show that a property can fail.

## 3. Runs

| Run | Question | Result |
|---|---|---|
| `ExecutorFaults` | two requests over one connection, one over another, both may break; 2 work and 2 write threads; registered and unregistered methods | holds (630k states) |
| `ExecutorInline` | no work threads, 2 io threads, 2 connections with 2 requests each; order of performance too | holds (720k) |
| `RpcShared` | 2 users on one client, void and other calls, faults; refinement of `RemoteCalls`; a `Get` ends | holds (220k) |
| `StreamWhole` | writes that overlap only while each goes out in one transfer; larger ones alone; faults; delivery | holds (17k) |
| `StdLockedQueue` | 3 consumers, 3 items, spurious wake-ups; refinement of `ConcurrentQueue` | holds (3k) |
| `Server` | any address of up to 5 characters, 2 services, 39 expressions that name methods, 2 work threads, handles and server dropped at any time | holds (190k) |
| `JavaClient` | 2 clients with 2 calls each, overlapping or in sequence; log files that do not open, connections lost, callbacks during `nativeDestroy` | holds (510k) |
| `ExecutorOrder` | calls of a connection are performed in order | violated |
| `ExecutorNames` | a method runs on the named service | violated |
| `ExecutorUnknown` | every message is responded to | violated |
| `RpcWrap` | a future yields its own result, ids beyond the wire's | violated |
| `StreamOverlap` | whole messages with overlapping, partial writes | violated |

The violated ones are disagreements between the code and what its tests,
comments or protocol document say; `PROJECT.json` quotes both sides.
What `Server` and `JavaClient` show holds under conditions that the properties
name, and the conditions are needed. What they leave out is in the models, and in
the list of hazards without a property to cover it. A call may go through the
pointer to a dropped handle (`InvokeCrashes`) unless the program keeps every handle
through which it registered a method: the examples do;
`src/tests/test_utils/basic_server_for_test.cc`, whose methods `basic_call_test.cc`
calls, drops them all before `Loop`. `ListensAtItsAddress` is about numbers that
are ports; a larger one, such as the 100001 of the repository's `README.md`,
silently becomes another port.
`ObjectOutlivesCall` is what `created_services_` is for (a comment in `executor.h`
asks): without it, or once a later service of the same name has taken the place
of the first, dropping a handle frees the object under a running method.
`OwnCallback` needs a client that is alone in the process. `LoggerKept` needs log
files that open and first starts that do not overlap. `KeyNamesMethod` covers
qualified names, template arguments and the operators that `pretty_name` rejects;
`operator()` would be registered as `operator` and is not among the expressions.

`basic_call_test.cc` depends on the order that `ExecutorOrder` shows is not
kept. The order does hold without work threads (`ExecutorInline`).

Bounds. Two connections are what confusing streams takes, two threads per pool
what a race takes; two requests over one connection, with different arguments,
allow overtaking and confusing their results, and the third one of
`ExecutorFaults` lets a thread come back for more while another is busy.
`MaxRequests`, `MaxCalls`, `MaxWrites` and `MaxItems` bound the messages, calls
and items; `IdSpace` stands for 2^32, above the number of calls everywhere but in
`RpcWrap`. In `Stream` one of the three messages is larger than `MaxTransfer`, and
`Capacity` holds two frames but not three, so that both reasons for a partial
transfer occur. `Server` has binary digits, 2-bit
ports (`PortSpace`, for 2^16) and 3-bit ints (`IntSpace`, for 2^31), so that five
characters reach every case of narrowing and of `stoi`; `MaxHandles = 2` allows two
services of one name, or a method registered again through a second handle. Two
clients in `JavaClient` are what disturbing each other takes, two calls each what
answers out of order take. Symmetry is used for work and write threads only (io threads are
numbered), and not in the runs that check liveness. Deadlock is not checked where
the process may end or a bounded, broken connection leaves nothing to do.

Fairness. Weak fairness per thread: `io_service::run` with a `work` object does
not return, the pool loops have no exit, and the queues retry or are notified. No
fairness is assumed of clients starting calls, of connections breaking or of
spurious wake-ups; a user only finishes the call or `Get` it has begun, and a Java
thread the `nativeDestroy` it has begun. That a callback into Java returns is
assumed of the Java program. Which of
several idle threads gets a request is left open.

## 4. Proofs

Everything below is for any sets of connections, clients, threads, services and
methods and any number of requests, from the assumptions that the modules name
(at least one io thread and one object id; the registered methods are methods of
services; markers such as `NoKey` are not services; digits are as many as the
base; characters of identifiers are not brackets). Where a theorem needs more,
its statement says so and the text below says why. TLC has also checked the
inductive invariants, on the instances of section 3.

`ExecutorProofs` has the lemmas about the server's steps, whoever the clients are,
and `ExecutorEnvProofs` the theorems about `ExecutorEnv`.

* `Invariance`: `IInv`, which is `TypeOK /\ Correlated /\ AnswersItsRequest`, is
  inductive. None of the properties is by itself. That a write thread finds the
  stream of its response (`StreamFound`) holds because the stream was in `streams_`
  when the request was made and `streams_` only grows, so `Correlated` says of every
  place a request or a response passes (queue, worker, response queue, writer)
  that its stream id is in `streams_` and leads to the connection that sent that
  message. `TypeOK` needs it too: the value of a lookup is a connection only if
  the lookup succeeds. A step uses that histories and `streams_` only grow
  (`StepGrows`), which keeps what was genuine genuine; what is left in each action
  is the one request or response it moves. `TypeCorrect`, `Correlation`,
  `StreamAlwaysFound`, `AnswerMatches` and the action property `StreamsStay` follow.
* `HandledOnce` (`ExactlyOnce`): `Once` adds that ids of a connection come in
  order, that a stream id belongs to one connection, and that the places of a
  message hold at most one token of it in all, exactly one while the connection
  and the process live. An action moves one token.
* `OrderedInline` (`SubmissionOrder`), assuming `WorkThreads = {}`: with a work
  pool `ExecutorOrder` refutes it. `Inline` says that the io thread of a stream
  performs what it read last, before it reads again, and that what was performed
  has smaller ids.

`RpcProofs` is about clients and server together, and reuses `ExecutorProofs`.
`ClientTypeCorrect` needs no bound on the calls. The others assume
`MaxCalls <= IdSpace`, object ids that fit the `uint32_t` of the wire; `RpcWrap`
shows that they need it.

* `GetsItsResult` (`OwnResult`): `CallInv` says that whatever asks for a call (a
  user about to submit, a future, a message on the way or read) carries the id and
  the body under which it was issued (`Asked`), and that whatever carries a result
  (from the work thread to `cached_objects_` and the future) is backed by a
  performance of the call with that id (`ServerBacked`, `ClientBacked`).
* `Refinement` (`ImplementsRemoteCalls`): the initial states map to initial states
  and every step maps to a step of `RemoteCalls` or a stutter. Beyond `CallInv` it
  needs that a call is performed at most once, again by tokens: an id of a
  connection is in one of the messages under way, the requests in the server or
  the performed ones.

`StreamProofs`: `TypeCorrect` holds whatever the callers do. `DeliversWhole`
(`CompleteMessages`) assumes `Careful`: writes overlap only while each fits in one
transfer, and no message has 2^32 bytes; `StreamOverlap` shows what happens
otherwise. The invariant gives every frame an offset in the stream of cells that
the calls of `Write` make up, in their order. What the receiver has taken ends
inside the frame after the delivered ones (`InFrame`); what is on the wire are the
cells that follow, and what is unsent those that follow the wire (`Ordered`); an
operation that transfers only a part is alone.

`StdLockedQueueProofs`: `TypeCorrect`; `WakeupsKept`, where the invariant itself,
together with the types, is inductive and the argument is one of counting (a push
adds one item and, if anyone sleeps, one woken thread; a pop by a late caller
removes an item and no woken thread, a pop by a woken one removes one of each);
and `Refinement`, that each step is a step of `ConcurrentQueue` or a stutter.

`ServerProofs`. The first part is about `Endpoint`, for texts of every length,
every base and every range of ints and ports: `ParsesItsOwnText` (with `RoundTrips`)
and what `ListensWhereTold` needs, that `host:port` in decimal parses to that port.
The induction over a text or a number that this takes is done by the least
counterexample: the set of failures would have a least element (`LeastElement`),
which the step refutes. The second part is about `Nameof`: `pretty_name` finds the
method in `&q::m` and in `&q::m<b>` (`Plain`; the forms that programs use; no
brackets inside the qualifier `q` or the template arguments `b`), hence
`KeysNameMethods`. The invariant of the third part says that the owners of the
executor are the server and the live handles, and that it is alive while there is
one (`Ownership`); that a running method was bound to a handle, and one that was
only looked up to a handle or to none (`CallsBound`); that `created_services_` has
every object unless a later one of that service exists (`ObjectsKept`).
`ExecutorLives` and `ObjectsOutliveCalls` follow.

`JavaClientProofs`, with the lemmas of `LoggingProofs`: `CallbackIsOwn` (the io
thread runs only while its client exists, and a client that was alone all its life
has the shared reference), `LoggerIsKept` (a thread past the check of
`logging_provider` finds it set, unless starts raced or a file did not open) and
`AnswersOwnCalls`, which assumes `MaxInvokes <= IdSpace`: beyond it an id
comes back under which a call was already answered.

Only model-checked: liveness (`GetReturns`, `AllDelivered`, `EveryItemTaken`,
`DestroyReturns`), which is beyond the prover; `KeyNamesMethod` for expressions that
are not plain (brackets in qualifiers or nested in arguments, whole expressions in
brackets, operators, literals), which `Server` checks one by one; and the five
violations, which are counterexamples.

## 5. Plan

Done: the request path (server, client, their composition, the abstract calls),
the stream, the queues, the life of a server with its services, the Java client,
the log, the pure algorithms; theorems for every safety property that a passing
run checks. What is left:

1. `KeysNameMethods` for nested brackets, which needs the counting of
   `BeforeBrackets` for balanced texts of any depth.
2. The queues of `Executor` as an instance of `ConcurrentQueue`, so that the claim
   that their push and pop are atomic is a refinement rather than an argument.

## 6. Not modelled

The monitor thread prints sizes and changes nothing.
`Utils::AsyncTimeoutMsOnNewThread` and `ShutDownDousiLog` are called by tests only
(`concurrent_queue_test.cc`, `logging_test.cc`).
The template machinery (`function_traits.h`) and the rest of `nameof.hpp` are
resolved by the compiler; the stubs (`worker_pool.h`, `service_manager.h`,
`runtime_context.h`, `service_id.h`) hold no behaviour. `Endpoint::Resolve` asks the
operating system. The conversions of strings and byte arrays in the JNI file copy
bytes. In `logging.cc` the size of a log file is computed in 32 bits (10 gives
2^31); only spdlog uses it. Messages are well formed: what `InvokeMethod` does with
bytes that are no msgpack array, or with arguments of other types, is left out. The
failure to start a thread is left out. The growth of `streams_` and
`cached_objects_` is not bounded by anything in the code and is not a property of
the models. The lock-free queue, asio, spdlog, the JVM and the condition variable
are external and modelled by what their documentation guarantees.
