------------------------------ MODULE RpcProofs -----------------------------
(***************************************************************************)
(* The theorems about clients and server together, for any number of       *)
(* connections, users, threads, services and calls: the types of the       *)
(* client, that a Get returns the result of its own call (OwnResult), and  *)
(* that Rpc implements RemoteCalls.  The last two hold as long as object   *)
(* ids fit the uint32_t of the wire (MaxCalls <= IdSpace): RpcWrap shows   *)
(* what happens beyond.                                                    *)
(*                                                                         *)
(* The steps of the server are covered by the lemmas of ExecutorProofs.    *)
(***************************************************************************)
EXTENDS Rpc, ExecutorProofs

(* A user inside Get waits for one of its futures, which has no data yet,  *)
(* and after the first find the id is in the table.                        *)
Polling ==
  \A u \in Users : user[u].pc \in {"poll", "read"} =>
    /\ user[u].future \in DOMAIN futures[u]
    /\ futures[u][user[u].future].data_ptr_ = << >>
    /\ user[u].pc = "read" => Wanted(u) \in DOMAIN cached_objects_[ClientOf[u]]

(* The invariant that needs no bound on the calls.                         *)
RpcInv == IInv /\ SubTypeOK /\ Polling

(* Object ids are handed out in turn.                                      *)
Counted ==
  \A c \in Conns : curr_object_id_[c] = Len(issued[c]) /\ Len(issued[c]) <= MaxCalls

(* Among the calls over a connection is body, with the id o.               *)
IsIssued(calls, o, body) ==
  o \in Nat /\ o + 1 \in DOMAIN calls /\ calls[o + 1] = body

(* Asked of a user between RequestObjectID and Submit,                     *)
SubmitsIssued ==
  \A u \in Users : user[u].pc = "submit" =>
    IsIssued(issued[ClientOf[u]], user[u].object_id, user[u].body)

(* of the futures,                                                         *)
FuturesIssued ==
  \A u \in Users : \A k \in DOMAIN futures[u] :
    IsIssued(issued[ClientOf[u]], futures[u][k].object_id_, futures[u][k].body)

(* of the messages on the way to the server,                               *)
SentIssued ==
  \A c \in Conns : \A k \in DOMAIN toServer[c] :
    IsIssued(issued[c], toServer[c][k].object_id, toServer[c][k].data)

(* and of those that the server has read.                                  *)
ReceivedIssued ==
  \A c \in Conns : \A k \in DOMAIN received[c] :
    IsIssued(issued[c], received[c][k].object_id, received[c][k].data)

(* Whatever names a call, from the user to the server, names one that was  *)
(* issued, with the id it was issued under.                                *)
Asked == Counted /\ SubmitsIssued /\ FuturesIssued /\ SentIssued /\ ReceivedIssued

(* Only messages that were received are performed.                         *)
PerformedGenuine ==
  \A i \in DOMAIN performed : GenuineRequest(performed[i].request, streams_, received)

(* Call o of c is among the performances in log, with the result data.     *)
WasPerformed(log, streams, c, o, data) ==
  \E i \in DOMAIN log :
    /\ log[i].request.stream_id_ \in DOMAIN streams
    /\ streams[log[i].request.stream_id_] = c
    /\ log[i].request.object_id_ = o
    /\ data = Result(log[i].service, log[i].request.unpacked_)

(* The same of a response of the server.                                   *)
Backed(r, log, streams) ==
  WasPerformed(log, streams, streams[r.stream_id_], r.object_id_, r.result_)

(* Backed of a worker that is about to queue a response,                   *)
WorkersBacked ==
  \A p \in Performers : worker[p].pc = "respond" => Backed(ResponseOf(worker[p]), performed, streams_)

(* of the queue,                                                           *)
ResponsesBacked == \A i \in DOMAIN response_queue_ : Backed(response_queue_[i], performed, streams_)

(* of a thread of the write pool,                                          *)
WritersBacked == \A w \in WriteThreads : writer[w].pc # "idle" => Backed(writer[w].response, performed, streams_)

(* of the messages on the way back,                                        *)
SentBacked ==
  \A c \in Conns : \A k \in DOMAIN toClient[c] :
    WasPerformed(performed, streams_, c, toClient[c][k].object_id, toClient[c][k].data)

(* of the one that the callback is about to store,                         *)
StoringBacked ==
  \A c \in Conns : storing[c] # << >> =>
    WasPerformed(performed, streams_, c, storing[c][1].object_id, storing[c][1].data)

(* of the table of results,                                                *)
CacheBacked ==
  \A c \in Conns : \A o \in DOMAIN cached_objects_[c] :
    WasPerformed(performed, streams_, c, o, cached_objects_[c][o])

(* and of the futures that have data.                                      *)
FuturesBacked ==
  \A u \in Users : \A k \in DOMAIN futures[u] : futures[u][k].data_ptr_ # << >> =>
    WasPerformed(performed, streams_, ClientOf[u], futures[u][k].object_id_, futures[u][k].data_ptr_)

(* Whatever carries a result, from the server to the user, carries that of *)
(* a performance, to the connection and under the id it was performed for. *)
ServerBacked == WorkersBacked /\ ResponsesBacked /\ WritersBacked /\ SentBacked
ClientBacked == StoringBacked /\ CacheBacked /\ FuturesBacked

(* The inductive invariant of OwnResult.                                   *)
CallInv == RpcInv /\ Asked /\ PerformedGenuine /\ ServerBacked /\ ClientBacked

-----------------------------------------------------------------------------
(* Calls of one connection on the way to the server have different ids.    *)
SendsApart ==
  /\ \A u, v \in Users :
       user[u].pc = "submit" /\ user[v].pc = "submit" /\ ClientOf[u] = ClientOf[v] /\ u # v
         => user[u].object_id # user[v].object_id
  /\ \A u \in Users : user[u].pc = "submit" =>
       /\ \A k \in DOMAIN toServer[ClientOf[u]] :
            toServer[ClientOf[u]][k].object_id # user[u].object_id
       /\ \A k \in DOMAIN received[ClientOf[u]] :
            received[ClientOf[u]][k].object_id # user[u].object_id
  /\ \A c \in Conns : \A j, k \in DOMAIN toServer[c] :
       j # k => toServer[c][j].object_id # toServer[c][k].object_id
  /\ NoIdAgain

(* So have the futures of one connection.                                  *)
FuturesApart ==
  \A u, v \in Users : ClientOf[u] = ClientOf[v] =>
    /\ \A j \in DOMAIN futures[u], k \in DOMAIN futures[v] :
         futures[u][j].object_id_ = futures[v][k].object_id_ => u = v /\ j = k
    /\ user[v].pc = "submit" =>
         \A j \in DOMAIN futures[u] : futures[u][j].object_id_ # user[v].object_id

(* Requests r and q are for the same message.                              *)
SameMessage(r, q) == r.stream_id_ = q.stream_id_ /\ r.object_id_ = q.object_id_

(* What is still to be performed was not performed before.                 *)
NotYet ==
  \A i \in DOMAIN performed :
    /\ \A k \in DOMAIN request_queue_ :
         ~ SameMessage(performed[i].request, request_queue_[k])
    /\ \A p \in Performers : worker[p].pc \in {"lookup", "invoke"} =>
         ~ SameMessage(performed[i].request, worker[p].request)

(* No message is in two places of the server.                              *)
NoneTwice == \A c \in Conns : \A o \in ObjectIds : Lone(c, o)

(* What the refinement needs besides CallInv.                              *)
OnceInv == SendsApart /\ FuturesApart /\ OwnEntry /\ ClosedIsCut /\ NoneTwice /\ NotYet

-----------------------------------------------------------------------------
(* The fields of a user at each place of Call and Get.                     *)
LEMMA UserFields ==
  ASSUME NEW w \in UserStates
  PROVE  /\ w.pc \in {"between", "submit", "poll", "read"}
         /\ w.pc = "between" <=> w = Between
         /\ w.pc = "submit" => w.object_id \in Nat /\ w.body \in Bodies
         /\ w.pc \in {"poll", "read"} => w.future \in Nat
BY DEF UserStates, Between

(* The id that Submit puts on the wire.                                    *)
LEMMA WireId ==
  ASSUME NEW o \in Nat
  PROVE  /\ o % IdSpace \in ObjectIds
         /\ o < IdSpace => o % IdSpace = o
BY IdAssumption DEF ObjectIds

(* The client side of a step, as one action per case.                      *)
UserStep(u) ==
  \/ \E body \in Calls : RequestObjectID(u, body)
  \/ Submit(u)
  \/ SubmitLost(u)
  \/ \E k \in DOMAIN futures[u] : BeginGet(u, k)
  \/ PollFound(u)
  \/ ReadCached(u)
  \/ ReadThrows(u)
  \/ ReadRaces(u)

(* A step of the connection c: it is opened, or lost.                      *)
LinkStep(c) ==
  \/ ClientInit(c)
  \/ Destroy(c)
  \/ LinkCut(c) /\ UNCHANGED subVars

(* A step is one of the server, of a user, of the io thread of a client or *)
(* of a connection, or a stuttering step.                                  *)
LEMMA Steps ==
  ASSUME [Next]_vars
  PROVE  \/ ExecNext /\ UNCHANGED subVars
         \/ /\ UNCHANGED execVars
            /\ \/ \E u \in Users : UserStep(u)
               \/ \E c \in Conns : ClientIoNext(c)
               \/ \E c \in Conns : LinkStep(c)
               \/ UNCHANGED <<subVars, wireVars>>
<1>1. CASE UNCHANGED vars
    BY <1>1 DEF vars
<1>2. ASSUME NEW u \in Users, UserNext(u, Calls) PROVE UserStep(u)
    BY <1>2 DEF UserNext, SubmitNext, GetNext, UserStep
<1>3. ASSUME NEW c \in Conns, Connect(c) \/ DestroyClient(c) \/ LoseConnection(c)
      PROVE  UNCHANGED execVars /\ LinkStep(c)
    <2>1. CASE Connect(c)
        <3>1. UNCHANGED execVars /\ ClientInit(c)
            BY <2>1 DEF Connect
        <3> QED BY <3>1 DEF LinkStep
    <2>2. CASE DestroyClient(c)
        <3>1. UNCHANGED execVars /\ Destroy(c)
            BY <2>2 DEF DestroyClient
        <3> QED BY <3>1 DEF LinkStep
    <2>3. CASE LoseConnection(c)
        <3>1. UNCHANGED execVars /\ UNCHANGED subVars /\ LinkCut(c)
            BY <2>3 DEF LoseConnection
        <3> QED BY <3>1 DEF LinkStep
    <2> QED BY <1>3, <2>1, <2>2, <2>3
<1> QED BY <1>1, <1>2, <1>3 DEF Next

-----------------------------------------------------------------------------
(* Types.                                                                  *)

(* No step of a user breaks the types of the client.                       *)
LEMMA UserTypes ==
  ASSUME RpcInv, NEW u \in Users, UserStep(u)
  PROVE  SubTypeOK' /\ Polling'
<1> USE DEF wireVars
<1> DEFINE c == ClientOf[u]
<1>0. /\ c \in Conns /\ user \in [Users -> UserStates] /\ user[u] \in UserStates
      /\ futures \in [Users -> Seq(Futures)] /\ futures[u] \in Seq(Futures)
    BY ClientAssumption DEF RpcInv, SubTypeOK
<1>1. ASSUME NEW body \in Calls, RequestObjectID(u, body) PROVE SubTypeOK' /\ Polling'
    <2>1. body \in Bodies
        BY CallsAssumption
    <2>2. user' = [user EXCEPT ![u] = [pc |-> "submit", object_id |-> curr_object_id_[c], body |-> body]]
          /\ curr_object_id_[c] \in Nat
        BY <1>0, <1>1 DEF RequestObjectID, RpcInv, SubTypeOK
    <2>3. user' \in [Users -> UserStates]
        BY <1>0, <2>1, <2>2 DEF UserStates
    <2>4. issued' \in [Conns -> Seq(Bodies)] /\ curr_object_id_' \in [Conns -> Nat]
        BY <1>0, <1>1, <2>1 DEF RequestObjectID, RpcInv, SubTypeOK
    <2>5. SubTypeOK'
        BY <1>1, <2>3, <2>4 DEF RequestObjectID, RpcInv, SubTypeOK
    <2> QED BY <1>0, <1>1, <2>2, <2>5 DEF RequestObjectID, RpcInv, Polling, Wanted
<1>2. ASSUME ReturnFuture(u), user[u].pc = "submit",
             UNCHANGED <<client, curr_object_id_, storing, cached_objects_, issued>>,
             stream_' = stream_ \/ stream_' = [stream_ EXCEPT ![c].write = "failed"]
      PROVE  SubTypeOK' /\ Polling'
    <2> DEFINE f == [object_id_ |-> user[u].object_id, body |-> user[u].body, data_ptr_ |-> << >>]
    <2>1. f \in Futures
        BY <1>0, <1>2, UserFields DEF Futures
    <2>2. futures' = [futures EXCEPT ![u] = Append(@, f)] /\ user' = [user EXCEPT ![u] = Between]
        BY <1>2 DEF ReturnFuture
    <2> HIDE DEF f
    <2>3. futures' \in [Users -> Seq(Futures)] /\ user' \in [Users -> UserStates]
        BY <1>0, <2>1, <2>2 DEF UserStates
    <2>4. stream_' \in [Conns -> ClientStreams]
        <3>1. stream_ \in [Conns -> ClientStreams] /\ stream_[c] \in ClientStreams
            BY <1>0 DEF RpcInv, SubTypeOK
        <3>2. [stream_[c] EXCEPT !.write = "failed"] \in ClientStreams
            BY <3>1 DEF ClientStreams
        <3> QED BY <1>2, <3>1, <3>2
    <2>5. SubTypeOK'
        BY <1>2, <2>3, <2>4 DEF RpcInv, SubTypeOK
    <2>6. user'[u].pc = "between" /\ \A v \in Users : v # u => user'[v] = user[v] /\ futures'[v] = futures[v]
        BY <1>0, <2>2 DEF Between
    <2> QED BY <1>2, <2>5, <2>6 DEF RpcInv, Polling, Wanted
<1>3. CASE Submit(u)
    BY <1>2, <1>3 DEF Submit
<1>4. CASE SubmitLost(u)
    BY <1>2, <1>4 DEF SubmitLost
<1>5. ASSUME NEW k \in DOMAIN futures[u], BeginGet(u, k) PROVE SubTypeOK' /\ Polling'
    <2>1. k \in Nat
        BY <1>0
    <2>2. user' = [user EXCEPT ![u] = [pc |-> "poll", future |-> k]]
        BY <1>5 DEF BeginGet
    <2>3. user' \in [Users -> UserStates]
        BY <1>0, <2>1, <2>2 DEF UserStates
    <2>4. SubTypeOK'
        BY <1>5, <2>3 DEF BeginGet, RpcInv, SubTypeOK
    <2> QED BY <1>0, <1>5, <2>2, <2>4 DEF BeginGet, RpcInv, Polling, Wanted
<1>6. CASE PollFound(u)
    <2>1. user[u].pc = "poll" /\ user' = [user EXCEPT ![u].pc = "read"]
        BY <1>6 DEF PollFound
    <2>2. user[u] \in [pc : {"poll", "read"}, future : Nat]
        BY <1>0, <2>1 DEF UserStates, Between
    <2>3. user'[u] \in [pc : {"poll", "read"}, future : Nat] /\ user'[u].future = user[u].future
        BY <1>0, <2>1, <2>2
    <2>4. user' \in [Users -> UserStates]
        BY <1>0, <2>1, <2>3 DEF UserStates
    <2>5. SubTypeOK'
        BY <1>6, <2>4 DEF PollFound, RpcInv, SubTypeOK
    <2>6. \A v \in Users : v # u => user'[v] = user[v]
        BY <1>0, <2>1
    <2> QED BY <1>0, <1>6, <2>3, <2>5, <2>6 DEF PollFound, RpcInv, Polling, Wanted
<1>7. CASE ReadCached(u)
    <2> DEFINE k == user[u].future
               bytes == cached_objects_[c][Wanted(u)]
    <2>1. k \in DOMAIN futures[u] /\ Wanted(u) \in DOMAIN cached_objects_[c]
        BY <1>7 DEF ReadCached, RpcInv, Polling
    <2>2. bytes \in Seq(Values)
        BY <1>0, <2>1 DEF RpcInv, SubTypeOK
    <2>3. futures' = [futures EXCEPT ![u][k].data_ptr_ = bytes] /\ user' = [user EXCEPT ![u] = Between]
        BY <1>7 DEF ReadCached
    <2> HIDE DEF bytes
    <2>4. futures[u][k] \in Futures
        BY <1>0, <2>1
    <2>5. [futures[u][k] EXCEPT !.data_ptr_ = bytes] \in Futures
        BY <2>2, <2>4 DEF Futures
    <2>6. [futures[u] EXCEPT ![k] = [futures[u][k] EXCEPT !.data_ptr_ = bytes]] \in Seq(Futures)
        BY <1>0, <2>1, <2>5
    <2>7. futures' \in [Users -> Seq(Futures)] /\ user' \in [Users -> UserStates]
        BY <1>0, <2>3, <2>6 DEF UserStates
    <2>8. SubTypeOK'
        BY <1>7, <2>7 DEF ReadCached, RpcInv, SubTypeOK
    <2>9. user'[u].pc = "between" /\ \A v \in Users : v # u => user'[v] = user[v] /\ futures'[v] = futures[v]
        BY <1>0, <2>3 DEF Between
    <2> QED BY <1>7, <2>8, <2>9 DEF ReadCached, RpcInv, Polling, Wanted
<1>8. CASE ReadThrows(u)
    <2>1. user' = [user EXCEPT ![u] = Between]
        BY <1>8 DEF ReadThrows
    <2>2. user' \in [Users -> UserStates]
        BY <1>0, <2>1 DEF UserStates
    <2>3. SubTypeOK'
        BY <1>8, <2>2 DEF ReadThrows, RpcInv, SubTypeOK
    <2>4. user'[u].pc = "between" /\ \A v \in Users : v # u => user'[v] = user[v]
        BY <1>0, <2>1 DEF Between
    <2> QED BY <1>8, <2>3, <2>4 DEF ReadThrows, RpcInv, Polling, Wanted
<1>9. CASE ReadRaces(u)
    <2>1. client' \in [Conns -> {"new", "ready", "closed", "aborted"}]
        BY <1>0, <1>9 DEF ReadRaces, RpcInv, SubTypeOK
    <2>2. SubTypeOK'
        BY <1>9, <2>1 DEF ReadRaces, RpcInv, SubTypeOK
    <2> QED BY <1>9, <2>2 DEF ReadRaces, RpcInv, Polling, Wanted
<1> QED BY <1>1, <1>3, <1>4, <1>5, <1>6, <1>7, <1>8, <1>9 DEF UserStep

(* Nor does one of the io thread of a client, or of a connection.          *)
LEMMA ClientTypes ==
  ASSUME RpcInv, NEW c \in Conns, ClientIoNext(c) \/ LinkStep(c)
  PROVE  SubTypeOK' /\ Polling'
<1> USE DEF wireVars
<1>0. /\ stream_ \in [Conns -> ClientStreams] /\ stream_[c] \in ClientStreams
      /\ client \in [Conns -> {"new", "ready", "closed", "aborted"}]
      /\ storing \in [Conns -> Seq(ResponseMessages)]
      /\ storing[c] \in Seq(ResponseMessages) /\ toClient[c] \in Seq(ResponseMessages)
      /\ DOMAIN cached_objects_ = Conns
    BY DEF RpcInv, SubTypeOK, IInv, TypeOK
<1>1. CASE ReceiveResponse(c)
    <2>1. Head(toClient[c]) \in ResponseMessages
        BY <1>0, <1>1 DEF ReceiveResponse
    <2>2. storing' = [storing EXCEPT ![c] = <<Head(toClient[c])>>]
        BY <1>1 DEF ReceiveResponse
    <2>3. storing' \in [Conns -> Seq(ResponseMessages)] /\ storing'[c] = <<Head(toClient[c])>>
        BY <1>0, <2>1, <2>2
    <2>4. \A d \in Conns : Len(storing'[d]) <= 1
        <3>1. Len(storing'[c]) = 1
            BY <2>1, <2>3
        <3>2. \A d \in Conns : d # c => storing'[d] = storing[d]
            BY <1>0, <2>2
        <3>3. \A d \in Conns : Len(storing[d]) <= 1
            BY DEF RpcInv, SubTypeOK
        <3> QED BY <3>1, <3>2, <3>3
    <2>5. stream_' \in [Conns -> ClientStreams]
        <3>1. [stream_[c] EXCEPT !.read = "pending"] \in ClientStreams
            BY <1>0 DEF ClientStreams
        <3> QED BY <1>0, <1>1, <3>1 DEF ReceiveResponse
    <2>6. SubTypeOK'
        BY <1>1, <2>3, <2>4, <2>5 DEF ReceiveResponse, RpcInv, SubTypeOK
    <2> QED BY <1>1, <2>6 DEF ReceiveResponse, RpcInv, Polling, Wanted
<1>2. CASE StoreResponse(c)
    <2> DEFINE m == storing[c][1]
    <2>1. m \in ResponseMessages
        BY <1>0, <1>2 DEF StoreResponse
    <2>2. /\ cached_objects_' = [cached_objects_ EXCEPT ![c] = Entered(@, m)]
          /\ storing' = [storing EXCEPT ![c] = << >>]
        BY <1>2 DEF StoreResponse
    <2> HIDE DEF m
    <2>3. DOMAIN cached_objects_' = Conns /\ cached_objects_'[c] = Entered(cached_objects_[c], m)
          /\ \A d \in Conns : d # c => cached_objects_'[d] = cached_objects_[d]
        BY <1>0, <2>2
    <2>4. storing' \in [Conns -> Seq(ResponseMessages)]
        BY <1>0, <2>2
    <2>5. \A d \in Conns : Len(storing'[d]) <= 1
        BY <1>0, <2>2 DEF RpcInv, SubTypeOK
    <2>6. ASSUME NEW d \in Conns
          PROVE  /\ DOMAIN cached_objects_'[d] \subseteq ObjectIds
                 /\ DOMAIN cached_objects_[d] \subseteq DOMAIN cached_objects_'[d]
                 /\ \A o \in DOMAIN cached_objects_'[d] : cached_objects_'[d][o] \in Seq(Values)
        <3>1. CASE d = c
            BY <2>1, <2>3, <3>1 DEF Entered, ResponseMessages, RpcInv, SubTypeOK
        <3>2. CASE d # c
            BY <2>3, <3>2 DEF RpcInv, SubTypeOK
        <3> QED BY <3>1, <3>2
    <2>7. SubTypeOK'
        BY <1>2, <2>3, <2>4, <2>5, <2>6 DEF StoreResponse, RpcInv, SubTypeOK
    <2>8. \A u \in Users : ClientOf[u] \in Conns
        BY ClientAssumption
    <2> QED BY <1>2, <2>6, <2>7, <2>8 DEF StoreResponse, RpcInv, Polling, Wanted
<1>3. ASSUME stream_' \in [Conns -> ClientStreams],
             client' \in [Conns -> {"new", "ready", "closed", "aborted"}],
             UNCHANGED <<curr_object_id_, storing, cached_objects_, user, futures, issued>>
      PROVE  SubTypeOK' /\ Polling'
    <2>1. SubTypeOK'
        BY <1>3 DEF RpcInv, SubTypeOK
    <2> QED BY <1>3, <2>1 DEF RpcInv, Polling, Wanted
<1>4. CASE ReadEnds(c)
    <2>1. [stream_[c] EXCEPT !.read = "ended"] \in ClientStreams
        BY <1>0 DEF ClientStreams
    <2> QED BY <1>0, <1>3, <1>4, <2>1 DEF ReadEnds
<1>5. CASE OnSubmitError(c)
    <2>1. LET s == [[stream_[c] EXCEPT !.socket_ = "closed"] EXCEPT !.write = "ok"]
          IN  s \in ClientStreams /\ [s EXCEPT !.read = "completed"] \in ClientStreams
        BY <1>0 DEF ClientStreams
    <2>2. stream_' \in [Conns -> ClientStreams]
        BY <1>0, <1>5, <2>1 DEF OnSubmitError
    <2> QED BY <1>0, <1>3, <1>5, <2>2 DEF OnSubmitError
<1>6. CASE ClientInit(c)
    <2>1. [[stream_[c] EXCEPT !.socket_ = "open"] EXCEPT !.read = "pending"] \in ClientStreams
        BY <1>0 DEF ClientStreams
    <2>2. stream_' \in [Conns -> ClientStreams]
        BY <1>0, <1>6, <2>1 DEF ClientInit
    <2> QED BY <1>0, <1>3, <1>6, <2>2 DEF ClientInit
<1>7. CASE Destroy(c)
    BY <1>0, <1>3, <1>7 DEF Destroy
<1>8. CASE UNCHANGED subVars
    BY <1>0, <1>3, <1>8 DEF subVars
<1> QED BY <1>1, <1>2, <1>4, <1>5, <1>6, <1>7, <1>8 DEF ClientIoNext, LinkStep

(* How the clients change the wire: Submit adds a message, ReceiveResponse *)
(* takes one, and a connection is opened or lost.                          *)
LEMMA ClientWire ==
  ASSUME RpcInv, UNCHANGED execVars,
         \/ \E u \in Users : UserStep(u)
         \/ \E c \in Conns : ClientIoNext(c) \/ LinkStep(c)
         \/ UNCHANGED <<subVars, wireVars>>
  PROVE  /\ \A c \in Conns : link[c] = "cut" => link'[c] = "cut"
         /\ link' \in [Conns -> {"none", "up", "cut"}]
         /\ UNCHANGED toServer \/ \E u \in Users : Submit(u)
         /\ UNCHANGED toClient \/ \E c \in Conns : ReceiveResponse(c)
<1> USE DEF wireVars
<1>0. link \in [Conns -> {"none", "up", "cut"}] /\ \A u \in Users : ClientOf[u] \in Conns
    BY ClientAssumption DEF RpcInv, IInv, TypeOK
<1>1. ASSUME NEW u \in Users, UserStep(u), ~ Submit(u)
      PROVE  /\ UNCHANGED <<toServer, toClient>>
             /\ UNCHANGED link \/ link' = [link EXCEPT ![ClientOf[u]] = "cut"]
    BY <1>1 DEF UserStep, RequestObjectID, SubmitLost, BeginGet, PollFound, ReadCached,
        ReadThrows, ReadRaces
<1>2. ASSUME NEW u \in Users, Submit(u) PROVE UNCHANGED <<toClient, link>>
    BY <1>2 DEF Submit
<1>3. ASSUME NEW c \in Conns, ClientIoNext(c), ~ ReceiveResponse(c) PROVE UNCHANGED wireVars
    BY <1>3 DEF ClientIoNext, StoreResponse, ReadEnds, OnSubmitError
<1>4. ASSUME NEW c \in Conns, ReceiveResponse(c) PROVE UNCHANGED <<toServer, link>>
    BY <1>4 DEF ReceiveResponse
<1>5. ASSUME NEW c \in Conns, LinkStep(c)
      PROVE  /\ UNCHANGED <<toServer, toClient>>
             /\ \/ link[c] = "none" /\ link' = [link EXCEPT ![c] = "up"]
                \/ link' = [link EXCEPT ![c] = "cut"]
    BY <1>5 DEF LinkStep, ClientInit, Destroy, LinkCut
<1>6. CASE UNCHANGED <<subVars, wireVars>>
    BY <1>0, <1>6
<1> QED BY <1>0, <1>1, <1>2, <1>3, <1>4, <1>5, <1>6

(* No step of the clients breaks the types of the wire, and a message is   *)
(* only taken from the wire, never changed.                                *)
LEMMA ClientKeeps ==
  ASSUME RpcInv, UNCHANGED execVars,
         \/ \E u \in Users : UserStep(u)
         \/ \E c \in Conns : ClientIoNext(c) \/ LinkStep(c)
         \/ UNCHANGED <<subVars, wireVars>>
  PROVE  IInv' /\ HistoryGrows
<1> USE DEF wireVars
<1>1. toServer' \in [Conns -> Seq(RequestMessages)]
    <2>1. ASSUME NEW u \in Users, Submit(u) PROVE toServer' \in [Conns -> Seq(RequestMessages)]
        <3> DEFINE m == [object_id |-> user[u].object_id % IdSpace, data |-> user[u].body]
        <3>1. user[u].object_id \in Nat /\ user[u].body \in Bodies
            BY <2>1, UserFields DEF Submit, RpcInv, SubTypeOK
        <3>2. m \in RequestMessages
            BY <3>1, WireId DEF RequestMessages
        <3>3. toServer' = [toServer EXCEPT ![ClientOf[u]] = Append(@, m)]
            BY <2>1 DEF Submit
        <3> HIDE DEF m
        <3> QED BY <3>2, <3>3, ClientAssumption DEF RpcInv, IInv, TypeOK
    <2> QED BY <2>1, ClientWire DEF RpcInv, IInv, TypeOK
<1>2. toClient' \in [Conns -> Seq(ResponseMessages)]
    <2>1. ASSUME NEW c \in Conns, ReceiveResponse(c) PROVE toClient' \in [Conns -> Seq(ResponseMessages)]
        BY <2>1 DEF ReceiveResponse, RpcInv, IInv, TypeOK
    <2> QED BY <2>1, ClientWire DEF RpcInv, IInv, TypeOK
<1>3. link' \in [Conns -> {"none", "up", "cut"}]
    BY ClientWire
<1>4. TypeOK'
    BY <1>1, <1>2, <1>3 DEF RpcInv, IInv, TypeOK, execVars
<1>5. Correlated' /\ HistoryGrows /\ (UNCHANGED toClient => AnswersItsRequest')
    BY Untouched DEF RpcInv
<1>6. ASSUME NEW c \in Conns, ReceiveResponse(c) PROVE AnswersItsRequest'
    <2>1. UNCHANGED received
        BY DEF execVars
    <2>2. \A d \in Conns : \A i \in DOMAIN toClient'[d] :
            \E j \in DOMAIN toClient[d] : toClient'[d][i] = toClient[d][j]
        <3>1. toClient[c] \in Seq(ResponseMessages) /\ toClient[c] # << >>
              /\ toClient'[c] = Tail(toClient[c]) /\ \A d \in Conns : d # c => toClient'[d] = toClient[d]
            BY <1>6 DEF ReceiveResponse, RpcInv, IInv, TypeOK
        <3>2. \A i \in DOMAIN toClient'[c] : i + 1 \in DOMAIN toClient[c] /\ toClient'[c][i] = toClient[c][i + 1]
            BY <3>1, TailShifts
        <3> QED BY <3>1, <3>2
    <2> QED BY <2>1, <2>2 DEF AnswersItsRequest, RpcInv, IInv
<1> QED BY <1>4, <1>5, <1>6, ClientWire DEF IInv

(* Every step preserves RpcInv and only adds to the histories.             *)
LEMMA RpcStep == RpcInv /\ [Next]_vars => RpcInv' /\ HistoryGrows
<1> SUFFICES ASSUME RpcInv, [Next]_vars PROVE RpcInv' /\ HistoryGrows
    OBVIOUS
<1>0. ASSUME UNCHANGED subVars PROVE SubTypeOK' /\ Polling'
    BY <1>0 DEF subVars, RpcInv, SubTypeOK, Polling, Wanted
<1>1. CASE ExecNext /\ UNCHANGED subVars
    BY <1>0, <1>1, ServerStep DEF RpcInv
<1>2. ASSUME UNCHANGED execVars,
             \/ \E u \in Users : UserStep(u)
             \/ \E c \in Conns : ClientIoNext(c) \/ LinkStep(c)
             \/ UNCHANGED <<subVars, wireVars>>
      PROVE  RpcInv' /\ HistoryGrows
    <2>1. IInv' /\ HistoryGrows
        BY <1>2, ClientKeeps
    <2>2. SubTypeOK' /\ Polling'
        <3>1. CASE UNCHANGED <<subVars, wireVars>>
            BY <1>0, <3>1
        <3> QED BY <1>2, <3>1, UserTypes, ClientTypes
    <2> QED BY <2>1, <2>2 DEF RpcInv
<1> QED BY <1>1, <1>2, Steps

(* RpcInv holds initially.                                                 *)
LEMMA InitRpc == Init => RpcInv
<1> SUFFICES ASSUME Init PROVE RpcInv
    OBVIOUS
<1>1. IInv
    BY InitType, InitCorrelated DEF Init, IInv
<1>2. SubTypeOK
    BY DEF Init, SubInit, SubTypeOK, ClientStreams, UserStates
<1>3. Polling
    BY DEF Init, SubInit, Polling, Between
<1> QED BY <1>1, <1>2, <1>3 DEF RpcInv

(* The inductive invariant of the types.                                   *)
THEOREM RpcInvariance == Spec => []RpcInv
BY InitRpc, RpcStep, PTL DEF Spec

(* Type correctness of the client, whatever the number of calls.           *)
THEOREM ClientTypeCorrect == Spec => []SubTypeOK
<1>1. RpcInv => SubTypeOK
    BY DEF RpcInv
<1> QED BY <1>1, RpcInvariance, PTL

-----------------------------------------------------------------------------
(* What the steps that carry a call or its result do.                      *)

(* The handler of a read takes the first message under way.                *)
LEMMA ReadEffect ==
  ASSUME IInv, NEW c \in Conns, MessageRead(c)
  PROVE  /\ 1 \in DOMAIN toServer[c]
         /\ \A d \in Conns : d # c => received'[d] = received[d] /\ toServer'[d] = toServer[d]
         /\ \A k \in DOMAIN received'[c] :
              \/ k \in DOMAIN received[c] /\ received'[c][k] = received[c][k]
              \/ received'[c][k] = toServer[c][1]
         /\ \A k \in DOMAIN toServer'[c] :
              /\ k \in Nat /\ k >= 1
              /\ k + 1 \in DOMAIN toServer[c] /\ toServer'[c][k] = toServer[c][k + 1]
<1>1. /\ received[c] \in Seq(RequestMessages) /\ toServer[c] \in Seq(RequestMessages)
      /\ toServer[c] # << >>
      /\ received'[c] = Append(received[c], Head(toServer[c])) /\ toServer'[c] = Tail(toServer[c])
      /\ \A d \in Conns : d # c => received'[d] = received[d] /\ toServer'[d] = toServer[d]
    BY DEF MessageRead, IInv, TypeOK
<1>2. 1 \in DOMAIN toServer[c] /\ Head(toServer[c]) = toServer[c][1] /\ toServer[c][1] \in RequestMessages
    BY <1>1
<1>3. ASSUME NEW k \in DOMAIN received'[c]
      PROVE  \/ k \in DOMAIN received[c] /\ received'[c][k] = received[c][k]
             \/ received'[c][k] = toServer[c][1]
    BY <1>1, <1>2, AppendKeeps
<1>4. ASSUME NEW k \in DOMAIN toServer'[c]
      PROVE  /\ k \in Nat /\ k >= 1
             /\ k + 1 \in DOMAIN toServer[c] /\ toServer'[c][k] = toServer[c][k + 1]
    <2>1. k \in Nat /\ k >= 1
        BY <1>1
    <2> QED BY <1>1, <2>1, TailShifts
<1> QED BY <1>1, <1>2, <1>3, <1>4

(* InternalCall returns a future for the call of its user.                 *)
LEMMA FutureEffect ==
  ASSUME SubTypeOK, NEW u \in Users, user[u].pc = "submit", ReturnFuture(u)
  PROVE  /\ user'[u] = Between
         /\ \A v \in Users : v # u => user'[v] = user[v] /\ futures'[v] = futures[v]
         /\ \A k \in DOMAIN futures'[u] :
              \/ /\ k \in DOMAIN futures[u]
                 /\ futures'[u][k] = futures[u][k]
              \/ /\ k = Len(futures[u]) + 1 /\ k \notin DOMAIN futures[u]
                 /\ futures'[u][k] = [object_id_ |-> user[u].object_id, body |-> user[u].body,
                                      data_ptr_ |-> << >>]
<1> DEFINE f == [object_id_ |-> user[u].object_id, body |-> user[u].body, data_ptr_ |-> << >>]
<1>1. /\ futures \in [Users -> Seq(Futures)] /\ user \in [Users -> UserStates]
      /\ futures' = [futures EXCEPT ![u] = Append(@, f)] /\ user' = [user EXCEPT ![u] = Between]
    BY DEF SubTypeOK, ReturnFuture
<1>2. f \in Futures
    BY <1>1, UserFields DEF Futures
<1> HIDE DEF f
<1>3. futures[u] \in Seq(Futures) /\ futures'[u] = Append(futures[u], f)
    BY <1>1
<1>4. ASSUME NEW k \in DOMAIN futures'[u]
      PROVE  \/ k \in DOMAIN futures[u] /\ futures'[u][k] = futures[u][k]
             \/ k = Len(futures[u]) + 1 /\ k \notin DOMAIN futures[u] /\ futures'[u][k] = f
    BY <1>2, <1>3
<1> QED BY <1>1, <1>4 DEF f

(* The futures that a user has stay as they are when a call returns.       *)
LEMMA FuturesKept ==
  ASSUME SubTypeOK, NEW u \in Users, user[u].pc = "submit", ReturnFuture(u)
  PROVE  \A v \in Users : \A k \in DOMAIN futures[v] :
           k \in DOMAIN futures'[v] /\ futures'[v][k] = futures[v][k]
<1> DEFINE f == [object_id_ |-> user[u].object_id, body |-> user[u].body, data_ptr_ |-> << >>]
<1>1. /\ futures \in [Users -> Seq(Futures)] /\ user \in [Users -> UserStates]
      /\ futures' = [futures EXCEPT ![u] = Append(@, f)]
    BY DEF SubTypeOK, ReturnFuture
<1>2. f \in Futures
    BY <1>1, UserFields DEF Futures
<1> HIDE DEF f
<1>3. futures[u] \in Seq(Futures) /\ futures'[u] = Append(futures[u], f)
      /\ \A v \in Users : v # u => futures'[v] = futures[v]
    BY <1>1
<1>4. \A k \in DOMAIN futures[u] : k \in DOMAIN futures'[u] /\ futures'[u][k] = futures[u][k]
    BY <1>2, <1>3
<1> QED BY <1>3, <1>4

(* Submit puts the call of its user on the wire, under its id as long as   *)
(* ids fit.                                                                *)
LEMMA SubmitEffect ==
  ASSUME MaxCalls <= IdSpace, RpcInv, Counted, SubmitsIssued, NEW u \in Users, Submit(u)
  PROVE  /\ \A d \in Conns : d # ClientOf[u] => toServer'[d] = toServer[d]
         /\ \A k \in DOMAIN toServer'[ClientOf[u]] :
              \/ /\ k \in DOMAIN toServer[ClientOf[u]]
                 /\ toServer'[ClientOf[u]][k] = toServer[ClientOf[u]][k]
              \/ /\ k = Len(toServer[ClientOf[u]]) + 1
                 /\ toServer'[ClientOf[u]][k] = [object_id |-> user[u].object_id, data |-> user[u].body]
<1> DEFINE c == ClientOf[u]
           m == [object_id |-> user[u].object_id, data |-> user[u].body]
<1>1. /\ c \in Conns /\ toServer[c] \in Seq(RequestMessages)
      /\ toServer \in [Conns -> Seq(RequestMessages)]
    BY ClientAssumption DEF RpcInv, IInv, TypeOK
<1>2. user[u].object_id \in Nat /\ user[u].body \in Bodies
    BY UserFields DEF Submit, RpcInv, SubTypeOK
<1>3. user[u].object_id < IdSpace
    <2>1. user[u].object_id + 1 \in DOMAIN issued[c] /\ issued[c] \in Seq(Bodies)
        BY <1>1 DEF Submit, SubmitsIssued, IsIssued, RpcInv, SubTypeOK
    <2>2. user[u].object_id + 1 <= Len(issued[c]) /\ Len(issued[c]) \in Nat
        BY <2>1
    <2> QED BY <1>1, <1>2, <2>2, MaxCallsAssumption, IdAssumption DEF Counted
<1>4. user[u].object_id % IdSpace = user[u].object_id /\ user[u].object_id % IdSpace \in ObjectIds
    BY <1>2, <1>3, WireId
<1>5. m \in RequestMessages
    BY <1>2, <1>4 DEF RequestMessages
<1>6. toServer' = [toServer EXCEPT ![c] = Append(@, m)]
    BY <1>4 DEF Submit
<1> HIDE DEF m
<1>7. ASSUME NEW k \in DOMAIN toServer'[c]
      PROVE  \/ k \in DOMAIN toServer[c] /\ toServer'[c][k] = toServer[c][k]
             \/ k = Len(toServer[c]) + 1 /\ toServer'[c][k] = m
    <2>1. toServer'[c] = Append(toServer[c], m)
        BY <1>1, <1>6
    <2> QED BY <1>1, <1>5, <2>1
<1>8. \A d \in Conns : d # c => toServer'[d] = toServer[d]
    BY <1>1, <1>6
<1> QED BY <1>7, <1>8 DEF m

(* Get fills in the future its user waits for.                             *)
LEMMA GetEffect ==
  ASSUME RpcInv, NEW u \in Users, ReadCached(u)
  PROVE  /\ user'[u] = Between /\ \A v \in Users : v # u => user'[v] = user[v] /\ futures'[v] = futures[v]
         /\ DOMAIN futures'[u] = DOMAIN futures[u]
         /\ user[u].future \in DOMAIN futures[u]
         /\ \A k \in DOMAIN futures[u] :
              /\ futures'[u][k].object_id_ = futures[u][k].object_id_
              /\ futures'[u][k].body = futures[u][k].body
              /\ k # user[u].future => futures'[u][k] = futures[u][k]
         /\ futures'[u][user[u].future].data_ptr_ = cached_objects_[ClientOf[u]][Wanted(u)]
         /\ futures[u][user[u].future].data_ptr_ = << >>
         /\ Wanted(u) \in DOMAIN cached_objects_[ClientOf[u]]
<1> DEFINE k == user[u].future
           bytes == cached_objects_[ClientOf[u]][Wanted(u)]
<1>1. /\ futures \in [Users -> Seq(Futures)] /\ user \in [Users -> UserStates]
      /\ futures' = [futures EXCEPT ![u][k].data_ptr_ = bytes] /\ user' = [user EXCEPT ![u] = Between]
    BY DEF RpcInv, SubTypeOK, ReadCached
<1>2. /\ k \in DOMAIN futures[u] /\ Wanted(u) \in DOMAIN cached_objects_[ClientOf[u]]
      /\ futures[u][k].data_ptr_ = << >>
    BY DEF RpcInv, Polling, ReadCached
<1> HIDE DEF bytes
<1>3. futures'[u] = [futures[u] EXCEPT ![k].data_ptr_ = bytes]
    BY <1>1
<1>4. futures[u] \in Seq(Futures) /\ futures[u][k] \in Futures
    BY <1>1, <1>2
<1>5. /\ futures'[u][k] = [futures[u][k] EXCEPT !.data_ptr_ = bytes]
      /\ DOMAIN futures'[u] = DOMAIN futures[u]
      /\ \A j \in DOMAIN futures[u] : j # k => futures'[u][j] = futures[u][j]
    BY <1>2, <1>3
<1>6. /\ futures'[u][k].data_ptr_ = bytes
      /\ futures'[u][k].object_id_ = futures[u][k].object_id_
      /\ futures'[u][k].body = futures[u][k].body
    BY <1>4, <1>5 DEF Futures
<1>7. user'[u] = Between /\ \A v \in Users : v # u => user'[v] = user[v] /\ futures'[v] = futures[v]
    BY <1>1
<1> QED BY <1>2, <1>5, <1>6, <1>7 DEF bytes

(* RequestObjectID hands out the number of the calls so far.               *)
LEMMA RequestEffect ==
  ASSUME RpcInv, Counted, NEW u \in Users, NEW body \in Calls, RequestObjectID(u, body)
  PROVE  /\ user'[u].object_id = Len(issued[ClientOf[u]]) /\ user'[u].body = body
         /\ \A v \in Users : v # u => user'[v] = user[v]
         /\ IsIssued(issued'[ClientOf[u]], Len(issued[ClientOf[u]]), body)
         /\ Counted'
         /\ \A c \in Conns : \A k \in DOMAIN issued[c] :
              k \in DOMAIN issued'[c] /\ issued'[c][k] = issued[c][k]
         /\ UNCHANGED <<futures, storing, cached_objects_, toServer, toClient>>
<1> USE DEF wireVars
<1> DEFINE c == ClientOf[u]
<1>1. /\ c \in Conns /\ issued[c] \in Seq(Bodies) /\ body \in Bodies
      /\ issued \in [Conns -> Seq(Bodies)] /\ user \in [Users -> UserStates]
      /\ curr_object_id_ \in [Conns -> Nat]
    BY ClientAssumption, CallsAssumption DEF RpcInv, SubTypeOK
<1>2. curr_object_id_[c] = Len(issued[c]) /\ Len(issued[c]) \in Nat /\ Len(issued[c]) < MaxCalls
    BY <1>1 DEF Counted, RequestObjectID
<1>3. user' = [user EXCEPT ![u] = [pc |-> "submit", object_id |-> curr_object_id_[c], body |-> body]]
    BY DEF RequestObjectID
<1>4. /\ issued'[c] = Append(issued[c], body) /\ curr_object_id_'[c] = curr_object_id_[c] + 1
      /\ \A d \in Conns : d # c => issued'[d] = issued[d] /\ curr_object_id_'[d] = curr_object_id_[d]
    BY <1>1 DEF RequestObjectID
<1>5. /\ DOMAIN issued'[c] = DOMAIN issued[c] \cup {Len(issued[c]) + 1}
      /\ \A k \in DOMAIN issued[c] : issued'[c][k] = issued[c][k]
      /\ issued'[c][Len(issued[c]) + 1] = body
    BY <1>1, <1>4, AppendKeeps
<1>6. Counted'
    <2>1. Len(issued'[c]) = Len(issued[c]) + 1
        BY <1>1, <1>4
    <2>2. curr_object_id_'[c] = Len(issued'[c]) /\ Len(issued'[c]) <= MaxCalls
        BY <1>2, <1>4, <2>1, MaxCallsAssumption
    <2> QED BY <1>4, <2>2 DEF Counted
<1>7. UNCHANGED <<futures, storing, cached_objects_, toServer, toClient>>
    BY DEF RequestObjectID
<1>8. user'[u].object_id = Len(issued[c]) /\ user'[u].body = body
      /\ \A v \in Users : v # u => user'[v] = user[v]
    BY <1>1, <1>2, <1>3
<1> QED BY <1>1, <1>2, <1>4, <1>5, <1>6, <1>7, <1>8 DEF IsIssued

(* Getting ready to read a result, or failing to, changes no call.         *)
LEMMA QuietEffect ==
  ASSUME RpcInv, NEW u \in Users,
         (\E k \in DOMAIN futures[u] : BeginGet(u, k)) \/ PollFound(u) \/ ReadThrows(u) \/ ReadRaces(u)
  PROVE  /\ UNCHANGED <<futures, issued, curr_object_id_, storing, cached_objects_, toServer, toClient>>
         /\ user'[u].pc # "submit" /\ \A v \in Users : v # u => user'[v] = user[v]
<1> USE DEF wireVars
<1>0. user \in [Users -> UserStates] /\ user[u] \in UserStates
    BY DEF RpcInv, SubTypeOK
<1>1. ASSUME NEW k, BeginGet(u, k)
      PROVE  /\ UNCHANGED <<futures, issued, curr_object_id_, storing, cached_objects_, toServer, toClient>>
             /\ user'[u].pc # "submit" /\ \A v \in Users : v # u => user'[v] = user[v]
    BY <1>0, <1>1 DEF BeginGet
<1>2. CASE PollFound(u)
    <2>1. user[u].pc = "poll" /\ user' = [user EXCEPT ![u].pc = "read"]
        BY <1>2 DEF PollFound
    <2>2. user[u] \in [pc : {"poll", "read"}, future : Nat]
        BY <1>0, <2>1 DEF UserStates, Between
    <2>3. user'[u].pc = "read"
        BY <1>0, <2>1, <2>2
    <2> QED BY <1>0, <1>2, <2>1, <2>3 DEF PollFound
<1>3. CASE ReadThrows(u)
    BY <1>0, <1>3 DEF ReadThrows, Between
<1>4. CASE ReadRaces(u)
    BY <1>0, <1>4 DEF ReadRaces
<1> QED BY <1>1, <1>2, <1>3, <1>4

(* What was issued stays issued.                                           *)
IssuedGrows ==
  \A c \in Conns : \A k \in DOMAIN issued[c] :
    k \in DOMAIN issued'[c] /\ issued'[c][k] = issued[c][k]

(* IsIssued goes on holding.                                               *)
LEMMA IssuedKept ==
  ASSUME IssuedGrows, NEW c \in Conns, NEW o, NEW body, IsIssued(issued[c], o, body)
  PROVE  IsIssued(issued'[c], o, body)
BY DEF IssuedGrows, IsIssued

(* A part of Asked holds after a step that leaves its variables alone.     *)
LEMMA AskedFrame ==
  ASSUME RpcInv, Asked, IssuedGrows
  PROVE  /\ UNCHANGED futures => FuturesIssued'
         /\ UNCHANGED toServer => SentIssued'
         /\ UNCHANGED received => ReceivedIssued'
         /\ \A u \in Users : user'[u].pc = "submit" /\ user'[u] = user[u] =>
              IsIssued(issued'[ClientOf[u]], user'[u].object_id, user'[u].body)
<1>0. \A u \in Users : ClientOf[u] \in Conns
    BY ClientAssumption
<1>1. UNCHANGED futures => FuturesIssued'
    BY <1>0, IssuedKept DEF Asked, FuturesIssued
<1>2. UNCHANGED toServer => SentIssued'
    BY IssuedKept DEF Asked, SentIssued
<1>3. UNCHANGED received => ReceivedIssued'
    BY IssuedKept DEF Asked, ReceivedIssued
<1>4. \A u \in Users : user'[u].pc = "submit" /\ user'[u] = user[u] =>
        IsIssued(issued'[ClientOf[u]], user'[u].object_id, user'[u].body)
    BY <1>0, IssuedKept DEF Asked, SubmitsIssued
<1> QED BY <1>1, <1>2, <1>3, <1>4

(* Nothing but RequestObjectID makes a call, and every step keeps the      *)
(* calls that are under way.                                               *)
LEMMA AskedStep ==
  ASSUME MaxCalls <= IdSpace, RpcInv, Asked, [Next]_vars
  PROVE  Asked' /\ IssuedGrows
<1> USE DEF wireVars
<1>0. \A u \in Users : ClientOf[u] \in Conns
    BY ClientAssumption
<1>1. ASSUME UNCHANGED <<issued, curr_object_id_>> PROVE IssuedGrows /\ Counted'
    BY <1>1 DEF IssuedGrows, Counted, Asked
<1>2. CASE ExecNext /\ UNCHANGED subVars
    <2>1. IssuedGrows /\ Counted' /\ UNCHANGED <<user, futures, issued>>
        BY <1>1, <1>2 DEF subVars
    <2>2. SubmitsIssued' /\ FuturesIssued'
        BY <2>1, AskedFrame DEF SubmitsIssued
    <2>3. ASSUME NEW c \in Conns, QueueRequest(c) \/ PerformInline(c) PROVE SentIssued' /\ ReceivedIssued'
        <3>1. MessageRead(c) /\ IInv
            BY <2>3 DEF QueueRequest, PerformInline, RpcInv
        <3>2. ASSUME NEW d \in Conns, NEW k \in DOMAIN toServer'[d]
              PROVE  IsIssued(issued[d], toServer'[d][k].object_id, toServer'[d][k].data)
            <4>1. \E j \in DOMAIN toServer[d] : toServer'[d][k] = toServer[d][j]
                BY <3>1, <3>2, ReadEffect
            <4> QED BY <4>1 DEF Asked, SentIssued
        <3>3. ASSUME NEW d \in Conns, NEW k \in DOMAIN received'[d]
              PROVE  IsIssued(issued[d], received'[d][k].object_id, received'[d][k].data)
            <4>1. \/ \E j \in DOMAIN toServer[d] : received'[d][k] = toServer[d][j]
                  \/ \E j \in DOMAIN received[d] : received'[d][k] = received[d][j]
                BY <3>1, <3>3, ReadEffect
            <4> QED BY <4>1 DEF Asked, SentIssued, ReceivedIssued
        <3> QED BY <2>1, <3>2, <3>3, IssuedKept DEF SentIssued, ReceivedIssued
    <2>4. SentIssued' /\ ReceivedIssued'
        <3>1. CASE UNCHANGED <<received, toServer>>
            BY <2>1, <3>1, AskedFrame
        <3> QED BY <1>2, <2>3, <3>1, WireSteps DEF RpcInv
    <2> QED BY <2>1, <2>2, <2>4 DEF Asked
<1>3. ASSUME UNCHANGED execVars, NEW u \in Users, UserStep(u) PROVE Asked' /\ IssuedGrows
    <2>0. UNCHANGED received
        BY <1>3 DEF execVars
    <2>1. ASSUME NEW body \in Calls, RequestObjectID(u, body) PROVE Asked' /\ IssuedGrows
        <3>1. IssuedGrows /\ Counted' /\ UNCHANGED <<futures, toServer>>
            BY <2>1, RequestEffect DEF IssuedGrows, Asked
        <3>2. FuturesIssued' /\ SentIssued' /\ ReceivedIssued'
            BY <2>0, <3>1, AskedFrame
        <3>3. ASSUME NEW v \in Users, user'[v].pc = "submit"
              PROVE  IsIssued(issued'[ClientOf[v]], user'[v].object_id, user'[v].body)
            <4>1. CASE v = u
                <5>2. user'[u].object_id = Len(issued[ClientOf[u]]) /\ user'[u].body = body
                    BY <2>1, RequestEffect DEF Asked
                <5>3. IsIssued(issued'[ClientOf[u]], Len(issued[ClientOf[u]]), body)
                    BY <2>1, RequestEffect DEF Asked
                <5> QED BY <4>1, <5>2, <5>3 DEF IsIssued
            <4>2. CASE v # u
                <5>1. user'[v] = user[v]
                    BY <2>1, <4>2, RequestEffect DEF Asked
                <5> QED BY <3>1, <3>3, <5>1, AskedFrame
            <4> QED BY <4>1, <4>2
        <3> QED BY <3>1, <3>2, <3>3 DEF Asked, SubmitsIssued
    <2>2. ASSUME user[u].pc = "submit", ReturnFuture(u), UNCHANGED <<issued, curr_object_id_>>
          PROVE  FuturesIssued' /\ SubmitsIssued' /\ Counted' /\ IssuedGrows
        <3>1. Counted' /\ IssuedGrows
            BY <1>1, <2>2
        <3>2. SubTypeOK
            BY DEF RpcInv
        <3>3. ASSUME NEW v \in Users, NEW k \in DOMAIN futures'[v]
              PROVE  IsIssued(issued[ClientOf[v]], futures'[v][k].object_id_, futures'[v][k].body)
            <4>1. \/ \E j \in DOMAIN futures[v] : futures'[v][k] = futures[v][j]
                  \/ v = u /\ futures'[v][k] = [object_id_ |-> user[u].object_id, body |-> user[u].body,
                                                data_ptr_ |-> << >>]
                BY <2>2, <3>2, <3>3, FutureEffect
            <4> QED BY <2>2, <4>1 DEF Asked, FuturesIssued, SubmitsIssued
        <3>4. FuturesIssued'
            BY <1>0, <3>1, <3>3, IssuedKept DEF FuturesIssued
        <3>5. SubmitsIssued'
            <4>1. user'[u].pc # "submit" /\ \A v \in Users : v # u => user'[v] = user[v]
                <5>1. user'[u] = Between /\ \A v \in Users : v # u => user'[v] = user[v]
                    BY <2>2, <3>2, FutureEffect
                <5> QED BY <5>1 DEF Between
            <4> QED BY <3>1, <4>1, AskedFrame DEF SubmitsIssued
        <3> QED BY <3>1, <3>4, <3>5
    <2>3. CASE Submit(u)
        <3>1. FuturesIssued' /\ SubmitsIssued' /\ Counted' /\ IssuedGrows
            BY <2>2, <2>3 DEF Submit
        <3>2. ASSUME NEW d \in Conns, NEW k \in DOMAIN toServer'[d]
              PROVE  IsIssued(issued[d], toServer'[d][k].object_id, toServer'[d][k].data)
            <4>1. \/ \E j \in DOMAIN toServer[d] : toServer'[d][k] = toServer[d][j]
                  \/ d = ClientOf[u] /\ toServer'[d][k] = [object_id |-> user[u].object_id, data |-> user[u].body]
                BY <2>3, <3>2, SubmitEffect DEF Asked
            <4> QED BY <2>3, <4>1 DEF Submit, Asked, SentIssued, SubmitsIssued
        <3>3. SentIssued'
            BY <3>1, <3>2, IssuedKept DEF SentIssued
        <3> QED BY <2>0, <3>1, <3>3, AskedFrame DEF Asked
    <2>4. CASE SubmitLost(u)
        <3>1. FuturesIssued' /\ SubmitsIssued' /\ Counted' /\ IssuedGrows /\ UNCHANGED toServer
            BY <2>2, <2>4 DEF SubmitLost
        <3> QED BY <2>0, <3>1, AskedFrame DEF Asked
    <2>5. CASE ReadCached(u)
        <3>1. Counted' /\ IssuedGrows /\ UNCHANGED toServer
            BY <1>1, <2>5 DEF ReadCached
        <3>2. ASSUME NEW v \in Users, NEW k \in DOMAIN futures'[v]
              PROVE  IsIssued(issued[ClientOf[v]], futures'[v][k].object_id_, futures'[v][k].body)
            <4>1. k \in DOMAIN futures[v] /\ futures'[v][k].object_id_ = futures[v][k].object_id_
                  /\ futures'[v][k].body = futures[v][k].body
                BY <2>5, <3>2, GetEffect
            <4> QED BY <4>1 DEF Asked, FuturesIssued
        <3>3. FuturesIssued'
            BY <1>0, <3>1, <3>2, IssuedKept DEF FuturesIssued
        <3>4. SubmitsIssued'
            BY <2>5, <3>1, GetEffect, AskedFrame DEF SubmitsIssued, Between
        <3> QED BY <2>0, <3>1, <3>3, <3>4, AskedFrame DEF Asked
    <2>6. CASE (\E k \in DOMAIN futures[u] : BeginGet(u, k)) \/ PollFound(u) \/ ReadThrows(u) \/ ReadRaces(u)
        <3>1. /\ UNCHANGED <<futures, issued, curr_object_id_, toServer>>
              /\ user'[u].pc # "submit" /\ \A v \in Users : v # u => user'[v] = user[v]
            BY <2>6, QuietEffect
        <3>2. Counted' /\ IssuedGrows
            BY <1>1, <3>1
        <3> QED BY <2>0, <3>1, <3>2, AskedFrame DEF Asked, SubmitsIssued
    <2> QED BY <1>3, <2>1, <2>3, <2>4, <2>5, <2>6 DEF UserStep
<1>4. ASSUME UNCHANGED <<execVars, user, futures, issued, curr_object_id_, toServer>> PROVE Asked' /\ IssuedGrows
    <2>1. Counted' /\ IssuedGrows /\ UNCHANGED received
        BY <1>1, <1>4 DEF execVars
    <2> QED BY <1>4, <2>1, AskedFrame DEF Asked, SubmitsIssued
<1>5. ASSUME NEW c \in Conns, ClientIoNext(c) \/ LinkStep(c)
      PROVE  UNCHANGED <<user, futures, issued, curr_object_id_, toServer>>
    BY <1>5 DEF ClientIoNext, LinkStep, ReceiveResponse, StoreResponse, ReadEnds, OnSubmitError,
        ClientInit, Destroy, LinkCut, subVars
<1>6. ASSUME UNCHANGED <<subVars, wireVars>>
      PROVE  UNCHANGED <<user, futures, issued, curr_object_id_, toServer>>
    BY <1>6 DEF subVars
<1> QED BY <1>2, <1>3, <1>4, <1>5, <1>6, Steps

-----------------------------------------------------------------------------
(* Results.                                                                *)

(* What was performed stays performed.                                     *)
LogGrows ==
  \A i \in DOMAIN performed : i \in DOMAIN performed' /\ performed'[i] = performed[i]

(* Only CallMethod performs.                                               *)
LEMMA LogStep ==
  ASSUME IInv, ExecNext
  PROVE  UNCHANGED performed \/ \E p \in Performers : CallMethod(p)
<1> USE DEF mainVars, acceptVars, setupVars, wireVars, history
<1>1. ASSUME MainNext PROVE UNCHANGED performed
    BY <1>1 DEF MainNext, RegisterMethod, Loop, OnAccept, OnAcceptError
<1>2. ASSUME NEW c, IoNext(c) PROVE UNCHANGED performed
    BY <1>2 DEF IoNext, QueueRequest, PerformInline, ReadFails, OnWriteError
<1>3. ASSUME NEW w, WriteNext(w) PROVE UNCHANGED performed
    BY <1>3 DEF WriteNext, PopResponse, FindStream, WriteResponse, LoseResponse
<1>4. ASSUME NEW t, WorkNext(t) \/ InlineNext(t), ~ CallMethod(t) PROVE UNCHANGED performed
    BY <1>4 DEF WorkNext, InlineNext, PerformNext, PopRequest, LookupMethod, CallEmptyFunction,
        FinishRequest, FinishInline, PushResponse
<1>5. WorkThreads \subseteq Performers /\ IoThreads \subseteq Performers
    BY DEF Performers
<1> QED BY <1>1, <1>2, <1>3, <1>4, <1>5 DEF ExecNext

(* CallMethod adds one performance, that of its thread.                    *)
LEMMA CallEffect ==
  ASSUME IInv, NEW p \in Performers, CallMethod(p)
  PROVE  /\ DOMAIN performed' = DOMAIN performed \cup {Len(performed) + 1}
         /\ Len(performed) + 1 \notin DOMAIN performed
         /\ \A i \in DOMAIN performed : performed'[i] = performed[i]
         /\ performed'[Len(performed) + 1] = [service |-> worker[p].method, request |-> worker[p].request]
         /\ worker[p].request \in DousiRequests /\ worker[p].method \in Services
         /\ worker' = [worker EXCEPT ![p] = [pc |-> "respond", request |-> worker[p].request,
                                            method |-> worker[p].method]]
         /\ UNCHANGED <<streams_, stream, request_queue_, response_queue_, writer, toClient, received>>
<1>1. worker[p] \in WorkerStates /\ worker[p].pc = "invoke" /\ performed \in Seq([service : Services, request : DousiRequests])
    BY DEF IInv, TypeOK, CallMethod
<1>2. worker[p].request \in DousiRequests /\ worker[p].method \in Services
    BY <1>1, WorkerFields DEF CallMethod, Callables
<1>3. [service |-> worker[p].method, request |-> worker[p].request] \in [service : Services, request : DousiRequests]
    BY <1>2
<1>4. performed' = Append(performed, [service |-> worker[p].method, request |-> worker[p].request])
    BY DEF CallMethod
<1>5. Len(performed) + 1 \notin DOMAIN performed
    BY <1>1
<1>6. /\ DOMAIN performed' = DOMAIN performed \cup {Len(performed) + 1}
      /\ \A i \in DOMAIN performed : performed'[i] = performed[i]
      /\ performed'[Len(performed) + 1] = [service |-> worker[p].method, request |-> worker[p].request]
    BY <1>1, <1>3, <1>4, AppendKeeps
<1>7. worker' = [worker EXCEPT ![p] = [pc |-> "respond", request |-> worker[p].request,
                                     method |-> worker[p].method]]
      /\ UNCHANGED <<streams_, stream, request_queue_, response_queue_, writer, toClient, received>>
    BY DEF CallMethod, mainVars, acceptVars, wireVars
<1> QED BY <1>2, <1>5, <1>6, <1>7

(* A performance stays one while the histories grow.                       *)
LEMMA PerformedKept ==
  ASSUME LogGrows, HistoryGrows, NEW c, NEW o, NEW data, WasPerformed(performed, streams_, c, o, data)
  PROVE  WasPerformed(performed', streams_', c, o, data)
BY DEF LogGrows, HistoryGrows, WasPerformed

(* So does the performance behind a response of an accepted stream.        *)
LEMMA BackedKept ==
  ASSUME LogGrows, HistoryGrows, NEW r, r.stream_id_ \in DOMAIN streams_, Backed(r, performed, streams_)
  PROVE  Backed(r, performed', streams_')
<1>1. streams_'[r.stream_id_] = streams_[r.stream_id_]
    BY DEF HistoryGrows
<1> QED BY <1>1, PerformedKept DEF Backed

(* Every step only adds to the performances, and only ones of messages     *)
(* that were received.                                                     *)
LEMMA GenuineStep ==
  ASSUME RpcInv, PerformedGenuine, [Next]_vars
  PROVE  PerformedGenuine' /\ LogGrows
<1>0. HistoryGrows /\ TypeOK
    BY RpcStep DEF RpcInv, IInv
<1>1. CASE UNCHANGED performed
    BY <1>0, <1>1, RequestKept DEF PerformedGenuine, LogGrows
<1>2. ASSUME NEW p \in Performers, CallMethod(p) PROVE PerformedGenuine' /\ LogGrows
    <2>1. GenuineRequest(worker[p].request, streams_, received)
        BY <1>2 DEF CallMethod, RpcInv, IInv, Correlated, WorkersGenuine
    <2>2. ASSUME NEW i \in DOMAIN performed' PROVE GenuineRequest(performed'[i].request, streams_, received)
        <3>1. \/ i \in DOMAIN performed /\ performed'[i] = performed[i]
              \/ performed'[i].request = worker[p].request
            <4>1. /\ DOMAIN performed' = DOMAIN performed \cup {Len(performed) + 1}
                  /\ \A j \in DOMAIN performed : performed'[j] = performed[j]
                  /\ performed'[Len(performed) + 1] = [service |-> worker[p].method, request |-> worker[p].request]
                BY <1>2, CallEffect DEF RpcInv
            <4> QED BY <2>2, <4>1
        <3> QED BY <2>1, <3>1 DEF PerformedGenuine
    <2>3. LogGrows
        BY <1>2, CallEffect DEF LogGrows, RpcInv
    <2> QED BY <1>0, <2>2, <2>3, RequestKept DEF PerformedGenuine
<1>3. ASSUME UNCHANGED execVars PROVE UNCHANGED performed
    BY <1>3 DEF execVars
<1> QED BY <1>1, <1>2, <1>3, LogStep, Steps DEF RpcInv

(* Whatever has a performance behind it still has it after a step.         *)
LEMMA StillBacked ==
  ASSUME IInv, ServerBacked, ClientBacked, LogGrows, HistoryGrows
  PROVE  /\ \A p \in Performers : worker[p].pc = "respond" =>
              Backed(ResponseOf(worker[p]), performed', streams_')
         /\ \A i \in DOMAIN response_queue_ : Backed(response_queue_[i], performed', streams_')
         /\ \A w \in WriteThreads : writer[w].pc # "idle" =>
              Backed(writer[w].response, performed', streams_')
         /\ \A c \in Conns : \A k \in DOMAIN toClient[c] :
              WasPerformed(performed', streams_', c, toClient[c][k].object_id, toClient[c][k].data)
         /\ \A c \in Conns : storing[c] # << >> =>
              WasPerformed(performed', streams_', c, storing[c][1].object_id, storing[c][1].data)
         /\ \A c \in Conns : \A o \in DOMAIN cached_objects_[c] :
              WasPerformed(performed', streams_', c, o, cached_objects_[c][o])
         /\ \A u \in Users : \A k \in DOMAIN futures[u] : futures[u][k].data_ptr_ # << >> =>
              WasPerformed(performed', streams_', ClientOf[u], futures[u][k].object_id_,
                           futures[u][k].data_ptr_)
<1>1. ASSUME NEW p \in Performers, worker[p].pc = "respond"
      PROVE  Backed(ResponseOf(worker[p]), performed', streams_')
    <2>1. ResponseOf(worker[p]).stream_id_ \in DOMAIN streams_
        BY <1>1 DEF ResponseOf, IInv, Correlated, WorkersGenuine, GenuineRequest
    <2>2. Backed(ResponseOf(worker[p]), performed, streams_)
        BY <1>1 DEF ServerBacked, WorkersBacked
    <2> QED BY <2>1, <2>2, BackedKept
<1>2. ASSUME NEW i \in DOMAIN response_queue_ PROVE Backed(response_queue_[i], performed', streams_')
    <2>1. response_queue_[i].stream_id_ \in DOMAIN streams_
        BY DEF IInv, Correlated, ResponsesGenuine, GenuineResponse
    <2>2. Backed(response_queue_[i], performed, streams_)
        BY DEF ServerBacked, ResponsesBacked
    <2> QED BY <2>1, <2>2, BackedKept
<1>3. ASSUME NEW w \in WriteThreads, writer[w].pc # "idle"
      PROVE  Backed(writer[w].response, performed', streams_')
    <2>1. writer[w].response.stream_id_ \in DOMAIN streams_
        BY <1>3 DEF IInv, Correlated, WritersGenuine, GenuineResponse
    <2>2. Backed(writer[w].response, performed, streams_)
        BY <1>3 DEF ServerBacked, WritersBacked
    <2> QED BY <2>1, <2>2, BackedKept
<1>4. ASSUME NEW c \in Conns, NEW k \in DOMAIN toClient[c]
      PROVE  WasPerformed(performed', streams_', c, toClient[c][k].object_id, toClient[c][k].data)
    BY PerformedKept DEF ServerBacked, SentBacked
<1>5. ASSUME NEW c \in Conns, storing[c] # << >>
      PROVE  WasPerformed(performed', streams_', c, storing[c][1].object_id, storing[c][1].data)
    BY <1>5, PerformedKept DEF ClientBacked, StoringBacked
<1>6. ASSUME NEW c \in Conns, NEW o \in DOMAIN cached_objects_[c]
      PROVE  WasPerformed(performed', streams_', c, o, cached_objects_[c][o])
    BY PerformedKept DEF ClientBacked, CacheBacked
<1>7. ASSUME NEW u \in Users, NEW k \in DOMAIN futures[u], futures[u][k].data_ptr_ # << >>
      PROVE  WasPerformed(performed', streams_', ClientOf[u], futures[u][k].object_id_,
                          futures[u][k].data_ptr_)
    BY <1>7, PerformedKept DEF ClientBacked, FuturesBacked
<1> QED BY <1>1, <1>2, <1>3, <1>4, <1>5, <1>6, <1>7

(* A step of the server makes no result of its own: responses are pushed   *)
(* after the performance, and passed on as they are.                       *)
LEMMA ServerBackedStep ==
  ASSUME IInv, ServerBacked, ClientBacked, LogGrows, HistoryGrows, ExecNext
  PROVE  ServerBacked'
<1> USE DEF mainVars, acceptVars, setupVars, wireVars, history
<1> DEFINE Same == /\ UNCHANGED worker => WorkersBacked'
                   /\ UNCHANGED response_queue_ => ResponsesBacked'
                   /\ UNCHANGED writer => WritersBacked'
                   /\ UNCHANGED toClient => SentBacked'
<1>0. Same
    <2>1. UNCHANGED worker => WorkersBacked'
        BY StillBacked DEF WorkersBacked
    <2>2. UNCHANGED response_queue_ => ResponsesBacked'
        BY StillBacked DEF ResponsesBacked
    <2>3. UNCHANGED writer => WritersBacked'
        BY StillBacked DEF WritersBacked
    <2>4. UNCHANGED toClient => SentBacked'
        BY StillBacked DEF SentBacked
    <2> QED BY <2>1, <2>2, <2>3, <2>4
<1>1. CASE UNCHANGED <<worker, response_queue_, writer, toClient>>
    BY <1>0, <1>1 DEF ServerBacked
<1>2. ASSUME NEW t \in Performers, UNCHANGED <<response_queue_, writer, toClient>>,
             \A p \in Performers : p # t => worker'[p] = worker[p],
             worker'[t].pc = "respond" => Backed(ResponseOf(worker'[t]), performed', streams_')
      PROVE  ServerBacked'
    <2>1. WorkersBacked'
        BY <1>2, StillBacked DEF WorkersBacked
    <2> QED BY <1>0, <1>2, <2>1 DEF ServerBacked
<1>a. worker \in [Performers -> WorkerStates] /\ writer \in [WriteThreads -> WriterStates]
      /\ WorkThreads \subseteq Performers /\ IoThreads \subseteq Performers
    BY DEF IInv, TypeOK, Performers
<1>3. ASSUME NEW c \in Conns, PerformInline(c) PROVE ServerBacked'
    <2>1. stream[c].io \in Performers
        BY <1>a DEF IInv, TypeOK, Streams
    <2>2. /\ worker' = [worker EXCEPT ![stream[c].io] =
                 [pc |-> "lookup", request |-> RequestOf(c, Head(toServer[c]))]]
          /\ UNCHANGED <<response_queue_, writer, toClient>>
        BY <1>3 DEF PerformInline
    <2>3. worker'[stream[c].io].pc # "respond" /\ \A p \in Performers : p # stream[c].io => worker'[p] = worker[p]
        BY <1>a, <2>1, <2>2
    <2> QED BY <1>2, <2>1, <2>2, <2>3
<1>4. ASSUME NEW t \in Performers, PopRequest(t) \/ LookupMethod(t) PROVE ServerBacked'
    <2>1. worker'[t].pc # "respond" /\ \A p \in Performers : p # t => worker'[p] = worker[p]
        BY <1>4, <1>a DEF PopRequest, LookupMethod
    <2>2. UNCHANGED <<response_queue_, writer, toClient>>
        BY <1>4 DEF PopRequest, LookupMethod
    <2> QED BY <1>2, <2>1, <2>2
<1>5. ASSUME NEW t \in Performers, CallMethod(t) PROVE ServerBacked'
    <2> DEFINE n == Len(performed) + 1
    <2>1. /\ n \in DOMAIN performed'
          /\ performed'[n] = [service |-> worker[t].method, request |-> worker[t].request]
          /\ worker' = [worker EXCEPT ![t] = [pc |-> "respond", request |-> worker[t].request,
                                             method |-> worker[t].method]]
          /\ UNCHANGED <<streams_, response_queue_, writer, toClient>>
        BY <1>5, CallEffect
    <2>2. worker[t].request.stream_id_ \in DOMAIN streams_
        BY <1>5 DEF CallMethod, IInv, Correlated, WorkersGenuine, GenuineRequest
    <2>3. worker'[t].request = worker[t].request /\ worker'[t].method = worker[t].method
          /\ \A p \in Performers : p # t => worker'[p] = worker[p]
        BY <1>a, <2>1
    <2>4. performed'[n].request = worker[t].request /\ performed'[n].service = worker[t].method
        BY <2>1
    <2>5. /\ ResponseOf(worker'[t]).stream_id_ = worker[t].request.stream_id_
          /\ ResponseOf(worker'[t]).object_id_ = worker[t].request.object_id_
          /\ ResponseOf(worker'[t]).result_ = Result(worker[t].method, worker[t].request.unpacked_)
        BY <2>3 DEF ResponseOf
    <2> HIDE DEF n
    <2>6. Backed(ResponseOf(worker'[t]), performed', streams_')
        BY <2>1, <2>2, <2>4, <2>5 DEF Backed, WasPerformed
    <2> QED BY <1>2, <2>1, <2>3, <2>6
<1>6. ASSUME NEW t \in Performers, PushResponse(t) PROVE ServerBacked'
    <2> DEFINE r == ResponseOf(worker[t])
    <2>1. /\ response_queue_ \in Seq(DousiResponses) /\ response_queue_' = Append(response_queue_, r)
          /\ worker[t].pc = "respond" /\ worker' = [worker EXCEPT ![t] = Idle]
          /\ UNCHANGED <<writer, toClient>>
        BY <1>6 DEF PushResponse, IInv, TypeOK
    <2>2. Backed(r, performed', streams_')
        BY <2>1, StillBacked
    <2>3. r \in DousiResponses
        <3>1. worker[t].request \in DousiRequests /\ worker[t].method \in Services
            BY <1>a, <2>1, WorkerFields
        <3> QED BY <3>1, ResultType DEF ResponseOf, DousiRequests, DousiResponses
    <2> HIDE DEF r
    <2>4. \A i \in DOMAIN response_queue_' : (i \in DOMAIN response_queue_ /\ response_queue_'[i] = response_queue_[i])
                                           \/ response_queue_'[i] = r
        BY <2>1, <2>3, AppendKeeps
    <2>5. ResponsesBacked'
        BY <2>2, <2>4, StillBacked DEF ResponsesBacked
    <2>6. worker'[t].pc # "respond" /\ \A p \in Performers : p # t => worker'[p] = worker[p]
        BY <1>a, <2>1 DEF Idle
    <2>7. WorkersBacked'
        BY <2>6, StillBacked DEF WorkersBacked
    <2> QED BY <1>0, <2>1, <2>5, <2>7 DEF ServerBacked
<1>7. ASSUME NEW w \in WriteThreads, UNCHANGED <<worker, toClient>>, ResponsesBacked',
             \A v \in WriteThreads : v # w => writer'[v] = writer[v],
             writer'[w].pc # "idle" => Backed(writer'[w].response, performed', streams_')
      PROVE  ServerBacked'
    <2>1. WritersBacked'
        BY <1>7, StillBacked DEF WritersBacked
    <2> QED BY <1>0, <1>7, <2>1 DEF ServerBacked
<1>8. ASSUME NEW w \in WriteThreads, PopResponse(w) PROVE ServerBacked'
    <2>1. /\ response_queue_ \in Seq(DousiResponses) /\ response_queue_ # << >>
          /\ response_queue_' = Tail(response_queue_)
          /\ writer' = [writer EXCEPT ![w] = [pc |-> "find", response |-> Head(response_queue_)]]
          /\ UNCHANGED <<worker, toClient>>
        BY <1>8 DEF PopResponse, IInv, TypeOK
    <2>2. 1 \in DOMAIN response_queue_ /\ Head(response_queue_) = response_queue_[1]
          /\ \A k \in DOMAIN response_queue_' : k + 1 \in DOMAIN response_queue_
                                               /\ response_queue_'[k] = response_queue_[k + 1]
        BY <2>1, TailShifts
    <2>3. ResponsesBacked'
        BY <2>2, StillBacked DEF ResponsesBacked
    <2>4. writer'[w].response = response_queue_[1] /\ \A v \in WriteThreads : v # w => writer'[v] = writer[v]
        BY <1>a, <2>1, <2>2
    <2> QED BY <1>7, <2>1, <2>2, <2>3, <2>4, StillBacked
<1>9. ASSUME NEW w \in WriteThreads, FindStream(w) PROVE ServerBacked'
    <2>1. /\ writer[w].pc # "idle" /\ writer'[w].response = writer[w].response
          /\ \A v \in WriteThreads : v # w => writer'[v] = writer[v]
          /\ UNCHANGED <<worker, toClient, response_queue_>>
        BY <1>9, <1>a DEF FindStream
    <2> QED BY <1>0, <1>7, <2>1, StillBacked
<1>10. ASSUME NEW w \in WriteThreads, LoseResponse(w) PROVE ServerBacked'
    <2>1. /\ writer'[w].pc = "idle"
          /\ \A v \in WriteThreads : v # w => writer'[v] = writer[v]
          /\ UNCHANGED <<worker, toClient, response_queue_>>
        BY <1>10, <1>a DEF LoseResponse, Idle
    <2> QED BY <1>0, <1>7, <2>1
<1>11. ASSUME NEW w \in WriteThreads, WriteResponse(w) PROVE ServerBacked'
    <2> DEFINE c == writer[w].stream
               r == writer[w].response
               m == [object_id |-> r.object_id_, data |-> r.result_]
    <2>1. /\ writer[w].pc = "write" /\ writer' = [writer EXCEPT ![w] = Idle]
          /\ toClient' = [toClient EXCEPT ![c] = Append(@, m)]
          /\ UNCHANGED <<worker, response_queue_, streams_>>
        BY <1>11 DEF WriteResponse
    <2>2. c \in Conns /\ r \in DousiResponses
        BY <1>a, <2>1, WriterFields
    <2>3. m \in ResponseMessages /\ m.object_id = r.object_id_ /\ m.data = r.result_
        BY <2>2 DEF DousiResponses, ResponseMessages
    <2>4. c = streams_[r.stream_id_]
        BY <2>1 DEF IInv, Correlated, WritersGenuine
    <2>5. Backed(r, performed', streams_')
        BY <2>1, StillBacked
    <2>6. WasPerformed(performed', streams_', c, r.object_id_, r.result_)
        BY <2>1, <2>4, <2>5 DEF Backed
    <2> HIDE DEF c, r, m
    <2>7. ASSUME NEW d \in Conns, NEW k \in DOMAIN toClient'[d]
          PROVE  \/ k \in DOMAIN toClient[d] /\ toClient'[d][k] = toClient[d][k]
                 \/ d = c /\ toClient'[d][k] = m
        <3>1. toClient \in [Conns -> Seq(ResponseMessages)] /\ toClient[c] \in Seq(ResponseMessages)
            BY <2>2 DEF IInv, TypeOK
        <3>2. toClient'[c] = Append(toClient[c], m) /\ \A e \in Conns : e # c => toClient'[e] = toClient[e]
            BY <2>1, <2>2, <3>1
        <3> QED BY <2>3, <2>7, <3>1, <3>2, AppendKeeps
    <2>8. SentBacked'
        BY <2>3, <2>6, <2>7, StillBacked DEF SentBacked
    <2>9. writer'[w].pc = "idle" /\ \A v \in WriteThreads : v # w => writer'[v] = writer[v]
        BY <1>a, <2>1 DEF Idle
    <2>10. WritersBacked'
        BY <2>9, StillBacked DEF WritersBacked
    <2> QED BY <1>0, <2>1, <2>8, <2>10 DEF ServerBacked
<1>12. ASSUME NEW s, NEW m, RegisterMethod(s, m) \/ Loop \/ OnAcceptError \/ OnAccept(s)
              \/ QueueRequest(s) \/ ReadFails(s) \/ OnWriteError(s) \/ CallEmptyFunction(s)
       PROVE  UNCHANGED <<worker, response_queue_, writer, toClient>>
    BY <1>12 DEF RegisterMethod, Loop, OnAcceptError, OnAccept, QueueRequest, ReadFails, OnWriteError,
        CallEmptyFunction
<1>13. ASSUME NEW t, FinishRequest(t) \/ (\E c \in Conns : FinishInline(t, c)) PROVE PushResponse(t)
    BY <1>13 DEF FinishRequest, FinishInline
<1> QED
    BY <1>1, <1>3, <1>4, <1>5, <1>6, <1>8, <1>9, <1>10, <1>11, <1>12, <1>13, <1>a
    DEF ExecNext, MainNext, IoNext, WorkNext, InlineNext, WriteNext, PerformNext

(* A step of the clients makes no result of its own either.                *)
LEMMA ClientBackedStep ==
  ASSUME RpcInv, ServerBacked, ClientBacked, LogGrows, HistoryGrows, UNCHANGED execVars,
         \/ \E u \in Users : UserStep(u)
         \/ \E c \in Conns : ClientIoNext(c) \/ LinkStep(c)
         \/ UNCHANGED <<subVars, wireVars>>
  PROVE  ServerBacked' /\ ClientBacked'
<1> USE DEF wireVars
<1>a. IInv /\ UNCHANGED <<worker, response_queue_, writer>>
    BY DEF RpcInv, execVars
<1>b. /\ WorkersBacked' /\ ResponsesBacked' /\ WritersBacked'
      /\ UNCHANGED toClient => SentBacked'
      /\ UNCHANGED storing => StoringBacked'
      /\ UNCHANGED cached_objects_ => CacheBacked'
      /\ UNCHANGED futures => FuturesBacked'
    <2>1. WorkersBacked'
        BY <1>a, StillBacked DEF WorkersBacked
    <2>2. ResponsesBacked'
        BY <1>a, StillBacked DEF ResponsesBacked
    <2>3. WritersBacked'
        BY <1>a, StillBacked DEF WritersBacked
    <2>4. UNCHANGED toClient => SentBacked'
        BY <1>a, StillBacked DEF SentBacked
    <2>5. UNCHANGED storing => StoringBacked'
        BY <1>a, StillBacked DEF StoringBacked
    <2>6. UNCHANGED cached_objects_ => CacheBacked'
        BY <1>a, StillBacked DEF CacheBacked
    <2>7. UNCHANGED futures => FuturesBacked'
        BY <1>a, StillBacked DEF FuturesBacked
    <2> QED BY <2>1, <2>2, <2>3, <2>4, <2>5, <2>6, <2>7
<1>1. ASSUME UNCHANGED <<toClient, storing, cached_objects_>>, FuturesBacked'
      PROVE  ServerBacked' /\ ClientBacked'
    BY <1>1, <1>b DEF ServerBacked, ClientBacked
<1>2. ASSUME NEW u \in Users, UserStep(u) PROVE ServerBacked' /\ ClientBacked'
    <2>1. UNCHANGED <<toClient, storing, cached_objects_>>
        BY <1>2 DEF UserStep, RequestObjectID, Submit, SubmitLost, BeginGet, PollFound, ReadCached,
            ReadThrows, ReadRaces
    <2>2. ASSUME user[u].pc = "submit", ReturnFuture(u) PROVE FuturesBacked'
        <3>1. SubTypeOK
            BY DEF RpcInv
        <3>2. ASSUME NEW v \in Users, NEW k \in DOMAIN futures'[v], futures'[v][k].data_ptr_ # << >>
              PROVE  k \in DOMAIN futures[v] /\ futures'[v][k] = futures[v][k]
            <4>1. CASE v # u
                <5>1. futures'[v] = futures[v]
                    BY <2>2, <3>1, <4>1, FutureEffect
                <5> QED BY <5>1
            <4>2. CASE v = u
                <5>1. \/ k \in DOMAIN futures[u] /\ futures'[u][k] = futures[u][k]
                      \/ futures'[u][k] = [object_id_ |-> user[u].object_id, body |-> user[u].body,
                                           data_ptr_ |-> << >>]
                    BY <2>2, <3>1, <4>2, FutureEffect
                <5> QED BY <3>2, <4>2, <5>1
            <4> QED BY <4>1, <4>2
        <3> QED BY <1>a, <3>2, StillBacked DEF FuturesBacked
    <2>3. CASE Submit(u) \/ SubmitLost(u)
        <3>1. user[u].pc = "submit" /\ ReturnFuture(u)
            BY <2>3 DEF Submit, SubmitLost
        <3> QED BY <1>1, <2>1, <2>2, <3>1
    <2>4. CASE ReadCached(u)
        <3> DEFINE f == user[u].future
        <3>1. /\ \A v \in Users : v # u => futures'[v] = futures[v]
              /\ DOMAIN futures'[u] = DOMAIN futures[u] /\ f \in DOMAIN futures[u]
              /\ \A k \in DOMAIN futures[u] : k # f => futures'[u][k] = futures[u][k]
              /\ futures'[u][f].object_id_ = Wanted(u)
              /\ futures'[u][f].data_ptr_ = cached_objects_[ClientOf[u]][Wanted(u)]
              /\ Wanted(u) \in DOMAIN cached_objects_[ClientOf[u]]
            BY <2>4, GetEffect DEF Wanted
        <3>2. WasPerformed(performed', streams_', ClientOf[u], Wanted(u), cached_objects_[ClientOf[u]][Wanted(u)])
            BY <1>a, <3>1, StillBacked, ClientAssumption
        <3> HIDE DEF f
        <3>3. ASSUME NEW v \in Users, NEW k \in DOMAIN futures'[v], futures'[v][k].data_ptr_ # << >>
              PROVE  WasPerformed(performed', streams_', ClientOf[v], futures'[v][k].object_id_,
                                  futures'[v][k].data_ptr_)
            <4>1. CASE v = u /\ k = f
                BY <3>1, <3>2, <4>1
            <4>2. CASE ~ (v = u /\ k = f)
                <5>1. k \in DOMAIN futures[v] /\ futures'[v][k] = futures[v][k]
                    BY <3>1, <3>3, <4>2
                <5> QED BY <1>a, <3>3, <5>1, StillBacked
            <4> QED BY <4>1, <4>2
        <3> QED BY <1>1, <2>1, <3>3 DEF FuturesBacked
    <2>5. CASE (\E k \in DOMAIN futures[u] : BeginGet(u, k)) \/ PollFound(u) \/ ReadThrows(u) \/ ReadRaces(u)
        <3>1. UNCHANGED futures
            BY <2>5, QuietEffect
        <3> QED BY <1>1, <1>b, <2>1, <3>1
    <2>6. ASSUME NEW body \in Calls, RequestObjectID(u, body) PROVE UNCHANGED futures
        BY <2>6 DEF RequestObjectID
    <2> QED BY <1>1, <1>2, <1>b, <2>1, <2>3, <2>4, <2>5, <2>6 DEF UserStep
<1>3. ASSUME NEW c \in Conns, ReceiveResponse(c) PROVE ServerBacked' /\ ClientBacked'
    <2>1. /\ toClient \in [Conns -> Seq(ResponseMessages)] /\ toClient[c] \in Seq(ResponseMessages)
          /\ toClient[c] # << >> /\ storing \in [Conns -> Seq(ResponseMessages)]
          /\ storing' = [storing EXCEPT ![c] = <<Head(toClient[c])>>]
          /\ toClient' = [toClient EXCEPT ![c] = Tail(@)]
          /\ UNCHANGED <<cached_objects_, futures>>
        BY <1>3 DEF ReceiveResponse, RpcInv, IInv, TypeOK, SubTypeOK
    <2>2. 1 \in DOMAIN toClient[c] /\ Head(toClient[c]) = toClient[c][1]
          /\ \A k \in DOMAIN Tail(toClient[c]) : k + 1 \in DOMAIN toClient[c] /\ Tail(toClient[c])[k] = toClient[c][k + 1]
        BY <2>1, TailShifts
    <2>3. toClient'[c] = Tail(toClient[c]) /\ \A d \in Conns : d # c => toClient'[d] = toClient[d] /\ storing'[d] = storing[d]
        BY <2>1
    <2>4. storing'[c][1] = toClient[c][1]
        BY <2>1, <2>2
    <2>5. SentBacked'
        <3> SUFFICES ASSUME NEW d \in Conns, NEW k \in DOMAIN toClient'[d]
                     PROVE  WasPerformed(performed', streams_', d, toClient'[d][k].object_id, toClient'[d][k].data)
            BY DEF SentBacked
        <3>1. \E j \in DOMAIN toClient[d] : toClient'[d][k] = toClient[d][j]
            <4>1. CASE d = c
                <5>1. k \in DOMAIN Tail(toClient[c])
                    BY <2>3, <4>1
                <5> QED BY <2>2, <2>3, <4>1, <5>1
            <4>2. CASE d # c
                <5>1. toClient'[d] = toClient[d]
                    BY <2>3, <4>2
                <5> QED BY <5>1
            <4> QED BY <4>1, <4>2
        <3> QED BY <1>a, <3>1, StillBacked
    <2>6. StoringBacked'
        BY <1>a, <2>2, <2>3, <2>4, StillBacked DEF StoringBacked
    <2> QED BY <1>b, <2>1, <2>5, <2>6 DEF ServerBacked, ClientBacked
<1>4. ASSUME NEW c \in Conns, StoreResponse(c) PROVE ServerBacked' /\ ClientBacked'
    <2> DEFINE m == storing[c][1]
    <2>1. /\ DOMAIN cached_objects_ = Conns /\ storing \in [Conns -> Seq(ResponseMessages)]
          /\ storing[c] # << >>
          /\ cached_objects_' = [cached_objects_ EXCEPT ![c] = Entered(@, m)]
          /\ storing' = [storing EXCEPT ![c] = << >>]
          /\ UNCHANGED <<toClient, futures>>
        BY <1>4 DEF StoreResponse, RpcInv, SubTypeOK
    <2>2. WasPerformed(performed', streams_', c, m.object_id, m.data)
        BY <1>a, <2>1, StillBacked
    <2> HIDE DEF m
    <2>3. cached_objects_'[c] = Entered(cached_objects_[c], m)
          /\ \A d \in Conns : d # c => cached_objects_'[d] = cached_objects_[d]
        BY <2>1
    <2>4. CacheBacked'
        <3> SUFFICES ASSUME NEW d \in Conns, NEW o \in DOMAIN cached_objects_'[d]
                     PROVE  WasPerformed(performed', streams_', d, o, cached_objects_'[d][o])
            BY DEF CacheBacked
        <3>1. CASE d = c /\ o = m.object_id
            BY <2>2, <2>3, <3>1 DEF Entered
        <3>2. CASE ~ (d = c /\ o = m.object_id)
            <4>1. o \in DOMAIN cached_objects_[d] /\ cached_objects_'[d][o] = cached_objects_[d][o]
                BY <2>3, <3>2 DEF Entered
            <4> QED BY <1>a, <4>1, StillBacked
        <3> QED BY <3>1, <3>2
    <2>5. StoringBacked'
        <3>1. storing'[c] = << >> /\ \A d \in Conns : d # c => storing'[d] = storing[d]
            BY <2>1
        <3> QED BY <1>a, <3>1, StillBacked DEF StoringBacked
    <2> QED BY <1>b, <2>1, <2>4, <2>5 DEF ServerBacked, ClientBacked
<1>5. ASSUME NEW c \in Conns, ReadEnds(c) \/ OnSubmitError(c) \/ LinkStep(c)
      PROVE  UNCHANGED <<toClient, storing, cached_objects_, futures>>
    BY <1>5 DEF ReadEnds, OnSubmitError, LinkStep, ClientInit, Destroy, LinkCut, subVars
<1>6. ASSUME UNCHANGED <<subVars, wireVars>>
      PROVE  UNCHANGED <<toClient, storing, cached_objects_, futures>>
    BY <1>6 DEF subVars
<1> QED BY <1>1, <1>2, <1>3, <1>4, <1>5, <1>6, <1>b DEF ClientIoNext

(* Every step preserves CallInv.                                           *)
LEMMA CallStep ==
  ASSUME MaxCalls <= IdSpace, CallInv, [Next]_vars
  PROVE  CallInv' /\ HistoryGrows /\ LogGrows /\ IssuedGrows
<1>1. RpcInv /\ Asked /\ PerformedGenuine /\ ServerBacked /\ ClientBacked
    BY DEF CallInv
<1>2. RpcInv' /\ HistoryGrows /\ Asked' /\ IssuedGrows /\ PerformedGenuine' /\ LogGrows
    BY <1>1, RpcStep, AskedStep, GenuineStep
<1>3. CASE ExecNext /\ UNCHANGED subVars
    <2>1. ServerBacked'
        BY <1>1, <1>2, <1>3, ServerBackedStep DEF RpcInv
    <2>2. UNCHANGED <<storing, cached_objects_, futures>> /\ IInv
        BY <1>1, <1>3 DEF subVars, RpcInv
    <2>3. StoringBacked'
        BY <1>1, <1>2, <2>2, StillBacked DEF StoringBacked
    <2>4. CacheBacked'
        BY <1>1, <1>2, <2>2, StillBacked DEF CacheBacked
    <2>5. FuturesBacked'
        BY <1>1, <1>2, <2>2, StillBacked DEF FuturesBacked
    <2> QED BY <1>2, <2>1, <2>3, <2>4, <2>5 DEF CallInv, ClientBacked
<1>4. CASE /\ UNCHANGED execVars
           /\ \/ \E u \in Users : UserStep(u)
              \/ \E c \in Conns : ClientIoNext(c) \/ LinkStep(c)
              \/ UNCHANGED <<subVars, wireVars>>
    <2>1. ServerBacked' /\ ClientBacked'
        BY <1>1, <1>2, <1>4, ClientBackedStep
    <2> QED BY <1>2, <2>1 DEF CallInv
<1> QED BY <1>3, <1>4, Steps

(* The inductive invariant of OwnResult.                                   *)
THEOREM CallInvariance ==
  ASSUME MaxCalls <= IdSpace
  PROVE  Spec => []CallInv
<1>1. Init => CallInv
    <2> SUFFICES ASSUME Init PROVE CallInv
        OBVIOUS
    <2>1. RpcInv
        BY InitRpc
    <2>2. Asked
        BY MaxCallsAssumption DEF Init, SubInit, ExecInit, WireInit, Asked, Counted, SubmitsIssued,
            FuturesIssued, SentIssued, ReceivedIssued, Between
    <2>3. PerformedGenuine /\ ServerBacked
        BY DEF Init, ExecInit, WireInit, PerformedGenuine, ServerBacked, WorkersBacked,
            ResponsesBacked, WritersBacked, SentBacked, Idle
    <2>4. ClientBacked
        BY DEF Init, SubInit, ClientBacked, StoringBacked, CacheBacked, FuturesBacked
    <2> QED BY <2>1, <2>2, <2>3, <2>4 DEF CallInv
<1>2. CallInv /\ [Next]_vars => CallInv'
    BY CallStep
<1> QED BY <1>1, <1>2, PTL DEF Spec

(* A Get returns the result of its own call, performed on its own          *)
(* arguments, as long as object ids fit the wire.                          *)
THEOREM GetsItsResult ==
  ASSUME MaxCalls <= IdSpace
  PROVE  Spec => []OwnResult
<1>1. CallInv => OwnResult
    <2> SUFFICES ASSUME CallInv, NEW c \in Conns, NEW f \in Held(c)
                 PROVE  \E i \in DOMAIN performed :
                          /\ streams_[performed[i].request.stream_id_] = c
                          /\ performed[i].request.object_id_ = f.object_id_
                          /\ performed[i].request.unpacked_ = f.body
                          /\ f.data_ptr_ = Result(performed[i].service, f.body)
        BY DEF OwnResult
    <2>0. PICK u \in Users : ClientOf[u] = c /\ f.data_ptr_ # << >>
                              /\ \E k \in DOMAIN futures[u] : f = futures[u][k]
        BY DEF Held
    <2>1. PICK k \in DOMAIN futures[u] : f = futures[u][k]
        BY <2>0
    <2>2. WasPerformed(performed, streams_, c, f.object_id_, f.data_ptr_)
        BY <2>0, <2>1 DEF CallInv, ClientBacked, FuturesBacked
    <2>3. PICK i \in DOMAIN performed :
            /\ performed[i].request.stream_id_ \in DOMAIN streams_
            /\ streams_[performed[i].request.stream_id_] = c
            /\ performed[i].request.object_id_ = f.object_id_
            /\ f.data_ptr_ = Result(performed[i].service, performed[i].request.unpacked_)
        BY <2>2 DEF WasPerformed
    <2>4. IsIssued(issued[c], f.object_id_, f.body)
        BY <2>0, <2>1 DEF CallInv, Asked, FuturesIssued
    <2>5. PICK j \in DOMAIN received[c] : received[c][j].object_id = performed[i].request.object_id_
                                         /\ received[c][j].data = performed[i].request.unpacked_
        BY <2>3 DEF CallInv, PerformedGenuine, GenuineRequest
    <2>6. IsIssued(issued[c], received[c][j].object_id, received[c][j].data)
        BY DEF CallInv, Asked, ReceivedIssued
    <2>7. performed[i].request.unpacked_ = f.body
        BY <2>3, <2>4, <2>5, <2>6 DEF IsIssued
    <2> QED BY <2>3, <2>7
<1> QED BY <1>1, CallInvariance, PTL

-----------------------------------------------------------------------------
(* No call is performed twice.                                             *)

(* A call that was issued has an id below the next one.                    *)
LEMMA IssuedBelow ==
  ASSUME SubTypeOK, NEW c \in Conns, NEW o, NEW body, IsIssued(issued[c], o, body)
  PROVE  o # Len(issued[c])
<1>1. issued[c] \in Seq(Bodies) /\ o \in Nat /\ o + 1 \in DOMAIN issued[c]
    BY DEF SubTypeOK, IsIssued
<1>2. o + 1 <= Len(issued[c]) /\ Len(issued[c]) \in Nat
    BY <1>1
<1> QED BY <1>1, <1>2

(* SendsApart holds after a step in which no user begins a call and that   *)
(* leaves the messages alone.                                              *)
LEMMA ApartFrame ==
  ASSUME SendsApart, UNCHANGED <<toServer, received>>,
         \A v \in Users : user'[v].pc = "submit" => user'[v] = user[v]
  PROVE  SendsApart'
<1>1. \A v \in Users : user'[v].pc = "submit" =>
        user[v].pc = "submit" /\ user'[v].object_id = user[v].object_id
    OBVIOUS
<1> QED BY <1>1 DEF SendsApart, NoIdAgain

(* Every step keeps the ids of the calls under way apart.                  *)
LEMMA ApartStep ==
  ASSUME MaxCalls <= IdSpace, CallInv, SendsApart, [Next]_vars
  PROVE  SendsApart'
<1> USE DEF wireVars
<1>0. RpcInv /\ Asked /\ IInv /\ SubTypeOK /\ \A u \in Users : ClientOf[u] \in Conns
    BY ClientAssumption DEF CallInv, RpcInv
<1>1. CASE ExecNext /\ UNCHANGED subVars
    <2>0. UNCHANGED user
        BY <1>1 DEF subVars
    <2>1. ASSUME NEW c \in Conns, QueueRequest(c) \/ PerformInline(c) PROVE SendsApart'
        <3>1. MessageRead(c)
            BY <2>1 DEF QueueRequest, PerformInline
        <3>2. /\ 1 \in DOMAIN toServer[c]
              /\ \A d \in Conns : d # c => received'[d] = received[d] /\ toServer'[d] = toServer[d]
              /\ \A k \in DOMAIN received'[c] :
                   \/ k \in DOMAIN received[c] /\ received'[c][k] = received[c][k]
                   \/ received'[c][k] = toServer[c][1]
              /\ \A k \in DOMAIN toServer'[c] :
                   /\ k \in Nat /\ k >= 1
                   /\ k + 1 \in DOMAIN toServer[c] /\ toServer'[c][k] = toServer[c][k + 1]
            BY <1>0, <3>1, ReadEffect
        <3>3. ASSUME NEW u \in Users, user[u].pc = "submit"
              PROVE  /\ \A k \in DOMAIN toServer'[ClientOf[u]] :
                          toServer'[ClientOf[u]][k].object_id # user[u].object_id
                     /\ \A k \in DOMAIN received'[ClientOf[u]] :
                          received'[ClientOf[u]][k].object_id # user[u].object_id
            <4>1. CASE ClientOf[u] = c
                <5>1. /\ \A k \in DOMAIN toServer[c] : toServer[c][k].object_id # user[u].object_id
                      /\ \A k \in DOMAIN received[c] : received[c][k].object_id # user[u].object_id
                    BY <3>3, <4>1 DEF SendsApart
                <5>2. \A k \in DOMAIN toServer'[c] : toServer'[c][k].object_id # user[u].object_id
                    BY <3>2, <5>1
                <5>3. \A k \in DOMAIN received'[c] : received'[c][k].object_id # user[u].object_id
                    BY <3>2, <5>1
                <5> QED BY <4>1, <5>2, <5>3
            <4>2. CASE ClientOf[u] # c
                <5>1. toServer'[ClientOf[u]] = toServer[ClientOf[u]] /\ received'[ClientOf[u]] = received[ClientOf[u]]
                    BY <1>0, <3>2, <4>2
                <5> QED BY <3>3, <5>1 DEF SendsApart
            <4> QED BY <4>1, <4>2
        <3>4. ASSUME NEW d \in Conns, NEW j \in DOMAIN toServer'[d], NEW k \in DOMAIN toServer'[d], j # k
              PROVE  toServer'[d][j].object_id # toServer'[d][k].object_id
            <4>1. CASE d = c
                <5>1. j + 1 # k + 1
                    BY <3>2, <3>4, <4>1
                <5> QED BY <3>2, <4>1, <5>1 DEF SendsApart
            <4>2. CASE d # c
                BY <3>2, <3>4, <4>2 DEF SendsApart
            <4> QED BY <4>1, <4>2
        <3>5. ASSUME NEW d \in Conns, NEW k \in DOMAIN received'[d], NEW j \in DOMAIN toServer'[d]
              PROVE  received'[d][k].object_id # toServer'[d][j].object_id
            <4>1. CASE d = c
                <5>1. 1 # j + 1 /\ j + 1 \in DOMAIN toServer[c] /\ toServer'[c][j] = toServer[c][j + 1]
                    BY <3>2, <4>1
                <5> QED BY <3>2, <4>1, <5>1 DEF SendsApart, NoIdAgain
            <4>2. CASE d # c
                BY <3>2, <4>2 DEF SendsApart, NoIdAgain
            <4> QED BY <4>1, <4>2
        <3> QED BY <2>0, <3>3, <3>4, <3>5 DEF SendsApart, NoIdAgain
    <2>2. CASE UNCHANGED <<received, toServer>>
        BY <2>0, <2>2, ApartFrame
    <2> QED BY <1>0, <1>1, <2>1, <2>2, WireSteps
<1>2. ASSUME UNCHANGED execVars, NEW u \in Users, UserStep(u) PROVE SendsApart'
    <2> DEFINE c == ClientOf[u]
    <2>0. UNCHANGED received
        BY <1>2 DEF execVars
    <2>1. ASSUME NEW body \in Calls, RequestObjectID(u, body) PROVE SendsApart'
        <3>1. /\ user'[u].object_id = Len(issued[c]) /\ UNCHANGED toServer
              /\ \A v \in Users : v # u => user'[v] = user[v]
            BY <1>0, <2>1, RequestEffect DEF Asked
        <3>2. /\ \A k \in DOMAIN toServer[c] : toServer[c][k].object_id # Len(issued[c])
              /\ \A k \in DOMAIN received[c] : received[c][k].object_id # Len(issued[c])
            BY <1>0, IssuedBelow DEF Asked, SentIssued, ReceivedIssued
        <3>3. \A v \in Users : user[v].pc = "submit" /\ ClientOf[v] = c => user[v].object_id # Len(issued[c])
            BY <1>0, IssuedBelow DEF Asked, SubmitsIssued
        <3> HIDE DEF c
        <3>4. ASSUME NEW v \in Users, NEW w \in Users, user'[v].pc = "submit", user'[w].pc = "submit",
                     ClientOf[v] = ClientOf[w], v # w
              PROVE  user'[v].object_id # user'[w].object_id
            BY <3>1, <3>3, <3>4 DEF c, SendsApart
        <3>5. ASSUME NEW v \in Users, user'[v].pc = "submit"
              PROVE  /\ \A k \in DOMAIN toServer[ClientOf[v]] : toServer[ClientOf[v]][k].object_id # user'[v].object_id
                     /\ \A k \in DOMAIN received[ClientOf[v]] : received[ClientOf[v]][k].object_id # user'[v].object_id
            <4>1. CASE v = u
                BY <3>1, <3>2, <4>1 DEF c
            <4>2. CASE v # u
                BY <3>1, <3>5, <4>2 DEF SendsApart
            <4> QED BY <4>1, <4>2
        <3> QED BY <2>0, <3>1, <3>4, <3>5 DEF SendsApart, NoIdAgain
    <2>2. ASSUME \A v \in Users : v # u => user'[v] = user[v], user'[u].pc # "submit", UNCHANGED toServer
          PROVE  SendsApart'
        BY <2>0, <2>2, ApartFrame
    <2>3. ASSUME user[u].pc = "submit", ReturnFuture(u)
          PROVE  user'[u].pc # "submit" /\ \A v \in Users : v # u => user'[v] = user[v]
        <3>1. user'[u] = Between /\ \A v \in Users : v # u => user'[v] = user[v]
            BY <1>0, <2>3, FutureEffect
        <3> QED BY <3>1 DEF Between
    <2>4. CASE SubmitLost(u)
        BY <2>2, <2>3, <2>4 DEF SubmitLost
    <2>5. CASE Submit(u)
        <3>1. /\ user[u].pc = "submit" /\ user'[u].pc # "submit"
              /\ \A v \in Users : v # u => user'[v] = user[v]
            BY <2>3, <2>5 DEF Submit
        <3>2. /\ \A d \in Conns : d # c => toServer'[d] = toServer[d]
              /\ \A k \in DOMAIN toServer'[c] :
                   \/ k \in DOMAIN toServer[c] /\ toServer'[c][k] = toServer[c][k]
                   \/ k = Len(toServer[c]) + 1
                      /\ toServer'[c][k] = [object_id |-> user[u].object_id, data |-> user[u].body]
            BY <1>0, <2>5, SubmitEffect DEF Asked
        <3>3. \A k \in DOMAIN toServer'[c] :
                   \/ k \in DOMAIN toServer[c] /\ toServer'[c][k] = toServer[c][k]
                   \/ k = Len(toServer[c]) + 1 /\ toServer'[c][k].object_id = user[u].object_id
            BY <3>2
        <3> HIDE DEF c
        <3>4. ASSUME NEW v \in Users, user'[v].pc = "submit"
              PROVE  /\ v # u /\ user'[v] = user[v]
                     /\ \A k \in DOMAIN toServer'[ClientOf[v]] :
                          toServer'[ClientOf[v]][k].object_id # user[v].object_id
            <4>1. v # u /\ user'[v] = user[v]
                BY <3>1, <3>4
            <4>2. CASE ClientOf[v] = c
                BY <3>1, <3>3, <3>4, <4>1, <4>2 DEF SendsApart, c
            <4>3. CASE ClientOf[v] # c
                BY <1>0, <3>2, <3>4, <4>1, <4>3 DEF SendsApart
            <4> QED BY <4>1, <4>2, <4>3
        <3>5. ASSUME NEW d \in Conns, NEW j \in DOMAIN toServer'[d], NEW k \in DOMAIN toServer'[d], j # k
              PROVE  toServer'[d][j].object_id # toServer'[d][k].object_id
            <4>1. CASE d = c
                <5>1. \A i \in DOMAIN toServer[c] : toServer[c][i].object_id # user[u].object_id
                    BY <3>1 DEF SendsApart, c
                <5>2. \A h, i \in DOMAIN toServer[c] : h # i => toServer[c][h].object_id # toServer[c][i].object_id
                    BY <4>1 DEF SendsApart
                <5> QED BY <3>3, <3>5, <4>1, <5>1, <5>2
            <4>2. CASE d # c
                BY <3>2, <3>5, <4>2 DEF SendsApart
            <4> QED BY <4>1, <4>2
        <3>6. ASSUME NEW d \in Conns, NEW k \in DOMAIN received[d], NEW j \in DOMAIN toServer'[d]
              PROVE  received[d][k].object_id # toServer'[d][j].object_id
            <4>1. CASE d = c
                BY <3>1, <3>3, <4>1 DEF SendsApart, NoIdAgain, c
            <4>2. CASE d # c
                BY <3>2, <4>2 DEF SendsApart, NoIdAgain
            <4> QED BY <4>1, <4>2
        <3>7. ASSUME NEW v \in Users, NEW w \in Users, user'[v].pc = "submit", user'[w].pc = "submit",
                     ClientOf[v] = ClientOf[w], v # w
              PROVE  user'[v].object_id # user'[w].object_id
            BY <3>4, <3>7 DEF SendsApart
        <3>8. ASSUME NEW v \in Users, user'[v].pc = "submit"
              PROVE  /\ \A k \in DOMAIN toServer'[ClientOf[v]] :
                          toServer'[ClientOf[v]][k].object_id # user'[v].object_id
                     /\ \A k \in DOMAIN received[ClientOf[v]] :
                          received[ClientOf[v]][k].object_id # user'[v].object_id
            BY <3>4, <3>8 DEF SendsApart
        <3> QED BY <2>0, <3>5, <3>6, <3>7, <3>8 DEF SendsApart, NoIdAgain
    <2>6. CASE ReadCached(u)
        <3>1. user'[u] = Between /\ (\A v \in Users : v # u => user'[v] = user[v]) /\ UNCHANGED toServer
            BY <1>0, <2>6, GetEffect DEF ReadCached
        <3>2. user'[u].pc # "submit"
            BY <3>1 DEF Between
        <3> QED BY <2>2, <3>1, <3>2
    <2>7. CASE (\E k \in DOMAIN futures[u] : BeginGet(u, k)) \/ PollFound(u) \/ ReadThrows(u) \/ ReadRaces(u)
        BY <1>0, <2>2, <2>7, QuietEffect
    <2> QED BY <1>2, <2>1, <2>4, <2>5, <2>6, <2>7 DEF UserStep
<1>3. ASSUME UNCHANGED <<execVars, user, toServer>> PROVE SendsApart'
    BY <1>3, ApartFrame DEF execVars
<1>4. ASSUME NEW c \in Conns, ClientIoNext(c) \/ LinkStep(c) PROVE UNCHANGED <<user, toServer>>
    BY <1>4 DEF ClientIoNext, LinkStep, ReceiveResponse, StoreResponse, ReadEnds, OnSubmitError,
        ClientInit, Destroy, LinkCut, subVars
<1>5. ASSUME UNCHANGED <<subVars, wireVars>> PROVE UNCHANGED <<user, toServer>>
    BY <1>5 DEF subVars
<1> QED BY <1>1, <1>2, <1>3, <1>4, <1>5, Steps

(* Every step keeps the ids of the futures apart.                          *)
LEMMA FuturesStep ==
  ASSUME CallInv, SendsApart, FuturesApart, [Next]_vars
  PROVE  FuturesApart'
<1> USE DEF wireVars
<1>0. RpcInv /\ Asked /\ IInv /\ SubTypeOK /\ \A u \in Users : ClientOf[u] \in Conns
    BY ClientAssumption DEF CallInv, RpcInv
<1>1. ASSUME NEW u \in Users, user'[u].pc # "submit", \A v \in Users : v # u => user'[v] = user[v],
             \A v \in Users : DOMAIN futures'[v] = DOMAIN futures[v],
             \A v \in Users : \A k \in DOMAIN futures[v] :
               futures'[v][k].object_id_ = futures[v][k].object_id_
      PROVE  FuturesApart'
    BY <1>1 DEF FuturesApart
<1>2. CASE UNCHANGED <<user, futures>>
    BY <1>2 DEF FuturesApart
<1>3. ASSUME NEW u \in Users, NEW body \in Calls, RequestObjectID(u, body) PROVE FuturesApart'
    <2>1. /\ user'[u].object_id = Len(issued[ClientOf[u]]) /\ UNCHANGED futures
          /\ \A v \in Users : v # u => user'[v] = user[v]
        BY <1>0, <1>3, RequestEffect DEF Asked
    <2>2. \A v \in Users : ClientOf[v] = ClientOf[u] =>
            \A k \in DOMAIN futures[v] : futures[v][k].object_id_ # Len(issued[ClientOf[u]])
        BY <1>0, IssuedBelow DEF Asked, FuturesIssued
    <2> QED BY <2>1, <2>2 DEF FuturesApart
<1>4. ASSUME NEW u \in Users, user[u].pc = "submit", ReturnFuture(u) PROVE FuturesApart'
    <2>1. user'[u] = Between /\ \A v \in Users : v # u => user'[v] = user[v] /\ futures'[v] = futures[v]
        BY <1>0, <1>4, FutureEffect
    <2>2. ASSUME NEW k \in DOMAIN futures'[u]
          PROVE  \/ k \in DOMAIN futures[u] /\ futures'[u][k].object_id_ = futures[u][k].object_id_
                 \/ k = Len(futures[u]) + 1 /\ futures'[u][k].object_id_ = user[u].object_id
        <3>1. \/ k \in DOMAIN futures[u] /\ futures'[u][k] = futures[u][k]
              \/ k = Len(futures[u]) + 1
                 /\ futures'[u][k] = [object_id_ |-> user[u].object_id, body |-> user[u].body,
                                      data_ptr_ |-> << >>]
            BY <1>0, <1>4, FutureEffect
        <3> QED BY <3>1
    <2>3. user'[u].pc # "submit"
        BY <2>1 DEF Between
    <2>4. ASSUME NEW v \in Users, NEW w \in Users, ClientOf[v] = ClientOf[w],
                 NEW j \in DOMAIN futures'[v], NEW k \in DOMAIN futures'[w],
                 futures'[v][j].object_id_ = futures'[w][k].object_id_
          PROVE  v = w /\ j = k
        <3>1. CASE v = u /\ w = u
            BY <1>4, <2>2, <2>4, <3>1 DEF FuturesApart
        <3>2. CASE v = u /\ w # u
            BY <1>4, <2>1, <2>2, <2>4, <3>2 DEF FuturesApart
        <3>3. CASE v # u /\ w = u
            BY <1>4, <2>1, <2>2, <2>4, <3>3 DEF FuturesApart
        <3>4. CASE v # u /\ w # u
            BY <2>1, <2>4, <3>4 DEF FuturesApart
        <3> QED BY <3>1, <3>2, <3>3, <3>4
    <2>5. ASSUME NEW v \in Users, NEW w \in Users, ClientOf[v] = ClientOf[w], user'[w].pc = "submit",
                 NEW j \in DOMAIN futures'[v]
          PROVE  futures'[v][j].object_id_ # user'[w].object_id
        <3>1. w # u /\ user'[w] = user[w]
            BY <2>1, <2>3, <2>5
        <3>2. CASE v = u
            BY <1>4, <2>2, <2>5, <3>1, <3>2 DEF FuturesApart, SendsApart
        <3>3. CASE v # u
            BY <2>1, <2>5, <3>1, <3>3 DEF FuturesApart
        <3> QED BY <3>2, <3>3
    <2> QED BY <2>4, <2>5 DEF FuturesApart
<1>5. ASSUME NEW u \in Users, Submit(u) \/ SubmitLost(u) PROVE user[u].pc = "submit" /\ ReturnFuture(u)
    BY <1>5 DEF Submit, SubmitLost
<1>6. ASSUME NEW u \in Users, ReadCached(u) PROVE FuturesApart'
    <2>1. /\ user'[u] = Between /\ \A v \in Users : v # u => user'[v] = user[v] /\ futures'[v] = futures[v]
          /\ DOMAIN futures'[u] = DOMAIN futures[u]
          /\ \A k \in DOMAIN futures[u] : futures'[u][k].object_id_ = futures[u][k].object_id_
        BY <1>0, <1>6, GetEffect
    <2>2. user'[u].pc # "submit"
        BY <2>1 DEF Between
    <2> QED BY <1>1, <2>1, <2>2
<1>7. ASSUME NEW u \in Users,
             (\E k \in DOMAIN futures[u] : BeginGet(u, k)) \/ PollFound(u) \/ ReadThrows(u) \/ ReadRaces(u)
      PROVE  FuturesApart'
    <2>1. user'[u].pc # "submit" /\ (\A v \in Users : v # u => user'[v] = user[v]) /\ UNCHANGED futures
        BY <1>0, <1>7, QuietEffect
    <2> QED BY <1>1, <2>1
<1>8. ASSUME NEW c \in Conns, ClientIoNext(c) \/ LinkStep(c) PROVE UNCHANGED <<user, futures>>
    BY <1>8 DEF ClientIoNext, LinkStep, ReceiveResponse, StoreResponse, ReadEnds, OnSubmitError,
        ClientInit, Destroy, LinkCut, subVars
<1>9. ASSUME UNCHANGED subVars PROVE UNCHANGED <<user, futures>>
    BY <1>9 DEF subVars
<1>10. ASSUME NEW u \in Users, UserStep(u) PROVE FuturesApart'
    BY <1>3, <1>4, <1>5, <1>6, <1>7, <1>10 DEF UserStep
<1> QED BY <1>2, <1>8, <1>9, <1>10, Steps

(* A client that reads a response leaves the others where they are.        *)
LEMMA ReceiveLone ==
  ASSUME RpcInv, UNCHANGED execVars, NEW c \in Conns, ReceiveResponse(c),
         NEW d \in Conns, NEW o, Lone(d, o)
  PROVE  Lone(d, o)'
<1>1. /\ Queued(d, o)' = Queued(d, o) /\ Performing(d, o)' = Performing(d, o)
      /\ Answered(d, o)' = Answered(d, o) /\ Writing(d, o)' = Writing(d, o)
    BY PlaceFrame DEF execVars, SameStream
<1>2. /\ toClient[c] \in Seq(ResponseMessages) /\ toClient[c] # << >>
      /\ toClient'[c] = Tail(toClient[c]) /\ \A e \in Conns : e # c => toClient'[e] = toClient[e]
    BY DEF ReceiveResponse, RpcInv, IInv, TypeOK
<1>3. CASE d # c
    <2>1. Written(d, o)' = Written(d, o)
        BY <1>2, <1>3 DEF Written
    <2> QED BY <1>1, <2>1 DEF Lone
<1>4. CASE d = c
    <2>1. ASSUME NEW k \in Written(d, o)' PROVE k \in Nat /\ k + 1 \in Written(d, o)
        <3>1. k \in DOMAIN Tail(toClient[c]) /\ Tail(toClient[c])[k].object_id = o
            BY <1>2, <1>4, <2>1 DEF Written
        <3>2. k \in Nat /\ k + 1 \in DOMAIN toClient[c] /\ Tail(toClient[c])[k] = toClient[c][k + 1]
            BY <1>2, <3>1, TailShifts
        <3> QED BY <1>4, <3>1, <3>2 DEF Written
    <2>2. ASSUME NEW j \in Written(d, o)', NEW k \in Written(d, o)' PROVE j = k
        <3>1. j \in Nat /\ k \in Nat /\ j + 1 = k + 1
            BY <2>1 DEF Lone
        <3> QED BY <3>1
    <2>3. Written(d, o)' # {} => Written(d, o) # {}
        BY <2>1
    <2> QED BY <1>1, <2>2, <2>3 DEF Lone
<1> QED BY <1>3, <1>4

(* Only the two ends of PerformRequest, and reading a message, change what *)
(* is still to be performed.                                               *)
LEMMA NotYetStep ==
  ASSUME CallInv, NotYet, SendsApart, OwnEntry, NoneTwice, ExecNext
  PROVE  NotYet'
<1> USE DEF mainVars, acceptVars, setupVars, wireVars, history
<1>0. /\ IInv /\ NoIdAgain /\ worker \in [Performers -> WorkerStates]
      /\ request_queue_ \in Seq(DousiRequests)
      /\ WorkThreads \subseteq Performers /\ IoThreads \subseteq Performers
    BY DEF CallInv, RpcInv, SendsApart, IInv, TypeOK, Performers
<1>1. ASSUME UNCHANGED <<performed, request_queue_>>,
             \A p \in Performers : worker'[p].pc \in {"lookup", "invoke"} =>
               worker[p].pc \in {"lookup", "invoke"} /\ worker'[p].request = worker[p].request
      PROVE  NotYet'
    BY <1>1 DEF NotYet
<1>2. ASSUME NEW c \in Conns, MessageRead(c), UNCHANGED performed,
             NEW i \in DOMAIN performed
      PROVE  ~ SameMessage(performed[i].request, RequestOf(c, Head(toServer[c])))
    <2>1. /\ toServer[c] \in Seq(RequestMessages) /\ toServer[c] # << >>
          /\ stream[c].socket_ # "none"
        BY <1>0, <1>2 DEF MessageRead, IInv, TypeOK, Correlated, StreamsEntered
    <2>2. 1 \in DOMAIN toServer[c] /\ Head(toServer[c]) = toServer[c][1]
        BY <2>1
    <2>3. streams_[stream[c].stream_id_] = c
        BY <1>0, <2>1 DEF IInv, Correlated, StreamsEntered
    <2>4. GenuineRequest(performed[i].request, streams_, received)
        BY DEF CallInv, PerformedGenuine
    <2>5. performed[i].request.stream_id_ = stream[c].stream_id_ =>
            performed[i].request.object_id_ # toServer[c][1].object_id
        BY <1>0, <2>2, <2>3, <2>4 DEF GenuineRequest, NoIdAgain
    <2> QED BY <2>2, <2>5 DEF SameMessage, RequestOf
<1>3. ASSUME NEW c \in Conns, QueueRequest(c) PROVE NotYet'
    <2> DEFINE r == RequestOf(c, Head(toServer[c]))
    <2>1. /\ MessageRead(c) /\ UNCHANGED <<performed, worker>>
          /\ request_queue_' = Append(request_queue_, r)
        BY <1>3 DEF QueueRequest
    <2>2. r \in DousiRequests
        <3>1. Head(toServer[c]) \in RequestMessages
            BY <1>0, <2>1 DEF MessageRead, IInv, TypeOK
        <3> QED BY <1>0, <3>1 DEF RequestOf, IInv, TypeOK, RequestMessages, DousiRequests, Bodies, Streams
    <2>3. \A i \in DOMAIN performed : ~ SameMessage(performed[i].request, r)
        BY <1>2, <2>1
    <2> HIDE DEF r
    <2>4. \A k \in DOMAIN request_queue_' : (k \in DOMAIN request_queue_ /\ request_queue_'[k] = request_queue_[k])
                                          \/ request_queue_'[k] = r
        BY <1>0, <2>1, <2>2, AppendKeeps
    <2> QED BY <2>1, <2>3, <2>4 DEF NotYet
<1>4. ASSUME NEW c \in Conns, PerformInline(c) PROVE NotYet'
    <2> DEFINE r == RequestOf(c, Head(toServer[c]))
               t == stream[c].io
    <2>1. /\ MessageRead(c) /\ UNCHANGED <<performed, request_queue_>>
          /\ worker' = [worker EXCEPT ![t] = [pc |-> "lookup", request |-> r]]
        BY <1>4 DEF PerformInline
    <2>2. t \in Performers
        BY <1>0 DEF IInv, TypeOK, Streams
    <2>3. \A i \in DOMAIN performed : ~ SameMessage(performed[i].request, r)
        BY <1>2, <2>1
    <2> HIDE DEF r, t
    <2>4. worker'[t].request = r /\ \A p \in Performers : p # t => worker'[p] = worker[p]
        BY <1>0, <2>1, <2>2
    <2> QED BY <2>1, <2>3, <2>4 DEF NotYet
<1>5. ASSUME NEW t \in Performers, PopRequest(t) PROVE NotYet'
    <2>1. /\ request_queue_ # << >> /\ request_queue_' = Tail(request_queue_) /\ UNCHANGED performed
          /\ worker' = [worker EXCEPT ![t] = [pc |-> "lookup", request |-> Head(request_queue_)]]
        BY <1>5 DEF PopRequest
    <2>2. /\ 1 \in DOMAIN request_queue_ /\ Head(request_queue_) = request_queue_[1]
          /\ \A k \in DOMAIN request_queue_' : k + 1 \in DOMAIN request_queue_
                                              /\ request_queue_'[k] = request_queue_[k + 1]
        BY <1>0, <2>1, TailShifts
    <2>3. worker'[t].request = request_queue_[1] /\ \A p \in Performers : p # t => worker'[p] = worker[p]
        BY <1>0, <2>1, <2>2
    <2> QED BY <2>1, <2>2, <2>3 DEF NotYet
<1>6. ASSUME NEW t \in Performers, LookupMethod(t) PROVE NotYet'
    <2>1. /\ worker[t].pc = "lookup" /\ worker'[t].request = worker[t].request
          /\ \A p \in Performers : p # t => worker'[p] = worker[p]
          /\ UNCHANGED <<performed, request_queue_>>
        BY <1>0, <1>6 DEF LookupMethod
    <2> QED BY <1>1, <2>1
<1>7. ASSUME NEW t \in Performers, CallMethod(t) PROVE NotYet'
    <2> DEFINE r == worker[t].request
               c == streams_[r.stream_id_]
               n == Len(performed) + 1
    <2>1. /\ DOMAIN performed' = DOMAIN performed \cup {n}
          /\ \A i \in DOMAIN performed : performed'[i] = performed[i]
          /\ performed'[n] = [service |-> worker[t].method, request |-> r]
          /\ worker' = [worker EXCEPT ![t] = [pc |-> "respond", request |-> r, method |-> worker[t].method]]
          /\ r \in DousiRequests /\ UNCHANGED request_queue_
        BY <1>0, <1>7, CallEffect
    <2>2. /\ worker'[t].pc = "respond" /\ \A p \in Performers : p # t => worker'[p] = worker[p]
          /\ performed'[n].request = r
        BY <1>0, <2>1
    <2>3. worker[t].pc = "invoke" /\ worker[t] # Idle /\ r.stream_id_ \in DOMAIN streams_
        BY <1>0, <1>7 DEF CallMethod, Idle, IInv, Correlated, WorkersGenuine, GenuineRequest
    <2>4. c \in Conns /\ stream[c].socket_ # "none" /\ stream[c].stream_id_ = r.stream_id_
        BY <1>0, <2>3 DEF IInv, TypeOK, Correlated, StreamsEntered, OwnEntry
    <2>5. t \in Performing(c, r.object_id_) /\ Lone(c, r.object_id_)
        BY <2>1, <2>3, <2>4 DEF Performing, Belongs, NoneTwice, DousiRequests
    <2> HIDE DEF r, c, n
    <2>6. ASSUME NEW k \in DOMAIN request_queue_, SameMessage(r, request_queue_[k]) PROVE FALSE
        <3>1. k \in Queued(c, r.object_id_)
            BY <2>4, <2>6 DEF Queued, Belongs, SameMessage
        <3> QED BY <2>5, <3>1 DEF Lone
    <2>7. ASSUME NEW p \in Performers, p # t, worker[p].pc \in {"lookup", "invoke"},
                 SameMessage(r, worker[p].request)
          PROVE  FALSE
        <3>1. p \in Performing(c, r.object_id_)
            BY <2>4, <2>7 DEF Performing, Belongs, SameMessage, Idle
        <3> QED BY <2>5, <2>7, <3>1 DEF Lone
    <2>8. ASSUME NEW i \in DOMAIN performed', NEW k \in DOMAIN request_queue_
          PROVE  ~ SameMessage(performed'[i].request, request_queue_[k])
        BY <2>1, <2>2, <2>6 DEF NotYet
    <2>9. ASSUME NEW i \in DOMAIN performed', NEW p \in Performers, worker'[p].pc \in {"lookup", "invoke"}
          PROVE  ~ SameMessage(performed'[i].request, worker'[p].request)
        <3>1. p # t /\ worker'[p] = worker[p]
            BY <2>2, <2>9
        <3> QED BY <2>1, <2>2, <2>7, <2>9, <3>1 DEF NotYet
    <2> QED BY <2>1, <2>8, <2>9 DEF NotYet
<1>8. ASSUME NEW t \in Performers, PushResponse(t) PROVE NotYet'
    <2>1. /\ worker'[t].pc = "idle" /\ \A p \in Performers : p # t => worker'[p] = worker[p]
          /\ UNCHANGED <<performed, request_queue_>>
        BY <1>0, <1>8 DEF PushResponse, Idle
    <2> QED BY <1>1, <2>1
<1>9. ASSUME NEW s, NEW m, RegisterMethod(s, m) \/ Loop \/ OnAcceptError \/ OnAccept(s)
             \/ ReadFails(s) \/ OnWriteError(s) \/ CallEmptyFunction(s) \/ WriteNext(s)
      PROVE  UNCHANGED <<worker, request_queue_, performed>>
    BY <1>9 DEF RegisterMethod, Loop, OnAcceptError, OnAccept, ReadFails, OnWriteError,
        CallEmptyFunction, WriteNext, PopResponse, FindStream, WriteResponse, LoseResponse
<1>10. ASSUME UNCHANGED <<worker, request_queue_, performed>> PROVE NotYet'
    BY <1>10 DEF NotYet
<1>11. ASSUME NEW t, FinishRequest(t) \/ (\E c \in Conns : FinishInline(t, c)) PROVE PushResponse(t)
    BY <1>11 DEF FinishRequest, FinishInline
<1> QED
    BY <1>0, <1>3, <1>4, <1>5, <1>6, <1>7, <1>8, <1>9, <1>10, <1>11
    DEF ExecNext, MainNext, IoNext, WorkNext, InlineNext, PerformNext

(* Every step preserves OnceInv.                                           *)
LEMMA OnceStep ==
  ASSUME MaxCalls <= IdSpace, CallInv, OnceInv, [Next]_vars
  PROVE  OnceInv'
<1>0. /\ SendsApart /\ FuturesApart /\ OwnEntry /\ ClosedIsCut /\ NoneTwice /\ NotYet
      /\ RpcInv /\ IInv /\ NoIdAgain
    BY DEF OnceInv, CallInv, RpcInv, SendsApart
<1>1. SendsApart' /\ FuturesApart'
    BY <1>0, ApartStep, FuturesStep
<1>2. CASE ExecNext /\ UNCHANGED subVars
    <2>1. OwnEntry' /\ ClosedIsCut' /\ NotYet'
        BY <1>0, <1>2, EntriesStep, ClosedStep, NotYetStep
    <2>2. \A c \in Conns : \A o : Moved(c, o)
        BY <1>0, <1>2, StepMoves
    <2>3. NoneTwice'
        BY <1>0, <2>2 DEF NoneTwice, Moved
    <2> QED BY <1>1, <2>1, <2>3 DEF OnceInv
<1>3. CASE /\ UNCHANGED execVars
           /\ \/ \E u \in Users : UserStep(u)
              \/ \E c \in Conns : ClientIoNext(c) \/ LinkStep(c)
              \/ UNCHANGED <<subVars, wireVars>>
    <2>1. OwnEntry'
        BY <1>0, <1>3, Untouched
    <2>2. ClosedIsCut'
        <3>1. \A c \in Conns : link[c] = "cut" => link'[c] = "cut"
            BY <1>0, <1>3, ClientWire
        <3>2. UNCHANGED stream
            BY <1>3 DEF execVars
        <3> QED BY <1>0, <3>1, <3>2 DEF ClosedIsCut
    <2>3. NotYet'
        <3>1. UNCHANGED <<worker, request_queue_, performed>>
            BY <1>3 DEF execVars
        <3> QED BY <1>0, <3>1 DEF NotYet
    <2>4. NoneTwice'
        <3>1. CASE UNCHANGED toClient
            <4>1. UNCHANGED <<stream, request_queue_, worker, response_queue_, writer>>
                BY <1>3 DEF execVars
            <4>2. \A c \in Conns : SameStream(c)
                BY <4>1 DEF SameStream
            <4>3. \A c \in Conns : \A o : Moved(c, o)
                BY <3>1, <4>1, <4>2, PlaceFrame, AllFrame
            <4> QED BY <1>0, <4>3 DEF NoneTwice, Moved
        <3>2. ASSUME NEW c \in Conns, ReceiveResponse(c) PROVE NoneTwice'
            BY <1>0, <1>3, <3>2, ReceiveLone DEF NoneTwice
        <3> QED BY <1>0, <1>3, <3>1, <3>2, ClientWire
    <2> QED BY <1>1, <2>1, <2>2, <2>3, <2>4 DEF OnceInv
<1> QED BY <1>2, <1>3, Steps

-----------------------------------------------------------------------------
(* The refinement.                                                         *)

(* The future that holds a result is found by its id.                      *)
LEMMA FoundById ==
  ASSUME NEW H, NEW f \in H, \A g \in H : g.object_id_ = f.object_id_ => g = f
  PROVE  (CHOOSE g \in H : g.object_id_ = f.object_id_) = f
OBVIOUS

(* Futures are held by one user each.                                      *)
LEMMA HeldIs ==
  ASSUME NEW c \in Conns, NEW f
  PROVE  f \in Held(c) <=> /\ f.data_ptr_ # << >>
                           /\ \E u \in Users : /\ ClientOf[u] = c
                                               /\ \E k \in DOMAIN futures[u] : f = futures[u][k]
BY DEF Held

(* The performances of RemoteCalls are those of the server, one by one.    *)
LEMMA PerformedIs ==
  /\ DOMAIN Performed = DOMAIN performed
  /\ \A i \in DOMAIN performed :
       /\ Performed[i].conn = streams_[performed[i].request.stream_id_]
       /\ Performed[i].id = performed[i].request.object_id_
       /\ Performed[i].value = Result(performed[i].service, performed[i].request.unpacked_)
BY DEF Performed

(* A step that performs nothing leaves the performances alone.             *)
LEMMA PerformedFrame ==
  ASSUME PerformedGenuine, HistoryGrows, UNCHANGED performed
  PROVE  UNCHANGED Performed
<1>1. \A i \in DOMAIN performed : streams_'[performed[i].request.stream_id_] = streams_[performed[i].request.stream_id_]
    BY DEF PerformedGenuine, GenuineRequest, HistoryGrows
<1> QED BY <1>1 DEF Performed

(* A step that keeps the futures with data leaves the results alone.       *)
LEMMA ReturnedFrame ==
  ASSUME \A c \in Conns : Held(c)' = Held(c)
  PROVE  UNCHANGED Returned
BY DEF Returned

(* CallMethod is a performance of RemoteCalls.                             *)
LEMMA CallPerforms ==
  ASSUME CallInv, OnceInv, NEW p \in Performers, CallMethod(p), UNCHANGED <<issued, futures>>
  PROVE  Abstract!Next
<1> DEFINE r == worker[p].request
           c == streams_[r.stream_id_]
           o == r.object_id_
           s == worker[p].method
           e == [conn |-> c, id |-> o, value |-> Result(s, r.unpacked_)]
           n == Len(performed) + 1
<1>0. IInv /\ OwnEntry /\ NotYet /\ Asked /\ SubTypeOK
    BY DEF CallInv, RpcInv, OnceInv
<1>1. /\ DOMAIN performed' = DOMAIN performed \cup {n} /\ n \notin DOMAIN performed
      /\ \A i \in DOMAIN performed : performed'[i] = performed[i]
      /\ performed'[n] = [service |-> s, request |-> r]
      /\ r \in DousiRequests /\ s \in Services /\ UNCHANGED streams_
    BY <1>0, CallEffect
<1>2. worker[p].pc = "invoke" /\ GenuineRequest(r, streams_, received)
    BY <1>0 DEF CallMethod, IInv, Correlated, WorkersGenuine
<1>3. r.stream_id_ \in DOMAIN streams_ /\ c \in Conns /\ o \in ObjectIds /\ o \in Nat
    BY <1>0, <1>1, <1>2 DEF GenuineRequest, IInv, TypeOK, DousiRequests, ObjectIds
<1>4. o + 1 \in DOMAIN issued[c] /\ issued[c][o + 1] = r.unpacked_
    <2>1. PICK k \in DOMAIN received[c] : received[c][k].object_id = o /\ received[c][k].data = r.unpacked_
        BY <1>2 DEF GenuineRequest
    <2> QED BY <1>0, <1>3, <2>1 DEF Asked, ReceivedIssued, IsIssued
<1> HIDE DEF r, c, o, s, n
<1>5. Abstract!Performances(c, o) = {}
    <2> SUFFICES ASSUME NEW i \in DOMAIN performed, Performed[i].conn = c, Performed[i].id = o
                 PROVE  FALSE
        BY PerformedIs DEF Abstract!Performances
    <2>1. streams_[performed[i].request.stream_id_] = c /\ performed[i].request.object_id_ = o
        BY PerformedIs
    <2>2. performed[i].request.stream_id_ \in DOMAIN streams_
        BY DEF CallInv, PerformedGenuine, GenuineRequest
    <2>3. performed[i].request.stream_id_ = r.stream_id_
        BY <1>0, <1>3, <2>1, <2>2 DEF OwnEntry, c
    <2>4. SameMessage(performed[i].request, r)
        BY <2>1, <2>3 DEF SameMessage, o
    <2> QED BY <1>0, <1>2, <2>4 DEF NotYet, r
<1>6. Performed' = Append(Performed, e)
    <2>1. performed \in Seq([service : Services, request : DousiRequests])
        BY <1>0 DEF IInv, TypeOK
    <2>2. Performed \in Seq({Performed[i] : i \in DOMAIN performed} \cup {e}) /\ Len(Performed) = Len(performed)
        BY <2>1, PerformedIs DEF Performed
    <2>3. /\ DOMAIN Append(Performed, e) = DOMAIN performed \cup {n}
          /\ \A i \in DOMAIN performed : Append(Performed, e)[i] = Performed[i]
          /\ Append(Performed, e)[n] = e
        BY <2>2, AppendKeeps, PerformedIs DEF n
    <2>4. performed'[n].request = r /\ performed'[n].service = s
        BY <1>1
    <2>5. ASSUME NEW i \in DOMAIN performed' PROVE Performed'[i] = Append(Performed, e)[i]
        <3>1. CASE i \in DOMAIN performed
            BY <1>1, <2>3, <3>1 DEF Performed
        <3>2. CASE i = n
            BY <1>1, <2>3, <2>4, <3>2 DEF Performed, c, o
        <3> QED BY <1>1, <3>1, <3>2
    <2>6. DOMAIN Performed' = DOMAIN Append(Performed, e)
        BY <1>1, <2>3 DEF Performed
    <2>7. Append(Performed, e) = [i \in DOMAIN Append(Performed, e) |-> Append(Performed, e)[i]]
        BY <2>2
    <2>8. Performed' = [i \in DOMAIN Performed' |-> Performed'[i]]
        BY DEF Performed
    <2>9. DOMAIN Performed' = DOMAIN performed'
        BY DEF Performed
    <2> QED BY <2>5, <2>6, <2>7, <2>8, <2>9
<1>7. UNCHANGED Returned
    <2>1. \A d \in Conns : Held(d)' = Held(d)
        BY DEF Held
    <2> QED BY <2>1, ReturnedFrame
<1>8. Abstract!Perform(c, o, s)
    BY <1>4, <1>5, <1>6, <1>7 DEF Abstract!Perform
<1>9. o + 1 - 1 = o
    BY <1>3
<1> QED BY <1>1, <1>3, <1>4, <1>8, <1>9 DEF Abstract!Next

(* ReadCached returns a result of RemoteCalls.                             *)
LEMMA GetReturnsResult ==
  ASSUME CallInv, OnceInv, NEW u \in Users, ReadCached(u), UNCHANGED <<execVars, issued>>
  PROVE  Abstract!Next
<1> DEFINE c == ClientOf[u]
           k == user[u].future
           o == Wanted(u)
           bytes == cached_objects_[c][o]
           f == futures'[u][k]
<1>0. RpcInv /\ FuturesApart /\ Asked /\ SubTypeOK /\ c \in Conns
    BY ClientAssumption DEF CallInv, RpcInv, OnceInv
<1>1. /\ \A v \in Users : v # u => futures'[v] = futures[v]
      /\ DOMAIN futures'[u] = DOMAIN futures[u] /\ k \in DOMAIN futures[u]
      /\ \A j \in DOMAIN futures[u] : j # k => futures'[u][j] = futures[u][j]
      /\ f.object_id_ = o /\ f.data_ptr_ = bytes /\ futures[u][k].data_ptr_ = << >>
      /\ futures[u][k].object_id_ = o /\ o \in DOMAIN cached_objects_[c]
    BY <1>0, GetEffect DEF Wanted
<1>2. bytes # << >>
    BY DEF ReadCached
<1>3. o \in Nat /\ o + 1 \in DOMAIN issued[c]
    BY <1>0, <1>1 DEF Asked, FuturesIssued, IsIssued
<1>4. WasPerformed(performed, streams_, c, o, bytes)
    BY <1>0, <1>1 DEF CallInv, ClientBacked, CacheBacked
<1> HIDE DEF c, k, o, bytes, f
<1>5. ASSUME NEW d \in Conns, NEW g
      PROVE  g \in Held(d)' <=> g \in Held(d) \/ (d = c /\ g = f)
    <2>1. ASSUME g \in Held(d)' PROVE g \in Held(d) \/ (d = c /\ g = f)
        <3>1. PICK v \in Users : ClientOf[v] = d /\ g.data_ptr_ # << >>
                                 /\ \E j \in DOMAIN futures'[v] : g = futures'[v][j]
            BY <2>1 DEF Held
        <3>2. PICK j \in DOMAIN futures'[v] : g = futures'[v][j]
            BY <3>1
        <3>3. CASE v = u /\ j = k
            BY <3>1, <3>2, <3>3 DEF c, f
        <3>4. CASE ~ (v = u /\ j = k)
            <4>1. j \in DOMAIN futures[v] /\ g = futures[v][j]
                BY <1>1, <3>2, <3>4
            <4> QED BY <3>1, <4>1, HeldIs
        <3> QED BY <3>3, <3>4
    <2>2. ASSUME g \in Held(d) PROVE g \in Held(d)'
        <3>1. PICK v \in Users : ClientOf[v] = d /\ g.data_ptr_ # << >>
                                 /\ \E j \in DOMAIN futures[v] : g = futures[v][j]
            BY <2>2, HeldIs
        <3>2. PICK j \in DOMAIN futures[v] : g = futures[v][j]
            BY <3>1
        <3>3. j \in DOMAIN futures'[v] /\ g = futures'[v][j]
            BY <1>1, <3>1, <3>2
        <3> QED BY <3>1, <3>3 DEF Held
    <2>3. ASSUME d = c, g = f PROVE g \in Held(d)'
        <3>1. k \in DOMAIN futures'[u] /\ g = futures'[u][k] /\ g.data_ptr_ # << >> /\ ClientOf[u] = d
            BY <1>1, <1>2, <2>3 DEF f, c
        <3> QED BY <3>1 DEF Held
    <2> QED BY <2>1, <2>2, <2>3
<1>6. \A g \in Held(c) : g.object_id_ # o
    <2> SUFFICES ASSUME NEW g \in Held(c), g.object_id_ = o PROVE FALSE
        OBVIOUS
    <2>1. PICK v \in Users : ClientOf[v] = c /\ g.data_ptr_ # << >>
                             /\ \E j \in DOMAIN futures[v] : g = futures[v][j]
        BY <1>0, HeldIs
    <2>2. PICK j \in DOMAIN futures[v] : g = futures[v][j]
        BY <2>1
    <2>3. v = u /\ j = k
        BY <1>0, <1>1, <2>1, <2>2 DEF FuturesApart, c
    <2> QED BY <1>1, <2>1, <2>2, <2>3
<1>7. ASSUME NEW g \in Held(c), NEW h \in Held(c), g.object_id_ = h.object_id_ PROVE g = h
    <2>1. PICK v \in Users : ClientOf[v] = c /\ \E j \in DOMAIN futures[v] : g = futures[v][j]
        BY <1>0, HeldIs
    <2>2. PICK w \in Users : ClientOf[w] = c /\ \E j \in DOMAIN futures[w] : h = futures[w][j]
        BY <1>0, HeldIs
    <2>3. PICK i \in DOMAIN futures[v] : g = futures[v][i]
        BY <2>1
    <2>4. PICK j \in DOMAIN futures[w] : h = futures[w][j]
        BY <2>2
    <2>5. v = w /\ i = j
        BY <1>0, <1>7, <2>1, <2>2, <2>3, <2>4 DEF FuturesApart
    <2> QED BY <2>3, <2>4, <2>5
<1>8. /\ Held(c)' = Held(c) \cup {f}
      /\ \A d \in Conns : d # c => Held(d)' = Held(d)
    BY <1>0, <1>5
<1>9. ResultsOf(Held(c) \cup {f}) =
        [q \in DOMAIN ResultsOf(Held(c)) \cup {o} |-> IF q = o THEN bytes ELSE ResultsOf(Held(c))[q]]
    <2> DEFINE H == Held(c)
               N == H \cup {f}
    <2>1. ASSUME NEW g \in H
          PROVE  /\ (CHOOSE h \in H : h.object_id_ = g.object_id_) = g
                 /\ (CHOOSE h \in N : h.object_id_ = g.object_id_) = g
        <3>1. \A h \in H : h.object_id_ = g.object_id_ => h = g
            BY <1>7
        <3>2. \A h \in N : h.object_id_ = g.object_id_ => h = g
            BY <1>1, <1>6, <3>1
        <3>3. g \in N
            OBVIOUS
        <3> HIDE DEF H, N
        <3> QED BY <3>1, <3>2, <3>3, FoundById
    <2>2. (CHOOSE h \in N : h.object_id_ = f.object_id_) = f
        <3>1. \A h \in N : h.object_id_ = f.object_id_ => h = f
            BY <1>1, <1>6
        <3>2. f \in N
            OBVIOUS
        <3> HIDE DEF N
        <3> QED BY <3>1, <3>2, FoundById
    <2>3. DOMAIN ResultsOf(N) = {h.object_id_ : h \in N} /\ DOMAIN ResultsOf(H) = {h.object_id_ : h \in H}
        BY DEF ResultsOf
    <2>4. \A g \in H : ResultsOf(N)[g.object_id_] = g.data_ptr_ /\ ResultsOf(H)[g.object_id_] = g.data_ptr_
        BY <2>1 DEF ResultsOf
    <2>5. ResultsOf(N)[o] = bytes
        BY <1>1, <2>2 DEF ResultsOf
    <2>6. {h.object_id_ : h \in N} = {h.object_id_ : h \in H} \cup {o}
        BY <1>1
    <2>7. ResultsOf(N) = [q \in DOMAIN ResultsOf(N) |-> ResultsOf(N)[q]]
        BY DEF ResultsOf
    <2>8. ASSUME NEW q \in DOMAIN ResultsOf(H)
          PROVE  q # o /\ ResultsOf(N)[q] = ResultsOf(H)[q]
        <3>1. PICK g \in H : q = g.object_id_
            BY <2>3
        <3> QED BY <1>6, <2>4, <3>1
    <2> HIDE DEF H, N
    <2>9. ResultsOf(N) = [q \in DOMAIN ResultsOf(H) \cup {o} |-> IF q = o THEN bytes ELSE ResultsOf(H)[q]]
        BY <2>3, <2>5, <2>6, <2>7, <2>8
    <2> QED BY <2>9 DEF H, N
<1>10. Returned' = [Returned EXCEPT ![c] =
         [q \in DOMAIN Returned[c] \cup {o} |-> IF q = o THEN bytes ELSE Returned[c][q]]]
    <2>1. Returned[c] = ResultsOf(Held(c)) /\ DOMAIN Returned = Conns
        BY <1>0 DEF Returned
    <2>2. Returned' = [d \in Conns |-> ResultsOf(Held(d)')]
        BY DEF Returned, ResultsOf
    <2>3. \A d \in Conns : ResultsOf(Held(d)') = IF d = c THEN ResultsOf(Held(c) \cup {f}) ELSE ResultsOf(Held(d))
        BY <1>8
    <2>4. Returned = [d \in Conns |-> ResultsOf(Held(d))]
        BY DEF Returned
    <2> QED BY <1>0, <1>9, <2>1, <2>2, <2>3, <2>4
<1>11. UNCHANGED Performed
    BY DEF Performed, execVars
<1>12. o \notin DOMAIN Returned[c]
    <2>1. DOMAIN Returned[c] = {g.object_id_ : g \in Held(c)}
        BY <1>0 DEF Returned, ResultsOf
    <2> QED BY <1>6, <2>1
<1>13. \E i \in Abstract!Performances(c, o) : Performed[i].value = bytes
    <2>1. PICK i \in DOMAIN performed :
            /\ streams_[performed[i].request.stream_id_] = c
            /\ performed[i].request.object_id_ = o
            /\ bytes = Result(performed[i].service, performed[i].request.unpacked_)
        BY <1>4 DEF WasPerformed
    <2> QED BY <2>1, PerformedIs DEF Abstract!Performances
<1>14. Abstract!Return(c, o)
    BY <1>10, <1>11, <1>12, <1>13 DEF Abstract!Return
<1>15. o + 1 - 1 = o
    BY <1>3
<1> QED BY <1>0, <1>3, <1>14, <1>15 DEF Abstract!Next
(* A future without data is not held, and a step that only adds such a     *)
(* future leaves the results alone.                                        *)
LEMMA CallReturnsNothing ==
  ASSUME SubTypeOK, NEW u \in Users, user[u].pc = "submit", ReturnFuture(u)
  PROVE  UNCHANGED Returned
<1>1. ASSUME NEW d \in Conns, NEW g PROVE g \in Held(d)' <=> g \in Held(d)
    <2>1. ASSUME g \in Held(d)' PROVE g \in Held(d)
        <3>1. PICK v \in Users : ClientOf[v] = d /\ g.data_ptr_ # << >>
                                 /\ \E j \in DOMAIN futures'[v] : g = futures'[v][j]
            BY <2>1 DEF Held
        <3>2. PICK j \in DOMAIN futures'[v] : g = futures'[v][j]
            BY <3>1
        <3>3. j \in DOMAIN futures[v] /\ g = futures[v][j]
            <4>1. CASE v = u
                <5>1. g = [object_id_ |-> user[u].object_id, body |-> user[u].body, data_ptr_ |-> << >>]
                        => g.data_ptr_ = << >>
                    OBVIOUS
                <5> QED BY <3>1, <3>2, <4>1, <5>1, FutureEffect
            <4>2. CASE v # u
                BY <3>2, <4>2, FutureEffect
            <4> QED BY <4>1, <4>2
        <3> QED BY <3>1, <3>3, HeldIs
    <2>2. ASSUME g \in Held(d) PROVE g \in Held(d)'
        <3>1. PICK v \in Users : ClientOf[v] = d /\ g.data_ptr_ # << >>
                                 /\ \E j \in DOMAIN futures[v] : g = futures[v][j]
            BY <2>2, HeldIs
        <3>2. PICK j \in DOMAIN futures[v] : g = futures[v][j]
            BY <3>1
        <3>3. j \in DOMAIN futures'[v] /\ g = futures'[v][j]
            BY <3>2, FuturesKept
        <3> QED BY <3>1, <3>3 DEF Held
    <2> QED BY <2>1, <2>2
<1>2. \A d \in Conns : Held(d)' = Held(d)
    BY <1>1
<1> QED BY <1>2, ReturnedFrame

(* A step of a user is a step of RemoteCalls: a call is issued, a result   *)
(* is returned, or nothing happens there.                                  *)
LEMMA UserRefines ==
  ASSUME CallInv, OnceInv, NEW u \in Users, UserStep(u), UNCHANGED execVars
  PROVE  Abstract!Next \/ UNCHANGED <<issued, Performed, Returned>>
<1>0. SubTypeOK /\ RpcInv /\ ClientOf[u] \in Conns
    BY ClientAssumption DEF CallInv, RpcInv
<1>1. UNCHANGED Performed
    BY DEF Performed, execVars
<1>2. ASSUME UNCHANGED futures PROVE UNCHANGED Returned
    <2>1. \A d \in Conns : Held(d)' = Held(d)
        BY <1>2 DEF Held
    <2> QED BY <2>1, ReturnedFrame
<1>3. ASSUME NEW body \in Calls, RequestObjectID(u, body) PROVE Abstract!Next
    <2>1. UNCHANGED Returned /\ body \in Bodies
        BY <1>2, <1>3, CallsAssumption DEF RequestObjectID
    <2>2. issued' = [issued EXCEPT ![ClientOf[u]] = Append(@, body)]
        BY <1>3 DEF RequestObjectID
    <2>3. Abstract!Issue(ClientOf[u], body)
        BY <1>1, <2>1, <2>2 DEF Abstract!Issue
    <2> QED BY <1>0, <2>1, <2>3 DEF Abstract!Next
<1>4. CASE Submit(u) \/ SubmitLost(u)
    <2>1. user[u].pc = "submit" /\ ReturnFuture(u) /\ UNCHANGED issued
        BY <1>4 DEF Submit, SubmitLost
    <2> QED BY <1>0, <1>1, <2>1, CallReturnsNothing
<1>5. CASE ReadCached(u)
    <2>1. UNCHANGED issued
        BY <1>5 DEF ReadCached
    <2> QED BY <1>5, <2>1, GetReturnsResult
<1>6. CASE (\E k \in DOMAIN futures[u] : BeginGet(u, k)) \/ PollFound(u) \/ ReadThrows(u) \/ ReadRaces(u)
    BY <1>0, <1>1, <1>2, <1>6, QuietEffect
<1> QED BY <1>3, <1>4, <1>5, <1>6 DEF UserStep

(* Every step is a step of RemoteCalls or changes nothing there.           *)
LEMMA StepRefines ==
  ASSUME MaxCalls <= IdSpace, CallInv, OnceInv, [Next]_vars
  PROVE  [Abstract!Next]_<<issued, Performed, Returned>>
<1>0. IInv /\ PerformedGenuine /\ HistoryGrows
    BY CallStep DEF CallInv, RpcInv
<1>1. ASSUME UNCHANGED futures PROVE UNCHANGED Returned
    <2>1. \A d \in Conns : Held(d)' = Held(d)
        BY <1>1 DEF Held
    <2> QED BY <2>1, ReturnedFrame
<1>2. CASE ExecNext /\ UNCHANGED subVars
    <2>1. UNCHANGED <<issued, futures>>
        BY <1>2 DEF subVars
    <2>2. ASSUME NEW p \in Performers, CallMethod(p) PROVE Abstract!Next
        BY <2>1, <2>2, CallPerforms
    <2>3. CASE UNCHANGED performed
        BY <1>0, <1>1, <2>1, <2>3, PerformedFrame
    <2> QED BY <1>0, <1>2, <2>2, <2>3, LogStep
<1>3. ASSUME UNCHANGED execVars, NEW u \in Users, UserStep(u)
      PROVE  Abstract!Next \/ UNCHANGED <<issued, Performed, Returned>>
    BY <1>3, UserRefines
<1>4. ASSUME UNCHANGED execVars, UNCHANGED <<issued, futures>>
      PROVE  UNCHANGED <<issued, Performed, Returned>>
    <2>1. UNCHANGED Performed
        BY <1>4 DEF Performed, execVars
    <2> QED BY <1>1, <1>4, <2>1
<1>5. ASSUME NEW c \in Conns, ClientIoNext(c) \/ LinkStep(c) PROVE UNCHANGED <<issued, futures>>
    BY <1>5 DEF ClientIoNext, ReceiveResponse, StoreResponse, ReadEnds, OnSubmitError,
        LinkStep, ClientInit, Destroy, subVars
<1>6. ASSUME UNCHANGED <<subVars, wireVars>> PROVE UNCHANGED <<issued, futures>>
    BY <1>6 DEF subVars
<1> QED BY <1>2, <1>3, <1>4, <1>5, <1>6, Steps

(* OnceInv holds initially.                                                *)
LEMMA InitOnceInv == Init => OnceInv
<1> SUFFICES ASSUME Init PROVE OnceInv
    OBVIOUS
<1>1. OwnEntry /\ ClosedIsCut /\ NotYet
    BY DEF Init, ExecInit, WireInit, OwnEntry, ClosedIsCut, NotYet
<1>2. SendsApart /\ FuturesApart
    BY DEF Init, ExecInit, SubInit, WireInit, SendsApart, NoIdAgain, FuturesApart, Between
<1>3. ASSUME NEW c \in Conns, NEW o PROVE Nowhere(c, o)
    BY DEF Init, ExecInit, WireInit, Nowhere, Queued, Performing, Answered, Writing, Written
<1>4. NoneTwice
    BY <1>3 DEF NoneTwice, Lone, Nowhere
<1> QED BY <1>1, <1>2, <1>4 DEF OnceInv

(* Clients and server together implement the remote calls that dousi       *)
(* promises, as long as object ids fit the wire: whatever the pools, the   *)
(* connections and the users do, a call is performed at most once, on its  *)
(* own arguments, and a future yields the value of that performance.       *)
THEOREM Refinement ==
  ASSUME MaxCalls <= IdSpace
  PROVE  Spec => ImplementsRemoteCalls
<1>1. Init => Abstract!Init
    BY DEF Init, ExecInit, SubInit, Abstract!Init, Performed, Returned, ResultsOf, Held
<1>2. Init => OnceInv
    BY InitOnceInv
<1>3. CallInv /\ OnceInv /\ [Next]_vars => OnceInv'
    BY OnceStep
<1>4. CallInv /\ OnceInv /\ [Next]_vars => [Abstract!Next]_<<issued, Performed, Returned>>
    BY StepRefines
<1> QED BY <1>1, <1>2, <1>3, <1>4, CallInvariance, PTL DEF Spec, ImplementsRemoteCalls, Abstract!Spec
=============================================================================
