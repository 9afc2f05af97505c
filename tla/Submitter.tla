----------------------------- MODULE Submitter ------------------------------
(***************************************************************************)
(* The client side of dousi: Submitter (core/submitter/submitter.h), the   *)
(* call path of ServiceHandle and DousiFuture.  There is one Submitter per *)
(* connection.                                                             *)
(*                                                                         *)
(* Threads and their code:                                                 *)
(*   Users       ServiceHandle::Call (RequestObjectID, Submit) and         *)
(*               DousiFuture::Get (GetObject); several may share a client  *)
(*   io thread   io_service_thread_: the callback that stores a result     *)
(*               under mutex_, and the completions of reads and writes     *)
(*                                                                         *)
(* A future stays with the user that made the call.                        *)
(***************************************************************************)
EXTENDS Wire

CONSTANTS
  Users,      \* the threads of the client programs
  ClientOf,   \* the connection each of them uses
  MaxCalls    \* bound on the calls over one connection

ASSUME ClientAssumption == ClientOf \in [Users -> Conns]
ASSUME MaxCallsAssumption == MaxCalls \in Nat

VARIABLES
  client,           \* "new", "ready", "closed", or "aborted"
  curr_object_id_,  \* a uint64_t
  stream_,          \* the AsioStream of the client
  storing,          \* << >>, or the message whose callback holds mutex_
  cached_objects_,  \* object id -> serialized result
  user,             \* local state of each user
  futures,          \* the DousiFutures each user holds
  issued            \* history: the calls over each connection, by object id

subVars == <<client, curr_object_id_, stream_, storing, cached_objects_, user,
             futures, issued>>

-----------------------------------------------------------------------------
Between == [pc |-> "between"]

(* AsioStream as the client uses it: one read loop, one write at a time.   *)
ClientStreams == [socket_ : {"none", "open", "closed"},
                  read : {"none", "pending", "completed", "ended"},
                  write : {"ok", "failed"}]

(* has_data_ is data_ptr_ # << >>: Get sets both together.                 *)
Futures == [object_id_ : Nat, body : Bodies, data_ptr_ : Seq(Values)]

UserStates == {Between} \cup [pc : {"submit"}, object_id : Nat, body : Bodies]
  \cup [pc : {"poll", "read"}, future : Nat]

SubInit ==
  /\ client = [c \in Conns |-> "new"]
  /\ curr_object_id_ = [c \in Conns |-> 0]
  /\ stream_ = [c \in Conns |-> [socket_ |-> "none", read |-> "none", write |-> "ok"]]
  /\ storing = [c \in Conns |-> << >>]
  /\ cached_objects_ = [c \in Conns |-> [o \in {} |-> {}]]
  /\ user = [u \in Users |-> Between]
  /\ futures = [u \in Users |-> << >>]
  /\ issued = [c \in Conns |-> << >>]

-----------------------------------------------------------------------------
(* Init: DoConnect, then Start; the io thread begins to run.               *)
ClientInit(c) ==
  /\ client[c] = "new"
  /\ link[c] = "none"
  /\ client' = [client EXCEPT ![c] = "ready"]
  /\ stream_' = [stream_ EXCEPT ![c].socket_ = "open", ![c].read = "pending"]
  /\ link' = [link EXCEPT ![c] = "up"]
  /\ UNCHANGED <<curr_object_id_, storing, cached_objects_, user, futures,
                 issued, toServer, toClient>>

(* ~Submitter, once no user is inside a call: the io thread is stopped and *)
(* joined, and the socket is closed with the stream.                       *)
Destroy(c) ==
  /\ client[c] = "ready"
  /\ \A u \in Users : ClientOf[u] = c => user[u] = Between
  /\ storing[c] = << >>
  /\ client' = [client EXCEPT ![c] = "closed"]
  /\ link' = [link EXCEPT ![c] = "cut"]
  /\ UNCHANGED <<curr_object_id_, stream_, storing, cached_objects_, user,
                 futures, issued, toServer, toClient>>

-----------------------------------------------------------------------------
(* A user calls a method.                                                  *)

Acting(u) == client[ClientOf[u]] = "ready"

(* RequestObjectID: fetch_add on curr_object_id_.                          *)
RequestObjectID(u, body) ==
  LET c == ClientOf[u]
  IN  /\ Acting(u)
      /\ user[u] = Between
      /\ curr_object_id_[c] < MaxCalls
      /\ user' = [user EXCEPT ![u] =
           [pc |-> "submit", object_id |-> curr_object_id_[c], body |-> body]]
      /\ curr_object_id_' = [curr_object_id_ EXCEPT ![c] = @ + 1]
      /\ issued' = [issued EXCEPT ![c] = Append(@, body)]
      /\ UNCHANGED <<client, stream_, storing, cached_objects_, futures, wireVars>>

(* Mutant: the future keeps the initializer of its object_id_, -1.         *)
ReturnFutureUnset(u) ==
  /\ futures' = [futures EXCEPT ![u] = Append(@,
       [object_id_ |-> -1, body |-> user[u].body, data_ptr_ |-> << >>])]
  /\ user' = [user EXCEPT ![u] = Between]

(* The future that InternalCall returns.                                   *)
ReturnFuture(u) ==
  /\ futures' = [futures EXCEPT ![u] = Append(@,
       [object_id_ |-> user[u].object_id, body |-> user[u].body,
        data_ptr_ |-> << >>])]
  /\ user' = [user EXCEPT ![u] = Between]

(* Submit: AsioStream::Write takes the id as a uint32_t.                   *)
Submit(u) ==
  LET c == ClientOf[u]
  IN  /\ Acting(u)
      /\ user[u].pc = "submit"
      /\ link[c] = "up"
      /\ stream_[c].socket_ = "open"
      /\ toServer' = [toServer EXCEPT ![c] = Append(@,
           [object_id |-> user[u].object_id % IdSpace, data |-> user[u].body])]
      /\ ReturnFuture(u)
      /\ UNCHANGED <<client, curr_object_id_, stream_, storing,
                     cached_objects_, issued, toClient, link>>

(* Submit on a connection that is gone: the message is lost, with or       *)
(* without an error for the completion of the write.                       *)
SubmitLost(u) ==
  LET c == ClientOf[u]
  IN  /\ Acting(u)
      /\ user[u].pc = "submit"
      /\ link[c] = "cut" \/ stream_[c].socket_ = "closed"
      /\ \/ stream_' = [stream_ EXCEPT ![c].write = "failed"]
         \/ stream_[c].socket_ = "open" /\ UNCHANGED stream_
      /\ ReturnFuture(u)
      /\ UNCHANGED <<client, curr_object_id_, storing, cached_objects_, issued,
                     wireVars>>

-----------------------------------------------------------------------------
(* A user waits for a result.                                              *)

(* Get on a future that has no data yet.                                   *)
BeginGet(u, k) ==
  /\ Acting(u)
  /\ user[u] = Between
  /\ futures[u][k].data_ptr_ = << >>
  /\ user' = [user EXCEPT ![u] = [pc |-> "poll", future |-> k]]
  /\ UNCHANGED <<client, curr_object_id_, stream_, storing, cached_objects_,
                 futures, issued, wireVars>>

Wanted(u) == futures[u][user[u].future].object_id_

(* The loop of GetObject finds the id, with mutex_ held.                   *)
PollFound(u) ==
  LET c == ClientOf[u]
  IN  /\ Acting(u)
      /\ user[u].pc = "poll"
      /\ storing[c] = << >>
      /\ Wanted(u) \in DOMAIN cached_objects_[c]
      /\ user' = [user EXCEPT ![u].pc = "read"]
      /\ UNCHANGED <<client, curr_object_id_, stream_, storing,
                     cached_objects_, futures, issued, wireVars>>

(* The second find, without mutex_, and the decoding of the bytes.         *)
ReadCached(u) ==
  LET bytes == cached_objects_[ClientOf[u]][Wanted(u)]
  IN  /\ Acting(u)
      /\ user[u].pc = "read"
      /\ bytes # << >>
      /\ futures' = [futures EXCEPT ![u][user[u].future].data_ptr_ = bytes]
      /\ user' = [user EXCEPT ![u] = Between]
      /\ UNCHANGED <<client, curr_object_id_, stream_, storing,
                     cached_objects_, issued, wireVars>>

(* The result of a void method is empty: msgpack::unpack throws to the     *)
(* caller of Get, and the future stays without data.                       *)
ReadThrows(u) ==
  /\ Acting(u)
  /\ user[u].pc = "read"
  /\ cached_objects_[ClientOf[u]][Wanted(u)] = << >>
  /\ user' = [user EXCEPT ![u] = Between]
  /\ UNCHANGED <<client, curr_object_id_, stream_, storing, cached_objects_,
                 futures, issued, wireVars>>

(* The second find races with the insertion of another result.  It may     *)
(* walk the table while it is rehashed and miss the id: the assert that    *)
(* follows ends the process (without asserts, end() is dereferenced).      *)
ReadRaces(u) ==
  LET c == ClientOf[u]
  IN  /\ Acting(u)
      /\ user[u].pc = "read"
      /\ storing[c] # << >>
      /\ storing[c][1].object_id \notin DOMAIN cached_objects_[c]
      /\ client' = [client EXCEPT ![c] = "aborted"]
      /\ link' = [link EXCEPT ![c] = "cut"]
      /\ UNCHANGED <<curr_object_id_, stream_, storing, cached_objects_, user,
                     futures, issued, toServer, toClient>>

-----------------------------------------------------------------------------
(* The io thread.                                                          *)

(* A complete message has been read, perhaps before the socket was closed; *)
(* the callback takes mutex_.  The next read starts when it returns.       *)
ReceiveResponse(c) ==
  /\ client[c] = "ready"
  /\ \/ stream_[c].socket_ = "open" /\ stream_[c].read = "pending"
     \/ stream_[c].read = "completed"
  /\ storing[c] = << >>
  /\ toClient[c] # << >>
  /\ storing' = [storing EXCEPT ![c] = <<Head(toClient[c])>>]
  /\ toClient' = [toClient EXCEPT ![c] = Tail(@)]
  /\ stream_' = [stream_ EXCEPT ![c].read = "pending"]
  /\ UNCHANGED <<client, curr_object_id_, cached_objects_, user, futures,
                 issued, toServer, link>>

(* Entering a message in the table m.                                      *)
Entered(m, message) ==
  [o \in DOMAIN m \cup {message.object_id} |->
     IF o = message.object_id THEN message.data ELSE m[o]]

(* Mutant: the result is taken for that of the latest call.                *)
StoreForLatest(c) ==
  /\ client[c] = "ready"
  /\ storing[c] # << >>
  /\ cached_objects_' = [cached_objects_ EXCEPT ![c] =
       Entered(@, [object_id |-> curr_object_id_[c] - 1, data |-> storing[c][1].data])]
  /\ storing' = [storing EXCEPT ![c] = << >>]
  /\ UNCHANGED <<client, curr_object_id_, stream_, user, futures, issued, wireVars>>

(* Mutant: the callback returns without starting the next read.            *)
StoreAndStop(c) ==
  /\ client[c] = "ready"
  /\ storing[c] # << >>
  /\ cached_objects_' = [cached_objects_ EXCEPT ![c] = Entered(@, storing[c][1])]
  /\ storing' = [storing EXCEPT ![c] = << >>]
  /\ stream_' = [stream_ EXCEPT ![c].read = "ended"]
  /\ UNCHANGED <<client, curr_object_id_, user, futures, issued, wireVars>>

(* The callback stores the result and returns; DoReadObjectID.             *)
StoreResponse(c) ==
  /\ client[c] = "ready"
  /\ storing[c] # << >>
  /\ cached_objects_' = [cached_objects_ EXCEPT ![c] = Entered(@, storing[c][1])]
  /\ storing' = [storing EXCEPT ![c] = << >>]
  /\ UNCHANGED <<client, curr_object_id_, stream_, user, futures, issued, wireVars>>

(* A read completes with an error_code; no further read is started.        *)
ReadEnds(c) ==
  /\ client[c] = "ready"
  /\ stream_[c].read = "pending"
  /\ storing[c] = << >>
  /\ link[c] = "cut" \/ stream_[c].socket_ = "closed"
  /\ stream_' = [stream_ EXCEPT ![c].read = "ended"]
  /\ UNCHANGED <<client, curr_object_id_, storing, cached_objects_, user,
                 futures, issued, wireVars>>

(* The completion of a failed async_write closes the socket, with the      *)
(* completion of a read perhaps queued behind it.                          *)
OnSubmitError(c) ==
  /\ client[c] = "ready"
  /\ stream_[c].write = "failed"
  /\ storing[c] = << >>
  /\ \/ stream_' = [stream_ EXCEPT ![c].socket_ = "closed", ![c].write = "ok"]
     \/ /\ stream_[c].socket_ = "open" /\ stream_[c].read = "pending"
        /\ toClient[c] # << >>
        /\ stream_' = [stream_ EXCEPT ![c].socket_ = "closed", ![c].write = "ok",
                                      ![c].read = "completed"]
  /\ UNCHANGED <<client, curr_object_id_, storing, cached_objects_, user,
                 futures, issued, wireVars>>

-----------------------------------------------------------------------------
ClientIoNext(c) ==
  \/ ReceiveResponse(c)
  \/ StoreResponse(c)
  \/ ReadEnds(c)
  \/ OnSubmitError(c)

SubmitNext(u) == Submit(u) \/ SubmitLost(u)

GetNext(u) ==
  \/ PollFound(u)
  \/ ReadCached(u)
  \/ ReadThrows(u)
  \/ ReadRaces(u)

UserNext(u, calls) ==
  \/ \E body \in calls : RequestObjectID(u, body)
  \/ SubmitNext(u)
  \/ \E k \in DOMAIN futures[u] : BeginGet(u, k)
  \/ GetNext(u)
=============================================================================
