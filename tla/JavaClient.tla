----------------------------- MODULE JavaClient -----------------------------
(***************************************************************************)
(* The Java client: the native methods of NativeRpcClient                  *)
(* (jni/org_dousi_client_NativeRpcClient.cc), NativeClientForJava          *)
(* (jni/native_java_client.h) and the Submitter under it, whose io thread  *)
(* hands each result to Java.  All clients of the process share one set of *)
(* global JNI references, and the log.                                     *)
(*                                                                         *)
(* Each client is used by one Java thread.  The JVM is external: a global  *)
(* reference is live from NewGlobalRef to DeleteGlobalRef, and using a     *)
(* dead one may or may not end the process.  The server answers a request  *)
(* at most once, in any order.                                             *)
(***************************************************************************)
EXTENDS Logging

CONSTANTS
  Clients,
  NoObject,     \* a global that has not been assigned yet
  IdSpace,      \* 2^32: object ids on the wire are uint32_t
  MaxInvokes    \* bound: calls per client

ASSUME ClientsAssumption == NoObject \notin Clients
ASSUME IdAssumption == IdSpace \in Nat \ {0} /\ MaxInvokes \in Nat
ASSUME LogThreadsAssumption == LogThreads = {"java", "io"} \X Clients

VARIABLES
  java_object_native_rpc_client,  \* the object last assigned, by its client
  object_refs,      \* clients whose object has a live global reference
  class_ref,        \* java_class_NativeRpcClient is live
  native,           \* where the Java thread of each client is
  curr_object_id_,
  returned,         \* ids that nativeInvoke has returned to Java
  sent,             \* ids on the way to the server or in an answer of it
  link,             \* the connection of each client is up
  stopped,          \* io_service_.stop() has been called
  io,               \* the io thread: where it is, the id received, the
                    \* object that the callback runs on
  answered,         \* history: ids handed to Java
  disturbed         \* history: clients during whose life another client was
                    \* created or deleted the references

refVars    == <<java_object_native_rpc_client, object_refs, class_ref, disturbed>>
callVars   == <<curr_object_id_, returned, sent>>
ioVars     == <<link, stopped, io, answered>>
vars       == <<logVars, refVars, native, callVars, ioVars>>

Java(c) == <<"java", c>>
Io(c)   == <<"io", c>>
IoState(place) == [at |-> place, id |-> 0, object |-> NoObject]
IoAt(c, place) == io' = [io EXCEPT ![c] = IoState(place)]
At(c, place) == native[c] = place /\ Idle(Java(c))
Going(c, place) == native' = [native EXCEPT ![c] = place]
Existing == {c \in Clients : native[c] \notin {"none", "gone"}}

(* JNI_OnLoad has cached the class and the method.                         *)
Init ==
  /\ LogInit
  /\ java_object_native_rpc_client = NoObject
  /\ object_refs = {}
  /\ class_ref = TRUE
  /\ native = [c \in Clients |-> "none"]
  /\ curr_object_id_ = [c \in Clients |-> 0]
  /\ returned = [c \in Clients |-> {}]
  /\ sent = [c \in Clients |-> {}]
  /\ link = [c \in Clients |-> FALSE]
  /\ stopped = [c \in Clients |-> FALSE]
  /\ io = [c \in Clients |-> IoState("none")]
  /\ answered = [c \in Clients |-> {}]
  /\ disturbed = {}

-----------------------------------------------------------------------------
(* nativeNewRpcClient takes a reference to its object, and the constructor *)
(* of NativeClientForJava begins by starting the log.                      *)
NativeNewRpcClient(c) ==
  /\ native[c] = "none"
  /\ java_object_native_rpc_client' = c
  /\ object_refs' = object_refs \cup {c}
  /\ disturbed' = disturbed \cup (Existing \ {c})
  /\ StartDousiLog(Java(c), WARNING)
  /\ Going(c, "starting")
  /\ UNCHANGED <<class_ref, callVars, ioVars>>

(* Submitter::Init: connect, and say so at DEBUG ...                       *)
Connect(c) ==
  /\ At(c, "starting")
  /\ link' = [link EXCEPT ![c] = TRUE]
  /\ DousiLog(Java(c), DEBUG)
  /\ Going(c, "connected")
  /\ UNCHANGED <<refVars, callVars, stopped, io, answered>>

(* ... or throw, through the frames of the JVM.                            *)
ConnectThrows(c) ==
  /\ At(c, "starting")
  /\ ProcessEnds("exception")
  /\ UNCHANGED <<refVars, native, callVars, ioVars>>

(* Start reading and the io thread.                                        *)
StartIo(c) ==
  /\ At(c, "connected")
  /\ IoAt(c, "reading")
  /\ Going(c, "built")
  /\ UNCHANGED <<logVars, refVars, callVars, link, stopped, answered>>

(* nativeNewRpcClient starts the log once more, at DEBUG.                  *)
StartLogAgain(c) ==
  /\ At(c, "built")
  /\ StartDousiLog(Java(c), DEBUG)
  /\ Going(c, "ready")
  /\ UNCHANGED <<refVars, callVars, ioVars>>

-----------------------------------------------------------------------------
(* Mutant: the request is written under an id of its own.                  *)
NativeInvokeTwice(c) ==
  /\ At(c, "ready")
  /\ curr_object_id_[c] < MaxInvokes
  /\ curr_object_id_' = [curr_object_id_ EXCEPT ![c] = @ + 1]
  /\ sent' = [sent EXCEPT ![c] = @ \cup {(curr_object_id_[c] + 1) % IdSpace}]
  /\ Going(c, "invoking")
  /\ UNCHANGED <<logVars, refVars, returned, ioVars>>

(* nativeInvoke draws an id and writes the request ...                     *)
NativeInvoke(c) ==
  /\ At(c, "ready")
  /\ curr_object_id_[c] < MaxInvokes
  /\ curr_object_id_' = [curr_object_id_ EXCEPT ![c] = @ + 1]
  /\ sent' = [sent EXCEPT ![c] = @ \cup {curr_object_id_[c] % IdSpace}]
  /\ Going(c, "invoking")
  /\ UNCHANGED <<logVars, refVars, returned, ioVars>>

(* ... and then tells Java the id, when the answer may already be there.   *)
InvokeReturns(c) ==
  /\ native[c] = "invoking"
  /\ returned' = [returned EXCEPT ![c] = @ \cup {curr_object_id_[c] - 1}]
  /\ Going(c, "ready")
  /\ UNCHANGED <<logVars, refVars, curr_object_id_, sent, ioVars>>

-----------------------------------------------------------------------------
(* The io thread reads an answer, and says so at INFO.                     *)
Receive(c, id) ==
  /\ io[c].at = "reading" /\ Idle(Io(c))
  /\ link[c] /\ ~stopped[c]
  /\ id \in sent[c]
  /\ sent' = [sent EXCEPT ![c] = @ \ {id}]
  /\ io' = [io EXCEPT ![c].at = "received", ![c].id = id]
  /\ DousiLog(Io(c), INFO)
  /\ UNCHANGED <<refVars, native, curr_object_id_, returned, link, stopped, answered>>

(* A read fails; the loop of reads ends, the thread goes on running.       *)
ReadFails(c) ==
  /\ io[c].at = "reading" /\ Idle(Io(c))
  /\ link[c] /\ ~stopped[c]
  /\ link' = [link EXCEPT ![c] = FALSE]
  /\ DousiLog(Io(c), INFO)
  /\ UNCHANGED <<refVars, native, callVars, stopped, io, answered>>

(* on_return_value_received calls the method of whatever object the global *)
(* refers to now.                                                          *)
OnReturnValueReceived(c) ==
  /\ io[c].at = "received" /\ Idle(Io(c))
  /\ io' = [io EXCEPT ![c].at = "calling", ![c].object = java_object_native_rpc_client]
  /\ answered' = [answered EXCEPT ![c] = @ \cup {io[c].id}]
  /\ UNCHANGED <<logVars, refVars, native, callVars, link, stopped>>

DeadReference == java_object_native_rpc_client \notin object_refs

CallbackCrashes(c) ==
  /\ io[c].at = "received" /\ Idle(Io(c))
  /\ DeadReference
  /\ ProcessEnds("dead reference")
  /\ UNCHANGED <<refVars, native, callVars, ioVars>>

CallbackReturns(c) ==
  /\ io[c].at = "calling"
  /\ IoAt(c, "reading")
  /\ UNCHANGED <<logVars, refVars, native, callVars, link, stopped, answered>>

(* run() returns after stop(), once the handler that is running has ended. *)
RunReturns(c) ==
  /\ io[c].at = "reading" /\ Idle(Io(c))
  /\ stopped[c]
  /\ IoAt(c, "ended")
  /\ UNCHANGED <<logVars, refVars, native, callVars, link, stopped, answered>>

-----------------------------------------------------------------------------
(* Mutant: the references go before the client does.                       *)
NativeDestroyEarly(c) ==
  /\ At(c, "ready")
  /\ stopped' = [stopped EXCEPT ![c] = TRUE]
  /\ object_refs' = object_refs \ {java_object_native_rpc_client}
  /\ Going(c, "joining")
  /\ UNCHANGED <<logVars, java_object_native_rpc_client, class_ref, disturbed,
                 callVars, link, io, answered>>

(* Mutant: ~Submitter does not stop the io service.                        *)
NativeDestroyUnstopped(c) ==
  /\ At(c, "ready")
  /\ Going(c, "joining")
  /\ UNCHANGED <<logVars, refVars, callVars, ioVars>>

(* nativeDestroy deletes the client; ~Submitter stops the io service ...   *)
NativeDestroy(c) ==
  /\ At(c, "ready")
  /\ stopped' = [stopped EXCEPT ![c] = TRUE]
  /\ Going(c, "joining")
  /\ UNCHANGED <<logVars, refVars, callVars, link, io, answered>>

(* ... and joins its thread.                                               *)
Join(c) ==
  /\ native[c] = "joining"
  /\ io[c].at = "ended"
  /\ Going(c, "unreferencing")
  /\ UNCHANGED <<logVars, refVars, callVars, ioVars>>

(* The class goes, and the object that the global refers to now.           *)
DeleteGlobalRefs(c) ==
  /\ native[c] = "unreferencing"
  /\ class_ref' = FALSE
  /\ object_refs' = object_refs \ {java_object_native_rpc_client}
  /\ disturbed' = disturbed \cup (Existing \ {c})
  /\ Going(c, "gone")
  /\ UNCHANGED <<logVars, java_object_native_rpc_client, callVars, ioVars>>

(* DeleteGlobalRef is also given the method id, which is no reference, and *)
(* the class again when an earlier client has deleted it.                  *)
DeleteCrashes(c) ==
  /\ native[c] = "unreferencing"
  /\ ProcessEnds("dead reference")
  /\ UNCHANGED <<refVars, native, callVars, ioVars>>

-----------------------------------------------------------------------------
LogNext(t) ==
  /\ StartNext(t) \/ StatementNext(t)
  /\ UNCHANGED <<refVars, native, callVars, ioVars>>

JavaNext(c) ==
  \/ NativeNewRpcClient(c) \/ Connect(c) \/ ConnectThrows(c)
  \/ StartIo(c) \/ StartLogAgain(c)
  \/ NativeInvoke(c) \/ InvokeReturns(c)
  \/ NativeDestroy(c) \/ Join(c) \/ DeleteGlobalRefs(c) \/ DeleteCrashes(c)

IoNext(c) ==
  \/ \E id \in sent[c] : Receive(c, id)
  \/ ReadFails(c) \/ RunReturns(c)
  \/ OnReturnValueReceived(c) \/ CallbackCrashes(c) \/ CallbackReturns(c)

Next ==
  /\ process = "running"
  /\ \/ \E c \in Clients : JavaNext(c) \/ IoNext(c)
     \/ \E t \in LogThreads : LogNext(t)

Spec == Init /\ [][Next]_vars

(* Threads keep running: the io thread in run(), the Java thread in the    *)
(* nativeDestroy it has begun; the callback into Java returns.             *)
Running(A) == process = "running" /\ A

Fairness ==
  \A c \in Clients :
    /\ WF_vars(Running(LogNext(Io(c))))
    /\ WF_vars(Running(OnReturnValueReceived(c) \/ CallbackCrashes(c)))
    /\ WF_vars(Running(CallbackReturns(c) \/ RunReturns(c)))
    /\ WF_vars(Running(Join(c) \/ DeleteGlobalRefs(c)))

FairSpec == Spec /\ Fairness

-----------------------------------------------------------------------------
(* A result is handed to the object of the client that received it, under  *)
(* a live reference, until the callback returns: nativeDestroy, which may  *)
(* run at the same time, deletes the references only after the io thread   *)
(* has ended.  This holds for a client during whose life no other one was  *)
(* created or destroyed, because the references belong to all of them.     *)
OwnCallback ==
  \A c \in Clients \ disturbed :
    io[c].at = "calling" => io[c].object = c /\ c \in object_refs

(* The id of a result is one that Java knows, or the one that nativeInvoke *)
(* is about to return, and every result comes once: only the latest call   *)
(* of a client can be answered before its id is known.                     *)
AnswersOwnCall ==
  \A c \in Clients :
    /\ answered[c] \subseteq
         returned[c] \cup (IF native[c] = "invoking" THEN {curr_object_id_[c] - 1} ELSE {})
    /\ answered[c] \cap sent[c] = {}

(* nativeDestroy returns: the io thread notices that it is to stop, also   *)
(* with a callback running, results waiting or the connection lost.        *)
DestroyReturns ==
  \A c \in Clients :
    native[c] = "joining" ~> native[c] = "gone" \/ process # "running"
=============================================================================
