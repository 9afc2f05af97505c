-------------------------- MODULE JavaClientProofs --------------------------
(***************************************************************************)
(* The Java client for any number of clients and calls: whose object a     *)
(* result is handed to, which call it answers, and when a message meets a  *)
(* null logger.                                                            *)
(***************************************************************************)
EXTENDS JavaClient, Integers, LoggingProofs, TLAPS

(* Where the Java threads and the io threads of the clients may be.        *)
NativeSteps == {"none", "starting", "connected", "built", "ready", "invoking",
                "joining", "unreferencing", "gone"}
IoSteps == {"none", "reading", "received", "calling", "ended"}

(* The types.                                                              *)
TypeOK ==
  /\ LogTypeOK
  /\ native \in [Clients -> NativeSteps]
  /\ io \in [Clients -> [at : IoSteps, id : Nat, object : Clients \cup {NoObject}]]
  /\ java_object_native_rpc_client \in Clients \cup {NoObject}
  /\ object_refs \subseteq Clients
  /\ disturbed \subseteq Clients
  /\ curr_object_id_ \in [Clients -> 0 .. MaxInvokes]
  /\ returned \in [Clients -> SUBSET Int]
  /\ sent \in [Clients -> SUBSET Nat]
  /\ answered \in [Clients -> SUBSET Nat]
  /\ stopped \in [Clients -> BOOLEAN]
  /\ link \in [Clients -> BOOLEAN]

(* The io thread runs only while its client exists.                        *)
IoInside ==
  \A c \in Clients :
    io[c].at # "none" =>
      \/ native[c] \in {"built", "ready", "invoking", "joining"}
      \/ io[c].at = "ended" /\ native[c] \in {"unreferencing", "gone"}

(* A client that was alone all its life has the global reference.          *)
AloneHasReference ==
  \A c \in Existing \ disturbed :
    /\ java_object_native_rpc_client = c
    /\ c \in object_refs
    /\ io[c].at = "calling" => io[c].object = c

(* A client that is past its first StartDousiLog, or logs, has a logger or *)
(* an excuse.                                                              *)
Started(c) == native[c] # "none" /\ (native[c] = "starting" => Idle(Java(c)))

(* Whoever logs has a logger or an excuse for having none.                 *)
LoggersThere ==
  /\ FirstStart
  /\ \A c \in Clients : native[c] = "starting" => Idle(Java(c)) \/ Starting(Java(c))
  /\ \A c \in Clients : Started(c) => LoggerOrExcuse
  /\ \A t \in LogThreads : Logs(t) => LoggerOrExcuse

(* The ids of the calls that the client c has made.                        *)
Issued(c) == 0 .. curr_object_id_[c] - 1

(* The one that the io thread is about to hand over.                       *)
Pending(c) == IF io[c].at = "received" THEN {io[c].id} ELSE {}

(* Only ids that were issued come back, none that is still on its way has  *)
(* been taken or answered, and Java knows them all, but for the one that   *)
(* nativeInvoke is about to return.                                        *)
IdsOnceOf(c) ==
  /\ sent[c] \cup Pending(c) \cup answered[c] \subseteq Issued(c)
  /\ sent[c] \cap Pending(c) = {}
  /\ sent[c] \cap answered[c] = {}
  /\ Issued(c) = returned[c] \cup (IF native[c] = "invoking" THEN {curr_object_id_[c] - 1} ELSE {})

(* The same of every client.                                               *)
IdsOnce == \A c \in Clients : IdsOnceOf(c)

-----------------------------------------------------------------------------
(* Java threads and io threads are different threads, one of each per      *)
(* client.                                                                 *)
LEMMA Threads == \A c \in Clients : /\ Java(c) \in LogThreads /\ Io(c) \in LogThreads
                                    /\ \A d \in Clients : Java(c) # Io(d)
                                    /\ \A d \in Clients : Java(c) = Java(d) => c = d
BY LogThreadsAssumption DEF Java, Io

(* The levels that the code logs at.                                       *)
LEMMA Levels == DEBUG \in LOG_LEVEL /\ INFO \in LOG_LEVEL /\ WARNING \in LOG_LEVEL
BY DEF DEBUG, INFO, WARNING, NOLEVEL, LOG_LEVEL

(* What a step does to the log: nothing, it ends the process, it enters    *)
(* StartDousiLog or a statement, or it goes on with one of them.           *)
LogPart(t) ==
  \/ UNCHANGED logVars
  \/ \E reason \in {"exception", "dead reference"} : ProcessEnds(reason)
  \/ \E level \in LOG_LEVEL : StartDousiLog(t, level) \/ DousiLog(t, level)
  \/ StartNext(t) \/ StatementNext(t)

(* The types of the log are kept by what a step does to it.                *)
LEMMA LogTypeKept ==
  ASSUME LogTypeOK, NEW t \in LogThreads, LogPart(t)
  PROVE  LogTypeOK'
<1>1. CASE UNCHANGED logVars
    BY <1>1 DEF logVars, LogTypeOK
<1>2. ASSUME NEW reason, ProcessEnds(reason) PROVE LogTypeOK'
    BY <1>2 DEF ProcessEnds, loggerVars, LogTypeOK
<1>3. ASSUME NEW level \in LOG_LEVEL, StartDousiLog(t, level) \/ DousiLog(t, level) PROVE LogTypeOK'
    BY <1>3, LogTypeStep
<1>4. CASE StartNext(t) \/ StatementNext(t)
    BY <1>4, LogTypeStep, Levels
<1> QED BY <1>1, <1>2, <1>3, <1>4 DEF LogPart

(* The types hold initially.                                               *)
LEMMA InitType == Init => TypeOK
<1> SUFFICES ASSUME Init PROVE TypeOK
    OBVIOUS
<1>1. LogTypeOK
    BY LogInitType DEF Init
<1>2. 0 \in 0 .. MaxInvokes
    BY IdAssumption
<1> QED BY <1>1, <1>2 DEF Init, TypeOK, NativeSteps, IoState, IoSteps

(* Every step preserves the types.                                         *)
LEMMA TypeStep ==
  ASSUME TypeOK, [Next]_vars
  PROVE  TypeOK'
<1> USE DEF refVars, callVars, ioVars
<1> DEFINE IoType == [at : IoSteps, id : Nat, object : Clients \cup {NoObject}]
<1>a. ASSUME NEW t \in LogThreads, LogPart(t) PROVE LogTypeOK'
    BY <1>a, LogTypeKept DEF TypeOK
<1>b. ASSUME NEW place \in IoSteps PROVE IoState(place) \in IoType
    BY DEF IoState
<1>c. ASSUME NEW r \in IoType, NEW id \in Nat, NEW object \in Clients \cup {NoObject}
      PROVE  /\ [r EXCEPT !.at = "received", !.id = id] \in IoType
             /\ [r EXCEPT !.at = "calling", !.object = object] \in IoType
    BY DEF IoSteps
<1>d. \A c \in Clients : io[c] \in IoType
    BY DEF TypeOK
<1>e. ASSUME NEW c \in Clients, NEW place \in NativeSteps, Going(c, place)
      PROVE  native' \in [Clients -> NativeSteps]
    BY <1>e DEF Going, TypeOK
<1>1. ASSUME NEW c \in Clients, NativeNewRpcClient(c) PROVE TypeOK'
    <2>1. LogPart(Java(c)) /\ native' \in [Clients -> NativeSteps]
        BY <1>1, <1>e, Levels DEF NativeNewRpcClient, LogPart, NativeSteps
    <2> QED BY <1>1, <1>a, <2>1, Threads DEF NativeNewRpcClient, TypeOK, Existing
<1>2. ASSUME NEW c \in Clients, Connect(c) PROVE TypeOK'
    <2>1. LogPart(Java(c)) /\ native' \in [Clients -> NativeSteps]
        BY <1>2, <1>e, Levels DEF Connect, LogPart, NativeSteps
    <2> QED BY <1>2, <1>a, <2>1, Threads DEF Connect, TypeOK
<1>3. ASSUME NEW c \in Clients, ConnectThrows(c) \/ CallbackCrashes(c) \/ DeleteCrashes(c) PROVE TypeOK'
    <2>1. LogPart(Java(c))
        BY <1>3 DEF ConnectThrows, CallbackCrashes, DeleteCrashes, LogPart
    <2> QED BY <1>3, <1>a, <2>1, Threads DEF ConnectThrows, CallbackCrashes, DeleteCrashes, TypeOK
<1>4. ASSUME NEW c \in Clients, StartIo(c) PROVE TypeOK'
    <2>1. LogPart(Java(c)) /\ native' \in [Clients -> NativeSteps]
        BY <1>4, <1>e DEF StartIo, LogPart, NativeSteps
    <2>2. io' \in [Clients -> IoType]
        BY <1>4, <1>b DEF StartIo, IoAt, TypeOK, IoSteps
    <2> QED BY <1>4, <1>a, <2>1, <2>2, Threads DEF StartIo, TypeOK
<1>5. ASSUME NEW c \in Clients, StartLogAgain(c) PROVE TypeOK'
    <2>1. LogPart(Java(c)) /\ native' \in [Clients -> NativeSteps]
        BY <1>5, <1>e, Levels DEF StartLogAgain, LogPart, NativeSteps
    <2> QED BY <1>5, <1>a, <2>1, Threads DEF StartLogAgain, TypeOK
<1>6. ASSUME NEW c \in Clients, NativeInvoke(c) PROVE TypeOK'
    <2>1. LogPart(Java(c)) /\ native' \in [Clients -> NativeSteps]
        BY <1>6, <1>e DEF NativeInvoke, LogPart, NativeSteps
    <2>2. curr_object_id_[c] \in Nat /\ curr_object_id_[c] + 1 \in 0 .. MaxInvokes
        BY <1>6, IdAssumption DEF NativeInvoke, TypeOK
    <2>3. curr_object_id_[c] % IdSpace \in Nat
        BY <2>2, IdAssumption
    <2> QED BY <1>6, <1>a, <2>1, <2>2, <2>3, Threads DEF NativeInvoke, TypeOK
<1>7. ASSUME NEW c \in Clients, InvokeReturns(c) PROVE TypeOK'
    <2>1. LogPart(Java(c)) /\ native' \in [Clients -> NativeSteps]
        BY <1>7, <1>e DEF InvokeReturns, LogPart, NativeSteps
    <2>2. curr_object_id_[c] - 1 \in Int
        BY <1>7, IdAssumption DEF TypeOK
    <2> QED BY <1>7, <1>a, <2>1, <2>2, Threads DEF InvokeReturns, TypeOK
<1>8. ASSUME NEW c \in Clients, NEW id \in sent[c], Receive(c, id) PROVE TypeOK'
    <2>1. LogPart(Io(c))
        BY <1>8, Levels DEF Receive, LogPart
    <2>2. id \in Nat
        BY DEF TypeOK
    <2>3. io' \in [Clients -> IoType]
        <3>1. [io[c] EXCEPT !.at = "received", !.id = id] \in IoType
            <4>1. java_object_native_rpc_client \in Clients \cup {NoObject}
                BY DEF TypeOK
            <4> HIDE DEF IoType
            <4> QED BY <1>c, <1>d, <2>2, <4>1
        <3>2. io' = [io EXCEPT ![c] = [io[c] EXCEPT !.at = "received", !.id = id]]
            BY <1>8 DEF Receive, TypeOK
        <3> QED BY <3>1, <3>2 DEF TypeOK
    <2> QED BY <1>8, <1>a, <2>1, <2>2, <2>3, Threads DEF Receive, TypeOK
<1>9. ASSUME NEW c \in Clients, ReadFails(c) PROVE TypeOK'
    <2>1. LogPart(Io(c))
        BY <1>9, Levels DEF ReadFails, LogPart
    <2> QED BY <1>9, <1>a, <2>1, Threads DEF ReadFails, TypeOK
<1>10. ASSUME NEW c \in Clients, OnReturnValueReceived(c) PROVE TypeOK'
    <2>1. LogPart(Io(c))
        BY <1>10 DEF OnReturnValueReceived, LogPart
    <2>2. io' \in [Clients -> IoType]
        <3> DEFINE object == java_object_native_rpc_client
        <3>1. [io[c] EXCEPT !.at = "calling", !.object = object] \in IoType
            <4>1. object \in Clients \cup {NoObject} /\ 0 \in Nat
                BY DEF TypeOK
            <4> HIDE DEF IoType, object
            <4> QED BY <1>c, <1>d, <4>1
        <3>2. io' = [io EXCEPT ![c] = [io[c] EXCEPT !.at = "calling", !.object = object]]
            BY <1>10 DEF OnReturnValueReceived, TypeOK
        <3> QED BY <3>1, <3>2 DEF TypeOK
    <2>3. io[c].id \in Nat
        BY DEF TypeOK
    <2> QED BY <1>10, <1>a, <2>1, <2>2, <2>3, Threads DEF OnReturnValueReceived, TypeOK
<1>11. ASSUME NEW c \in Clients, CallbackReturns(c) \/ RunReturns(c) PROVE TypeOK'
    <2>1. LogPart(Io(c))
        BY <1>11 DEF CallbackReturns, RunReturns, LogPart
    <2>2. PICK place \in IoSteps : io' = [io EXCEPT ![c] = IoState(place)]
        BY <1>11 DEF CallbackReturns, RunReturns, IoAt, IoSteps
    <2>3. io' \in [Clients -> IoType]
        BY <1>b, <2>2 DEF TypeOK
    <2> QED BY <1>11, <1>a, <2>1, <2>3, Threads DEF CallbackReturns, RunReturns, TypeOK
<1>12. ASSUME NEW c \in Clients, NativeDestroy(c) \/ Join(c) PROVE TypeOK'
    <2>1. LogPart(Java(c)) /\ native' \in [Clients -> NativeSteps]
        BY <1>12, <1>e DEF NativeDestroy, Join, LogPart, NativeSteps
    <2> QED BY <1>12, <1>a, <2>1, Threads DEF NativeDestroy, Join, TypeOK
<1>13. ASSUME NEW c \in Clients, DeleteGlobalRefs(c) PROVE TypeOK'
    <2>1. LogPart(Java(c)) /\ native' \in [Clients -> NativeSteps]
        BY <1>13, <1>e DEF DeleteGlobalRefs, LogPart, NativeSteps
    <2> QED BY <1>13, <1>a, <2>1, Threads DEF DeleteGlobalRefs, TypeOK, Existing
<1>14. ASSUME NEW t \in LogThreads, LogNext(t) PROVE TypeOK'
    <2>1. LogPart(t)
        BY <1>14 DEF LogNext, LogPart
    <2> QED BY <1>14, <1>a, <2>1 DEF LogNext, TypeOK
<1>15. CASE UNCHANGED vars
    BY <1>15 DEF vars, logVars, TypeOK, LogTypeOK
<1> QED BY <1>1, <1>2, <1>3, <1>4, <1>5, <1>6, <1>7, <1>8, <1>9, <1>10, <1>11, <1>12, <1>13, <1>14, <1>15
        DEF Next, JavaNext, IoNext

-----------------------------------------------------------------------------
(* The places of one client's threads after a step of another one, or of   *)
(* its own.                                                                *)
LEMMA NativeMoves ==
  ASSUME TypeOK, NEW c \in Clients, NEW place, Going(c, place)
  PROVE  native'[c] = place /\ \A d \in Clients \ {c} : native'[d] = native[d]
BY DEF TypeOK, Going

(* A step of an io thread moves no other io thread.                        *)
LEMMA IoMoves ==
  ASSUME TypeOK, NEW c \in Clients
  PROVE  /\ \A place : IoAt(c, place) =>
              io'[c].at = place /\ \A d \in Clients \ {c} : io'[d] = io[d]
         /\ \A id : Receive(c, id) =>
              /\ io'[c].at = "received" /\ io'[c].id = id
              /\ \A d \in Clients \ {c} : io'[d] = io[d]
         /\ OnReturnValueReceived(c) =>
              /\ io'[c].at = "calling" /\ io'[c].object = java_object_native_rpc_client
              /\ \A d \in Clients \ {c} : io'[d] = io[d]
<1>1. io \in [Clients -> [at : IoSteps, id : Nat, object : Clients \cup {NoObject}]]
    BY DEF TypeOK
<1>2. ASSUME NEW place, IoAt(c, place)
      PROVE  io'[c].at = place /\ \A d \in Clients \ {c} : io'[d] = io[d]
    BY <1>1, <1>2 DEF IoAt, IoState
<1>3. ASSUME NEW id, Receive(c, id)
      PROVE  /\ io'[c].at = "received" /\ io'[c].id = id
             /\ \A d \in Clients \ {c} : io'[d] = io[d]
    BY <1>1, <1>3 DEF Receive
<1>4. ASSUME OnReturnValueReceived(c)
      PROVE  /\ io'[c].at = "calling" /\ io'[c].object = java_object_native_rpc_client
             /\ \A d \in Clients \ {c} : io'[d] = io[d]
    BY <1>1, <1>4 DEF OnReturnValueReceived
<1> QED BY <1>2, <1>3, <1>4

(* Every step preserves IoInside: Join waits for the io thread to end.     *)
LEMMA IoInsideStep ==
  ASSUME TypeOK, IoInside, [Next]_vars
  PROVE  IoInside'
<1> USE DEF refVars, callVars, ioVars
<1>1. ASSUME NEW c \in Clients, NativeNewRpcClient(c) \/ Connect(c) \/ NativeInvoke(c)
                               \/ InvokeReturns(c) \/ StartLogAgain(c) \/ NativeDestroy(c)
      PROVE  IoInside'
    <2>1. io' = io
        BY <1>1 DEF NativeNewRpcClient, Connect, NativeInvoke, InvokeReturns, StartLogAgain, NativeDestroy
    <2>2. PICK place \in {"starting", "connected", "invoking", "ready", "joining"} :
            /\ Going(c, place)
            /\ place \in {"starting", "connected"} => native[c] \in {"none", "starting"}
        BY <1>1 DEF NativeNewRpcClient, Connect, NativeInvoke, InvokeReturns, StartLogAgain, NativeDestroy, At
    <2> QED BY <2>1, <2>2, NativeMoves DEF IoInside
<1>2. ASSUME NEW c \in Clients, StartIo(c) PROVE IoInside'
    <2>1. native'[c] = "built" /\ \A d \in Clients \ {c} : native'[d] = native[d] /\ io'[d] = io[d]
        BY <1>2, NativeMoves, IoMoves DEF StartIo
    <2> QED BY <2>1 DEF IoInside
<1>3. ASSUME NEW c \in Clients, Join(c) \/ DeleteGlobalRefs(c) PROVE IoInside'
    <2>1. io' = io
        BY <1>3 DEF Join, DeleteGlobalRefs
    <2>2. PICK place \in {"unreferencing", "gone"} : Going(c, place)
        BY <1>3 DEF Join, DeleteGlobalRefs
    <2>3. io[c].at # "none" => io[c].at = "ended"
        BY <1>3 DEF Join, DeleteGlobalRefs, IoInside
    <2> QED BY <2>1, <2>2, <2>3, NativeMoves DEF IoInside
<1>4. ASSUME NEW c \in Clients, native' = native, io[c].at \notin {"none", "ended"},
             \A d \in Clients \ {c} : io'[d] = io[d]
      PROVE  IoInside'
    BY <1>4 DEF IoInside
<1>5. ASSUME NEW c \in Clients, IoNext(c) PROVE IoInside'
    <2>1. ASSUME NEW id, Receive(c, id) PROVE IoInside'
        BY <1>4, <2>1, IoMoves DEF Receive
    <2>2. CASE OnReturnValueReceived(c)
        BY <1>4, <2>2, IoMoves DEF OnReturnValueReceived
    <2>3. CASE CallbackReturns(c) \/ RunReturns(c)
        BY <1>4, <2>3, IoMoves DEF CallbackReturns, RunReturns
    <2>4. CASE ReadFails(c) \/ CallbackCrashes(c)
        BY <2>4 DEF ReadFails, CallbackCrashes, IoInside
    <2> QED BY <1>5, <2>1, <2>2, <2>3, <2>4 DEF IoNext
<1>6. ASSUME UNCHANGED <<native, io>> PROVE IoInside'
    BY <1>6 DEF IoInside
<1> QED BY <1>1, <1>2, <1>3, <1>5, <1>6
        DEF Next, JavaNext, ConnectThrows, DeleteCrashes, LogNext, vars

(* Only the creation and the destruction of a client touch the references, *)
(* and both disturb all the others.                                        *)
LEMMA ReferencesStep ==
  ASSUME TypeOK, IoInside, AloneHasReference, [Next]_vars
  PROVE  AloneHasReference'
<1> USE DEF refVars, callVars, ioVars
<1>a. ASSUME UNCHANGED refVars, Existing' = Existing,
             \A c \in Clients : io'[c] = io[c] \/ io'[c].at # "calling"
      PROVE  AloneHasReference'
    <2> SUFFICES ASSUME NEW c \in Existing \ disturbed
                 PROVE  /\ java_object_native_rpc_client = c
                        /\ c \in object_refs
                        /\ io'[c].at = "calling" => io'[c].object = c
        BY <1>a DEF AloneHasReference
    <2>1. c \in Clients
        BY DEF Existing
    <2> QED BY <1>a, <2>1 DEF AloneHasReference
<1>1. ASSUME NEW c \in Clients, NativeNewRpcClient(c) PROVE AloneHasReference'
    <2>1. native[c] = "none" /\ native'[c] = "starting" /\ \A d \in Clients \ {c} : native'[d] = native[d]
        BY <1>1, NativeMoves DEF NativeNewRpcClient
    <2>2. Existing' = Existing \cup {c}
        BY <2>1 DEF Existing
    <2>3. Existing' \ disturbed' \subseteq {c}
        BY <1>1, <2>2 DEF NativeNewRpcClient
    <2>4. io' = io /\ io[c].at = "none"
        BY <1>1, <2>1 DEF NativeNewRpcClient, IoInside
    <2> QED BY <1>1, <2>3, <2>4 DEF NativeNewRpcClient, AloneHasReference
<1>2. ASSUME NEW c \in Clients, DeleteGlobalRefs(c) PROVE AloneHasReference'
    <2>1. native'[c] = "gone" /\ \A d \in Clients \ {c} : native'[d] = native[d]
        BY <1>2, NativeMoves DEF DeleteGlobalRefs
    <2>2. Existing' = Existing \ {c}
        BY <2>1 DEF Existing
    <2>3. Existing' \ disturbed' = {}
        BY <1>2, <2>2 DEF DeleteGlobalRefs
    <2> QED BY <2>3 DEF AloneHasReference
<1>3. ASSUME NEW c \in Clients, Connect(c) \/ StartLogAgain(c) \/ NativeInvoke(c)
                               \/ InvokeReturns(c) \/ NativeDestroy(c) \/ Join(c)
      PROVE  AloneHasReference'
    <2>1. io' = io /\ UNCHANGED refVars
        BY <1>3 DEF Connect, StartLogAgain, NativeInvoke, InvokeReturns, NativeDestroy, Join
    <2>2. PICK place \in {"connected", "ready", "invoking", "joining", "unreferencing"} :
            Going(c, place) /\ native[c] \notin {"none", "gone"}
        BY <1>3 DEF Connect, StartLogAgain, NativeInvoke, InvokeReturns, NativeDestroy, Join, At
    <2>3. Existing' = Existing
        BY <2>2, NativeMoves DEF Existing
    <2> QED BY <1>a, <2>1, <2>3
<1>4. ASSUME NEW c \in Clients, StartIo(c) PROVE AloneHasReference'
    <2>1. Existing' = Existing
        BY <1>4, NativeMoves DEF Existing, StartIo, At
    <2>2. io'[c].at = "reading" /\ \A d \in Clients \ {c} : io'[d] = io[d]
        BY <1>4, IoMoves DEF StartIo
    <2> QED BY <1>4, <1>a, <2>1, <2>2 DEF StartIo
<1>5. ASSUME NEW c \in Clients, IoNext(c), ~OnReturnValueReceived(c) PROVE AloneHasReference'
    <2>1. UNCHANGED <<refVars, native>> /\ Existing' = Existing
        BY <1>5 DEF IoNext, Receive, ReadFails, RunReturns, CallbackCrashes, CallbackReturns, Existing
    <2>2. \A d \in Clients : io'[d] = io[d] \/ io'[d].at # "calling"
        <3>1. ASSUME NEW id, Receive(c, id) PROVE \A d \in Clients : io'[d] = io[d] \/ io'[d].at # "calling"
            BY <3>1, IoMoves
        <3>2. CASE CallbackReturns(c) \/ RunReturns(c)
            BY <3>2, IoMoves DEF CallbackReturns, RunReturns
        <3>3. CASE ReadFails(c) \/ CallbackCrashes(c)
            BY <3>3 DEF ReadFails, CallbackCrashes
        <3> QED BY <1>5, <3>1, <3>2, <3>3 DEF IoNext
    <2> QED BY <1>a, <2>1, <2>2
<1>6. ASSUME NEW c \in Clients, OnReturnValueReceived(c) PROVE AloneHasReference'
    <2>1. UNCHANGED <<refVars, native>> /\ Existing' = Existing
        BY <1>6 DEF OnReturnValueReceived, Existing
    <2>2. /\ io'[c].object = java_object_native_rpc_client
          /\ \A d \in Clients \ {c} : io'[d] = io[d]
        BY <1>6, IoMoves
    <2> SUFFICES ASSUME NEW d \in Existing \ disturbed
                 PROVE  /\ java_object_native_rpc_client = d
                        /\ d \in object_refs
                        /\ io'[d].at = "calling" => io'[d].object = d
        BY <2>1 DEF AloneHasReference
    <2>3. d \in Clients
        BY DEF Existing
    <2> QED BY <2>2, <2>3 DEF AloneHasReference
<1>7. ASSUME UNCHANGED <<refVars, native, io>> PROVE AloneHasReference'
    BY <1>7 DEF AloneHasReference, Existing
<1> QED BY <1>1, <1>2, <1>3, <1>4, <1>5, <1>6, <1>7
        DEF Next, JavaNext, ConnectThrows, DeleteCrashes, LogNext, vars

-----------------------------------------------------------------------------
(* What a thread does to the log leaves the other threads where they are.  *)
LEMMA LogFrame ==
  ASSUME LogTypeOK, FirstStart, NEW t \in LogThreads, LogPart(t)
  PROVE  OthersKept(t)
<1>1. CASE UNCHANGED logVars
    BY <1>1 DEF logVars, OthersKept, FirstStart, LoggerOrExcuse, Starting
<1>2. ASSUME NEW reason, ProcessEnds(reason) PROVE OthersKept(t)
    BY <1>2 DEF ProcessEnds, loggerVars, OthersKept, FirstStart, LoggerOrExcuse, Starting
<1>3. ASSUME NEW level \in LOG_LEVEL, StartDousiLog(t, level) \/ DousiLog(t, level) PROVE OthersKept(t)
    BY <1>3, StartKeeps, StatementKeeps
<1>4. CASE StartNext(t) \/ StatementNext(t)
    BY <1>4, StartLeaves, StatementKeeps, Levels
<1> QED BY <1>1, <1>2, <1>3, <1>4 DEF LogPart

(* A step of a client that has, or had, passed its first StartDousiLog.    *)
LEMMA StartedStep ==
  ASSUME TypeOK, LoggersThere, NEW c \in Clients, Started(c),
         NEW t \in {Java(c), Io(c)}, LogPart(t),
         \A d \in Clients \ {c} : native'[d] = native[d],
         native'[c] # "starting" \/ (native'[c] = native[c] /\ log'[Java(c)] = log[Java(c)])
  PROVE  LoggersThere'
<1>1. t \in LogThreads
    BY Threads
<1>2. OthersKept(t)
    BY <1>1, LogFrame DEF TypeOK, LoggersThere
<1>3. LoggerOrExcuse'
    BY <1>2 DEF LoggersThere, OthersKept
<1>4. ASSUME NEW d \in Clients, native'[d] = "starting" PROVE Idle(Java(d))' \/ Starting(Java(d))'
    <2>1. log'[Java(d)] = log[Java(d)] /\ native[d] = "starting"
        <3>1. CASE d = c
            BY <1>4, <3>1
        <3>2. CASE d # c
            <4>1. Java(d) \in LogThreads \ {t}
                BY <3>2, Threads
            <4> QED BY <1>2, <1>4, <3>2, <4>1 DEF OthersKept
        <3> QED BY <3>1, <3>2
    <2> QED BY <2>1 DEF LoggersThere, Idle, Starting
<1> QED BY <1>2, <1>3, <1>4 DEF LoggersThere, OthersKept

(* Every step preserves LoggersThere.                                      *)
LEMMA LoggersStep ==
  ASSUME TypeOK, IoInside, LoggersThere, [Next]_vars
  PROVE  LoggersThere'
<1> USE DEF refVars, callVars, ioVars
<1>a. LogTypeOK /\ FirstStart
    BY DEF TypeOK, LoggersThere
<1>1. ASSUME NEW c \in Clients, NativeNewRpcClient(c) PROVE LoggersThere'
    <2>1. /\ OthersKept(Java(c)) /\ log'[Java(c)].at = "check"
        BY <1>1, <1>a, StartKeeps, Threads, Levels DEF NativeNewRpcClient
    <2>2. native'[c] = "starting" /\ \A d \in Clients \ {c} : native'[d] = native[d]
        BY <1>1, NativeMoves DEF NativeNewRpcClient
    <2>3. ASSUME NEW d \in Clients \ {c} PROVE log'[Java(d)] = log[Java(d)]
        BY <2>1, Threads DEF OthersKept
    <2>4. ~Idle(Java(c))' /\ Starting(Java(c))' /\ ~Logs(Java(c))'
        BY <2>1 DEF Idle, IdleLog, Starting, StartSteps, Logs
    <2>5. ASSUME NEW d \in Clients PROVE native'[d] = "starting" => Idle(Java(d))' \/ Starting(Java(d))'
        BY <2>2, <2>3, <2>4 DEF LoggersThere, Idle, Starting
    <2>6. ASSUME NEW d \in Clients, Started(d)' PROVE LoggerOrExcuse'
        <3>1. d # c
            BY <2>2, <2>4, <2>6 DEF Started
        <3>2. Started(d)
            BY <2>2, <2>3, <2>6, <3>1 DEF Started, Idle
        <3> QED BY <2>1, <3>2 DEF LoggersThere, OthersKept
    <2>7. ASSUME NEW u \in LogThreads, Logs(u)' PROVE LoggerOrExcuse'
        <3>1. log'[u] = log[u]
            BY <2>1, <2>4, <2>7 DEF OthersKept
        <3> QED BY <2>1, <2>7, <3>1 DEF LoggersThere, OthersKept, Logs
    <2> QED BY <2>1, <2>5, <2>6, <2>7 DEF LoggersThere, OthersKept
<1>2. ASSUME NEW c \in Clients, JavaNext(c), ~NativeNewRpcClient(c) PROVE LoggersThere'
    <2>1. Started(c)
        BY <1>2 DEF JavaNext, Connect, ConnectThrows, StartIo, StartLogAgain, NativeInvoke,
                    InvokeReturns, NativeDestroy, Join, DeleteGlobalRefs, DeleteCrashes, At, Started
    <2>2. LogPart(Java(c))
        BY <1>2, Levels
           DEF JavaNext, Connect, ConnectThrows, StartIo, StartLogAgain, NativeInvoke,
               InvokeReturns, NativeDestroy, Join, DeleteGlobalRefs, DeleteCrashes, LogPart
    <2>3. \/ native' = native /\ log' = log
          \/ \E place \in NativeSteps \ {"starting"} : Going(c, place)
        BY <1>2 DEF JavaNext, Connect, ConnectThrows, StartIo, StartLogAgain, NativeInvoke,
                    InvokeReturns, NativeDestroy, Join, DeleteGlobalRefs, DeleteCrashes, ProcessEnds,
                    NativeSteps
    <2>4. /\ \A d \in Clients \ {c} : native'[d] = native[d]
          /\ native'[c] # "starting" \/ (native'[c] = native[c] /\ log'[Java(c)] = log[Java(c)])
        BY <2>3, NativeMoves
    <2> QED BY <2>1, <2>2, <2>4, StartedStep
<1>3. ASSUME NEW c \in Clients, IoNext(c) PROVE LoggersThere'
    <2>1. native' = native
        BY <1>3 DEF IoNext, Receive, ReadFails, RunReturns, OnReturnValueReceived, CallbackCrashes,
                    CallbackReturns
    <2>2. io[c].at \in {"reading", "received", "calling"}
        BY <1>3 DEF IoNext, Receive, ReadFails, RunReturns, OnReturnValueReceived, CallbackCrashes,
                    CallbackReturns
    <2>3. Started(c) /\ native[c] # "starting"
        BY <2>2 DEF IoInside, Started
    <2>4. LogPart(Io(c))
        BY <1>3, Levels
           DEF IoNext, Receive, ReadFails, RunReturns, OnReturnValueReceived, CallbackCrashes,
               CallbackReturns, LogPart
    <2> QED BY <2>1, <2>3, <2>4, StartedStep
<1>4. ASSUME NEW t \in LogThreads, LogNext(t), StartNext(t) PROVE LoggersThere'
    <2>1. /\ OthersKept(t)
          /\ Starting(t) /\ (Starting(t)' \/ (Idle(t)' /\ LoggerOrExcuse'))
        BY <1>4, <1>a, StartLeaves
    <2>2. native' = native
        BY <1>4 DEF LogNext
    <2>3. ~Logs(t)' /\ (Starting(t)' => ~Idle(t)')
        BY <2>1 DEF Starting, StartSteps, Logs, Idle, IdleLog
    <2>4. ASSUME NEW d \in Clients, native'[d] = "starting" PROVE Idle(Java(d))' \/ Starting(Java(d))'
        <3>1. CASE Java(d) = t
            BY <2>1, <3>1
        <3>2. CASE Java(d) # t
            <4>1. log'[Java(d)] = log[Java(d)]
                BY <2>1, <3>2, Threads DEF OthersKept
            <4> QED BY <2>2, <2>4, <4>1 DEF LoggersThere, Idle, Starting
        <3> QED BY <3>1, <3>2
    <2>5. ASSUME NEW d \in Clients, Started(d)' PROVE LoggerOrExcuse'
        <3>1. CASE Java(d) = t
            <4>1. CASE native[d] = "starting"
                BY <2>1, <2>2, <2>3, <2>5, <3>1, <4>1 DEF Started
            <4>2. CASE native[d] # "starting"
                BY <2>1, <2>2, <2>5, <4>2 DEF Started, LoggersThere, OthersKept
            <4> QED BY <4>1, <4>2
        <3>2. CASE Java(d) # t
            <4>1. log'[Java(d)] = log[Java(d)]
                BY <2>1, <3>2, Threads DEF OthersKept
            <4>2. Started(d)
                BY <2>2, <2>5, <4>1 DEF Started, Idle
            <4> QED BY <2>1, <4>2 DEF LoggersThere, OthersKept
        <3> QED BY <3>1, <3>2
    <2>6. ASSUME NEW u \in LogThreads, Logs(u)' PROVE LoggerOrExcuse'
        <3>1. log'[u] = log[u]
            BY <2>1, <2>3, <2>6 DEF OthersKept
        <3> QED BY <2>1, <2>6, <3>1 DEF LoggersThere, OthersKept, Logs
    <2> QED BY <2>1, <2>4, <2>5, <2>6 DEF LoggersThere, OthersKept
<1>5. ASSUME NEW t \in LogThreads, LogNext(t), StatementNext(t) PROVE LoggersThere'
    <2>1. OthersKept(t) /\ Logs(t)
        BY <1>5, <1>a, StatementKeeps, Levels DEF StatementNext, Construct, Emit, Logs
    <2>2. LoggerOrExcuse'
        BY <2>1 DEF LoggersThere, OthersKept
    <2>3. ASSUME NEW d \in Clients, native'[d] = "starting" PROVE Idle(Java(d))' \/ Starting(Java(d))'
        <3>1. native[d] = "starting"
            BY <1>5, <2>3 DEF LogNext
        <3>2. Java(d) # t
            BY <2>1, <3>1 DEF LoggersThere, Idle, IdleLog, Starting, StartSteps, Logs
        <3>3. log'[Java(d)] = log[Java(d)]
            BY <2>1, <3>2, Threads DEF OthersKept
        <3> QED BY <3>1, <3>3 DEF LoggersThere, Idle, Starting
    <2> QED BY <2>1, <2>2, <2>3 DEF LoggersThere, OthersKept
<1>6. CASE UNCHANGED vars
    BY <1>6 DEF vars, logVars, LoggersThere, FirstStart, Started, Starting, Idle, Logs, LoggerOrExcuse
<1> QED BY <1>1, <1>2, <1>3, <1>4, <1>5, <1>6 DEF Next, LogNext

(* Only Emit meets a null logger, and then there is an excuse.             *)
LEMMA LoggerKeptStep ==
  ASSUME TypeOK, LoggersThere, LoggerKept, [Next]_vars
  PROVE  LoggerKept'
<1> SUFFICES ASSUME process' = "null logger" PROVE open_failed' \/ raced'
    BY DEF LoggerKept
<1>1. CASE UNCHANGED vars
    BY <1>1 DEF vars, logVars, LoggerKept
<1>2. ASSUME NEW t \in LogThreads, Emit(t), process = "running" PROVE open_failed' \/ raced'
    <2>1. Logs(t) /\ logging_provider = "null"
        BY <1>2 DEF Emit, Logs
    <2>2. open_failed \/ raced
        BY <2>1 DEF LoggersThere, LoggerOrExcuse
    <2> QED BY <1>2, <2>2 DEF Emit
<1>3. ASSUME NEW c \in Clients, JavaNext(c) \/ IoNext(c), process = "running" PROVE process' # "null logger"
    BY <1>3 DEF JavaNext, IoNext, NativeNewRpcClient, Connect, ConnectThrows, StartIo, StartLogAgain,
                NativeInvoke, InvokeReturns, NativeDestroy, Join, DeleteGlobalRefs, DeleteCrashes,
                Receive, ReadFails, RunReturns, OnReturnValueReceived, CallbackCrashes, CallbackReturns,
                StartDousiLog, DousiLog, ProcessEnds, logVars
<1>4. ASSUME NEW t \in LogThreads, LogNext(t), ~Emit(t), process = "running" PROVE process' # "null logger"
    BY <1>4 DEF LogNext, StartNext, StatementNext, CheckProvider, CreateLogger, CreateThrows,
                AssignProvider, Construct
<1> QED BY <1>1, <1>2, <1>3, <1>4 DEF Next

(* IdsOnceOf(c) holds after a step that leaves the calls of c alone.       *)
LEMMA IdsFrame ==
  ASSUME NEW c \in Clients, IdsOnceOf(c),
         curr_object_id_'[c] = curr_object_id_[c], returned'[c] = returned[c],
         sent'[c] = sent[c], answered'[c] = answered[c],
         native'[c] = "invoking" <=> native[c] = "invoking",
         io'[c] = io[c] \/ io'[c].at # "received"
  PROVE  IdsOnceOf(c)'
BY DEF IdsOnceOf, Issued, Pending

(* Every step keeps ids in one place, below 2^32 calls.                    *)
LEMMA IdsStep ==
  ASSUME MaxInvokes <= IdSpace, TypeOK, IdsOnce, [Next]_vars
  PROVE  IdsOnce'
<1> USE DEF refVars, callVars, ioVars
<1> SUFFICES ASSUME NEW d \in Clients PROVE IdsOnceOf(d)'
    BY DEF IdsOnce
<1>a. IdsOnceOf(d)
    BY DEF IdsOnce
<1>1. ASSUME NEW c \in Clients, NativeInvoke(c) PROVE IdsOnceOf(d)'
    <2>1. native'[c] = "invoking" /\ \A e \in Clients \ {c} : native'[e] = native[e]
        BY <1>1, NativeMoves DEF NativeInvoke
    <2>2. CASE d # c
        BY <1>1, <1>a, <2>1, <2>2, IdsFrame DEF NativeInvoke, TypeOK
    <2>3. CASE d = c
        <3> DEFINE n == curr_object_id_[c]
        <3>1. n \in Nat /\ n < MaxInvokes /\ native[c] = "ready"
            BY <1>1 DEF NativeInvoke, TypeOK, At
        <3>2. n % IdSpace = n
            BY <3>1, IdAssumption
        <3>3. /\ curr_object_id_'[c] = n + 1 /\ sent'[c] = sent[c] \cup {n}
              /\ returned'[c] = returned[c] /\ answered'[c] = answered[c] /\ io'[c] = io[c]
            BY <1>1, <3>2 DEF NativeInvoke, TypeOK
        <3> HIDE DEF n
        <3>4. Issued(c) = 0 .. n - 1 /\ Issued(c)' = 0 .. n /\ Issued(c)' = Issued(c) \cup {n}
                /\ n \notin Issued(c)
            BY <3>1, <3>3 DEF Issued, n
        <3>5. Pending(c)' = Pending(c)
            BY <3>3 DEF Pending
        <3>6. curr_object_id_'[c] - 1 = n
            BY <3>1, <3>3
        <3> QED BY <1>a, <2>1, <2>3, <3>1, <3>3, <3>4, <3>5, <3>6 DEF IdsOnceOf
    <2> QED BY <2>2, <2>3
<1>2. ASSUME NEW c \in Clients, InvokeReturns(c) PROVE IdsOnceOf(d)'
    <2>1. native'[c] = "ready" /\ \A e \in Clients \ {c} : native'[e] = native[e]
        BY <1>2, NativeMoves DEF InvokeReturns
    <2>2. CASE d # c
        BY <1>2, <1>a, <2>1, <2>2, IdsFrame DEF InvokeReturns, TypeOK
    <2>3. CASE d = c
        <3>1. returned'[c] = returned[c] \cup {curr_object_id_[c] - 1} /\ native[c] = "invoking"
            BY <1>2 DEF InvokeReturns, TypeOK
        <3>2. UNCHANGED <<sent, answered, io, curr_object_id_>>
            BY <1>2 DEF InvokeReturns
        <3>3. Pending(c)' = Pending(c) /\ Issued(c)' = Issued(c)
            BY <3>2 DEF Pending, Issued
        <3> QED BY <1>a, <2>1, <2>3, <3>1, <3>2, <3>3 DEF IdsOnceOf
    <2> QED BY <2>2, <2>3
<1>3. ASSUME NEW c \in Clients, NEW id \in sent[c], Receive(c, id) PROVE IdsOnceOf(d)'
    <2>1. /\ io'[c].at = "received" /\ io'[c].id = id
          /\ \A e \in Clients \ {c} : io'[e] = io[e]
        BY <1>3, IoMoves
    <2>2. CASE d # c
        BY <1>3, <1>a, <2>1, <2>2, IdsFrame DEF Receive, TypeOK
    <2>3. CASE d = c
        <3>1. /\ sent'[c] = sent[c] \ {id} /\ Pending(c)' = {id} /\ Issued(c)' = Issued(c)
              /\ UNCHANGED <<answered, returned, native, curr_object_id_>>
            BY <1>3, <2>1 DEF Receive, TypeOK, Pending, Issued
        <3> QED BY <1>a, <2>3, <3>1 DEF IdsOnceOf
    <2> QED BY <2>2, <2>3
<1>4. ASSUME NEW c \in Clients, OnReturnValueReceived(c) PROVE IdsOnceOf(d)'
    <2>1. io'[c].at = "calling" /\ \A e \in Clients \ {c} : io'[e] = io[e]
        BY <1>4, IoMoves
    <2>2. CASE d # c
        BY <1>4, <1>a, <2>1, <2>2, IdsFrame DEF OnReturnValueReceived, TypeOK
    <2>3. CASE d = c
        <3>1. /\ answered'[c] = answered[c] \cup {io[c].id} /\ Pending(c) = {io[c].id}
              /\ Pending(c)' = {} /\ Issued(c)' = Issued(c)
              /\ UNCHANGED <<sent, returned, native, curr_object_id_>>
            BY <1>4, <2>1 DEF OnReturnValueReceived, TypeOK, Pending, Issued
        <3> QED BY <1>a, <2>3, <3>1 DEF IdsOnceOf
    <2> QED BY <2>2, <2>3
<1>5. ASSUME NEW c \in Clients, CallbackReturns(c) \/ RunReturns(c) \/ StartIo(c) PROVE IdsOnceOf(d)'
    <2>1. io'[c].at # "received" /\ \A e \in Clients \ {c} : io'[e] = io[e]
        BY <1>5, IoMoves DEF CallbackReturns, RunReturns, StartIo
    <2>2. native'[d] = "invoking" <=> native[d] = "invoking"
        BY <1>5, NativeMoves DEF CallbackReturns, RunReturns, StartIo, At
    <2> QED BY <1>5, <1>a, <2>1, <2>2, IdsFrame DEF CallbackReturns, RunReturns, StartIo
<1>6. ASSUME NEW c \in Clients,
             NativeNewRpcClient(c) \/ Connect(c) \/ StartLogAgain(c) \/ NativeDestroy(c)
               \/ Join(c) \/ DeleteGlobalRefs(c)
      PROVE  IdsOnceOf(d)'
    <2>1. native'[d] = "invoking" <=> native[d] = "invoking"
        <3>1. PICK place \in NativeSteps \ {"invoking"} : Going(c, place)
            BY <1>6 DEF NativeNewRpcClient, Connect, StartLogAgain, NativeDestroy, Join, DeleteGlobalRefs,
                        NativeSteps
        <3>2. native[c] # "invoking"
            BY <1>6 DEF NativeNewRpcClient, Connect, StartLogAgain, NativeDestroy, Join, DeleteGlobalRefs, At
        <3> QED BY <3>1, <3>2, NativeMoves
    <2> QED BY <1>6, <1>a, <2>1, IdsFrame
            DEF NativeNewRpcClient, Connect, StartLogAgain, NativeDestroy, Join, DeleteGlobalRefs
<1>7. ASSUME UNCHANGED <<native, callVars, io, answered>> PROVE IdsOnceOf(d)'
    BY <1>7, <1>a, IdsFrame
<1> QED BY <1>1, <1>2, <1>3, <1>4, <1>5, <1>6, <1>7
        DEF Next, JavaNext, IoNext, ConnectThrows, ReadFails, CallbackCrashes, DeleteCrashes, LogNext, vars

-----------------------------------------------------------------------------
(* The inductive invariant.                                                *)
Inv == TypeOK /\ IoInside /\ AloneHasReference /\ LoggersThere /\ LoggerKept

(* The inductive invariant that does not depend on the id space.           *)
THEOREM Invariance == Spec => []Inv
<1>1. Init => Inv
    <2> SUFFICES ASSUME Init PROVE Inv
        OBVIOUS
    <2>1. TypeOK
        BY InitType
    <2>2. IoInside /\ AloneHasReference
        BY DEF Init, IoInside, AloneHasReference, Existing, IoState
    <2>3. \A t \in LogThreads : log[t].at = "idle"
        BY DEF Init, LogInit, IdleLog
    <2>4. LoggersThere /\ LoggerKept
        BY <2>3 DEF Init, LogInit, LoggersThere, LoggerKept, FirstStart, Starting, StartSteps, Started, Logs
    <2> QED BY <2>1, <2>2, <2>4 DEF Inv
<1>2. Inv /\ [Next]_vars => Inv'
    BY TypeStep, IoInsideStep, ReferencesStep, LoggersStep, LoggerKeptStep DEF Inv
<1> QED BY <1>1, <1>2, PTL DEF Spec

(* A result is handed to the object of its own client, under a live        *)
(* reference, if no other client was created or destroyed meanwhile.       *)
THEOREM CallbackIsOwn == Spec => []OwnCallback
<1>1. Inv => OwnCallback
    BY DEF Inv, OwnCallback, AloneHasReference, IoInside, Existing
<1> QED BY <1>1, Invariance, PTL

(* A message meets a null logger only if a log file could not be opened or *)
(* two threads were in their first StartDousiLog at once.                  *)
THEOREM LoggerIsKept == Spec => []LoggerKept
<1>1. Inv => LoggerKept
    BY DEF Inv
<1> QED BY <1>1, Invariance, PTL

(* Below 2^32 calls per client, a result answers a call that Java knows or *)
(* is about to know, and comes once.                                       *)
THEOREM AnswersOwnCalls ==
  ASSUME MaxInvokes <= IdSpace
  PROVE  Spec => []AnswersOwnCall
<1>1. Init => IdsOnce
    <2> SUFFICES ASSUME Init, NEW c \in Clients PROVE IdsOnceOf(c)
        BY DEF IdsOnce
    <2>1. /\ curr_object_id_[c] = 0 /\ returned[c] = {} /\ sent[c] = {} /\ answered[c] = {}
          /\ native[c] = "none" /\ io[c].at = "none"
        BY DEF Init, IoState
    <2>2. Issued(c) = {} /\ Pending(c) = {}
        BY <2>1 DEF Issued, Pending
    <2> QED BY <2>1, <2>2 DEF IdsOnceOf
<1>2. Inv /\ IdsOnce /\ [Next]_vars => IdsOnce'
    BY IdsStep DEF Inv
<1>3. IdsOnce => AnswersOwnCall
    BY DEF IdsOnce, IdsOnceOf, AnswersOwnCall
<1> QED BY <1>1, <1>2, <1>3, Invariance, PTL DEF Spec
=============================================================================
