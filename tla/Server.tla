------------------------------- MODULE Server -------------------------------
(***************************************************************************)
(* The life of a server: RpcServer (rpc/rpc_server.h), the Executor it     *)
(* shares with the DousiService handles (core/executor/dousi_service.h),   *)
(* from construction to destruction, and the objects a registered method   *)
(* refers to.  How requests travel is the subject of Executor; here a      *)
(* thread of the work pool only looks a method up and calls it.            *)
(*                                                                         *)
(* The application's threads create, use and drop handles and destroy the  *)
(* server whenever they like; one of them may be in Loop.  An operation of *)
(* the application that uses a dead object is not taken.                   *)
(***************************************************************************)
EXTENDS Logging, Endpoint, Nameof

CONSTANTS
  Services,       \* service types, named as NAMEOF_TYPE does
  Addresses,      \* texts a server may be constructed with
  BusyPorts,      \* ports that other processes listen on
  Expressions,    \* arguments of Remote: the text and the method it denotes
  WorkThreads,
  WriteThreads,
  MaxHandles      \* bound: services created

ASSUME HandlesAssumption == MaxHandles \in Nat
ASSUME ThreadsAssumption == WriteThreads # {} /\ LogThreads # {}
ASSUME AddressesAssumption == Addresses \subseteq Seq(STRING)
ASSUME ExpressionsAssumption == \A e \in Expressions : {"text", "method"} = DOMAIN e

VARIABLES
  server,              \* the RpcServer object
  address,             \* the argument of its constructor, while that runs
  executor,            \* the Executor object: "none", "alive", in its
                       \* destructor ("joining") or "freed"
  owners,              \* the shared pointers to it: SERVER and handles
  acceptor_,
  looping,             \* "no", "accepting", or "failing" again and again
  connected,           \* some client's connection has been accepted
  handles,             \* DousiService objects in the order of creation; the
                       \* service object made with handle h is object h
  created_services_,   \* service -> object, 0 for none
  registered_methods_, \* name -> the handle and the method bound to it
  call                 \* what each work thread is doing

lifeVars  == <<server, address, executor, owners, acceptor_>>
netVars   == <<looping, connected>>
tableVars == <<handles, created_services_, registered_methods_>>
vars      == <<logVars, lifeVars, netVars, tableVars, call>>

SERVER  == 0                \* the owner that is the RpcServer
Handles == 1 .. MaxHandles
Main    == CHOOSE t \in LogThreads : TRUE
Ports   == 0 .. PortSpace - 1
Methods == {e.method : e \in Expressions}
Alive(h) == handles[h].alive

NoCall == [at |-> "idle", handle |-> 0]

(* A std::function that nobody has assigned: bound to no handle.           *)
EmptyFunction == [handle |-> 0, method |-> << >>]
Bindings == [handle : DOMAIN handles, method : Methods] \cup {EmptyFunction}

TypeOK ==
  /\ LogTypeOK
  /\ process \in {"running", "dangling handle", "empty function"}
  /\ server \in {"none", "starting", "up", "failed", "destroyed"}
  /\ address \in Addresses \cup {<< >>}
  /\ executor \in {"none", "alive", "joining", "freed"}
  /\ owners \subseteq {SERVER} \cup DOMAIN handles
  /\ acceptor_ \in [is : {"null", "open", "closed"}, port : Ports]
  /\ looping \in {"no", "accepting", "failing"}
  /\ connected \in BOOLEAN
  /\ handles \in Seq([service : Services, alive : BOOLEAN])
  /\ Len(handles) <= MaxHandles
  /\ created_services_ \in [Services -> {0} \cup DOMAIN handles]
  /\ \A k \in DOMAIN registered_methods_ : registered_methods_[k] \in Bindings
  /\ call \in [WorkThreads -> [at : {"idle", "found", "inside"}, handle : {0} \cup Handles]]

Init ==
  /\ LogInit
  /\ server = "none"
  /\ address = << >>
  /\ executor = "none"
  /\ owners = {}
  /\ acceptor_ = [is |-> "null", port |-> 0]
  /\ looping = "no"
  /\ connected = FALSE
  /\ handles = << >>
  /\ created_services_ = [s \in Services |-> 0]
  /\ registered_methods_ = << >>
  /\ call = [t \in WorkThreads |-> NoCall]

-----------------------------------------------------------------------------
(* Construction.  The member executor_ is built first and starts every     *)
(* thread; then the body of the constructor starts the log.                *)
NewServer(a) ==
  /\ server = "none"
  /\ server' = "starting"
  /\ address' = a
  /\ executor' = "alive"
  /\ owners' = {SERVER}
  /\ StartDousiLog(Main, WARNING)
  /\ UNCHANGED <<acceptor_, netVars, tableVars, call>>

(* Mutant: ~Executor does not join the threads.                            *)
DestructorDetaches(left) == IF left # {} THEN executor ELSE "freed"

(* The state of the Executor when the shared pointers in left remain.      *)
(* ~Executor joins the threads of both pools, whose loops have no exit.    *)
Destructor(left) ==
  IF left # {} THEN executor
  ELSE IF WorkThreads \cup WriteThreads = {} THEN "freed" ELSE "joining"

Release(owner) ==
  /\ owners' = owners \ {owner}
  /\ executor' = Destructor(owners')

CanListen == Parse(address) # << >> /\ Parse(address)[1].port_ \notin BusyPorts

(* Executor::Init: the acceptor binds to the port on every interface.      *)
Listen ==
  /\ server = "starting" /\ Idle(Main)
  /\ CanListen
  /\ acceptor_' = [is |-> "open", port |-> Parse(address)[1].port_]
  /\ server' = "up"
  /\ address' = << >>
  /\ UNCHANGED <<logVars, executor, owners, netVars, tableVars, call>>

(* stoi or bind throws: the exception leaves the constructor through the   *)
(* destruction of executor_.                                               *)
ListenThrows ==
  /\ server = "starting" /\ Idle(Main)
  /\ ~CanListen
  /\ server' = "failed"
  /\ address' = << >>
  /\ Release(SERVER)
  /\ UNCHANGED <<logVars, acceptor_, netVars, tableVars, call>>

(* Executor::Shutdown                                                      *)
Shutdown == acceptor_' = [acceptor_ EXCEPT !.is = "closed"]

(* ~RpcServer: Shutdown, then the shared pointer goes.                     *)
DestroyServer ==
  /\ server = "up"
  /\ server' = "destroyed"
  /\ Shutdown
  /\ Release(SERVER)
  /\ UNCHANGED <<logVars, address, netVars, tableVars, call>>

-----------------------------------------------------------------------------
(* Mutant: the table of created services is not kept.                      *)
CreateServiceOnly(s) ==
  /\ server = "up"
  /\ Len(handles) < MaxHandles
  /\ handles' = Append(handles, [service |-> s, alive |-> TRUE])
  /\ owners' = owners \cup {Len(handles')}
  /\ UNCHANGED <<logVars, server, address, executor, acceptor_, netVars,
                 created_services_, registered_methods_, call>>

(* Mutant: the handle keeps a plain pointer to the executor.               *)
CreateServiceUnowned(s) ==
  /\ server = "up"
  /\ Len(handles) < MaxHandles
  /\ handles' = Append(handles, [service |-> s, alive |-> TRUE])
  /\ created_services_' = [created_services_ EXCEPT ![s] = Len(handles')]
  /\ UNCHANGED <<logVars, lifeVars, netVars, registered_methods_, call>>

(* CreateService makes a service object, which the table and the handle    *)
(* share; a second service of that name takes the place of the first in    *)
(* the table.  (The log statements here and in RegisterMethod are at INFO, *)
(* below the threshold that the constructor has set.)                      *)
CreateService(s) ==
  /\ server = "up"
  /\ Len(handles) < MaxHandles
  /\ handles' = Append(handles, [service |-> s, alive |-> TRUE])
  /\ created_services_' = [created_services_ EXCEPT ![s] = Len(handles')]
  /\ owners' = owners \cup {Len(handles')}
  /\ UNCHANGED <<logVars, server, address, executor, acceptor_, netVars,
                 registered_methods_, call>>

(* Remote(METHOD): the name that NAMEOF finds in the expression; there has *)
(* to be one, or the program does not compile.                             *)
Remote == [e \in Expressions |-> pretty_name(e.text)]
HasName(e) == Remote[e] # << >>

(* The names that clients ask for, found by Remote in their expressions.   *)
Names == {Remote[e] : e \in {x \in Expressions : HasName(x)}}

(* A binding under a name that is taken replaces the earlier one.          *)
WithBinding(name, binding) ==
  [k \in DOMAIN registered_methods_ \cup {name} |->
     IF k = name THEN binding ELSE registered_methods_[k]]

(* RegisterMethod binds the address of the handle it is called on.         *)
RegisterMethod(h, e) ==
  /\ Alive(h)
  /\ HasName(e)
  /\ registered_methods_' = WithBinding(Remote[e], [handle |-> h, method |-> e.method])
  /\ UNCHANGED <<logVars, lifeVars, netVars, handles, created_services_, call>>

(* The handle goes out of scope; the methods bound to it stay registered.  *)
DropHandle(h) ==
  /\ Alive(h)
  /\ handles' = [handles EXCEPT ![h].alive = FALSE]
  /\ Release(h)
  /\ UNCHANGED <<logVars, server, address, acceptor_, netVars,
                 created_services_, registered_methods_, call>>

-----------------------------------------------------------------------------
Loop ==
  /\ server = "up"
  /\ looping = "no"
  /\ looping' = "accepting"
  /\ UNCHANGED <<logVars, lifeVars, connected, tableVars, call>>

OnAccept ==
  /\ looping = "accepting"
  /\ acceptor_.is = "open"
  /\ connected' = TRUE
  /\ UNCHANGED <<logVars, lifeVars, looping, tableVars, call>>

(* The handler of an accept that failed calls DoAccept again; once the     *)
(* acceptor is closed, so does the next.                                   *)
OnAcceptError ==
  /\ looping = "accepting"
  /\ acceptor_.is = "closed"
  /\ looping' = "failing"
  /\ UNCHANGED <<logVars, lifeVars, connected, tableVars, call>>

(* PerformRequest copies the function under mutex_ and calls it after the  *)
(* mutex is released.  For a name that nobody has registered, operator[]   *)
(* enters an empty function and returns that.                              *)
Lookup(t, name) ==
  /\ connected
  /\ call[t].at = "idle"
  /\ LET binding == IF name \in DOMAIN registered_methods_
                    THEN registered_methods_[name] ELSE EmptyFunction
     IN  /\ registered_methods_' = WithBinding(name, binding)
         /\ call' = [call EXCEPT ![t] = [at |-> "found", handle |-> binding.handle]]
  /\ UNCHANGED <<logVars, lifeVars, netVars, handles, created_services_>>

(* Calling the empty function throws std::bad_function_call on a thread    *)
(* that does not catch it.                                                 *)
CallEmptyFunction(t) ==
  /\ call[t] = [at |-> "found", handle |-> EmptyFunction.handle]
  /\ ProcessEnds("empty function")
  /\ call' = [call EXCEPT ![t] = NoCall]
  /\ UNCHANGED <<lifeVars, netVars, tableVars>>

(* InvokeHelper takes the service object from the handle.                  *)
Invoke(t) ==
  /\ call[t].at = "found"
  /\ call[t].handle # EmptyFunction.handle
  /\ call' = [call EXCEPT ![t].at = "inside"]
  /\ UNCHANGED <<logVars, lifeVars, netVars, tableVars>>

(* The handle is gone: what is read from its memory may be the pointer     *)
(* that was there (Invoke), or anything else.                              *)
InvokeCrashes(t) ==
  /\ call[t].at = "found"
  /\ call[t].handle # EmptyFunction.handle
  /\ ~Alive(call[t].handle)
  /\ ProcessEnds("dangling handle")
  /\ call' = [call EXCEPT ![t] = NoCall]
  /\ UNCHANGED <<lifeVars, netVars, tableVars>>

Return(t) ==
  /\ call[t].at = "inside"
  /\ call' = [call EXCEPT ![t] = NoCall]
  /\ UNCHANGED <<logVars, lifeVars, netVars, tableVars>>

-----------------------------------------------------------------------------
ServerNext ==
  \/ \E a \in Addresses : NewServer(a)
  \/ Listen \/ ListenThrows \/ DestroyServer
  \/ \E s \in Services : CreateService(s)
  \/ \E h \in DOMAIN handles : DropHandle(h)
  \/ \E h \in DOMAIN handles, e \in Expressions : RegisterMethod(h, e)
  \/ Loop \/ OnAccept \/ OnAcceptError
  \/ \E t \in WorkThreads, name \in Names : Lookup(t, name)
  \/ \E t \in WorkThreads :
       CallEmptyFunction(t) \/ Invoke(t) \/ InvokeCrashes(t) \/ Return(t)

Next ==
  /\ process = "running"
  /\ \/ ServerNext
     \/ StartNext(Main) /\ UNCHANGED <<lifeVars, netVars, tableVars, call>>

Spec == Init /\ [][Next]_vars

-----------------------------------------------------------------------------
(* A server given host:port either listens on that port or, only if the    *)
(* port is taken, fails; and it listens on no port for a text without a    *)
(* number after the colon.                                                 *)
ListensAtItsAddress ==
  [][address # << >> /\ address' = << >> =>
       /\ \A p \in Ports : Denotes(address, p) =>
            IF p \in BusyPorts THEN server' = "failed"
            ELSE acceptor_' = [is |-> "open", port |-> p]
       /\ stoi(PortText(address)) = << >> => acceptor_'.is = "null"]_vars

(* Writing an endpoint as text and parsing it again gives the same         *)
(* endpoint, whatever text it came from.                                   *)
RoundTrip ==
  Parse(address) # << >> => Parse(EndpointString(Parse(address)[1])) = Parse(address)

(* A method is registered under its own name, however the expression that  *)
(* names it is qualified or instantiated: the client, which may write the  *)
(* expression differently, asks for the same name.                         *)
KeyNamesMethod ==
  \A k \in DOMAIN registered_methods_ :
    registered_methods_[k] # EmptyFunction => registered_methods_[k].method = k

(* An Executor lives as long as a handle may pass calls on to it, also     *)
(* after the RpcServer is gone, and is never freed under a thread that is  *)
(* in Loop or performs a request.                                          *)
ExecutorKept ==
  /\ \A h \in DOMAIN handles : Alive(h) => executor = "alive"
  /\ looping # "no" \/ (\E t \in WorkThreads : call[t].at # "idle") => executor # "freed"

(* The object on which a method runs is alive, also after its handle has   *)
(* been dropped, because created_services_ shares it; unless a later       *)
(* service of the same name has replaced it there.                         *)
ObjectOutlivesCall ==
  \A t \in WorkThreads : call[t].at = "inside" =>
    LET h == call[t].handle
    IN  \/ Alive(h)
        \/ \E s \in Services : created_services_[s] = h
        \/ \E g \in DOMAIN handles : g > h /\ handles[g].service = handles[h].service
=============================================================================
