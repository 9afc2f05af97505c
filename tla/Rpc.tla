--------------------------------- MODULE Rpc --------------------------------
(***************************************************************************)
(* dousi as a whole: the clients of Submitter and the server of Executor,  *)
(* joined by the connections of Wire, which may be lost.                   *)
(***************************************************************************)
EXTENDS Executor, Submitter

CONSTANTS
  Calls,    \* the calls that users make
  Faults    \* whether connections may be lost and clients destroyed

ASSUME CallsAssumption == Calls \subseteq Bodies
ASSUME FaultsAssumption == Faults \in BOOLEAN

vars == <<execVars, subVars, wireVars>>

Init == ExecInit /\ SubInit /\ WireInit

(* boost::asio::connect succeeds as soon as the server process listens.    *)
Connect(c) ==
  /\ running
  /\ ClientInit(c)
  /\ UNCHANGED execVars

DestroyClient(c) ==
  /\ Faults
  /\ Destroy(c)
  /\ UNCHANGED execVars

LoseConnection(c) ==
  /\ Faults
  /\ LinkCut(c)
  /\ UNCHANGED <<execVars, subVars>>

Next ==
  \/ ExecNext /\ UNCHANGED subVars
  \/ \E u \in Users : UserNext(u, Calls) /\ UNCHANGED execVars
  \/ \E c \in Conns : ClientIoNext(c) /\ UNCHANGED execVars
  \/ \E c \in Conns : Connect(c) \/ DestroyClient(c) \/ LoseConnection(c)

Spec == Init /\ [][Next]_vars

(* The threads of the server and the io threads of the clients keep        *)
(* running, and a user goes on with a call or a Get that it has begun: it  *)
(* sleeps 200ms between two polls.  Whether it begins one is its own       *)
(* choice.                                                                 *)
Fairness ==
  /\ WF_vars((\E s \in Services, m \in Methods : RegisterMethod(s, m)) /\ UNCHANGED subVars)
  /\ WF_vars(Loop /\ UNCHANGED subVars)
  /\ \A c \in Conns : /\ WF_vars(OnAccept(c) /\ UNCHANGED subVars)
                      /\ WF_vars(IoNext(c) /\ UNCHANGED subVars)
                      /\ WF_vars(ClientIoNext(c) /\ UNCHANGED execVars)
  /\ \A t \in WorkThreads : WF_vars(WorkNext(t) /\ UNCHANGED subVars)
  /\ \A i \in IoThreads : WF_vars(InlineNext(i) /\ UNCHANGED subVars)
  /\ \A w \in WriteThreads : WF_vars(WriteNext(w) /\ UNCHANGED subVars)
  /\ \A u \in Users : WF_vars((SubmitNext(u) \/ GetNext(u)) /\ UNCHANGED execVars)

FairSpec == Spec /\ Fairness

-----------------------------------------------------------------------------
SubTypeOK ==
  /\ client \in [Conns -> {"new", "ready", "closed", "aborted"}]
  /\ curr_object_id_ \in [Conns -> Nat]
  /\ stream_ \in [Conns -> ClientStreams]
  /\ storing \in [Conns -> Seq(ResponseMessages)]
  /\ \A c \in Conns : Len(storing[c]) <= 1
  /\ DOMAIN cached_objects_ = Conns
  /\ \A c \in Conns : /\ DOMAIN cached_objects_[c] \subseteq ObjectIds
                      /\ \A o \in DOMAIN cached_objects_[c] :
                           cached_objects_[c][o] \in Seq(Values)
  /\ user \in [Users -> UserStates]
  /\ futures \in [Users -> Seq(Futures)]
  /\ issued \in [Conns -> Seq(Bodies)]

(* The futures of the users of c that hold a value.                        *)
Held(c) ==
  {f \in UNION {{futures[u][k] : k \in DOMAIN futures[u]} :
                u \in {v \in Users : ClientOf[v] = c}} : f.data_ptr_ # << >>}

(* A Get returns the result of the call that made the future: the same     *)
(* method and arguments, and the value of a performance by the server      *)
(* under that id and for that connection.                                  *)
OwnResult ==
  \A c \in Conns : \A f \in Held(c) :
    \E i \in DOMAIN performed :
      LET r == performed[i].request
      IN  /\ streams_[r.stream_id_] = c
          /\ r.object_id_ = f.object_id_
          /\ r.unpacked_ = f.body
          /\ f.data_ptr_ = Result(performed[i].service, f.body)

(* A Get that has begun ends, unless the connection is lost first: no      *)
(* response is dropped, misdirected or stored under an id nobody polls.    *)
GetReturns ==
  \A u \in Users :
    (user[u].pc = "poll") ~> (user[u].pc # "poll" \/ link[ClientOf[u]] = "cut")

-----------------------------------------------------------------------------
(* The refinement mapping to RemoteCalls.                                  *)
Performed ==
  [i \in DOMAIN performed |->
     [conn  |-> streams_[performed[i].request.stream_id_],
      id    |-> performed[i].request.object_id_,
      value |-> Result(performed[i].service, performed[i].request.unpacked_)]]

ResultsOf(held) ==
  [o \in {f.object_id_ : f \in held} |-> (CHOOSE f \in held : f.object_id_ = o).data_ptr_]

Returned == [c \in Conns |-> ResultsOf(Held(c))]

Abstract == INSTANCE RemoteCalls WITH log <- Performed, result <- Returned

(* Every step of the clients and the server is a step of RemoteCalls: a    *)
(* call is performed at most once and on its own arguments, however the    *)
(* pools interleave, and what a future yields is that performance.         *)
ImplementsRemoteCalls == Abstract!Spec
=============================================================================
