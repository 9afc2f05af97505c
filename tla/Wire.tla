-------------------------------- MODULE Wire --------------------------------
(***************************************************************************)
(* What the clients and the server share: the connections, the messages on *)
(* them and what a method returns.                                         *)
(*                                                                         *)
(* A connection belongs to one Submitter on the client side and one        *)
(* AsioStream on the server side.  A message is one element of a channel;  *)
(* how AsioStream cuts it into pieces is the subject of Stream.            *)
(***************************************************************************)
EXTENDS Integers, Sequences

CONSTANTS
  Conns,         \* the connections that clients may open
  Services,      \* service names
  Methods,       \* method names
  VoidMethods,   \* the methods whose ReturnType is void
  Args,          \* argument lists of calls
  IdSpace        \* 2^32, the number of values of a uint32_t object_id

ASSUME IdAssumption == IdSpace \in Nat \ {0}
ASSUME VoidAssumption == VoidMethods \subseteq Methods

VARIABLES
  toServer,      \* messages under way from the client of a connection
  toClient,      \* messages under way to the client of a connection
  link           \* "none", "up", or "cut" once the connection is lost

wireVars == <<toServer, toClient, link>>

ObjectIds == 0 .. IdSpace - 1

(* The msgpack array of a call: service name, method name, arguments.      *)
Bodies == Services \X Methods \X Args

(* What a method computes: it depends on the service object it ran on and  *)
(* on the call.                                                            *)
Values == [service : Services, body : Bodies]

(* The serialized result.  InvokeHelper<void> leaves the string empty.     *)
Result(service, body) ==
  IF body[2] \in VoidMethods THEN << >>
  ELSE <<[service |-> service, body |-> body]>>

RequestMessages  == [object_id : ObjectIds, data : Bodies]
ResponseMessages == [object_id : ObjectIds, data : Seq(Values)]

WireInit ==
  /\ toServer = [c \in Conns |-> << >>]
  /\ toClient = [c \in Conns |-> << >>]
  /\ link = [c \in Conns |-> "none"]

(* The network or the peer breaks a connection.                            *)
LinkCut(c) ==
  /\ link[c] = "up"
  /\ link' = [link EXCEPT ![c] = "cut"]
  /\ UNCHANGED <<toServer, toClient>>
=============================================================================
