------------------------------- MODULE Stream -------------------------------
(***************************************************************************)
(* AsioStream (core/stream/stream.h and stream.cc), one direction of one   *)
(* connection: Write on the sending side, the loop DoReadObjectID,         *)
(* DoReadHeader, DoReadBody on the receiving side, and between them a byte *)
(* stream.                                                                 *)
(*                                                                         *)
(* Bytes are grouped into cells: one for the object id, one for the size   *)
(* of the body, and one for each piece of the body.  The cells carry       *)
(* numbers, so that a reader that is out of step takes whatever cell comes *)
(* for an id or a size.                                                    *)
(*                                                                         *)
(* boost::asio is external.  async_write is a composed operation: it hands *)
(* the buffers to async_write_some, which waits in the write queue of the  *)
(* socket and transfers what the socket takes at that moment, at most      *)
(* 64KiB; its completion, run by the io thread, starts another one for the *)
(* rest.  Other operations on the same socket may come in between.         *)
(***************************************************************************)
EXTENDS Integers, Sequences, SequencesExt

CONSTANTS
  Messages,      \* what callers write: [object_id, data]
  SizeSpace,     \* 2^32, the number of values of the uint32_t size
  MaxTransfer,   \* cells that one async_write_some transfers at most
  Capacity,      \* cells that the socket buffers hold
  Overlap,       \* whether callers write while any write is in flight
  Faults,        \* whether the connection may be lost
  MaxWrites      \* bound on the calls of Write

ASSUME MessagesAssumption == Messages \subseteq [object_id : Nat, data : Seq(Nat)]
ASSUME CellAssumption ==
  /\ {SizeSpace, MaxTransfer, Capacity} \subseteq Nat \ {0}
  /\ MaxWrites \in Nat
ASSUME FlagAssumption == Overlap \in BOOLEAN /\ Faults \in BOOLEAN

VARIABLES
  written,     \* history: the messages passed to Write
  queue,       \* async_write_some operations waiting for the socket
  completed,   \* finished ones whose completion has not run yet
  socket_,     \* of the sender: "open" or "closed"
  link,        \* "up" or "cut"
  wire,        \* cells under way
  reader,      \* the receiver: which read is under way, what it has so far
  delivered    \* history: what invocation_callback_ was called with

vars == <<written, queue, completed, socket_, link, wire, reader, delivered>>

(* The buffers of one Write: object id, size, data.                        *)
Frame(m) == <<m.object_id, Len(m.data) % SizeSpace>> \o m.data

Init ==
  /\ written = << >>
  /\ queue = << >>
  /\ completed = << >>
  /\ socket_ = "open"
  /\ link = "up"
  /\ wire = << >>
  /\ reader = [pc |-> "ObjectID", need |-> 1, got |-> << >>, object_id |-> 0]
  /\ delivered = << >>

-----------------------------------------------------------------------------
(* The sender.                                                             *)

(* m and the writes in flight go out in one transfer each, whatever the    *)
(* receiver does: none is larger than a transfer, none has a rest to come, *)
(* and the socket buffers hold them all.                                   *)
Fits(m) ==
  LET frames == Append(queue, Frame(m))
  IN  /\ \A i \in DOMAIN frames : Len(frames[i]) <= MaxTransfer
      /\ \A i \in DOMAIN completed : completed[i].rest = << >>
      /\ Len(wire \o FlattenSeq(frames)) <= Capacity

(* Write does not wait for the writes before.  Without Overlap its callers *)
(* see to it that it need not.                                             *)
Write(m) ==
  /\ Len(written) < MaxWrites
  /\ Overlap \/ queue \o completed = << >> \/ Fits(m)
  /\ written' = Append(written, m)
  /\ queue' = Append(queue, Frame(m))
  /\ UNCHANGED <<completed, socket_, link, wire, reader, delivered>>

(* What one operation transfers.                                           *)
Amount(cells) ==
  LET room == Capacity - Len(wire)
  IN  CHOOSE n \in {Len(cells), MaxTransfer, room} :
        \A k \in {Len(cells), MaxTransfer, room} : n <= k

(* The socket is writable and the operation at the head is carried out.    *)
Transfer ==
  /\ queue # << >>
  /\ link = "up"
  /\ socket_ = "open"
  /\ Len(wire) < Capacity
  /\ LET n == Amount(Head(queue))
     IN  /\ wire' = wire \o SubSeq(Head(queue), 1, n)
         /\ completed' = Append(completed,
              [error_code |-> FALSE,
               rest |-> SubSeq(Head(queue), n + 1, Len(Head(queue)))])
  /\ queue' = Tail(queue)
  /\ UNCHANGED <<written, socket_, link, reader, delivered>>

(* The operation fails, because the connection is lost or because the      *)
(* socket has been closed meanwhile.                                       *)
TransferFails ==
  /\ queue # << >>
  /\ link = "cut" \/ socket_ = "closed"
  /\ completed' = Append(completed, [error_code |-> TRUE, rest |-> << >>])
  /\ queue' = Tail(queue)
  /\ UNCHANGED <<written, socket_, link, wire, reader, delivered>>

(* Mutant: async_write_some in place of async_write, so that the rest of   *)
(* the frame is dropped.                                                   *)
OnTransferredOnce ==
  /\ completed # << >>
  /\ completed' = Tail(completed)
  /\ socket_' = IF Head(completed).error_code THEN "closed" ELSE socket_
  /\ UNCHANGED <<written, queue, link, wire, reader, delivered>>

(* The completion: more of the frame is to be written, or the handler of   *)
(* Write is called, which closes the socket after an error.                *)
OnTransferred ==
  /\ completed # << >>
  /\ completed' = Tail(completed)
  /\ queue' = IF Head(completed).rest = << >> THEN queue
              ELSE Append(queue, Head(completed).rest)
  /\ socket_' = IF Head(completed).error_code THEN "closed" ELSE socket_
  /\ UNCHANGED <<written, link, wire, reader, delivered>>

LinkCut ==
  /\ Faults
  /\ link = "up"
  /\ link' = "cut"
  /\ UNCHANGED <<written, queue, completed, socket_, wire, reader, delivered>>

-----------------------------------------------------------------------------
(* The receiver.  async_read collects the cells it needs.                  *)

ReadSome ==
  /\ reader.pc # "ended"
  /\ Len(reader.got) < reader.need
  /\ wire # << >>
  /\ reader' = [reader EXCEPT !.got = Append(@, Head(wire))]
  /\ wire' = Tail(wire)
  /\ UNCHANGED <<written, queue, completed, socket_, link, delivered>>

ReadComplete(pc) == reader.pc = pc /\ Len(reader.got) = reader.need

(* DoReadObjectID completes; DoReadHeader.                                 *)
OnObjectID ==
  /\ ReadComplete("ObjectID")
  /\ reader' = [pc |-> "Header", need |-> 1, got |-> << >>,
                object_id |-> reader.got[1]]
  /\ UNCHANGED <<written, queue, completed, socket_, link, wire, delivered>>

(* Mutant: the size is taken to count the header cell too.                 *)
OnHeaderLess ==
  /\ ReadComplete("Header")
  /\ reader' = [reader EXCEPT !.pc = "Body", !.got = << >>, !.need = reader.got[1] - 1]
  /\ UNCHANGED <<written, queue, completed, socket_, link, wire, delivered>>

(* Mutant: the body is taken to have at least one cell.                    *)
OnHeaderNonEmpty ==
  /\ ReadComplete("Header")
  /\ reader' = [reader EXCEPT !.pc = "Body", !.got = << >>,
                !.need = IF reader.got[1] = 0 THEN 1 ELSE reader.got[1]]
  /\ UNCHANGED <<written, queue, completed, socket_, link, wire, delivered>>

(* DoReadHeader completes; DoReadBody.  A read of zero bytes completes at  *)
(* once.                                                                   *)
OnHeader ==
  /\ ReadComplete("Header")
  /\ reader' = [reader EXCEPT !.pc = "Body", !.got = << >>, !.need = reader.got[1]]
  /\ UNCHANGED <<written, queue, completed, socket_, link, wire, delivered>>

(* DoReadBody completes: the callback, then DoReadObjectID.                *)
OnBody ==
  /\ ReadComplete("Body")
  /\ delivered' = Append(delivered,
       [object_id |-> reader.object_id, data |-> reader.got])
  /\ reader' = [reader EXCEPT !.pc = "ObjectID", !.got = << >>, !.need = 1]
  /\ UNCHANGED <<written, queue, completed, socket_, link, wire>>

(* A read completes with an error_code: what it has so far is dropped.     *)
ReadFails ==
  /\ reader.pc # "ended"
  /\ Len(reader.got) < reader.need
  /\ link = "cut"
  /\ reader' = [reader EXCEPT !.pc = "ended", !.got = << >>]
  /\ UNCHANGED <<written, queue, completed, socket_, link, wire, delivered>>

-----------------------------------------------------------------------------
SendNext == Transfer \/ TransferFails \/ OnTransferred

ReadNext == ReadSome \/ OnObjectID \/ OnHeader \/ OnBody \/ ReadFails

Next ==
  \/ \E m \in Messages : Write(m)
  \/ SendNext
  \/ ReadNext
  \/ LinkCut

Spec == Init /\ [][Next]_vars

(* The io threads of both sides keep running.                              *)
FairSpec ==
  Spec /\ WF_vars(Transfer \/ TransferFails) /\ WF_vars(OnTransferred) /\ WF_vars(ReadNext)

-----------------------------------------------------------------------------
Nats == Seq(Nat)

TypeOK ==
  /\ written \in Seq(Messages)
  /\ queue \in Seq(Nats)
  /\ completed \in Seq([error_code : BOOLEAN, rest : Nats])
  /\ socket_ \in {"open", "closed"}
  /\ link \in {"up", "cut"}
  /\ wire \in Nats /\ Len(wire) <= Capacity
  /\ reader \in [pc : {"ObjectID", "Header", "Body", "ended"}, need : Nat,
                 got : Nats, object_id : Nat]
  /\ delivered \in Seq([object_id : Nat, data : Nats])

(* The callback is invoked with complete messages: the ones that were      *)
(* written, unmixed, in the order of the calls of Write.  It is what lets  *)
(* Executor and Submitter see a connection as a queue of messages.         *)
CompleteMessages == IsPrefix(delivered, written)

(* Every message written is delivered, unless the connection is lost: no   *)
(* path of the read loop or of a composed write stops short.               *)
AllDelivered ==
  \A n \in 1 .. MaxWrites :
    (Len(written) >= n) ~> (Len(delivered) >= n \/ link = "cut")
=============================================================================
