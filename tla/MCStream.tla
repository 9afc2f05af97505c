------------------------------ MODULE MCStream ------------------------------
(***************************************************************************)
(* Small instances of Stream: an empty body (the response of a void        *)
(* method), a body of one cell and one of two.  The numbers in the bodies  *)
(* are such that a cell taken for a size matters.                          *)
(***************************************************************************)
EXTENDS Stream

MCMessages == {[object_id |-> 5, data |-> << >>],
               [object_id |-> 6, data |-> <<1>>],
               [object_id |-> 7, data |-> <<2, 0>>]}
=============================================================================
