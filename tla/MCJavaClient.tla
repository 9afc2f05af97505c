---------------------------- MODULE MCJavaClient ----------------------------
(***************************************************************************)
(* A small instance of JavaClient.                                         *)
(***************************************************************************)
EXTENDS JavaClient

ThreadsOfClients == {"java", "io"} \X Clients
=============================================================================
