---------------------------- MODULE MCTcpServer ----------------------------
(***************************************************************************)
(* TcpServer for TLC.  Clients differ in nothing but their name.           *)
(***************************************************************************)
EXTENDS TcpServer, TLC

ClientSymmetry == Permutations(Clients)
=============================================================================
