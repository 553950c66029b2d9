---------------------------- MODULE MCHttpServer ----------------------------
(***************************************************************************)
(* Instances of HttpServer for TLC.  The connections are interchangeable.  *)
(***************************************************************************)
EXTENDS HttpServer, TLC

ConnSymmetry == Permutations(Conns)
=============================================================================
