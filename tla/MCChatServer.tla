---------------------------- MODULE MCChatServer ----------------------------
(***************************************************************************)
(* Instances of ChatServer for TLC.  The clients are interchangeable while *)
(* they say nothing.  Otherwise each gives its name and sends one line, or *)
(* k1 sends two and k2 never gives its name.                               *)
(***************************************************************************)
EXTENDS ChatServer, TLC

CONSTANTS k1, k2

ClientSymmetry == Permutations(Conns)

MCQuotas == {[k \in {k1, k2} |-> 2], [k \in {k1, k2} |-> IF k = k1 THEN 3 ELSE 0]}
=============================================================================
