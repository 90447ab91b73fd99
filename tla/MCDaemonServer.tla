--------------------------- MODULE MCDaemonServer ---------------------------
(* Instances of DaemonServer for TLC.                                       *)
EXTENDS DaemonServerProps, TLC

\* Connections and sessions are interchangeable.
Symmetry == Permutations(Clients) \cup Permutations(Insts)
=============================================================================
