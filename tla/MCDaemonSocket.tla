--------------------------- MODULE MCDaemonSocket ---------------------------
EXTENDS DaemonSocket, TLC

(* Daemon processes differ in nothing but their names.                     *)
DaemonSymmetry == Permutations(Daemons)
=============================================================================
