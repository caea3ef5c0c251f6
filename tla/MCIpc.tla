------------------------------- MODULE MCIpc -------------------------------
(***************************************************************************)
(* Ipc on small instances: the threads are the model values t1 and t2, the *)
(* free mutex the model value nothread. Each cfg picks the operations the  *)
(* threads use and the bounds.                                             *)
(***************************************************************************)
EXTENDS Ipc, TLC

\* Threads differ in nothing but their name (for runs without liveness).
ThreadSymmetry == Permutations(Threads)
=============================================================================
