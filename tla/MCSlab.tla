------------------------------- MODULE MCSlab -------------------------------
(* Model-checking instance of Slab: the main thread and one worker, which    *)
(* exits and is started again as the next task's thread.                     *)
EXTENDS Slab
=============================================================================
