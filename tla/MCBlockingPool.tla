--------------------------- MODULE MCBlockingPool ---------------------------
(* BlockingPool for TLC, and its refinement of ResourcePool. *)
EXTENDS BlockingPool

Pool == INSTANCE ResourcePool WITH User <- Thread, free <- FreeSet

\* The mutex, the vector and the condition variable implement a pool whose
\* resources are taken and given back at one moment.
ImplementsResourcePool == Pool!Spec
=============================================================================
