-------------------------- MODULE MCRetrievalEngine --------------------------
(* RetrievalEngine for TLC, and its refinement of AtomicEngine. *)
EXTENDS RetrievalEngine, TLC

Symmetry ==
    Permutations(Thread) \cup Permutations(Model)
        \cup Permutations(Conn) \cup Permutations(Slot)

\* An ingest takes effect as it ends: what the writer has committed and indexed
\* by itself belongs to the state after.
Unpublished ==
    IF \E t \in Thread : pc[t] \in {"index", "save"} THEN Newest ELSE {}

Stage(t) ==
    IF pc[t] = "idle" THEN "none"
    ELSE IF pc[t] = "leave" THEN ended[t] ELSE "called"

Engine == INSTANCE AtomicEngine WITH
    Client  <- Thread,
    rows    <- rows \ Unpublished,
    vectors <- vectors \ Unpublished,
    model   <- embedder,
    stage   <- [t \in Thread |-> Stage(t)],
    request <- op,
    answer  <- [t \in Thread |-> IF pc[t] = "leave" THEN answer[t] ELSE NoAnswer]

\* Every call of the public interface takes effect at one moment: dense and
\* sparse part of a search, and the model its query was embedded with, belong
\* to one state of the engine.
ImplementsAtomicEngine == Engine!Spec
=============================================================================
