--------------------------- MODULE DocumentStore ---------------------------
(***************************************************************************)
(* What the write path promises its callers, whatever files, transactions  *)
(* and indexes it is made of: a map from document ids to chunk lists, to   *)
(* which a call adds all of its documents at one moment, or none of them.  *)
(* A stored document is never replaced, altered or removed.                *)
(***************************************************************************)
EXTENDS Integers, Sequences

CONSTANTS Client, Document, Chunk, MaxBatch, MaxChunks

VARIABLES
    store,    \* the stored documents, each with its chunks in order
    stage,    \* of each client: "none", "called" (nothing stored), "stored"
    request   \* the documents of its call

vars == <<store, stage, request>>

Batches ==
    LET Input == [document_id : Document,
                  chunks : UNION { [1..n -> Chunk] : n \in 0..MaxChunks }]
    IN  UNION { [1..n -> Input] : n \in 0..MaxBatch }

Init ==
    /\ store = [d \in {} |-> <<>>]
    /\ stage = [c \in Client |-> "none"]
    /\ request = [c \in Client |-> <<>>]

Call(c) ==
    /\ stage[c] = "none"
    /\ stage' = [stage EXCEPT ![c] = "called"]
    /\ \E b \in Batches : request' = [request EXCEPT ![c] = b]
    /\ store' = store

Names(b) == { b[n].document_id : n \in DOMAIN b }

\* The whole request at once: its ids are distinct and none of them is stored.
Apply(c) ==
    LET b == request[c]
    IN  /\ stage[c] = "called"
        /\ stage' = [stage EXCEPT ![c] = "stored"]
        /\ \A n, m \in DOMAIN b : b[n].document_id = b[m].document_id => n = m
        /\ Names(b) \cap DOMAIN store = {}
        /\ store' = [d \in DOMAIN store \cup Names(b) |->
                        IF d \in DOMAIN store THEN store[d]
                        ELSE b[CHOOSE n \in DOMAIN b : b[n].document_id = d].chunks]
        /\ request' = request

\* The call ends.  A normal return follows Apply; an exception, or the end of
\* the client, may come before it or after it.
End(c) ==
    /\ stage[c] # "none"
    /\ stage' = [stage EXCEPT ![c] = "none"]
    /\ request' = [request EXCEPT ![c] = <<>>]
    /\ store' = store

Next ==
    \E c \in Client :
        \/ Call(c)
        \/ Apply(c)
        \/ End(c)

Spec == Init /\ [][Next]_vars
=============================================================================
