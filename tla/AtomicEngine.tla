---------------------------- MODULE AtomicEngine ----------------------------
(***************************************************************************)
(* What one RetrievalEngine shared by many threads promises them (ADR-11): *)
(* every call takes effect at one moment between its beginning and its end, *)
(* so that an answer never mixes two states of the engine.                 *)
(*                                                                         *)
(* An ingest that throws may have stored its rows and indexed them or not; *)
(* any other call that throws has changed nothing.                         *)
(***************************************************************************)
EXTENDS Operations, Naturals, FiniteSets

CONSTANTS Client, Model

VARIABLES
    rows,     \* the committed rows, 1..n: one batch is one row
    vectors,  \* the rows that are indexed
    model,    \* the attached model: {} or a singleton
    stage,    \* of each client: "none", "called", "returned", "thrown"
    request,  \* the operation it called, "none" between calls
    answer    \* what the call returned

vars == <<rows, vectors, model, stage, request, answer>>

Init ==
    /\ rows = {} /\ vectors = {} /\ model = {}
    /\ stage = [c \in Client |-> "none"]
    /\ request = [c \in Client |-> "none"]
    /\ answer = [c \in Client |-> NoAnswer]

Call(c) ==
    /\ stage[c] = "none"
    /\ stage' = [stage EXCEPT ![c] = "called"]
    /\ \E o \in Operation : request' = [request EXCEPT ![c] = o]
    /\ UNCHANGED <<rows, vectors, model, answer>>

\* Between its call and its end, c's operation o takes effect.
During(c, o) ==
    /\ stage[c] = "called"
    /\ request[c] = o
    /\ o \in RawText => model # {}
    /\ request' = request

Becomes(c, s) == stage' = [stage EXCEPT ![c] = s]

Read(c, o) ==
    /\ During(c, o)
    /\ Becomes(c, "returned")
    /\ LET now == [rows |-> rows, vectors |-> vectors, model |-> model]
       IN  answer' = [answer EXCEPT ![c] =
                        [p \in Part |-> IF p \in Parts[o] THEN now[p] ELSE {}]]
    /\ UNCHANGED <<rows, vectors, model>>

Ingest(c, o) ==
    /\ During(c, o)
    /\ rows' = rows \cup {Cardinality(rows) + 1}
    /\ \/ Becomes(c, "returned") /\ vectors' = vectors \cup (rows' \ rows)
       \/ Becomes(c, "thrown") /\ vectors' \in {vectors, vectors \cup (rows' \ rows)}
    /\ UNCHANGED <<model, answer>>

Attach(c) ==
    /\ During(c, "load_embedding_model")
    /\ \E m \in Model \ model : model' = {m}
    /\ Becomes(c, "returned")
    /\ UNCHANGED <<rows, vectors, answer>>

Throw(c) ==
    /\ stage[c] = "called"
    /\ Becomes(c, "thrown")
    /\ UNCHANGED <<rows, vectors, model, request, answer>>

End(c) ==
    /\ stage[c] \in {"returned", "thrown"}
    /\ Becomes(c, "none")
    /\ request' = [request EXCEPT ![c] = "none"]
    /\ answer' = [answer EXCEPT ![c] = NoAnswer]
    /\ UNCHANGED <<rows, vectors, model>>

Next ==
    \E c \in Client :
        \/ Call(c) \/ Throw(c) \/ End(c) \/ Attach(c)
        \/ \E o \in Reads : Read(c, o)
        \/ \E o \in {"add_documents", "add_text"} : Ingest(c, o)

Spec == Init /\ [][Next]_vars
=============================================================================
