----------------------------- MODULE DenseIndex -----------------------------
(***************************************************************************)
(* DenseIndex: the usearch graph with its capacity and its thread contexts.*)
(*                                                                         *)
(* Which vectors the graph holds is ChunkStore's matter; here it has a     *)
(* size, and what usearch demands of its caller: room before an addition,  *)
(* vectors of its own size, a context for every search slot.  usearch is   *)
(* an external library, modelled as this class and its comments use it.    *)
(***************************************************************************)
EXTENDS Integers

CONSTANTS
    Cores,            \* what hardware_concurrency() may answer, 0 included
    FirstCapacity     \* capacity of a graph that grows from none: 64

ASSUME DenseAssumption ==
    /\ Cores \subseteq Nat
    /\ FirstCapacity \in Nat \ {0}

VARIABLES
    object,       \* "none", "ready", "adding", "searching", "unusable"
    dimensions,   \* dimensions_
    threads,      \* search_threads_
    graph         \* index_

denseVars == <<object, dimensions, threads, graph>>

Graph == [dim : Nat, size : Nat, capacity : Nat, contexts : Nat]

\* A sidecar file: "absent", "short" where even the header is bad, "torn"
\* where only the header is good, or "whole".
SidecarFile == [state : {"absent", "short", "torn", "whole"}, dim : Nat, size : Nat]

NoFile == [state |-> "absent", dim |-> 0, size |-> 0]

\* A graph as usearch makes it, empty: make(), and reset() which restores the
\* freshly constructed state, as dense_index.hpp says of Clear.  n contexts
\* are usearch's own choice.
Empty(d, n) == [dim |-> d, size |-> 0, capacity |-> 0, contexts |-> n]

Reserve(g, members, n) == [g EXCEPT !.capacity = members, !.contexts = n]

\* load(): dimensionality, size and number of contexts come with the file.
FromFile(file, n) ==
    [dim |-> file.dim, size |-> file.size, capacity |-> file.size, contexts |-> n]

-----------------------------------------------------------------------------
NoIndex ==
    [object |-> "none", dimensions |-> 0, threads |-> 1, graph |-> Empty(0, 0)]

DenseInit ==
    /\ object = NoIndex.object /\ dimensions = NoIndex.dimensions
    /\ threads = NoIndex.threads /\ graph = NoIndex.graph

UsearchSearchThreadCount(cores) == IF cores = 0 THEN 1 ELSE cores

ProvisionSearchThreads(g, n) == Reserve(g, IF g.capacity = 0 THEN 1 ELSE g.capacity, n)

Construct(d) ==
    /\ object = "none"
    /\ object' = "ready"
    /\ dimensions' = d
    /\ \E cores, n \in Cores :
        /\ threads' = UsearchSearchThreadCount(cores)
        /\ graph' = ProvisionSearchThreads(Empty(d, n), threads')

\* A file whose header is bad is not looked into; one that fails later may
\* leave anything in the graph; one of another size is dropped at once.
LoadThrows(file) ==
    /\ object = "ready"
    /\ \/ file.state = "short" /\ UNCHANGED graph
       \/ file.state = "torn" /\ \E n \in Cores : graph' = FromFile(file, n)
       \/ /\ file.state = "whole" /\ file.dim # dimensions
          /\ \E n \in Cores : graph' = ProvisionSearchThreads(Empty(dimensions, n), threads)
    /\ object' = "unusable"
    /\ UNCHANGED <<dimensions, threads>>

Load(file) ==
    /\ object = "ready"
    /\ file.state = "whole" /\ file.dim = dimensions
    /\ \E n \in Cores : graph' = ProvisionSearchThreads(FromFile(file, n), threads)
    /\ UNCHANGED <<object, dimensions, threads>>

\* Mutant: reset() without provisioning again.
ClearUnprovisioned ==
    /\ object \in {"ready", "unusable"}
    /\ object' = "ready"
    /\ \E n \in Cores : graph' = Empty(dimensions, n)
    /\ UNCHANGED <<dimensions, threads>>

Clear ==
    /\ object \in {"ready", "unusable"}
    /\ object' = "ready"
    /\ \E n \in Cores : graph' = ProvisionSearchThreads(Empty(dimensions, n), threads)
    /\ UNCHANGED <<dimensions, threads>>

Full(g) == g.size = g.capacity

EnsureCapacity ==
    /\ object = "ready"
    /\ object' = "adding"
    /\ graph' = IF ~Full(graph) THEN graph
                ELSE Reserve(graph,
                        IF graph.capacity = 0 THEN FirstCapacity ELSE 2 * graph.capacity,
                        threads)
    /\ UNCHANGED <<dimensions, threads>>

Add ==
    /\ object = "adding"
    /\ object' = "ready"
    /\ graph' = [graph EXCEPT !.size = @ + 1]
    /\ UNCHANGED <<dimensions, threads>>

\* A slot is leased; Search returns it with the answer, or with the exception.
Search ==
    /\ object = "ready"
    /\ object' = "searching"
    /\ UNCHANGED <<dimensions, threads, graph>>

Searched ==
    /\ object = "searching"
    /\ object' = "ready"
    /\ UNCHANGED <<dimensions, threads, graph>>

Saved == [state |-> "whole", dim |-> graph.dim, size |-> graph.size]

\* The destructor, or the end of the process.
Gone ==
    /\ object' = NoIndex.object /\ dimensions' = NoIndex.dimensions
    /\ threads' = NoIndex.threads /\ graph' = NoIndex.graph

-----------------------------------------------------------------------------
\* usearch is called only as it allows (usearch_util.hpp:22-43): an addition
\* finds room, additions and searches find a graph made for vectors of their
\* size, and each slot of the pool, 0..threads-1, has a context to search in,
\* whatever was loaded, cleared or grown before and on whatever host.
UsearchPreconditions ==
    object \in {"adding", "searching"} =>
        /\ graph.dim = dimensions
        /\ threads >= 1 /\ threads <= graph.contexts
        /\ object = "adding" => graph.size < graph.capacity
=============================================================================
