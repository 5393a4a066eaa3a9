--------------------------- MODULE RetrievalEngine ---------------------------
(***************************************************************************)
(* retrieval_engine.cpp: one engine shared by many threads.  rw_mutex, a   *)
(* std::shared_mutex, admits any number of readers or one writer; below it *)
(* a reader takes a read-only connection and, for the dense part of its    *)
(* search, a search slot.  Both come from pools (BlockingPool, of which    *)
(* ResourcePool is the abstraction used here).  Locks and handles are RAII *)
(* objects: a call that returns and a call that throws leave by the same   *)
(* steps.                                                                  *)
(*                                                                         *)
(* The tables are abstracted to the batches that have been stored, one row *)
(* for each; ChunkStore models what happens inside a store.                *)
(***************************************************************************)
EXTENDS Operations, Integers, FiniteSets

CONSTANTS
    Thread,
    Model,        \* embedders, as objects on the heap
    Conn,         \* the read-only connections
    Slot,         \* usearch's search slots
    Called,       \* the operations the threads call
    MaxCalls      \* bound: calls of all threads together

\* Both pools are made of UsearchSearchThreadCount() resources, at least one.
ASSUME EngineAssumption ==
    /\ Called \subseteq Operation
    /\ MaxCalls \in Nat
    /\ IsFiniteSet(Conn) /\ IsFiniteSet(Slot)
    /\ Slot # {}
    /\ Cardinality(Conn) = Cardinality(Slot)

VARIABLES
    path,             \* the database is a "file", or in "memory": "" or ":memory:"
    readers, writer,  \* the holders of rw_mutex
    conns, conn,      \* the free connections, and each thread's: {} or one
    slots, slot,      \* the free search slots, and each thread's
    rows,             \* the committed rows
    open,             \* the rows of the transaction that is open
    vectors,          \* the rows that are in the dense index
    embedder,         \* Impl::embedder: {} or a singleton
    using,            \* the embedder a thread has a reference to
    local,            \* the embedder a thread has loaded and not yet attached
    pc, op,           \* where each thread is, and in which operation
    todo,             \* the searches it has still to make
    answer,           \* what it has found
    ended,            \* "returned" or "thrown" once its call is decided
    calls             \* how many calls there have been

mutex   == <<readers, writer>>
pools   == <<conns, conn, slots, slot>>
store   == <<path, rows, open, vectors>>
model   == <<embedder, using, local>>
request == <<op, todo, calls>>
result  == <<answer, ended>>
vars    == <<mutex, pools, store, model, pc, request, result>>

Init ==
    /\ path \in {"file", "memory"}
    /\ readers = {} /\ writer = {}
    /\ conns = Conn /\ conn = [t \in Thread |-> {}]
    /\ slots = Slot /\ slot = [t \in Thread |-> {}]
    /\ rows = {} /\ open = {} /\ vectors = {}
    /\ embedder = {}
    /\ using = [t \in Thread |-> {}]
    /\ local = [t \in Thread |-> {}]
    /\ pc = [t \in Thread |-> "idle"]
    /\ op = [t \in Thread |-> "none"]
    /\ todo = [t \in Thread |-> {}]
    /\ answer = [t \in Thread |-> NoAnswer]
    /\ ended = [t \in Thread |-> "none"]
    /\ calls = 0

-----------------------------------------------------------------------------
(* Calls and their ends. *)

Goto(t, l) == pc' = [pc EXCEPT ![t] = l]

\* load_embedding_model builds the embedder before it asks for the lock.
Call(t, o) ==
    /\ pc[t] = "idle"
    /\ calls < MaxCalls
    /\ calls' = calls + 1
    /\ op' = [op EXCEPT ![t] = o]
    /\ todo' = [todo EXCEPT ![t] = Parts[o] \cap {"rows", "vectors"}]
    /\ Goto(t, IF o = "load_embedding_model" THEN "load" ELSE "lock")
    /\ UNCHANGED <<mutex, pools, store, model, result>>

\* The call's answer is complete; what it holds is still to be given back.
Done(t) ==
    /\ ended' = [ended EXCEPT ![t] = "returned"]
    /\ Goto(t, "leave")

Throw(t) ==
    /\ ended' = [ended EXCEPT ![t] = "thrown"]
    /\ answer' = [answer EXCEPT ![t] = NoAnswer]
    /\ using' = [using EXCEPT ![t] = {}]
    /\ Goto(t, "leave")

Slots == INSTANCE ResourcePool WITH
    User <- Thread, Resource <- Slot, free <- slots, held <- slot

Conns == INSTANCE ResourcePool WITH
    User <- Thread, Resource <- Conn, free <- conns, held <- conn

LeaveSlot(t) ==
    /\ pc[t] = "leave"
    /\ Slots!Give(t)
    /\ UNCHANGED <<mutex, conns, conn, store, model, pc, request, result>>

LeaveConnection(t) ==
    /\ pc[t] = "leave"
    /\ slot[t] = {}
    /\ Conns!Give(t)
    /\ UNCHANGED <<mutex, slots, slot, store, model, pc, request, result>>

\* Mutant: an exception takes the thread past the release of its connection.
UnlockKeepingConnection(t) ==
    /\ pc[t] = "leave"
    /\ slot[t] = {}
    /\ conn[t] = {} \/ ended[t] = "thrown"
    /\ readers' = readers \ {t}
    /\ writer' = writer \ {t}
    /\ op' = [op EXCEPT ![t] = "none"]
    /\ todo' = [todo EXCEPT ![t] = {}]
    /\ answer' = [answer EXCEPT ![t] = NoAnswer]
    /\ ended' = [ended EXCEPT ![t] = "none"]
    /\ Goto(t, "idle")
    /\ UNCHANGED <<pools, store, model, calls>>

Unlock(t) ==
    /\ pc[t] = "leave"
    /\ slot[t] = {} /\ conn[t] = {}
    /\ readers' = readers \ {t}
    /\ writer' = writer \ {t}
    /\ op' = [op EXCEPT ![t] = "none"]
    /\ todo' = [todo EXCEPT ![t] = {}]
    /\ answer' = [answer EXCEPT ![t] = NoAnswer]
    /\ ended' = [ended EXCEPT ![t] = "none"]
    /\ Goto(t, "idle")
    /\ UNCHANGED <<pools, store, model, calls>>

-----------------------------------------------------------------------------
(* rw_mutex and the embedding model. *)

First(o) ==
    CASE o \in {"chunk_count", "search_dense", "search_sparse", "search_hybrid",
                "search_memory"}                          -> "connect"
      [] o = "has_embedding_model" \/ o \in RawText       -> "model"
      [] o = "add_documents"                              -> "insert"
      [] o = "load_embedding_model"                       -> "attach"

LockShared(t) ==
    /\ pc[t] = "lock"
    /\ op[t] \in Reads
    /\ writer = {}
    /\ readers' = readers \cup {t}
    /\ Goto(t, First(op[t]))
    /\ UNCHANGED <<writer, pools, store, model, request, result>>

\* Mutant: a mutating method takes the lock in shared mode.
LockSharedToWrite(t) ==
    /\ pc[t] = "lock"
    /\ op[t] \in Writes
    /\ writer = {}
    /\ readers' = readers \cup {t}
    /\ Goto(t, First(op[t]))
    /\ UNCHANGED <<writer, pools, store, model, request, result>>

\* Mutant: load_embedding_model exchanges the pointer without the lock.
LockToWriteTables(t) ==
    /\ pc[t] = "lock"
    /\ op[t] \in Writes
    /\ IF op[t] = "load_embedding_model" THEN UNCHANGED writer
       ELSE writer = {} /\ readers = {} /\ writer' = {t}
    /\ Goto(t, First(op[t]))
    /\ UNCHANGED <<readers, pools, store, model, request, result>>

LockExclusive(t) ==
    /\ pc[t] = "lock"
    /\ op[t] \in Writes
    /\ writer = {} /\ readers = {}
    /\ writer' = {t}
    /\ Goto(t, First(op[t]))
    /\ UNCHANGED <<readers, pools, store, model, request, result>>

HasEmbeddingModel(t) ==
    /\ pc[t] = "model"
    /\ op[t] = "has_embedding_model"
    /\ answer' = [answer EXCEPT ![t].model = embedder]
    /\ Done(t)
    /\ UNCHANGED <<mutex, pools, store, model, request>>

RequireEmbedder(t) ==
    /\ pc[t] = "model"
    /\ op[t] \in RawText
    /\ embedder # {}
    /\ using' = [using EXCEPT ![t] = embedder]
    /\ Goto(t, "embed")
    /\ UNCHANGED <<mutex, pools, store, embedder, local, request, result>>

NoModelAttached(t) ==
    /\ pc[t] = "model"
    /\ op[t] \in RawText
    /\ embedder = {}
    /\ Throw(t)
    /\ UNCHANGED <<mutex, pools, store, embedder, local, request>>

\* The text is embedded: every document of add_text, or the query.
Embed(t) ==
    /\ pc[t] = "embed"
    /\ using' = [using EXCEPT ![t] = {}]
    /\ \/ op[t] = "embed" /\ Done(t)
       \/ op[t] = "search_text" /\ Goto(t, "connect") /\ UNCHANGED ended
       \/ op[t] = "add_text" /\ Goto(t, "insert") /\ UNCHANGED ended
    /\ answer' = [answer EXCEPT ![t].model =
                    IF "model" \in Parts[op[t]] THEN using[t] ELSE @]
    /\ UNCHANGED <<mutex, pools, store, embedder, local, request>>

EmbedFails(t) ==
    /\ pc[t] = "embed"
    /\ Throw(t)
    /\ UNCHANGED <<mutex, pools, store, embedder, local, request>>

\* LoadTextEmbedder makes a new object, at no address that is in use.
Load(t) ==
    /\ pc[t] = "load"
    /\ \E m \in Model \ (embedder \cup UNION { local[u] \cup using[u] : u \in Thread }) :
         local' = [local EXCEPT ![t] = {m}]
    /\ Goto(t, "lock")
    /\ UNCHANGED <<mutex, pools, store, embedder, using, request, result>>

\* Mutant: the attached model is given up before another one is loaded.
LoadFailsDetached(t) ==
    /\ pc[t] = "load"
    /\ Throw(t)
    /\ embedder' = {}
    /\ UNCHANGED <<mutex, pools, store, local, request>>

\* No such file, not a model, or a model of another dimensionality.
LoadFails(t) ==
    /\ pc[t] = "load"
    /\ Throw(t)
    /\ UNCHANGED <<mutex, pools, store, embedder, local, request>>

\* The assignment destroys the embedder that was attached.
Attach(t) ==
    /\ pc[t] = "attach"
    /\ embedder' = local[t]
    /\ local' = [local EXCEPT ![t] = {}]
    /\ Done(t)
    /\ UNCHANGED <<mutex, pools, store, using, request, answer>>

-----------------------------------------------------------------------------
(* Reading: ChunkStore's search methods and chunk_count. *)

\* Mutant: every reader is given the fallback connection.
AcquireFallback(t) ==
    /\ pc[t] = "connect"
    /\ Goto(t, "read")
    /\ UNCHANGED <<mutex, pools, store, model, request, result>>

\* A pooled connection; the writer's own where the pool is inert.
AcquireConnection(t) ==
    /\ pc[t] = "connect"
    /\ IF path = "file" THEN Conns!Take(t) ELSE UNCHANGED <<conns, conn>>
    /\ Goto(t, "read")
    /\ UNCHANGED <<mutex, slots, slot, store, model, request, result>>

\* What a reader sees: its own connection shows what is committed, the writer's
\* also what is not.
Visible == IF path = "file" THEN rows ELSE rows \cup open

\* chunk_count's count, or SearchSparse.  C++ leaves open which of RrfFuse's
\* two arguments is computed first.
ReadRows(t) ==
    /\ pc[t] = "read"
    /\ "rows" \in todo[t]
    /\ answer' = [answer EXCEPT ![t].rows = Visible]
    /\ todo' = [todo EXCEPT ![t] = @ \ {"rows"}]
    /\ UNCHANGED <<mutex, pools, store, model, pc, op, calls, ended>>

AcquireSlot(t) ==
    /\ pc[t] = "read"
    /\ "vectors" \in todo[t]
    /\ Slots!Take(t)
    /\ Goto(t, "search")
    /\ UNCHANGED <<mutex, conns, conn, store, model, request, result>>

\* DenseIndex::Search, whose handle goes with its scope.
Search(t) ==
    /\ pc[t] = "search"
    /\ answer' = [answer EXCEPT ![t].vectors = vectors]
    /\ Slots!Give(t)
    /\ Goto(t, "resolve")
    /\ UNCHANGED <<mutex, conns, conn, store, model, request, ended>>

\* Mutant: the search is not ticked off.
ResolveAgain(t) ==
    /\ pc[t] = "resolve"
    /\ answer[t].vectors \subseteq Visible
    /\ Goto(t, "read")
    /\ UNCHANGED <<mutex, pools, store, model, request, result>>

\* Every hit has its row, or Resolve throws.
Resolve(t) ==
    /\ pc[t] = "resolve"
    /\ answer[t].vectors \subseteq Visible
    /\ todo' = [todo EXCEPT ![t] = @ \ {"vectors"}]
    /\ Goto(t, "read")
    /\ UNCHANGED <<mutex, pools, store, model, op, calls, result>>

\* Both parts are there.  search_memory and search_text look up the age of
\* every hit, of either part.
Answer(t) ==
    /\ pc[t] = "read"
    /\ todo[t] = {}
    /\ op[t] \in {"search_memory", "search_text"} =>
         answer[t].rows \cup answer[t].vectors \subseteq Visible
    /\ Done(t)
    /\ UNCHANGED <<mutex, pools, store, model, request, answer>>

\* SQLite or usearch reports an error, a hit has no row, FTS5 refuses the query.
ReadFails(t) ==
    /\ pc[t] \in {"read", "search", "resolve"}
    /\ Throw(t)
    /\ UNCHANGED <<mutex, pools, store, embedder, local, request>>

-----------------------------------------------------------------------------
(* Writing: ChunkStore::add_documents, under the exclusive lock. *)

\* Mutant: the vectors are indexed as the rows are inserted.
InsertAndIndex(t) ==
    /\ pc[t] = "insert"
    /\ open' = {Cardinality(rows) + 1}
    /\ vectors' = vectors \cup {Cardinality(rows) + 1}
    /\ Goto(t, "commit")
    /\ UNCHANGED <<mutex, pools, path, rows, model, request, result>>

\* Mutant: the ids of new rows start at zero.
InsertFromZero(t) ==
    /\ pc[t] = "insert"
    /\ open' = {Cardinality(rows)}
    /\ Goto(t, "commit")
    /\ UNCHANGED <<mutex, pools, path, rows, vectors, model, request, result>>

Insert(t) ==
    /\ pc[t] = "insert"
    /\ open' = {Cardinality(rows) + 1}
    /\ Goto(t, "commit")
    /\ UNCHANGED <<mutex, pools, path, rows, vectors, model, request, result>>

\* A bad embedding, a duplicate, an error in the loop or at COMMIT: nothing is
\* stored (ChunkStore's CommitBusy case is left out).
InsertFails(t) ==
    /\ pc[t] \in {"insert", "commit"}
    /\ open' = {}
    /\ Throw(t)
    /\ UNCHANGED <<mutex, pools, path, rows, vectors, embedder, local, request>>

Commit(t) ==
    /\ pc[t] = "commit"
    /\ rows' = rows \cup open
    /\ open' = {}
    /\ Goto(t, "index")
    /\ UNCHANGED <<mutex, pools, path, vectors, model, request, result>>

\* The row the writer has just committed.
Newest == {Cardinality(rows)}

Index(t) ==
    /\ pc[t] = "index"
    /\ vectors' = vectors \cup Newest
    /\ Goto(t, "save")
    /\ UNCHANGED <<mutex, pools, path, rows, open, model, request, result>>

Save(t) ==
    /\ pc[t] = "save"
    /\ Done(t)
    /\ UNCHANGED <<mutex, pools, store, model, request, answer>>

\* usearch or the file system fails after COMMIT: the rows stay stored.
IndexOrSaveFails(t) ==
    /\ pc[t] \in {"index", "save"}
    /\ Throw(t)
    /\ UNCHANGED <<mutex, pools, store, embedder, local, request>>

-----------------------------------------------------------------------------
Step(t) ==
    \/ LeaveSlot(t) \/ LeaveConnection(t) \/ Unlock(t)
    \/ LockShared(t) \/ LockExclusive(t)
    \/ HasEmbeddingModel(t) \/ RequireEmbedder(t) \/ NoModelAttached(t)
    \/ Embed(t) \/ EmbedFails(t) \/ Load(t) \/ LoadFails(t) \/ Attach(t)
    \/ AcquireConnection(t) \/ ReadRows(t) \/ AcquireSlot(t) \/ Search(t)
    \/ Resolve(t) \/ Answer(t) \/ ReadFails(t)
    \/ Insert(t) \/ InsertFails(t) \/ Commit(t) \/ Index(t) \/ Save(t)
    \/ IndexOrSaveFails(t)

\* Every call has been made and has ended.
Finished ==
    /\ calls = MaxCalls
    /\ \A t \in Thread : pc[t] = "idle"
    /\ UNCHANGED vars

Next ==
    \/ \E t \in Thread : Step(t) \/ \E o \in Called : Call(t, o)
    \/ Finished

Spec == Init /\ [][Next]_vars

\* A thread inside a call that can go on does.
FairSpec == Spec /\ \A t \in Thread : WF_vars(Step(t))

-----------------------------------------------------------------------------
(* Properties. *)

Control == {"idle", "load", "lock", "model", "embed", "attach", "connect", "read",
            "search", "resolve", "insert", "commit", "index", "save", "leave"}

\* Every variable has its type.
TypeOK ==
    /\ path \in {"file", "memory"}
    /\ readers \in SUBSET Thread /\ writer \in SUBSET Thread
    /\ Conns!TypeOK /\ Slots!TypeOK
    /\ rows \in SUBSET (Nat \ {0}) /\ open \in SUBSET (Nat \ {0})
    /\ vectors \in SUBSET (Nat \ {0})
    /\ embedder \in SUBSET Model
    /\ using \in [Thread -> SUBSET Model] /\ local \in [Thread -> SUBSET Model]
    /\ pc \in [Thread -> Control]
    /\ op \in [Thread -> Operation \cup {"none"}]
    /\ todo \in [Thread -> SUBSET {"rows", "vectors"}]
    /\ answer \in [Thread -> [Part -> (SUBSET (Nat \ {0})) \cup (SUBSET Model)]]
    /\ ended \in [Thread -> {"none", "returned", "thrown"}]
    /\ calls \in 0..MaxCalls

\* "The caller must keep every mutating call exclusive of all Search() calls"
\* (dense_index.hpp:21-25), and on a database without a path the writer's
\* connection, which readers then use, exclusive of them too: no thread reads
\* while another is anywhere between BEGIN and the renamed sidecar.
ReadersExcludeIngest ==
    \A t, u \in Thread :
        pc[t] \in {"read", "search", "resolve"} =>
            pc[u] \notin {"commit", "index", "save"}

\* An embedder is not destroyed under a thread that embeds with it, although it
\* is replaced while other calls are in flight.
EmbedderOutlivesItsUse == \A t \in Thread : using[t] \subseteq embedder

\* A call leaves nothing behind, whether it returned or threw: all that idle
\* threads do not hold is free, in both pools and in the lock.
NothingLeaks ==
    /\ \A t \in readers \cup writer : pc[t] # "idle"
    /\ Conn \ conns \subseteq UNION { conn[t] : t \in { u \in Thread : pc[u] # "idle" } }
    /\ Slot \ slots \subseteq UNION { slot[t] : t \in { u \in Thread : pc[u] # "idle" } }

\* The two pools cannot starve each other: a thread that holds a connection
\* never waits for a slot, because there are as many slots as connections.
ConnectionHolderFindsASlot ==
    path = "file" => \A t \in Thread :
        pc[t] = "read" /\ "vectors" \in todo[t] => slots # {}

\* Resolve never finds that index and tables "have desynced", and no hit loses
\* its row between the search and the lookup of its age.
HitsHaveRows ==
    \A t \in Thread : pc[t] \in {"read", "resolve"} => answer[t].vectors \subseteq Visible

\* Every call ends, once no new calls come to overtake a waiting writer.
CallsReturn == \A t \in Thread : pc[t] # "idle" ~> pc[t] = "idle"

-----------------------------------------------------------------------------
(* Why readers and writers do not meet: the parts of the inductive          *)
(* invariant, all at once in EngineInvariant.                                *)

Reading == {"connect", "read", "search", "resolve"}
Writing == {"insert", "commit", "index", "save", "attach"}

\* Who is where has rw_mutex in the mode that takes.
LockInv ==
    /\ \A t, u \in writer : t = u
    /\ writer # {} => readers = {}
    /\ \A t \in Thread :
        /\ pc[t] \in Reading => t \in readers
        /\ pc[t] \in Writing => t \in writer
        /\ pc[t] \in {"model", "embed"} /\ op[t] \in Reads => t \in readers
        /\ pc[t] \in {"model", "embed"} /\ op[t] \notin Reads => t \in writer
        /\ pc[t] \in {"idle", "load", "lock"} => t \notin readers \cup writer

\* A reference to an embedder is held while embedding, to the attached one.
UseInv ==
    \A t \in Thread : using[t] \subseteq IF pc[t] = "embed" THEN embedder ELSE {}

\* Rows are numbered from one without gaps; indexed and found ones are committed.
RowsInv ==
    /\ IsFiniteSet(rows) /\ rows = 1..Cardinality(rows)
    /\ vectors \subseteq rows
    /\ \A t \in Thread :
        /\ pc[t] = "commit" => open = {Cardinality(rows) + 1}
        /\ pc[t] = "index" => rows # {}
        /\ answer[t].vectors \subseteq rows

EngineInvariant == TypeOK /\ LockInv /\ UseInv /\ RowsInv
=============================================================================
