------------------------- MODULE AtomicEngineProofs -------------------------
(***************************************************************************)
(* RetrievalEngine implements AtomicEngine, for any threads, pools and     *)
(* operations: every call of the shared engine takes effect at one moment. *)
(***************************************************************************)
EXTENDS RetrievalEngineProofs, MCRetrievalEngine

Ingesting == {"insert", "commit", "index", "save"}

\* Which operation a thread is in, where it is, and what it has still to search.
CallOf(t) ==
    /\ pc[t] \in {"load", "attach"} => op[t] = "load_embedding_model"
    /\ pc[t] \in Ingesting => op[t] \in {"add_documents", "add_text"}
    /\ pc[t] = "embed" => op[t] \in RawText
    /\ pc[t] \in {"load", "lock", "model", "embed"} =>
         op[t] \in Operation /\ todo[t] = Parts[op[t]] \cap {"rows", "vectors"}
    /\ pc[t] \in Reading => op[t] \in Reads /\ todo[t] \subseteq Parts[op[t]]
    /\ pc[t] \in {"search", "resolve"} => "vectors" \in todo[t]
    /\ pc[t] = "leave" => ended[t] \in {"returned", "thrown"}

\* What a thread embeds with is the model attached, and stays attached until the
\* call ends; what it is to attach is new.
ModelOf(t) ==
    /\ pc[t] = "embed" => using[t] = embedder /\ embedder # {}
    /\ pc[t] \in Reading \cup Ingesting /\ op[t] \in RawText => embedder # {}
    /\ pc[t] \in {"lock", "attach"} /\ op[t] = "load_embedding_model" =>
         \E m \in Model : local[t] = {m}
    /\ local[t] \cap embedder = {}

\* The parts that are still to be found.
Missing(t) == IF pc[t] = "resolve" THEN todo[t] \ {"vectors"} ELSE todo[t]

Finds(t, p, now) ==
    answer[t][p] = IF p \in Parts[op[t]] \ Missing(t) THEN now ELSE {}

\* What a reader has found is still so; nobody else has found anything.
AnswerOf(t) ==
    /\ pc[t] \in Reading => /\ Finds(t, "rows", rows)
                            /\ Finds(t, "vectors", vectors)
                            /\ Finds(t, "model", embedder)
    /\ pc[t] \notin Reading \cup {"leave"} => \A p \in Part : answer[t][p] = {}

CallInv == \A t \in Thread : CallOf(t)

ModelInv ==
    /\ \A t \in Thread : ModelOf(t)
    /\ \A t, u \in Thread : t # u => local[t] \cap local[u] = {}

AnswerInv == \A t \in Thread : AnswerOf(t)

\* A transaction is open only in the thread that commits it next; what is saved
\* has been indexed.
StoreInv ==
    /\ open # {} => \E t \in Thread : pc[t] = "commit"
    /\ \A t \in Thread : pc[t] = "save" => Newest \subseteq vectors

AtomicInvariant == EngineInvariant /\ CallInv /\ ModelInv /\ StoreInv /\ AnswerInv

-----------------------------------------------------------------------------
(* What a thread's step does, and to whom. *)

Acts(t) == Step(t) \/ \E o \in Called : Call(t, o)

Untouched(u) ==
    /\ pc'[u] = pc[u] /\ op'[u] = op[u] /\ todo'[u] = todo[u]
    /\ answer'[u] = answer[u] /\ ended'[u] = ended[u]
    /\ using'[u] = using[u] /\ local'[u] = local[u]

LEMMA Elsewhere ==
    ASSUME TypeOK, NEW t \in Thread, Acts(t), NEW u \in Thread, u # t
    PROVE  Untouched(u)
<1> USE DEF TypeOK, mutex, pools, store, model, request, result
<1>1. CASE \E o \in Called : Call(t, o)
  BY <1>1 DEF Call, Goto, Untouched
<1>2. CASE LeaveSlot(t) \/ LeaveConnection(t) \/ Unlock(t) \/ LockShared(t) \/ LockExclusive(t)
  BY <1>2 DEF LeaveSlot, LeaveConnection, Unlock, LockShared, LockExclusive, Goto, Untouched
<1>3. CASE HasEmbeddingModel(t) \/ RequireEmbedder(t) \/ Embed(t) \/ Load(t) \/ Attach(t)
  BY <1>3 DEF HasEmbeddingModel, RequireEmbedder, Embed, Load, Attach, Done, Goto, Untouched
<1>4. CASE AcquireConnection(t) \/ ReadRows(t) \/ AcquireSlot(t) \/ Search(t) \/ Resolve(t)
             \/ Answer(t)
  BY <1>4 DEF AcquireConnection, ReadRows, AcquireSlot, Search, Resolve, Answer, Done, Goto,
              Untouched
<1>5. CASE Insert(t) \/ Commit(t) \/ Index(t) \/ Save(t)
  BY <1>5 DEF Insert, Commit, Index, Save, Done, Goto, Untouched
<1>6. CASE Throws(t)
  BY <1>6 DEF Throws, NoModelAttached, EmbedFails, LoadFails, ReadFails, InsertFails,
              IndexOrSaveFails, Throw, Goto, Untouched
<1> QED BY <1>1, <1>2, <1>3, <1>4, <1>5, <1>6 DEF Acts, Step, Throws

\* What is shared changes in four places, all of them under the exclusive lock.
LEMMA SharedShape ==
    ASSUME NEW t \in Thread, Acts(t)
    PROVE  /\ rows' # rows => Commit(t)
           /\ vectors' # vectors => Index(t)
           /\ embedder' # embedder => Attach(t)
           /\ open' # open => Insert(t) \/ Commit(t) \/ InsertFails(t)
<1> USE DEF mutex, pools, store, model, request, result
<1>1. CASE \E o \in Called : Call(t, o)
  BY <1>1 DEF Call
<1>2. CASE LeaveSlot(t) \/ LeaveConnection(t) \/ Unlock(t) \/ LockShared(t) \/ LockExclusive(t)
  BY <1>2 DEF LeaveSlot, LeaveConnection, Unlock, LockShared, LockExclusive
<1>3. CASE HasEmbeddingModel(t) \/ RequireEmbedder(t) \/ Embed(t) \/ Load(t) \/ Attach(t)
  BY <1>3 DEF HasEmbeddingModel, RequireEmbedder, Embed, Load, Attach
<1>4. CASE AcquireConnection(t) \/ ReadRows(t) \/ AcquireSlot(t) \/ Search(t) \/ Resolve(t)
             \/ Answer(t)
  BY <1>4 DEF AcquireConnection, ReadRows, AcquireSlot, Search, Resolve, Answer
<1>5. CASE Insert(t) \/ Commit(t) \/ Index(t) \/ Save(t)
  BY <1>5 DEF Insert, Commit, Index, Save
<1>6. CASE Throws(t)
  BY <1>6 DEF Throws, NoModelAttached, EmbedFails, LoadFails, ReadFails, InsertFails,
              IndexOrSaveFails, Throw
<1> QED BY <1>1, <1>2, <1>3, <1>4, <1>5, <1>6 DEF Acts, Step, Throws

\* The step of a thread that holds the lock exclusively finds no other inside.
LEMMA WriterAlone ==
    ASSUME EngineInvariant, NEW t \in Thread, pc[t] \in Writing,
           NEW u \in Thread, u # t
    PROVE  pc[u] \in {"idle", "load", "lock", "leave"}
  BY DEF EngineInvariant, TypeOK, LockInv, Control, Reading, Writing

\* What an operation does first is what its kind of operation does.
LEMMA FirstShape ==
    \A o \in Operation :
        /\ First(o) = "connect" => o \in Reads /\ Parts[o] \subseteq {"rows", "vectors"}
                                     /\ o \notin RawText
        /\ First(o) = "attach" => o = "load_embedding_model"
        /\ First(o) = "insert" => o = "add_documents" /\ o \notin RawText
  BY DEF First, Operation, Reads, Writes, RawText, Parts

-----------------------------------------------------------------------------
LEMMA InitAtomic == Init => AtomicInvariant
<1> SUFFICES ASSUME Init PROVE AtomicInvariant
  OBVIOUS
<1>1. CallInv /\ ModelInv /\ StoreInv
  BY DEF Init, CallInv, CallOf, ModelInv, ModelOf, StoreInv, Reading, Ingesting
<1>2. AnswerInv
  BY DEF Init, AnswerInv, AnswerOf, NoAnswer, Reading
<1> QED BY <1>1, <1>2, InitEngine DEF AtomicInvariant

LEMMA CallStep ==
    ASSUME TypeOK, CallInv, NEW t \in Thread, Acts(t)
    PROVE  CallInv'
<1>1. ASSUME NEW u \in Thread, u # t PROVE CallOf(u)'
  <2>1. Untouched(u) /\ CallOf(u)
    BY <1>1, Elsewhere DEF CallInv
  <2> QED BY <2>1 DEF Untouched, CallOf
<1>2. CallOf(t)'
  <2>0. CallOf(t)
    BY DEF CallInv
  <2> USE DEF TypeOK, mutex, pools, store, model, request, result, CallOf, Goto, Ingesting,
              Reading
  <2>1. ASSUME NEW o \in Called, Call(t, o) PROVE CallOf(t)'
    <3>1. /\ pc'[t] \in {"load", "lock"} /\ op'[t] = o
          /\ todo'[t] = Parts[o] \cap {"rows", "vectors"}
          /\ pc'[t] = "load" => o = "load_embedding_model"
      BY <2>1 DEF Call
    <3>2. o \in Operation
      BY EngineAssumption
    <3> QED BY <3>1, <3>2
  <2>2. CASE LeaveSlot(t) \/ LeaveConnection(t)
    BY <2>0, <2>2 DEF LeaveSlot, LeaveConnection
  <2>3. CASE Unlock(t)
    BY <2>3 DEF Unlock
  <2>4. CASE LockShared(t) \/ LockExclusive(t)
    <3>1. /\ pc'[t] = First(op[t]) /\ op' = op /\ todo' = todo
          /\ op[t] \in Operation /\ todo[t] = Parts[op[t]] \cap {"rows", "vectors"}
      BY <2>0, <2>4 DEF LockShared, LockExclusive
    <3>2. First(op[t]) \in {"connect", "model", "insert", "attach"}
      BY <3>1, FirstByMode DEF Operation
    <3> QED BY <3>1, <3>2, FirstShape
  <2>5. CASE HasEmbeddingModel(t) \/ Attach(t) \/ Answer(t) \/ Save(t)
    BY <2>5 DEF HasEmbeddingModel, Attach, Answer, Save, Done
  <2>6. CASE RequireEmbedder(t) \/ Load(t)
    BY <2>0, <2>6 DEF RequireEmbedder, Load
  <2>7. CASE Embed(t)
    <3>1. /\ op' = op /\ todo' = todo /\ op[t] \in Operation
          /\ todo[t] \subseteq Parts[op[t]]
          /\ \/ pc'[t] = "leave" /\ ended'[t] = "returned"
             \/ pc'[t] = "connect" /\ op[t] \in Reads
             \/ pc'[t] = "insert" /\ op[t] = "add_text"
      BY <2>0, <2>7 DEF Embed, Done, Reads
    <3> QED BY <3>1
  <2>8. CASE AcquireConnection(t) \/ AcquireSlot(t) \/ Search(t)
    BY <2>0, <2>8 DEF AcquireConnection, AcquireSlot, Search
  <2>9. CASE ReadRows(t) \/ Resolve(t)
    BY <2>0, <2>9 DEF ReadRows, Resolve
  <2>10. CASE Insert(t) \/ Commit(t) \/ Index(t)
    BY <2>0, <2>10 DEF Insert, Commit, Index
  <2>11. CASE Throws(t)
    <3>1. pc'[t] = "leave" /\ ended'[t] = "thrown"
      BY <2>11 DEF Throws, NoModelAttached, EmbedFails, LoadFails, ReadFails, InsertFails,
                   IndexOrSaveFails, Throw
    <3> QED BY <3>1
  <2> QED BY <2>1, <2>2, <2>3, <2>4, <2>5, <2>6, <2>7, <2>8, <2>9, <2>10, <2>11
          DEF Acts, Step, Throws
<1> QED BY <1>1, <1>2 DEF CallInv

LEMMA ModelStep ==
    ASSUME EngineInvariant, CallInv, ModelInv, NEW t \in Thread, Acts(t)
    PROVE  ModelInv'
<1>0. TypeOK /\ CallOf(t) /\ ModelOf(t)
  BY DEF EngineInvariant, CallInv, ModelInv
<1> USE DEF mutex, pools, store, model, request, result
\* Load brings an object that nobody has, Attach moves one.
<1>1. \/ embedder' = embedder /\ local'[t] = local[t]
      \/ /\ Load(t) /\ embedder' = embedder
         /\ \E m \in Model : /\ local'[t] = {m} /\ m \notin embedder
                             /\ \A u \in Thread : m \notin local[u]
      \/ Attach(t) /\ embedder' = local[t] /\ local'[t] = {}
  <2>1. CASE Load(t)
    <3>1. PICK m \in Model \ (embedder \cup UNION { local[u] \cup using[u] : u \in Thread }) :
            local' = [local EXCEPT ![t] = {m}]
      BY <2>1 DEF Load
    <3>2. local'[t] = {m} /\ embedder' = embedder
      BY <1>0, <2>1, <3>1 DEF Load, TypeOK
    <3>3. m \notin embedder /\ \A u \in Thread : m \notin local[u]
      OBVIOUS
    <3> QED BY <2>1, <3>2, <3>3
  <2>2. CASE Attach(t)
    BY <1>0, <2>2 DEF Attach, TypeOK
  <2>3. CASE ~Load(t) /\ ~Attach(t)
    <3>1. embedder' = embedder
      BY <2>3, SharedShape
    <3>2. local' = local
      BY <2>3 DEF Acts, Step, Call, LeaveSlot, LeaveConnection, Unlock, LockShared,
         LockExclusive, HasEmbeddingModel, RequireEmbedder, Embed, AcquireConnection,
         ReadRows, AcquireSlot, Search, Resolve, Answer, Insert, Commit, Index, Save,
         NoModelAttached, EmbedFails, LoadFails, ReadFails, InsertFails, IndexOrSaveFails
    <3> QED BY <3>1, <3>2
  <2> QED BY <2>1, <2>2, <2>3
<1>2. \A u \in Thread : u # t => local'[u] = local[u]
  BY <1>0, Elsewhere DEF Untouched
<1>3. \A u, v \in Thread : u # v => local'[u] \cap local'[v] = {}
  <2> SUFFICES ASSUME NEW u \in Thread, NEW v \in Thread, u # v
               PROVE  local'[u] \cap local'[v] = {}
    OBVIOUS
  <2>1. local[u] \cap local[v] = {}
    BY DEF ModelInv
  <2> QED BY <1>1, <1>2, <2>1
<1>4. \A u \in Thread : local'[u] \cap embedder' = {}
  <2> SUFFICES ASSUME NEW u \in Thread PROVE local'[u] \cap embedder' = {}
    OBVIOUS
  <2>1. local[u] \cap embedder = {} /\ (u # t => local[u] \cap local[t] = {})
    BY DEF ModelInv, ModelOf
  <2> QED BY <1>1, <1>2, <2>1
<1>5. ASSUME NEW u \in Thread, u # t PROVE ModelOf(u)'
  <2>1. Untouched(u) /\ ModelOf(u) /\ local'[u] \cap embedder' = {}
    BY <1>0, <1>4, <1>5, Elsewhere DEF ModelInv
  <2>2. CASE embedder' = embedder
    BY <2>1, <2>2 DEF Untouched, ModelOf
  <2>3. CASE Attach(t)
    <3>1. pc[u] \in {"idle", "load", "lock", "leave"}
      BY <1>5, <2>3, WriterAlone DEF Attach, Writing
    <3> QED BY <2>1, <3>1 DEF Untouched, ModelOf, Reading, Ingesting
  <2> QED BY <1>1, <2>2, <2>3
<1>6. ModelOf(t)'
  <2>0. local'[t] \cap embedder' = {}
    BY <1>4
  <2> USE <1>0, <2>0 DEF TypeOK, CallOf, ModelOf, Goto, Ingesting, Reading
  <2>1. ASSUME NEW o \in Called, Call(t, o) PROVE ModelOf(t)'
    <3>1. /\ pc'[t] \in {"load", "lock"} /\ op'[t] = o
          /\ pc'[t] = "lock" => o # "load_embedding_model"
      BY <2>1 DEF Call
    <3> QED BY <3>1
  <2>2. CASE LeaveSlot(t) \/ LeaveConnection(t) \/ Unlock(t)
    <3>1. pc'[t] \in {"leave", "idle"}
      BY <2>2 DEF LeaveSlot, LeaveConnection, Unlock
    <3> QED BY <3>1
  <2>3. CASE LockShared(t) \/ LockExclusive(t)
    <3>1. /\ pc[t] = "lock" /\ pc'[t] = First(op[t]) /\ op' = op /\ op[t] \in Operation
          /\ UNCHANGED <<embedder, using, local>>
      BY <2>3 DEF LockShared, LockExclusive
    <3>2. First(op[t]) \in {"connect", "model", "insert", "attach"}
      BY <3>1, FirstByMode DEF Operation
    <3>3. CASE First(op[t]) = "attach"
      BY <3>1, <3>3, FirstShape
    <3>4. CASE First(op[t]) \in {"connect", "insert"}
      BY <3>1, <3>4, FirstShape
    <3>5. CASE First(op[t]) = "model"
      BY <3>1, <3>5
    <3> QED BY <3>2, <3>3, <3>4, <3>5
  <2>4. CASE HasEmbeddingModel(t) \/ Attach(t) \/ Answer(t) \/ Save(t) \/ Throws(t)
    <3>1. pc'[t] = "leave"
      BY <2>4 DEF HasEmbeddingModel, Attach, Answer, Save, Done, Throws, NoModelAttached,
                  EmbedFails, LoadFails, ReadFails, InsertFails, IndexOrSaveFails, Throw
    <3> QED BY <3>1
  <2>5. CASE RequireEmbedder(t)
    BY <2>5 DEF RequireEmbedder
  <2>6. CASE Load(t)
    <3>1. pc'[t] = "lock" /\ op' = op /\ \E m \in Model : local'[t] = {m}
      BY <2>6 DEF Load
    <3> QED BY <3>1
  <2>7. CASE Embed(t)
    <3>1. /\ pc'[t] \in {"leave", "connect", "insert"} /\ pc[t] = "embed"
          /\ UNCHANGED <<embedder, local, op>>
      BY <2>7 DEF Embed, Done
    <3> QED BY <3>1
  <2>8. CASE \/ AcquireConnection(t) \/ ReadRows(t) \/ AcquireSlot(t) \/ Search(t)
             \/ Resolve(t)
    <3>1. /\ pc'[t] \in {"read", "search", "resolve"} /\ pc[t] \in Reading
          /\ UNCHANGED <<embedder, local, op>>
      BY <2>8 DEF AcquireConnection, ReadRows, AcquireSlot, Search, Resolve
    <3> QED BY <3>1
  <2>9. CASE Insert(t) \/ Commit(t) \/ Index(t)
    <3>1. /\ pc'[t] \in Ingesting /\ pc[t] \in Ingesting
          /\ UNCHANGED <<embedder, local, op>>
      BY <2>9 DEF Insert, Commit, Index
    <3>2. pc'[t] \in {"commit", "index", "save"}
      BY <2>9 DEF Insert, Commit, Index
    <3> QED BY <3>1, <3>2
  <2> QED BY <2>1, <2>2, <2>3, <2>4, <2>5, <2>6, <2>7, <2>8, <2>9 DEF Acts, Step, Throws
<1> QED BY <1>3, <1>5, <1>6 DEF ModelInv

\* Who is about to commit commits or rolls back; who saves has indexed.
LEMMA IngestShape ==
    ASSUME TypeOK, NEW t \in Thread, Acts(t)
    PROVE  /\ pc[t] = "commit" => Commit(t) \/ InsertFails(t)
           /\ pc'[t] = "save" => Index(t)
<1> USE DEF TypeOK, Goto
<1>1. CASE \E o \in Called : Call(t, o)
  BY <1>1 DEF Call
<1>2. CASE LeaveSlot(t) \/ LeaveConnection(t) \/ Unlock(t)
  BY <1>2 DEF LeaveSlot, LeaveConnection, Unlock
<1>3. CASE LockShared(t) \/ LockExclusive(t)
  <2>1. First(op[t]) \in {"connect", "model", "insert", "attach"}
    BY <1>3, FirstByMode DEF LockShared, LockExclusive
  <2> QED BY <1>3, <2>1 DEF LockShared, LockExclusive
<1>4. CASE HasEmbeddingModel(t) \/ RequireEmbedder(t) \/ Embed(t) \/ Load(t) \/ Attach(t)
  BY <1>4 DEF HasEmbeddingModel, RequireEmbedder, Embed, Load, Attach, Done
<1>5. CASE AcquireConnection(t) \/ ReadRows(t) \/ AcquireSlot(t) \/ Search(t) \/ Resolve(t)
             \/ Answer(t)
  BY <1>5 DEF AcquireConnection, ReadRows, AcquireSlot, Search, Resolve, Answer, Done
<1>6. CASE Insert(t) \/ Commit(t) \/ Index(t) \/ Save(t)
  BY <1>6 DEF Insert, Commit, Index, Save, Done
<1>7. CASE Throws(t)
  BY <1>7 DEF Throws, NoModelAttached, EmbedFails, LoadFails, ReadFails, InsertFails,
              IndexOrSaveFails, Throw
<1> QED BY <1>1, <1>2, <1>3, <1>4, <1>5, <1>6, <1>7 DEF Acts, Step, Throws

LEMMA StoreStep ==
    ASSUME EngineInvariant, StoreInv, NEW t \in Thread, Acts(t)
    PROVE  StoreInv'
<1>0. TypeOK
  BY DEF EngineInvariant
<1>1. ASSUME open' # {} PROVE \E u \in Thread : pc'[u] = "commit"
  <2>1. CASE Insert(t)
    BY <1>0, <2>1 DEF Insert, Goto, TypeOK
  <2>2. CASE Commit(t) \/ InsertFails(t)
    BY <1>1, <2>2 DEF Commit, InsertFails
  <2>3. CASE open' = open /\ ~Commit(t) /\ ~InsertFails(t)
    <3>1. PICK u \in Thread : pc[u] = "commit"
      BY <1>1, <2>3 DEF StoreInv
    <3>2. u # t
      BY <1>0, <2>3, <3>1, IngestShape
    <3> QED BY <1>0, <3>1, <3>2, Elsewhere DEF Untouched
  <2> QED BY <2>1, <2>2, <2>3, SharedShape
<1>2. ASSUME NEW u \in Thread, pc'[u] = "save" PROVE Newest' \subseteq vectors'
  <2>1. CASE u = t
    <3>1. Index(t)
      BY <1>0, <1>2, <2>1, IngestShape
    <3>2. rows' = rows /\ vectors' = vectors \cup Newest
      BY <3>1 DEF Index
    <3> QED BY <3>2 DEF Newest
  <2>2. CASE u # t
    <3>1. pc[u] = "save"
      BY <1>0, <1>2, <2>2, Elsewhere DEF Untouched
    <3>2. pc[t] \in {"idle", "load", "lock", "leave"}
      BY <2>2, <3>1, WriterAlone DEF Writing
    <3>3. rows' = rows /\ vectors' = vectors
      BY <3>2, SharedShape DEF Commit, Index
    <3> QED BY <3>1, <3>3 DEF StoreInv, Newest
  <2> QED BY <2>1, <2>2
<1> QED BY <1>1, <1>2 DEF StoreInv

\* A reader sees the committed rows and nothing else.
LEMMA ReaderSees ==
    ASSUME EngineInvariant, StoreInv, NEW t \in Thread, pc[t] \in Reading
    PROVE  Visible = rows
<1>1. \A u \in Thread : pc[u] # "commit"
  BY DEF EngineInvariant, LockInv, Reading, Writing
<1> QED BY <1>1 DEF StoreInv, Visible

LEMMA AnswerStep ==
    ASSUME EngineInvariant, CallInv, ModelInv, StoreInv, AnswerInv,
           NEW t \in Thread, Acts(t)
    PROVE  AnswerInv'
<1>0. TypeOK /\ CallOf(t) /\ ModelOf(t) /\ AnswerOf(t)
  BY DEF EngineInvariant, CallInv, ModelInv, AnswerInv
<1>1. ASSUME NEW u \in Thread, u # t PROVE AnswerOf(u)'
  <2>1. Untouched(u) /\ AnswerOf(u)
    BY <1>0, <1>1, Elsewhere DEF AnswerInv
  <2>2. CASE UNCHANGED <<rows, vectors, embedder>>
    BY <2>1, <2>2 DEF Untouched, AnswerOf, Finds, Missing
  <2>3. CASE Commit(t) \/ Index(t) \/ Attach(t)
    <3>1. pc[u] \in {"idle", "load", "lock", "leave"}
      BY <1>1, <2>3, WriterAlone DEF Commit, Index, Attach, Writing
    <3> QED BY <2>1, <3>1 DEF Untouched, AnswerOf, Reading
  <2> QED BY <2>2, <2>3, SharedShape
<1>2. AnswerOf(t)'
  <2> USE <1>0 DEF TypeOK, mutex, pools, store, model, request, result, Goto
  \* Steps to where nothing has been found, from where nothing has.
  <2>1. ASSUME pc'[t] \notin Reading \cup {"leave"}, answer'[t] = answer[t],
               pc[t] \notin Reading \cup {"leave"}
        PROVE  AnswerOf(t)'
    BY <2>1 DEF AnswerOf
  <2>2. ASSUME pc'[t] = "leave" PROVE AnswerOf(t)'
    BY <2>2 DEF AnswerOf, Reading
  <2>3. ASSUME NEW o \in Called, Call(t, o) PROVE AnswerOf(t)'
    BY <2>1, <2>3 DEF Call, Reading
  <2>4. CASE LeaveSlot(t) \/ LeaveConnection(t)
    BY <2>2, <2>4 DEF LeaveSlot, LeaveConnection
  <2>5. CASE Unlock(t)
    <3>1. pc'[t] = "idle" /\ \A p \in Part : answer'[t][p] = {}
      BY <2>5 DEF Unlock, NoAnswer
    <3> QED BY <3>1 DEF AnswerOf, Reading
  <2>6. CASE LockShared(t) \/ LockExclusive(t)
    <3>1. /\ pc[t] = "lock" /\ pc'[t] = First(op[t]) /\ op' = op /\ todo' = todo
          /\ op[t] \in Operation /\ answer' = answer
          /\ todo[t] = Parts[op[t]] \cap {"rows", "vectors"}
      BY <2>6 DEF LockShared, LockExclusive, CallOf
    <3>2. First(op[t]) \in {"connect", "model", "insert", "attach"}
      BY <3>1, FirstByMode DEF Operation
    <3>3. \A p \in Part : answer[t][p] = {}
      BY <3>1 DEF AnswerOf, Reading
    <3>4. CASE First(op[t]) = "connect"
      <4>1. Parts[op[t]] \ todo[t] = {}
        BY <3>1, <3>4, FirstShape
      <4> QED BY <3>1, <3>3, <3>4, <4>1 DEF AnswerOf, Finds, Missing, Part, Reading
    <3>5. CASE First(op[t]) # "connect"
      BY <2>1, <3>1, <3>2, <3>5 DEF Reading
    <3> QED BY <3>4, <3>5
  <2>7. CASE HasEmbeddingModel(t) \/ Attach(t) \/ Answer(t) \/ Save(t) \/ Throws(t)
    <3>1. pc'[t] = "leave"
      BY <2>7 DEF HasEmbeddingModel, Attach, Answer, Save, Done, Throws, NoModelAttached,
                  EmbedFails, LoadFails, ReadFails, InsertFails, IndexOrSaveFails, Throw
    <3> QED BY <2>2, <3>1
  <2>8. CASE RequireEmbedder(t) \/ Load(t) \/ Insert(t) \/ Commit(t) \/ Index(t)
    <3>1. /\ pc'[t] \in {"embed", "lock", "commit", "index", "save"} /\ answer' = answer
          /\ pc[t] \in {"model", "load", "insert", "commit", "index"}
      BY <2>8 DEF RequireEmbedder, Load, Insert, Commit, Index
    <3> QED BY <2>1, <3>1 DEF Reading
  \* The model the query has been embedded with is the one attached.
  <2>9. CASE Embed(t)
    <3>1. /\ pc[t] = "embed" /\ op' = op /\ todo' = todo
          /\ UNCHANGED <<rows, vectors, embedder>> /\ using[t] = embedder
          /\ todo[t] = Parts[op[t]] \cap {"rows", "vectors"}
          /\ \A p \in Part : answer[t][p] = {}
      BY <2>9 DEF Embed, CallOf, ModelOf, AnswerOf, Reading
    <3> DEFINE S == IF "model" \in Parts[op[t]] THEN using[t] ELSE answer[t]["model"]
    <3>2. answer'[t] = [answer[t] EXCEPT !["model"] = S]
      BY <2>9 DEF Embed
    <3>3. /\ answer'[t]["model"] = IF "model" \in Parts[op[t]] THEN embedder ELSE {}
          /\ answer'[t]["rows"] = {} /\ answer'[t]["vectors"] = {}
      <4>1. S = IF "model" \in Parts[op[t]] THEN embedder ELSE {}
        BY <3>1 DEF Part
      <4> HIDE DEF S
      <4> QED BY <3>1, <3>2, <4>1 DEF Part
    <3> HIDE DEF S
    <3>4. \/ pc'[t] = "leave"
          \/ pc'[t] = "connect"
          \/ pc'[t] = "insert" /\ op[t] = "add_text"
      BY <2>9 DEF Embed, Done
    <3>5. CASE pc'[t] = "connect"
      BY <3>1, <3>3, <3>5 DEF AnswerOf, Finds, Missing, Reading
    <3>6. CASE pc'[t] = "insert" /\ op[t] = "add_text"
      <4>1. "model" \notin Parts[op[t]]
        BY <3>6 DEF Parts, Operation, Writes
      <4> QED BY <3>3, <3>6, <4>1 DEF AnswerOf, Reading, Part
    <3> QED BY <2>2, <3>4, <3>5, <3>6
  <2>10. CASE AcquireConnection(t) \/ AcquireSlot(t)
    <3>1. /\ pc[t] \in {"connect", "read"} /\ pc'[t] \in {"read", "search"}
          /\ UNCHANGED <<op, todo, answer, rows, vectors, embedder>>
      BY <2>10 DEF AcquireConnection, AcquireSlot
    <3> QED BY <3>1 DEF AnswerOf, Finds, Missing, Reading
  <2>11. CASE ReadRows(t)
    <3>1. /\ pc[t] = "read" /\ pc' = pc /\ op' = op /\ "rows" \in todo[t]
          /\ UNCHANGED <<rows, vectors, embedder>>
          /\ todo'[t] = todo[t] \ {"rows"} /\ todo[t] \subseteq Parts[op[t]]
          /\ answer'[t] = [answer[t] EXCEPT !["rows"] = Visible]
      BY <2>11 DEF ReadRows, CallOf, Reading
    <3>2. Visible = rows
      BY <3>1, ReaderSees DEF Reading
    <3>3. /\ answer'[t]["rows"] = rows /\ answer'[t]["vectors"] = answer[t]["vectors"]
          /\ answer'[t]["model"] = answer[t]["model"]
      BY <3>1, <3>2 DEF Part
    <3>4. /\ Finds(t, "rows", rows) /\ Finds(t, "vectors", vectors)
          /\ Finds(t, "model", embedder)
      BY <3>1 DEF AnswerOf, Reading
    <3> QED BY <3>1, <3>3, <3>4 DEF AnswerOf, Finds, Missing, Reading
  <2>12. CASE Search(t)
    <3>1. /\ pc[t] = "search" /\ pc'[t] = "resolve" /\ UNCHANGED <<op, todo>>
          /\ UNCHANGED <<rows, vectors, embedder>>
          /\ "vectors" \in todo[t] /\ todo[t] \subseteq Parts[op[t]]
          /\ answer'[t] = [answer[t] EXCEPT !["vectors"] = vectors]
      BY <2>12 DEF Search, CallOf, Reading
    <3>2. /\ answer'[t]["vectors"] = vectors /\ answer'[t]["rows"] = answer[t]["rows"]
          /\ answer'[t]["model"] = answer[t]["model"]
      BY <3>1 DEF Part
    <3>3. Finds(t, "rows", rows) /\ Finds(t, "model", embedder)
      BY <3>1 DEF AnswerOf, Reading
    <3> QED BY <3>1, <3>2, <3>3 DEF AnswerOf, Finds, Missing, Reading
  <2>13. CASE Resolve(t)
    <3>1. /\ pc[t] = "resolve" /\ pc'[t] = "read" /\ UNCHANGED <<op, answer>>
          /\ UNCHANGED <<rows, vectors, embedder>>
          /\ todo'[t] = todo[t] \ {"vectors"}
      BY <2>13 DEF Resolve
    <3> QED BY <3>1 DEF AnswerOf, Finds, Missing, Reading
  <2> QED
    BY <2>3, <2>4, <2>5, <2>6, <2>7, <2>8, <2>9, <2>10, <2>11, <2>12, <2>13
    DEF Acts, Step, Throws
<1> QED BY <1>1, <1>2 DEF AnswerInv

\* What every thread has found, while it holds the lock, is the present state.
THEOREM AnswersAreCurrent == Spec => []AtomicInvariant
<1>1. AtomicInvariant /\ [Next]_vars => AtomicInvariant'
  <2> SUFFICES ASSUME AtomicInvariant, [Next]_vars PROVE AtomicInvariant'
    OBVIOUS
  <2>1. EngineInvariant'
    BY TypeStep, LockStep, UseStep, RowsStep DEF AtomicInvariant, EngineInvariant
  <2>2. ASSUME NEW t \in Thread, Acts(t)
        PROVE  CallInv' /\ ModelInv' /\ StoreInv' /\ AnswerInv'
    BY <2>2, CallStep, ModelStep, StoreStep, AnswerStep DEF AtomicInvariant, EngineInvariant
  <2>3. UNCHANGED vars => CallInv' /\ ModelInv' /\ StoreInv' /\ AnswerInv'
    <3> SUFFICES ASSUME UNCHANGED vars PROVE CallInv' /\ ModelInv' /\ StoreInv' /\ AnswerInv'
      OBVIOUS
    <3> USE DEF vars, mutex, pools, store, model, request, result, AtomicInvariant
    <3>1. CallInv'
      BY DEF CallInv, CallOf
    <3>2. ModelInv' /\ StoreInv'
      BY DEF ModelInv, ModelOf, StoreInv, Newest
    <3>3. AnswerInv'
      BY DEF AnswerInv, AnswerOf, Finds, Missing
    <3> QED BY <3>1, <3>2, <3>3
  <2> QED BY <2>1, <2>2, <2>3 DEF AtomicInvariant, Next, Acts, Finished
<1> QED BY <1>1, InitAtomic, PTL DEF Spec

-----------------------------------------------------------------------------
(* The refinement: what the clients of AtomicEngine see of the state. *)

Stages == [t \in Thread |-> Stage(t)]

Shown(t) == IF pc[t] = "leave" THEN answer[t] ELSE NoAnswer

Answers == [t \in Thread |-> Shown(t)]

Rows == rows \ Unpublished
Vectors == vectors \ Unpublished

\* A step shows in the part of the thread that makes it.
LEMMA Views ==
    ASSUME TypeOK, TypeOK', NEW t \in Thread, Acts(t)
    PROVE  /\ Stages' = [Stages EXCEPT ![t] = Stage(t)']
           /\ Answers' = [Answers EXCEPT ![t] = Shown(t)']
           /\ op' = [op EXCEPT ![t] = op'[t]]
<1>1. \A u \in Thread : u # t => Untouched(u)
  BY Elsewhere
<1>2. \A u \in Thread : u # t => Stage(u)' = Stage(u) /\ Shown(u)' = Shown(u) /\ op'[u] = op[u]
  BY <1>1 DEF Untouched, Stage, Shown
<1>3. Stages' = [Stages EXCEPT ![t] = Stage(t)']
  BY <1>2 DEF Stages
<1>4. Answers' = [Answers EXCEPT ![t] = Shown(t)']
  BY <1>2 DEF Answers
<1>5. op' = [op EXCEPT ![t] = op'[t]]
  BY <1>2 DEF TypeOK
<1> QED BY <1>3, <1>4, <1>5

\* Nothing is unpublished beside a thread inside the lock that does not publish.
LEMMA AllPublished ==
    ASSUME EngineInvariant, NEW t \in Thread,
           pc[t] \in (Reading \cup Writing \cup {"model", "embed"}) \ {"index", "save"}
    PROVE  Unpublished = {}
  BY DEF EngineInvariant, LockInv, Reading, Writing, Unpublished

LEMMA PublishedStays ==
    ASSUME TypeOK, NEW t \in Thread, Acts(t), UNCHANGED rows,
           pc[t] \notin {"index", "save"}, pc'[t] \notin {"index", "save"}
    PROVE  Unpublished' = Unpublished
<1>1. \A u \in Thread : u # t => pc'[u] = pc[u]
  BY Elsewhere DEF Untouched
<1>2. Newest' = Newest
  BY DEF Newest
<1>3. (\E u \in Thread : pc'[u] \in {"index", "save"})
         <=> \E u \in Thread : pc[u] \in {"index", "save"}
  BY <1>1
<1> QED BY <1>2, <1>3 DEF Unpublished

\* The writer's row is the last one.
LEMMA TheNewest ==
    ASSUME EngineInvariant, StoreInv, NEW t \in Thread, pc[t] \in {"index", "save"}
    PROVE  /\ Unpublished = Newest /\ Newest \subseteq rows
           /\ Newest = {Cardinality(Rows) + 1}
<1>1. Unpublished = Newest
  BY DEF Unpublished
<1>2. rows = 1..Cardinality(rows) /\ Cardinality(rows) \in Nat /\ IsFiniteSet(rows)
  BY FS_CardinalityType DEF EngineInvariant, RowsInv
<1>3. rows # {}
  <2>1. CASE pc[t] = "index"
    BY <2>1 DEF EngineInvariant, RowsInv
  <2>2. CASE pc[t] = "save"
    <3>1. Newest \subseteq rows
      BY <2>2 DEF EngineInvariant, RowsInv, StoreInv
    <3> QED BY <3>1 DEF Newest
  <2> QED BY <2>1, <2>2
<1>4. Cardinality(rows) \in rows
  BY <1>2, <1>3
<1>5. Cardinality(rows \ {Cardinality(rows)}) = Cardinality(rows) - 1
  BY <1>2, <1>4, FS_RemoveElement
<1> QED BY <1>1, <1>2, <1>4, <1>5 DEF Newest, Rows

-----------------------------------------------------------------------------
(* Every step of the engine is a step of AtomicEngine, or shows nothing. *)

LEMMA SameOperations ==
    /\ Engine!Operation = Operation /\ Engine!Reads = Reads /\ Engine!RawText = RawText
    /\ Engine!Part = Part /\ Engine!Parts = Parts /\ Engine!NoAnswer = NoAnswer
<1>1. Engine!Reads = Reads /\ Engine!RawText = RawText /\ Engine!Part = Part
  BY DEF Engine!Reads, Reads, Engine!RawText, RawText, Engine!Part, Part
<1>2. Engine!Operation = Operation
  BY <1>1 DEF Engine!Operation, Operation, Engine!Writes, Writes
<1>3. Engine!Parts = Parts
  BY <1>2 DEF Engine!Parts, Parts
<1>4. Engine!NoAnswer = NoAnswer
  BY <1>1 DEF Engine!NoAnswer, NoAnswer
<1> QED BY <1>1, <1>2, <1>3, <1>4

LEMMA Stutters ==
    ASSUME TypeOK, TypeOK', NEW t \in Thread, Acts(t),
           Stage(t)' = Stage(t), Shown(t)' = Shown(t), UNCHANGED <<op, embedder, Rows, Vectors>>
    PROVE  UNCHANGED Engine!vars
<1>1. Stages' = Stages
  BY Views DEF Stages
<1>2. Answers' = Answers
  BY Views DEF Answers
<1> QED BY <1>1, <1>2 DEF Engine!vars, Stages, Answers, Shown, Rows, Vectors

LEMMA SameCardinality == \A S : Engine!Cardinality(S) = Cardinality(S)
  BY DEF Engine!Cardinality, Cardinality

LEMMA CallMaps ==
    ASSUME TypeOK, TypeOK', NEW t \in Thread, NEW o \in Called, Call(t, o)
    PROVE  Engine!Call(t)
<1>1. Acts(t) /\ o \in Operation
  BY EngineAssumption DEF Acts
<1>2. /\ pc[t] = "idle" /\ pc'[t] \in {"load", "lock"} /\ op' = [op EXCEPT ![t] = o]
      /\ UNCHANGED <<rows, vectors, embedder>>
  BY DEF Call, Goto, TypeOK, store, model
<1>3. Rows' = Rows /\ Vectors' = Vectors
  BY <1>1, <1>2, PublishedStays DEF Rows, Vectors
<1>4. Stages[t] = "none" /\ Stage(t)' = "called" /\ Shown(t) = NoAnswer /\ Shown(t)' = NoAnswer
  BY <1>2 DEF Stages, Stage, Shown
<1>5. Stages' = [Stages EXCEPT ![t] = "called"]
  BY <1>1, <1>4, Views
<1>6. Answers' = Answers
  BY <1>1, <1>4, Views DEF Answers
<1> QED BY <1>1, <1>2, <1>3, <1>4, <1>5, <1>6, SameOperations
        DEF Engine!Call, Stages, Answers, Shown, Rows, Vectors

LEMMA EndMaps ==
    ASSUME TypeOK, TypeOK', CallInv, NEW t \in Thread, Unlock(t)
    PROVE  Engine!End(t)
<1>1. Acts(t)
  BY DEF Acts, Step
<1>2. /\ pc[t] = "leave" /\ pc'[t] = "idle" /\ op' = [op EXCEPT ![t] = "none"]
      /\ UNCHANGED <<rows, vectors, embedder>>
  BY DEF Unlock, Goto, TypeOK, store, model
<1>3. Rows' = Rows /\ Vectors' = Vectors
  BY <1>1, <1>2, PublishedStays DEF Rows, Vectors
<1>4. /\ Stages[t] \in {"returned", "thrown"}
      /\ Stage(t)' = "none" /\ Shown(t)' = NoAnswer
  BY <1>2 DEF Stages, Stage, Shown, CallInv, CallOf
<1>5. /\ Stages' = [Stages EXCEPT ![t] = "none"]
      /\ Answers' = [Answers EXCEPT ![t] = NoAnswer]
  BY <1>1, <1>4, Views
<1> QED BY <1>2, <1>3, <1>4, <1>5, SameOperations
        DEF Engine!End, Engine!Becomes, Stages, Answers, Shown, Rows, Vectors

\* Throwing before COMMIT changes nothing.
LEMMA ThrowMaps ==
    ASSUME AtomicInvariant, TypeOK', NEW t \in Thread,
           Throws(t), ~IndexOrSaveFails(t)
    PROVE  Engine!Throw(t)
<1>0. TypeOK
  BY DEF AtomicInvariant, EngineInvariant
<1>1. Acts(t)
  BY DEF Acts, Step, Throws
<1>2. /\ pc[t] \notin {"idle", "leave", "index", "save"} /\ pc'[t] = "leave"
      /\ ended'[t] = "thrown" /\ answer'[t] = NoAnswer
      /\ UNCHANGED <<op, rows, vectors, embedder>>
  BY <1>0 DEF Throws, NoModelAttached, EmbedFails, LoadFails, ReadFails, InsertFails, Throw,
              Goto, TypeOK, store, request
<1>3. Rows' = Rows /\ Vectors' = Vectors
  BY <1>0, <1>1, <1>2, PublishedStays DEF Rows, Vectors
<1>4. /\ Stages[t] = "called" /\ Stage(t)' = "thrown"
      /\ Shown(t) = NoAnswer /\ Shown(t)' = NoAnswer
  BY <1>2 DEF Stages, Stage, Shown
<1>5. Stages' = [Stages EXCEPT ![t] = "thrown"]
  BY <1>0, <1>1, <1>4, Views
<1>6. Answers' = Answers
  BY <1>0, <1>1, <1>4, Views DEF Answers
<1> QED BY <1>2, <1>3, <1>4, <1>5, <1>6
        DEF Engine!Throw, Engine!Becomes, Stages, Answers, Shown, Rows, Vectors

\* An answer that is complete is of one state of the engine, the present one.
LEMMA ReadMaps ==
    ASSUME AtomicInvariant, TypeOK', NEW t \in Thread,
           \/ HasEmbeddingModel(t) \/ Answer(t)
           \/ Embed(t) /\ op[t] = "embed"
    PROVE  \E o \in Reads : Engine!Read(t, o)
<1>0. TypeOK /\ CallOf(t) /\ ModelOf(t) /\ AnswerOf(t)
  BY DEF AtomicInvariant, EngineInvariant, CallInv, ModelInv, AnswerInv
<1>1. Acts(t)
  BY DEF Acts, Step
<1>2. /\ pc[t] \in Reading \cup {"model", "embed"} /\ pc'[t] = "leave"
      /\ ended'[t] = "returned" /\ UNCHANGED <<op, rows, vectors, embedder>>
  BY <1>0 DEF HasEmbeddingModel, Answer, Embed, Done, Goto, TypeOK, Reading, store, model,
              request, result
<1>3. Unpublished = {}
  BY <1>2, AllPublished DEF AtomicInvariant, Reading
<1>4. Unpublished' = {}
  BY <1>0, <1>1, <1>2, <1>3, PublishedStays DEF Reading
<1>5. op[t] \in Reads /\ (op[t] \in RawText => embedder # {})
  BY <1>0, <1>2 DEF HasEmbeddingModel, Answer, Embed, CallOf, ModelOf, Reads, RawText, Reading
<1> DEFINE now == [rows |-> rows, vectors |-> vectors, model |-> embedder]
           Full == [p \in Part |-> IF p \in Parts[op[t]] THEN now[p] ELSE {}]
<1>6. answer'[t] = Full
  <2>0. answer'[t] \in [Part -> (SUBSET (Nat \ {0})) \cup (SUBSET Model)]
    BY DEF TypeOK
  <2>1. /\ answer'[t]["rows"] = IF "rows" \in Parts[op[t]] THEN rows ELSE {}
        /\ answer'[t]["vectors"] = IF "vectors" \in Parts[op[t]] THEN vectors ELSE {}
        /\ answer'[t]["model"] = IF "model" \in Parts[op[t]] THEN embedder ELSE {}
    <3>1. CASE Answer(t)
      <4>1. /\ pc[t] = "read" /\ todo[t] = {} /\ answer' = answer
        BY <3>1 DEF Answer
      <4> QED BY <1>0, <4>1 DEF AnswerOf, Finds, Missing, Reading
    <3>2. CASE HasEmbeddingModel(t) \/ Embed(t)
      <4>1. op[t] \in {"has_embedding_model", "embed"} /\ Parts[op[t]] = {"model"}
        <5>1. op[t] \in {"has_embedding_model", "embed"}
          BY <1>2, <3>2 DEF HasEmbeddingModel, Embed, Answer, Reading
        <5> QED BY <5>1 DEF Parts, Operation, Reads
      <4>2. \A p \in Part : answer[t][p] = {}
        BY <1>0, <3>2 DEF HasEmbeddingModel, Embed, AnswerOf, Reading
      <4>3. answer'[t] = [answer[t] EXCEPT !["model"] = embedder]
        <5>1. CASE HasEmbeddingModel(t)
          BY <1>0, <5>1 DEF HasEmbeddingModel, TypeOK
        <5>2. CASE Embed(t)
          BY <1>0, <4>1, <5>2 DEF Embed, TypeOK, ModelOf
        <5> QED BY <3>2, <5>1, <5>2
      <4> QED BY <1>0, <4>1, <4>2, <4>3 DEF Part, TypeOK
    <3> QED BY <3>1, <3>2
  <2>2. \A p \in Part : answer'[t][p] = IF p \in Parts[op[t]] THEN now[p] ELSE {}
    BY <2>1 DEF Part
  <2> HIDE DEF now
  <2> QED BY <2>0, <2>2
<1>7. /\ Stages[t] = "called" /\ Stage(t)' = "returned" /\ Shown(t)' = Full
  BY <1>2, <1>6 DEF Stages, Stage, Shown, Reading
<1>8. /\ Stages' = [Stages EXCEPT ![t] = "returned"]
      /\ Answers' = [Answers EXCEPT ![t] = Full]
  BY <1>0, <1>1, <1>7, Views
<1>9. rows \ Unpublished = rows /\ vectors \ Unpublished = vectors
  BY <1>3
<1>10. /\ rows' \ Unpublished' = rows \ Unpublished
       /\ vectors' \ Unpublished' = vectors \ Unpublished
  BY <1>2, <1>3, <1>4
<1>11. PICK o \in Reads : o = op[t]
  BY <1>5
<1>12. Engine!Read(t, o)
  <2>1. Engine!During(t, o)
    BY <1>2, <1>5, <1>7, <1>11, SameOperations DEF Engine!During, Stages
  <2>2. Engine!Becomes(t, "returned")
    BY <1>8 DEF Engine!Becomes, Stages
  <2>3. [u \in Thread |-> IF pc[u] = "leave" THEN answer[u] ELSE NoAnswer]'
          = [[u \in Thread |-> IF pc[u] = "leave" THEN answer[u] ELSE NoAnswer] EXCEPT
                ![t] = [p \in Engine!Part |->
                          IF p \in Engine!Parts[o]
                          THEN [rows |-> rows \ Unpublished, vectors |-> vectors \ Unpublished,
                                model |-> embedder][p]
                          ELSE {}]]
    BY <1>8, <1>9, <1>11, SameOperations DEF Answers, Shown
  <2> QED BY <1>2, <1>10, <2>1, <2>2, <2>3 DEF Engine!Read
<1> QED BY <1>12

\* A writer has no answer to show.
LEMMA WriterShowsNothing ==
    ASSUME TypeOK, AnswerInv, NEW t \in Thread, pc[t] \in Writing
    PROVE  answer[t] = NoAnswer
<1>1. \A p \in Part : answer[t][p] = {}
  BY DEF AnswerInv, AnswerOf, Reading, Writing
<1> QED BY <1>1 DEF TypeOK, NoAnswer

LEMMA AttachMaps ==
    ASSUME AtomicInvariant, TypeOK', NEW t \in Thread, Attach(t)
    PROVE  Engine!Attach(t)
<1>0. TypeOK /\ CallOf(t) /\ ModelOf(t) /\ AnswerOf(t)
  BY DEF AtomicInvariant, EngineInvariant, CallInv, ModelInv, AnswerInv
<1>1. Acts(t)
  BY DEF Acts, Step
<1>2. /\ pc[t] = "attach" /\ pc'[t] = "leave" /\ op[t] = "load_embedding_model"
      /\ ended'[t] = "returned" /\ answer' = answer /\ UNCHANGED <<op, rows, vectors>>
      /\ embedder' = local[t]
  BY <1>0 DEF Attach, Done, Goto, TypeOK, CallOf, store, request
<1>3. \E m \in Model \ embedder : embedder' = {m}
  BY <1>0, <1>2 DEF ModelOf
<1>4. answer[t] = NoAnswer
  BY <1>0, <1>2, WriterShowsNothing DEF AtomicInvariant, Writing
<1>5. Rows' = Rows /\ Vectors' = Vectors
  BY <1>0, <1>1, <1>2, PublishedStays DEF Rows, Vectors
<1>6. /\ Stages[t] = "called" /\ Stage(t)' = "returned"
      /\ Shown(t) = NoAnswer /\ Shown(t)' = NoAnswer
  BY <1>2, <1>4 DEF Stages, Stage, Shown
<1>7. Stages' = [Stages EXCEPT ![t] = "returned"]
  BY <1>0, <1>1, <1>6, Views
<1>8. Answers' = Answers
  BY <1>0, <1>1, <1>6, Views DEF Answers
<1>9. "load_embedding_model" \notin RawText
  BY DEF RawText
<1> QED BY <1>2, <1>3, <1>5, <1>6, <1>7, <1>8, <1>9, SameOperations
        DEF Engine!Attach, Engine!During, Engine!Becomes, Stages, Answers, Shown, Rows, Vectors

\* The writer leaves: its row and, if it is there, its vector are published.
LEMMA IngestMaps ==
    ASSUME AtomicInvariant, TypeOK', NEW t \in Thread,
           Save(t) \/ IndexOrSaveFails(t)
    PROVE  \E o \in {"add_documents", "add_text"} : Engine!Ingest(t, o)
<1>0. TypeOK /\ EngineInvariant /\ StoreInv /\ CallOf(t) /\ ModelOf(t)
  BY DEF AtomicInvariant, EngineInvariant, CallInv, ModelInv
<1>1. Acts(t)
  BY DEF Acts, Step
<1>2. /\ pc[t] \in {"index", "save"} /\ pc'[t] = "leave"
      /\ UNCHANGED <<op, rows, vectors, embedder>>
      /\ \/ pc[t] = "save" /\ ended'[t] = "returned" /\ answer'[t] = answer[t]
         \/ ended'[t] = "thrown" /\ answer'[t] = NoAnswer
  BY <1>0 DEF Save, IndexOrSaveFails, Throw, Done, Goto, TypeOK, store, model, request
<1>3. PICK o \in {"add_documents", "add_text"} : o = op[t]
  BY <1>0, <1>2 DEF CallOf, Ingesting
<1>4. o \in RawText => embedder # {}
  BY <1>0, <1>2, <1>3 DEF ModelOf, Ingesting
<1>5. answer[t] = NoAnswer
  BY <1>0, <1>2, WriterShowsNothing DEF AtomicInvariant, Writing
<1>6. Unpublished' = {}
  <2>1. ASSUME NEW u \in Thread, u # t PROVE pc'[u] \notin {"index", "save"}
    <3>1. pc[u] \in {"idle", "load", "lock", "leave"}
      BY <1>0, <1>2, <2>1, WriterAlone DEF Writing
    <3> QED BY <1>0, <1>1, <2>1, <3>1, Elsewhere DEF Untouched
  <2> QED BY <1>2, <2>1 DEF Unpublished
<1>7. /\ Unpublished = Newest /\ Newest \subseteq rows
      /\ Newest = {Cardinality(Rows) + 1}
  BY <1>0, <1>2, TheNewest
<1>8. Rows' = Rows \cup {Cardinality(Rows) + 1} /\ Rows' \ Rows = Newest
  BY <1>2, <1>6, <1>7 DEF Rows
<1>9. /\ Vectors' \in {Vectors, Vectors \cup Newest}
      /\ pc[t] = "save" => Vectors' = Vectors \cup Newest
  <2>1. Vectors' = vectors /\ Vectors = vectors \ Newest
    BY <1>2, <1>6, <1>7 DEF Vectors
  <2>2. pc[t] = "save" => Newest \subseteq vectors
    BY <1>0 DEF StoreInv
  <2>3. Newest \subseteq vectors \/ Newest \cap vectors = {}
    BY <1>7
  <2> QED BY <2>1, <2>2, <2>3
<1>10. /\ Stages[t] = "called" /\ Stage(t)' = ended'[t]
       /\ Shown(t) = NoAnswer /\ Shown(t)' = NoAnswer
  BY <1>2, <1>5 DEF Stages, Stage, Shown
<1>11. Stages' = [Stages EXCEPT ![t] = ended'[t]]
  BY <1>0, <1>1, <1>10, Views
<1>12. Answers' = Answers
  BY <1>0, <1>1, <1>10, Views DEF Answers
<1>13. Engine!During(t, o)
  BY <1>2, <1>3, <1>4, <1>10, SameOperations DEF Engine!During, Stages
<1>14. \/ /\ Engine!Becomes(t, "returned") /\ Vectors' = Vectors \cup (Rows' \ Rows)
       \/ /\ Engine!Becomes(t, "thrown")
          /\ Vectors' \in {Vectors, Vectors \cup (Rows' \ Rows)}
  BY <1>2, <1>8, <1>9, <1>11 DEF Engine!Becomes, Stages
<1>15. Engine!Ingest(t, o)
  <2>1. embedder' = embedder /\ Answers' = Answers /\ Rows' = Rows \cup {Cardinality(Rows) + 1}
    BY <1>2, <1>8, <1>12
  <2>2. Engine!Cardinality(Rows) = Cardinality(Rows)
    BY SameCardinality
  <2> QED BY <1>13, <1>14, <2>1, <2>2 DEF Engine!Ingest, Answers, Shown, Rows, Vectors
<1> QED BY <1>15

\* What is committed and indexed is not seen before the writer leaves.
LEMMA CommitStutters ==
    ASSUME AtomicInvariant, TypeOK', NEW t \in Thread, Commit(t) \/ Index(t)
    PROVE  UNCHANGED Engine!vars
<1>0. TypeOK /\ EngineInvariant /\ StoreInv
  BY DEF AtomicInvariant, EngineInvariant
<1>1. Acts(t)
  BY DEF Acts, Step
<1>2. /\ pc[t] \in {"commit", "index"} /\ pc'[t] \in {"index", "save"}
      /\ UNCHANGED <<op, embedder>>
  BY <1>0 DEF Commit, Index, Goto, TypeOK, model, request
<1>3. Unpublished' = Newest'
  BY <1>2 DEF Unpublished
<1>4. Rows' = Rows /\ Vectors' = Vectors
  <2>1. CASE Commit(t)
    <3>1. Cardinality(rows) \in Nat /\ IsFiniteSet(rows) /\ rows = 1..Cardinality(rows)
      BY <1>0, FS_CardinalityType DEF EngineInvariant, RowsInv
    <3>2. rows' = rows \cup {Cardinality(rows) + 1} /\ vectors' = vectors
      BY <1>0, <2>1 DEF Commit, EngineInvariant, RowsInv
    <3>3. Cardinality(rows) + 1 \notin rows
      BY <3>1
    <3>4. Cardinality(rows') = Cardinality(rows) + 1
      BY <3>1, <3>2, <3>3, FS_AddElement
    <3>5. Newest' = {Cardinality(rows) + 1}
      BY <3>4 DEF Newest
    <3>6. Unpublished = {}
      BY <1>0, <2>1, AllPublished DEF Commit, Writing
    <3>7. Cardinality(rows) + 1 \notin vectors
      BY <1>0, <3>3 DEF EngineInvariant, RowsInv
    <3> QED BY <1>3, <3>2, <3>3, <3>5, <3>6, <3>7 DEF Rows, Vectors
  <2>2. CASE Index(t)
    <3>1. rows' = rows /\ vectors' = vectors \cup Newest /\ Newest' = Newest
      BY <2>2 DEF Index, Newest
    <3>2. Unpublished = Newest
      BY <2>2 DEF Index, Unpublished
    <3> QED BY <1>3, <3>1, <3>2 DEF Rows, Vectors
  <2> QED BY <2>1, <2>2
<1>5. Stage(t)' = Stage(t) /\ Shown(t)' = Shown(t)
  BY <1>2 DEF Stage, Shown
<1> QED BY <1>0, <1>1, <1>2, <1>4, <1>5, Stutters

\* The steps inside a call that no client sees.
Inner(t) ==
    \/ LeaveSlot(t) \/ LeaveConnection(t) \/ LockShared(t) \/ LockExclusive(t)
    \/ RequireEmbedder(t) \/ Load(t) \/ (Embed(t) /\ op[t] # "embed")
    \/ AcquireConnection(t) \/ ReadRows(t) \/ AcquireSlot(t) \/ Search(t) \/ Resolve(t)
    \/ Insert(t)

LEMMA InnerStutters ==
    ASSUME TypeOK, TypeOK', NEW t \in Thread, Inner(t)
    PROVE  UNCHANGED Engine!vars
<1>1. Acts(t)
  BY DEF Acts, Step, Inner
<1>2. /\ UNCHANGED <<op, rows, vectors, embedder>>
      /\ \/ pc[t] = "leave" /\ pc' = pc /\ ended' = ended /\ answer' = answer
         \/ /\ pc[t] \notin {"idle", "leave", "index", "save"}
            /\ pc'[t] \notin {"idle", "leave", "index", "save"}
  <2> USE DEF TypeOK, store, model, request, result, Goto
  <2>1. CASE LeaveSlot(t) \/ LeaveConnection(t)
    BY <2>1 DEF LeaveSlot, LeaveConnection
  <2>2. CASE LockShared(t) \/ LockExclusive(t)
    <3>1. First(op[t]) \in {"connect", "model", "insert", "attach"}
      BY <2>2, FirstByMode DEF LockShared, LockExclusive
    <3> QED BY <2>2, <3>1 DEF LockShared, LockExclusive
  <2>3. CASE RequireEmbedder(t) \/ Load(t) \/ (Embed(t) /\ op[t] # "embed") \/ Insert(t)
    BY <2>3 DEF RequireEmbedder, Load, Embed, Insert
  <2>4. CASE \/ AcquireConnection(t) \/ ReadRows(t) \/ AcquireSlot(t) \/ Search(t)
             \/ Resolve(t)
    BY <2>4 DEF AcquireConnection, ReadRows, AcquireSlot, Search, Resolve
  <2> QED BY <2>1, <2>2, <2>3, <2>4 DEF Inner
<1>3. Stage(t)' = Stage(t) /\ Shown(t)' = Shown(t)
  BY <1>2 DEF Stage, Shown
<1>4. Rows' = Rows /\ Vectors' = Vectors
  BY <1>1, <1>2, PublishedStays DEF Rows, Vectors
<1> QED BY <1>1, <1>2, <1>3, <1>4, Stutters

LEMMA InitMaps == Init => Engine!Init
<1> SUFFICES ASSUME Init PROVE Engine!Init
  OBVIOUS
<1>1. /\ rows \ Unpublished = {} /\ vectors \ Unpublished = {} /\ embedder = {}
      /\ op = [t \in Thread |-> "none"]
  BY DEF Init
<1>2. [t \in Thread |-> Stage(t)] = [t \in Thread |-> "none"]
  BY DEF Init, Stage
<1>3. [t \in Thread |-> IF pc[t] = "leave" THEN answer[t] ELSE NoAnswer]
        = [t \in Thread |-> NoAnswer]
  BY DEF Init
<1> QED BY <1>1, <1>2, <1>3, SameOperations DEF Engine!Init

LEMMA StepMaps ==
    ASSUME AtomicInvariant, TypeOK', [Next]_vars
    PROVE  [Engine!Next]_(Engine!vars)
<1>0. TypeOK /\ CallInv
  BY DEF AtomicInvariant, EngineInvariant
<1>1. ASSUME NEW t \in Thread, NEW o \in Called, Call(t, o) PROVE Engine!Next
  <2>1. Engine!Call(t)
    BY <1>0, <1>1, CallMaps
  <2> QED BY <2>1 DEF Engine!Next
<1>2. ASSUME NEW t \in Thread, Step(t) PROVE Engine!Next \/ UNCHANGED Engine!vars
  <2>1. CASE Inner(t) \/ Commit(t) \/ Index(t)
    BY <1>0, <2>1, InnerStutters, CommitStutters
  <2>2. CASE Unlock(t)
    <3>1. Engine!End(t)
      BY <1>0, <2>2, EndMaps
    <3> QED BY <3>1 DEF Engine!Next
  <2>3. CASE Throws(t) /\ ~IndexOrSaveFails(t)
    <3>1. Engine!Throw(t)
      BY <2>3, ThrowMaps
    <3> QED BY <3>1 DEF Engine!Next
  <2>4. CASE HasEmbeddingModel(t) \/ Answer(t) \/ (Embed(t) /\ op[t] = "embed")
    <3>1. \E o \in Reads : Engine!Read(t, o)
      BY <2>4, ReadMaps
    <3> QED BY <3>1, SameOperations DEF Engine!Next
  <2>5. CASE Attach(t)
    <3>1. Engine!Attach(t)
      BY <2>5, AttachMaps
    <3> QED BY <3>1 DEF Engine!Next
  <2>6. CASE Save(t) \/ IndexOrSaveFails(t)
    <3>1. \E o \in {"add_documents", "add_text"} : Engine!Ingest(t, o)
      BY <2>6, IngestMaps
    <3> QED BY <3>1 DEF Engine!Next
  <2> QED BY <1>2, <2>1, <2>2, <2>3, <2>4, <2>5, <2>6 DEF Step, Inner, Throws
<1>3. ASSUME UNCHANGED vars PROVE UNCHANGED Engine!vars
  <2>1. UNCHANGED <<rows, vectors, embedder, op, pc, ended, answer>>
    BY <1>3 DEF vars, store, model, request, result
  <2>2. Unpublished' = Unpublished
    BY <2>1 DEF Unpublished, Newest
  <2>3. [t \in Thread |-> Stage(t)]' = [t \in Thread |-> Stage(t)]
    BY <2>1 DEF Stage
  <2> QED BY <2>1, <2>2, <2>3 DEF Engine!vars
<1> QED BY <1>1, <1>2, <1>3 DEF Next, Finished

\* One engine shared by any number of threads behaves as if every call were made
\* at one moment: an answer never mixes two states of tables, index and model.
THEOREM SharedEngineIsAtomic == Spec => ImplementsAtomicEngine
<1>1. AtomicInvariant /\ TypeOK' /\ [Next]_vars => [Engine!Next]_(Engine!vars)
  BY StepMaps
<1> QED BY <1>1, InitMaps, AnswersAreCurrent, EngineTypeCorrect, PTL
        DEF Spec, ImplementsAtomicEngine, Engine!Spec
=============================================================================
