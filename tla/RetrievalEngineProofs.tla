----------------------- MODULE RetrievalEngineProofs -----------------------
(***************************************************************************)
(* Proofs about RetrievalEngine, for any threads, pools and operations:    *)
(* readers never meet an ingest, an embedder outlives its use, and every   *)
(* hit has its row.                                                        *)
(***************************************************************************)
EXTENDS RetrievalEngine, FiniteSetTheorems, TLAPS

\* The steps that throw.
Throws(t) ==
    \/ NoModelAttached(t) \/ EmbedFails(t) \/ LoadFails(t) \/ ReadFails(t)
    \/ InsertFails(t) \/ IndexOrSaveFails(t)

LEMMA InitType == Init => TypeOK
  BY EngineAssumption
  DEF Init, TypeOK, Control, Conns!TypeOK, Slots!TypeOK, NoAnswer, Part

\* What the pools' actions do to the types of the pools.
LEMMA PoolsType ==
    ASSUME TypeOK, NEW t \in Thread
    PROVE  /\ Conns!Take(t) \/ Conns!Give(t) => Conns!TypeOK'
           /\ Slots!Take(t) \/ Slots!Give(t) => Slots!TypeOK'
<1>1. Conns!Take(t) => Conns!TypeOK'
  BY DEF TypeOK, Conns!TypeOK, Conns!Take
<1>2. Conns!Give(t) => Conns!TypeOK'
  BY DEF TypeOK, Conns!TypeOK, Conns!Give
<1>3. Slots!Take(t) => Slots!TypeOK'
  BY DEF TypeOK, Slots!TypeOK, Slots!Take
<1>4. Slots!Give(t) => Slots!TypeOK'
  BY DEF TypeOK, Slots!TypeOK, Slots!Give
<1> QED BY <1>1, <1>2, <1>3, <1>4

LEMMA PoolsUnchanged ==
    ASSUME TypeOK
    PROVE  /\ UNCHANGED <<conns, conn>> => Conns!TypeOK'
           /\ UNCHANGED <<slots, slot>> => Slots!TypeOK'
  BY DEF TypeOK, Conns!TypeOK, Slots!TypeOK

LEMMA PartsType == \A o \in Operation : Parts[o] \subseteq Part
  BY DEF Parts, Part, Operation

LEMMA FirstType == \A o \in Operation : First(o) \in Control
  BY DEF First, Control, Operation, Reads, Writes, RawText

\* One answer is extended, or forgotten.
LEMMA AnswerType ==
    ASSUME TypeOK, NEW t \in Thread, NEW p \in Part,
           NEW S \in (SUBSET (Nat \ {0})) \cup (SUBSET Model)
    PROVE  [answer EXCEPT ![t][p] = S]
              \in [Thread -> [Part -> (SUBSET (Nat \ {0})) \cup (SUBSET Model)]]
  BY DEF TypeOK

LEMMA NoAnswerType ==
    ASSUME TypeOK, NEW t \in Thread
    PROVE  [answer EXCEPT ![t] = NoAnswer]
              \in [Thread -> [Part -> (SUBSET (Nat \ {0})) \cup (SUBSET Model)]]
  BY DEF TypeOK, NoAnswer

-----------------------------------------------------------------------------
LEMMA TypeStep ==
    ASSUME EngineInvariant, [Next]_vars
    PROVE  TypeOK'
<1>0. TypeOK
  BY DEF EngineInvariant
<1> USE <1>0
<1> USE DEF mutex, pools, store, model, request, result
<1>1. ASSUME NEW t \in Thread, NEW o \in Called, Call(t, o) PROVE TypeOK'
  <2>1. o \in Operation /\ Parts[o] \cap {"rows", "vectors"} \subseteq {"rows", "vectors"}
    BY EngineAssumption
  <2>2. /\ op' \in [Thread -> Operation \cup {"none"}]
        /\ todo' \in [Thread -> SUBSET {"rows", "vectors"}]
        /\ pc' \in [Thread -> Control] /\ calls' \in 0..MaxCalls
    BY <1>1, <2>1, EngineAssumption DEF Call, Goto, TypeOK, Control
  <2> QED BY <1>1, <2>2, PoolsUnchanged DEF Call, TypeOK
<1>2. ASSUME NEW t \in Thread, LeaveSlot(t) \/ LeaveConnection(t) PROVE TypeOK'
  BY <1>2, PoolsType, PoolsUnchanged DEF LeaveSlot, LeaveConnection, TypeOK
<1>3. ASSUME NEW t \in Thread, Unlock(t) PROVE TypeOK'
  <2>1. answer' \in [Thread -> [Part -> (SUBSET (Nat \ {0})) \cup (SUBSET Model)]]
    BY <1>3, NoAnswerType DEF Unlock
  <2>2. pc' \in [Thread -> Control]
    BY <1>3 DEF Unlock, Goto, TypeOK, Control
  <2> QED BY <1>3, <2>1, <2>2, PoolsUnchanged DEF Unlock, TypeOK
<1>4. ASSUME NEW t \in Thread, LockShared(t) \/ LockExclusive(t) PROVE TypeOK'
  <2>1. First(op[t]) \in Control
    BY <1>4, FirstType DEF LockShared, LockExclusive, Operation
  <2>2. pc' \in [Thread -> Control]
    BY <1>4, <2>1 DEF LockShared, LockExclusive, Goto, TypeOK
  <2> QED BY <1>4, <2>2, PoolsUnchanged DEF LockShared, LockExclusive, TypeOK
<1>5. ASSUME NEW t \in Thread, HasEmbeddingModel(t) PROVE TypeOK'
  <2>1. answer' \in [Thread -> [Part -> (SUBSET (Nat \ {0})) \cup (SUBSET Model)]]
    <3>1. "model" \in Part /\ embedder \in (SUBSET (Nat \ {0})) \cup (SUBSET Model)
      BY DEF TypeOK, Part
    <3>2. answer' = [answer EXCEPT ![t]["model"] = embedder]
      BY <1>5 DEF HasEmbeddingModel
    <3> QED BY <3>1, <3>2, AnswerType
  <2>2. pc' \in [Thread -> Control] /\ ended' \in [Thread -> {"none", "returned", "thrown"}]
    BY <1>5 DEF HasEmbeddingModel, Done, Goto, TypeOK, Control
  <2> QED BY <1>5, <2>1, <2>2, PoolsUnchanged DEF HasEmbeddingModel, TypeOK
<1>6. ASSUME NEW t \in Thread, RequireEmbedder(t) \/ Load(t) PROVE TypeOK'
  <2>1. pc' \in [Thread -> Control]
    BY <1>6 DEF RequireEmbedder, Load, Goto, TypeOK, Control
  <2>2. CASE RequireEmbedder(t)
    <3>1. using' \in [Thread -> SUBSET Model]
      BY <2>2 DEF RequireEmbedder, TypeOK
    <3> QED BY <2>1, <2>2, <3>1, PoolsUnchanged DEF RequireEmbedder, TypeOK
  <2>3. CASE Load(t)
    <3>1. PICK m \in Model : local' = [local EXCEPT ![t] = {m}]
      BY <2>3 DEF Load
    <3>2. local' \in [Thread -> SUBSET Model]
      BY <3>1 DEF TypeOK
    <3> QED BY <2>1, <2>3, <3>2, PoolsUnchanged DEF Load, TypeOK
  <2> QED BY <1>6, <2>2, <2>3
<1>7. ASSUME NEW t \in Thread, Throw(t), open' \in {open, {}},
             UNCHANGED <<mutex, pools, path, rows, vectors, embedder, local, request>>
      PROVE  TypeOK'
  <2>1. answer' \in [Thread -> [Part -> (SUBSET (Nat \ {0})) \cup (SUBSET Model)]]
    BY <1>7, NoAnswerType DEF Throw
  <2>2. /\ pc' \in [Thread -> Control] /\ ended' \in [Thread -> {"none", "returned", "thrown"}]
        /\ using' \in [Thread -> SUBSET Model]
    BY <1>7 DEF Throw, Goto, TypeOK, Control
  <2> QED BY <1>7, <2>1, <2>2, PoolsUnchanged DEF TypeOK
<1>8. ASSUME NEW t \in Thread, Embed(t) PROVE TypeOK'
  <2>1. using[t] \in SUBSET Model /\ answer[t]["model"] \in (SUBSET (Nat \ {0})) \cup (SUBSET Model)
    BY DEF TypeOK, Part
  <2>2. answer' \in [Thread -> [Part -> (SUBSET (Nat \ {0})) \cup (SUBSET Model)]]
    <3> DEFINE S == IF "model" \in Parts[op[t]] THEN using[t] ELSE answer[t]["model"]
    <3>1. "model" \in Part /\ S \in (SUBSET (Nat \ {0})) \cup (SUBSET Model)
      BY <2>1 DEF Part
    <3>2. answer' = [answer EXCEPT ![t]["model"] = S]
      BY <1>8 DEF Embed
    <3> HIDE DEF S
    <3> QED BY <3>1, <3>2, AnswerType
  <2>3. /\ pc' \in [Thread -> Control] /\ ended' \in [Thread -> {"none", "returned", "thrown"}]
        /\ using' \in [Thread -> SUBSET Model]
    BY <1>8 DEF Embed, Done, Goto, TypeOK, Control
  <2> QED BY <1>8, <2>2, <2>3, PoolsUnchanged DEF Embed, TypeOK
<1>9. ASSUME NEW t \in Thread, Attach(t) \/ Save(t) \/ Answer(t) PROVE TypeOK'
  <2>1. pc' \in [Thread -> Control] /\ ended' \in [Thread -> {"none", "returned", "thrown"}]
    BY <1>9 DEF Attach, Save, Answer, Done, Goto, TypeOK, Control
  <2>2. embedder' \in SUBSET Model /\ local' \in [Thread -> SUBSET Model]
    BY <1>9 DEF Attach, Save, Answer, TypeOK
  <2> QED BY <1>9, <2>1, <2>2, PoolsUnchanged DEF Attach, Save, Answer, TypeOK
<1>10. ASSUME NEW t \in Thread, AcquireConnection(t) \/ AcquireSlot(t) PROVE TypeOK'
  <2>1. pc' \in [Thread -> Control]
    BY <1>10 DEF AcquireConnection, AcquireSlot, Goto, TypeOK, Control
  <2>2. Conns!TypeOK' /\ Slots!TypeOK'
    BY <1>10, PoolsType, PoolsUnchanged DEF AcquireConnection, AcquireSlot
  <2> QED BY <1>10, <2>1, <2>2 DEF AcquireConnection, AcquireSlot, TypeOK
<1>11. ASSUME NEW t \in Thread, ReadRows(t) PROVE TypeOK'
  <2>1. Visible \in SUBSET (Nat \ {0})
    BY DEF Visible, TypeOK
  <2>2. answer' \in [Thread -> [Part -> (SUBSET (Nat \ {0})) \cup (SUBSET Model)]]
    BY <1>11, <2>1, AnswerType DEF ReadRows, Part
  <2>3. todo' \in [Thread -> SUBSET {"rows", "vectors"}]
    BY <1>11 DEF ReadRows, TypeOK
  <2> QED BY <1>11, <2>2, <2>3, PoolsUnchanged DEF ReadRows, TypeOK
<1>12. ASSUME NEW t \in Thread, Search(t) PROVE TypeOK'
  <2>1. answer' \in [Thread -> [Part -> (SUBSET (Nat \ {0})) \cup (SUBSET Model)]]
    BY <1>12, AnswerType DEF Search, Part, TypeOK
  <2>2. pc' \in [Thread -> Control]
    BY <1>12 DEF Search, Goto, TypeOK, Control
  <2>3. Conns!TypeOK' /\ Slots!TypeOK'
    BY <1>12, PoolsType, PoolsUnchanged DEF Search
  <2> QED BY <1>12, <2>1, <2>2, <2>3 DEF Search, TypeOK
<1>13. ASSUME NEW t \in Thread, Resolve(t) PROVE TypeOK'
  <2>1. pc' \in [Thread -> Control] /\ todo' \in [Thread -> SUBSET {"rows", "vectors"}]
    BY <1>13 DEF Resolve, Goto, TypeOK, Control
  <2> QED BY <1>13, <2>1, PoolsUnchanged DEF Resolve, TypeOK
<1>14. ASSUME NEW t \in Thread, Insert(t) \/ Commit(t) \/ Index(t) PROVE TypeOK'
  <2>1. pc' \in [Thread -> Control]
    BY <1>14 DEF Insert, Commit, Index, Goto, TypeOK, Control
  <2>2. Cardinality(rows) \in Nat
    BY FS_CardinalityType DEF EngineInvariant, RowsInv
  <2>3. Index(t) => Newest \in SUBSET (Nat \ {0})
    <3>1. Index(t) => rows # {}
      BY DEF Index, EngineInvariant, RowsInv
    <3>2. rows # {} => Cardinality(rows) # 0
      BY FS_EmptySet DEF EngineInvariant, RowsInv
    <3> QED BY <2>2, <3>1, <3>2 DEF Newest
  <2>4. /\ rows' \in SUBSET (Nat \ {0}) /\ open' \in SUBSET (Nat \ {0})
        /\ vectors' \in SUBSET (Nat \ {0})
    <3>1. CASE Insert(t)
      BY <2>2, <3>1 DEF Insert, TypeOK
    <3>2. CASE Commit(t)
      BY <3>2 DEF Commit, TypeOK
    <3>3. CASE Index(t)
      BY <2>3, <3>3 DEF Index, TypeOK
    <3> QED BY <1>14, <3>1, <3>2, <3>3
  <2> QED BY <1>14, <2>1, <2>4, PoolsUnchanged DEF Insert, Commit, Index, TypeOK
<1>15. ASSUME UNCHANGED vars PROVE TypeOK'
  BY <1>15, PoolsUnchanged DEF vars, TypeOK
<1>16. ASSUME NEW t \in Thread, Throws(t) PROVE TypeOK'
  BY <1>7, <1>16 DEF Throws, NoModelAttached, EmbedFails, LoadFails, ReadFails,
                     InsertFails, IndexOrSaveFails
<1> QED
  BY <1>1, <1>2, <1>3, <1>4, <1>5, <1>6, <1>8, <1>9, <1>10, <1>11, <1>12, <1>13,
     <1>14, <1>15, <1>16 DEF Next, Step, Throws, Finished

-----------------------------------------------------------------------------
(* The lock. *)

\* What a thread has to do first under the lock, by the mode of the lock.
LEMMA FirstByMode ==
    /\ \A o \in Reads : First(o) \in {"connect", "model"}
    /\ \A o \in Writes : First(o) \in {"insert", "attach", "model"}
  BY DEF First, Reads, Writes, RawText

LEMMA LockStep ==
    ASSUME EngineInvariant, [Next]_vars
    PROVE  LockInv'
<1> USE DEF EngineInvariant, mutex, pools, store, model, request, result
<1>1. ASSUME NEW t \in Thread, NEW o \in Called, Call(t, o) PROVE LockInv'
  <2>1. /\ UNCHANGED <<readers, writer>>
        /\ op' = [op EXCEPT ![t] = o] /\ pc[t] = "idle"
        /\ \/ pc' = [pc EXCEPT ![t] = "load"]
           \/ pc' = [pc EXCEPT ![t] = "lock"]
    BY <1>1 DEF Call, Goto
  <2> QED BY <2>1 DEF LockInv, TypeOK, Reading, Writing
\* Steps of a thread in one mode to a place of the same mode.
<1>2. ASSUME NEW t \in Thread, NEW l \in Control, pc' = [pc EXCEPT ![t] = l],
             UNCHANGED <<readers, writer, op>>,
             \/ l = "leave"
             \/ l = "lock" /\ pc[t] = "load"
             \/ l \in Reading /\ pc[t] \in Reading
             \/ l \in Reading /\ pc[t] = "embed" /\ op[t] \in Reads
             \/ l \in Writing /\ pc[t] \in Writing
             \/ l \in Writing /\ pc[t] = "embed" /\ op[t] \notin Reads
             \/ l = "embed" /\ pc[t] = "model"
      PROVE  LockInv'
  BY <1>2 DEF LockInv, TypeOK, Reading, Writing, Control
<1>3. ASSUME NEW t \in Thread, Throws(t) PROVE LockInv'
  <2>1. pc' = [pc EXCEPT ![t] = "leave"] /\ UNCHANGED <<readers, writer, op>>
    BY <1>3 DEF Throws, Throw, Goto, NoModelAttached, EmbedFails, LoadFails, ReadFails,
                InsertFails, IndexOrSaveFails
  <2> QED BY <1>2, <2>1 DEF Control
<1>4. ASSUME NEW t \in Thread, LeaveSlot(t) \/ LeaveConnection(t) \/ ReadRows(t)
      PROVE  LockInv'
  BY <1>4 DEF LeaveSlot, LeaveConnection, ReadRows, LockInv
<1>5. ASSUME NEW t \in Thread, Unlock(t) PROVE LockInv'
  <2>1. /\ pc' = [pc EXCEPT ![t] = "idle"] /\ op' = [op EXCEPT ![t] = "none"]
        /\ readers' = readers \ {t} /\ writer' = writer \ {t}
    BY <1>5 DEF Unlock, Goto
  <2> QED BY <2>1 DEF LockInv, TypeOK, Reading, Writing
<1>6. ASSUME NEW t \in Thread, LockShared(t) PROVE LockInv'
  <2>1. /\ op[t] \in Reads /\ First(op[t]) \in {"connect", "model"}
        /\ writer = {} /\ writer' = {} /\ readers' = readers \cup {t} /\ op' = op
        /\ pc' = [pc EXCEPT ![t] = First(op[t])]
    BY <1>6, FirstByMode DEF LockShared, Goto
  <2> QED BY <2>1 DEF LockInv, TypeOK, Reading, Writing
<1>7. ASSUME NEW t \in Thread, LockExclusive(t) PROVE LockInv'
  <2>1. /\ op[t] \in Writes /\ First(op[t]) \in {"insert", "attach", "model"}
        /\ writer = {} /\ writer' = {t} /\ readers = {} /\ readers' = {} /\ op' = op
        /\ pc' = [pc EXCEPT ![t] = First(op[t])]
    BY <1>7, FirstByMode DEF LockExclusive, Goto
  <2>2. op[t] \notin Reads
    BY <2>1 DEF Reads, Writes
  <2> QED BY <2>1, <2>2 DEF LockInv, TypeOK, Reading, Writing
<1>8. ASSUME NEW t \in Thread,
             \/ HasEmbeddingModel(t) \/ Attach(t) \/ Answer(t) \/ Save(t)
             \/ RequireEmbedder(t) \/ Load(t)
      PROVE  LockInv'
  <2>1. /\ UNCHANGED <<readers, writer, op>>
        /\ \/ pc' = [pc EXCEPT ![t] = "leave"]
           \/ pc[t] = "model" /\ pc' = [pc EXCEPT ![t] = "embed"]
           \/ pc[t] = "load" /\ pc' = [pc EXCEPT ![t] = "lock"]
    BY <1>8 DEF HasEmbeddingModel, Attach, Answer, Save, RequireEmbedder, Load, Done, Goto
  <2> QED BY <1>2, <2>1 DEF Control
<1>9. ASSUME NEW t \in Thread, Embed(t) PROVE LockInv'
  <2>1. /\ UNCHANGED <<readers, writer, op>> /\ pc[t] = "embed"
        /\ \/ pc' = [pc EXCEPT ![t] = "leave"]
           \/ op[t] = "search_text" /\ pc' = [pc EXCEPT ![t] = "connect"]
           \/ op[t] = "add_text" /\ pc' = [pc EXCEPT ![t] = "insert"]
    BY <1>9 DEF Embed, Done, Goto
  <2> QED BY <1>2, <2>1 DEF Control, Reading, Writing, Reads
<1>10. ASSUME NEW t \in Thread,
              AcquireConnection(t) \/ AcquireSlot(t) \/ Search(t) \/ Resolve(t)
       PROVE  LockInv'
  <2>1. /\ UNCHANGED <<readers, writer, op>> /\ pc[t] \in Reading
        /\ \E l \in Reading : pc' = [pc EXCEPT ![t] = l]
    BY <1>10 DEF AcquireConnection, AcquireSlot, Search, Resolve, Goto, Reading
  <2> QED BY <1>2, <2>1 DEF Control, Reading
<1>11. ASSUME NEW t \in Thread, Insert(t) \/ Commit(t) \/ Index(t) PROVE LockInv'
  <2>1. /\ UNCHANGED <<readers, writer, op>> /\ pc[t] \in Writing
        /\ \E l \in Writing : pc' = [pc EXCEPT ![t] = l]
    BY <1>11 DEF Insert, Commit, Index, Goto, Writing
  <2> QED BY <1>2, <2>1 DEF Control, Writing
<1>12. ASSUME UNCHANGED vars PROVE LockInv'
  BY <1>12 DEF vars, LockInv
<1> QED
  BY <1>1, <1>3, <1>4, <1>5, <1>6, <1>7, <1>8, <1>9, <1>10, <1>11, <1>12
  DEF Next, Step, Throws, Finished

-----------------------------------------------------------------------------
(* The embedder. *)

LEMMA UseStep ==
    ASSUME EngineInvariant, [Next]_vars
    PROVE  UseInv'
<1> USE DEF EngineInvariant, mutex, pools, store, model, request, result
<1>1. ASSUME NEW t \in Thread, NEW l \in Control, pc' = [pc EXCEPT ![t] = l],
             pc[t] # "embed", UNCHANGED <<using, embedder>>
      PROVE  UseInv'
  BY <1>1 DEF UseInv, TypeOK
<1>2. ASSUME NEW t \in Thread, Throws(t) \/ Embed(t) PROVE UseInv'
  <2>1. /\ using' = [using EXCEPT ![t] = {}] /\ embedder' = embedder
        /\ \E l \in Control : pc' = [pc EXCEPT ![t] = l]
    BY <1>2 DEF Throws, Throw, Goto, NoModelAttached, EmbedFails, LoadFails, ReadFails,
                InsertFails, IndexOrSaveFails, Embed, Done, Control
  <2> QED BY <2>1 DEF UseInv, TypeOK
<1>3. ASSUME NEW t \in Thread, LeaveSlot(t) \/ LeaveConnection(t) \/ ReadRows(t)
      PROVE  UseInv'
  BY <1>3 DEF LeaveSlot, LeaveConnection, ReadRows, UseInv
<1>4. ASSUME NEW t \in Thread, NEW o \in Called, Call(t, o) PROVE UseInv'
  BY <1>1, <1>4 DEF Call, Goto, Control
<1>5. ASSUME NEW t \in Thread, Unlock(t) \/ LockShared(t) \/ LockExclusive(t) PROVE UseInv'
  <2>1. pc[t] = "lock" /\ op[t] \in Operation => First(op[t]) \in Control
    BY FirstType
  <2>2. /\ pc[t] # "embed" /\ UNCHANGED <<using, embedder>>
        /\ \E l \in Control : pc' = [pc EXCEPT ![t] = l]
    BY <1>5, <2>1 DEF Unlock, LockShared, LockExclusive, Goto, Operation, Control
  <2> QED BY <1>1, <2>2
<1>6. ASSUME NEW t \in Thread,
             \/ HasEmbeddingModel(t) \/ Load(t) \/ Answer(t) \/ Save(t)
             \/ AcquireConnection(t) \/ AcquireSlot(t) \/ Search(t) \/ Resolve(t)
             \/ Insert(t) \/ Commit(t) \/ Index(t)
      PROVE  UseInv'
  <2>1. /\ pc[t] # "embed" /\ UNCHANGED <<using, embedder>>
        /\ \E l \in Control : pc' = [pc EXCEPT ![t] = l]
    BY <1>6 DEF HasEmbeddingModel, Load, Answer, Save, AcquireConnection, AcquireSlot,
                Search, Resolve, Insert, Commit, Index, Done, Goto, Control
  <2> QED BY <1>1, <2>1
<1>7. ASSUME NEW t \in Thread, RequireEmbedder(t) PROVE UseInv'
  BY <1>7 DEF RequireEmbedder, Goto, UseInv, TypeOK
\* Nobody embeds beside the holder of the exclusive lock.
<1>8. ASSUME NEW t \in Thread, Attach(t) PROVE UseInv'
  <2>1. \A u \in Thread : pc[u] # "embed"
    BY <1>8 DEF Attach, LockInv, Writing
  <2>2. \A u \in Thread : using[u] = {}
    BY <2>1 DEF UseInv
  <2>3. using' = using
    BY <1>8 DEF Attach
  <2> QED BY <2>2, <2>3 DEF UseInv
<1>9. ASSUME UNCHANGED vars PROVE UseInv'
  BY <1>9 DEF vars, UseInv
<1> QED
  BY <1>2, <1>3, <1>4, <1>5, <1>6, <1>7, <1>8, <1>9 DEF Next, Step, Throws, Finished

-----------------------------------------------------------------------------
(* The rows. *)

LEMMA RowsStep ==
    ASSUME EngineInvariant, [Next]_vars
    PROVE  RowsInv'
<1> USE DEF EngineInvariant, mutex, pools, store, model, request, result
<1>0. Cardinality(rows) \in Nat
  BY FS_CardinalityType DEF RowsInv
\* Steps that neither write nor find.
<1>1. ASSUME NEW t \in Thread, NEW l \in Control \ {"commit", "index"},
             pc' = [pc EXCEPT ![t] = l], UNCHANGED <<rows, vectors, open>>,
             \/ answer' = answer
             \/ answer' = [answer EXCEPT ![t] = NoAnswer]
             \/ \E S : answer' = [answer EXCEPT ![t]["model"] = S]
             \/ answer' = [answer EXCEPT ![t]["vectors"] = vectors]
      PROVE  RowsInv'
  <2>1. \A u \in Thread : answer'[u].vectors \in {answer[u].vectors, {}, vectors}
    BY <1>1 DEF TypeOK, NoAnswer, Part
  <2>2. \A u \in Thread : answer'[u].vectors \subseteq rows
    BY <2>1 DEF RowsInv
  <2>3. \A u \in Thread : /\ pc'[u] = "commit" => pc[u] = "commit"
                          /\ pc'[u] = "index" => pc[u] = "index"
    BY <1>1 DEF TypeOK
  <2> QED BY <1>1, <2>2, <2>3 DEF RowsInv
<1>2. ASSUME NEW t \in Thread, LeaveSlot(t) \/ LeaveConnection(t) \/ ReadRows(t)
      PROVE  RowsInv'
  <2>1. \A u \in Thread : answer'[u].vectors = answer[u].vectors
    BY <1>2 DEF LeaveSlot, LeaveConnection, ReadRows, TypeOK, Part
  <2> QED BY <1>2, <2>1 DEF LeaveSlot, LeaveConnection, ReadRows, RowsInv
<1>3. ASSUME NEW t \in Thread, NEW o \in Called, Call(t, o) PROVE RowsInv'
  BY <1>1, <1>3 DEF Call, Goto, Control
<1>4. ASSUME NEW t \in Thread, Unlock(t) \/ LockShared(t) \/ LockExclusive(t) PROVE RowsInv'
  <2>1. pc[t] = "lock" /\ op[t] \in Operation => First(op[t]) \in Control \ {"commit", "index"}
    BY FirstByMode DEF Control, Operation
  <2>2. /\ \E l \in Control \ {"commit", "index"} : pc' = [pc EXCEPT ![t] = l]
        /\ UNCHANGED <<rows, vectors, open>>
        /\ answer' = answer \/ answer' = [answer EXCEPT ![t] = NoAnswer]
    BY <1>4, <2>1 DEF Unlock, LockShared, LockExclusive, Goto, Operation, Control
  <2> QED BY <1>1, <2>2
<1>5. ASSUME NEW t \in Thread,
             \/ HasEmbeddingModel(t) \/ Load(t) \/ Answer(t) \/ Save(t)
             \/ RequireEmbedder(t) \/ Embed(t) \/ Attach(t) \/ Search(t)
             \/ AcquireConnection(t) \/ AcquireSlot(t) \/ Resolve(t)
             \/ NoModelAttached(t) \/ EmbedFails(t) \/ LoadFails(t) \/ ReadFails(t)
             \/ IndexOrSaveFails(t)
      PROVE  RowsInv'
  <2>1. \E l \in Control \ {"commit", "index"} : pc' = [pc EXCEPT ![t] = l]
    BY <1>5 DEF HasEmbeddingModel, Load, Answer, Save, RequireEmbedder, Embed, Attach,
                Search, AcquireConnection, AcquireSlot, Resolve, NoModelAttached,
                EmbedFails, LoadFails, ReadFails, IndexOrSaveFails, Throw, Done, Goto,
                Control
  <2>2. UNCHANGED <<rows, vectors, open>>
    BY <1>5 DEF HasEmbeddingModel, Load, Answer, Save, RequireEmbedder, Embed, Attach,
                Search, AcquireConnection, AcquireSlot, Resolve, NoModelAttached,
                EmbedFails, LoadFails, ReadFails, IndexOrSaveFails
  <2>3. \/ answer' = answer
        \/ answer' = [answer EXCEPT ![t] = NoAnswer]
        \/ \E S : answer' = [answer EXCEPT ![t]["model"] = S]
        \/ answer' = [answer EXCEPT ![t]["vectors"] = vectors]
    BY <1>5 DEF HasEmbeddingModel, Load, Answer, Save, RequireEmbedder, Embed, Attach,
                Search, AcquireConnection, AcquireSlot, Resolve, NoModelAttached,
                EmbedFails, LoadFails, ReadFails, IndexOrSaveFails, Throw
  <2> QED BY <1>1, <2>1, <2>2, <2>3
<1>6. ASSUME NEW t \in Thread, InsertFails(t) PROVE RowsInv'
  <2>1. \A u \in Thread : u # t => pc[u] # "commit"
    BY <1>6 DEF InsertFails, LockInv, Writing
  <2>2. /\ pc' = [pc EXCEPT ![t] = "leave"] /\ UNCHANGED <<rows, vectors>>
        /\ \A u \in Thread : answer'[u].vectors \in {answer[u].vectors, {}}
    BY <1>6 DEF InsertFails, Throw, Goto, TypeOK, NoAnswer, Part
  <2> QED BY <2>1, <2>2 DEF RowsInv, TypeOK
<1>7. ASSUME NEW t \in Thread, Insert(t) PROVE RowsInv'
  BY <1>7 DEF Insert, Goto, RowsInv, TypeOK
\* Only the writer's transaction is open; its row is the next one.
<1>8. ASSUME NEW t \in Thread, Commit(t) PROVE RowsInv'
  <2>1. \A u \in Thread : u # t => pc[u] # "commit"
    BY <1>8 DEF Commit, LockInv, Writing
  <2>2. rows' = rows \cup {Cardinality(rows) + 1}
    BY <1>8 DEF Commit, RowsInv
  <2>3. Cardinality(rows) + 1 \notin rows
    BY <1>0 DEF RowsInv
  <2>4. IsFiniteSet(rows') /\ Cardinality(rows') = Cardinality(rows) + 1
    BY <2>2, <2>3, FS_AddElement DEF RowsInv
  <2>5. rows' = 1..Cardinality(rows')
    BY <1>0, <2>2, <2>4 DEF RowsInv
  <2>6. /\ pc' = [pc EXCEPT ![t] = "index"] /\ UNCHANGED <<vectors, answer>>
    BY <1>8 DEF Commit, Goto
  <2>7. rows \subseteq rows' /\ rows' # {}
    BY <2>2
  <2>8. vectors' \subseteq rows'
    BY <2>6, <2>7 DEF RowsInv
  <2>9. \A u \in Thread : /\ pc'[u] # "commit"
                          /\ answer'[u].vectors \subseteq rows'
    BY <2>1, <2>6, <2>7 DEF RowsInv, TypeOK
  <2> QED BY <2>4, <2>5, <2>7, <2>8, <2>9 DEF RowsInv
<1>9. ASSUME NEW t \in Thread, Index(t) PROVE RowsInv'
  <2>1. rows # {} /\ rows = 1..Cardinality(rows)
    BY <1>9 DEF Index, RowsInv
  <2>2. Newest \subseteq rows
    BY <1>0, <2>1 DEF Newest
  <2>3. /\ pc' = [pc EXCEPT ![t] = "save"] /\ UNCHANGED <<rows, open, answer>>
        /\ vectors' = vectors \cup Newest
    BY <1>9 DEF Index, Goto
  <2> QED BY <2>2, <2>3 DEF RowsInv, TypeOK
<1>10. ASSUME UNCHANGED vars PROVE RowsInv'
  BY <1>10 DEF vars, RowsInv
<1> QED
  BY <1>2, <1>3, <1>4, <1>5, <1>6, <1>7, <1>8, <1>9, <1>10 DEF Next, Step, Finished

-----------------------------------------------------------------------------
LEMMA InitEngine == Init => EngineInvariant
<1> SUFFICES ASSUME Init PROVE EngineInvariant
  OBVIOUS
<1>1. LockInv /\ UseInv
  BY DEF Init, LockInv, UseInv, Reading, Writing
<1>2. RowsInv
  <2>1. IsFiniteSet({}) /\ Cardinality({}) = 0
    BY FS_EmptySet
  <2>2. rows = 1..Cardinality(rows) /\ IsFiniteSet(rows)
    BY <2>1 DEF Init
  <2>3. vectors = {} /\ \A t \in Thread : pc[t] = "idle" /\ answer[t].vectors = {}
    BY DEF Init, NoAnswer, Part
  <2> QED BY <2>2, <2>3 DEF RowsInv
<1> QED BY <1>1, <1>2, InitType DEF EngineInvariant

\* The parts of the engine's state stay in step, whatever the threads call.
THEOREM EngineCorrect == Spec => []EngineInvariant
<1>1. EngineInvariant /\ [Next]_vars => EngineInvariant'
  BY TypeStep, LockStep, UseStep, RowsStep DEF EngineInvariant
<1> QED BY <1>1, InitEngine, PTL DEF Spec

\* Every variable of the shared engine keeps its type.
THEOREM EngineTypeCorrect == Spec => []TypeOK
<1>1. EngineInvariant => TypeOK
  BY DEF EngineInvariant
<1> QED BY <1>1, EngineCorrect, PTL

\* rw_mutex keeps every ingest exclusive of every search.
THEOREM SearchesExcludeIngest == Spec => []ReadersExcludeIngest
<1>1. EngineInvariant => ReadersExcludeIngest
  BY DEF EngineInvariant, LockInv, ReadersExcludeIngest, Reading, Writing
<1> QED BY <1>1, EngineCorrect, PTL

\* No thread embeds with an embedder that has been replaced and destroyed.
THEOREM EmbedderSafe == Spec => []EmbedderOutlivesItsUse
<1>1. EngineInvariant => EmbedderOutlivesItsUse
  BY DEF EngineInvariant, UseInv, EmbedderOutlivesItsUse
<1> QED BY <1>1, EngineCorrect, PTL

\* Every hit of every search has its row.
THEOREM HitsAlwaysHaveRows == Spec => []HitsHaveRows
<1>1. EngineInvariant => HitsHaveRows
  BY DEF EngineInvariant, RowsInv, HitsHaveRows, Visible
<1> QED BY <1>1, EngineCorrect, PTL

-----------------------------------------------------------------------------
(* The pools. *)

\* Every resource of R is free or held, by one thread, which holds no other.
Lent(R, free, held) ==
    /\ \A r \in R : r \in free \/ \E t \in Thread : r \in held[t]
    /\ \A t \in Thread : held[t] \cap free = {}
    /\ \A t \in Thread : \A r, s \in held[t] : r = s
    /\ \A t, u \in Thread : t # u => held[t] \cap held[u] = {}

\* Where a thread holds what: a slot never without a connection, if there are any.
Handles(t) ==
    /\ conn[t] # {} => pc[t] \in {"read", "search", "resolve", "leave"}
    /\ slot[t] # {} => pc[t] \in {"search", "leave"}
    /\ path = "file" => /\ pc[t] \in {"read", "search", "resolve"} => conn[t] # {}
                        /\ slot[t] # {} => conn[t] # {}

PoolInv ==
    /\ Lent(Conn, conns, conn)
    /\ Lent(Slot, slots, slot)
    /\ \A t \in Thread : Handles(t)

\* Taking from a pool and giving back keep every resource in one place.
LEMMA TakeLends ==
    ASSUME NEW R, NEW free, NEW held \in [Thread -> SUBSET R], NEW t \in Thread,
           Lent(R, free, held), held[t] = {},
           NEW r \in free
    PROVE  Lent(R, free \ {r}, [held EXCEPT ![t] = {r}])
<1> DEFINE after == [held EXCEPT ![t] = {r}]
<1>1. /\ after[t] = {r}
      /\ \A u \in Thread : u # t => after[u] = held[u]
  OBVIOUS
<1>2. \A u \in Thread : r \notin held[u]
  BY DEF Lent
<1> HIDE DEF after
<1>3. \A q \in R : q \in free \ {r} \/ \E u \in Thread : q \in after[u]
  <2> SUFFICES ASSUME NEW q \in R, q # r PROVE q \in free \/ \E u \in Thread : q \in after[u]
    BY <1>1
  <2>1. CASE q \in free
    BY <2>1
  <2>2. CASE q \notin free
    <3>1. PICK u \in Thread : q \in held[u]
      BY <2>2 DEF Lent
    <3> QED BY <1>1, <3>1
  <2> QED BY <2>1, <2>2
<1>4. /\ \A u \in Thread : after[u] \cap (free \ {r}) = {}
      /\ \A u \in Thread : \A p, q \in after[u] : p = q
      /\ \A u, v \in Thread : u # v => after[u] \cap after[v] = {}
  BY <1>1, <1>2 DEF Lent
<1>5. Lent(R, free \ {r}, after)
  BY <1>3, <1>4 DEF Lent
<1> QED BY <1>5 DEF after

LEMMA GiveLends ==
    ASSUME NEW R, NEW free, NEW held \in [Thread -> SUBSET R], NEW t \in Thread,
           Lent(R, free, held)
    PROVE  Lent(R, free \cup held[t], [held EXCEPT ![t] = {}])
<1> DEFINE after == [held EXCEPT ![t] = {}]
<1>1. /\ after[t] = {}
      /\ \A u \in Thread : u # t => after[u] = held[u]
  OBVIOUS
<1> HIDE DEF after
<1>2. \A q \in R : q \in free \cup held[t] \/ \E u \in Thread : q \in after[u]
  <2> SUFFICES ASSUME NEW q \in R, q \notin free \cup held[t]
               PROVE  \E u \in Thread : q \in after[u]
    OBVIOUS
  <2>1. PICK u \in Thread : q \in held[u]
    BY DEF Lent
  <2> QED BY <1>1, <2>1
<1>3. /\ \A u \in Thread : after[u] \cap (free \cup held[t]) = {}
      /\ \A u \in Thread : \A p, q \in after[u] : p = q
      /\ \A u, v \in Thread : u # v => after[u] \cap after[v] = {}
  BY <1>1 DEF Lent
<1>4. Lent(R, free \cup held[t], after)
  BY <1>2, <1>3 DEF Lent
<1> QED BY <1>4 DEF after

LEMMA PoolsLend ==
    ASSUME TypeOK, PoolInv, NEW t \in Thread
    PROVE  /\ Conns!Take(t) \/ Conns!Give(t) => Lent(Conn, conns, conn)'
           /\ Slots!Take(t) \/ Slots!Give(t) => Lent(Slot, slots, slot)'
<1> USE DEF PoolInv, TypeOK
<1>1. ASSUME Conns!Take(t) PROVE Lent(Conn, conns', conn')
  <2>1. /\ conn \in [Thread -> SUBSET Conn] /\ conn[t] = {}
        /\ Lent(Conn, conns, conn)
    BY <1>1 DEF Conns!Take, Conns!TypeOK
  <2>2. PICK r \in conns : conns' = conns \ {r} /\ conn' = [conn EXCEPT ![t] = {r}]
    BY <1>1 DEF Conns!Take
  <2> QED BY <2>1, <2>2, TakeLends
<1>2. ASSUME Conns!Give(t) PROVE Lent(Conn, conns', conn')
  BY <1>2, GiveLends DEF Conns!Give, Conns!TypeOK
<1>3. ASSUME Slots!Take(t) PROVE Lent(Slot, slots', slot')
  <2>1. /\ slot \in [Thread -> SUBSET Slot] /\ slot[t] = {}
        /\ Lent(Slot, slots, slot)
    BY <1>3 DEF Slots!Take, Slots!TypeOK
  <2>2. PICK r \in slots : slots' = slots \ {r} /\ slot' = [slot EXCEPT ![t] = {r}]
    BY <1>3 DEF Slots!Take
  <2> QED BY <2>1, <2>2, TakeLends
<1>4. ASSUME Slots!Give(t) PROVE Lent(Slot, slots', slot')
  BY <1>4, GiveLends DEF Slots!Give, Slots!TypeOK
<1> QED BY <1>1, <1>2, <1>3, <1>4 DEF Lent

LEMMA InitPools == Init => PoolInv
  BY DEF Init, PoolInv, Lent, Handles

LEMMA PoolStep ==
    ASSUME EngineInvariant, PoolInv, [Next]_vars
    PROVE  PoolInv'
<1>0. TypeOK
  BY DEF EngineInvariant
<1> USE <1>0
<1> USE DEF mutex, pools, store, model, request, result
\* Steps that leave both pools alone, of a thread that has nothing to lose.
<1>1. ASSUME NEW t \in Thread, NEW l \in Control, pc' = [pc EXCEPT ![t] = l],
             UNCHANGED <<path, pools>>,
             \/ l = "leave"
             \/ l = "read" /\ pc[t] = "resolve"
             \/ /\ pc[t] \notin {"read", "search", "resolve", "leave"}
                /\ l \notin {"read", "search", "resolve"}
             \/ conn[t] = {} /\ slot[t] = {} /\ l = "idle"
      PROVE  PoolInv'
  <2>1. Lent(Conn, conns, conn)' /\ Lent(Slot, slots, slot)'
    BY <1>1 DEF PoolInv, Lent
  <2>2. ASSUME NEW u \in Thread PROVE Handles(u)'
    <3>1. Handles(u)
      BY DEF PoolInv
    <3>2. CASE u # t
      BY <1>1, <3>1, <3>2 DEF Handles, TypeOK
    <3>3. CASE u = t
      BY <1>1, <3>1, <3>3 DEF Handles, TypeOK
    <3> QED BY <3>2, <3>3
  <2> QED BY <2>1, <2>2 DEF PoolInv
<1>2. ASSUME NEW t \in Thread, Throws(t) PROVE PoolInv'
  <2>1. pc' = [pc EXCEPT ![t] = "leave"] /\ UNCHANGED <<path, pools>>
    BY <1>2 DEF Throws, Throw, Goto, NoModelAttached, EmbedFails, LoadFails, ReadFails,
                InsertFails, IndexOrSaveFails
  <2> QED BY <1>1, <2>1 DEF Control
<1>3. ASSUME NEW t \in Thread, NEW o \in Called, Call(t, o) PROVE PoolInv'
  BY <1>1, <1>3 DEF Call, Goto, Control
<1>4. ASSUME NEW t \in Thread, LockShared(t) \/ LockExclusive(t) PROVE PoolInv'
  <2>1. op[t] \in Operation => First(op[t]) \in Control \ {"read", "search", "resolve"}
    BY FirstByMode DEF Control, Operation
  <2>2. /\ pc[t] = "lock" /\ UNCHANGED <<path, pools>>
        /\ \E l \in Control \ {"read", "search", "resolve"} : pc' = [pc EXCEPT ![t] = l]
    BY <1>4, <2>1 DEF LockShared, LockExclusive, Goto, Operation
  <2> QED BY <1>1, <2>2
<1>5. ASSUME NEW t \in Thread, Unlock(t) PROVE PoolInv'
  BY <1>1, <1>5 DEF Unlock, Goto, Control
<1>6. ASSUME NEW t \in Thread,
             \/ HasEmbeddingModel(t) \/ RequireEmbedder(t) \/ Embed(t) \/ Load(t)
             \/ Attach(t) \/ Answer(t) \/ Resolve(t)
             \/ Insert(t) \/ Commit(t) \/ Index(t) \/ Save(t)
      PROVE  PoolInv'
  <2>1. UNCHANGED <<path, pools>>
    BY <1>6 DEF HasEmbeddingModel, RequireEmbedder, Embed, Load, Attach, Answer, Resolve,
                Insert, Commit, Index, Save
  <2>2. \E l \in Control :
          /\ pc' = [pc EXCEPT ![t] = l]
          /\ \/ l = "leave"
             \/ l = "read" /\ pc[t] = "resolve"
             \/ /\ pc[t] \notin {"read", "search", "resolve", "leave"}
                /\ l \notin {"read", "search", "resolve"}
    BY <1>6 DEF HasEmbeddingModel, RequireEmbedder, Embed, Load, Attach, Answer, Resolve,
                Insert, Commit, Index, Save, Done, Goto, Control
  <2> QED BY <1>1, <2>1, <2>2
\* A connection is taken before the first search, a slot for a search, below it.
<1>7. ASSUME NEW t \in Thread, AcquireConnection(t) PROVE PoolInv'
  <2>1. /\ pc[t] = "connect" /\ pc' = [pc EXCEPT ![t] = "read"]
        /\ UNCHANGED <<path, slots, slot>>
        /\ IF path = "file" THEN Conns!Take(t) ELSE UNCHANGED <<conns, conn>>
    BY <1>7 DEF AcquireConnection, Goto
  <2>2. Lent(Conn, conns, conn)'
    <3>1. CASE path = "file"
      BY <2>1, <3>1, PoolsLend
    <3>2. CASE path # "file"
      BY <2>1, <3>2 DEF PoolInv, Lent
    <3> QED BY <3>1, <3>2
  <2>3. Lent(Slot, slots, slot)'
    BY <2>1 DEF PoolInv, Lent
  <2>4. /\ \A u \in Thread : u # t => conn'[u] = conn[u]
        /\ path = "file" => conn'[t] # {}
    <3>1. CASE Conns!Take(t)
      <4>1. PICK c \in conns : conn' = [conn EXCEPT ![t] = {c}]
        BY <3>1 DEF Conns!Take
      <4> QED BY <4>1 DEF TypeOK, Conns!TypeOK
    <3>2. CASE path # "file"
      BY <2>1, <3>2
    <3> QED BY <2>1, <3>1, <3>2
  <2>5. ASSUME NEW u \in Thread PROVE Handles(u)'
    <3>1. Handles(u)
      BY DEF PoolInv
    <3>2. CASE u # t
      BY <2>1, <2>4, <3>1, <3>2 DEF Handles, TypeOK
    <3>3. CASE u = t
      BY <2>1, <2>4, <3>1, <3>3 DEF Handles, TypeOK
    <3> QED BY <3>2, <3>3
  <2> QED BY <2>2, <2>3, <2>5 DEF PoolInv
<1>8. ASSUME NEW t \in Thread,
             LeaveConnection(t) \/ LeaveSlot(t) \/ AcquireSlot(t) \/ Search(t)
      PROVE  PoolInv'
  <2>1. /\ UNCHANGED path
        /\ \/ /\ pc[t] = "leave" /\ slot[t] = {} /\ Conns!Give(t)
              /\ UNCHANGED <<slots, slot, pc>>
           \/ /\ UNCHANGED <<conns, conn>>
              /\ \/ pc[t] = "leave" /\ Slots!Give(t) /\ UNCHANGED pc
                 \/ pc[t] = "read" /\ Slots!Take(t) /\ pc' = [pc EXCEPT ![t] = "search"]
                 \/ pc[t] = "search" /\ Slots!Give(t) /\ pc' = [pc EXCEPT ![t] = "resolve"]
    BY <1>8 DEF LeaveConnection, LeaveSlot, AcquireSlot, Search, Goto
  <2>2. Lent(Conn, conns, conn)' /\ Lent(Slot, slots, slot)'
    <3>1. CASE UNCHANGED <<conns, conn>>
      BY <2>1, <3>1, PoolsLend DEF PoolInv, Lent
    <3>2. CASE UNCHANGED <<slots, slot>> /\ Conns!Give(t)
      BY <3>2, PoolsLend DEF PoolInv, Lent
    <3> QED BY <2>1, <3>1, <3>2
  <2>3. /\ \A u \in Thread : u # t => conn'[u] = conn[u] /\ slot'[u] = slot[u]
        /\ Conns!Give(t) => conn'[t] = {}
        /\ Slots!Give(t) => slot'[t] = {}
    BY <2>1 DEF Conns!Give, Slots!Give, Slots!Take, TypeOK, Conns!TypeOK, Slots!TypeOK
  <2>4. ASSUME NEW u \in Thread PROVE Handles(u)'
    <3>1. Handles(u)
      BY DEF PoolInv
    <3>2. CASE u # t
      BY <2>1, <2>3, <3>1, <3>2 DEF Handles, TypeOK
    <3>3. CASE u = t
      BY <2>1, <2>3, <3>1, <3>3 DEF Handles, TypeOK
    <3> QED BY <3>2, <3>3
  <2> QED BY <2>2, <2>4 DEF PoolInv
<1>9. ASSUME UNCHANGED <<path, pools, pc>> PROVE PoolInv'
  BY <1>9 DEF PoolInv, Lent, Handles
<1>10. ASSUME NEW t \in Thread, ReadRows(t) PROVE PoolInv'
  BY <1>9, <1>10 DEF ReadRows
<1>11. UNCHANGED vars => PoolInv'
  BY <1>9 DEF vars
<1> QED
  BY <1>2, <1>3, <1>4, <1>5, <1>6, <1>7, <1>8, <1>10, <1>11 DEF Next, Step, Throws, Finished

\* Connections and slots are each in one place, and only inside the calls that
\* need them.
THEOREM PoolsCorrect == Spec => []PoolInv
<1>1. EngineInvariant /\ PoolInv /\ [Next]_vars => PoolInv'
  BY PoolStep
<1> QED BY <1>1, InitPools, EngineCorrect, PTL DEF Spec

\* A call that has returned or thrown has given back its lock, its connection
\* and its slot.
THEOREM CallsLeaveNothingBehind == Spec => []NothingLeaks
<1>1. EngineInvariant /\ PoolInv => NothingLeaks
  <2> SUFFICES ASSUME EngineInvariant, PoolInv PROVE NothingLeaks
    OBVIOUS
  <2>1. \A t \in readers \cup writer : pc[t] # "idle"
    BY DEF EngineInvariant, TypeOK, LockInv
  <2>2. ASSUME NEW c \in Conn \ conns
        PROVE  c \in UNION { conn[t] : t \in { u \in Thread : pc[u] # "idle" } }
    <3>1. PICK t \in Thread : c \in conn[t]
      BY DEF PoolInv, Lent
    <3>2. pc[t] # "idle"
      BY <3>1 DEF PoolInv, Handles
    <3> QED BY <3>1, <3>2
  <2>3. ASSUME NEW s \in Slot \ slots
        PROVE  s \in UNION { slot[t] : t \in { u \in Thread : pc[u] # "idle" } }
    <3>1. PICK t \in Thread : s \in slot[t]
      BY DEF PoolInv, Lent
    <3>2. pc[t] # "idle"
      BY <3>1 DEF PoolInv, Handles
    <3> QED BY <3>1, <3>2
  <2> QED BY <2>1, <2>2, <2>3 DEF NothingLeaks
<1> QED BY <1>1, EngineCorrect, PoolsCorrect, PTL

\* If all slots were taken, each by the holder of another connection, the
\* connections they hold would be as many as all connections, and one of them
\* the waiting thread's own.
LEMMA HolderFindsASlot ==
    ASSUME TypeOK, PoolInv, path = "file", NEW t \in Thread, pc[t] = "read"
    PROVE  slots # {}
<1> SUFFICES ASSUME slots = {} PROVE FALSE
  OBVIOUS
<1> USE DEF TypeOK, Conns!TypeOK, Slots!TypeOK
<1>1. slot[t] = {} /\ \E c \in Conn : c \in conn[t]
  BY DEF PoolInv, Handles
<1>2. PICK mine \in Conn : mine \in conn[t]
  BY <1>1
<1>3. \A s \in Slot : \E u \in Thread : s \in slot[u]
  BY DEF PoolInv, Lent
<1> DEFINE Others == Conn \ {mine}
           Beside(s, c) == \E u \in Thread : s \in slot[u] /\ c \in conn[u]
           f == [s \in Slot |-> CHOOSE c \in Others : Beside(s, c)]
<1>4. ASSUME NEW s \in Slot PROVE \E c \in Others : Beside(s, c)
  <2>1. PICK u \in Thread : s \in slot[u]
    BY <1>3
  <2>2. u # t
    BY <1>1, <2>1
  <2>3. PICK c \in Conn : c \in conn[u]
    BY <2>1 DEF PoolInv, Handles
  <2>4. c # mine
    BY <1>2, <2>2, <2>3 DEF PoolInv, Lent
  <2> QED BY <2>1, <2>3, <2>4
<1>5. \A s \in Slot : f[s] \in Others /\ Beside(s, f[s])
  BY <1>4
<1>6. f \in [Slot -> Others]
  BY <1>5
<1>7. ASSUME NEW r \in Slot, NEW s \in Slot, f[r] = f[s] PROVE r = s
  <2>1. PICK u \in Thread : r \in slot[u] /\ f[r] \in conn[u]
    BY <1>5
  <2>2. PICK v \in Thread : s \in slot[v] /\ f[s] \in conn[v]
    BY <1>5
  <2>3. u = v
    BY <1>7, <2>1, <2>2 DEF PoolInv, Lent
  <2> QED BY <2>1, <2>2, <2>3 DEF PoolInv, Lent
<1> HIDE DEF f
<1>8. f \in Injection(Slot, Others)
  BY <1>6, <1>7 DEF Injection, IsInjective
<1>9. /\ IsFiniteSet(Others) /\ Cardinality(Others) = Cardinality(Conn) - 1
      /\ Cardinality(Conn) \in Nat
  BY EngineAssumption, FS_RemoveElement, FS_CardinalityType
<1>10. Cardinality(Slot) <= Cardinality(Others)
  BY <1>8, <1>9, FS_Injection
<1> QED BY <1>9, <1>10, EngineAssumption

\* Search slots never run out under the threads that hold connections.
THEOREM SlotsSuffice == Spec => []ConnectionHolderFindsASlot
<1>1. EngineInvariant /\ PoolInv => ConnectionHolderFindsASlot
  BY HolderFindsASlot DEF EngineInvariant, ConnectionHolderFindsASlot
<1> QED BY <1>1, EngineCorrect, PoolsCorrect, PTL
=============================================================================
