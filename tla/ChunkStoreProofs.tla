-------------------------- MODULE ChunkStoreProofs --------------------------
(***************************************************************************)
(* Proofs about ChunkStore, for any number of instances, documents, chunks *)
(* and dimensionalities, with and without failing COMMITs.                 *)
(***************************************************************************)
EXTENDS ChunkStore, FiniteSetTheorems, SequenceTheorems, TLAPS

-----------------------------------------------------------------------------
(* Entries: the rows of a table with their ids. *)

LEMMA EntriesType ==
    ASSUME NEW s \in Seq(Row)
    PROVE  Entries(s) \subseteq Entry
BY DEF Entries, Entry

\* Appending a row adds one entry, under the next id.
LEMMA EntriesAppend ==
    ASSUME NEW s \in Seq(Row), NEW r \in Row
    PROVE  Entries(Append(s, r)) = Entries(s) \cup {[id |-> Len(s) + 1, row |-> r]}
BY DEF Entries

\* A table of n rows has n entries: ids tell them apart.
LEMMA EntriesCardinality ==
    ASSUME NEW s \in Seq(Row)
    PROVE  IsFiniteSet(Entries(s)) /\ Cardinality(Entries(s)) = Len(s)
<1> DEFINE f == [n \in 1..Len(s) |-> [id |-> n, row |-> s[n]]]
<1>1. f \in Bijection(1..Len(s), Entries(s))
  <2>1. f \in [1..Len(s) -> Entries(s)]
    BY DEF Entries
  <2>2. \A n, m \in 1..Len(s) : f[n] = f[m] => n = m
    <3> SUFFICES ASSUME NEW n \in 1..Len(s), NEW m \in 1..Len(s), f[n] = f[m]
                 PROVE  n = m
      OBVIOUS
    <3>1. f[n].id = n /\ f[m].id = m
      OBVIOUS
    <3> QED BY <3>1
  <2>3. \A e \in Entries(s) : \E n \in 1..Len(s) : f[n] = e
    BY DEF Entries
  <2> QED BY <2>1, <2>2, <2>3 DEF Bijection, Injection, Surjection, IsInjective
<1>2. ExistsBijection(1..Len(s), Entries(s))
  BY <1>1 DEF ExistsBijection
<1>3. IsFiniteSet(1..Len(s)) /\ Cardinality(1..Len(s)) = Len(s)
  <2> DEFINE n == Len(s)
  <2>1. n \in Nat
    OBVIOUS
  <2> HIDE DEF n, f
  <2>2. /\ IsFiniteSet(1..n)
        /\ Cardinality(1..n) = IF 1 > n THEN 0 ELSE n - 1 + 1
    BY <2>1, FS_Interval
  <2>3. Cardinality(1..n) = n
    BY <2>1, <2>2
  <2> QED BY <2>2, <2>3 DEF n
<1> QED BY <1>2, <1>3, FS_Bijection

\* The snapshot ForEachChunk walks lists the entries of the table.
LEMMA SnapshotEntries ==
    ASSUME NEW s \in Seq(Row)
    PROVE  /\ Snapshot(s) \in Seq(Entry)
           /\ \A n \in DOMAIN Snapshot(s) : Snapshot(s)[n] \in Entries(s)
<1>1. Len(s) \in Nat /\ DOMAIN s = 1..Len(s) /\ \A n \in 1..Len(s) : s[n] \in Row
  OBVIOUS
<1>2. Snapshot(s) \in [1..Len(s) -> Entry]
  BY <1>1 DEF Snapshot, Entry
<1>3. Snapshot(s) \in Seq(Entry)
  BY <1>1, <1>2, SeqDef
<1>4. \A n \in DOMAIN Snapshot(s) : Snapshot(s)[n] \in Entries(s)
  BY DEF Snapshot, Entries
<1> QED BY <1>3, <1>4

\* The calls the model enumerates are calls.
LEMMA BatchesType == Batches \subseteq Seq(DocumentInput)
<1> SUFFICES ASSUME NEW b \in Batches PROVE b \in Seq(DocumentInput)
  OBVIOUS
<1> DEFINE Input == [document_id : Document,
                     chunks : UNION { [1..n -> Dim] : n \in 0..MaxChunks }]
<1>1. PICK n \in 0..MaxBatch : b \in [1..n -> Input]
  BY DEF Batches
<1>2. Input \subseteq DocumentInput
  <2> SUFFICES ASSUME NEW x \in Input PROVE x \in DocumentInput
    OBVIOUS
  <2>1. PICK m \in 0..MaxChunks : x.chunks \in [1..m -> Dim]
    OBVIOUS
  <2>2. x.chunks \in Seq(Dim)
    BY <2>1, ConstantsAssumption, SeqDef
  <2> QED BY <2>2 DEF DocumentInput
<1>3. b \in [1..n -> DocumentInput] /\ n \in Nat
  BY <1>1, <1>2, ConstantsAssumption
<1> QED BY <1>3, SeqDef

-----------------------------------------------------------------------------
(* Types. *)

TypeInv == TypeOK /\ LoopInv

\* Ending a call, in whichever way, leaves the instances typed, and outside
\* the insert loop.
LEMMA ThrowType ==
    ASSUME InstanceType, LoopInv, NEW i \in Instance, Throw(i)
    PROVE  InstanceType' /\ LoopInv'
<1>1. CASE up[i] /\ pc' = [pc EXCEPT ![i] = "idle"] /\ ForgetCall(i)
           /\ UNCHANGED <<objects, owed>>
  BY <1>1 DEF InstanceType, LoopInv, ForgetCall, objects, Start, Control
<1>2. CASE ~up[i] /\ Destroy(i)
  BY <1>2 DEF InstanceType, LoopInv, Destroy, ForgetCall, Start, Control
<1> QED BY <1>1, <1>2 DEF Throw

LEMMA DestroyType ==
    ASSUME InstanceType, LoopInv, NEW i \in Instance, Destroy(i)
    PROVE  InstanceType' /\ LoopInv'
BY DEF InstanceType, LoopInv, Destroy, ForgetCall, Start, Control

LEMMA ReturnType ==
    ASSUME TablesType, InstanceType, LoopInv, NEW i \in Instance, Return(i)
    PROVE  InstanceType' /\ LoopInv'
<1>1. Entries(db.chunks) \subseteq Entry
  BY EntriesType DEF TablesType, Tables
<1> DEFINE mine == { e \in Entries(db.chunks) : e.row.document_id \in DocumentsOf(batch[i]) }
<1>2. mine \subseteq Entry
  BY <1>1
<1>3. owed' = [owed EXCEPT ![i] = @ \cup mine]
  BY DEF Return
<1> HIDE DEF mine
<1>4. owed' \in [Instance -> SUBSET Entry]
  BY <1>2, <1>3 DEF InstanceType
<1>5. InstanceType'
  BY <1>4 DEF InstanceType, Return, ForgetCall, Start, Control
<1>6. LoopInv'
  BY DEF InstanceType, LoopInv, Return, ForgetCall, Control
<1> QED BY <1>5, <1>6

\* Keys of one graph around vectors of several: entries again.
LEMMA MixesType ==
    ASSUME NEW graph \in SUBSET Entry, NEW graphs \in SUBSET SUBSET Entry,
           NEW m \in Mixes(graph, graphs)
    PROVE  m \subseteq Entry
<1>1. PICK slots \in [graph -> UNION graphs] :
        m = { [id |-> e.id, row |-> slots[e].row] : e \in graph }
  BY DEF Mixes
<1>2. \A e \in graph : slots[e] \in Entry
  OBVIOUS
<1> QED BY <1>1, <1>2 DEF Entry

\* What an instance leaves of a file by writing it, or by not finishing it.
LEMMA UnreadableType ==
    ASSUME NEW file \in File, NEW i \in Instance
    PROVE  Unreadable(file, i) \in File
BY DEF Unreadable, File

LEMMA WrittenType ==
    ASSUME InstanceType, NEW file \in File, NEW i \in Instance
    PROVE  Written(file, i) \subseteq File
<1> DEFINE graphs   == { index[w] : w \in file.writers } \cup {file.entries}
           saved(m) == [state   |-> IF m = index[i] /\ i \notin garbled
                                    THEN "whole" ELSE "mixed",
                        dim     |-> dim[i], entries |-> m,
                        writers |-> file.writers \ {i}]
<1>1. index[i] \in SUBSET Entry /\ dim[i] \in Dim \cup {0}
  BY DEF InstanceType
<1>2. graphs \in SUBSET SUBSET Entry
  BY DEF InstanceType, File
<1>3. \A m \in SUBSET Entry : saved(m) \in File
  BY <1>1 DEF File
<1>4. \A m \in Mixes(index[i], graphs) : m \in SUBSET Entry
  BY <1>1, <1>2, MixesType
<1> HIDE DEF graphs, saved
<1>5. /\ saved(index[i]) \in File
      /\ { saved(m) : m \in Mixes(index[i], graphs) } \subseteq File
  BY <1>1, <1>3, <1>4
<1>6. Written(file, i) \subseteq
        {file, saved(index[i]), Unreadable(file, i)}
        \cup { saved(m) : m \in Mixes(index[i], graphs) }
  BY DEF Written, graphs, saved
<1> QED BY <1>5, <1>6, UnreadableType

LEMMA AbandonedType ==
    ASSUME NEW file \in File, NEW i \in Instance
    PROVE  Abandoned(file, i) \subseteq File
<1>1. [file EXCEPT !.writers = @ \ {i}] \in File
  BY DEF File
<1> QED BY <1>1, UnreadableType DEF Abandoned

LEMMA RollbackType ==
    ASSUME TablesType, NEW i \in Instance, Rollback(i)
    PROVE  TablesType'
BY DEF TablesType, Rollback

\* The document the insert loop stands on is one of the call.
LEMMA CurrentType ==
    ASSUME InstanceType, NEW i \in Instance, at[i].doc <= Len(batch[i])
    PROVE  /\ Current(i) \in DocumentInput
           /\ Current(i).document_id \in Document
           /\ Current(i).chunks \in Seq(Dim)
<1>1. batch[i] \in Seq(DocumentInput) /\ at[i].doc \in Nat \ {0}
  BY DEF InstanceType
<1>2. at[i].doc \in 1..Len(batch[i])
  BY <1>1
<1>3. batch[i][at[i].doc] \in DocumentInput
  BY <1>1, <1>2, ElementOfSeq
<1> QED BY <1>3 DEF Current, DocumentInput

LEMMA InitType == Init => TypeInv
<1> SUFFICES ASSUME Init PROVE TypeInv
  OBVIOUS
<1>1. NoTables \in Tables
  BY DEF NoTables, Tables
<1>2. AbsentFile \in File
  BY DEF AbsentFile, File
<1>3. TablesType /\ FilesType
  BY <1>1, <1>2 DEF Init, TablesType, FilesType
<1>4. InstanceType
  BY DEF Init, InstanceType, Control, Start
<1>5. LoopInv
  BY DEF Init, LoopInv
<1> QED BY <1>3, <1>4, <1>5 DEF TypeInv, TypeOK

LEMMA TypeStep ==
    ASSUME TypeInv, [Next]_vars
    PROVE  TypeInv'
<1> USE DEF TypeInv, TypeOK
<1>1. ASSUME NEW i \in Instance, NEW d \in Dim, Open(i, d)
      PROVE  TypeInv'
  BY <1>1 DEF Open, TablesType, FilesType, InstanceType, LoopInv, tables, files,
     call, Control
<1>2. ASSUME NEW i \in Instance, NEW b \in Batches, AddDocuments(i, b)
      PROVE  TypeInv'
  <2>1. b \in Seq(DocumentInput)
    BY BatchesType
  <2> QED
    BY <1>2, <2>1 DEF AddDocuments, TablesType, FilesType, InstanceType, LoopInv,
       tables, files, objects, Control
<1>3. ASSUME NEW i \in Instance, LoadSidecar(i)
      PROVE  TypeInv'
  BY <1>3 DEF LoadSidecar, TablesType, FilesType, InstanceType, LoopInv, tables,
     files, call, Control, File
<1>4. ASSUME NEW i \in Instance, TrustSidecar(i)
      PROVE  TypeInv'
  <2>1. Entries(db.chunks) \subseteq Entry
    BY EntriesType DEF TablesType, Tables
  <2> QED
    BY <1>4, <2>1 DEF TrustSidecar, TablesType, FilesType, InstanceType, LoopInv,
       tables, files, call, Control
<1>5. ASSUME NEW i \in Instance, DiscardSidecar(i)
      PROVE  TypeInv'
  BY <1>5 DEF DiscardSidecar, TablesType, FilesType, InstanceType, LoopInv, tables,
     files, call, Control
<1>6. ASSUME NEW i \in Instance, ScanChunks(i)
      PROVE  TypeInv'
  <2>1. Entries(db.chunks) \subseteq Entry /\ Snapshot(db.chunks) \in Seq(Entry)
    BY EntriesType, SnapshotEntries DEF TablesType, Tables
  <2> QED
    BY <1>6, <2>1 DEF ScanChunks, TablesType, FilesType, InstanceType, LoopInv,
       tables, files, objects, Control
<1>7. ASSUME NEW i \in Instance, Begin(i)
      PROVE  TypeInv'
  BY <1>7 DEF Begin, TablesType, FilesType, InstanceType, LoopInv, tables, files,
     objects, call, Control
<1>8. ASSUME NEW i \in Instance, BeginFails(i)
      PROVE  TypeInv'
  <2>1. TablesType' /\ FilesType'
    BY <1>8 DEF BeginFails, TablesType, FilesType, tables, files
  <2> QED BY <1>8, <2>1, ThrowType DEF BeginFails
<1>9. ASSUME NEW i \in Instance, InsertDocumentRow(i)
      PROVE  TypeInv'
  <2>1. Current(i).document_id \in Document
    BY <1>9, CurrentType DEF InsertDocumentRow
  <2>2. TablesType'
    BY <1>9, <2>1 DEF InsertDocumentRow, TablesType, Tables
  <2>3. InstanceType' /\ FilesType'
    BY <1>9 DEF InsertDocumentRow, InstanceType, FilesType, files, objects, call, Control
  <2>4. LoopInv'
    BY <1>9 DEF InsertDocumentRow, LoopInv, InstanceType, call
  <2> QED BY <2>2, <2>3, <2>4
<1>10. ASSUME NEW i \in Instance, InsertChunkRow(i)
       PROVE  TypeInv'
  <2> DEFINE row == [document_id |-> Current(i).document_id,
                     chunk_index |-> at[i].chunk,
                     size        |-> Current(i).chunks[at[i].chunk + 1]]
             e   == [id |-> Len(work.chunks) + 1, row |-> row]
  <2>1. /\ Current(i).document_id \in Document
        /\ Current(i).chunks \in Seq(Dim)
    BY <1>10, CurrentType DEF InsertChunkRow, LoopInv
  <2>2. at[i].chunk \in Nat /\ at[i].chunk < Len(Current(i).chunks)
    BY <1>10 DEF InsertChunkRow, InstanceType
  <2>3. Current(i).chunks[at[i].chunk + 1] \in Dim
    BY <2>1, <2>2
  <2>4. row \in Row
    BY <2>1, <2>2, <2>3 DEF Row
  <2>5. work.chunks \in Seq(Row) /\ Len(work.chunks) \in Nat
    BY DEF TablesType, Tables
  <2>6. e \in Entry
    BY <2>4, <2>5 DEF Entry
  <2>7. /\ work' = [work EXCEPT !.chunks = Append(@, row)]
        /\ pending' = [pending EXCEPT ![i] = Append(@, e)]
    BY <1>10 DEF InsertChunkRow
  <2> HIDE DEF row, e
  <2>8. TablesType'
    <3>1. Append(work.chunks, row) \in Seq(Row)
      BY <2>4, <2>5
    <3>2. work' \in Tables
      BY <2>7, <3>1 DEF TablesType, Tables
    <3> QED BY <1>10, <3>2 DEF InsertChunkRow, TablesType
  <2>9. pending' \in [Instance -> Seq(Entry)] /\ pending'[i] # <<>>
    <3>1. pending[i] \in Seq(Entry) /\ pending \in [Instance -> Seq(Entry)]
      BY DEF InstanceType
    <3>2. Append(pending[i], e) \in Seq(Entry) /\ Append(pending[i], e) # <<>>
      BY <2>6, <3>1
    <3> QED BY <2>7, <3>1, <3>2
  <2>10. InstanceType' /\ FilesType'
    BY <1>10, <2>9 DEF InsertChunkRow, InstanceType, FilesType, files, objects, Control
  <2>11. LoopInv'
    BY <1>10, <2>7, <2>9 DEF InsertChunkRow, LoopInv, InstanceType
  <2> QED BY <2>8, <2>10, <2>11
<1>11. ASSUME NEW i \in Instance, InsertChunkFtsRow(i)
       PROVE  TypeInv'
  <2>1. pending[i] \in Seq(Entry) /\ pending[i] # <<>>
    BY <1>11 DEF InsertChunkFtsRow, LoopInv, InstanceType
  <2>2. pending[i][Len(pending[i])] \in Entry
    BY <2>1
  <2>3. TablesType'
    BY <1>11, <2>2 DEF InsertChunkFtsRow, TablesType, Tables
  <2>4. InstanceType' /\ FilesType'
    <3>1. at' \in [Instance -> [doc : Nat \ {0}, chunk : Nat]]
      <4>1. at[i] \in [doc : Nat \ {0}, chunk : Nat]
        BY DEF InstanceType
      <4>2. [at[i] EXCEPT !.chunk = @ + 1] \in [doc : Nat \ {0}, chunk : Nat]
        BY <4>1
      <4>3. at' = [at EXCEPT ![i] = [at[i] EXCEPT !.chunk = @ + 1]]
        BY <1>11 DEF InsertChunkFtsRow
      <4> QED BY <4>2, <4>3 DEF InstanceType
    <3> QED
      BY <1>11, <3>1 DEF InsertChunkFtsRow, InstanceType, FilesType, files, objects, Control
  <2>5. LoopInv'
    BY <1>11 DEF InsertChunkFtsRow, LoopInv, InstanceType
  <2> QED BY <2>3, <2>4, <2>5
<1>12. ASSUME NEW i \in Instance, NextDocument(i)
       PROVE  TypeInv'
  <2>1. TablesType' /\ FilesType' /\ InstanceType'
    BY <1>12 DEF NextDocument, TablesType, FilesType, InstanceType, tables, files,
       objects, Control
  <2>2. LoopInv'
    BY <1>12 DEF NextDocument, LoopInv, InstanceType
  <2> QED BY <2>1, <2>2
<1>13. ASSUME NEW i \in Instance, InsertFails(i)
       PROVE  TypeInv'
  BY <1>13, ThrowType, RollbackType DEF InsertFails, FilesType, files
<1>14. ASSUME NEW i \in Instance, Commit(i)
       PROVE  TypeInv'
  BY <1>14 DEF Commit, Inserted, TablesType, FilesType, InstanceType, LoopInv, files,
     objects, call, Control
<1>15. ASSUME NEW i \in Instance, CommitFails(i)
       PROVE  TypeInv'
  <2>1. TablesType'
    BY <1>15, RollbackType DEF CommitFails, TablesType, tables
  <2> QED BY <1>15, <2>1, ThrowType DEF CommitFails, FilesType, files
<1>16. ASSUME NEW i \in Instance, AddVector(i)
       PROVE  TypeInv'
  <2>1. pending[i] \in Seq(Entry) /\ pending[i] # <<>>
    BY <1>16 DEF AddVector, InstanceType
  <2>2. Head(pending[i]) \in Entry /\ Tail(pending[i]) \in Seq(Entry)
    BY <2>1
  <2>3. InstanceType'
    BY <1>16, <2>2 DEF AddVector, InstanceType
  <2>4. TablesType' /\ FilesType' /\ LoopInv'
    BY <1>16 DEF AddVector, TablesType, FilesType, InstanceType, LoopInv, tables, files
  <2> QED BY <2>3, <2>4
<1>17. ASSUME NEW i \in Instance, IndexingFails(i)
       PROVE  TypeInv'
  <2>1. TablesType' /\ FilesType'
    BY <1>17 DEF IndexingFails, TablesType, FilesType, tables, files
  <2> QED BY <1>17, <2>1, ThrowType DEF IndexingFails
<1>18. ASSUME NEW i \in Instance, BeginSave(i)
       PROVE  TypeInv'
  <2>1. FilesType'
    BY <1>18 DEF BeginSave, FilesType, File
  <2>2. TablesType' /\ InstanceType' /\ LoopInv'
    BY <1>18 DEF BeginSave, TablesType, InstanceType, LoopInv, tables, objects, call,
       Control
  <2> QED BY <2>1, <2>2
<1>19. ASSUME NEW i \in Instance, WriteSave(i)
       PROVE  TypeInv'
  <2>1. FilesType'
    BY <1>19, WrittenType DEF WriteSave, FilesType
  <2>2. TablesType' /\ InstanceType' /\ LoopInv'
    BY <1>19 DEF WriteSave, TablesType, InstanceType, LoopInv, tables, objects, call,
       Control
  <2> QED BY <2>1, <2>2
<1>20. ASSUME NEW i \in Instance, SaveFails(i)
       PROVE  TypeInv'
  <2>1. FilesType' /\ TablesType'
    BY <1>20, AbandonedType DEF SaveFails, FilesType, TablesType, tables
  <2> QED BY <1>20, <2>1, ThrowType DEF SaveFails
<1>21. ASSUME NEW i \in Instance, Rename(i)
       PROVE  TypeInv'
  <2>1. FilesType' /\ TablesType'
    BY <1>21 DEF Rename, FilesType, TablesType, tables, AbsentFile, File
  <2> QED BY <1>21, <2>1, ReturnType DEF Rename
<1>22. ASSUME NEW i \in Instance, RenameFails(i)
       PROVE  TypeInv'
  <2>1. FilesType' /\ TablesType'
    BY <1>22 DEF RenameFails, FilesType, TablesType, tables, AbsentFile, File
  <2> QED BY <1>22, <2>1, ThrowType DEF RenameFails
<1>23. ASSUME NEW i \in Instance, Stop(i)
       PROVE  TypeInv'
  <2>1. FilesType' /\ TablesType'
    BY <1>23, AbandonedType, RollbackType DEF Stop, FilesType
  <2> QED BY <1>23, <2>1, DestroyType DEF Stop
<1>24. CASE UNCHANGED vars
  BY <1>24 DEF vars, tables, files, objects, call, TablesType, FilesType, InstanceType,
     LoopInv
<1> QED
  BY <1>1, <1>2, <1>3, <1>4, <1>5, <1>6, <1>7, <1>8, <1>9, <1>10, <1>11, <1>12, <1>13,
     <1>14, <1>15, <1>16, <1>17, <1>18, <1>19, <1>20, <1>21, <1>22, <1>23, <1>24
     DEF Next, Step, Constructor, Transaction, Indexing

\* Every reachable state of ChunkStore is typed; the insert loop never runs off
\* its batch.
THEOREM TypeCorrect == Spec => []TypeOK
<1>1. Init => TypeInv
  BY InitType
<1>2. TypeInv /\ [Next]_vars => TypeInv'
  BY TypeStep
<1>3. TypeInv => TypeOK
  BY DEF TypeInv
<1> QED BY <1>1, <1>2, <1>3, PTL DEF Spec

-----------------------------------------------------------------------------
(* The index, the files and chunks_fts stay in step with `chunks`. *)

\* What Throw, Return and Destroy do to the variables StoreInvariant is about.
Leave(i) ==
    /\ \E l \in {"idle", "closed"} : pc' = [pc EXCEPT ![i] = l]
    /\ pending' = [pending EXCEPT ![i] = <<>>]
    /\ \E s \in {index[i], {}} : index' = [index EXCEPT ![i] = s]
    /\ \A j \in Instance \ garbled' : j \notin garbled \/ index'[j] = {}

LEMMA LeaveShape ==
    ASSUME InstanceType, NEW i \in Instance, Throw(i) \/ Return(i) \/ Destroy(i)
    PROVE  Leave(i)
<1>1. ASSUME Destroy(i) PROVE Leave(i)
  BY <1>1 DEF Destroy, ForgetCall, Leave, InstanceType
<1>2. ASSUME Return(i) PROVE Leave(i)
  <2>1. index' = [index EXCEPT ![i] = index[i]]
    BY <1>2 DEF Return, InstanceType
  <2> QED BY <1>2, <2>1 DEF Return, ForgetCall, Leave
<1>3. ASSUME Throw(i) PROVE Leave(i)
  <2>1. CASE Destroy(i)
    BY <1>1, <2>1
  <2>2. CASE pc' = [pc EXCEPT ![i] = "idle"] /\ ForgetCall(i) /\ UNCHANGED objects
    <3>1. index' = [index EXCEPT ![i] = index[i]] /\ garbled' = garbled
      BY <2>2 DEF objects, InstanceType
    <3> QED BY <2>2, <3>1 DEF ForgetCall, Leave
  <2> QED BY <1>3, <2>1, <2>2 DEF Throw
<1> QED BY <1>1, <1>2, <1>3

\* The parts of StoreInvariant that speak of tables and instances, not files.
RowsInv == LockInv /\ PendingInv /\ FtsInv /\ IndexBackedByRows

\* A call that ends without touching SQLite, outside the insertion of a chunk.
LEMMA LeaveQuietly ==
    ASSUME InstanceType, RowsInv, NEW i \in Instance, Leave(i), pc[i] # "fts",
           UNCHANGED tables
    PROVE  RowsInv'
<1> USE DEF tables
<1>1. PICK l \in {"idle", "closed"}, s \in {index[i], {}} :
        /\ pc' = [pc EXCEPT ![i] = l]
        /\ index' = [index EXCEPT ![i] = s]
  BY DEF Leave
<1>2. pending' = [pending EXCEPT ![i] = <<>>]
  BY DEF Leave
<1>3. LockInv'
  BY <1>1 DEF RowsInv, LockInv, InstanceType
<1>4. PendingInv'
  BY <1>1, <1>2 DEF RowsInv, PendingInv, InstanceType
<1>5. FtsInv'
  BY <1>1, <1>2 DEF RowsInv, FtsInv, InstanceType
<1>6. IndexBackedByRows'
  BY <1>1 DEF RowsInv, IndexBackedByRows, InstanceType, Leave
<1> QED BY <1>3, <1>4, <1>5, <1>6 DEF RowsInv

\* A call that ends having rolled back: the table is what it was.
LEMMA LeaveRolledBack ==
    ASSUME TablesType, InstanceType, RowsInv, NEW i \in Instance, Leave(i), Rollback(i)
    PROVE  RowsInv'
<1>1. PICK l \in {"idle", "closed"}, s \in {index[i], {}} :
        /\ pc' = [pc EXCEPT ![i] = l]
        /\ index' = [index EXCEPT ![i] = s]
  BY DEF Leave
<1>2. pending' = [pending EXCEPT ![i] = <<>>]
  BY DEF Leave
<1>3. db' = db /\ lock' = lock \ {i} /\ work' = IF i \in lock THEN db ELSE work
  BY DEF Rollback
<1>4. \A j \in lock' : j \in lock /\ j # i /\ i \notin lock /\ work' = work
  BY <1>3 DEF RowsInv, LockInv
<1>5. LockInv'
  <2>1. lock' = {} => work' = db'
    BY <1>3 DEF RowsInv, LockInv
  <2>2. Entries(db'.chunks) \subseteq Entries(work'.chunks)
    BY <1>3 DEF RowsInv, LockInv
  <2>3. \A j \in Instance : pc'[j] \in {"chunk", "fts"} => j \in lock'
    BY <1>1, <1>3 DEF RowsInv, LockInv, InstanceType
  <2> QED BY <1>4, <2>1, <2>2, <2>3 DEF RowsInv, LockInv
<1>6. PendingInv'
  BY <1>1, <1>2, <1>3, <1>4 DEF RowsInv, PendingInv, InstanceType
<1>7. FtsInv'
  BY <1>1, <1>2, <1>3, <1>4 DEF RowsInv, FtsInv, InstanceType, TablesType
<1>8. IndexBackedByRows'
  BY <1>1, <1>3 DEF RowsInv, IndexBackedByRows, InstanceType, Leave
<1> QED BY <1>5, <1>6, <1>7, <1>8 DEF RowsInv

\* A step inside a call that touches neither SQLite nor the pending vectors.
LEMMA MoveQuietly ==
    ASSUME InstanceType, RowsInv, NEW i \in Instance, NEW l \in Control,
           pc' = [pc EXCEPT ![i] = l], UNCHANGED <<tables, pending, index, garbled>>,
           pc[i] \notin {"index", "chunk", "fts"}, l \notin {"index", "chunk", "fts"},
           pending[i] = <<>>
    PROVE  RowsInv'
<1> USE DEF tables
<1>1. LockInv'
  BY DEF RowsInv, LockInv, InstanceType
<1>2. PendingInv'
  BY DEF RowsInv, PendingInv, InstanceType
<1>3. FtsInv'
  BY DEF RowsInv, FtsInv, InstanceType
<1>4. IndexBackedByRows'
  BY DEF RowsInv, IndexBackedByRows
<1> QED BY <1>1, <1>2, <1>3, <1>4 DEF RowsInv

\* What SavedBackedByRows says of one file and one table.
Backed(file, rows) == file.state # "mixed" => file.entries \subseteq Entries(rows)

\* The committed table only grows, so saved entries stay backed.
LEMMA SavedKept ==
    ASSUME SavedBackedByRows, Entries(db.chunks) \subseteq Entries(db'.chunks),
           \A file \in {sidecar', temp'} :
               \/ file \in {sidecar, temp}
               \/ \A rows : Backed(file, rows)
    PROVE  SavedBackedByRows'
BY DEF SavedBackedByRows, Backed

LEMMA AbsentBacked == \A rows : Backed(AbsentFile, rows)
BY DEF Backed, AbsentFile

\* A crash adds nothing to a file.
LEMMA AbandonedBacked ==
    ASSUME NEW file \in File, NEW i \in Instance, NEW g \in Abandoned(file, i), NEW rows,
           Backed(file, rows)
    PROVE  Backed(g, rows)
BY DEF Abandoned, Unreadable, Backed, File

\* A writer leaves its own graph, or a file that is mixed.
LEMMA WrittenBacked ==
    ASSUME NEW file \in File, NEW i \in Instance, NEW g \in Written(file, i), NEW rows,
           Backed(file, rows), i \notin garbled => index[i] \subseteq Entries(rows)
    PROVE  Backed(g, rows)
<1> DEFINE saved(m) == [state   |-> IF m = index[i] /\ i \notin garbled
                                    THEN "whole" ELSE "mixed",
                        dim     |-> dim[i], entries |-> m,
                        writers |-> file.writers \ {i}]
<1>1. g = file \/ g = Unreadable(file, i) \/ \E m : g = saved(m)
  BY DEF Written
<1>2. ASSUME NEW m, g = saved(m) PROVE Backed(g, rows)
  <2>1. g.state = (IF m = index[i] /\ i \notin garbled THEN "whole" ELSE "mixed")
        /\ g.entries = m
    BY <1>2
  <2> QED BY <2>1 DEF Backed
<1> HIDE DEF saved
<1> QED BY <1>1, <1>2 DEF Unreadable, Backed

LEMMA StoreInit == Init => StoreInvariant
<1> SUFFICES ASSUME Init PROVE StoreInvariant
  OBVIOUS
<1>1. TypeOK /\ LoopInv
  BY InitType DEF TypeInv
<1>2. Entries(<<>>) = {}
  BY DEF Entries
<1>3. LockInv /\ PendingInv
  BY DEF Init, LockInv, PendingInv
<1>4. FtsInv
  BY <1>2 DEF Init, FtsInv, NoTables
<1>5. IndexBackedByRows /\ SavedBackedByRows
  BY DEF Init, IndexBackedByRows, SavedBackedByRows, AbsentFile
<1> QED BY <1>1, <1>3, <1>4, <1>5 DEF StoreInvariant

\* The steps of the constructor.
LEMMA ConstructorStep ==
    ASSUME StoreInvariant, NEW i \in Instance, Constructor(i)
    PROVE  RowsInv' /\ SavedBackedByRows'
<1> USE DEF StoreInvariant, TypeOK
<1>0. RowsInv
  BY DEF RowsInv
<1>1. SavedBackedByRows'
  BY DEF Constructor, LoadSidecar, TrustSidecar, DiscardSidecar, ScanChunks, tables,
     files, SavedBackedByRows
<1>2. ASSUME LoadSidecar(i) PROVE RowsInv'
  <2>1. IndexBackedByRows'
    BY <1>2 DEF LoadSidecar, IndexBackedByRows, SavedBackedByRows, InstanceType, tables
  <2>2. LockInv' /\ PendingInv' /\ FtsInv'
    BY <1>2 DEF LoadSidecar, LockInv, PendingInv, FtsInv, InstanceType, tables, call
  <2> QED BY <2>1, <2>2 DEF RowsInv
<1>3. ASSUME TrustSidecar(i) PROVE RowsInv'
  <2>1. pc' = [pc EXCEPT ![i] = "idle"] /\ UNCHANGED <<tables, pending, index, garbled>>
    BY <1>3 DEF TrustSidecar, call
  <2>2. pc[i] = "compare" /\ pending[i] = <<>>
    BY <1>3 DEF TrustSidecar, PendingInv
  <2> QED BY <1>0, <2>1, <2>2, MoveQuietly DEF Control
<1>4. ASSUME DiscardSidecar(i) PROVE RowsInv'
  <2>1. IndexBackedByRows'
    BY <1>4 DEF DiscardSidecar, IndexBackedByRows, InstanceType, tables
  <2>2. LockInv' /\ PendingInv' /\ FtsInv'
    BY <1>4 DEF DiscardSidecar, LockInv, PendingInv, FtsInv, InstanceType, tables, call
  <2> QED BY <2>1, <2>2 DEF RowsInv
<1>5. ASSUME ScanChunks(i) PROVE RowsInv'
  <2>1. \A n \in DOMAIN Snapshot(db.chunks) : Snapshot(db.chunks)[n] \in Entries(db.chunks)
    BY SnapshotEntries DEF TablesType, Tables
  <2>2. PendingInv'
    BY <1>5, <2>1 DEF ScanChunks, PendingInv, InstanceType, tables
  <2>3. LockInv' /\ FtsInv' /\ IndexBackedByRows'
    BY <1>5 DEF ScanChunks, LockInv, FtsInv, IndexBackedByRows, InstanceType, tables,
       objects
  <2> QED BY <2>2, <2>3 DEF RowsInv
<1> QED BY <1>1, <1>2, <1>3, <1>4, <1>5 DEF Constructor

\* Inserting the rows of one chunk: `chunks` first, then `chunks_fts`.
LEMMA InsertChunkRowStep ==
    ASSUME StoreInvariant, NEW i \in Instance, InsertChunkRow(i)
    PROVE  RowsInv'
<1> DEFINE row == [document_id |-> Current(i).document_id,
                   chunk_index |-> at[i].chunk,
                   size        |-> Current(i).chunks[at[i].chunk + 1]]
           e   == [id |-> Len(work.chunks) + 1, row |-> row]
<1> USE DEF StoreInvariant, TypeOK
<1>1. /\ pc[i] = "chunk" /\ i \in lock
      /\ work' = [work EXCEPT !.chunks = Append(@, row)]
      /\ pending' = [pending EXCEPT ![i] = Append(@, e)]
      /\ pc' = [pc EXCEPT ![i] = "fts"]
      /\ UNCHANGED <<db, lock, index, garbled>>
  BY DEF InsertChunkRow, LockInv, objects
<1>2. row \in Row
  <2>1. /\ Current(i).document_id \in Document
        /\ Current(i).chunks \in Seq(Dim)
    BY CurrentType DEF InsertChunkRow, LoopInv
  <2>2. at[i].chunk \in Nat /\ at[i].chunk < Len(Current(i).chunks)
    BY DEF InsertChunkRow, InstanceType
  <2>3. Current(i).chunks[at[i].chunk + 1] \in Dim
    BY <2>1, <2>2
  <2> QED BY <2>1, <2>2, <2>3 DEF Row
<1> HIDE DEF row
<1>3. /\ work'.chunks = Append(work.chunks, row)
      /\ work'.fts = work.fts
      /\ Entries(work'.chunks) = Entries(work.chunks) \cup {e}
  BY <1>1, <1>2, EntriesAppend DEF TablesType, Tables
<1> HIDE DEF e
<1>4. \A n \in DOMAIN pending'[i] : pending'[i][n] \in Entries(work'.chunks)
  <2>1. pending[i] \in Seq(Entry) /\ pending'[i] = Append(pending[i], e)
    BY <1>1 DEF InstanceType
  <2>2. \A n \in DOMAIN pending[i] : pending[i][n] \in Entries(work.chunks)
    BY <1>1 DEF PendingInv
  <2> QED BY <1>3, <2>1, <2>2
<1>5. pending'[i][Len(pending'[i])] = e
  <2>1. pending[i] \in Seq(Entry) /\ pending'[i] = Append(pending[i], e)
    BY <1>1 DEF InstanceType
  <2> QED BY <2>1
<1>6. LockInv'
  BY <1>1, <1>3 DEF LockInv, InstanceType
<1>7. PendingInv'
  <2>1. \A j \in Instance : j # i => j \notin lock
    BY <1>1 DEF LockInv
  <2> QED BY <1>1, <1>4, <2>1 DEF PendingInv, InstanceType
<1>8. FtsInv'
  <2>1. \A j \in lock' : j = i
    BY <1>1 DEF LockInv
  <2>2. Entries(work'.chunks) = work'.fts \cup {pending'[i][Len(pending'[i])]}
    BY <1>1, <1>3, <1>5 DEF FtsInv
  <2>3. pc'[i] = "fts"
    BY <1>1 DEF InstanceType
  <2> QED BY <1>1, <2>1, <2>2, <2>3 DEF FtsInv
<1>9. IndexBackedByRows'
  BY <1>1 DEF IndexBackedByRows
<1> QED BY <1>6, <1>7, <1>8, <1>9 DEF RowsInv

LEMMA InsertChunkFtsRowStep ==
    ASSUME StoreInvariant, NEW i \in Instance, InsertChunkFtsRow(i)
    PROVE  RowsInv'
<1> USE DEF StoreInvariant, TypeOK
<1> DEFINE last == pending[i][Len(pending[i])]
<1>1. /\ pc[i] = "fts" /\ i \in lock
      /\ work' = [work EXCEPT !.fts = @ \cup {last}]
      /\ pc' = [pc EXCEPT ![i] = "chunk"]
      /\ UNCHANGED <<db, lock, index, pending, garbled>>
  BY DEF InsertChunkFtsRow, LockInv, objects
<1>2. \A j \in lock : j = i
  BY <1>1 DEF LockInv
<1>3. work'.chunks = work.chunks /\ work'.fts = work.fts \cup {last}
  BY <1>1 DEF TablesType, Tables
<1>4. Entries(work.chunks) = work.fts \cup {last}
  BY <1>1 DEF FtsInv
<1> HIDE DEF last
<1>5. LockInv'
  BY <1>1, <1>3 DEF LockInv, InstanceType
<1>6. PendingInv'
  BY <1>1, <1>2, <1>3 DEF PendingInv, InstanceType
<1>7. FtsInv'
  BY <1>1, <1>2, <1>3, <1>4 DEF FtsInv, InstanceType
<1>8. IndexBackedByRows'
  BY <1>1 DEF IndexBackedByRows
<1> QED BY <1>5, <1>6, <1>7, <1>8 DEF RowsInv

\* The first INSERT of a document: the lock is taken, no chunk row yet.
LEMMA InsertDocumentRowStep ==
    ASSUME StoreInvariant, NEW i \in Instance, InsertDocumentRow(i)
    PROVE  RowsInv'
<1> USE DEF StoreInvariant, TypeOK
<1>1. /\ pc[i] = "document" /\ lock \subseteq {i} /\ lock' = {i}
      /\ work'.chunks = work.chunks /\ work'.fts = work.fts
      /\ pc' = [pc EXCEPT ![i] = "chunk"]
      /\ UNCHANGED <<db, index, pending, garbled>>
  BY DEF InsertDocumentRow, MayWrite, objects, call, TablesType, Tables
<1>2. work.fts = Entries(work.chunks)
  <2>1. CASE lock = {}
    BY <2>1 DEF LockInv, FtsInv
  <2>2. CASE lock = {i}
    BY <1>1, <2>2 DEF FtsInv
  <2> QED BY <1>1, <2>1, <2>2
<1>3. LockInv'
  BY <1>1 DEF LockInv, InstanceType
<1>4. PendingInv'
  <2>1. \A n \in DOMAIN pending[i] : pending[i][n] \in Entries(work.chunks)
    BY <1>1 DEF PendingInv
  <2>2. \A j \in Instance : j # i => j \notin lock /\ j \notin lock'
    BY <1>1
  <2> QED BY <1>1, <2>1, <2>2 DEF PendingInv, InstanceType
<1>5. FtsInv'
  BY <1>1, <1>2 DEF FtsInv, InstanceType
<1>6. IndexBackedByRows'
  BY <1>1 DEF IndexBackedByRows
<1> QED BY <1>3, <1>4, <1>5, <1>6 DEF RowsInv

\* COMMIT publishes rows whose vectors are not in any index yet.
LEMMA CommitStep ==
    ASSUME StoreInvariant, NEW i \in Instance, Commit(i)
    PROVE  RowsInv' /\ Entries(db.chunks) \subseteq Entries(db'.chunks)
<1> USE DEF StoreInvariant, TypeOK
<1>1. /\ pc[i] = "document" /\ pc' = [pc EXCEPT ![i] = "index"]
      /\ db' = IF i \in lock THEN work ELSE db
      /\ lock' = lock \ {i}
      /\ UNCHANGED <<work, index, pending, garbled>>
  BY DEF Commit, Inserted, objects, call
<1>2. Entries(db.chunks) \subseteq Entries(db'.chunks)
  BY <1>1 DEF LockInv
<1>3. \A j \in lock' : i \notin lock
  BY <1>1 DEF LockInv
<1>4. LockInv'
  BY <1>1, <1>3 DEF LockInv, InstanceType
<1>5. PendingInv'
  <2>1. \A n \in DOMAIN pending[i] : pending[i][n] \in Entries(db'.chunks)
    <3>1. CASE i \in lock
      BY <1>1, <3>1 DEF PendingInv
    <3>2. CASE i \notin lock
      BY <1>1, <3>2 DEF PendingInv
    <3> QED BY <3>1, <3>2
  <2>2. ASSUME NEW j \in Instance, j # i
        PROVE  /\ pc'[j] = pc[j] /\ pending'[j] = pending[j] /\ work' = work
               /\ j \in lock' <=> j \in lock
    BY <1>1, <2>2 DEF InstanceType
  <2> QED BY <1>1, <1>2, <2>1, <2>2 DEF PendingInv, InstanceType
<1>6. FtsInv'
  <2>1. db'.fts = Entries(db'.chunks)
    BY <1>1 DEF FtsInv
  <2> QED BY <1>1, <1>3, <2>1 DEF FtsInv, InstanceType
<1>7. IndexBackedByRows'
  BY <1>1, <1>2 DEF IndexBackedByRows
<1> QED BY <1>2, <1>4, <1>5, <1>6, <1>7 DEF RowsInv

\* A vector enters the index after the COMMIT of its row.
LEMMA AddVectorStep ==
    ASSUME StoreInvariant, NEW i \in Instance, AddVector(i)
    PROVE  RowsInv'
<1> USE DEF StoreInvariant, TypeOK
<1>1. /\ pc[i] = "index" /\ pending[i] # <<>>
      /\ index' = [index EXCEPT ![i] = @ \cup {Head(pending[i])}]
      /\ pending' = [pending EXCEPT ![i] = Tail(@)]
      /\ UNCHANGED <<db, work, lock, pc, garbled>>
  BY DEF AddVector, tables
<1>2. pending[i] \in Seq(Entry)
  BY DEF InstanceType
<1>3. Head(pending[i]) \in Entries(db.chunks)
  BY <1>1, <1>2 DEF PendingInv
<1>4. \A n \in DOMAIN Tail(pending[i]) : Tail(pending[i])[n] \in Entries(db.chunks)
  BY <1>1, <1>2 DEF PendingInv
<1>5. LockInv'
  BY <1>1 DEF LockInv
<1>6. PendingInv'
  BY <1>1, <1>4 DEF PendingInv, InstanceType
<1>7. FtsInv'
  BY <1>1 DEF FtsInv, InstanceType
<1>8. IndexBackedByRows'
  BY <1>1, <1>3 DEF IndexBackedByRows, InstanceType
<1> QED BY <1>5, <1>6, <1>7, <1>8 DEF RowsInv

LEMMA TransactionStep ==
    ASSUME StoreInvariant, NEW i \in Instance, Transaction(i)
    PROVE  RowsInv' /\ SavedBackedByRows'
<1> USE DEF StoreInvariant, TypeOK
<1>0. RowsInv
  BY DEF RowsInv
<1>1. UNCHANGED files
  BY DEF Transaction, Begin, BeginFails, InsertDocumentRow, InsertChunkRow,
     InsertChunkFtsRow, NextDocument, InsertFails, Commit, CommitFails, files
<1>2. ASSUME Entries(db.chunks) \subseteq Entries(db'.chunks) PROVE SavedBackedByRows'
  BY <1>1, <1>2, SavedKept DEF files
<1>3. ASSUME Begin(i) PROVE RowsInv' /\ db' = db
  <2>1. pc' = [pc EXCEPT ![i] = "document"] /\ UNCHANGED <<tables, pending, index, garbled>>
    BY <1>3 DEF Begin, call, objects
  <2>2. pc[i] = "begin" /\ pending[i] = <<>>
    BY <1>3 DEF Begin, PendingInv
  <2> QED BY <1>0, <2>1, <2>2, MoveQuietly DEF Control, tables
<1>4. ASSUME BeginFails(i) PROVE RowsInv' /\ db' = db
  BY <1>0, <1>4, LeaveShape, LeaveQuietly DEF BeginFails, tables
<1>5. ASSUME InsertDocumentRow(i) PROVE RowsInv' /\ db' = db
  BY <1>5, InsertDocumentRowStep DEF InsertDocumentRow
<1>6. ASSUME InsertChunkRow(i) PROVE RowsInv' /\ db' = db
  BY <1>6, InsertChunkRowStep DEF InsertChunkRow
<1>7. ASSUME InsertChunkFtsRow(i) PROVE RowsInv' /\ db' = db
  BY <1>7, InsertChunkFtsRowStep DEF InsertChunkFtsRow
<1>8. ASSUME NextDocument(i) PROVE RowsInv' /\ db' = db
  <2>1. /\ pc[i] = "chunk" /\ pc' = [pc EXCEPT ![i] = "document"]
        /\ UNCHANGED <<tables, pending, index, garbled>> /\ i \in lock
    BY <1>8 DEF NextDocument, objects, LockInv
  <2>2. LockInv' /\ PendingInv'
    BY <2>1 DEF LockInv, PendingInv, InstanceType, tables
  <2>3. FtsInv' /\ IndexBackedByRows'
    BY <2>1 DEF FtsInv, IndexBackedByRows, InstanceType, tables
  <2> QED BY <2>1, <2>2, <2>3 DEF RowsInv, tables
<1>9. ASSUME InsertFails(i) PROVE RowsInv' /\ db' = db
  BY <1>0, <1>9, LeaveShape, LeaveRolledBack DEF InsertFails, Rollback
<1>10. ASSUME CommitFails(i) PROVE RowsInv' /\ db' = db
  <2>1. pc[i] # "fts" /\ Leave(i)
    BY <1>10, LeaveShape DEF CommitFails, Inserted
  <2>2. CASE Rollback(i)
    BY <1>0, <2>1, <2>2, LeaveRolledBack DEF Rollback
  <2>3. CASE UNCHANGED tables
    BY <1>0, <2>1, <2>3, LeaveQuietly DEF tables
  <2> QED BY <1>10, <2>2, <2>3 DEF CommitFails
<1>11. ASSUME Commit(i)
       PROVE  RowsInv' /\ Entries(db.chunks) \subseteq Entries(db'.chunks)
  BY <1>11, CommitStep
<1> QED
  BY <1>2, <1>3, <1>4, <1>5, <1>6, <1>7, <1>8, <1>9, <1>10, <1>11 DEF Transaction

LEMMA IndexingStep ==
    ASSUME StoreInvariant, NEW i \in Instance, Indexing(i)
    PROVE  RowsInv' /\ SavedBackedByRows'
<1> USE DEF StoreInvariant, TypeOK
<1>0. RowsInv /\ sidecar \in File /\ temp \in File
  BY DEF RowsInv, FilesType
<1>1. ASSUME AddVector(i) PROVE RowsInv' /\ SavedBackedByRows'
  BY <1>1, AddVectorStep, SavedKept DEF AddVector, tables, files
<1>2. ASSUME IndexingFails(i) PROVE RowsInv' /\ SavedBackedByRows'
  <2>1. UNCHANGED <<tables, files>> /\ pc[i] # "fts" /\ Leave(i)
    BY <1>2, LeaveShape DEF IndexingFails
  <2> QED BY <1>0, <2>1, LeaveQuietly, SavedKept DEF tables, files
<1>3. ASSUME BeginSave(i) PROVE RowsInv' /\ SavedBackedByRows'
  <2>1. /\ pc[i] = "index" /\ pending[i] = <<>> /\ pc' = [pc EXCEPT ![i] = "write"]
        /\ UNCHANGED <<db, work, lock, index, pending, garbled, sidecar>>
    BY <1>3 DEF BeginSave, tables, objects, call
  <2>2. LockInv' /\ PendingInv' /\ FtsInv' /\ IndexBackedByRows'
    BY <2>1 DEF LockInv, PendingInv, FtsInv, IndexBackedByRows, InstanceType
  <2>3. \A rows : Backed(temp', rows)
    <3>1. temp'.entries = {}
      BY <1>3 DEF BeginSave
    <3> QED BY <3>1 DEF Backed
  <2> QED BY <2>1, <2>2, <2>3, SavedKept DEF RowsInv
<1>4. ASSUME WriteSave(i) PROVE RowsInv' /\ SavedBackedByRows'
  <2>1. /\ pc[i] = "write" /\ pc' = [pc EXCEPT ![i] = "rename"]
        /\ UNCHANGED <<tables, pending, index, garbled>>
    BY <1>4 DEF WriteSave, objects, call
  <2>2. RowsInv'
    BY <1>0, <2>1, MoveQuietly DEF Control, PendingInv
  <2>3. \A file \in {sidecar, temp} : Backed(file, db.chunks)
    BY DEF SavedBackedByRows, Backed
  <2>4. i \notin garbled => index[i] \subseteq Entries(db.chunks)
    BY DEF IndexBackedByRows
  <2>5. Backed(temp', db.chunks) /\ Backed(sidecar', db.chunks)
    BY <1>0, <1>4, <2>3, <2>4, WrittenBacked DEF WriteSave
  <2>6. SavedBackedByRows'
    BY <2>1, <2>5 DEF SavedBackedByRows, Backed, tables
  <2> QED BY <2>2, <2>6
<1>5. ASSUME SaveFails(i) PROVE RowsInv' /\ SavedBackedByRows'
  <2>1. UNCHANGED tables /\ pc[i] # "fts" /\ Leave(i)
    BY <1>5, LeaveShape DEF SaveFails
  <2>2. Backed(temp', db.chunks) /\ Backed(sidecar', db.chunks)
    BY <1>0, <1>5, AbandonedBacked DEF SaveFails, SavedBackedByRows, Backed
  <2>3. SavedBackedByRows'
    BY <2>1, <2>2 DEF SavedBackedByRows, Backed, tables
  <2> QED BY <1>0, <2>1, <2>3, LeaveQuietly
<1>6. ASSUME Rename(i) PROVE RowsInv' /\ SavedBackedByRows'
  <2>1. UNCHANGED tables /\ pc[i] # "fts" /\ Leave(i)
    BY <1>6, LeaveShape DEF Rename
  <2>2. sidecar' = temp /\ temp' = AbsentFile
    BY <1>6 DEF Rename
  <2> QED BY <1>0, <2>1, <2>2, AbsentBacked, LeaveQuietly, SavedKept DEF tables
<1>7. ASSUME RenameFails(i) PROVE RowsInv' /\ SavedBackedByRows'
  <2>1. UNCHANGED tables /\ pc[i] # "fts" /\ Leave(i)
    BY <1>7, LeaveShape DEF RenameFails
  <2>2. sidecar' = sidecar /\ temp' = AbsentFile
    BY <1>7 DEF RenameFails
  <2> QED BY <1>0, <2>1, <2>2, AbsentBacked, LeaveQuietly, SavedKept DEF tables
<1> QED BY <1>1, <1>2, <1>3, <1>4, <1>5, <1>6, <1>7 DEF Indexing

LEMMA StoreStep == StoreInvariant /\ [Next]_vars => StoreInvariant'
<1> SUFFICES ASSUME StoreInvariant, [Next]_vars PROVE StoreInvariant'
  OBVIOUS
<1>0. InstanceType /\ RowsInv /\ sidecar \in File /\ temp \in File /\ TablesType
  BY DEF StoreInvariant, TypeOK, RowsInv, FilesType
<1>1. TypeOK' /\ LoopInv'
  BY TypeStep DEF StoreInvariant, TypeInv
<1>2. ASSUME NEW i \in Instance, NEW d \in Dim, Open(i, d)
      PROVE  RowsInv' /\ SavedBackedByRows'
  <2>1. /\ pc[i] = "closed" /\ pending[i] = <<>> /\ pc' = [pc EXCEPT ![i] = "load"]
        /\ UNCHANGED <<tables, files, pending, index, garbled>>
    BY <1>2 DEF Open, call, StoreInvariant, PendingInv
  <2>2. RowsInv'
    BY <1>0, <2>1, MoveQuietly DEF Control
  <2> QED BY <2>1, <2>2, SavedKept DEF tables, files, StoreInvariant
<1>3. ASSUME NEW i \in Instance, NEW b \in Batches, AddDocuments(i, b)
      PROVE  RowsInv' /\ SavedBackedByRows'
  <2>1. /\ pc[i] = "idle" /\ pending[i] = <<>> /\ pc' = [pc EXCEPT ![i] = "begin"]
        /\ UNCHANGED <<tables, files, pending, index, garbled>>
    BY <1>3 DEF AddDocuments, objects, StoreInvariant, PendingInv
  <2>2. RowsInv'
    BY <1>0, <2>1, MoveQuietly DEF Control
  <2> QED BY <2>1, <2>2, SavedKept DEF tables, files, StoreInvariant
<1>4. ASSUME NEW i \in Instance, Stop(i)
      PROVE  RowsInv' /\ SavedBackedByRows'
  <2>1. Rollback(i) /\ Leave(i)
    BY <1>0, <1>4, LeaveShape DEF Stop
  <2>2. Backed(temp', db.chunks) /\ Backed(sidecar', db.chunks) /\ db' = db
    BY <1>0, <1>4, AbandonedBacked DEF Stop, Rollback, StoreInvariant, SavedBackedByRows,
       Backed
  <2>3. SavedBackedByRows'
    BY <2>2 DEF SavedBackedByRows, Backed
  <2> QED BY <1>0, <2>1, <2>3, LeaveRolledBack
<1>5. ASSUME UNCHANGED vars
      PROVE  RowsInv' /\ SavedBackedByRows'
  <2> USE <1>5 DEF vars, tables, files, objects, call
  <2>1. LockInv' /\ PendingInv'
    BY <1>0 DEF RowsInv, LockInv, PendingInv
  <2>2. FtsInv' /\ IndexBackedByRows'
    BY <1>0 DEF RowsInv, FtsInv, IndexBackedByRows
  <2> QED BY <2>1, <2>2 DEF RowsInv, StoreInvariant, SavedBackedByRows
<1>6. RowsInv' /\ SavedBackedByRows'
  BY <1>2, <1>3, <1>4, <1>5, ConstructorStep, TransactionStep, IndexingStep DEF Next, Step
<1> QED BY <1>1, <1>6 DEF StoreInvariant, RowsInv

\* The invariant all the others rest on holds throughout.
THEOREM StoreCorrect == Spec => []StoreInvariant
BY StoreInit, StoreStep, PTL DEF Spec

\* No instance's index ever holds a vector without its committed row
\* (ADR-2: the index is never ahead of SQLite).
THEOREM IndexNeverAhead == Spec => []IndexBackedByRows
<1>1. StoreInvariant => IndexBackedByRows
  BY DEF StoreInvariant
<1> QED BY <1>1, StoreCorrect, PTL

\* Nor does the sidecar, nor the temporary file it is renamed from.
THEOREM SidecarNeverAhead == Spec => []SavedBackedByRows
<1>1. StoreInvariant => SavedBackedByRows
  BY DEF StoreInvariant
<1> QED BY <1>1, StoreCorrect, PTL

\* chunks_fts lists the committed chunks, after every success and every failure.
THEOREM SparseIndexInStep == Spec => []FtsInStep
<1>1. StoreInvariant => FtsInStep
  BY DEF StoreInvariant, FtsInv, FtsInStep
<1> QED BY <1>1, StoreCorrect, PTL

-----------------------------------------------------------------------------
(* The row-count check of the constructor. *)

\* Only TrustSidecar raises the flag.
LEMMA LoadedSetByTrust ==
    ASSUME InstanceType, [Next]_vars, NEW i \in Instance, ~loaded[i], loaded'[i]
    PROVE  TrustSidecar(i)
<1>1. ASSUME NEW j \in Instance, Throw(j) \/ Return(j) \/ Destroy(j)
      PROVE  loaded'[i] = loaded[i] \/ ~loaded'[i]
  <2>1. CASE Destroy(j)
    BY <2>1 DEF Destroy, InstanceType
  <2>2. CASE UNCHANGED loaded
    BY <2>2
  <2> QED BY <1>1, <2>1, <2>2 DEF Throw, Return, objects
<1>2. ASSUME UNCHANGED loaded PROVE FALSE
  BY <1>2
<1>3. ASSUME NEW j \in Instance, Constructor(j) PROVE TrustSidecar(i)
  <2>1. CASE TrustSidecar(j)
    <3>1. j = i
      BY <2>1 DEF TrustSidecar, InstanceType
    <3> QED BY <2>1, <3>1
  <2>2. CASE LoadSidecar(j) \/ DiscardSidecar(j) \/ ScanChunks(j)
    BY <1>2, <2>2 DEF LoadSidecar, DiscardSidecar, ScanChunks, objects
  <2> QED BY <1>3, <2>1, <2>2 DEF Constructor
<1>4. ASSUME NEW j \in Instance, Transaction(j) PROVE FALSE
  <2>1. CASE BeginFails(j) \/ InsertFails(j) \/ CommitFails(j)
    BY <1>1, <2>1 DEF BeginFails, InsertFails, CommitFails
  <2>2. CASE UNCHANGED loaded
    BY <1>2, <2>2
  <2> QED
    BY <1>4, <2>1, <2>2 DEF Transaction, Begin, InsertDocumentRow, InsertChunkRow,
       InsertChunkFtsRow, NextDocument, Commit, objects
<1>5. ASSUME NEW j \in Instance, Indexing(j) PROVE FALSE
  <2>1. CASE IndexingFails(j) \/ SaveFails(j) \/ RenameFails(j) \/ Rename(j)
    BY <1>1, <2>1 DEF IndexingFails, SaveFails, RenameFails, Rename
  <2>2. CASE UNCHANGED loaded
    BY <1>2, <2>2
  <2> QED BY <1>5, <2>1, <2>2 DEF Indexing, AddVector, BeginSave, WriteSave, objects
<1>6. ASSUME NEW j \in Instance, Stop(j) PROVE FALSE
  BY <1>1, <1>6 DEF Stop
<1>7. ASSUME NEW j \in Instance, NEW d \in Dim, Open(j, d) PROVE FALSE
  BY <1>2, <1>7 DEF Open
<1>8. ASSUME NEW j \in Instance, NEW b \in Batches, AddDocuments(j, b) PROVE FALSE
  BY <1>2, <1>8 DEF AddDocuments, objects
<1>9. ASSUME UNCHANGED vars PROVE FALSE
  BY <1>2, <1>9 DEF vars, objects
<1> QED BY <1>3, <1>4, <1>5, <1>6, <1>7, <1>8, <1>9 DEF Next, Step

\* Among subsets of the table, equal counts mean equal contents: a loaded graph
\* of one writer that passes the check lists every row and nothing else.
LEMMA EqualCountsEqualContents ==
    ASSUME StoreInvariant, NEW i \in Instance, CountsAgree(i), i \notin garbled
    PROVE  index[i] = Entries(db.chunks)
<1>1. index[i] \in SUBSET Entries(db.chunks) /\ db.chunks \in Seq(Row)
  BY DEF StoreInvariant, TypeOK, TablesType, Tables, IndexBackedByRows
<1>2. IsFiniteSet(Entries(db.chunks)) /\ Cardinality(Entries(db.chunks)) = Len(db.chunks)
  BY <1>1, EntriesCardinality
<1>3. Cardinality(Entries(db.chunks)) = Cardinality(index[i])
  BY <1>2 DEF CountsAgree
<1> QED BY <1>1, <1>2, <1>3, FS_Subset

\* A sidecar that goes back to one engine's saves, however many engines there
\* are, is complete and right if it is accepted by its count (chunk_store.cpp:36-40).
THEOREM TrustIsSound == Spec => TrustedSidecarIsComplete
<1>1. ASSUME StoreInvariant, [Next]_vars
      PROVE  [\A i \in Instance : ~loaded[i] /\ loaded'[i] /\ i \notin garbled =>
                index'[i] = Entries(db.chunks)]_vars
  <2> SUFFICES ASSUME NEW i \in Instance, ~loaded[i], loaded'[i], i \notin garbled
               PROVE  index'[i] = Entries(db.chunks)
    OBVIOUS
  <2>1. TrustSidecar(i)
    BY <1>1, LoadedSetByTrust DEF StoreInvariant, TypeOK
  <2>2. index[i] = Entries(db.chunks)
    BY <1>1, <2>1, EqualCountsEqualContents DEF TrustSidecar
  <2> QED BY <2>1, <2>2 DEF TrustSidecar
<1> QED BY <1>1, StoreCorrect, PTL DEF Spec, TrustedSidecarIsComplete
=============================================================================
