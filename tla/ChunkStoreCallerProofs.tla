----------------------- MODULE ChunkStoreCallerProofs -----------------------
(***************************************************************************)
(* What the callers of ChunkStore rely on: that a document is stored whole *)
(* and once, that the rows a call stored are found afterwards, and that no *)
(* vector is refused for an id the index holds already.  On top of         *)
(* StoreInvariant this takes the account of one transaction: which rows of *)
(* which documents of its batch the insert loop has written so far.        *)
(***************************************************************************)
EXTENDS ChunkStoreProofs, MCChunkStore

-----------------------------------------------------------------------------
(* One instance acts at a time. *)

Acts(i) ==
    \/ \E d \in Dim : Open(i, d)
    \/ \E b \in Batches : AddDocuments(i, b)
    \/ Step(i)
    \/ Stop(i)

\* A step of another instance touches nothing of instance j's own.
Untouched(j) ==
    /\ pc'[j] = pc[j] /\ up'[j] = up[j] /\ dim'[j] = dim[j]
    /\ index'[j] = index[j] /\ loaded'[j] = loaded[j]
    /\ batch'[j] = batch[j] /\ at'[j] = at[j] /\ pending'[j] = pending[j]
    /\ owed'[j] = owed[j] /\ (j \in garbled' <=> j \in garbled)

Ends(i) == Throw(i) \/ Return(i) \/ Destroy(i)

\* How a call ends, for the instance itself ...
LEMMA EndShape ==
    ASSUME InstanceType, NEW i \in Instance, Ends(i)
    PROVE  /\ batch'[i] = <<>> /\ at'[i] = Start /\ pending'[i] = <<>>
           /\ \/ /\ pc'[i] = "idle" /\ up'[i] /\ index'[i] = index[i] /\ dim'[i] = dim[i]
                 /\ (i \in garbled' <=> i \in garbled)
                 /\ \/ up[i] /\ owed'[i] = owed[i]
                    \/ Return(i)
              \/ /\ pc'[i] = "closed" /\ ~up'[i] /\ index'[i] = {} /\ dim'[i] = 0
                 /\ owed'[i] = {} /\ i \notin garbled'
<1>1. ASSUME ForgetCall(i)
      PROVE  batch'[i] = <<>> /\ at'[i] = Start /\ pending'[i] = <<>>
  BY <1>1 DEF ForgetCall, InstanceType
<1>2. CASE Return(i)
  BY <1>1, <1>2 DEF Return, InstanceType
<1>3. ASSUME Destroy(i)
      PROVE  /\ ForgetCall(i) /\ pc'[i] = "closed" /\ ~up'[i] /\ index'[i] = {}
             /\ dim'[i] = 0 /\ owed'[i] = {} /\ i \notin garbled'
  BY <1>3 DEF Destroy, InstanceType
<1>4. CASE up[i] /\ pc' = [pc EXCEPT ![i] = "idle"] /\ ForgetCall(i)
           /\ UNCHANGED <<objects, owed>>
  BY <1>1, <1>4 DEF objects, InstanceType
<1>5. CASE ~up[i] /\ Destroy(i)
  BY <1>1, <1>3, <1>5
<1>6. CASE Destroy(i)
  BY <1>1, <1>3, <1>6
<1> QED BY <1>2, <1>4, <1>5, <1>6 DEF Ends, Throw

\* Only the end of a constructor, or of the object, closes an instance.
LEMMA OpenAfter ==
    ASSUME InstanceType, NEW i \in Instance, (up[i] /\ Throw(i)) \/ Return(i)
    PROVE  up'[i]
BY DEF Throw, Return, objects, InstanceType

\* ... and for the others.
LEMMA EndElsewhere ==
    ASSUME InstanceType, NEW i \in Instance, Ends(i), NEW j \in Instance, j # i
    PROVE  Untouched(j)
<1>1. CASE Return(i)
  BY <1>1 DEF Return, ForgetCall, Untouched, InstanceType
<1>2. CASE Destroy(i)
  BY <1>2 DEF Destroy, ForgetCall, Untouched, InstanceType
<1>3. CASE up[i] /\ pc' = [pc EXCEPT ![i] = "idle"] /\ ForgetCall(i)
           /\ UNCHANGED <<objects, owed>>
  BY <1>3 DEF ForgetCall, Untouched, InstanceType, objects
<1> QED BY <1>1, <1>2, <1>3 DEF Ends, Throw

LEMMA Elsewhere ==
    ASSUME InstanceType, NEW i \in Instance, Acts(i), NEW j \in Instance, j # i
    PROVE  Untouched(j)
<1> USE DEF Untouched, InstanceType, objects, call
<1>1. CASE \E d \in Dim : Open(i, d)
  BY <1>1 DEF Open
<1>2. CASE \E b \in Batches : AddDocuments(i, b)
  BY <1>2 DEF AddDocuments
<1>3. CASE Constructor(i)
  BY <1>3 DEF Constructor, LoadSidecar, TrustSidecar, DiscardSidecar, ScanChunks
<1>4. CASE Transaction(i)
  <2>1. CASE BeginFails(i) \/ InsertFails(i) \/ CommitFails(i)
    BY <2>1, EndElsewhere DEF BeginFails, InsertFails, CommitFails, Ends
  <2>2. CASE Begin(i) \/ InsertDocumentRow(i) \/ NextDocument(i) \/ Commit(i)
    BY <2>2 DEF Begin, InsertDocumentRow, NextDocument, Commit
  <2>3. CASE InsertChunkRow(i) \/ InsertChunkFtsRow(i)
    BY <2>3 DEF InsertChunkRow, InsertChunkFtsRow
  <2> QED BY <1>4, <2>1, <2>2, <2>3 DEF Transaction
<1>5. CASE Indexing(i)
  <2>1. CASE IndexingFails(i) \/ SaveFails(i) \/ Rename(i) \/ RenameFails(i)
    BY <2>1, EndElsewhere DEF IndexingFails, SaveFails, Rename, RenameFails, Ends
  <2>2. CASE AddVector(i) \/ BeginSave(i) \/ WriteSave(i)
    BY <2>2 DEF AddVector, BeginSave, WriteSave
  <2> QED BY <1>5, <2>1, <2>2 DEF Indexing
<1>6. CASE Stop(i)
  BY <1>6, EndElsewhere DEF Stop, Ends
<1> QED BY <1>1, <1>2, <1>3, <1>4, <1>5, <1>6 DEF Acts, Step

\* What a step may do to the tables: nothing, an insertion under the lock, a
\* rollback, or a commit.
LEMMA TablesShape ==
    ASSUME StoreInvariant, NEW i \in Instance, Acts(i)
    PROVE  \/ UNCHANGED tables
           \/ db' = db /\ lock \subseteq {i} /\ lock' = {i} /\ pc[i] \in {"document", "chunk", "fts"}
           \/ Rollback(i)
           \/ Commit(i)
<1>1. CASE \E d \in Dim : Open(i, d)
  BY <1>1 DEF Open
<1>2. CASE \E b \in Batches : AddDocuments(i, b)
  BY <1>2 DEF AddDocuments
<1>3. CASE Constructor(i)
  BY <1>3 DEF Constructor, LoadSidecar, TrustSidecar, DiscardSidecar, ScanChunks
<1>4. CASE Transaction(i)
  <2>1. CASE InsertFails(i) \/ CommitFails(i) \/ Commit(i) \/ Begin(i) \/ BeginFails(i)
    BY <2>1 DEF InsertFails, CommitFails, Begin, BeginFails
  <2>2. CASE InsertDocumentRow(i) \/ NextDocument(i)
    BY <2>2 DEF InsertDocumentRow, NextDocument, MayWrite
  <2>3. CASE InsertChunkRow(i) \/ InsertChunkFtsRow(i)
    <3>1. db' = db /\ lock' = lock /\ pc[i] \in {"chunk", "fts"}
      BY <2>3 DEF InsertChunkRow, InsertChunkFtsRow
    <3>2. i \in lock /\ \A j \in lock : j = i
      BY <3>1 DEF StoreInvariant, LockInv
    <3> QED BY <3>1, <3>2
  <2> QED BY <1>4, <2>1, <2>2, <2>3 DEF Transaction
<1>5. CASE Indexing(i)
  BY <1>5 DEF Indexing, AddVector, IndexingFails, BeginSave, WriteSave, SaveFails, Rename,
     RenameFails
<1>6. CASE Stop(i)
  BY <1>6 DEF Stop
<1> QED BY <1>1, <1>2, <1>3, <1>4, <1>5, <1>6 DEF Acts, Step

\* A transaction is left alone by the other instances.
LEMMA LockElsewhere ==
    ASSUME StoreInvariant, NEW i \in Instance, Acts(i), NEW j \in Instance, j # i
    PROVE  /\ j \in lock' <=> j \in lock
           /\ j \in lock => UNCHANGED tables
<1>1. \A k \in lock : j \in lock => k = j
  BY DEF StoreInvariant, LockInv
<1>2. CASE UNCHANGED tables
  BY <1>2 DEF tables
<1>3. CASE lock \subseteq {i} /\ lock' = {i}
  BY <1>3
<1>4. CASE Rollback(i)
  BY <1>1, <1>4 DEF Rollback, tables
<1>5. CASE Commit(i)
  BY <1>1, <1>5 DEF Commit, tables
<1> QED BY <1>2, <1>3, <1>4, <1>5, TablesShape

-----------------------------------------------------------------------------
(* Where an instance can be, and what it holds there. *)

\* An open instance calls, a closed one constructs; the transaction is its own
\* and its cursor stands inside the batch; the index is empty before it is
\* loaded or rebuilt.
Cursor(i) ==
    /\ i \in lock => up[i]
    /\ i \in lock /\ ~CommitBusy => pc[i] \in {"document", "chunk", "fts"}
    /\ pc[i] \in {"closed", "load", "compare", "scan"} => ~up[i]
    /\ pc[i] \in {"idle", "begin", "document", "chunk", "fts"} => up[i]
    /\ ~up[i] \/ pc[i] = "idle" => batch[i] = <<>>
    /\ pc[i] \in {"closed", "load", "compare", "scan", "idle", "begin"} => at[i] = Start
    /\ pc[i] = "document" => /\ at[i].chunk = 0
                             /\ at[i].doc <= Len(batch[i]) + 1
                             /\ i \notin lock => at[i] = Start
    /\ pc[i] = "chunk" => at[i].chunk <= Len(Current(i).chunks)
    /\ pc[i] = "fts" => at[i].chunk < Len(Current(i).chunks)
    /\ pc[i] \in {"closed", "load", "scan"} => index[i] = {}

CursorInv == \A i \in Instance : Cursor(i)

LEMMA CursorInit == Init => CursorInv
BY DEF Init, CursorInv, Cursor

\* A call that ends leaves no transaction, unless SQLite kept it.
LEMMA CursorEnd ==
    ASSUME InstanceType, NEW i \in Instance, Cursor(i), Ends(i),
           i \in lock' => i \in lock /\ up'[i] /\ CommitBusy
    PROVE  Cursor(i)'
BY EndShape DEF Cursor

LEMMA CursorTransaction ==
    ASSUME StoreInvariant, NEW i \in Instance, Cursor(i), Transaction(i)
    PROVE  Cursor(i)'
<1> USE DEF StoreInvariant, TypeOK, InstanceType
<1>1. CASE Begin(i)
  BY <1>1 DEF Begin, Cursor, tables, objects, call, Start
<1>2. CASE BeginFails(i)
  BY <1>2, CursorEnd, OpenAfter DEF BeginFails, Ends, tables, Cursor
<1>3. CASE InsertDocumentRow(i)
  <2>1. /\ pc[i] = "document" /\ pc'[i] = "chunk" /\ at'[i] = at[i] /\ up'[i] = up[i]
        /\ batch'[i] = batch[i] /\ at[i].doc <= Len(batch[i])
    BY <1>3 DEF InsertDocumentRow, objects, call
  <2>2. Len(Current(i).chunks) \in Nat
    BY <2>1, CurrentType
  <2>3. at'[i].chunk <= Len(Current(i)'.chunks)
    BY <2>1, <2>2 DEF Cursor, Current
  <2> QED BY <2>1, <2>3 DEF Cursor
<1>4. CASE InsertChunkRow(i)
  <2>1. /\ pc[i] = "chunk" /\ pc'[i] = "fts" /\ at' = at /\ up' = up /\ lock' = lock
        /\ batch' = batch /\ at[i].chunk < Len(Current(i).chunks)
    BY <1>4 DEF InsertChunkRow, objects
  <2> QED BY <2>1 DEF Cursor, Current
<1>5. CASE InsertChunkFtsRow(i)
  <2>1. /\ pc[i] = "fts" /\ pc'[i] = "chunk" /\ up' = up /\ lock' = lock
        /\ batch' = batch /\ at'[i].doc = at[i].doc /\ at'[i].chunk = at[i].chunk + 1
    BY <1>5 DEF InsertChunkFtsRow, objects
  <2>2. Len(Current(i).chunks) \in Nat /\ at[i].chunk \in Nat
    BY <2>1, CurrentType DEF LoopInv
  <2>3. at'[i].chunk <= Len(Current(i)'.chunks)
    BY <2>1, <2>2 DEF Cursor, Current
  <2> QED BY <2>1, <2>3 DEF Cursor
<1>6. CASE NextDocument(i)
  <2>1. /\ pc[i] = "chunk" /\ pc'[i] = "document" /\ up' = up /\ lock' = lock
        /\ batch' = batch /\ at'[i].doc = at[i].doc + 1 /\ at'[i].chunk = 0
    BY <1>6 DEF NextDocument, objects, tables
  <2>2. i \in lock /\ at[i].doc <= Len(batch[i]) /\ at[i].doc \in Nat /\ Len(batch[i]) \in Nat
    BY <2>1 DEF LoopInv, LockInv
  <2>3. at'[i].doc <= Len(batch[i]) + 1
    BY <2>1, <2>2
  <2> QED BY <2>1, <2>2, <2>3 DEF Cursor
<1>7. CASE InsertFails(i)
  BY <1>7, CursorEnd DEF InsertFails, Ends, Rollback
<1>8. CASE Commit(i)
  BY <1>8 DEF Commit, Inserted, Cursor, objects, call
<1>9. CASE CommitFails(i)
  <2>1. Throw(i) /\ pc[i] = "document"
    BY <1>9 DEF CommitFails, Inserted
  <2>2. up'[i]
    BY <2>1 DEF Throw, Cursor, objects
  <2>3. i \in lock' => i \in lock /\ CommitBusy
    BY <1>9 DEF CommitFails, Rollback, tables
  <2> QED BY <2>1, <2>2, <2>3, CursorEnd DEF Ends
<1> QED
  BY <1>1, <1>2, <1>3, <1>4, <1>5, <1>6, <1>7, <1>8, <1>9 DEF Transaction

LEMMA CursorOther ==
    ASSUME StoreInvariant, NEW i \in Instance, Cursor(i),
           \/ \E d \in Dim : Open(i, d)
           \/ \E b \in Batches : AddDocuments(i, b)
           \/ Constructor(i) \/ Indexing(i) \/ Stop(i)
    PROVE  Cursor(i)'
<1> USE DEF StoreInvariant, TypeOK, InstanceType
<1>1. CASE \E d \in Dim : Open(i, d)
  BY <1>1 DEF Open, Cursor, tables, call
<1>2. CASE \E b \in Batches : AddDocuments(i, b)
  BY <1>2 DEF AddDocuments, Cursor, tables, objects
<1>3. CASE LoadSidecar(i) \/ DiscardSidecar(i)
  BY <1>3 DEF LoadSidecar, DiscardSidecar, Cursor, tables, call
<1>4. CASE TrustSidecar(i)
  BY <1>4 DEF TrustSidecar, Cursor, tables, call
<1>5. CASE ScanChunks(i)
  BY <1>5 DEF ScanChunks, Cursor, tables, objects
<1>6. ASSUME UNCHANGED tables, pc[i] \notin {"document", "chunk", "fts"},
             Throw(i) \/ Return(i)
      PROVE  Cursor(i)'
  BY <1>6, CursorEnd, OpenAfter DEF tables, Cursor, Ends
<1>7. CASE IndexingFails(i) \/ SaveFails(i) \/ Rename(i) \/ RenameFails(i)
  BY <1>6, <1>7 DEF IndexingFails, SaveFails, Rename, RenameFails
<1>8. CASE AddVector(i) \/ BeginSave(i) \/ WriteSave(i)
  BY <1>8 DEF AddVector, BeginSave, WriteSave, Cursor, tables, objects, call
<1>9. CASE Stop(i)
  BY <1>9, CursorEnd DEF Stop, Ends, Rollback
<1> QED BY <1>1, <1>2, <1>3, <1>4, <1>5, <1>7, <1>8, <1>9 DEF Constructor, Indexing

LEMMA CursorStep == StoreInvariant /\ CursorInv /\ [Next]_vars => CursorInv'
<1> SUFFICES ASSUME StoreInvariant, CursorInv, [Next]_vars PROVE CursorInv'
  OBVIOUS
<1>1. CASE UNCHANGED vars
  BY <1>1 DEF vars, tables, objects, call, CursorInv, Cursor, Current
<1>2. ASSUME NEW i \in Instance, Acts(i) PROVE CursorInv'
  <2>1. Cursor(i)'
    BY <1>2, CursorTransaction, CursorOther DEF Acts, Step, CursorInv
  <2>2. ASSUME NEW j \in Instance, j # i PROVE Cursor(j)'
    <3>1. Untouched(j) /\ (j \in lock' <=> j \in lock)
      BY <1>2, <2>2, Elsewhere, LockElsewhere DEF StoreInvariant, TypeOK
    <3> QED BY <3>1 DEF CursorInv, Cursor, Untouched, Current
  <2> QED BY <2>1, <2>2 DEF CursorInv
<1> QED BY <1>1, <1>2 DEF Next, Acts

-----------------------------------------------------------------------------
(* Rows that spell out a document. *)

\* No two rows have the same (document_id, chunk_index).
KeysUnique(rows) ==
    \A n, m \in DOMAIN rows :
        /\ rows[n].document_id = rows[m].document_id
        /\ rows[n].chunk_index = rows[m].chunk_index
        => n = m

\* The rows of document d are the first k chunks of cs.
Spelled(rows, d, cs, k) ==
    /\ \A r \in DOMAIN rows : rows[r].document_id = d =>
           rows[r].chunk_index < k /\ rows[r].size = cs[rows[r].chunk_index + 1]
    /\ \A m \in 1..k : \E r \in DOMAIN rows :
           rows[r].document_id = d /\ rows[r].chunk_index = m - 1

LEMMA AppendShape ==
    ASSUME NEW rows \in Seq(Row), NEW row \in Row
    PROVE  /\ DOMAIN Append(rows, row) = DOMAIN rows \cup {Len(rows) + 1}
           /\ \A r \in DOMAIN rows : Append(rows, row)[r] = rows[r]
           /\ Append(rows, row)[Len(rows) + 1] = row
           /\ Len(rows) + 1 \notin DOMAIN rows
           /\ \A r \in DOMAIN rows : rows[r] \in Row /\ r \in Nat /\ r <= Len(rows)
OBVIOUS

LEMMA SpelledAppend ==
    ASSUME NEW rows \in Seq(Row), NEW row \in Row, NEW d, NEW cs, NEW k \in Nat,
           Spelled(rows, d, cs, k),
           row.document_id = d, row.chunk_index = k, row.size = cs[k + 1]
    PROVE  Spelled(Append(rows, row), d, cs, k + 1)
<1> DEFINE new == Append(rows, row)
<1>1. /\ DOMAIN new = DOMAIN rows \cup {Len(rows) + 1}
      /\ \A r \in DOMAIN rows : new[r] = rows[r] /\ rows[r] \in Row
      /\ new[Len(rows) + 1] = row
  BY AppendShape
<1> HIDE DEF new
<1>2. ASSUME NEW r \in DOMAIN new, new[r].document_id = d
      PROVE  new[r].chunk_index < k + 1 /\ new[r].size = cs[new[r].chunk_index + 1]
  <2>1. CASE r \in DOMAIN rows
    BY <1>1, <1>2, <2>1 DEF Spelled, Row
  <2>2. CASE r = Len(rows) + 1
    BY <1>1, <2>2
  <2> QED BY <1>1, <2>1, <2>2
<1>3. ASSUME NEW m \in 1..(k + 1)
      PROVE  \E r \in DOMAIN new : new[r].document_id = d /\ new[r].chunk_index = m - 1
  <2>1. CASE m \in 1..k
    BY <1>1, <2>1 DEF Spelled
  <2>2. CASE m = k + 1
    BY <1>1, <2>2
  <2> QED BY <1>3, <2>1, <2>2
<1> QED BY <1>2, <1>3 DEF Spelled, new

LEMMA SpelledOther ==
    ASSUME NEW rows \in Seq(Row), NEW row \in Row, NEW d, NEW cs, NEW k \in Nat,
           Spelled(rows, d, cs, k), row.document_id # d
    PROVE  Spelled(Append(rows, row), d, cs, k)
<1> DEFINE new == Append(rows, row)
<1>1. /\ DOMAIN new = DOMAIN rows \cup {Len(rows) + 1}
      /\ \A r \in DOMAIN rows : new[r] = rows[r]
      /\ new[Len(rows) + 1] = row
  BY AppendShape
<1> HIDE DEF new
<1> QED BY <1>1 DEF Spelled, new

LEMMA KeysAppend ==
    ASSUME NEW rows \in Seq(Row), NEW row \in Row, KeysUnique(rows),
           \A r \in DOMAIN rows :
               rows[r].document_id = row.document_id =>
               rows[r].chunk_index # row.chunk_index
    PROVE  KeysUnique(Append(rows, row))
<1> DEFINE new == Append(rows, row)
<1>1. /\ DOMAIN new = DOMAIN rows \cup {Len(rows) + 1}
      /\ \A r \in DOMAIN rows : new[r] = rows[r]
      /\ new[Len(rows) + 1] = row
  BY AppendShape
<1> HIDE DEF new
<1> QED BY <1>1 DEF KeysUnique, new

\* A table whose entries another one includes is a prefix of it.
LEMMA EntriesPrefix ==
    ASSUME NEW s \in Seq(Row), NEW t \in Seq(Row), Entries(s) \subseteq Entries(t)
    PROVE  /\ \A n \in DOMAIN s : n \in DOMAIN t /\ t[n] = s[n]
           /\ Len(s) <= Len(t)
<1>1. ASSUME NEW n \in DOMAIN s PROVE n \in DOMAIN t /\ t[n] = s[n]
  <2>1. [id |-> n, row |-> s[n]] \in Entries(t)
    BY DEF Entries
  <2>2. PICK m \in DOMAIN t : [id |-> n, row |-> s[n]] = [id |-> m, row |-> t[m]]
    BY <2>1 DEF Entries
  <2>3. n = m /\ s[n] = t[m]
    <3> DEFINE x == [id |-> n, row |-> s[n]]
               y == [id |-> m, row |-> t[m]]
    <3>1. x.id = n /\ x.row = s[n] /\ y.id = m /\ y.row = t[m]
      OBVIOUS
    <3> QED BY <2>2, <3>1
  <2> QED BY <2>3
<1>2. Len(s) \in Nat /\ Len(t) \in Nat /\ DOMAIN s = 1..Len(s) /\ DOMAIN t = 1..Len(t)
  OBVIOUS
<1>3. Len(s) = 0 \/ Len(s) \in DOMAIN s
  BY <1>2
<1>4. Len(s) <= Len(t)
  BY <1>1, <1>2, <1>3
<1> QED BY <1>1, <1>4

-----------------------------------------------------------------------------
(* The account of a transaction. *)

\* How many documents of its batch instance i has begun to write ...
Reached(i) == IF pc[i] = "document" THEN at[i].doc - 1 ELSE at[i].doc

\* ... and how many chunks of the n-th of them are rows.
Done(i, n) ==
    IF n < at[i].doc THEN Len(batch[i][n].chunks)
    ELSE IF pc[i] = "fts" THEN at[i].chunk + 1
    ELSE at[i].chunk

\* What the transaction has written: the first documents of the batch, each
\* new and once, its chunks in order; the vectors of these rows are pending.
Account(i) ==
    /\ work.documents =
           db.documents \cup { batch[i][n].document_id : n \in 1..Reached(i) }
    /\ \A n \in 1..Reached(i) :
           /\ batch[i][n].document_id \notin db.documents
           /\ Spelled(work.chunks, batch[i][n].document_id, batch[i][n].chunks, Done(i, n))
    /\ \A n, m \in 1..Reached(i) :
           batch[i][n].document_id = batch[i][m].document_id => n = m
    /\ \A r \in DOMAIN work.chunks : r > Len(db.chunks) =>
           \E n \in DOMAIN pending[i] :
               pending[i][n] = [id |-> r, row |-> work.chunks[r]]
    /\ \A n \in DOMAIN pending[i] : pending[i][n].id > Len(db.chunks)

AccountInv == \A i \in lock : pc[i] \in {"document", "chunk", "fts"} => Account(i)

\* Rows belong to documents, uncommitted rows to uncommitted documents.
Keyed(t) == \A r \in DOMAIN t.chunks : t.chunks[r].document_id \in t.documents

KeysInv ==
    /\ Keyed(db) /\ Keyed(work)
    /\ KeysUnique(work.chunks)
    /\ db.documents \subseteq work.documents
    /\ \A r \in DOMAIN work.chunks :
           r > Len(db.chunks) => work.chunks[r].document_id \notin db.documents

ContentInv == KeysInv /\ AccountInv

LEMMA ContentInit == Init => ContentInv
BY DEF Init, ContentInv, KeysInv, AccountInv, Keyed, KeysUnique, NoTables

\* The committed table is a prefix of the one being written.
LEMMA CommittedPrefix ==
    ASSUME StoreInvariant
    PROVE  /\ \A r \in DOMAIN db.chunks : r \in DOMAIN work.chunks /\ work.chunks[r] = db.chunks[r]
           /\ Len(db.chunks) <= Len(work.chunks)
<1>1. db.chunks \in Seq(Row) /\ work.chunks \in Seq(Row)
  BY DEF StoreInvariant, TypeOK, TablesType, Tables
<1>2. Entries(db.chunks) \subseteq Entries(work.chunks)
  BY DEF StoreInvariant, LockInv
<1> HIDE DEF StoreInvariant
<1> QED BY <1>1, <1>2, EntriesPrefix

LEMMA CommittedKeysUnique ==
    ASSUME StoreInvariant, KeysInv
    PROVE  KeysUnique(db.chunks)
BY CommittedPrefix DEF KeysInv, KeysUnique

\* Before the first INSERT of a call nothing is written, after it the account
\* is that of the last document.
LEMMA AccountStart ==
    ASSUME StoreInvariant, CursorInv, ContentInv, NEW i \in Instance,
           pc[i] = "document", MayWrite(i)
    PROVE  Account(i)
<1>1. CASE i \in lock
  BY <1>1 DEF ContentInv, AccountInv
<1>2. CASE i \notin lock
  <2>1. lock = {} /\ work = db
    BY <1>2 DEF MayWrite, StoreInvariant, LockInv
  <2>2. at[i] = Start /\ pending[i] = <<>>
    BY <1>2 DEF CursorInv, Cursor, StoreInvariant, PendingInv
  <2>3. Reached(i) = 0 /\ 1..Reached(i) = {}
    BY <2>2 DEF Reached, Start
  <2>4. \A r \in DOMAIN work.chunks : ~(r > Len(db.chunks))
    BY <2>1 DEF StoreInvariant, TypeOK, TablesType, Tables
  <2> QED BY <2>1, <2>2, <2>3, <2>4 DEF Account
<1> QED BY <1>1, <1>2

LEMMA DocumentContent ==
    ASSUME StoreInvariant, CursorInv, ContentInv, NEW i \in Instance, InsertDocumentRow(i)
    PROVE  ContentInv'
<1> DEFINE d == Current(i).document_id
<1>1. /\ pc[i] = "document" /\ pc'[i] = "chunk" /\ lock' = {i} /\ db' = db
      /\ work' = [work EXCEPT !.documents = @ \cup {d}]
      /\ d \notin work.documents /\ at[i].doc <= Len(batch[i])
      /\ UNCHANGED <<batch, at, pending>>
  BY DEF InsertDocumentRow, call, StoreInvariant, TypeOK, InstanceType
<1>2. Account(i)
  BY AccountStart DEF InsertDocumentRow
<1>3. /\ db.chunks \in Seq(Row) /\ work.chunks \in Seq(Row) /\ work \in Tables
      /\ at[i].doc \in Nat \ {0}
  BY DEF StoreInvariant, TypeOK, TablesType, Tables, InstanceType
<1>4. work'.chunks = work.chunks /\ work'.documents = work.documents \cup {d}
  BY <1>1, <1>3 DEF Tables
<1>5. at[i].chunk = 0 /\ d = batch[i][at[i].doc].document_id
  BY <1>1 DEF CursorInv, Cursor, Current
<1> HIDE DEF d
<1>6. /\ Reached(i) = at[i].doc - 1 /\ Reached(i)' = at[i].doc
      /\ 1..Reached(i)' = 1..Reached(i) \cup {at[i].doc}
  BY <1>1, <1>3 DEF Reached
<1>7. KeysInv'
  BY <1>1, <1>4 DEF ContentInv, KeysInv, Keyed
<1>8. d \notin db.documents
  BY <1>1 DEF ContentInv, KeysInv
<1>9. ASSUME NEW n \in 1..Reached(i)'
      PROVE  /\ batch[i][n].document_id \notin db.documents
             /\ Spelled(work.chunks, batch[i][n].document_id, batch[i][n].chunks, Done(i, n)')
  <2>1. CASE n \in 1..Reached(i)
    <3>1. n < at[i].doc
      BY <1>3, <1>6, <2>1
    <3>2. Done(i, n)' = Done(i, n)
      BY <1>1, <3>1 DEF Done
    <3> QED BY <1>2, <2>1, <3>2 DEF Account
  <2>2. CASE n = at[i].doc
    <3>1. Done(i, n)' = 0
      BY <1>1, <1>3, <1>5, <2>2 DEF Done
    <3>2. \A r \in DOMAIN work.chunks : work.chunks[r].document_id # d
      BY <1>1 DEF ContentInv, KeysInv, Keyed
    <3> QED BY <1>5, <1>8, <2>2, <3>1, <3>2 DEF Spelled
  <2> QED BY <1>6, <1>9, <2>1, <2>2
<1>10. work'.documents = db.documents \cup { batch[i][n].document_id : n \in 1..Reached(i)' }
  BY <1>2, <1>4, <1>5, <1>6 DEF Account
<1>11. \A n, m \in 1..Reached(i)' : batch[i][n].document_id = batch[i][m].document_id => n = m
  <2>1. \A n \in 1..Reached(i) : batch[i][n].document_id # d
    BY <1>1, <1>2 DEF Account
  <2> QED BY <1>2, <1>5, <1>6, <2>1 DEF Account
<1>12. Account(i)'
  BY <1>1, <1>2, <1>4, <1>9, <1>10, <1>11 DEF Account
<1>13. AccountInv'
  BY <1>1, <1>12 DEF AccountInv
<1> QED BY <1>7, <1>13 DEF ContentInv

LEMMA ChunkContent ==
    ASSUME StoreInvariant, CursorInv, ContentInv, NEW i \in Instance, InsertChunkRow(i)
    PROVE  ContentInv'
<1> DEFINE doc == at[i].doc
           k   == at[i].chunk
           cs  == Current(i).chunks
           d   == Current(i).document_id
           row == [document_id |-> d, chunk_index |-> k, size |-> cs[k + 1]]
           e   == [id |-> Len(work.chunks) + 1, row |-> row]
<1>1. /\ pc[i] = "chunk" /\ pc'[i] = "fts" /\ db' = db /\ lock' = lock
      /\ work' = [work EXCEPT !.chunks = Append(@, row)]
      /\ pending'[i] = Append(pending[i], e)
      /\ k < Len(cs)
      /\ UNCHANGED <<batch, at>>
  BY DEF InsertChunkRow, StoreInvariant, TypeOK, InstanceType
<1>2. /\ i \in lock /\ \A j \in lock : j = i
      /\ doc <= Len(batch[i])
  BY <1>1 DEF StoreInvariant, LockInv, LoopInv
<1>3. Account(i)
  BY <1>1, <1>2 DEF ContentInv, AccountInv
<1>4. /\ db.chunks \in Seq(Row) /\ work.chunks \in Seq(Row) /\ work \in Tables
      /\ doc \in Nat \ {0} /\ k \in Nat /\ pending[i] \in Seq(Entry) /\ InstanceType
  BY DEF StoreInvariant, TypeOK, TablesType, Tables, InstanceType
<1>5. d \in Document /\ cs \in Seq(Dim)
  BY <1>2, <1>4, CurrentType
<1>6. cs[k + 1] \in Dim
  BY <1>1, <1>4, <1>5
<1>7. row \in Row /\ row.document_id = d /\ row.chunk_index = k /\ row.size = cs[k + 1]
  BY <1>4, <1>5, <1>6 DEF Row
<1>8. cs = batch[i][doc].chunks /\ d = batch[i][doc].document_id
  BY DEF Current
<1> HIDE DEF row, cs, d
<1>9. e.id = Len(work.chunks) + 1
  OBVIOUS
<1>10. work'.chunks = Append(work.chunks, row) /\ work'.documents = work.documents
  BY <1>1, <1>4 DEF Tables
<1>11. Reached(i) = doc /\ Reached(i)' = doc /\ doc \in 1..doc /\ Done(i, doc) = k
  BY <1>1, <1>4 DEF Reached, Done
<1> HIDE DEF doc, k
<1>12. d \notin db.documents /\ d \in work.documents /\ Spelled(work.chunks, d, cs, k)
  BY <1>3, <1>8, <1>11 DEF Account
<1>13. /\ DOMAIN work'.chunks = DOMAIN work.chunks \cup {Len(work.chunks) + 1}
       /\ \A r \in DOMAIN work.chunks : work'.chunks[r] = work.chunks[r]
       /\ work'.chunks[Len(work.chunks) + 1] = row
       /\ Len(work.chunks) \in Nat /\ Len(db.chunks) \in Nat
       /\ Len(db.chunks) <= Len(work.chunks)
  BY <1>4, <1>7, <1>10, AppendShape, CommittedPrefix
<1>14. KeysInv'
  <2>1. KeysUnique(work'.chunks)
    <3>1. ASSUME NEW r \in DOMAIN work.chunks, work.chunks[r].document_id = d
          PROVE  work.chunks[r].chunk_index # k
      <4>1. work.chunks[r].chunk_index < k
        BY <1>12, <3>1 DEF Spelled
      <4>2. work.chunks[r] \in Row
        BY <1>4
      <4> QED BY <4>1, <4>2, <1>4 DEF k, Row
    <3> QED BY <1>4, <1>7, <1>10, <3>1, KeysAppend DEF ContentInv, KeysInv
  <2>2. Keyed(work')
    BY <1>7, <1>10, <1>12, <1>13 DEF Keyed, ContentInv, KeysInv
  <2>3. \A r \in DOMAIN work'.chunks :
           r > Len(db.chunks) => work'.chunks[r].document_id \notin db.documents
    BY <1>7, <1>12, <1>13 DEF ContentInv, KeysInv
  <2> QED BY <1>1, <1>10, <2>1, <2>2, <2>3 DEF ContentInv, KeysInv
<1>15. ASSUME NEW n \in 1..Reached(i)'
       PROVE  /\ batch[i][n].document_id \notin db.documents
              /\ Spelled(work'.chunks, batch[i][n].document_id, batch[i][n].chunks, Done(i, n)')
  <2>1. CASE n = doc
    <3>1. Spelled(work'.chunks, d, cs, k + 1)
      BY <1>4, <1>7, <1>10, <1>12, SpelledAppend DEF k
    <3>2. Done(i, n)' = k + 1
      BY <1>1, <1>4, <2>1 DEF Done, doc, k
    <3> QED BY <1>8, <1>12, <2>1, <3>1, <3>2
  <2>2. CASE n # doc
    <3>1. n \in 1..Reached(i) /\ n < doc
      BY <1>11, <1>15, <2>2, <1>4 DEF doc
    <3>2. Done(i, n)' = Done(i, n)
      BY <1>1, <3>1 DEF Done, doc
    <3>3. batch[i][n].document_id # d
      BY <1>3, <1>8, <1>11, <2>2, <3>1 DEF Account
    <3>4. Done(i, n) \in Nat
      <4>1. batch[i] \in Seq(DocumentInput) /\ Len(batch[i]) \in Nat /\ n \in Nat
        BY <1>4, <3>1 DEF InstanceType
      <4>2. n \in 1..Len(batch[i])
        BY <1>2, <1>4, <3>1, <4>1 DEF doc
      <4>3. batch[i][n] \in DocumentInput
        BY <4>1, <4>2, ElementOfSeq
      <4>4. batch[i][n].chunks \in Seq(Dim)
        BY <4>3 DEF DocumentInput
      <4> QED BY <3>1, <4>4 DEF Done, doc
    <3>5. /\ batch[i][n].document_id \notin db.documents
          /\ Spelled(work.chunks, batch[i][n].document_id, batch[i][n].chunks, Done(i, n))
      BY <1>3, <3>1 DEF Account
    <3> QED BY <1>4, <1>7, <1>10, <3>2, <3>3, <3>4, <3>5, SpelledOther
  <2> QED BY <2>1, <2>2
<1>16. /\ DOMAIN pending'[i] = DOMAIN pending[i] \cup {Len(pending[i]) + 1}
       /\ \A n \in DOMAIN pending[i] : pending'[i][n] = pending[i][n]
       /\ pending'[i][Len(pending[i]) + 1] = e
  BY <1>1, <1>4
<1>17. \A r \in DOMAIN work'.chunks : r > Len(db.chunks) =>
          \E n \in DOMAIN pending'[i] : pending'[i][n] = [id |-> r, row |-> work'.chunks[r]]
  BY <1>3, <1>13, <1>16 DEF Account
<1>18. \A n \in DOMAIN pending'[i] : pending'[i][n].id > Len(db.chunks)
  BY <1>3, <1>9, <1>13, <1>16 DEF Account
<1>19. Account(i)'
  <2>1. Reached(i)' = Reached(i)
    BY <1>11
  <2> QED BY <1>1, <1>3, <1>10, <1>15, <1>17, <1>18, <2>1 DEF Account
<1>20. AccountInv'
  BY <1>1, <1>2, <1>19 DEF AccountInv
<1> QED BY <1>14, <1>20 DEF ContentInv

\* The account does not change when only the cursor moves on.
LEMMA FtsContent ==
    ASSUME StoreInvariant, CursorInv, ContentInv, NEW i \in Instance, InsertChunkFtsRow(i)
    PROVE  ContentInv'
<1>1. /\ pc[i] = "fts" /\ pc'[i] = "chunk" /\ db' = db /\ lock' = lock
      /\ at'[i].doc = at[i].doc /\ at'[i].chunk = at[i].chunk + 1
      /\ UNCHANGED <<batch, pending>>
  BY DEF InsertChunkFtsRow, StoreInvariant, TypeOK, InstanceType
<1>2. work'.chunks = work.chunks /\ work'.documents = work.documents
  BY DEF InsertChunkFtsRow, StoreInvariant, TypeOK, TablesType, Tables
<1>3. i \in lock /\ \A j \in lock : j = i
  BY <1>1 DEF StoreInvariant, LockInv
<1>4. KeysInv'
  BY <1>1, <1>2 DEF ContentInv, KeysInv, Keyed
<1>5. Reached(i)' = Reached(i) /\ \A n : Done(i, n)' = Done(i, n)
  BY <1>1 DEF Reached, Done
<1>6. Account(i)
  BY <1>1, <1>3 DEF ContentInv, AccountInv
<1>7. Account(i)'
  BY <1>1, <1>2, <1>5, <1>6 DEF Account
<1> QED BY <1>1, <1>3, <1>4, <1>7 DEF ContentInv, AccountInv

LEMMA NextDocumentContent ==
    ASSUME StoreInvariant, CursorInv, ContentInv, NEW i \in Instance, NextDocument(i)
    PROVE  ContentInv'
<1>1. /\ pc[i] = "chunk" /\ pc'[i] = "document"
      /\ at'[i].doc = at[i].doc + 1 /\ at'[i].chunk = 0
      /\ at[i].chunk = Len(batch[i][at[i].doc].chunks) /\ at[i].doc \in Nat
      /\ UNCHANGED <<db, work, lock, batch, pending>>
  BY DEF NextDocument, StoreInvariant, TypeOK, InstanceType, tables, Current
<1>2. i \in lock /\ \A j \in lock : j = i
  BY <1>1 DEF StoreInvariant, LockInv
<1>3. KeysInv'
  BY <1>1 DEF ContentInv, KeysInv, Keyed
<1>4. Reached(i)' = Reached(i) /\ Reached(i) = at[i].doc
  BY <1>1 DEF Reached
<1>5. \A n \in 1..Reached(i) : Done(i, n)' = Done(i, n)
  BY <1>1, <1>4 DEF Done
<1>6. Account(i)
  BY <1>1, <1>2 DEF ContentInv, AccountInv
<1>7. Account(i)'
  BY <1>1, <1>4, <1>5, <1>6 DEF Account
<1> QED BY <1>1, <1>2, <1>3, <1>7 DEF ContentInv, AccountInv

\* Rows given up leave the committed ones, which were as they are now.
LEMMA RollbackContent ==
    ASSUME StoreInvariant, ContentInv, NEW i \in Instance, Rollback(i),
           \A j \in Instance : j # i => Untouched(j)
    PROVE  ContentInv'
<1>1. db' = db /\ lock' = lock \ {i} /\ work' = IF i \in lock THEN db ELSE work
  BY DEF Rollback
<1>2. KeysInv'
  <2>1. CASE i \notin lock
    BY <1>1, <2>1 DEF ContentInv, KeysInv, Keyed
  <2>2. CASE i \in lock
    <3>1. KeysUnique(db.chunks)
      BY CommittedKeysUnique DEF ContentInv
    <3>2. \A r \in DOMAIN db.chunks : ~(r > Len(db.chunks))
      BY DEF StoreInvariant, TypeOK, TablesType, Tables
    <3>3. work' = db
      BY <1>1, <2>2
    <3> QED BY <1>1, <3>1, <3>2, <3>3 DEF ContentInv, KeysInv, Keyed
  <2> QED BY <2>1, <2>2
<1>3. ASSUME NEW j \in lock', pc'[j] \in {"document", "chunk", "fts"} PROVE Account(j)'
  <2>1. j \in lock /\ j # i /\ j \in Instance /\ i \notin lock
    BY <1>1, <1>3 DEF StoreInvariant, TypeOK, TablesType, LockInv
  <2>2. Untouched(j) /\ work' = work
    BY <1>1, <2>1
  <2>3. Account(j)
    BY <1>3, <2>1, <2>2 DEF ContentInv, AccountInv, Untouched
  <2> QED BY <1>1, <2>2, <2>3 DEF Account, Reached, Done, Untouched
<1> QED BY <1>2, <1>3 DEF ContentInv, AccountInv

LEMMA CommitContent ==
    ASSUME StoreInvariant, ContentInv, NEW i \in Instance, Commit(i),
           \A j \in Instance : j # i => Untouched(j)
    PROVE  ContentInv'
<1>1. /\ db' = IF i \in lock THEN work ELSE db
      /\ work' = work /\ lock' = lock \ {i}
  BY DEF Commit
<1>2. KeysInv'
  <2>1. CASE i \notin lock
    BY <1>1, <2>1 DEF ContentInv, KeysInv, Keyed
  <2>2. CASE i \in lock
    <3>1. \A r \in DOMAIN work.chunks : ~(r > Len(work.chunks))
      BY DEF StoreInvariant, TypeOK, TablesType, Tables
    <3>2. db' = work
      BY <1>1, <2>2
    <3> QED BY <1>1, <3>1, <3>2 DEF ContentInv, KeysInv, Keyed
  <2> QED BY <2>1, <2>2
<1>3. ASSUME NEW j \in lock', pc'[j] \in {"document", "chunk", "fts"} PROVE Account(j)'
  <2>1. j \in lock /\ j # i /\ j \in Instance /\ i \notin lock
    BY <1>1, <1>3 DEF StoreInvariant, TypeOK, TablesType, LockInv
  <2>2. Untouched(j) /\ work' = work /\ db' = db
    BY <1>1, <2>1
  <2>3. Account(j)
    BY <1>3, <2>1, <2>2 DEF ContentInv, AccountInv, Untouched
  <2> QED BY <2>2, <2>3 DEF Account, Reached, Done, Untouched
<1> QED BY <1>2, <1>3 DEF ContentInv, AccountInv

\* A step that leaves the tables alone leaves every transaction's account.
LEMMA QuietContent ==
    ASSUME StoreInvariant, CursorInv, ContentInv, NEW i \in Instance, UNCHANGED tables,
           \A j \in Instance : j # i => Untouched(j),
           i \in lock => pc'[i] \notin {"document", "chunk", "fts"}
    PROVE  ContentInv'
<1>1. KeysInv'
  BY DEF tables, ContentInv, KeysInv, Keyed
<1>2. ASSUME NEW j \in lock', pc'[j] \in {"document", "chunk", "fts"} PROVE Account(j)'
  <2>1. j \in lock /\ j # i /\ j \in Instance
    BY <1>2 DEF tables, StoreInvariant, TypeOK, TablesType
  <2>2. Untouched(j)
    BY <2>1
  <2>3. Account(j)
    BY <1>2, <2>1, <2>2 DEF ContentInv, AccountInv, Untouched
  <2> QED BY <2>2, <2>3 DEF Account, Reached, Done, Untouched, tables
<1> QED BY <1>1, <1>2 DEF ContentInv, AccountInv

LEMMA ContentStep == StoreInvariant /\ CursorInv /\ ContentInv /\ [Next]_vars => ContentInv'
<1> SUFFICES ASSUME StoreInvariant, CursorInv, ContentInv, [Next]_vars PROVE ContentInv'
  OBVIOUS
<1>1. CASE UNCHANGED vars
  <2>1. UNCHANGED <<db, work, lock, pc, batch, at, pending>>
    BY <1>1 DEF vars, tables, call
  <2>2. KeysInv'
    BY <2>1 DEF ContentInv, KeysInv, Keyed
  <2>3. ASSUME NEW j PROVE Account(j)' = Account(j)
    BY <2>1 DEF Account, Reached, Done
  <2> QED BY <2>1, <2>2, <2>3 DEF ContentInv, AccountInv
<1>2. ASSUME NEW i \in Instance, Acts(i) PROVE ContentInv'
  <2>1. InstanceType /\ \A j \in Instance : j # i => Untouched(j)
    BY <1>2, Elsewhere DEF StoreInvariant, TypeOK
  <2>2. CASE InsertDocumentRow(i) \/ InsertChunkRow(i) \/ InsertChunkFtsRow(i)
             \/ NextDocument(i)
    BY <2>2, DocumentContent, ChunkContent, FtsContent, NextDocumentContent
  <2>3. CASE Rollback(i) \/ Commit(i)
    BY <2>1, <2>3, RollbackContent, CommitContent
  <2>4. ASSUME UNCHANGED tables, i \in lock => pc'[i] \notin {"document", "chunk", "fts"}
        PROVE  ContentInv'
    BY <2>1, <2>4, QuietContent
  <2>5. ASSUME UNCHANGED tables, Ends(i) PROVE ContentInv'
    BY <2>1, <2>4, <2>5, EndShape
  <2>6. CASE \E d \in Dim : Open(i, d)
    BY <2>1, <2>4, <2>6 DEF Open, InstanceType
  <2>7. CASE \E b \in Batches : AddDocuments(i, b)
    BY <2>1, <2>4, <2>7 DEF AddDocuments, InstanceType
  <2>8. CASE Constructor(i)
    BY <2>1, <2>4, <2>8 DEF Constructor, LoadSidecar, TrustSidecar, DiscardSidecar,
       ScanChunks, InstanceType
  <2>9. CASE Transaction(i)
    <3>1. CASE Begin(i)
      BY <2>4, <3>1 DEF Begin
    <3>2. CASE BeginFails(i) \/ InsertFails(i) \/ CommitFails(i)
      BY <2>3, <2>5, <3>2 DEF BeginFails, InsertFails, CommitFails, Ends
    <3> QED BY <2>2, <2>3, <2>9, <3>1, <3>2 DEF Transaction
  <2>10. CASE Indexing(i)
    <3>1. CASE IndexingFails(i) \/ SaveFails(i) \/ Rename(i) \/ RenameFails(i)
      BY <2>5, <3>1 DEF IndexingFails, SaveFails, Rename, RenameFails, Ends
    <3>2. CASE AddVector(i) \/ BeginSave(i) \/ WriteSave(i)
      BY <2>1, <2>4, <3>2 DEF AddVector, BeginSave, WriteSave, InstanceType
    <3> QED BY <2>10, <3>1, <3>2 DEF Indexing
  <2>11. CASE Stop(i)
    BY <2>3, <2>11 DEF Stop
  <2> QED BY <1>2, <2>6, <2>7, <2>8, <2>9, <2>10, <2>11 DEF Acts, Step
<1> QED BY <1>1, <1>2 DEF Next, Acts

-----------------------------------------------------------------------------
(* What a call owes its caller is in the index, or on its way there. *)

\* The entries the caller of i may expect once its call has returned.
Due(i) == owed[i] \cup
    { e \in Entries(db.chunks) : e.row.document_id \in DocumentsOf(batch[i]) }

\* An index that goes back to a mixed file owes nothing.
Found(i) ==
    /\ up[i] /\ i \notin garbled => owed[i] \subseteq index[i]
    /\ pc[i] \in {"index", "write", "rename"} =>
           /\ DocumentsOf(batch[i]) \subseteq db.documents
           /\ i \notin garbled => \A e \in Due(i) :
                  e \in index[i] \/ \E n \in DOMAIN pending[i] : pending[i][n] = e

FoundInv == \A i \in Instance : Found(i)

LEMMA FoundInit == Init => FoundInv
BY DEF Init, FoundInv, Found

LEMMA CommittedShape ==
    ASSUME StoreInvariant, NEW i \in Instance, Acts(i)
    PROVE  \/ db' = db
           \/ Commit(i) /\ i \in lock /\ db' = work
BY TablesShape DEF tables, Rollback, Commit

\* A commit of another instance adds nothing to what is due: its documents are
\* new ones.
LEMMA DueKept ==
    ASSUME StoreInvariant, KeysInv, NEW j \in Instance, Untouched(j),
           db' = db \/ db' = work, DocumentsOf(batch[j]) \subseteq db.documents
    PROVE  Due(j)' \subseteq Due(j) /\ db.documents \subseteq db'.documents
<1>1. db.documents \subseteq db'.documents
  BY DEF KeysInv
<1>2. owed'[j] = owed[j] /\ batch'[j] = batch[j]
  BY DEF Untouched
<1>3. DocumentsOf(batch'[j]) = DocumentsOf(batch[j])
  BY <1>2
<1>4. CASE db' = db
  BY <1>1, <1>2, <1>3, <1>4 DEF Due
<1>5. CASE db' = work
  <2>1. ASSUME NEW e \in Entries(work.chunks), e.row.document_id \in db.documents
        PROVE  e \in Entries(db.chunks)
    <3>1. PICK r \in DOMAIN work.chunks : e = [id |-> r, row |-> work.chunks[r]]
      BY <2>1 DEF Entries
    <3>2. work.chunks[r].document_id \in db.documents
      BY <2>1, <3>1
    <3>3. ~(r > Len(db.chunks))
      BY <3>2 DEF KeysInv
    <3>4. db.chunks \in Seq(Row) /\ work.chunks \in Seq(Row)
      BY DEF StoreInvariant, TypeOK, TablesType, Tables
    <3>5. r \in DOMAIN db.chunks
      BY <3>3, <3>4
    <3>6. work.chunks[r] = db.chunks[r]
      BY <3>5, CommittedPrefix
    <3> QED BY <3>1, <3>5, <3>6 DEF Entries
  <2> QED BY <1>1, <1>2, <1>3, <1>5, <2>1 DEF Due
<1> QED BY <1>4, <1>5

\* COMMIT: the rows of the batch are exactly those whose vectors are pending.
LEMMA CommitFound ==
    ASSUME StoreInvariant, CursorInv, ContentInv, FoundInv, NEW i \in Instance, Commit(i)
    PROVE  Found(i)'
<1>1. /\ pc[i] = "document" /\ at[i].doc > Len(batch[i]) /\ pc'[i] = "index"
      /\ db' = IF i \in lock THEN work ELSE db
      /\ UNCHANGED <<up, owed, index, garbled, batch, pending>>
  BY DEF Commit, Inserted, objects, call, StoreInvariant, TypeOK, InstanceType
<1>2. /\ at[i].doc \in Nat /\ batch[i] \in Seq(DocumentInput) /\ Len(batch[i]) \in Nat
      /\ DOMAIN batch[i] = 1..Len(batch[i])
  BY DEF StoreInvariant, TypeOK, InstanceType
<1>3. up[i] /\ (i \notin garbled => owed[i] \subseteq index[i])
  BY <1>1 DEF CursorInv, Cursor, FoundInv, Found
<1>4. CASE i \notin lock
  <2>1. at[i] = Start
    BY <1>1, <1>4 DEF CursorInv, Cursor
  <2>2. Len(batch[i]) = 0
    BY <1>1, <1>2, <2>1 DEF Start
  <2>3. DocumentsOf(batch[i]) = {}
    BY <1>2, <2>2 DEF DocumentsOf
  <2> QED BY <1>1, <1>3, <2>3 DEF Found, Due
<1>5. CASE i \in lock
  <2>1. Account(i) /\ db' = work
    BY <1>1, <1>5 DEF ContentInv, AccountInv
  <2>2. Reached(i) = Len(batch[i])
    <3>1. at[i].doc <= Len(batch[i]) + 1
      BY <1>1 DEF CursorInv, Cursor
    <3> QED BY <1>1, <1>2, <3>1 DEF Reached
  <2>3. /\ DocumentsOf(batch[i]) \subseteq work.documents
        /\ \A d \in DocumentsOf(batch[i]) : d \notin db.documents
    BY <1>2, <2>1, <2>2 DEF Account, DocumentsOf
  <2>4. ASSUME NEW e \in Entries(work.chunks), e.row.document_id \in DocumentsOf(batch[i])
        PROVE  \E n \in DOMAIN pending[i] : pending[i][n] = e
    <3>1. PICK r \in DOMAIN work.chunks : e = [id |-> r, row |-> work.chunks[r]]
      BY DEF Entries
    <3>2. work.chunks[r].document_id \notin db.documents
      BY <2>3, <2>4, <3>1
    <3>3. r \notin DOMAIN db.chunks
      BY <3>2, CommittedPrefix DEF ContentInv, KeysInv, Keyed
    <3>4. r > Len(db.chunks)
      BY <3>1, <3>3 DEF StoreInvariant, TypeOK, TablesType, Tables
    <3> QED BY <2>1, <3>1, <3>4 DEF Account
  <2> QED BY <1>1, <1>3, <2>1, <2>3, <2>4 DEF Found, Due
<1> QED BY <1>4, <1>5

\* The vector taken from the queue is the vector put into the index.
LEMMA AddVectorFound ==
    ASSUME StoreInvariant, FoundInv, NEW i \in Instance, AddVector(i)
    PROVE  Found(i)'
<1>1. /\ pc[i] = "index" /\ pending[i] # <<>> /\ pending[i] \in Seq(Entry)
      /\ index'[i] = index[i] \cup {Head(pending[i])}
      /\ pending'[i] = Tail(pending[i])
      /\ UNCHANGED <<db, pc, up, garbled, batch, owed>>
  BY DEF AddVector, tables, StoreInvariant, TypeOK, InstanceType
<1>2. ASSUME NEW n \in DOMAIN pending[i]
      PROVE  pending[i][n] = Head(pending[i]) \/
             \E m \in DOMAIN Tail(pending[i]) : Tail(pending[i])[m] = pending[i][n]
  <2>1. CASE n = 1
    BY <1>1, <2>1
  <2>2. CASE n # 1
    <3>1. n - 1 \in DOMAIN Tail(pending[i]) /\ Tail(pending[i])[n - 1] = pending[i][n]
      BY <1>1, <1>2, <2>2
    <3> QED BY <3>1
  <2> QED BY <2>1, <2>2
<1>3. Due(i)' = Due(i)
  BY <1>1 DEF Due
<1> QED BY <1>1, <1>2, <1>3 DEF FoundInv, Found

LEMMA EndFound ==
    ASSUME StoreInvariant, FoundInv, NEW i \in Instance, Ends(i),
           Return(i) => pc[i] = "rename"
    PROVE  Found(i)'
<1>1. InstanceType
  BY DEF StoreInvariant, TypeOK
<1>2. pc'[i] \in {"idle", "closed"}
  BY <1>1, EndShape
<1>3. CASE Return(i)
  <2>1. owed'[i] = Due(i) /\ index'[i] = index[i] /\ garbled' = garbled
    BY <1>1, <1>3 DEF Return, Due, InstanceType
  <2>2. pending[i] = <<>>
    BY <1>3 DEF StoreInvariant, PendingInv
  <2> QED BY <1>2, <1>3, <2>1, <2>2 DEF FoundInv, Found
<1>4. CASE ~Return(i)
  BY <1>1, <1>2, <1>4, EndShape DEF FoundInv, Found
<1> QED BY <1>3, <1>4

LEMMA FoundOwn ==
    ASSUME StoreInvariant, CursorInv, ContentInv, FoundInv, NEW i \in Instance, Acts(i)
    PROVE  Found(i)'
<1> USE DEF StoreInvariant, TypeOK, InstanceType
<1>a. ASSUME UNCHANGED <<up, owed, index, garbled>>, pc'[i] \notin {"index", "write", "rename"}
      PROVE  Found(i)'
  BY <1>a DEF FoundInv, Found
<1>b. ASSUME Throw(i) PROVE Found(i)'
  <2>1. CASE up[i] /\ UNCHANGED <<objects, owed>> /\ pc' = [pc EXCEPT ![i] = "idle"]
    BY <1>a, <2>1 DEF objects
  <2>2. CASE Destroy(i)
    BY <2>2 DEF Destroy, Found
  <2> QED BY <1>b, <2>1, <2>2 DEF Throw
<1>1. CASE \E d \in Dim : Open(i, d)
  BY <1>a, <1>1 DEF Open
<1>2. CASE \E b \in Batches : AddDocuments(i, b)
  BY <1>a, <1>2 DEF AddDocuments, objects
<1>3. CASE LoadSidecar(i) \/ DiscardSidecar(i)
  BY <1>3 DEF LoadSidecar, DiscardSidecar, CursorInv, Cursor, Found
<1>4. CASE TrustSidecar(i)
  <2>1. i \notin garbled => index[i] = Entries(db.chunks)
    BY <1>4, EqualCountsEqualContents DEF TrustSidecar
  <2> QED BY <1>4, <2>1 DEF TrustSidecar, Found
<1>5. CASE ScanChunks(i)
  <2>1. /\ ~up'[i] /\ batch'[i] = <<>> /\ db' = db /\ pc'[i] = "index"
        /\ owed'[i] = Entries(db.chunks) /\ pending'[i] = Snapshot(db.chunks)
    BY <1>5 DEF ScanChunks, objects, tables, CursorInv, Cursor
  <2>2. DocumentsOf(batch'[i]) = {}
    BY <2>1 DEF DocumentsOf
  <2>3. \A e \in Entries(db.chunks) : \E n \in DOMAIN Snapshot(db.chunks) : Snapshot(db.chunks)[n] = e
    BY DEF Entries, Snapshot
  <2> QED BY <2>1, <2>2, <2>3 DEF Found, Due
<1>6. CASE Transaction(i)
  <2>1. CASE BeginFails(i) \/ InsertFails(i) \/ CommitFails(i)
    BY <1>b, <2>1 DEF BeginFails, InsertFails, CommitFails
  <2>2. CASE Begin(i) \/ InsertDocumentRow(i) \/ NextDocument(i)
    BY <1>a, <2>2 DEF Begin, InsertDocumentRow, NextDocument, objects
  <2>3. CASE InsertChunkRow(i) \/ InsertChunkFtsRow(i)
    BY <1>a, <2>3 DEF InsertChunkRow, InsertChunkFtsRow, objects
  <2> QED BY <1>6, <2>1, <2>2, <2>3, CommitFound DEF Transaction
<1>7. CASE AddVector(i)
  BY <1>7, AddVectorFound
<1>8. CASE BeginSave(i) \/ WriteSave(i)
  <2>1. /\ pc[i] \in {"index", "write"} /\ db' = db
        /\ UNCHANGED <<up, owed, index, garbled, batch, pending>>
    BY <1>8 DEF BeginSave, WriteSave, tables, objects, call
  <2>2. Due(i)' = Due(i)
    BY <2>1 DEF Due
  <2> QED BY <2>1, <2>2 DEF FoundInv, Found
<1>9. CASE Rename(i)
  BY <1>9, EndFound DEF Rename, Ends
<1>11. CASE IndexingFails(i) \/ SaveFails(i) \/ RenameFails(i)
  BY <1>b, <1>11 DEF IndexingFails, SaveFails, RenameFails
<1>12. CASE Stop(i)
  BY <1>12 DEF Stop, Destroy, Found
<1> QED
  BY <1>1, <1>2, <1>3, <1>4, <1>5, <1>6, <1>7, <1>8, <1>9, <1>11, <1>12
     DEF Acts, Step, Constructor, Indexing

LEMMA FoundStep ==
    StoreInvariant /\ CursorInv /\ ContentInv /\ FoundInv /\ [Next]_vars => FoundInv'
<1> SUFFICES ASSUME StoreInvariant, CursorInv, ContentInv, FoundInv, [Next]_vars
             PROVE  FoundInv'
  OBVIOUS
<1>1. CASE UNCHANGED vars
  BY <1>1 DEF vars, tables, objects, call, FoundInv, Found, Due
<1>2. ASSUME NEW i \in Instance, Acts(i) PROVE FoundInv'
  <2>1. ASSUME NEW j \in Instance, j # i PROVE Found(j)'
    <3>1. Untouched(j)
      BY <1>2, <2>1, Elsewhere DEF StoreInvariant, TypeOK
    <3>2. db' = db \/ db' = work
      BY <1>2, CommittedShape
    <3>3. CASE pc[j] \in {"index", "write", "rename"}
      <4>1. Due(j)' \subseteq Due(j) /\ db.documents \subseteq db'.documents
        BY <3>1, <3>2, <3>3, DueKept DEF FoundInv, Found, ContentInv
      <4> QED BY <3>1, <3>3, <4>1 DEF FoundInv, Found, Untouched
    <3>4. CASE pc[j] \notin {"index", "write", "rename"}
      BY <3>1, <3>4 DEF FoundInv, Found, Untouched
    <3> QED BY <3>3, <3>4
  <2> QED BY <1>2, <2>1, FoundOwn DEF FoundInv
<1> QED BY <1>1, <1>2 DEF Next, Acts

-----------------------------------------------------------------------------
(* Vectors are queued, and enter the index, in the order of their ids. *)

Ordered(i) ==
    /\ \A n, m \in DOMAIN pending[i] : n < m => pending[i][n].id < pending[i][m].id
    /\ pc[i] = "index" /\ i \notin garbled =>
           \A e \in index[i] : \A n \in DOMAIN pending[i] : e.id < pending[i][n].id

OrderInv == \A i \in Instance : Ordered(i)

LEMMA OrderInit == Init => OrderInv
BY DEF Init, OrderInv, Ordered

LEMMA EntryIds ==
    ASSUME NEW s \in Seq(Row), NEW e \in Entries(s)
    PROVE  e.id \in 1..Len(s)
BY DEF Entries

LEMMA ChunkOrdered ==
    ASSUME StoreInvariant, OrderInv, NEW i \in Instance, InsertChunkRow(i)
    PROVE  Ordered(i)'
<1> DEFINE row == [document_id |-> Current(i).document_id,
                   chunk_index |-> at[i].chunk,
                   size        |-> Current(i).chunks[at[i].chunk + 1]]
           e   == [id |-> Len(work.chunks) + 1, row |-> row]
<1>1. pc[i] = "chunk" /\ pc'[i] = "fts" /\ pending'[i] = Append(pending[i], e)
  BY DEF InsertChunkRow, StoreInvariant, TypeOK, InstanceType
<1>2. e.id = Len(work.chunks) + 1
  OBVIOUS
<1> HIDE DEF e
<1>3. work.chunks \in Seq(Row) /\ pending[i] \in Seq(Entry)
  BY DEF StoreInvariant, TypeOK, TablesType, Tables, InstanceType
<1>4. \A n \in DOMAIN pending[i] : pending[i][n] \in Entries(work.chunks)
  BY <1>1 DEF StoreInvariant, PendingInv, LockInv
<1>5. \A n \in DOMAIN pending[i] : pending[i][n].id \in 1..Len(work.chunks)
  BY <1>3, <1>4, EntryIds
<1>6. \A n \in DOMAIN pending[i] : pending[i][n].id < e.id
  BY <1>2, <1>3, <1>5
<1>7. /\ DOMAIN pending'[i] = DOMAIN pending[i] \cup {Len(pending[i]) + 1}
      /\ \A n \in DOMAIN pending[i] : pending'[i][n] = pending[i][n] /\ n < Len(pending[i]) + 1
      /\ pending'[i][Len(pending[i]) + 1] = e
      /\ \A n \in DOMAIN pending'[i] : n \in Nat /\ n <= Len(pending[i]) + 1
      /\ Len(pending[i]) \in Nat
  BY <1>1, <1>3
<1>8. ASSUME NEW n \in DOMAIN pending'[i], NEW m \in DOMAIN pending'[i], n < m
      PROVE  pending'[i][n].id < pending'[i][m].id
  <2>1. n \in DOMAIN pending[i]
    BY <1>7, <1>8
  <2>2. CASE m \in DOMAIN pending[i]
    BY <1>7, <1>8, <2>1, <2>2 DEF OrderInv, Ordered
  <2>3. CASE m = Len(pending[i]) + 1
    BY <1>6, <1>7, <2>1, <2>3
  <2> QED BY <1>7, <2>2, <2>3
<1> QED BY <1>1, <1>8 DEF Ordered

LEMMA CommitOrdered ==
    ASSUME StoreInvariant, ContentInv, OrderInv, NEW i \in Instance, Commit(i)
    PROVE  Ordered(i)'
<1>1. pc[i] = "document" /\ UNCHANGED <<pending, index, garbled>>
  BY DEF Commit, Inserted, objects, call
<1>2. CASE i \notin lock
  <2>1. pending[i] = <<>>
    BY <1>1, <1>2 DEF StoreInvariant, PendingInv
  <2> QED BY <1>1, <2>1 DEF Ordered
<1>3. CASE i \in lock
  <2>1. \A n \in DOMAIN pending[i] : pending[i][n].id > Len(db.chunks) /\ pending[i][n].id \in Nat
    <3>1. Account(i)
      BY <1>1, <1>3 DEF ContentInv, AccountInv
    <3>2. pending[i] \in Seq(Entry)
      BY DEF StoreInvariant, TypeOK, InstanceType
    <3>3. \A n \in DOMAIN pending[i] : pending[i][n] \in Entry
      BY <3>2
    <3> QED BY <3>1, <3>3 DEF Account, Entry
  <2>2. /\ db.chunks \in Seq(Row)
        /\ i \notin garbled => index[i] \subseteq Entries(db.chunks)
    BY DEF StoreInvariant, TypeOK, TablesType, Tables, IndexBackedByRows
  <2>3. i \notin garbled => \A e \in index[i] : e.id \in 1..Len(db.chunks)
    BY <2>2, EntryIds
  <2>4. i \notin garbled =>
          \A e \in index[i] : \A n \in DOMAIN pending[i] : e.id < pending[i][n].id
    BY <2>1, <2>2, <2>3
  <2> QED BY <1>1, <2>4 DEF OrderInv, Ordered
<1> QED BY <1>2, <1>3

LEMMA AddVectorOrdered ==
    ASSUME StoreInvariant, OrderInv, NEW i \in Instance, AddVector(i)
    PROVE  Ordered(i)'
<1>1. /\ pc[i] = "index" /\ pending[i] # <<>> /\ pending[i] \in Seq(Entry)
      /\ index'[i] = index[i] \cup {pending[i][1]} /\ garbled' = garbled
      /\ pending'[i] = Tail(pending[i])
  BY DEF AddVector, StoreInvariant, TypeOK, InstanceType
<1>2. \A n \in DOMAIN Tail(pending[i]) :
        /\ n \in Nat /\ n + 1 \in DOMAIN pending[i] /\ 1 < n + 1 /\ 1 \in DOMAIN pending[i]
        /\ Tail(pending[i])[n] = pending[i][n + 1]
  BY <1>1
<1>3. \A n, m \in DOMAIN Tail(pending[i]) : n < m => n + 1 < m + 1
  BY <1>2
<1>4. \A n, m \in DOMAIN pending'[i] : n < m => pending'[i][n].id < pending'[i][m].id
  BY <1>1, <1>2, <1>3 DEF OrderInv, Ordered
<1>5. \A n \in DOMAIN pending'[i] : pending[i][1].id < pending'[i][n].id
  BY <1>1, <1>2 DEF OrderInv, Ordered
<1>6. i \notin garbled =>
        \A e \in index[i] : \A n \in DOMAIN pending'[i] : e.id < pending'[i][n].id
  BY <1>1, <1>2 DEF OrderInv, Ordered
<1> QED BY <1>1, <1>4, <1>5, <1>6 DEF Ordered

LEMMA OrderedOwn ==
    ASSUME StoreInvariant, CursorInv, ContentInv, OrderInv, NEW i \in Instance, Acts(i)
    PROVE  Ordered(i)'
<1> USE DEF StoreInvariant, TypeOK, InstanceType
<1>a. ASSUME pending' = pending, pc'[i] # "index" PROVE Ordered(i)'
  BY <1>a DEF OrderInv, Ordered
<1>b. ASSUME Ends(i) PROVE Ordered(i)'
  BY <1>b, EndShape DEF Ordered
<1>1. CASE \E d \in Dim : Open(i, d)
  BY <1>a, <1>1 DEF Open, call
<1>2. CASE \E b \in Batches : AddDocuments(i, b)
  BY <1>a, <1>2 DEF AddDocuments
<1>3. CASE LoadSidecar(i) \/ TrustSidecar(i) \/ DiscardSidecar(i)
  BY <1>a, <1>3 DEF LoadSidecar, TrustSidecar, DiscardSidecar, call
<1>4. CASE ScanChunks(i)
  <2>1. index'[i] = {} /\ pending'[i] = Snapshot(db.chunks)
    BY <1>4 DEF ScanChunks, objects, CursorInv, Cursor
  <2>2. \A n \in DOMAIN Snapshot(db.chunks) : Snapshot(db.chunks)[n].id = n
    BY DEF Snapshot
  <2> QED BY <2>1, <2>2 DEF Ordered
<1>5. CASE Transaction(i)
  <2>1. CASE BeginFails(i) \/ InsertFails(i) \/ CommitFails(i)
    BY <1>b, <2>1 DEF BeginFails, InsertFails, CommitFails, Ends
  <2>2. CASE Begin(i) \/ InsertDocumentRow(i) \/ NextDocument(i)
    BY <1>a, <2>2 DEF Begin, InsertDocumentRow, NextDocument, call
  <2>3. CASE InsertChunkFtsRow(i)
    BY <1>a, <2>3 DEF InsertChunkFtsRow
  <2> QED BY <1>5, <2>1, <2>2, <2>3, ChunkOrdered, CommitOrdered DEF Transaction
<1>6. CASE Indexing(i)
  <2>1. CASE IndexingFails(i) \/ SaveFails(i) \/ Rename(i) \/ RenameFails(i)
    BY <1>b, <2>1 DEF IndexingFails, SaveFails, Rename, RenameFails, Ends
  <2>2. CASE BeginSave(i) \/ WriteSave(i)
    BY <1>a, <2>2 DEF BeginSave, WriteSave, call
  <2> QED BY <1>6, <2>1, <2>2, AddVectorOrdered DEF Indexing
<1>7. CASE Stop(i)
  BY <1>b, <1>7 DEF Stop, Ends
<1> QED BY <1>1, <1>2, <1>3, <1>4, <1>5, <1>6, <1>7 DEF Acts, Step, Constructor

LEMMA OrderStep ==
    StoreInvariant /\ CursorInv /\ ContentInv /\ OrderInv /\ [Next]_vars => OrderInv'
<1> SUFFICES ASSUME StoreInvariant, CursorInv, ContentInv, OrderInv, [Next]_vars
             PROVE  OrderInv'
  OBVIOUS
<1>1. CASE UNCHANGED vars
  BY <1>1 DEF vars, objects, call, OrderInv, Ordered
<1>2. ASSUME NEW i \in Instance, Acts(i) PROVE OrderInv'
  <2>1. ASSUME NEW j \in Instance, j # i PROVE Ordered(j)'
    <3>1. Untouched(j)
      BY <1>2, <2>1, Elsewhere DEF StoreInvariant, TypeOK
    <3> QED BY <3>1 DEF OrderInv, Ordered, Untouched
  <2> QED BY <1>2, <2>1, OrderedOwn DEF OrderInv
<1> QED BY <1>1, <1>2 DEF Next, Acts

-----------------------------------------------------------------------------
(* The promises to callers. *)

CallersInvariant == StoreInvariant /\ CursorInv /\ ContentInv /\ FoundInv /\ OrderInv

\* Everything above holds together, throughout.
THEOREM CallersCorrect == Spec => []CallersInvariant
<1>1. Init => CallersInvariant
  BY StoreInit, CursorInit, ContentInit, FoundInit, OrderInit DEF CallersInvariant
<1>2. CallersInvariant /\ [Next]_vars => CallersInvariant'
  BY StoreStep, CursorStep, ContentStep, FoundStep, OrderStep DEF CallersInvariant
<1> QED BY <1>1, <1>2, PTL DEF Spec

\* An open instance finds every row that was committed when it was opened and
\* every row its own add_documents calls returned from, however many other
\* instances write to the same file (chunk_store.cpp:36-54 and 85-96).
THEOREM OwnWritesAreFound == Spec => []ReadYourWrites
<1>1. CallersInvariant => ReadYourWrites
  BY DEF CallersInvariant, FoundInv, Found, ReadYourWrites
<1> QED BY <1>1, CallersCorrect, PTL

\* (document_id, chunk_index) names one committed row: the pair identifies a
\* chunk wherever dense and sparse hits are merged.
THEOREM ChunkKeysAreUnique == Spec => []ChunkKeysUnique
<1>1. CallersInvariant => ChunkKeysUnique
  BY CommittedKeysUnique DEF CallersInvariant, ContentInv, ChunkKeysUnique, KeysUnique
<1> QED BY <1>1, CallersCorrect, PTL

\* usearch is never asked to add an id it holds: the ids of a transaction are
\* above those of every vector indexed before it.
THEOREM NoKeyAddedTwice == Spec => []NoDuplicateKey
<1>1. ASSUME CallersInvariant PROVE NoDuplicateKey
  <2> SUFFICES ASSUME NEW i \in Instance, pc[i] = "index", pending[i] # <<>>,
                      i \notin garbled, NEW e \in index[i]
               PROVE  e.id # Head(pending[i]).id
    BY DEF NoDuplicateKey
  <2>1. pending[i] \in Seq(Entry) /\ index[i] \subseteq Entry
    BY <1>1 DEF CallersInvariant, StoreInvariant, TypeOK, InstanceType
  <2>2. 1 \in DOMAIN pending[i] /\ Head(pending[i]) = pending[i][1] /\ pending[i][1] \in Entry
    BY <2>1
  <2>3. e.id < pending[i][1].id /\ e.id \in Nat /\ pending[i][1].id \in Nat
    BY <1>1, <2>1, <2>2 DEF CallersInvariant, OrderInv, Ordered, Entry
  <2> QED BY <2>2, <2>3
<1> QED BY <1>1, CallersCorrect, PTL

\* As long as a failing COMMIT rolls back, a call that has ended has given up
\* SQLite's write lock; run commit_left_open shows the hypothesis is needed.
THEOREM TransactionsEnd ==
    ASSUME ~CommitBusy
    PROVE  Spec => []NoTransactionLeftOpen
<1>1. CallersInvariant => NoTransactionLeftOpen
  BY DEF CallersInvariant, CursorInv, Cursor, NoTransactionLeftOpen, StoreInvariant, TypeOK,
     TablesType
<1> QED BY <1>1, CallersCorrect, PTL

-----------------------------------------------------------------------------
(* Sizes: an index takes vectors of its own dimensionality only. *)

Fits(i) ==
    /\ i \notin garbled => \A e \in index[i] : e.row.size = dim[i]
    /\ \A n \in DOMAIN batch[i] : \A m \in DOMAIN batch[i][n].chunks :
           batch[i][n].chunks[m] = dim[i]

FileFits(file) == file.state # "mixed" => \A e \in file.entries : e.row.size = file.dim

FilesFit == FileFits(sidecar) /\ FileFits(temp)

FitInv == FilesFit /\ \A i \in Instance : Fits(i)

LEMMA FitInit == Init => FitInv
BY DEF Init, FitInv, FilesFit, FileFits, Fits, AbsentFile

\* A file takes the size of the graph that is written to it.
LEMMA WrittenFits ==
    ASSUME NEW file \in File, NEW i \in Instance, NEW g \in Written(file, i),
           FileFits(file), Fits(i)
    PROVE  FileFits(g)
<1> DEFINE saved(m) == [state   |-> IF m = index[i] /\ i \notin garbled
                                    THEN "whole" ELSE "mixed",
                        dim     |-> dim[i], entries |-> m,
                        writers |-> file.writers \ {i}]
<1>1. g = file \/ g = Unreadable(file, i) \/ \E m : g = saved(m)
  BY DEF Written
<1>2. ASSUME NEW m, g = saved(m) PROVE FileFits(g)
  <2>1. /\ g.state = (IF m = index[i] /\ i \notin garbled THEN "whole" ELSE "mixed")
        /\ g.entries = m /\ g.dim = dim[i]
    BY <1>2
  <2> QED BY <2>1 DEF FileFits, Fits
<1> HIDE DEF saved
<1> QED BY <1>1, <1>2 DEF Unreadable, FileFits

LEMMA AbandonedFits ==
    ASSUME NEW file \in File, NEW i \in Instance, NEW g \in Abandoned(file, i),
           FileFits(file)
    PROVE  FileFits(g)
BY DEF Abandoned, Unreadable, FileFits, File

LEMMA FilesFitStep ==
    ASSUME StoreInvariant, FitInv, NEW i \in Instance, Acts(i)
    PROVE  FilesFit'
<1>0. sidecar \in File /\ temp \in File
  BY DEF StoreInvariant, TypeOK, FilesType
<1>a. ASSUME UNCHANGED files PROVE FilesFit'
  BY <1>a DEF files, FitInv, FilesFit
<1>b. CASE temp' \in Abandoned(temp, i) /\ sidecar' \in Abandoned(sidecar, i)
  BY <1>0, <1>b, AbandonedFits DEF FitInv, FilesFit
<1>1. CASE \E d \in Dim : Open(i, d)
  BY <1>a, <1>1 DEF Open
<1>2. CASE \E b \in Batches : AddDocuments(i, b)
  BY <1>a, <1>2 DEF AddDocuments
<1>3. CASE Constructor(i)
  BY <1>a, <1>3 DEF Constructor, LoadSidecar, TrustSidecar, DiscardSidecar, ScanChunks
<1>4. CASE Transaction(i)
  BY <1>a, <1>4 DEF Transaction, Begin, BeginFails, InsertDocumentRow, InsertChunkRow,
     InsertChunkFtsRow, NextDocument, InsertFails, Commit, CommitFails
<1>5. CASE AddVector(i) \/ IndexingFails(i)
  BY <1>a, <1>5 DEF AddVector, IndexingFails
<1>6. CASE BeginSave(i)
  <2>1. temp'.entries = {} /\ sidecar' = sidecar
    BY <1>6 DEF BeginSave
  <2> QED BY <2>1 DEF FitInv, FilesFit, FileFits
<1>7. CASE WriteSave(i)
  <2>1. temp' \in Written(temp, i) /\ sidecar' \in Written(sidecar, i)
    BY <1>7 DEF WriteSave
  <2>2. FileFits(sidecar) /\ FileFits(temp) /\ Fits(i)
    BY DEF FitInv, FilesFit
  <2> QED BY <1>0, <2>1, <2>2, WrittenFits DEF FilesFit
<1>8. CASE SaveFails(i)
  BY <1>b, <1>8 DEF SaveFails
<1>9. CASE Rename(i) \/ RenameFails(i)
  BY <1>9 DEF Rename, RenameFails, AbsentFile, FitInv, FilesFit, FileFits
<1>10. CASE Stop(i)
  BY <1>b, <1>10 DEF Stop
<1> QED
  BY <1>1, <1>2, <1>3, <1>4, <1>5, <1>6, <1>7, <1>8, <1>9, <1>10 DEF Acts, Step, Indexing

LEMMA EndFits ==
    ASSUME InstanceType, NEW i \in Instance, Fits(i), Ends(i)
    PROVE  Fits(i)'
<1>1. /\ batch'[i] = <<>>
      /\ \/ index'[i] = {}
         \/ index'[i] = index[i] /\ dim'[i] = dim[i] /\ (i \in garbled' <=> i \in garbled)
  BY EndShape
<1>2. i \notin garbled' => \A e \in index'[i] : e.row.size = dim'[i]
  BY <1>1 DEF Fits
<1> QED BY <1>1, <1>2 DEF Fits

LEMMA FitsOwn ==
    ASSUME StoreInvariant, CursorInv, FitInv, NEW i \in Instance, Acts(i)
    PROVE  Fits(i)'
<1> USE DEF StoreInvariant, TypeOK, InstanceType
<1>a. ASSUME UNCHANGED <<dim, index, garbled, batch>> PROVE Fits(i)'
  BY <1>a DEF FitInv, Fits
<1>b. ASSUME Ends(i) PROVE Fits(i)'
  BY <1>b, EndFits DEF FitInv
<1>1. CASE \E d \in Dim : Open(i, d)
  BY <1>1 DEF Open, call, CursorInv, Cursor, Fits
<1>2. CASE \E b \in Batches : AddDocuments(i, b)
  <2>1. PICK b \in Batches : AddDocuments(i, b)
    BY <1>2
  <2>2. batch'[i] = b /\ dim' = dim /\ index' = index /\ garbled' = garbled
    BY <2>1 DEF AddDocuments, objects
  <2>3. \A n \in DOMAIN b : \A m \in DOMAIN b[n].chunks : b[n].chunks[m] = dim[i]
    BY <2>1 DEF AddDocuments
  <2> QED BY <2>2, <2>3 DEF FitInv, Fits
<1>3. CASE LoadSidecar(i)
  BY <1>3 DEF LoadSidecar, Loadable, call, FitInv, FilesFit, FileFits, Fits
<1>4. CASE DiscardSidecar(i)
  BY <1>4 DEF DiscardSidecar, call, FitInv, Fits
<1>5. CASE TrustSidecar(i) \/ ScanChunks(i)
  BY <1>a, <1>5 DEF TrustSidecar, ScanChunks, call, objects
<1>6. CASE Transaction(i)
  <2>1. CASE BeginFails(i) \/ InsertFails(i) \/ CommitFails(i)
    BY <1>b, <2>1 DEF BeginFails, InsertFails, CommitFails, Ends
  <2>2. CASE ~(BeginFails(i) \/ InsertFails(i) \/ CommitFails(i))
    BY <1>a, <1>6, <2>2 DEF Transaction, Begin, InsertDocumentRow, InsertChunkRow,
       InsertChunkFtsRow, NextDocument, Commit, objects, call
  <2> QED BY <2>1, <2>2
<1>7. CASE AddVector(i)
  BY <1>7 DEF AddVector, FitInv, Fits
<1>8. CASE IndexingFails(i) \/ SaveFails(i) \/ Rename(i) \/ RenameFails(i)
  BY <1>b, <1>8 DEF IndexingFails, SaveFails, Rename, RenameFails, Ends
<1>9. CASE BeginSave(i) \/ WriteSave(i)
  BY <1>a, <1>9 DEF BeginSave, WriteSave, objects, call
<1>10. CASE Stop(i)
  BY <1>b, <1>10 DEF Stop, Ends
<1> QED
  BY <1>1, <1>2, <1>3, <1>4, <1>5, <1>6, <1>7, <1>8, <1>9, <1>10
     DEF Acts, Step, Constructor, Indexing

LEMMA FitStep == StoreInvariant /\ CursorInv /\ FitInv /\ [Next]_vars => FitInv'
<1> SUFFICES ASSUME StoreInvariant, CursorInv, FitInv, [Next]_vars PROVE FitInv'
  OBVIOUS
<1>1. CASE UNCHANGED vars
  BY <1>1 DEF vars, files, objects, call, FitInv, FilesFit, Fits
<1>2. ASSUME NEW i \in Instance, Acts(i) PROVE FitInv'
  <2>1. ASSUME NEW j \in Instance, j # i PROVE Fits(j)'
    <3>1. Untouched(j)
      BY <1>2, <2>1, Elsewhere DEF StoreInvariant, TypeOK
    <3> QED BY <3>1 DEF FitInv, Fits, Untouched
  <2> QED BY <1>2, <2>1, FitsOwn, FilesFitStep DEF FitInv
<1> QED BY <1>1, <1>2 DEF Next, Acts

-----------------------------------------------------------------------------
(* One engine on the database path.                                         *)

SizedFor(rows, d) == \A n \in DOMAIN rows : rows[n].size = d

\* An engine that is open has the size of all rows; a constructor that rebuilds
\* the index will have gone through all of them.
OneSize(i) ==
    /\ up[i] => SizedFor(work.chunks, dim[i])
    /\ OneSizeStored
    /\ ~up[i] /\ pc[i] \in {"index", "write", "rename"} => Entries(db.chunks) \subseteq owed[i]

\* Nobody else writes the files; a save is whole before it is renamed.
SavesAlone(i) ==
    /\ sidecar.writers = {} /\ sidecar.state \in {"absent", "whole"}
    /\ temp.writers = IF pc[i] = "write" THEN {i} ELSE {}
    /\ pc[i] = "write" => temp.state = "writing"
    /\ pc[i] = "rename" => temp.state = "whole"
    /\ i \notin garbled

AloneInv == \A i \in Instance : OneSize(i) /\ SavesAlone(i)

LEMMA AloneInit == Init => AloneInv
BY DEF Init, AloneInv, OneSize, SavesAlone, SizedFor, OneSizeStored, NoTables, AbsentFile

\* Vectors of one size in the index, and every row in the index: rows of one size.
LEMMA RowsFit ==
    ASSUME NEW i \in Instance, Fits(i), i \notin garbled, NEW rows,
           Entries(rows) \subseteq index[i]
    PROVE  SizedFor(rows, dim[i])
<1> SUFFICES ASSUME NEW n \in DOMAIN rows PROVE rows[n].size = dim[i]
  BY DEF SizedFor
<1>1. [id |-> n, row |-> rows[n]] \in index[i]
  BY DEF Entries
<1> QED BY <1>1 DEF Fits

\* With one instance, nothing is uncommitted while it is not open.
LEMMA AloneQuiet ==
    ASSUME StoreInvariant, CursorInv, NEW i \in Instance, \A j \in Instance : j = i, ~up[i]
    PROVE  lock = {} /\ work = db
BY DEF StoreInvariant, TypeOK, TablesType, LockInv, CursorInv, Cursor

LEMMA AloneTransaction ==
    ASSUME StoreInvariant, CursorInv, FitInv, NEW i \in Instance,
           \A j \in Instance : j = i, OneSize(i), Transaction(i)
    PROVE  OneSize(i)'
<1> USE DEF StoreInvariant, TypeOK, InstanceType
<1>0. up[i] /\ pc[i] \in {"begin", "document", "chunk", "fts"}
  BY DEF CursorInv, Cursor, Transaction, Begin, BeginFails, InsertDocumentRow, InsertChunkRow,
     InsertChunkFtsRow, NextDocument, InsertFails, Commit, CommitFails, InsertLoop, Inserted
<1>1. SizedFor(work.chunks, dim[i]) /\ OneSizeStored
  BY <1>0 DEF OneSize
<1>2. SizedFor(db.chunks, dim[i])
  BY <1>1, CommittedPrefix DEF SizedFor
<1>3. ASSUME Throw(i) PROVE up'[i] /\ dim'[i] = dim[i]
  BY <1>0, <1>3 DEF Throw, objects
<1>4. ASSUME db' = db, work'.chunks = work.chunks, up'[i] /\ dim'[i] = dim[i] PROVE OneSize(i)'
  BY <1>1, <1>4 DEF OneSize, OneSizeStored
<1>5. ASSUME Rollback(i), up'[i] /\ dim'[i] = dim[i] PROVE OneSize(i)'
  BY <1>1, <1>2, <1>5 DEF Rollback, OneSize, OneSizeStored
<1>6. CASE BeginFails(i)
  BY <1>3, <1>4, <1>6 DEF BeginFails, tables
<1>7. CASE InsertFails(i)
  BY <1>3, <1>5, <1>7 DEF InsertFails
<1>8. CASE CommitFails(i)
  BY <1>3, <1>4, <1>5, <1>8 DEF CommitFails, tables
<1>9. CASE Begin(i) \/ NextDocument(i)
  BY <1>0, <1>4, <1>9 DEF Begin, NextDocument, tables, objects
<1>10. CASE InsertDocumentRow(i) \/ InsertChunkFtsRow(i)
  <2>1. work'.chunks = work.chunks
    BY <1>10 DEF InsertDocumentRow, InsertChunkFtsRow, TablesType, Tables
  <2> QED BY <1>0, <1>4, <1>10, <2>1 DEF InsertDocumentRow, InsertChunkFtsRow, objects
<1>11. CASE InsertChunkRow(i)
  <2> DEFINE row == [document_id |-> Current(i).document_id,
                     chunk_index |-> at[i].chunk,
                     size        |-> Current(i).chunks[at[i].chunk + 1]]
  <2>1. /\ work' = [work EXCEPT !.chunks = Append(@, row)] /\ db' = db
        /\ at[i].chunk < Len(Current(i).chunks) /\ UNCHANGED <<up, dim>>
    BY <1>11 DEF InsertChunkRow, objects
  <2>2. Current(i) \in DocumentInput /\ Current(i).document_id \in Document
        /\ Current(i).chunks \in Seq(Dim) /\ at[i].doc <= Len(batch[i])
    BY <1>11, CurrentType DEF InsertChunkRow, LoopInv
  <2>3. at[i].chunk \in Nat /\ at[i].doc \in Nat \ {0} /\ batch[i] \in Seq(DocumentInput)
    OBVIOUS
  <2>4. at[i].chunk + 1 \in DOMAIN Current(i).chunks /\ at[i].doc \in DOMAIN batch[i]
    BY <2>1, <2>2, <2>3
  <2>5. Current(i).chunks[at[i].chunk + 1] = dim[i]
    BY <2>4 DEF FitInv, Fits, Current
  <2>6. row \in Row /\ row.size = dim[i]
    BY <2>2, <2>3, <2>4, <2>5 DEF Row
  <2> HIDE DEF row
  <2>7. work.chunks \in Seq(Row) /\ work'.chunks = Append(work.chunks, row)
    BY <2>1 DEF TablesType, Tables
  <2>8. SizedFor(work'.chunks, dim[i])
    BY <1>1, <2>6, <2>7, AppendShape DEF SizedFor
  <2> QED BY <1>0, <1>1, <2>1, <2>8 DEF OneSize, OneSizeStored
<1>12. CASE Commit(i)
  <2>1. SizedFor(db'.chunks, dim[i]) /\ UNCHANGED <<up, dim, work>>
    BY <1>1, <1>2, <1>12 DEF Commit, objects
  <2> QED BY <1>0, <1>1, <2>1 DEF OneSize, OneSizeStored, SizedFor
<1> QED
  BY <1>6, <1>7, <1>8, <1>9, <1>10, <1>11, <1>12 DEF Transaction

LEMMA AloneSize ==
    ASSUME CallersInvariant, FitInv, NEW i \in Instance, \A j \in Instance : j = i,
           OneSize(i), i \notin garbled, Acts(i)
    PROVE  OneSize(i)'
<1> USE DEF CallersInvariant, StoreInvariant, TypeOK, InstanceType
<1>a. ASSUME UNCHANGED <<db, work>>, up'[i] => up[i] /\ dim'[i] = dim[i],
             ~up'[i] => pc'[i] \notin {"index", "write", "rename"}
      PROVE  OneSize(i)'
  BY <1>a DEF OneSize, OneSizeStored
<1>b. ASSUME UNCHANGED <<db, work>>, Throw(i) \/ Destroy(i) PROVE OneSize(i)'
  <2>1. CASE up[i] /\ UNCHANGED objects
    BY <1>a, <1>b, <2>1 DEF objects
  <2>2. CASE Destroy(i)
    BY <1>a, <1>b, <2>2 DEF Destroy
  <2> QED BY <1>b, <2>1, <2>2 DEF Throw
<1>1. CASE \E d \in Dim : Open(i, d)
  BY <1>a, <1>1 DEF Open, tables, CursorInv, Cursor
<1>2. CASE \E b \in Batches : AddDocuments(i, b)
  BY <1>a, <1>2 DEF AddDocuments, tables, objects
<1>3. CASE LoadSidecar(i) \/ DiscardSidecar(i)
  BY <1>a, <1>3 DEF LoadSidecar, DiscardSidecar, tables
<1>4. CASE TrustSidecar(i)
  <2>1. index[i] = Entries(db.chunks) /\ ~up[i]
    BY <1>4, EqualCountsEqualContents DEF TrustSidecar, CursorInv, Cursor
  <2>2. SizedFor(db.chunks, dim[i])
    BY <2>1, RowsFit DEF FitInv
  <2>3. work = db
    BY <2>1, AloneQuiet
  <2>4. UNCHANGED <<db, work, dim>> /\ up'[i]
    BY <1>4 DEF TrustSidecar, tables
  <2> QED BY <2>2, <2>3, <2>4 DEF OneSize, OneSizeStored
<1>5. CASE ScanChunks(i)
  BY <1>5 DEF ScanChunks, tables, objects, CursorInv, Cursor, OneSize, OneSizeStored
<1>6. CASE Transaction(i)
  BY <1>6, AloneTransaction
<1>7. CASE AddVector(i) \/ BeginSave(i) \/ WriteSave(i)
  BY <1>7 DEF AddVector, BeginSave, WriteSave, tables, objects, OneSize, OneSizeStored
<1>8. CASE IndexingFails(i) \/ SaveFails(i) \/ RenameFails(i)
  BY <1>b, <1>8 DEF IndexingFails, SaveFails, RenameFails, tables
<1>9. CASE Rename(i)
  <2>1. pc[i] = "rename" /\ Return(i) /\ UNCHANGED <<db, work, dim>> /\ up'[i]
    BY <1>9 DEF Rename, Return, tables
  <2>2. CASE up[i]
    BY <2>1, <2>2 DEF OneSize, OneSizeStored
  <2>3. CASE ~up[i]
    <3>1. pending[i] = <<>>
      BY <2>1 DEF PendingInv
    <3>2. Entries(db.chunks) \subseteq index[i]
      BY <2>1, <2>3, <3>1 DEF OneSize, FoundInv, Found, Due
    <3>3. SizedFor(db.chunks, dim[i]) /\ work = db
      BY <2>3, <3>2, RowsFit, AloneQuiet DEF FitInv
    <3> QED BY <2>1, <3>3 DEF OneSize, OneSizeStored
  <2> QED BY <2>2, <2>3
<1>10. CASE Stop(i)
  <2>1. db' = db /\ ~up'[i] /\ pc'[i] = "closed"
    BY <1>10 DEF Stop, Rollback, Destroy
  <2> QED BY <2>1 DEF OneSize, OneSizeStored
<1> QED
  BY <1>1, <1>2, <1>3, <1>4, <1>5, <1>6, <1>7, <1>8, <1>9, <1>10
     DEF Acts, Step, Constructor, Indexing

LEMMA AloneSaves ==
    ASSUME StoreInvariant, NEW i \in Instance, SavesAlone(i), Acts(i)
    PROVE  SavesAlone(i)'
<1> USE DEF StoreInvariant, TypeOK, InstanceType, FilesType
<1>0. i \notin garbled
  BY DEF SavesAlone
<1>a. ASSUME UNCHANGED files, pc[i] # "write", pc'[i] \notin {"write", "rename"},
             i \notin garbled'
      PROVE  SavesAlone(i)'
  BY <1>a DEF files, SavesAlone
<1>b. ASSUME temp' \in Abandoned(temp, i), sidecar' \in Abandoned(sidecar, i), Ends(i)
      PROVE  SavesAlone(i)'
  <2>1. pc'[i] \notin {"write", "rename"} /\ i \notin garbled'
    BY <1>b, EndShape DEF SavesAlone
  <2>2. /\ temp'.writers = temp.writers \ {i}
        /\ sidecar' = sidecar
    BY <1>b DEF Abandoned, Unreadable, File, SavesAlone
  <2> QED BY <2>1, <2>2 DEF SavesAlone
<1>1. CASE \E d \in Dim : Open(i, d)
  BY <1>0, <1>a, <1>1 DEF Open
<1>2. CASE \E b \in Batches : AddDocuments(i, b)
  BY <1>0, <1>a, <1>2 DEF AddDocuments, objects
<1>3. CASE Constructor(i)
  <2>1. sidecar.state # "mixed"
    BY DEF SavesAlone
  <2> QED BY <1>0, <1>a, <1>3, <2>1
       DEF Constructor, LoadSidecar, TrustSidecar, DiscardSidecar, ScanChunks, objects
<1>4. CASE Transaction(i)
  <2>1. CASE BeginFails(i) \/ InsertFails(i) \/ CommitFails(i)
    BY <1>0, <1>a, <2>1, EndShape DEF BeginFails, InsertFails, CommitFails, Ends, InsertLoop, Inserted
  <2>2. CASE Begin(i) \/ InsertDocumentRow(i) \/ NextDocument(i) \/ Commit(i)
    BY <1>0, <1>a, <2>2 DEF Begin, InsertDocumentRow, NextDocument, Commit, Inserted, objects
  <2>3. CASE InsertChunkRow(i) \/ InsertChunkFtsRow(i)
    BY <1>0, <1>a, <2>3 DEF InsertChunkRow, InsertChunkFtsRow, objects
  <2> QED BY <1>4, <2>1, <2>2, <2>3 DEF Transaction
<1>5. CASE AddVector(i)
  BY <1>0, <1>a, <1>5 DEF AddVector
<1>6. CASE IndexingFails(i)
  BY <1>0, <1>a, <1>6, EndShape DEF IndexingFails, Ends
<1>7. CASE BeginSave(i)
  BY <1>7 DEF BeginSave, SavesAlone, objects
<1>8. CASE WriteSave(i)
  BY <1>8 DEF WriteSave, SavesAlone, Written, objects
<1>9. CASE SaveFails(i)
  BY <1>b, <1>9 DEF SaveFails, Ends
<1>10. CASE Rename(i)
  BY <1>10 DEF Rename, Return, SavesAlone, AbsentFile
<1>11. CASE RenameFails(i)
  <2>1. pc'[i] \notin {"write", "rename"} /\ i \notin garbled'
    BY <1>0, <1>11, EndShape DEF RenameFails, Ends
  <2> QED BY <1>11, <2>1 DEF RenameFails, SavesAlone, AbsentFile
<1>12. CASE Stop(i)
  BY <1>b, <1>12 DEF Stop, Ends
<1> QED
  BY <1>1, <1>2, <1>3, <1>4, <1>5, <1>6, <1>7, <1>8, <1>9, <1>10, <1>11, <1>12
     DEF Acts, Step, Indexing

LEMMA AloneStep ==
    ASSUME \A i, j \in Instance : i = j
    PROVE  CallersInvariant /\ FitInv /\ AloneInv /\ [Next]_vars => AloneInv'
<1> SUFFICES ASSUME CallersInvariant, FitInv, AloneInv, [Next]_vars PROVE AloneInv'
  OBVIOUS
<1>1. CASE UNCHANGED vars
  BY <1>1 DEF vars, tables, files, objects, AloneInv, OneSize, OneSizeStored, SavesAlone
<1>2. ASSUME NEW i \in Instance, Acts(i) PROVE AloneInv'
  <2>1. OneSize(i)' /\ SavesAlone(i)'
    BY <1>2, AloneSize, AloneSaves DEF AloneInv, SavesAlone, CallersInvariant
  <2> QED BY <2>1 DEF AloneInv
<1> QED BY <1>1, <1>2 DEF Next, Acts

\* Every vector in an engine's index has that engine's size: distances are taken
\* within one space, whatever sizes the engines of a database were opened with.
VectorsFit ==
    \A i \in Instance : i \notin garbled => \A e \in index[i] : e.row.size = dim[i]

\* An index that does not go back to a file of two writers holds vectors of its
\* engine's size only, for any number of engines and sizes: the check after a
\* load and the one before an addition see to it.
THEOREM IndexesHoldOneSize == Spec => []VectorsFit
<1>1. Init => FitInv
  BY FitInit
<1>2. CallersInvariant /\ FitInv /\ [Next]_vars => FitInv'
  BY FitStep DEF CallersInvariant
<1>3. FitInv => VectorsFit
  BY DEF FitInv, Fits, VectorsFit
<1> QED BY <1>1, <1>2, <1>3, CallersCorrect, PTL DEF Spec

\* With one engine on the path all stored embeddings have one size, the size of
\* the engine that is open; run mixed_sizes shows that two engines can differ.
THEOREM OneEngineOneSize ==
    ASSUME NEW engine, Instance = {engine}
    PROVE  Spec => []OneSizeOnly
<1>1. Init => FitInv /\ AloneInv
  BY FitInit, AloneInit
<1>2. CallersInvariant /\ FitInv /\ AloneInv /\ [Next]_vars => FitInv' /\ AloneInv'
  BY FitStep, AloneStep DEF CallersInvariant
<1>3. FitInv /\ AloneInv => OneSizeOnly
  BY DEF FitInv, Fits, AloneInv, OneSize, SavesAlone, OneSizeOnly
<1> QED BY <1>1, <1>2, <1>3, CallersCorrect, PTL DEF Spec

\* With one engine on the path a crash at any point leaves a sidecar that is
\* absent or whole.
THEOREM OneEngineNoTornSidecar ==
    ASSUME NEW engine, Instance = {engine}
    PROVE  Spec => []CrashLeavesNoTornSidecar
<1>1. Init => FitInv /\ AloneInv
  BY FitInit, AloneInit
<1>2. CallersInvariant /\ FitInv /\ AloneInv /\ [Next]_vars => FitInv' /\ AloneInv'
  BY FitStep, AloneStep DEF CallersInvariant
<1>3. AloneInv => CrashLeavesNoTornSidecar
  BY DEF AloneInv, SavesAlone, CrashLeavesNoTornSidecar
<1> QED BY <1>1, <1>2, <1>3, CallersCorrect, PTL DEF Spec

\* And with one engine on the path every sidecar the constructor trusts is
\* complete and right, as ADR-10 has it; run shared_temp shows that with two it
\* need not be.
THEOREM OneEngineTrustIsSound ==
    ASSUME NEW engine, Instance = {engine}
    PROVE  Spec => EverySidecarTrustedIsComplete
<1>1. Init => FitInv /\ AloneInv
  BY FitInit, AloneInit
<1>2. CallersInvariant /\ FitInv /\ AloneInv /\ [Next]_vars => FitInv' /\ AloneInv'
  BY FitStep, AloneStep DEF CallersInvariant
<1>3. ASSUME CallersInvariant, AloneInv, [Next]_vars
      PROVE  [\A i \in Instance : ~loaded[i] /\ loaded'[i] =>
                index'[i] = Entries(db.chunks)]_vars
  <2> SUFFICES ASSUME NEW i \in Instance, ~loaded[i], loaded'[i]
               PROVE  index'[i] = Entries(db.chunks)
    OBVIOUS
  <2>1. TrustSidecar(i) /\ i \notin garbled
    BY <1>3, LoadedSetByTrust
       DEF CallersInvariant, StoreInvariant, TypeOK, AloneInv, SavesAlone
  <2>2. index[i] = Entries(db.chunks)
    BY <1>3, <2>1, EqualCountsEqualContents DEF TrustSidecar, CallersInvariant
  <2> QED BY <2>1, <2>2 DEF TrustSidecar
<1> QED
  BY <1>1, <1>2, <1>3, CallersCorrect, PTL DEF Spec, EverySidecarTrustedIsComplete

(***************************************************************************)
(* The write path implements DocumentStore: for any number of instances,   *)
(* documents and chunks, add_documents stores all documents of one call at *)
(* one moment, its COMMIT, or none of them, and never touches a stored     *)
(* one.  What is needed beyond CallersInvariant is that the rows of every  *)
(* committed document spell it out, without a gap and without a double.    *)
(***************************************************************************)
(* Reading a document back from its rows. *)

\* ChunksOf, of any table.
ChunksIn(rows, d) ==
    LET own == { n \in DOMAIN rows : rows[n].document_id = d }
    IN  [m \in 1..Cardinality(own) |->
            rows[CHOOSE n \in own : rows[n].chunk_index = m - 1].size]

\* The rows of a document that is spelled out number its chunks.
LEMMA OwnRowsCount ==
    ASSUME NEW rows \in Seq(Row), NEW d, NEW cs \in Seq(Dim),
           KeysUnique(rows), Spelled(rows, d, cs, Len(cs))
    PROVE  Cardinality({ n \in DOMAIN rows : rows[n].document_id = d }) = Len(cs)
<1> DEFINE own == { n \in DOMAIN rows : rows[n].document_id = d }
           f   == [n \in own |-> rows[n].chunk_index + 1]
<1>1. Len(cs) \in Nat /\ Len(rows) \in Nat /\ DOMAIN rows = 1..Len(rows)
      /\ \A n \in own : rows[n] \in Row
  OBVIOUS
<1>2. \A n \in own : rows[n].chunk_index \in Nat /\ rows[n].chunk_index < Len(cs)
  BY <1>1 DEF Spelled, Row
<1>3. f \in [own -> 1..Len(cs)]
  BY <1>1, <1>2
<1>4. ASSUME NEW n \in own, NEW m \in own, f[n] = f[m] PROVE n = m
  <2>1. rows[n].chunk_index = rows[m].chunk_index
    BY <1>2, <1>4
  <2> QED BY <2>1 DEF KeysUnique
<1>5. ASSUME NEW m \in 1..Len(cs) PROVE \E n \in own : f[n] = m
  <2>1. PICK n \in DOMAIN rows : rows[n].document_id = d /\ rows[n].chunk_index = m - 1
    BY <1>5 DEF Spelled
  <2> QED BY <1>1, <2>1
<1>6. IsFiniteSet(own)
  <2>1. IsFiniteSet(1..Len(rows))
    BY <1>1, FS_Interval
  <2> QED BY <1>1, <2>1, FS_Subset
<1> HIDE DEF own, f
<1>7. ExistsBijection(own, 1..Len(cs))
  BY <1>3, <1>4, <1>5
     DEF ExistsBijection, Bijection, Injection, Surjection, IsInjective
<1>8. Cardinality(own) = Cardinality(1..Len(cs))
  BY <1>6, <1>7, FS_Bijection
<1>9. Cardinality(1..Len(cs)) = Len(cs)
  <2> DEFINE k == Len(cs)
  <2>1. k \in Nat
    BY <1>1
  <2> HIDE DEF k
  <2>2. Cardinality(1..k) = IF 1 > k THEN 0 ELSE k - 1 + 1
    BY <2>1, FS_Interval
  <2>3. Cardinality(1..k) = k
    BY <2>1, <2>2
  <2> QED BY <2>3 DEF k
<1> QED BY <1>8, <1>9 DEF own

\* So the document is read back as it was written.
LEMMA ReadsBack ==
    ASSUME NEW rows \in Seq(Row), NEW d, NEW cs \in Seq(Dim),
           KeysUnique(rows), Spelled(rows, d, cs, Len(cs))
    PROVE  ChunksIn(rows, d) = cs
<1> DEFINE own     == { n \in DOMAIN rows : rows[n].document_id = d }
           pick(m) == CHOOSE n \in own : rows[n].chunk_index = m - 1
<1>1. Cardinality(own) = Len(cs)
  BY OwnRowsCount
<1>2. Len(cs) \in Nat /\ cs = [m \in 1..Len(cs) |-> cs[m]]
  OBVIOUS
<1>3. ASSUME NEW m \in 1..Len(cs) PROVE rows[pick(m)].size = cs[m]
  <2>1. \E n \in own : rows[n].chunk_index = m - 1
    BY <1>3 DEF Spelled
  <2>2. pick(m) \in own /\ rows[pick(m)].chunk_index = m - 1
    BY <2>1
  <2> HIDE DEF pick
  <2>3. rows[pick(m)].size = cs[rows[pick(m)].chunk_index + 1]
    BY <2>2 DEF Spelled
  <2>4. m - 1 + 1 = m
    BY <1>2, <1>3
  <2> QED BY <2>2, <2>3, <2>4
<1>4. ChunksIn(rows, d) = [m \in 1..Len(cs) |-> rows[pick(m)].size]
  BY <1>1 DEF ChunksIn
<1> HIDE DEF pick
<1> QED BY <1>2, <1>3, <1>4

-----------------------------------------------------------------------------
(* Every committed document is there in full. *)

Whole(rows, d) == \E cs \in Seq(Dim) : Spelled(rows, d, cs, Len(cs))

DocumentsWhole == \A d \in db.documents : Whole(db.chunks, d)

\* Uncommitted rows belong to other documents.
LEMMA SpelledKept ==
    ASSUME CallersInvariant, NEW d \in db.documents, NEW cs, NEW k,
           Spelled(db.chunks, d, cs, k)
    PROVE  Spelled(work.chunks, d, cs, k)
<1>1. /\ \A r \in DOMAIN db.chunks : r \in DOMAIN work.chunks /\ work.chunks[r] = db.chunks[r]
      /\ \A r \in DOMAIN work.chunks : r > Len(db.chunks) => work.chunks[r].document_id # d
  BY CommittedPrefix DEF CallersInvariant, ContentInv, KeysInv
<1>2. db.chunks \in Seq(Row) /\ work.chunks \in Seq(Row)
  BY DEF CallersInvariant, StoreInvariant, TypeOK, TablesType, Tables
<1>3. ASSUME NEW r \in DOMAIN work.chunks, work.chunks[r].document_id = d
      PROVE  r \in DOMAIN db.chunks
  BY <1>1, <1>2, <1>3
<1> QED BY <1>1, <1>3 DEF Spelled

\* What COMMIT publishes: the documents of the batch, each as it was given.
LEMMA CommitPublishes ==
    ASSUME CallersInvariant, NEW i \in Instance, Commit(i), i \in lock
    PROVE  /\ work.documents = db.documents \cup DocumentsOf(batch[i])
           /\ \A n, m \in DOMAIN batch[i] :
                  batch[i][n].document_id = batch[i][m].document_id => n = m
           /\ \A n \in DOMAIN batch[i] :
                  /\ batch[i][n].document_id \notin db.documents
                  /\ batch[i][n].chunks \in Seq(Dim)
                  /\ Spelled(work.chunks, batch[i][n].document_id, batch[i][n].chunks,
                             Len(batch[i][n].chunks))
<1>1. pc[i] = "document" /\ at[i].doc > Len(batch[i])
  BY DEF Commit, Inserted
<1>2. Account(i) /\ at[i].doc <= Len(batch[i]) + 1
  BY <1>1 DEF CallersInvariant, ContentInv, AccountInv, CursorInv, Cursor
<1>3. /\ at[i].doc \in Nat /\ batch[i] \in Seq(DocumentInput) /\ Len(batch[i]) \in Nat
      /\ DOMAIN batch[i] = 1..Len(batch[i])
  BY DEF CallersInvariant, StoreInvariant, TypeOK, InstanceType
<1>4. Reached(i) = Len(batch[i]) /\ \A n \in DOMAIN batch[i] : n < at[i].doc
  BY <1>1, <1>2, <1>3 DEF Reached
<1>5. \A n \in DOMAIN batch[i] : Done(i, n) = Len(batch[i][n].chunks)
  BY <1>4 DEF Done
<1>6. \A n \in DOMAIN batch[i] : batch[i][n].chunks \in Seq(Dim)
  <2>1. \A n \in DOMAIN batch[i] : batch[i][n] \in DocumentInput
    BY <1>3
  <2> QED BY <2>1 DEF DocumentInput
<1>7. DocumentsOf(batch[i]) = { batch[i][n].document_id : n \in 1..Reached(i) }
  BY <1>3, <1>4 DEF DocumentsOf
<1> QED BY <1>2, <1>3, <1>4, <1>5, <1>6, <1>7 DEF Account

LEMMA WholeStep == CallersInvariant /\ DocumentsWhole /\ [Next]_vars => DocumentsWhole'
<1> SUFFICES ASSUME CallersInvariant, DocumentsWhole, [Next]_vars PROVE DocumentsWhole'
  OBVIOUS
<1>1. CASE db' = db
  BY <1>1 DEF DocumentsWhole
<1>2. ASSUME NEW i \in Instance, Commit(i), i \in lock, db' = work PROVE DocumentsWhole'
  <2> SUFFICES ASSUME NEW d \in work.documents PROVE Whole(work.chunks, d)
    BY <1>2 DEF DocumentsWhole
  <2>1. CASE d \in db.documents
    BY <2>1, SpelledKept DEF DocumentsWhole, Whole
  <2>2. CASE d \in DocumentsOf(batch[i])
    BY <1>2, <2>2, CommitPublishes DEF DocumentsOf, Whole
  <2> QED BY <1>2, <2>1, <2>2, CommitPublishes
<1>3. CASE UNCHANGED vars
  BY <1>1, <1>3 DEF vars, tables
<1>4. ASSUME NEW i \in Instance, Acts(i) PROVE DocumentsWhole'
  BY <1>1, <1>2, <1>4, CommittedShape DEF CallersInvariant
<1> QED BY <1>3, <1>4 DEF Next, Acts

\* No document is ever stored in part: its rows are its chunks 0..n-1, each
\* once, in every committed state (chunk_repository.hpp:36-39).
THEOREM DocumentsStoredWhole == Spec => []DocumentsWhole
<1>1. Init => DocumentsWhole
  BY DEF Init, DocumentsWhole, NoTables
<1> QED BY <1>1, WholeStep, CallersCorrect, PTL DEF Spec

-----------------------------------------------------------------------------
(* The refinement: COMMIT is the moment at which a call takes effect. *)

StepInv == CallersInvariant /\ DocumentsWhole

Docs == [d \in db.documents |-> ChunksOf(d)]

Stages == [i \in Instance |-> Stage(i)]

\* The abstract state does not change.
Same == Docs' = Docs /\ Stages' = Stages /\ batch' = batch

LEMMA SameStutters == Same => UNCHANGED Store!vars
BY DEF Same, Docs, Stages, Store!vars

LEMMA DocsSame ==
    ASSUME db' = db
    PROVE  Docs' = Docs
BY DEF Docs, ChunksOf

LEMMA StageElsewhere ==
    ASSUME NEW j \in Instance, Untouched(j)
    PROVE  Stage(j)' = Stage(j)
BY DEF Stage, Untouched

\* A step moves the stage of its own instance only.
LEMMA StagesMove ==
    ASSUME CallersInvariant, NEW i \in Instance, Acts(i)
    PROVE  Stages' = [Stages EXCEPT ![i] = Stage(i)']
<1>1. \A j \in Instance : j # i => Stage(j)' = Stage(j)
  BY Elsewhere, StageElsewhere DEF CallersInvariant, StoreInvariant, TypeOK
<1> QED BY <1>1 DEF Stages

\* A step that leaves the tables, the request and the stage is none.
LEMMA QuietStep ==
    ASSUME CallersInvariant, NEW i \in Instance, Acts(i), db' = db, batch' = batch,
           Stage(i)' = Stage(i)
    PROVE  UNCHANGED Store!vars
<1>1. Stages' = Stages
  BY StagesMove DEF Stages
<1> QED BY <1>1, DocsSame, SameStutters DEF Same

LEMMA CallMaps ==
    ASSUME CallersInvariant, NEW i \in Instance, NEW b \in Batches, AddDocuments(i, b)
    PROVE  Store!Call(i)
<1>1. /\ pc[i] = "idle" /\ pc'[i] = "begin" /\ up'[i] /\ db' = db
      /\ batch' = [batch EXCEPT ![i] = b]
  BY DEF AddDocuments, tables, objects, CallersInvariant, CursorInv, Cursor, StoreInvariant,
     TypeOK, InstanceType
<1>2. Stage(i) = "none" /\ Stage(i)' = "called"
  BY <1>1 DEF Stage
<1>3. Stages' = [Stages EXCEPT ![i] = "called"]
  BY <1>2, StagesMove DEF Acts
<1>4. b \in Store!Batches
  BY DEF Batches, Store!Batches
<1>5. Stages[i] = "none"
  BY <1>2 DEF Stages
<1>6. Docs' = Docs
  BY <1>1, DocsSame
<1> QED BY <1>1, <1>3, <1>4, <1>5, <1>6 DEF Store!Call, Stages, Docs

\* The documents of the batch appear, with their chunks; the others stay.
LEMMA CommitDocs ==
    ASSUME StepInv, NEW i \in Instance, Commit(i), i \in lock
    PROVE  Docs' = [d \in db.documents \cup DocumentsOf(batch[i]) |->
               IF d \in db.documents THEN Docs[d]
               ELSE batch[i][CHOOSE n \in DOMAIN batch[i] :
                                batch[i][n].document_id = d].chunks]
<1> USE DEF StepInv
<1>1. db' = work
  BY DEF Commit
<1>2. db.chunks \in Seq(Row) /\ work.chunks \in Seq(Row)
  BY DEF CallersInvariant, StoreInvariant, TypeOK, TablesType, Tables
<1>3. KeysUnique(db.chunks) /\ KeysUnique(work.chunks)
  BY CommittedKeysUnique DEF CallersInvariant, ContentInv, KeysInv
<1>4. ASSUME NEW d \in db.documents PROVE ChunksIn(work.chunks, d) = Docs[d]
  <2>1. PICK cs \in Seq(Dim) : Spelled(db.chunks, d, cs, Len(cs))
    BY DEF DocumentsWhole, Whole
  <2>2. Spelled(work.chunks, d, cs, Len(cs))
    BY <2>1, SpelledKept
  <2>3. ChunksIn(work.chunks, d) = cs /\ ChunksIn(db.chunks, d) = cs
    BY <1>2, <1>3, <2>1, <2>2, ReadsBack
  <2>4. Docs[d] = ChunksIn(db.chunks, d)
    BY DEF Docs, ChunksOf, ChunksIn
  <2> QED BY <2>3, <2>4
<1>5. ASSUME NEW d \in DocumentsOf(batch[i])
      PROVE  ChunksIn(work.chunks, d) =
                 batch[i][CHOOSE n \in DOMAIN batch[i] : batch[i][n].document_id = d].chunks
  <2> DEFINE n == CHOOSE n \in DOMAIN batch[i] : batch[i][n].document_id = d
  <2>1. n \in DOMAIN batch[i] /\ batch[i][n].document_id = d
    BY DEF DocumentsOf
  <2> HIDE DEF n
  <2>2. /\ batch[i][n].chunks \in Seq(Dim)
        /\ Spelled(work.chunks, d, batch[i][n].chunks, Len(batch[i][n].chunks))
    BY <2>1, CommitPublishes
  <2>3. ChunksIn(work.chunks, d) = batch[i][n].chunks
    BY <1>2, <1>3, <2>2, ReadsBack
  <2> QED BY <2>3 DEF n
<1>6. work.documents = db.documents \cup DocumentsOf(batch[i])
  BY CommitPublishes
<1>7. Docs' = [d \in work.documents |-> ChunksIn(work.chunks, d)]
  BY <1>1 DEF Docs, ChunksOf, ChunksIn
<1> QED BY <1>4, <1>5, <1>6, <1>7

LEMMA CommitMaps ==
    ASSUME StepInv, NEW i \in Instance, Commit(i)
    PROVE  Store!Apply(i)
<1> USE DEF StepInv
<1>1. /\ pc[i] = "document" /\ pc'[i] = "index" /\ up[i] /\ up' = up /\ batch' = batch
      /\ at[i].doc > Len(batch[i])
  BY DEF Commit, Inserted, objects, call, CallersInvariant, CursorInv, Cursor, StoreInvariant,
     TypeOK, InstanceType
<1>2. Stage(i) = "called" /\ Stage(i)' = "stored"
  BY <1>1 DEF Stage
<1>3. Stages[i] = "called" /\ Stages' = [Stages EXCEPT ![i] = "stored"]
  <2>1. Acts(i)
    BY DEF Acts, Step, Transaction
  <2> QED BY <1>2, <2>1, StagesMove DEF Stages
<1>4. DOMAIN Docs = db.documents /\ Store!Names(batch[i]) = DocumentsOf(batch[i])
  BY DEF Docs, Store!Names, DocumentsOf
<1>5. /\ \A n, m \in DOMAIN batch[i] : batch[i][n].document_id = batch[i][m].document_id => n = m
      /\ DocumentsOf(batch[i]) \cap db.documents = {}
      /\ Docs' = [d \in db.documents \cup DocumentsOf(batch[i]) |->
               IF d \in db.documents THEN Docs[d]
               ELSE batch[i][CHOOSE n \in DOMAIN batch[i] :
                                batch[i][n].document_id = d].chunks]
  <2>1. CASE i \in lock
    <3>1. /\ \A n, m \in DOMAIN batch[i] :
                 batch[i][n].document_id = batch[i][m].document_id => n = m
          /\ \A n \in DOMAIN batch[i] : batch[i][n].document_id \notin db.documents
      BY <2>1, CommitPublishes
    <3>2. DocumentsOf(batch[i]) \cap db.documents = {}
      BY <3>1 DEF DocumentsOf
    <3> QED BY <2>1, <3>1, <3>2, CommitDocs
  <2>2. CASE i \notin lock
    <3>1. at[i] = Start /\ batch[i] \in Seq(DocumentInput)
      BY <1>1, <2>2 DEF CallersInvariant, CursorInv, Cursor, StoreInvariant, TypeOK, InstanceType
    <3>2. DOMAIN batch[i] = {}
      BY <1>1, <3>1 DEF Start
    <3>3. DocumentsOf(batch[i]) = {} /\ db' = db
      BY <2>2, <3>2 DEF DocumentsOf, Commit
    <3>4. Docs = [d \in db.documents |-> Docs[d]]
      BY DEF Docs
    <3> QED BY <3>2, <3>3, <3>4, DocsSame
  <2> QED BY <2>1, <2>2
<1>6. Store!Names(batch[i]) \cap DOMAIN Docs = {}
  BY <1>4, <1>5
<1>7. Docs' = [d \in DOMAIN Docs \cup Store!Names(batch[i]) |->
               IF d \in DOMAIN Docs THEN Docs[d]
               ELSE batch[i][CHOOSE n \in DOMAIN batch[i] :
                                batch[i][n].document_id = d].chunks]
  BY <1>4, <1>5
<1> QED BY <1>1, <1>3, <1>5, <1>6, <1>7 DEF Store!Apply, Docs, Stages

\* A call that ends does so for the client as well; a constructor has none.
LEMMA EndMaps ==
    ASSUME CallersInvariant, NEW i \in Instance, Acts(i), Ends(i), db' = db
    PROVE  Store!End(i) \/ UNCHANGED Store!vars
<1>1. batch' = [batch EXCEPT ![i] = <<>>]
  BY DEF Ends, Throw, Return, Destroy, ForgetCall
<1>2. Stage(i)' = "none"
  BY EndShape DEF CallersInvariant, StoreInvariant, TypeOK, Stage
<1>3. CASE Stage(i) = "none"
  <2>1. batch[i] = <<>>
    BY <1>3 DEF Stage, CallersInvariant, CursorInv, Cursor
  <2>2. batch' = batch
    BY <1>1, <2>1 DEF CallersInvariant, StoreInvariant, TypeOK, InstanceType
  <2> QED BY <1>2, <1>3, <2>2, QuietStep
<1>4. CASE Stage(i) # "none"
  <2>1. Stages[i] # "none" /\ Stages' = [Stages EXCEPT ![i] = "none"] /\ Docs' = Docs
    BY <1>2, <1>4, StagesMove, DocsSame DEF Stages
  <2> QED BY <1>1, <2>1 DEF Store!End, Stages, Docs
<1> QED BY <1>3, <1>4

LEMMA RefinementStep == StepInv /\ [Next]_vars => [Store!Next]_(Store!vars)
<1> SUFFICES ASSUME StepInv, [Next]_vars PROVE [Store!Next]_(Store!vars)
  OBVIOUS
<1> USE DEF StepInv
<1>1. CASE UNCHANGED vars
  <2>1. UNCHANGED <<db, batch, up, pc>>
    BY <1>1 DEF vars, tables, objects, call
  <2>2. Stages' = Stages
    BY <2>1 DEF Stages, Stage
  <2> QED BY <2>1, <2>2, DocsSame, SameStutters DEF Same
<1>2. ASSUME NEW i \in Instance, Acts(i) PROVE [Store!Next]_(Store!vars)
  <2>a. ASSUME db' = db, batch' = batch, Stage(i)' = Stage(i) PROVE [Store!Next]_(Store!vars)
    BY <1>2, <2>a, QuietStep
  <2>b. ASSUME db' = db, Ends(i) PROVE [Store!Next]_(Store!vars)
    BY <1>2, <2>b, EndMaps DEF Store!Next
  <2>c. InstanceType /\ Cursor(i)
    BY DEF CallersInvariant, StoreInvariant, TypeOK, CursorInv
  <2>1. CASE \E d \in Dim : Open(i, d)
    BY <2>a, <2>c, <2>1 DEF Open, tables, call, Stage, Cursor
  <2>2. CASE \E b \in Batches : AddDocuments(i, b)
    BY <2>2, CallMaps DEF Store!Next
  <2>3. CASE Constructor(i)
    <3>1. db' = db /\ batch' = batch /\ ~up[i] /\ (up' = up \/ pc'[i] = "idle")
      BY <2>c, <2>3 DEF Constructor, LoadSidecar, TrustSidecar, DiscardSidecar, ScanChunks,
         tables, objects, call, Cursor, InstanceType
    <3>2. Stage(i)' = Stage(i)
      BY <3>1 DEF Stage
    <3> QED BY <2>a, <3>1, <3>2
  <2>4. CASE Transaction(i)
    <3>1. CASE BeginFails(i) \/ InsertFails(i) \/ CommitFails(i)
      BY <2>b, <3>1 DEF BeginFails, InsertFails, CommitFails, Ends, Rollback, tables
    <3>2. CASE Begin(i) \/ InsertDocumentRow(i) \/ NextDocument(i)
      BY <2>a, <2>c, <3>2 DEF Begin, InsertDocumentRow, NextDocument, tables, objects, call, Stage,
         InstanceType
    <3>3. CASE InsertChunkRow(i) \/ InsertChunkFtsRow(i)
      BY <2>a, <2>c, <3>3 DEF InsertChunkRow, InsertChunkFtsRow, objects, Stage, InstanceType
    <3>4. CASE Commit(i)
      BY <3>4, CommitMaps DEF Store!Next
    <3> QED BY <2>4, <3>1, <3>2, <3>3, <3>4 DEF Transaction
  <2>5. CASE Indexing(i)
    <3>1. CASE IndexingFails(i) \/ SaveFails(i) \/ Rename(i) \/ RenameFails(i)
      BY <2>b, <3>1 DEF IndexingFails, SaveFails, Rename, RenameFails, Ends, tables
    <3>2. CASE AddVector(i) \/ BeginSave(i) \/ WriteSave(i)
      BY <2>a, <2>c, <3>2 DEF AddVector, BeginSave, WriteSave, tables, objects, call, Stage,
         InstanceType
    <3> QED BY <2>5, <3>1, <3>2 DEF Indexing
  <2>6. CASE Stop(i)
    BY <2>b, <2>6 DEF Stop, Ends, Rollback
  <2> QED BY <1>2, <2>1, <2>2, <2>3, <2>4, <2>5, <2>6 DEF Acts, Step
<1> QED BY <1>1, <1>2 DEF Next, Acts

LEMMA RefinementInit == Init => Store!Init
<1> SUFFICES ASSUME Init PROVE Store!Init
  OBVIOUS
<1>1. db.documents = {} /\ \A i \in Instance : Stage(i) = "none"
  BY DEF Init, NoTables, Stage
<1>2. batch = [c \in Instance |-> <<>>]
  BY DEF Init
<1> QED BY <1>1, <1>2 DEF Store!Init

\* The write path implements DocumentStore: a call's documents are stored all
\* at once or not at all, under every interleaving, failure and crash, and what
\* is stored is never altered.
THEOREM WritePathImplementsStore == Spec => ImplementsDocumentStore
<1>1. Spec => []StepInv
  BY CallersCorrect, DocumentsStoredWhole, PTL DEF StepInv
<1> QED
  BY <1>1, RefinementInit, RefinementStep, PTL DEF Spec, ImplementsDocumentStore, Store!Spec
=============================================================================
