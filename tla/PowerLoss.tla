------------------------------ MODULE PowerLoss ------------------------------
(***************************************************************************)
(* The write path of ChunkStore on a machine that may lose power.          *)
(*                                                                         *)
(* What the processes see lives in the operating system's cache; what a    *)
(* power loss leaves is on "disk".  SqliteConnection asks for              *)
(* synchronous = NORMAL, so a COMMIT is written back some time later, and  *)
(* DenseIndex::Save renames without a sync, so the new sidecar is too: the *)
(* two reach the disk on their own, in either order.  That both are        *)
(* written back whole is the kinder half of what may happen.               *)
(***************************************************************************)
EXTENDS ChunkStore

CONSTANT MaxLosses    \* bound: losses of power

VARIABLES
    disk,      \* the tables and the sidecar a loss of power would leave
    losses     \* bound: how often power was lost

lossVars == <<vars, disk, losses>>

LossInit ==
    /\ Init
    /\ disk = [db |-> NoTables, sidecar |-> AbsentFile]
    /\ losses = 0

\* The write-ahead log reaches the disk: at a checkpoint, or when the system
\* writes back its cache.
WriteBackTables ==
    /\ disk' = [disk EXCEPT !.db = db]
    /\ UNCHANGED <<vars, losses>>

\* A renamed sidecar reaches the disk.
WriteBackSidecar ==
    /\ sidecar.writers = {}
    /\ disk' = [disk EXCEPT !.sidecar = sidecar]
    /\ UNCHANGED <<vars, losses>>

\* Every process is gone, with the transactions and the files that have not
\* been written back.
PowerFails ==
    /\ losses < MaxLosses
    /\ losses' = losses + 1
    /\ db' = disk.db /\ work' = disk.db /\ lock' = {}
    /\ sidecar' = disk.sidecar /\ temp' = AbsentFile
    /\ pc' = [i \in Instance |-> "closed"]
    /\ up' = [i \in Instance |-> FALSE]
    /\ dim' = [i \in Instance |-> 0]
    /\ index' = [i \in Instance |-> {}]
    /\ loaded' = [i \in Instance |-> FALSE]
    /\ garbled' = {}
    /\ batch' = [i \in Instance |-> <<>>]
    /\ at' = [i \in Instance |-> Start]
    /\ pending' = [i \in Instance |-> <<>>]
    /\ owed' = [i \in Instance |-> {}]
    /\ UNCHANGED disk

LossNext ==
    \/ Next /\ UNCHANGED <<disk, losses>>
    \/ WriteBackTables \/ WriteBackSidecar \/ PowerFails

LossSpec == LossInit /\ [][LossNext]_lossVars
=============================================================================
