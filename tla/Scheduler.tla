------------------------------ MODULE Scheduler -----------------------------
(***************************************************************************)
(* schedule_parallel: every transaction of a block goes to the earliest    *)
(* batch none of whose transactions it conflicts with, or to a new batch.  *)
(* A transaction is its position in the block; a batch is the sequence of  *)
(* the positions put into it.                                              *)
(***************************************************************************)
EXTENDS Naturals, Sequences

CONSTANT Keys

(* access is the predicted access set of every transaction of the block.   *)
VARIABLES access, batches, next

schedulerVars == <<access, batches, next>>

(* Fault: a write the other transaction reads is no conflict.              *)
ConflictsWithWritesOnly(a, b) == a.writes \cap b.writes # {}

(* AccessSet::conflicts_with.                                              *)
ConflictsWith(a, b) ==
    \/ a.writes \cap b.writes # {}
    \/ a.reads \cap b.writes # {}
    \/ a.writes \cap b.reads # {}

InBatch(b) == {batches[b][i] : i \in DOMAIN batches[b]}

(* Fault: only the last transaction of a batch is looked at.               *)
FitsLast(t, b) == ~ConflictsWith(access[batches[b][Len(batches[b])]], access[t])

Fits(t, b) == \A u \in InBatch(b) : ~ConflictsWith(access[u], access[t])

SchedulerInit == batches = <<>> /\ next = 1

(* Fault: any batch that fits is taken.                                    *)
PlaceInAny(b) ==
    /\ next \in DOMAIN access
    /\ b \in DOMAIN batches /\ Fits(next, b)
    /\ batches' = [batches EXCEPT ![b] = Append(@, next)]
    /\ next' = next + 1
    /\ UNCHANGED access

(* One turn of the outer loop: the first batch that fits, or a new one.    *)
PlaceIn(b) ==
    /\ next \in DOMAIN access
    /\ b \in DOMAIN batches /\ Fits(next, b)
    /\ \A c \in 1..(b - 1) : ~Fits(next, c)
    /\ batches' = [batches EXCEPT ![b] = Append(@, next)]
    /\ next' = next + 1
    /\ UNCHANGED access

PlaceInNew ==
    /\ next \in DOMAIN access
    /\ \A b \in DOMAIN batches : ~Fits(next, b)
    /\ batches' = Append(batches, <<next>>)
    /\ next' = next + 1
    /\ UNCHANGED access

SchedulerNext == (\E b \in DOMAIN batches : PlaceIn(b)) \/ PlaceInNew

(* The block has been scheduled.                                           *)
Scheduled == next = Len(access) + 1

SchedulerSpec ==
    /\ access \in Seq([reads : SUBSET Keys, writes : SUBSET Keys])
    /\ SchedulerInit /\ [][SchedulerNext]_schedulerVars
-----------------------------------------------------------------------------
(* The batch of every transaction scheduled so far, and the conflicts.     *)
BatchOf == [t \in 1..(next - 1) |-> CHOOSE b \in DOMAIN batches : t \in InBatch(b)]
Conflicts == {p \in (DOMAIN access) \X (DOMAIN access) :
                 ConflictsWith(access[p[1]], access[p[2]])}

Abstract == INSTANCE ConflictFreeSchedule WITH conflict <- Conflicts, batchOf <- BatchOf

(* The greedy placement of schedule_parallel is a conflict-free schedule:  *)
(* the batches it builds never hold two transactions whose predicted       *)
(* access sets conflict, every transaction is placed once, and none moves. *)
ScheduleIsConflictFree == Abstract!Spec

(* The earliest batch is used: a transaction in a batch conflicts with an  *)
(* earlier one in every batch before it.  So a block has no more batches   *)
(* than its longest chain of conflicts, and a later transaction may        *)
(* overtake one it does conflict with.                                     *)
EarliestBatch ==
    \A b \in DOMAIN batches : \A t \in InBatch(b) : \A c \in 1..(b - 1) :
        \E u \in InBatch(c) : u < t /\ ConflictsWith(access[u], access[t])
=============================================================================
