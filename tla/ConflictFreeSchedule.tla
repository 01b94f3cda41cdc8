------------------------ MODULE ConflictFreeSchedule ------------------------
(***************************************************************************)
(* What the parallel executor needs of a schedule: the transactions of a   *)
(* block are put into batches one after the other, each into a batch where *)
(* it conflicts with nothing, and stay there.                              *)
(***************************************************************************)

(* batchOf maps the transactions scheduled so far to their batches;        *)
(* conflict is the set of the pairs that may not share one.                *)
VARIABLES conflict, batchOf

Init == DOMAIN batchOf = {}

Assign(t) ==
    /\ t \notin DOMAIN batchOf
    /\ DOMAIN batchOf' = DOMAIN batchOf \cup {t}
    /\ \A u \in DOMAIN batchOf :
          /\ batchOf'[u] = batchOf[u]
          /\ <<u, t>> \in conflict => batchOf[u] # batchOf'[t]
    /\ UNCHANGED conflict

Next == \E t \in DOMAIN batchOf' : Assign(t)

Spec == Init /\ [][Next]_<<conflict, batchOf>>
=============================================================================
