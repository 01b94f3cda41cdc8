-------------------------- MODULE ExecutionProofs --------------------------
(***************************************************************************)
(* What holds of the execution of blocks: of the batches schedule_parallel *)
(* builds, for any block (Scheduler), and of the states of any number of   *)
(* validators (BlockExecution).                                            *)
(***************************************************************************)
EXTENDS Scheduler, BlockExecution, FiniteSetTheorems, TLAPS

(* The inductive invariant: every transaction up to next is in exactly one *)
(* batch, and got there because it fitted into none before.                *)
SchedulerInv ==
    /\ access \in Seq([reads : SUBSET Keys, writes : SUBSET Keys])
    /\ next \in 1..(Len(access) + 1)
    /\ batches \in Seq(Seq(Nat))
    /\ \A b \in DOMAIN batches : InBatch(b) \subseteq 1..(next - 1)
    /\ \A t \in 1..(next - 1) : \E b \in DOMAIN batches : t \in InBatch(b)
    /\ \A b, c \in DOMAIN batches : b # c => InBatch(b) \cap InBatch(c) = {}
    /\ EarliestBatch

(* What a turn of the loop does to the batches as sets: the transaction    *)
(* joins one of them, which may be new, and the others stay as they are.   *)
Joins(b) ==
    /\ DOMAIN batches' = DOMAIN batches \cup {b}
    /\ InBatch(b)' = (IF b \in DOMAIN batches THEN InBatch(b) ELSE {}) \cup {next}
    /\ \A c \in DOMAIN batches : c # b => InBatch(c)' = InBatch(c)
    /\ b \in DOMAIN batches => Fits(next, b)
    /\ \A c \in DOMAIN batches : c < b => ~Fits(next, c)
    /\ next' = next + 1 /\ access' = access

(* The elements of a sequence with one more at its end.                    *)
LEMMA AppendElements ==
    ASSUME NEW s \in Seq(Nat), NEW e \in Nat
    PROVE  {Append(s, e)[i] : i \in DOMAIN Append(s, e)} = {s[i] : i \in DOMAIN s} \cup {e}
<1>1. DOMAIN Append(s, e) = DOMAIN s \cup {Len(s) + 1}
  OBVIOUS
<1>2. Append(s, e)[Len(s) + 1] = e /\ \A i \in DOMAIN s : Append(s, e)[i] = s[i]
  OBVIOUS
<1>3. Len(s) + 1 \notin DOMAIN s
  OBVIOUS
<1> DEFINE r == Append(s, e)
<1>4. DOMAIN r = DOMAIN s \cup {Len(s) + 1} /\ r[Len(s) + 1] = e
        /\ \A i \in DOMAIN s : r[i] = s[i]
  BY <1>1, <1>2
<1> HIDE DEF r
<1>5. \A i \in DOMAIN r : r[i] \in {s[j] : j \in DOMAIN s} \cup {e}
  BY <1>4
<1>6. \A i \in DOMAIN s : s[i] \in {r[j] : j \in DOMAIN r}
  BY <1>4
<1>7. e \in {r[j] : j \in DOMAIN r}
  BY <1>4
<1>8. {r[i] : i \in DOMAIN r} = {s[i] : i \in DOMAIN s} \cup {e}
  BY <1>5, <1>6, <1>7
<1> QED
  BY <1>8, Zenon DEF r

(* schedule_parallel pushes the transaction at the end of the batch found, *)
(* or pushes a new batch at the end: both are joins.                       *)
LEMMA TurnJoins ==
    ASSUME SchedulerInv, SchedulerNext
    PROVE  /\ next \in DOMAIN access
           /\ batches' \in Seq(Seq(Nat))
           /\ \E b \in Nat \ {0} : Joins(b)
<1>1. /\ batches \in Seq(Seq(Nat)) /\ next \in Nat /\ Len(batches) \in Nat
      /\ DOMAIN batches = 1..Len(batches)
  BY DEF SchedulerInv
<1>2. ASSUME NEW b \in DOMAIN batches, PlaceIn(b)
      PROVE  next \in DOMAIN access /\ batches' \in Seq(Seq(Nat)) /\ Joins(b)
  <2>1. batches' = [batches EXCEPT ![b] = Append(batches[b], next)]
    BY <1>2 DEF PlaceIn
  <2>2. batches[b] \in Seq(Nat) /\ Append(batches[b], next) \in Seq(Nat)
    BY <1>1
  <2>3. batches' \in Seq(Seq(Nat)) /\ DOMAIN batches' = DOMAIN batches
    BY <1>1, <2>1, <2>2
  <2>4. {Append(batches[b], next)[i] : i \in DOMAIN Append(batches[b], next)}
            = {batches[b][i] : i \in DOMAIN batches[b]} \cup {next}
    BY <1>1, <2>2, AppendElements, Zenon
  <2>5. InBatch(b)' = InBatch(b) \cup {next}
    BY <1>1, <2>1, <2>4, Zenon DEF InBatch
  <2>6. \A c \in DOMAIN batches : c # b => InBatch(c)' = InBatch(c)
    BY <1>1, <2>1 DEF InBatch
  <2>7. \A c \in DOMAIN batches : c < b => ~Fits(next, c)
    <3>1. \A c \in 1..(b - 1) : ~Fits(next, c)
      BY <1>2 DEF PlaceIn
    <3>2. \A c \in DOMAIN batches : c < b => c \in 1..(b - 1)
      BY <1>1
    <3> QED
      BY <3>1, <3>2
  <2>8. next \in DOMAIN access /\ Fits(next, b) /\ next' = next + 1 /\ access' = access
    BY <1>2 DEF PlaceIn
  <2> QED
    BY <2>3, <2>5, <2>6, <2>7, <2>8, Zenon DEF Joins
<1>3. ASSUME PlaceInNew, NEW b, b = Len(batches) + 1
      PROVE  next \in DOMAIN access /\ batches' \in Seq(Seq(Nat)) /\ Joins(b)
  <2>1. batches' = Append(batches, <<next>>)
    BY <1>3 DEF PlaceInNew
  <2>2. <<next>> \in Seq(Nat)
    BY <1>1
  <2>3. /\ batches' \in Seq(Seq(Nat)) /\ DOMAIN batches' = DOMAIN batches \cup {b}
        /\ b \notin DOMAIN batches /\ batches'[b] = <<next>>
        /\ \A c \in DOMAIN batches : batches'[c] = batches[c]
    BY <1>1, <1>3, <2>1, <2>2
  <2>4. {<<next>>[i] : i \in DOMAIN <<next>>} = {next}
    OBVIOUS
  <2>5. InBatch(b)' = {next}
    BY <2>3, <2>4 DEF InBatch
  <2>6. \A c \in DOMAIN batches : InBatch(c)' = InBatch(c)
    BY <2>3 DEF InBatch
  <2>7. /\ next \in DOMAIN access /\ next' = next + 1 /\ access' = access
        /\ \A c \in DOMAIN batches : ~Fits(next, c)
    BY <1>3 DEF PlaceInNew
  <2> QED
    BY <2>3, <2>5, <2>6, <2>7 DEF Joins
<1>4. CASE \E b \in DOMAIN batches : PlaceIn(b)
  <2>1. PICK b \in DOMAIN batches : PlaceIn(b)
    BY <1>4
  <2>2. b \in Nat \ {0}
    BY <1>1
  <2> QED
    BY <1>2, <2>1, <2>2
<1>5. CASE PlaceInNew
  <2>1. PICK b \in Nat \ {0} : b = Len(batches) + 1
    BY <1>1
  <2> QED
    BY <1>3, <1>5, <2>1
<1> QED
  BY <1>4, <1>5 DEF SchedulerNext

(* A turn of the loop keeps the invariant.                                 *)
LEMMA TurnKeepsInv ==
    ASSUME SchedulerInv, [SchedulerNext]_schedulerVars
    PROVE  SchedulerInv'
<1>1. CASE UNCHANGED schedulerVars
  <2>1. access' = access /\ batches' = batches /\ next' = next
    BY <1>1 DEF schedulerVars
  <2>2. \A b : InBatch(b)' = InBatch(b)
    BY <2>1 DEF InBatch
  <2>3. EarliestBatch
    BY DEF SchedulerInv
  <2>4. EarliestBatch'
    BY <2>1, <2>2, <2>3 DEF EarliestBatch
  <2> QED
    BY <2>1, <2>2, <2>4 DEF SchedulerInv
<1>2. CASE SchedulerNext
  <2>1. next \in DOMAIN access /\ batches' \in Seq(Seq(Nat))
    BY <1>2, TurnJoins
  <2>2. PICK b \in Nat \ {0} : Joins(b)
    BY <1>2, TurnJoins
  <2>3. /\ access \in Seq([reads : SUBSET Keys, writes : SUBSET Keys])
        /\ access' = access /\ next' = next + 1
        /\ next \in Nat \ {0} /\ next <= Len(access) /\ Len(access) \in Nat
        /\ 1..(next' - 1) = 1..(next - 1) \cup {next}
    <3>1. /\ access \in Seq([reads : SUBSET Keys, writes : SUBSET Keys])
          /\ next \in Nat \ {0} /\ next <= Len(access) /\ Len(access) \in Nat
      BY <2>1 DEF SchedulerInv
    <3>2. access' = access /\ next' = next + 1
      BY <2>2 DEF Joins
    <3> QED
      BY <3>1, <3>2
  <2>4. next' \in 1..(Len(access') + 1)
    BY <2>3
  <2>5. /\ DOMAIN batches' = 1..Len(batches') /\ Len(batches') \in Nat
        /\ DOMAIN batches' = DOMAIN batches \cup {b}
    <3>1. DOMAIN batches' = 1..Len(batches') /\ Len(batches') \in Nat
      BY <2>1
    <3>2. DOMAIN batches' = DOMAIN batches \cup {b}
      BY <2>2 DEF Joins
    <3> QED
      BY <3>1, <3>2
  <2>6. \A c \in DOMAIN batches' : InBatch(c)' =
            (IF c \in DOMAIN batches THEN InBatch(c) ELSE {})
                \cup (IF c = b THEN {next} ELSE {})
    BY <2>2, <2>5 DEF Joins
  <2>7. /\ \A c \in DOMAIN batches : InBatch(c) \subseteq 1..(next - 1)
        /\ \A t \in 1..(next - 1) : \E c \in DOMAIN batches : t \in InBatch(c)
        /\ \A c, d \in DOMAIN batches : c # d => InBatch(c) \cap InBatch(d) = {}
    BY DEF SchedulerInv
  <2>8. next \notin 1..(next - 1) /\ \A t \in 1..(next - 1) : t < next /\ t # next
    BY <2>3
  <2>9. \A c \in DOMAIN batches' : InBatch(c)' \subseteq 1..(next' - 1)
    BY <2>3, <2>6, <2>7
  <2>10. \A t \in 1..(next' - 1) : \E c \in DOMAIN batches' : t \in InBatch(c)'
    BY <2>3, <2>5, <2>6, <2>7, Zenon
  <2>11. \A c, d \in DOMAIN batches' : c # d => InBatch(c)' \cap InBatch(d)' = {}
    BY <2>6, <2>7, <2>8
  <2>12. ASSUME NEW d \in DOMAIN batches', NEW t \in InBatch(d)', NEW c \in 1..(d - 1)
         PROVE  \E u \in InBatch(c)' : u < t /\ ConflictsWith(access[u], access[t])
    <3>1. c \in DOMAIN batches' /\ c < d
      BY <2>5
    <3>2. CASE t = next
      <4>1. d = b
        BY <2>6, <2>7, <2>8, <3>2
      <4>2. c \in DOMAIN batches /\ ~Fits(next, c)
        BY <2>2, <2>5, <3>1, <4>1 DEF Joins
      <4>3. PICK u \in InBatch(c) : ConflictsWith(access[u], access[next])
        BY <4>2 DEF Fits
      <4>4. u \in InBatch(c)' /\ u < next
        BY <2>6, <2>7, <2>8, <3>1, <4>2
      <4> QED
        BY <3>2, <4>3, <4>4
    <3>3. CASE t # next
      <4>1. d \in DOMAIN batches /\ t \in InBatch(d)
        BY <2>6, <3>3
      <4>2. PICK u \in InBatch(c) : u < t /\ ConflictsWith(access[u], access[t])
        BY <4>1 DEF SchedulerInv, EarliestBatch
      <4>3. c \in DOMAIN batches
        BY <3>1, <4>1 DEF SchedulerInv
      <4>4. u \in InBatch(c)'
        BY <2>6, <3>1, <4>2, <4>3
      <4> QED
        BY <4>2, <4>4
    <3> QED
      BY <3>2, <3>3
  <2>13. EarliestBatch'
    BY <2>3, <2>12 DEF EarliestBatch
  <2> QED
    BY <2>1, <2>3, <2>4, <2>9, <2>10, <2>11, <2>13, Zenon DEF SchedulerInv
<1> QED
  BY <1>1, <1>2

(* schedule_parallel uses the earliest batch, for every block: what is in  *)
(* a batch conflicts with something earlier in every batch before it.      *)
THEOREM SchedulesEarly == SchedulerSpec => []EarliestBatch
<1>1. ASSUME access \in Seq([reads : SUBSET Keys, writes : SUBSET Keys]), SchedulerInit
      PROVE  SchedulerInv
  BY <1>1 DEF SchedulerInit, SchedulerInv, EarliestBatch, InBatch
<1>2. SchedulerInv => EarliestBatch
  BY DEF SchedulerInv
<1> QED
  BY <1>1, <1>2, TurnKeepsInv, PTL DEF SchedulerSpec

(* The batch of a transaction is the one batch that holds it.              *)
LEMMA BatchOfPlaced ==
    ASSUME SchedulerInv, NEW t \in 1..(next - 1)
    PROVE  BatchOf[t] \in DOMAIN batches /\ t \in InBatch(BatchOf[t])
<1>1. \E b \in DOMAIN batches : t \in InBatch(b)
  BY DEF SchedulerInv
<1>2. BatchOf[t] = CHOOSE b \in DOMAIN batches : t \in InBatch(b)
  BY DEF BatchOf
<1> QED
  BY <1>1, <1>2

(* A turn of schedule_parallel is a step of the abstract schedule, or none *)
(* at all.                                                                 *)
LEMMA TurnAssigns ==
    ASSUME SchedulerInv, SchedulerInv', [SchedulerNext]_schedulerVars
    PROVE  [Abstract!Next]_<<Conflicts, BatchOf>>
<1>1. CASE UNCHANGED schedulerVars
  BY <1>1 DEF schedulerVars, Conflicts, BatchOf, InBatch
<1>2. CASE SchedulerNext
  <2>1. PICK b \in Nat \ {0} : Joins(b)
    BY <1>2, TurnJoins
  <2>2. /\ access' = access /\ next' = next + 1 /\ next \in Nat \ {0}
        /\ 1..(next' - 1) = 1..(next - 1) \cup {next} /\ next \notin 1..(next - 1)
    <3>1. next \in Nat \ {0}
      BY DEF SchedulerInv
    <3>2. access' = access /\ next' = next + 1
      BY <2>1 DEF Joins
    <3> QED
      BY <3>1, <3>2
  <2>3. DOMAIN BatchOf = 1..(next - 1) /\ DOMAIN BatchOf' = 1..(next' - 1)
    BY DEF BatchOf
  <2>4. \A c \in DOMAIN batches' : \A t \in InBatch(c)' : BatchOf'[t] = c
    <3>1. \A c, d \in DOMAIN batches' : c # d => InBatch(c)' \cap InBatch(d)' = {}
      BY DEF SchedulerInv
    <3>2. \A c \in DOMAIN batches' : InBatch(c)' \subseteq 1..(next' - 1)
      BY DEF SchedulerInv
    <3>3. \A t \in 1..(next' - 1) :
             BatchOf'[t] = CHOOSE c \in DOMAIN batches' : t \in InBatch(c)'
      BY DEF BatchOf
    <3> QED
      BY <3>1, <3>2, <3>3
  <2>5. BatchOf'[next] = b
    BY <2>1, <2>4 DEF Joins
  <2>6. ASSUME NEW u \in 1..(next - 1)
        PROVE  /\ BatchOf'[u] = BatchOf[u]
               /\ <<u, next>> \in Conflicts => BatchOf[u] # BatchOf'[next]
    <3>1. BatchOf[u] \in DOMAIN batches /\ u \in InBatch(BatchOf[u])
      BY BatchOfPlaced
    <3>2. PICK c \in DOMAIN batches : c = BatchOf[u] /\ u \in InBatch(c)
      BY <3>1
    <3>3. c \in DOMAIN batches' /\ u \in InBatch(c)'
      BY <2>1, <3>2 DEF Joins
    <3>4. BatchOf'[u] = BatchOf[u]
      BY <2>4, <3>2, <3>3
    <3>5. c = b => ~ConflictsWith(access[u], access[next])
      BY <2>1, <3>2 DEF Joins, Fits
    <3>6. <<u, next>> \in Conflicts => ConflictsWith(access[u], access[next])
      BY DEF Conflicts
    <3> QED
      BY <2>5, <3>2, <3>4, <3>5, <3>6
  <2>7. Conflicts' = Conflicts
    BY <2>2 DEF Conflicts
  <2>8. Abstract!Assign(next)
    BY <2>2, <2>3, <2>6, <2>7 DEF Abstract!Assign
  <2>9. next \in DOMAIN BatchOf'
    BY <2>2, <2>3
  <2> QED
    BY <2>8, <2>9 DEF Abstract!Next
<1> QED
  BY <1>1, <1>2

(* The greedy placement implements a conflict-free schedule, for every     *)
(* block and every prediction of its access sets.                          *)
THEOREM ScheduleRefines == SchedulerSpec => ScheduleIsConflictFree
<1>1. ASSUME access \in Seq([reads : SUBSET Keys, writes : SUBSET Keys]), SchedulerInit
      PROVE  SchedulerInv /\ Abstract!Init
  <2>1. SchedulerInv
    BY <1>1 DEF SchedulerInit, SchedulerInv, EarliestBatch, InBatch
  <2>2. Abstract!Init
    BY <1>1 DEF SchedulerInit, BatchOf, Abstract!Init
  <2> QED
    BY <2>1, <2>2
<1> QED
  BY <1>1, TurnKeepsInv, TurnAssigns, PTL
  DEF SchedulerSpec, ScheduleIsConflictFree, Abstract!Spec

-----------------------------------------------------------------------------
(* The state of a validator that has executed empty blocks only: no effect *)
(* of a transaction, r rewards, and the unbondings that mature above h.    *)
NoEffects == [t \in Txs |-> 0]
Unmatured(h) == {x \in Unbondings : CompletionHeight[x] > h}
EmptyState(r, h) ==
    [executed |-> NoEffects, rewards |-> r, unbonding |-> Unmatured(h)]

(* A state from which executing an empty block of height h gives           *)
(* EmptyState(h - 1, h), whatever failed proposals were executed before.   *)
ReadyFor(s, h) ==
    /\ s.executed = NoEffects /\ s.rewards = h - 1
    /\ Unmatured(h) \subseteq s.unbonding

ExecutionTypes ==
    /\ TypeOK
    /\ IsFiniteSet(blocks)
    /\ received \in [Validators -> SUBSET blocks]
    /\ accepted \in [Validators -> SUBSET blocks]
    /\ snapshots \in [Validators -> [Heights -> Stores \cup {None}]]

(* While blocks are empty the state of a validator is a function of its    *)
(* height, but for the unbondings a proposal has already paid out.         *)
EmptyStates ==
    OnlyEmptyBlocks =>
    /\ \A n \in Validators : ReadyFor(store[n], height[n] + 1)
    /\ \A n \in Validators : \A h \in Heights :
          snapshots[n][h] \in {None, EmptyState(h, h)}
    /\ \A n \in Validators : \A b \in received[n] :
          n # b.proposer =>
             (b \in accepted[n] <=> b.root = EmptyState(b.height - 1, b.height))

ExecutionInv == ExecutionTypes /\ EmptyStates

LEMMA ApplyBlockRewardIs ==
    ASSUME NEW s \in Stores
    PROVE  /\ ApplyBlockReward(s) = [executed |-> s.executed,
                 rewards |-> s.rewards + 1, unbonding |-> s.unbonding]
           /\ ApplyBlockReward(s) \in Stores
  BY DEF Stores, ApplyBlockReward

LEMMA ExecuteBlockType ==
    ASSUME NEW s \in Stores, NEW txs \in SUBSET Txs, NEW h
    PROVE  ExecuteBlock(s, txs, h) \in Stores
<1>1. /\ [t \in Txs |-> s.executed[t] + IF t \in txs THEN 1 ELSE 0]
            \in [Txs -> Nat]
      /\ s.rewards \in Nat
      /\ {u \in s.unbonding : CompletionHeight[u] > h} \in SUBSET Unbondings
  BY DEF Stores
<1> QED
  BY <1>1 DEF ExecuteBlock, Stores

LEMMA ExecuteEmpty ==
    ASSUME NEW s \in Stores, NEW h \in Nat, ReadyFor(s, h)
    PROVE  ExecuteBlock(s, {}, h) = EmptyState(h - 1, h)
<1>1. [t \in Txs |-> s.executed[t] + IF t \in {} THEN 1 ELSE 0] = NoEffects
  BY DEF ReadyFor, NoEffects
<1>2. {u \in s.unbonding : CompletionHeight[u] > h} = Unmatured(h)
  BY DEF ReadyFor, Unmatured, Stores
<1>3. s.rewards = h - 1
  BY DEF ReadyFor
<1> QED
  BY <1>1, <1>2, <1>3, Zenon DEF ExecuteBlock, EmptyState

LEMMA EmptyIsReady ==
    ASSUME NEW h \in Nat
    PROVE  /\ ReadyFor(EmptyState(h - 1, h), h)
           /\ ReadyFor(EmptyState(h, h), h + 1)
<1>1. Unmatured(h + 1) \subseteq Unmatured(h)
  BY ExecutionAssumption DEF Unmatured
<1> QED
  BY <1>1 DEF EmptyState, ReadyFor

LEMMA RewardEmpty ==
    ASSUME NEW h \in Nat, h > 0
    PROVE  /\ EmptyState(h - 1, h) \in Stores
           /\ ApplyBlockReward(EmptyState(h - 1, h)) = EmptyState(h, h)
<1>1. EmptyState(h - 1, h) \in Stores
  BY DEF EmptyState, NoEffects, Unmatured, Stores
<1> QED
  BY <1>1, ApplyBlockRewardIs DEF EmptyState

LEMMA BlockFields ==
    ASSUME ExecutionTypes, NEW b \in blocks
    PROVE  /\ b \in BlockSet /\ b.height \in Heights /\ b.height \in Nat
           /\ b.height > 0 /\ b.txs \in SUBSET Txs /\ b.root \in Stores
           /\ b.proposer \in Validators
  BY ExecutionAssumption DEF ExecutionTypes, TypeOK, BlockSet, Heights

LEMMA ProposeTypes ==
    ASSUME ExecutionTypes, NEW n \in Validators, Propose(n)
    PROVE  ExecutionTypes'
<1> DEFINE h == height[n] + 1
           b == [id |-> Cardinality(blocks) + 1, height |-> h,
                 root |-> store[n], txs |-> mempool[n], proposer |-> n]
           after == ExecuteBlock(store[n], mempool[n], h)
<1>1. /\ height[n] < MaxHeight /\ Cardinality(blocks) < MaxProposals
      /\ blocks' = blocks \cup {b}
      /\ store' = [store EXCEPT ![n] = after]
      /\ received' = [received EXCEPT ![n] = @ \cup {b}]
      /\ accepted' = [accepted EXCEPT ![n] = @ \cup {b}]
      /\ UNCHANGED <<height, mempool, snapshots>>
  BY DEF Propose
<1>2. /\ h \in Heights /\ Cardinality(blocks) + 1 \in 1 .. MaxProposals
      /\ store[n] \in Stores /\ mempool[n] \in SUBSET Txs
  <2>1. /\ height[n] \in 0 .. MaxHeight /\ IsFiniteSet(blocks)
        /\ store[n] \in Stores /\ mempool[n] \in SUBSET Txs
    BY DEF ExecutionTypes, TypeOK
  <2>2. Cardinality(blocks) \in Nat
    BY <2>1, FS_CardinalityType
  <2> QED
    BY <1>1, <2>1, <2>2, ExecutionAssumption DEF Heights
<1>3. b \in BlockSet /\ after \in Stores
  BY <1>2, ExecuteBlockType DEF BlockSet
<1>4. IsFiniteSet(blocks')
  BY <1>1, FS_AddElement, Zenon DEF ExecutionTypes
<1> HIDE DEF b, after
<1>5. /\ blocks' \subseteq BlockSet
      /\ store' \in [Validators -> Stores]
      /\ received' \in [Validators -> SUBSET blocks']
      /\ accepted' \in [Validators -> SUBSET blocks']
      /\ \A m \in Validators : accepted'[m] \subseteq received'[m]
                               /\ received'[m] \subseteq blocks'
  BY <1>1, <1>3 DEF ExecutionTypes, TypeOK
<1> QED
  BY <1>1, <1>4, <1>5 DEF ExecutionTypes, TypeOK

LEMMA ReceivedTypes ==
    ASSUME ExecutionTypes, NEW n \in Validators, NEW b \in blocks,
           BlockReceived(n, b)
    PROVE  ExecutionTypes'
<1> DEFINE after == ExecuteBlock(store[n], b.txs, b.height)
<1>1. /\ store' = [store EXCEPT ![n] = after]
      /\ received' = [received EXCEPT ![n] = @ \cup {b}]
      /\ accepted' = [accepted EXCEPT ![n] =
                         IF after = b.root THEN @ \cup {b} ELSE @]
      /\ UNCHANGED <<height, mempool, blocks, snapshots>>
  BY DEF BlockReceived
<1>2. after \in Stores
  BY BlockFields, ExecuteBlockType DEF ExecutionTypes, TypeOK
<1> HIDE DEF after
<1> QED
  BY <1>1, <1>2 DEF ExecutionTypes, TypeOK

LEMMA CommitTypes ==
    ASSUME ExecutionTypes, NEW n \in Validators, NEW b \in blocks,
           HandleCommit(n, b)
    PROVE  ExecutionTypes'
<1> DEFINE after ==
              ApplyBlockReward(ExecuteBlock(store[n], b.txs, b.height))
<1>1. /\ store' = [store EXCEPT ![n] = after]
      /\ height' = [height EXCEPT ![n] = b.height]
      /\ mempool' = [mempool EXCEPT ![n] = @ \ b.txs]
      /\ snapshots' = [snapshots EXCEPT ![n][b.height] = after]
      /\ UNCHANGED <<blocks, received, accepted>>
  BY DEF HandleCommit
<1>2. after \in Stores /\ b.height \in Heights
  BY BlockFields, ExecuteBlockType, ApplyBlockRewardIs
     DEF ExecutionTypes, TypeOK
<1> HIDE DEF after
<1>3. b.height \in 0 .. MaxHeight
  BY <1>2, ExecutionAssumption DEF Heights
<1>4. snapshots' \in [Validators -> [Heights -> Stores \cup {None}]]
  BY <1>1, <1>2 DEF ExecutionTypes
<1> QED
  BY <1>1, <1>2, <1>3, <1>4 DEF ExecutionTypes, TypeOK

(* Proposing and validating a block executes it, and changes nothing of    *)
(* what the next block of the height will be executed on.                  *)
LEMMA ProposeEmpty ==
    ASSUME ExecutionInv, NEW n \in Validators, Propose(n)
    PROVE  EmptyStates'
<1> SUFFICES ASSUME OnlyEmptyBlocks' PROVE EmptyStates'
  BY DEF EmptyStates
<1> DEFINE h == height[n] + 1
           b == [id |-> Cardinality(blocks) + 1, height |-> h,
                 root |-> store[n], txs |-> mempool[n], proposer |-> n]
           after == ExecuteBlock(store[n], mempool[n], h)
<1>1. /\ blocks' = blocks \cup {b}
      /\ store' = [store EXCEPT ![n] = after]
      /\ received' = [received EXCEPT ![n] = @ \cup {b}]
      /\ accepted' = [accepted EXCEPT ![n] = @ \cup {b}]
      /\ UNCHANGED <<height, mempool, snapshots>>
  BY DEF Propose
<1>2. OnlyEmptyBlocks /\ b.txs = {}
  BY <1>1, Zenon DEF OnlyEmptyBlocks
<1>3. store[n] \in Stores /\ h \in Nat /\ ReadyFor(store[n], h)
  <2>1. /\ store[n] \in Stores /\ height[n] \in 0 .. MaxHeight
        /\ mempool \in [Validators -> SUBSET Txs]
    BY DEF ExecutionInv, ExecutionTypes, TypeOK
  <2>2. ReadyFor(store[n], height[n] + 1)
    BY <1>2 DEF ExecutionInv, EmptyStates
  <2> QED
    BY <2>1, <2>2
<1>4. ReadyFor(after, h)
  BY <1>2, <1>3, ExecuteEmpty, EmptyIsReady, Zenon
<1>5. b.proposer = n
  OBVIOUS
<1> HIDE DEF b, after
<1>6. \A m \in Validators : ReadyFor(store'[m], height'[m] + 1)
  BY <1>1, <1>2, <1>4 DEF ExecutionInv, ExecutionTypes, EmptyStates, TypeOK
<1>7. ASSUME NEW m \in Validators, NEW c \in received'[m], m # c.proposer
      PROVE  c \in received[m] /\ (c \in accepted'[m] <=> c \in accepted[m])
  BY <1>1, <1>5, <1>7 DEF ExecutionInv, ExecutionTypes
<1> QED
  BY <1>1, <1>2, <1>6, <1>7 DEF ExecutionInv, EmptyStates

LEMMA ReceivedEmpty ==
    ASSUME ExecutionInv, NEW n \in Validators, NEW b \in blocks,
           BlockReceived(n, b)
    PROVE  EmptyStates'
<1> SUFFICES ASSUME OnlyEmptyBlocks' PROVE EmptyStates'
  BY DEF EmptyStates
<1> DEFINE after == ExecuteBlock(store[n], b.txs, b.height)
<1>1. /\ b.height = height[n] + 1 /\ b \notin received[n]
      /\ store' = [store EXCEPT ![n] = after]
      /\ received' = [received EXCEPT ![n] = @ \cup {b}]
      /\ accepted' = [accepted EXCEPT ![n] =
                         IF after = b.root THEN @ \cup {b} ELSE @]
      /\ UNCHANGED <<height, mempool, blocks, snapshots>>
  BY DEF BlockReceived
<1>2. OnlyEmptyBlocks /\ b.txs = {}
  BY <1>1 DEF OnlyEmptyBlocks
<1>3. /\ store[n] \in Stores /\ b.height \in Nat
      /\ ReadyFor(store[n], b.height)
  BY <1>1, <1>2, BlockFields
     DEF ExecutionInv, ExecutionTypes, EmptyStates, TypeOK
<1>4. after = EmptyState(b.height - 1, b.height) /\ ReadyFor(after, b.height)
  BY <1>2, <1>3, ExecuteEmpty, EmptyIsReady
<1> HIDE DEF after
<1>5. \A m \in Validators : ReadyFor(store'[m], height'[m] + 1)
  <2>1. store \in [Validators -> Stores]
    BY DEF ExecutionInv, ExecutionTypes, TypeOK
  <2>2. \A m \in Validators : store'[m] = IF m = n THEN after ELSE store[m]
    BY <1>1, <2>1
  <2>3. \A m \in Validators : ReadyFor(store[m], height[m] + 1)
    BY <1>2 DEF ExecutionInv, EmptyStates
  <2> QED
    BY <1>1, <1>4, <2>2, <2>3
<1>6. ASSUME NEW m \in Validators, NEW c \in received'[m], m # c.proposer
      PROVE  c \in accepted'[m]
                <=> c.root = EmptyState(c.height - 1, c.height)
  <2>1. CASE m = n /\ c = b
    <3>1. b \notin accepted[n]
      BY <1>1 DEF ExecutionInv, ExecutionTypes, TypeOK
    <3> QED
      BY <1>1, <1>4, <2>1, <3>1 DEF ExecutionInv, ExecutionTypes
  <2>2. CASE ~ (m = n /\ c = b)
    <3>1. c \in received[m] /\ (c \in accepted'[m] <=> c \in accepted[m])
      BY <1>1, <1>6, <2>2 DEF ExecutionInv, ExecutionTypes
    <3> QED
      BY <1>2, <1>6, <3>1 DEF ExecutionInv, EmptyStates
  <2> QED
    BY <2>1, <2>2
<1> QED
  BY <1>1, <1>2, <1>5, <1>6 DEF ExecutionInv, EmptyStates

LEMMA CommitEmpty ==
    ASSUME ExecutionInv, NEW n \in Validators, NEW b \in blocks,
           HandleCommit(n, b)
    PROVE  EmptyStates'
<1> SUFFICES ASSUME OnlyEmptyBlocks' PROVE EmptyStates'
  BY DEF EmptyStates
<1> DEFINE after ==
              ApplyBlockReward(ExecuteBlock(store[n], b.txs, b.height))
<1>1. /\ b.height = height[n] + 1
      /\ store' = [store EXCEPT ![n] = after]
      /\ height' = [height EXCEPT ![n] = b.height]
      /\ snapshots' = [snapshots EXCEPT ![n][b.height] = after]
      /\ UNCHANGED <<blocks, received, accepted>>
  BY DEF HandleCommit
<1>2. OnlyEmptyBlocks /\ b.txs = {}
  BY <1>1 DEF OnlyEmptyBlocks
<1>3. /\ store[n] \in Stores /\ b.height \in Nat /\ b.height > 0
      /\ b.height \in Heights /\ ReadyFor(store[n], b.height)
  BY <1>1, <1>2, BlockFields
     DEF ExecutionInv, ExecutionTypes, EmptyStates, TypeOK
<1>4. /\ after = EmptyState(b.height, b.height)
      /\ ReadyFor(after, b.height + 1)
  BY <1>2, <1>3, ExecuteEmpty, EmptyIsReady, RewardEmpty
<1> HIDE DEF after
<1>5. \A m \in Validators : ReadyFor(store'[m], height'[m] + 1)
  BY <1>1, <1>2, <1>4 DEF ExecutionInv, ExecutionTypes, EmptyStates, TypeOK
<1>6. ASSUME NEW m \in Validators, NEW k \in Heights
      PROVE  snapshots'[m][k] \in {None, EmptyState(k, k)}
  <2>1. snapshots'[m][k] = IF m = n /\ k = b.height THEN after
                           ELSE snapshots[m][k]
    BY <1>1, <1>3 DEF ExecutionInv, ExecutionTypes
  <2> QED
    BY <1>2, <1>4, <2>1 DEF ExecutionInv, EmptyStates
<1> QED
  BY <1>1, <1>2, <1>5, <1>6 DEF ExecutionInv, EmptyStates

LEMMA ExecutionStarts == Init => ExecutionInv
<1> SUFFICES ASSUME Init PROVE ExecutionInv
  OBVIOUS
<1>1. ExecutionTypes
  <2>1. [executed |-> [t \in Txs |-> 0], rewards |-> 0,
         unbonding |-> Unbondings] \in Stores
    BY DEF Stores
  <2>2. /\ store \in [Validators -> Stores]
        /\ mempool \in [Validators -> SUBSET Txs]
    BY <2>1 DEF Init
  <2>3. height \in [Validators -> 0 .. MaxHeight]
    <3>1. 0 \in 0 .. MaxHeight
      BY ExecutionAssumption
    <3>2. height = [n \in Validators |-> 0]
      BY DEF Init
    <3> QED
      BY <3>1, <3>2
  <2>4. /\ blocks = {} /\ IsFiniteSet(blocks)
        /\ received \in [Validators -> SUBSET blocks]
        /\ accepted \in [Validators -> SUBSET blocks]
        /\ \A n \in Validators : accepted[n] = {} /\ received[n] = {}
    BY FS_EmptySet DEF Init
  <2>5. snapshots \in [Validators -> [Heights -> Stores \cup {None}]]
    BY DEF Init
  <2> QED
    BY <2>2, <2>3, <2>4, <2>5 DEF ExecutionTypes, TypeOK
<1>2. ASSUME NEW n \in Validators PROVE ReadyFor(store[n], height[n] + 1)
  <2>1. /\ store[n] = [executed |-> NoEffects, rewards |-> 0,
                       unbonding |-> Unbondings]
        /\ height[n] = 0
    BY DEF Init, NoEffects
  <2> QED
    BY <2>1 DEF ReadyFor, Unmatured
<1> QED
  BY <1>1, <1>2 DEF Init, EmptyStates, ExecutionInv

(* handle_commit, produce_proposal and on_received_block: while blocks are *)
(* empty, validators of the same height have the same state and judge a    *)
(* proposed block alike, for any number of validators, failed rounds and   *)
(* unbondings.                                                             *)
THEOREM StatesStayEqual == Spec => []StatesAgree
<1>1. ExecutionInv /\ [Next]_vars => ExecutionInv'
  <2> SUFFICES ASSUME ExecutionInv, [Next]_vars PROVE ExecutionInv'
    OBVIOUS
  <2>1. ASSUME NEW n \in Validators, Propose(n) PROVE ExecutionInv'
    BY <2>1, ProposeTypes, ProposeEmpty DEF ExecutionInv
  <2>2. ASSUME NEW n \in Validators, NEW b \in blocks, BlockReceived(n, b)
        PROVE  ExecutionInv'
    BY <2>2, ReceivedTypes, ReceivedEmpty DEF ExecutionInv
  <2>3. ASSUME NEW n \in Validators, NEW b \in blocks, HandleCommit(n, b)
        PROVE  ExecutionInv'
    BY <2>3, CommitTypes, CommitEmpty DEF ExecutionInv
  <2>4. ASSUME UNCHANGED <<store, height, blocks, received, accepted,
                           snapshots>>,
               mempool' \in [Validators -> SUBSET Txs]
        PROVE  ExecutionInv'
    BY <2>4 DEF ExecutionInv, ExecutionTypes, TypeOK, EmptyStates,
       OnlyEmptyBlocks
  <2>5. ASSUME NEW t \in Txs, NEW S \in SUBSET Validators, Submit(t, S)
        PROVE  ExecutionInv'
    <3>1. mempool' \in [Validators -> SUBSET Txs]
      BY <2>5 DEF Submit, ExecutionInv, ExecutionTypes, TypeOK
    <3> QED
      BY <2>4, <2>5, <3>1 DEF Submit
  <2>6. CASE UNCHANGED vars
    BY <2>4, <2>6 DEF vars, ExecutionInv, ExecutionTypes, TypeOK
  <2> QED
    BY <2>1, <2>2, <2>3, <2>5, <2>6 DEF Next, Finished
<1>2. ExecutionInv => StatesAgree
  <2> SUFFICES ASSUME ExecutionInv PROVE StatesAgree
    OBVIOUS
  <2>1. CommittedStatesAgree
    BY DEF ExecutionInv, EmptyStates, CommittedStatesAgree
  <2>2. SameVerdict
    BY DEF ExecutionInv, EmptyStates, SameVerdict
  <2> QED
    BY <2>1, <2>2 DEF StatesAgree, ExecutionInv, ExecutionTypes
<1> QED
  BY <1>1, <1>2, ExecutionStarts, PTL DEF Spec
=============================================================================
