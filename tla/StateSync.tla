----------------------------- MODULE StateSync ------------------------------
(***************************************************************************)
(* Snapshots and state sync.  A serving node cuts its store into chunks; a *)
(* StateSyncManager asks for the metadata, collects the chunks in whatever *)
(* order the network delivers them, writes them into its store and         *)
(* compares the state root.  The serving nodes have two states, of two     *)
(* heights; a sync may be restarted for another height while chunks of the *)
(* first are on their way; a chunk may arrive twice, or corrupted.         *)
(*                                                                         *)
(* A store is a function from keys (numbers, in key order) to values.      *)
(* Committed are the keys under a prefix of STATE_PREFIXES.  A hash is     *)
(* what it is taken of.                                                    *)
(***************************************************************************)
EXTENDS Naturals, Sequences, FiniteSets, TLC

LOCAL INSTANCE SequencesExt

(***************************************************************************)
(* The sorted Merkle tree over state entries and the state root.  A hash   *)
(* is the structure it is taken of: a leaf <<n>>, where n is the rank of   *)
(* the leaf among the hashes, or the pair of two nodes.  SHA-256 is taken  *)
(* to be injective.  MaxLeaves bounds the trees.                           *)
(***************************************************************************)

CONSTANTS Leaves, MaxLeaves

(* Two trees under construction: the leaves in the order inserted.  The    *)
(* second is filled in ascending order, so that it stands for a set.       *)
VARIABLES leaves, other_leaves

merkleVars == <<leaves, other_leaves>>

ZERO == <<>>
hash_pair(left, right) == <<left, right>>

(* Fault: the leaves are hashed in the order they were inserted.           *)
unsorted_leaves(ls) == [i \in DOMAIN ls |-> <<ls[i]>>]

sorted_leaves(ls) ==
    LET sorted == SortSeq(ls, <)
    IN  [i \in DOMAIN sorted |-> <<sorted[i]>>]

Padded(layer) == IF Len(layer) % 2 = 1 THEN Append(layer, Last(layer)) ELSE layer

hash_layer(layer) ==
    LET input == Padded(layer)
    IN  [i \in 1..(Len(input) \div 2) |-> hash_pair(input[2 * i - 1], input[2 * i])]

(* The layers of the tree from the leaves up, by height.                   *)
Layer(ls, height) ==
    LET layer[k \in 0..height] == IF k = 0 THEN sorted_leaves(ls) ELSE hash_layer(layer[k - 1])
    IN  layer[height]

(* The layers halve, rounded up, until one node is left.                   *)
TreeHeight(ls) == CHOOSE k \in 0..Len(ls) : 2^k >= Len(ls) /\ 2^k < 2 * Len(ls)

root(ls) == IF ls = <<>> THEN ZERO ELSE Layer(ls, TreeHeight(ls))[1]

(* The node of layer k above leaf i (from 0), and its sibling.             *)
Above(i, k) == i \div 2^k

(* Fault: every sibling is taken to be on the right.                       *)
SideRight(i) == "Right"

Side(i) == IF i % 2 = 0 THEN "Right" ELSE "Left"

proof(ls, i) ==
    [leaf |-> sorted_leaves(ls)[i + 1],
     siblings |-> [k \in 1..TreeHeight(ls) |->
        LET idx == Above(i, k - 1)
            sibling == IF idx % 2 = 0 THEN idx + 1 ELSE idx - 1
        IN  [hash |-> Padded(Layer(ls, k - 1))[sibling + 1], side |-> Side(idx)]],
     root |-> root(ls)]

verify_proof(rt, leaf, p) ==
    FoldLeft(LAMBDA current, s : IF s.side = "Left" THEN hash_pair(s.hash, current)
                                 ELSE hash_pair(current, s.hash),
             leaf, p.siblings) = rt

-----------------------------------------------------------------------------
MerkleInit == leaves = <<>> /\ other_leaves = <<>>

(* insert.  The entries of a state have different keys, so no leaf is      *)
(* inserted twice.                                                         *)
InsertLeaf(n) ==
    /\ Len(leaves) < MaxLeaves /\ n \notin ToSet(leaves)
    /\ leaves' = Append(leaves, n) /\ UNCHANGED other_leaves

InsertOther(n) ==
    /\ \A i \in DOMAIN other_leaves : other_leaves[i] < n
    /\ other_leaves' = Append(other_leaves, n) /\ UNCHANGED leaves

MerkleNext == \E n \in Leaves : InsertLeaf(n) \/ InsertOther(n)

(* Two trees have one root exactly when they hold the same leaves: the     *)
(* order of insertion does not show, and neither sorting nor the           *)
(* duplication of the last node of an odd layer identifies different sets. *)
RootIdentifiesLeaves ==
    (root(leaves) = root(other_leaves)) <=> (ToSet(leaves) = ToSet(other_leaves))

(* The proof of every leaf verifies against the root, and proves no other  *)
(* leaf of the tree; nor does it verify against another state's root.      *)
ProofsVerify ==
    \A i \in 0..(Len(leaves) - 1) :
        LET p == proof(leaves, i)
        IN  /\ verify_proof(root(leaves), p.leaf, p)
            /\ \A n \in Leaves : <<n>> # p.leaf => ~verify_proof(root(leaves), <<n>>, p)
            /\ verify_proof(root(other_leaves), p.leaf, p)
                  => ToSet(other_leaves) = ToSet(leaves)

(* A state root stands for one set of entries, and the proof of a leaf     *)
(* verifies against it and against no other leaf.                          *)
TreesIdentifyState == RootIdentifiesLeaves /\ ProofsVerify
-----------------------------------------------------------------------------
CONSTANTS Committed, EntrySize, CHUNK_SIZE, ServedStates, TargetStates, MaxCorrupted,
          MaxStorageErrors

(* network: the messages under way to the syncing node, which may be       *)
(* delivered again.  The other variables are the fields of the manager and *)
(* its store.                                                              *)
VARIABLES network, sync_state, sync_store, snapshot, chunks, corrupted, storage_errors

syncVars == <<network, sync_state, sync_store, snapshot, chunks, corrupted, storage_errors>>

Absent == <<>>

-----------------------------------------------------------------------------
(* prefix_scan with an empty prefix: all entries, in key order.            *)
prefix_scan(store) ==
    LET keys == SetToSortSeq(DOMAIN store, <)
    IN  [i \in DOMAIN keys |-> <<keys[i], store[keys[i]]>>]

(* compute_state_root: the committed entries, see Merkle.                  *)
compute_state_root(store) == {<<k, store[k]>> : k \in DOMAIN store \cap Committed}

SizeOf(entries) == FoldLeft(LAMBDA n, e : n + EntrySize[e[1]], 0, entries)

(* Fault: the chunk in hand is dropped when it is full.                    *)
split_into_chunks_losing(entries) ==
    LET step(acc, e) ==
            IF SizeOf(Last(acc)) + EntrySize[e[1]] > CHUNK_SIZE /\ Last(acc) # <<>>
            THEN Append(Front(acc), <<e>>)
            ELSE Append(Front(acc), Append(Last(acc), e))
    IN  FoldLeft(step, <<<<>>>>, entries)

split_into_chunks(entries) ==
    LET step(acc, e) ==
            IF SizeOf(Last(acc)) + EntrySize[e[1]] > CHUNK_SIZE /\ Last(acc) # <<>>
            THEN Append(acc, <<e>>)
            ELSE Append(Front(acc), Append(Last(acc), e))
    IN  FoldLeft(step, <<<<>>>>, entries)

hash_chunk(entries) == entries

create_snapshot(store, height) ==
    LET raw == split_into_chunks(prefix_scan(store))
    IN  [metadata |-> [height |-> height, state_root |-> compute_state_root(store),
                       total_chunks |-> Len(raw),
                       chunk_hashes |-> [i \in DOMAIN raw |-> hash_chunk(raw[i])]],
         chunks |-> [i \in DOMAIN raw |->
                       [height |-> height, chunk_index |-> i, entries |-> raw[i],
                        chunk_hash |-> hash_chunk(raw[i])]]]

Snapshots == [h \in DOMAIN ServedStates |-> create_snapshot(ServedStates[h], h)]

verify_chunk(s, c) ==
    /\ c.chunk_index \in DOMAIN s.chunk_hashes
    /\ hash_chunk(c.entries) = c.chunk_hash
    /\ s.chunk_hashes[c.chunk_index] = hash_chunk(c.entries)

(* Fault: keys the store has already are not written.                      *)
AfterPutsKeeping(store, entries, n) ==
    FoldLeft(LAMBDA st, e : st @@ (e[1] :> e[2]), store, SubSeq(entries, 1, n))

(* apply_chunk, chunk after chunk: the store after the first n puts.       *)
AfterPuts(store, entries, n) ==
    FoldLeft(LAMBDA st, e : (e[1] :> e[2]) @@ st, store, SubSeq(entries, 1, n))

-----------------------------------------------------------------------------
(* start_sync; the request reaches the serving node.                       *)
start_sync(h) ==
    /\ sync_state' = "RequestingSnapshot"
    /\ network' = network \cup {[type |-> "metadata", height |-> h]}
    /\ UNCHANGED <<sync_store, snapshot, chunks, corrupted, storage_errors>>

(* on_snapshot_metadata, in any phase; the chunks are asked for and sent.  *)
on_snapshot_metadata(m) ==
    /\ m \in network /\ m.type = "metadata"
    /\ snapshot' = Snapshots[m.height].metadata
    /\ chunks' = [i \in 1..snapshot'.total_chunks |-> Absent]
    /\ sync_state' = "DownloadingChunks"
    /\ network' = (network \ {m}) \cup
                  {[type |-> "chunk", chunk |-> Snapshots[m.height].chunks[i]] :
                      i \in 1..snapshot'.total_chunks}
    /\ UNCHANGED <<sync_store, corrupted, storage_errors>>

(* on_chunk_received: ignored outside the download, a failure when it does *)
(* not verify.                                                             *)
TakeChunk(c) ==
    /\ UNCHANGED <<network, sync_store, snapshot, storage_errors>>
    /\ IF sync_state # "DownloadingChunks" THEN UNCHANGED <<sync_state, chunks>>
       ELSE IF c.chunk_index \notin DOMAIN chunks \/ ~verify_chunk(snapshot, c)
       THEN sync_state' = "Failed" /\ UNCHANGED chunks
       ELSE /\ chunks' = [chunks EXCEPT ![c.chunk_index] = c.entries]
            /\ sync_state' = IF \A i \in DOMAIN chunks : chunks'[i] # Absent
                             THEN "Verifying" ELSE sync_state

on_chunk_received(m) ==
    /\ m \in network /\ m.type = "chunk"
    /\ TakeChunk(m.chunk)
    /\ UNCHANGED corrupted

(* The entries of a chunk are damaged on the way.                          *)
CorruptedChunk(m) ==
    /\ m \in network /\ m.type = "chunk" /\ corrupted < MaxCorrupted
    /\ corrupted' = corrupted + 1
    /\ TakeChunk([m.chunk EXCEPT !.entries = Tail(@)])

Received == FlattenSeq(chunks)

(* apply_all_chunks: the puts, then the root.  In another phase it fails.  *)
apply_all_chunks ==
    /\ IF sync_state # "Verifying" THEN sync_state' = "Failed" /\ UNCHANGED sync_store
       ELSE /\ sync_store' = AfterPuts(sync_store, Received, Len(Received))
            /\ sync_state' = IF compute_state_root(sync_store') = snapshot.state_root
                             THEN "Complete" ELSE "Failed"
    /\ UNCHANGED <<network, snapshot, chunks, corrupted, storage_errors>>

(* The caller applies when it is told to.                                  *)
ApplyChunks == sync_state = "Verifying" /\ apply_all_chunks

(* A put fails: the error is returned, the phase stays.                    *)
StorageError ==
    /\ sync_state = "Verifying" /\ storage_errors < MaxStorageErrors
    /\ storage_errors' = storage_errors + 1
    /\ \E n \in 0..(Len(Received) - 1) : sync_store' = AfterPuts(sync_store, Received, n)
    /\ UNCHANGED <<network, sync_state, snapshot, chunks, corrupted>>

SyncInit ==
    /\ network = {} /\ sync_state = "Idle" /\ sync_store \in TargetStates
    /\ snapshot = Absent /\ chunks = <<>>
    /\ corrupted = 0 /\ storage_errors = 0

SyncNext ==
    \/ \E h \in DOMAIN ServedStates : start_sync(h)
    \/ \E m \in network : on_snapshot_metadata(m) \/ on_chunk_received(m) \/ CorruptedChunk(m)
    \/ ApplyChunks
    \/ StorageError

-----------------------------------------------------------------------------
ServedState == ServedStates[snapshot.height]

(* A completed sync has every entry of the snapshot, committed by the root *)
(* or not, and no other committed entry, in whatever order the chunks came *)
(* and although chunks of another height, corrupted chunks and failed      *)
(* writes came in between.                                                 *)
SyncedStateMatches ==
    sync_state = "Complete" =>
        /\ \A k \in DOMAIN ServedState :
              k \in DOMAIN sync_store /\ sync_store[k] = ServedState[k]
        /\ DOMAIN sync_store \cap Committed \subseteq DOMAIN ServedState

(* The chunks collected for a snapshot hold the entries of the served      *)
(* state, each once and in order; none is larger than CHUNK_SIZE unless it *)
(* is a single entry.                                                      *)
ChunksHoldState ==
    sync_state \in {"Verifying", "Complete"} =>
        /\ Received = prefix_scan(ServedState)
        /\ \A i \in DOMAIN chunks : SizeOf(chunks[i]) <= CHUNK_SIZE \/ Len(chunks[i]) = 1

(* The chunks of a snapshot hold the whole state, and a sync that          *)
(* completes has written the committed state of the height it asked for.   *)
SyncIsFaithful == ChunksHoldState /\ SyncedStateMatches
=============================================================================
