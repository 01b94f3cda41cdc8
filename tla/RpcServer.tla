----------------------------- MODULE RpcServer ------------------------------
(***************************************************************************)
(* The RPC server of a node beside its validator loop.  Requests are       *)
(* served on other threads than the loop and read the live store, one key  *)
(* at a time, while the loop commits a block into it, one write at a time. *)
(* Client threads each have one request in progress.                       *)
(*                                                                         *)
(* A submission is a record of the transaction, its signer and session     *)
(* key, the address its public key derives ("invalid" for a key that is    *)
(* not one), and whether the hash and the signature are right.             *)
(***************************************************************************)
EXTENDS Naturals, Sequences, FiniteSets, TLC

LOCAL INSTANCE SequencesExt
LOCAL INSTANCE FiniteSetsExt

CONSTANTS Submissions, Clients, Nothing, MaxChain, STATS_SAMPLE, rpc_epoch_length

(* The mempool and the keys of the store that queries read; the writes the *)
(* loop has still to do; the request of every client.  kept are the        *)
(* transactions accepted and not evicted since.                            *)
VARIABLES rpc_pool, rpc_blocks, rpc_receipts, rpc_locations, rpc_height, rpc_hash,
          writes, request, kept

storeVars == <<rpc_blocks, rpc_receipts, rpc_locations, rpc_height, rpc_hash>>
rpcVars == <<rpc_pool, storeVars, writes, request, kept>>

-----------------------------------------------------------------------------
(* polay_submitTransaction: the checks before the mempool is asked.        *)
SubmissionVerifies(s) ==
    /\ s.derived # "invalid"
    /\ s.derived = IF s.session # Nothing THEN s.session ELSE s.signer
    /\ s.hash_ok /\ s.signature_ok

Submit(s) ==
    /\ SubmissionVerifies(s) /\ s.tx \notin rpc_pool
    /\ rpc_pool' = rpc_pool \cup {s.tx} /\ kept' = kept \cup {s.tx}
    /\ UNCHANGED <<storeVars, writes, request>>

(* The mempool makes room for a better transaction.                        *)
Evict(t) ==
    /\ t \in rpc_pool /\ rpc_pool' = rpc_pool \ {t}
    /\ IF t \in DOMAIN rpc_locations THEN UNCHANGED <<kept, request>>
       ELSE /\ kept' = kept \ {t}
            /\ request' = [c \in Clients |->
                  IF request[c].known /\ request[c].arg = t
                  THEN [request[c] EXCEPT !.known = FALSE] ELSE request[c]]
    /\ UNCHANGED <<storeVars, writes>>

(* Fault: the mempool is pruned before the block is applied.               *)
CommitWritesPruneFirst(b) ==
    <<[key |-> "prune", value |-> b], [key |-> "block", value |-> b]>>
        \o FlattenSeq([i \in DOMAIN b |->
               <<[key |-> "receipt", value |-> b[i]],
                 [key |-> "location", value |-> <<b[i], i>>]>>])
        \o <<[key |-> "height", value |-> rpc_height + 1],
             [key |-> "hash", value |-> rpc_height + 1]>>

(* Fault: the location of a transaction is written before its receipt.     *)
CommitWritesLocationFirst(b) ==
    <<[key |-> "block", value |-> b]>>
        \o FlattenSeq([i \in DOMAIN b |->
               <<[key |-> "location", value |-> <<b[i], i>>],
                 [key |-> "receipt", value |-> b[i]]>>])
        \o <<[key |-> "height", value |-> rpc_height + 1],
             [key |-> "hash", value |-> rpc_height + 1],
             [key |-> "prune", value |-> b]>>

(* Fault: the height is written before the block.                          *)
CommitWritesHeightFirst(b) ==
    <<[key |-> "height", value |-> rpc_height + 1],
      [key |-> "hash", value |-> rpc_height + 1], [key |-> "block", value |-> b]>>
        \o FlattenSeq([i \in DOMAIN b |->
               <<[key |-> "receipt", value |-> b[i]],
                 [key |-> "location", value |-> <<b[i], i>>]>>])
        \o <<[key |-> "prune", value |-> b]>>

(* apply_block and the pruning of the mempool after it: the writes for a   *)
(* block, in order.                                                        *)
CommitWrites(b) ==
    <<[key |-> "block", value |-> b]>>
        \o FlattenSeq([i \in DOMAIN b |->
               <<[key |-> "receipt", value |-> b[i]],
                 [key |-> "location", value |-> <<b[i], i>>]>>])
        \o <<[key |-> "height", value |-> rpc_height + 1],
             [key |-> "hash", value |-> rpc_height + 1],
             [key |-> "prune", value |-> b]>>

StartCommit ==
    /\ writes = <<>> /\ rpc_height < MaxChain
    /\ \E b \in SetToAllKPermutations(rpc_pool) :
          writes' = CommitWrites(b)
    /\ UNCHANGED <<rpc_pool, storeVars, request, kept>>

Write ==
    /\ writes # <<>>
    /\ LET w == Head(writes)
       IN  /\ rpc_blocks' = IF w.key = "block" THEN Append(rpc_blocks, w.value) ELSE rpc_blocks
           /\ rpc_receipts' = IF w.key = "receipt" THEN rpc_receipts \cup {w.value}
                              ELSE rpc_receipts
           /\ rpc_locations' = IF w.key = "location"
                               THEN (w.value[1] :> [height |-> Len(rpc_blocks),
                                                    index |-> w.value[2]]) @@ rpc_locations
                               ELSE rpc_locations
           /\ rpc_height' = IF w.key = "height" THEN w.value ELSE rpc_height
           /\ rpc_hash' = IF w.key = "hash" THEN w.value ELSE rpc_hash
           /\ rpc_pool' = IF w.key = "prune" THEN rpc_pool \ Range(w.value) ELSE rpc_pool
    /\ writes' = Tail(writes)
    /\ UNCHANGED <<request, kept>>

-----------------------------------------------------------------------------
(* Requests.  A request is a record of the method, its parameter, the next *)
(* read and what was read so far; at "done" it holds the answer.           *)
Idle == [method |-> "none", arg |-> Nothing, at |-> "done", got |-> <<>>, known |-> FALSE]

BlockAt(h) == IF h \in DOMAIN rpc_blocks THEN rpc_blocks[h] ELSE Nothing

Ask(c, method, arg, first) ==
    /\ request[c].at = "done"
    /\ request' = [request EXCEPT ![c] =
                      [method |-> method, arg |-> arg, at |-> first, got |-> <<>>,
                       known |-> method = "getTransaction" /\ arg \in kept]]
    /\ UNCHANGED <<rpc_pool, storeVars, writes, kept>>

Reply(c, at, value) ==
    /\ request' = [request EXCEPT ![c].at = at, ![c].got = Append(@, value)]
    /\ UNCHANGED <<rpc_pool, storeVars, writes, kept>>

At(c, method, at) == request[c].method = method /\ request[c].at = at

(* polay_getBlock: one read.                                               *)
GetBlock(c, h) ==
    /\ request[c].at = "done"
    /\ request' = [request EXCEPT ![c] = [Idle EXCEPT !.method = "getBlock", !.arg = h,
                                                      !.got = <<BlockAt(h)>>]]
    /\ UNCHANGED <<rpc_pool, storeVars, writes, kept>>

(* polay_getTransaction: the mempool, then the location, the receipt and   *)
(* the block it names.                                                     *)
GetTransaction(c) ==
    LET t == request[c].arg
        loc == request[c].got[2]
    IN  \/ /\ At(c, "getTransaction", "mempool")
           /\ IF t \in rpc_pool THEN Reply(c, "done", "pending") ELSE Reply(c, "location", Nothing)
        \/ /\ At(c, "getTransaction", "location")
           /\ IF t \in DOMAIN rpc_locations THEN Reply(c, "receipt", rpc_locations[t])
              ELSE Reply(c, "done", Nothing)
        \/ At(c, "getTransaction", "receipt") /\ Reply(c, "block", t \in rpc_receipts)
        \/ At(c, "getTransaction", "block") /\ Reply(c, "done", BlockAt(loc.height))

(* polay_getTransactionReceipt: the receipt, then the index.               *)
GetTransactionReceipt(c) ==
    LET t == request[c].arg
    IN  \/ At(c, "getTransactionReceipt", "receipt")
             /\ Reply(c, "location", t \in rpc_receipts)
        \/ At(c, "getTransactionReceipt", "location")
             /\ Reply(c, "done", IF t \in DOMAIN rpc_locations
                                 THEN rpc_locations[t].index ELSE Nothing)

(* polay_getLatestBlock: the height, then its block.                       *)
GetLatestBlock(c) ==
    \/ /\ At(c, "getLatestBlock", "height")
       /\ Reply(c, IF rpc_height = 0 THEN "done" ELSE "block", rpc_height)
    \/ /\ At(c, "getLatestBlock", "block")
       /\ Reply(c, "done", BlockAt(request[c].got[1]))

(* polay_getChainInfo: the height, the latest hash, the block.             *)
GetChainInfo(c) ==
    \/ /\ At(c, "getChainInfo", "height")
       /\ Reply(c, "hash", rpc_height)
    \/ /\ At(c, "getChainInfo", "hash")
       /\ Reply(c, IF request[c].got[1] = 0 THEN "done" ELSE "block", rpc_hash)
    \/ /\ At(c, "getChainInfo", "block")
       /\ Reply(c, "done", BlockAt(request[c].got[1]))

(* polay_getBlockReceipts: the block, then the receipts there are.         *)
GetBlockReceipts(c) ==
    LET b == request[c].got[1]
    IN  \/ At(c, "getBlockReceipts", "block")
             /\ Reply(c, "receipts", BlockAt(request[c].arg))
        \/ At(c, "getBlockReceipts", "receipts")
             /\ Reply(c, "done", IF b = Nothing THEN <<>>
                                 ELSE SelectSeq(b, LAMBDA t : t \in rpc_receipts))

(* polay_getNodeInfo: the height, the latest hash, the size of the mempool *)
(* (the state root is computed from the live store in between).            *)
GetNodeInfo(c) ==
    \/ At(c, "getNodeInfo", "height") /\ Reply(c, "hash", rpc_height)
    \/ At(c, "getNodeInfo", "hash") /\ Reply(c, "mempool", rpc_hash)
    \/ At(c, "getNodeInfo", "mempool") /\ Reply(c, "done", Cardinality(rpc_pool))

(* Fault: the range of heights leaves the last one out.                    *)
SampledHeightsBelow(height) ==
    (height - (IF height < STATS_SAMPLE THEN height ELSE STATS_SAMPLE) + 1)..(height - 1)

(* The heights polay_getNetworkStats counts.                               *)
SampledHeights(height) ==
    (height - (IF height < STATS_SAMPLE THEN height ELSE STATS_SAMPLE) + 1)..height

(* polay_getNetworkStats: the height, the epoch of the height read again,  *)
(* and the blocks sampled one by one.  A request at a number h has the     *)
(* block of h to read; what it got is the height, the epoch and a count.   *)
GetNetworkStats(c) ==
    LET height == request[c].got[1]
        count == request[c].got[3]
        block(h) == IF BlockAt(h) = Nothing THEN <<>> ELSE BlockAt(h)
    IN  \/ At(c, "getNetworkStats", "height") /\ Reply(c, "epoch", rpc_height)
        \/ /\ At(c, "getNetworkStats", "epoch")
           /\ request' = [request EXCEPT ![c].at = "sample",
                 ![c].got = <<height, rpc_height \div rpc_epoch_length, 0, SampledHeights(height)>>]
           /\ UNCHANGED <<rpc_pool, storeVars, writes, kept>>
        \/ /\ At(c, "getNetworkStats", "sample") /\ request[c].got[4] # {}
           /\ LET h == Min(request[c].got[4])
              IN  request' = [request EXCEPT
                     ![c].got = [@ EXCEPT ![3] = @ + Len(block(h)), ![4] = @ \ {h}]]
           /\ UNCHANGED <<rpc_pool, storeVars, writes, kept>>
        \/ /\ At(c, "getNetworkStats", "sample") /\ request[c].got[4] = {}
           /\ request' = [request EXCEPT ![c].at = "done",
                 ![c].got = <<height, request[c].got[2],
                              IF height > STATS_SAMPLE THEN (count * height) \div STATS_SAMPLE
                              ELSE count>>]
           /\ UNCHANGED <<rpc_pool, storeVars, writes, kept>>

RpcInit ==
    /\ rpc_pool = {} /\ rpc_blocks = <<>> /\ rpc_receipts = {} /\ rpc_locations = <<>>
    /\ rpc_height = 0 /\ rpc_hash = 0
    /\ writes = <<>> /\ kept = {}
    /\ request = [c \in Clients |-> Idle]

RpcNext ==
    \/ \E s \in Submissions : Submit(s) \/ Evict(s.tx)
    \/ StartCommit
    \/ Write
    \/ \E c \in Clients :
        \/ \E s \in Submissions : \/ Ask(c, "getTransaction", s.tx, "mempool")
                                  \/ Ask(c, "getTransactionReceipt", s.tx, "receipt")
        \/ Ask(c, "getLatestBlock", Nothing, "height")
        \/ Ask(c, "getChainInfo", Nothing, "height")
        \/ \E h \in 1..MaxChain : Ask(c, "getBlockReceipts", h, "block") \/ GetBlock(c, h)
        \/ Ask(c, "getNodeInfo", Nothing, "height")
        \/ Ask(c, "getNetworkStats", Nothing, "height")
        \/ GetTransaction(c)
        \/ GetTransactionReceipt(c)
        \/ GetLatestBlock(c)
        \/ GetChainInfo(c)
        \/ GetBlockReceipts(c)
        \/ GetNodeInfo(c)
        \/ GetNetworkStats(c)

-----------------------------------------------------------------------------
Answered(c, method) == At(c, method, "done")

(* A transaction that was accepted before the request, and not evicted     *)
(* since, is never reported unknown by polay_getTransaction: it leaves the *)
(* mempool only after its location is in the store, and the mempool is     *)
(* read first.                                                             *)
AcceptedIsFound ==
    \A c \in Clients :
        Answered(c, "getTransaction") /\ request[c].known
            => request[c].got # <<Nothing, Nothing>>

(* An answer "confirmed" is whole: the receipt was there and the block     *)
(* holds the transaction at the index given, although three keys were read *)
(* while a commit was writing them.                                        *)
ConfirmedIsComplete ==
    \A c \in Clients :
        Answered(c, "getTransaction") /\ Len(request[c].got) = 4
            => /\ request[c].got[3]
               /\ request[c].got[4] # Nothing
               /\ request[c].got[4][request[c].got[2].index] = request[c].arg

(* Once there is a block, polay_getLatestBlock and polay_getChainInfo find *)
(* the block of the height they read; the hash the latter and              *)
(* polay_getNodeInfo report is of that block, the one before it (the hash  *)
(* is written last), or of a later one.                                    *)
LatestBlockExists ==
    \A c \in Clients :
        /\ Answered(c, "getLatestBlock") /\ request[c].got[1] > 0
              => request[c].got[2] # Nothing
        /\ Answered(c, "getChainInfo") /\ request[c].got[1] > 0
              => request[c].got[3] # Nothing /\ request[c].got[2] + 1 >= request[c].got[1]
        /\ Answered(c, "getNodeInfo") => request[c].got[2] + 1 >= request[c].got[1]

(* While the chain is not longer than the sample, polay_getNetworkStats    *)
(* reports exactly the transactions of the blocks up to the height it      *)
(* reports, and an epoch that is not behind it, although blocks are        *)
(* committed while it counts.                                              *)
StatsCountChain ==
    \A c \in Clients :
        LET got == request[c].got
        IN  Answered(c, "getNetworkStats") =>
                /\ got[1] <= STATS_SAMPLE =>
                      got[3] = Len(FlattenSeq(SubSeq(rpc_blocks, 1, got[1])))
                /\ got[2] >= got[1] \div rpc_epoch_length

(* A query that reads several keys while a block is committed still        *)
(* answers with something the chain really held: the order of the writes   *)
(* of apply_block and of the reads of the query guarantees it.             *)
ReadsAreWhole == ConfirmedIsComplete /\ LatestBlockExists /\ StatsCountChain
-----------------------------------------------------------------------------
(***************************************************************************)
(* How the explorer and the wallet look up a transaction over RPC: one     *)
(* call of polay_getTransaction, and when that finds nothing a search of   *)
(* the latest blocks down from the height of the chain, a call for each,   *)
(* while the chain grows.  A lookup is one more kind of request of a       *)
(* client; the reads of the server are the steps of RpcServer.             *)
(***************************************************************************)

(* How many blocks below the height the two search.                        *)
CONSTANT search_depth

Lookups == {"explorer", "wallet", "search"}

BeginLookup(c, method, t) ==
    /\ method \in Lookups /\ request[c].at = "done"
    /\ request' = [request EXCEPT ![c] =
                      [method |-> method, arg |-> t, at |-> "mempool", got |-> <<>>,
                       known |-> t \in kept]]
    /\ UNCHANGED <<rpc_pool, storeVars, writes, kept>>

(* The call of polay_getTransaction.  The explorer takes any answer for a  *)
(* pending transaction, the wallet cannot parse one, and the explorer's    *)
(* search returns it; an answer that there is none leads on.               *)
Found(method) ==
    CASE method = "explorer" -> "pending"
      [] method = "wallet" -> "parse error"
      [] method = "search" -> "transaction"

AskTransaction(c) ==
    LET t == request[c].arg
        method == request[c].method
    IN  /\ method \in Lookups
        /\ \/ /\ request[c].at = "mempool"
              /\ IF t \in rpc_pool THEN Reply(c, "done", Found(method))
                 ELSE Reply(c, "location", Nothing)
           \/ /\ request[c].at = "location"
              /\ IF t \in DOMAIN rpc_locations THEN Reply(c, "done", Found(method))
                 ELSE Reply(c, IF method = "search" THEN "others" ELSE "height", Nothing)

(* The explorer's search goes on to accounts and match results, which have *)
(* no entry at the hash of a transaction.  (A number is searched for with  *)
(* polay_getBlock alone.)                                                  *)
Search(c) ==
    /\ request[c].method = "search" /\ request[c].at = "others"
    /\ Reply(c, "done", "not found")

(* Fault: the block at the height of the chain is not searched.            *)
SearchedHeightsBelow(height) ==
    {h \in 1..MaxChain : h + search_depth >= height /\ h < height}

(* From height - depth to height, without zero.                            *)
SearchedHeights(height) ==
    {h \in 1..MaxChain : h + search_depth >= height /\ h <= height}

(* get_chain_info, of which the height is used.                            *)
AskHeight(c) ==
    /\ request[c].method \in {"explorer", "wallet"} /\ request[c].at = "height"
    /\ request' = [request EXCEPT ![c].at = "blocks",
          ![c].got = <<rpc_height, SearchedHeights(rpc_height)>>]
    /\ UNCHANGED <<rpc_pool, storeVars, writes, kept>>

(* polay_getBlock for the next height down, until the transaction is found *)
(* in one.                                                                 *)
ScanBlock(c) ==
    LET heights == request[c].got[2]
        h == Max(heights)
        reply(v) == request' = [request EXCEPT ![c].at = "done",
                                               ![c].got = <<request[c].got[1], v>>]
    IN  /\ request[c].method \in {"explorer", "wallet"} /\ request[c].at = "blocks"
        /\ IF heights = {} THEN reply("not found")
           ELSE IF BlockAt(h) # Nothing /\ \E i \in DOMAIN BlockAt(h) : BlockAt(h)[i] = request[c].arg
           THEN reply("confirmed")
           ELSE request' = [request EXCEPT ![c].got = [@ EXCEPT ![2] = heights \ {h}]]
        /\ UNCHANGED <<rpc_pool, storeVars, writes, kept>>

LookupNext ==
    \/ RpcNext
    \/ \E c \in Clients :
        \/ \E method \in Lookups, s \in Submissions : BeginLookup(c, method, s.tx)
        \/ AskTransaction(c)
        \/ Search(c)
        \/ AskHeight(c)
        \/ ScanBlock(c)

-----------------------------------------------------------------------------
(* A lookup never says "not found" of a transaction that was accepted      *)
(* before it and not evicted since; and when explorer or wallet say it,    *)
(* the transaction is in none of the blocks searched, from the height of   *)
(* the chain down, although it may have been committed after               *)
(* polay_getTransaction was asked.                                         *)
LookupsFind ==
    \A c \in Clients :
        LET got == request[c].got
            height == got[1]
        IN  request[c].method \in Lookups /\ request[c].at = "done"
                /\ got[Len(got)] = "not found" =>
            /\ ~request[c].known
            /\ request[c].method # "search" =>
                  \A h \in DOMAIN rpc_blocks :
                      h <= height /\ h + search_depth >= height =>
                          \A i \in DOMAIN rpc_blocks[h] : rpc_blocks[h][i] # request[c].arg

(* A transaction the server accepted, and did not evict since, is found    *)
(* again: by polay_getTransaction while it waits or once it is in a block, *)
(* and by the lookups of the explorer and the wallet.                      *)
TransactionsAreFound == AcceptedIsFound /\ LookupsFind
=============================================================================
