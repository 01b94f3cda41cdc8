---------------------------- MODULE ExplorerApi -----------------------------
(***************************************************************************)
(* Pagination in the explorer API, over a chain that grows between pages.  *)
(* The API keeps no cursor: every page is counted from the tip of its own  *)
(* moment.  Blocks never change, so a page is what it would be if it were  *)
(* read at the moment its height was.  A block is the sequence of its      *)
(* transactions, each TRUE when it involves the address asked for.         *)
(***************************************************************************)
EXTENDS Naturals, Sequences, FiniteSets

CONSTANTS MAX_LIMIT, SEARCH_DEPTH, MaxExplorerHeight, Blocks

(* The chain, and a client that asks for one page after the other: kind    *)
(* and limit of its pages, the next offset, what the pages held, the       *)
(* height of the chain when it began, whether it has reached the end.      *)
VARIABLES ex_chain, pager

explorerVars == <<ex_chain, pager>>

SatSub(a, b) == IF a > b THEN a - b ELSE 0
Smaller(a, b) == IF a < b THEN a ELSE b

PageLimit(limit) == Smaller(limit, MAX_LIMIT)

(* Fault: the lowest block of a page is left out.                          *)
get_blocks_short(height, limit, offset) ==
    LET start == SatSub(height, offset)
        end == SatSub(start, limit)
    IN  {h \in 1..start : h > end + 1}

(* get_blocks: walk back from the tip.                                     *)
get_blocks(height, limit, offset) ==
    LET start == SatSub(height, offset)
        end == SatSub(start, limit)
    IN  {h \in 1..start : h > end}

(* The transactions of the address, from the newest block searched to the  *)
(* oldest and in block order within a block.                               *)
Involved(height) ==
    LET from == IF height > SEARCH_DEPTH THEN height - SEARCH_DEPTH ELSE 1
    IN  UNION {{<<h, i>> : i \in {j \in DOMAIN ex_chain[h] : ex_chain[h][j]}} : h \in from..height}

Newer(t, u) == t[1] > u[1] \/ (t[1] = u[1] /\ t[2] < u[2])

(* Fault: one transaction too many is skipped.                             *)
get_account_transactions_skipping(height, limit, offset) ==
    {t \in Involved(height) :
        LET before == Cardinality({u \in Involved(height) : Newer(u, t)})
        IN  before > offset /\ before < offset + limit}

get_account_transactions(height, limit, offset) ==
    {t \in Involved(height) :
        LET before == Cardinality({u \in Involved(height) : Newer(u, t)})
        IN  before >= offset /\ before < offset + limit}

-----------------------------------------------------------------------------
NoPager == [kind |-> "none", limit |-> 1, offset |-> 0, seen |-> {}, began |-> 0, done |-> TRUE]

ExplorerInit == ex_chain = <<>> /\ pager = NoPager

NewBlock ==
    /\ Len(ex_chain) < MaxExplorerHeight
    /\ \E b \in Blocks : ex_chain' = Append(ex_chain, b)
    /\ UNCHANGED pager

StartPaging ==
    /\ pager = NoPager
    /\ \E kind \in {"blocks", "account"}, limit \in 1..(MAX_LIMIT + 1) :
          pager' = [kind |-> kind, limit |-> PageLimit(limit), offset |-> 0, seen |-> {},
                    began |-> Len(ex_chain), done |-> FALSE]
    /\ UNCHANGED ex_chain

(* The client stops at the first empty page.                               *)
NextPage ==
    /\ ~pager.done
    /\ LET height == Len(ex_chain)
           page == IF pager.kind = "blocks"
                   THEN get_blocks(height, pager.limit, pager.offset)
                   ELSE get_account_transactions(height, pager.limit, pager.offset)
       IN  pager' = [pager EXCEPT !.seen = @ \cup page,
                                  !.offset = @ + pager.limit,
                                  !.done = page = {}]
    /\ UNCHANGED ex_chain

ExplorerNext == NewBlock \/ StartPaging \/ NextPage

(* A client that goes through the pages of /blocks has seen every block    *)
(* that was there when it began, however much the chain grew in between:   *)
(* growth makes pages overlap, never leave a gap.                          *)
PagesCoverBlocks ==
    pager.done /\ pager.kind = "blocks" => 1..pager.began \subseteq pager.seen

(* A client that goes through the transactions of an account has seen      *)
(* every one that was there when it began and is still within the search   *)
(* depth of the tip.                                                       *)
PagesCoverAccount ==
    pager.done /\ pager.kind = "account" =>
        \A t \in Involved(Len(ex_chain)) : t[1] <= pager.began => t \in pager.seen

(* Whoever reads the pages of the explorer's API one after the other meets *)
(* every block, and every transaction of an account within the search      *)
(* depth, that was there at the start.                                     *)
PagesCover == PagesCoverBlocks /\ PagesCoverAccount
=============================================================================
