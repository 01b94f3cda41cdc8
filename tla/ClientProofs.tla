---------------------------- MODULE ClientProofs ----------------------------
(***************************************************************************)
(* Proofs about what clients ask of a node: the throttle of the RPC server *)
(* and the wallet.  The two share no state; each has a specification of    *)
(* its own.                                                                *)
(***************************************************************************)
EXTENDS RpcFlow, Wallet, FiniteSetTheorems, SequenceTheorems, TLAPS

-----------------------------------------------------------------------------
(* The throttle.                                                           *)

ThrottleSpec == ThrottleInit /\ [][ThrottleNext]_throttleVars

(* A quotient and a remainder below the modulus are the ones of x.         *)
LEMMA Remainder ==
    ASSUME NEW m \in Nat, NEW q \in Int, NEW r \in Int, 0 <= r, r < m
    PROVE  (m * q + r) % m = r
OBVIOUS

LEMMA DivMod ==
    ASSUME NEW x \in Int, NEW m \in Nat, m > 0
    PROVE  /\ x % m \in Int /\ 0 <= x % m /\ x % m < m
           /\ x \div m \in Int
           /\ x = m * (x \div m) + (x % m)
OBVIOUS

(* fetch_add and fetch_sub on a counter that wraps.                        *)
LEMMA WrapUp ==
    ASSUME NEW x \in Int, NEW m \in Nat, m > 0
    PROVE  ((x % m) + 1) % m = (x + 1) % m
<1> DEFINE q == x \div m
           r == x % m
<1>1. /\ q \in Int /\ r \in Int /\ 0 <= r /\ r < m
      /\ x = m * q + r
    BY DivMod
<1> HIDE DEF q, r
<1>2. CASE r + 1 < m
    <2>1. (m * q + (r + 1)) % m = r + 1
        BY <1>1, <1>2, Remainder
    <2>2. (m * 0 + (r + 1)) % m = r + 1
        BY <1>1, <1>2, Remainder
    <2>3. m * q + (r + 1) = x + 1 /\ m * 0 + (r + 1) = r + 1
        BY <1>1
    <2>4. (r + 1) % m = (x + 1) % m
        BY <2>1, <2>2, <2>3
    <2> QED
        BY <2>4 DEF r
<1>3. CASE r + 1 = m
    <2>1. (m * (q + 1) + 0) % m = 0
        BY <1>1, Remainder
    <2>2. (m * 1 + 0) % m = 0
        BY <1>1, Remainder
    <2>3. m * (q + 1) + 0 = x + 1 /\ m * 1 + 0 = r + 1
        BY <1>1, <1>3
    <2>4. (r + 1) % m = (x + 1) % m
        BY <2>1, <2>2, <2>3
    <2> QED
        BY <2>4 DEF r
<1> QED
    BY <1>1, <1>2, <1>3

LEMMA WrapDown ==
    ASSUME NEW x \in Int, NEW m \in Nat, m > 0
    PROVE  ((x % m) + m - 1) % m = (x - 1) % m
<1> DEFINE q == x \div m
           r == x % m
<1>1. /\ q \in Int /\ r \in Int /\ 0 <= r /\ r < m
      /\ x = m * q + r
    BY DivMod
<1> HIDE DEF q, r
<1>2. CASE r >= 1
    <2>1. (m * q + (r - 1)) % m = r - 1
        BY <1>1, <1>2, Remainder
    <2>2. (m * 1 + (r - 1)) % m = r - 1
        BY <1>1, <1>2, Remainder
    <2>3. m * q + (r - 1) = x - 1 /\ m * 1 + (r - 1) = r + m - 1
        BY <1>1
    <2>4. (r + m - 1) % m = (x - 1) % m
        BY <2>1, <2>2, <2>3
    <2> QED
        BY <2>4 DEF r
<1>3. CASE r = 0
    <2>1. (m * (q - 1) + (m - 1)) % m = m - 1
        BY <1>1, Remainder
    <2>2. (m * 0 + (m - 1)) % m = m - 1
        BY <1>1, Remainder
    <2>3. m * (q - 1) + (m - 1) = x - 1 /\ m * 0 + (m - 1) = r + m - 1
        BY <1>1, <1>3
    <2>4. (r + m - 1) % m = (x - 1) % m
        BY <2>1, <2>2, <2>3
    <2> QED
        BY <2>4 DEF r
<1> QED
    BY <1>1, <1>2, <1>3

(* The threads whose refusal in this window is not undone yet.             *)
Undoing == {t \in Requests : thr_step[t] = "undo" /\ ~late[t]}

ThrottleTypeOK ==
    /\ admitted \in Nat /\ crossed \in Nat
    /\ thr_step \in [Requests -> {"idle", "read", "reset", "add", "undo"}]
    /\ late \in [Requests -> BOOLEAN]

(* Exactness, the bound and the types are inductive together: the bound    *)
(* keeps what the counter stands for below U32, so that a counter below    *)
(* the limit is the number of the admissions and refusals it counts.       *)
ThrottleInv == ThrottleTypeOK /\ ThrottleIsExact

LEMMA UndoingFinite ==
    /\ IsFiniteSet(Undoing) /\ Cardinality(Undoing) \in Nat
    /\ Cardinality(Undoing) <= Cardinality(Requests)
    /\ Cardinality(Requests) \in Nat
<1>1. Undoing \subseteq Requests
    BY DEF Undoing
<1> QED
    BY <1>1, FS_Subset, FS_CardinalityType, ThrottleAssumption

LEMMA ThrottleStart == ThrottleInit => ThrottleInv
<1> SUFFICES ASSUME ThrottleInit
             PROVE  ThrottleInv
    OBVIOUS
<1>1. ThrottleTypeOK
    BY DEF ThrottleInit, ThrottleTypeOK
<1>2. Undoing = {}
    BY DEF ThrottleInit, Undoing
<1>3. Cardinality(Undoing) = 0
    BY <1>2, FS_EmptySet
<1>4. (U32 * 1 + 0) % U32 = 0
    BY Remainder, ThrottleAssumption, UndoingFinite
<1>5. CounterIsExact
    BY <1>3, <1>4, ThrottleAssumption DEF ThrottleInit, CounterIsExact, Undoing
<1>6. WindowAdmitsFew
    BY ThrottleAssumption DEF ThrottleInit, WindowAdmitsFew
<1> QED
    BY <1>1, <1>5, <1>6 DEF ThrottleInv, ThrottleIsExact

(* What the counter stands for, before it wraps.                           *)
Stands == U32 + admitted - crossed + Cardinality(Undoing)

LEMMA StandsType ==
    ASSUME ThrottleTypeOK
    PROVE  Stands \in Int
BY UndoingFinite, ThrottleAssumption DEF Stands, ThrottleTypeOK

LEMMA ExactIsStands == CounterIsExact <=> counter = Stands % U32
BY DEF CounterIsExact, Stands, Undoing

(* A thread joins or leaves the refusals not undone yet.                   *)
LEMMA JoinUndoing ==
    ASSUME NEW t \in Requests, t \notin Undoing, Undoing' = Undoing \cup {t}
    PROVE  Cardinality(Undoing)' = Cardinality(Undoing) + 1
<1>1. Cardinality(Undoing \cup {t}) = Cardinality(Undoing) + 1
    BY UndoingFinite, FS_AddElement
<1> QED
    BY <1>1

LEMMA LeaveUndoing ==
    ASSUME NEW t \in Requests, t \in Undoing, Undoing' = Undoing \ {t}
    PROVE  Cardinality(Undoing)' = Cardinality(Undoing) - 1
<1>1. Cardinality(Undoing \ {t}) = Cardinality(Undoing) - 1
    BY UndoingFinite, FS_RemoveElement
<1> QED
    BY <1>1

(* A counter below the limit is not wrapped: the window has admitted fewer *)
(* than the limit and the undos that crossed into it.                      *)
LEMMA RoomIsReal ==
    ASSUME ThrottleInv, counter < max_per_second
    PROVE  admitted + 1 <= max_per_second + crossed
<1> DEFINE n == Cardinality(Undoing)
           y == admitted - crossed + n
<1>1. n \in Nat /\ n <= Cardinality(Requests) /\ Cardinality(Requests) \in Nat
    BY UndoingFinite
<1>2. counter = (U32 * 1 + y) % U32
    BY <1>1, ExactIsStands, ThrottleAssumption
    DEF ThrottleInv, ThrottleTypeOK, ThrottleIsExact, Stands
<1>3. admitted \in Nat /\ crossed \in Nat /\ admitted <= max_per_second + crossed
    BY DEF ThrottleInv, ThrottleTypeOK, ThrottleIsExact, WindowAdmitsFew
<1> HIDE DEF n
<1>4. y \in Int /\ y < U32
    BY <1>1, <1>3, ThrottleAssumption
<1>5. CASE y >= 0
    <2>1. (U32 * 1 + y) % U32 = y
        BY <1>4, <1>5, ThrottleAssumption, Remainder
    <2> QED
        BY <2>1, <1>1, <1>2, <1>3, ThrottleAssumption
<1>6. CASE y < 0
    BY <1>1, <1>3, <1>6, ThrottleAssumption
<1> QED
    BY <1>4, <1>5, <1>6

LEMMA ThrottleStep ==
    ASSUME ThrottleInv, [ThrottleNext]_throttleVars
    PROVE  ThrottleInv'
<1> USE DEF ThrottleInv
<1>0. /\ ThrottleTypeOK /\ counter = Stands % U32 /\ WindowAdmitsFew
      /\ Stands \in Int /\ U32 \in Nat /\ U32 > 0
    BY ExactIsStands, StandsType, UndoingFinite, ThrottleAssumption DEF ThrottleIsExact
<1>q. ASSUME ThrottleTypeOK', counter' = (Stands % U32)', WindowAdmitsFew'
      PROVE  ThrottleInv'
    BY <1>q DEF ThrottleIsExact, CounterIsExact, Stands, Undoing
<1>s. ASSUME ThrottleTypeOK', Undoing' = Undoing, UNCHANGED <<counter, admitted, crossed>>
      PROVE  ThrottleInv'
    <2>1. Stands' = Stands
        BY <1>s DEF Stands
    <2>2. counter' = (Stands % U32)' /\ WindowAdmitsFew'
        BY <2>1, <1>0, <1>s DEF WindowAdmitsFew
    <2> QED
        BY <2>2, <1>q, <1>s
<1>1. CASE Later \/ UNCHANGED throttleVars
    BY <1>1, <1>0, <1>s DEF Later, throttleVars, ThrottleTypeOK, Undoing
<1>2. ASSUME NEW t \in Requests, ThrottleBegin(t)
      PROVE  ThrottleInv'
    BY <1>2, <1>0, <1>s DEF ThrottleBegin, GoTo, ThrottleTypeOK, Undoing
<1>3. ASSUME NEW t \in Requests, ThrottleRead(t)
      PROVE  ThrottleInv'
    BY <1>3, <1>0, <1>s DEF ThrottleRead, GoTo, ThrottleTypeOK, Undoing
<1>4. ASSUME NEW t \in Requests, ThrottleReset(t)
      PROVE  ThrottleInv'
    <2>1. ThrottleTypeOK'
        <3>1. late' \in [Requests -> BOOLEAN]
            <4>1. CASE late' = [u \in Requests |-> thr_step[u] = "undo"]
                BY <4>1, Zenon
            <4>2. CASE late' = late
                BY <4>2, <1>0, Zenon DEF ThrottleTypeOK
            <4> QED
                BY <4>1, <4>2, <1>4 DEF ThrottleReset, NewWindow
        <3>2. admitted' \in Nat /\ crossed' \in Nat
            BY <1>4, <1>0 DEF ThrottleReset, NewWindow, ThrottleTypeOK
        <3>3. thr_step' \in [Requests -> {"idle", "read", "reset", "add", "undo"}]
            BY <1>4, <1>0 DEF ThrottleReset, GoTo, ThrottleTypeOK
        <3> QED
            BY <3>1, <3>2, <3>3 DEF ThrottleTypeOK
    <2>2. CASE ~Expired(t)
        BY <2>1, <2>2, <1>4, <1>0, <1>s
        DEF ThrottleReset, GoTo, ThrottleTypeOK, Undoing
    <2>3. CASE Expired(t)
        <3>1. counter' = 0 /\ admitted' = 0 /\ crossed' = 0 /\ Undoing' = {}
            BY <2>3, <1>4, <1>0, Zenon
            DEF ThrottleReset, NewWindow, Expired, GoTo, ThrottleTypeOK, Undoing
        <3>2. Cardinality(Undoing)' = 0
            BY <3>1, FS_EmptySet
        <3>3. (U32 * 1 + 0) % U32 = 0
            BY Remainder, <1>0
        <3>4. Stands' = U32 * 1 + 0
            BY <3>1, <3>2, <1>0 DEF Stands
        <3>5. WindowAdmitsFew'
            BY <3>1, ThrottleAssumption DEF WindowAdmitsFew
        <3> QED
            BY <2>1, <3>1, <3>3, <3>4, <3>5, <1>q
    <2> QED
        BY <2>2, <2>3
<1>5. ASSUME NEW t \in Requests, ThrottleAdd(t)
      PROVE  ThrottleInv'
    <2>1. ThrottleTypeOK'
        <3>1. late' \in [Requests -> BOOLEAN]
            BY <1>5, <1>0, Zenon DEF ThrottleAdd, ThrottleTypeOK
        <3>2. admitted' \in Nat /\ crossed' \in Nat
            BY <1>5, <1>0 DEF ThrottleAdd, ThrottleTypeOK
        <3>3. thr_step' \in [Requests -> {"idle", "read", "reset", "add", "undo"}]
            BY <1>5, <1>0 DEF ThrottleAdd, GoTo, ThrottleTypeOK
        <3> QED
            BY <3>1, <3>2, <3>3 DEF ThrottleTypeOK
    <2>2. t \notin Undoing /\ crossed' = crossed
        BY <1>5 DEF ThrottleAdd, Undoing
    <2>3. ASSUME Stands' = Stands + 1
          PROVE  counter' = (Stands % U32)'
        BY <2>3, <1>5, <1>0, WrapUp DEF ThrottleAdd
    <2>4. CASE counter >= max_per_second
        <3>1. admitted' = admitted /\ Undoing' = Undoing \cup {t}
            BY <2>4, <1>5, <1>0 DEF ThrottleAdd, GoTo, ThrottleTypeOK, Undoing
        <3>2. Cardinality(Undoing)' = Cardinality(Undoing) + 1
            BY <3>1, <2>2, JoinUndoing
        <3>3. Stands' = Stands + 1
            BY <3>1, <3>2, <2>2, <1>0, UndoingFinite DEF Stands, ThrottleTypeOK
        <3>4. WindowAdmitsFew'
            BY <3>1, <2>2, <1>0 DEF WindowAdmitsFew
        <3> QED
            BY <2>1, <2>3, <3>3, <3>4, <1>q
    <2>5. CASE ~(counter >= max_per_second)
        <3>1. admitted' = admitted + 1 /\ Undoing' = Undoing
            BY <2>5, <1>5, <1>0 DEF ThrottleAdd, GoTo, ThrottleTypeOK, Undoing
        <3>2. Stands' = Stands + 1
            BY <3>1, <2>2, <1>0, UndoingFinite DEF Stands, ThrottleTypeOK
        <3>3. counter \in Int
            BY <1>0, DivMod
        <3>4. counter < max_per_second
            BY <2>5, <3>3, ThrottleAssumption
        <3>5. WindowAdmitsFew'
            BY <3>1, <3>4, <2>2, RoomIsReal DEF WindowAdmitsFew
        <3> QED
            BY <2>1, <2>3, <3>2, <3>5, <1>q
    <2> QED
        BY <2>4, <2>5
<1>6. ASSUME NEW t \in Requests, ThrottleUndo(t)
      PROVE  ThrottleInv'
    <2>1. ThrottleTypeOK'
        BY <1>6, <1>0 DEF ThrottleUndo, GoTo, ThrottleTypeOK
    <2>2. admitted' = admitted
        BY <1>6 DEF ThrottleUndo
    <2>3. ASSUME Stands' = Stands - 1
          PROVE  counter' = (Stands % U32)'
        BY <2>3, <1>6, <1>0, WrapDown DEF ThrottleUndo
    <2>4. CASE late[t]
        <3>1. crossed' = crossed + 1 /\ Undoing' = Undoing
            BY <2>4, <1>6, <1>0 DEF ThrottleUndo, GoTo, ThrottleTypeOK, Undoing
        <3>2. Stands' = Stands - 1
            BY <3>1, <2>2, <1>0, UndoingFinite DEF Stands, ThrottleTypeOK
        <3>3. WindowAdmitsFew'
            BY <3>1, <2>2, <1>0, ThrottleAssumption DEF WindowAdmitsFew, ThrottleTypeOK
        <3> QED
            BY <2>1, <2>3, <3>2, <3>3, <1>q
    <2>5. CASE ~late[t]
        <3>1. crossed' = crossed /\ t \in Undoing /\ Undoing' = Undoing \ {t}
            BY <2>5, <1>6, <1>0 DEF ThrottleUndo, GoTo, ThrottleTypeOK, Undoing
        <3>2. Cardinality(Undoing)' = Cardinality(Undoing) - 1
            BY <3>1, <2>2, LeaveUndoing
        <3>3. Stands' = Stands - 1
            BY <3>1, <3>2, <2>2, <1>0, UndoingFinite DEF Stands, ThrottleTypeOK
        <3>4. WindowAdmitsFew'
            BY <3>1, <2>2, <1>0 DEF WindowAdmitsFew
        <3> QED
            BY <2>1, <2>3, <3>3, <3>4, <1>q
    <2> QED
        BY <2>4, <2>5
<1> QED
    BY <1>1, <1>2, <1>3, <1>4, <1>5, <1>6 DEF ThrottleNext

(* check_and_increment: whatever the number of request threads and however *)
(* their increments, decrements and resets interleave, the counter is what *)
(* the window's threads did to it, and a window admits at most the limit   *)
(* and one more for each undo that crosses into it.                        *)
THEOREM ThrottleExact == ThrottleSpec => []ThrottleIsExact
<1>1. ThrottleInit => ThrottleInv
    BY ThrottleStart
<1>2. ThrottleInv /\ [ThrottleNext]_throttleVars => ThrottleInv'
    BY ThrottleStep
<1>3. ThrottleInv => ThrottleIsExact
    BY DEF ThrottleInv
<1> QED
    BY <1>1, <1>2, <1>3, PTL DEF ThrottleSpec
-----------------------------------------------------------------------------
(* The wallet.                                                             *)

WalletSpec == WalletInit /\ [][WalletNext]_walletVars

Actions == {CommandOf(c).action : c \in WalletCommands} \cup {"none"}
Fees == {c.fee_ok : c \in WalletCommands} \cup {TRUE}

Transactions == [action : Actions, nonce : Nat, fee_ok : Fees, time : Nat]

Steps == {"idle", "chain_info", "nonce", "sign", "submit"}

WalletStates ==
    [step : Steps, action : Actions, fee_ok : Fees, nonce : Nat, time : Nat, fresh : BOOLEAN]

WalletTypeOK ==
    /\ wallet \in [Terminals -> WalletStates]
    /\ account_nonce \in Nat \cup {NoAccount} /\ clock \in Nat
    /\ wallet_pool \subseteq Transactions /\ IsFiniteSet(wallet_pool)
    /\ charged \in Seq(Transactions)

(* The nonce the node reports.                                             *)
Reported == IF account_nonce = NoAccount THEN 0 ELSE account_nonce

(* A wallet that is not outdated signs for the next nonce.                 *)
FreshIsNext ==
    \A w \in Terminals : wallet[w].fresh =>
        /\ wallet[w].step = "sign" => wallet[w].nonce = Reported
        /\ wallet[w].step = "submit" => wallet[w].nonce = Reported + 1

(* So does what is pending, and what was charged had its nonce passed.     *)
PendingIsNext == \A t \in wallet_pool \ outdated : t.nonce <= Reported + 1

ChargedIsPast ==
    \A i \in DOMAIN charged :
        charged[i] \notin outdated => account_nonce # NoAccount /\ charged[i].nonce <= account_nonce

(* A charged transaction is pending only until its block is committed.     *)
ChargedLeaves ==
    \A i \in DOMAIN charged :
        charged[i] \in wallet_pool => charged[i] \in committing \/ charged[i] \in outdated

WalletInv ==
    /\ WalletTypeOK /\ FreshIsNext /\ PendingIsNext
    /\ ChargedIsPast /\ ChargedLeaves /\ ChargedOnce

LEMMA RestingType ==
    /\ Resting \in WalletStates /\ Resting.step = "idle"
    /\ TRUE \in Fees /\ "none" \in Actions
BY Zenon DEF Resting, WalletStates, Steps, Actions, Fees

LEMMA WalletStart == WalletInit => WalletInv
<1> SUFFICES ASSUME WalletInit
             PROVE  WalletInv
    OBVIOUS
<1>1. \A w \in Terminals : wallet[w] = Resting
    BY DEF WalletInit
<1>2. WalletTypeOK
    <2>1. wallet \in [Terminals -> WalletStates]
        BY RestingType DEF WalletInit
    <2>2. wallet_pool \subseteq Transactions /\ IsFiniteSet(wallet_pool)
        BY FS_EmptySet DEF WalletInit
    <2>3. charged \in Seq(Transactions)
        BY DEF WalletInit
    <2> QED
        BY <2>1, <2>2, <2>3 DEF WalletInit, WalletTypeOK
<1>3. FreshIsNext
    BY <1>1, RestingType DEF FreshIsNext
<1>4. charged = <<>> /\ wallet_pool = {} /\ DOMAIN charged = {}
    BY DEF WalletInit
<1> QED
    BY <1>2, <1>3, <1>4
    DEF WalletInv, PendingIsNext, ChargedIsPast, ChargedLeaves, ChargedOnce

(* A step of a terminal before it submits leaves the node alone: what it   *)
(* keeps is that its new state is well-typed and signs for the next nonce. *)
LEMMA TerminalStep ==
    ASSUME WalletInv, NEW w \in Terminals, NEW s \in WalletStates,
           wallet' = [wallet EXCEPT ![w] = s],
           s.fresh => /\ s.step = "sign" => s.nonce = Reported
                      /\ s.step = "submit" => s.nonce = Reported + 1,
           UNCHANGED <<nodeVars, clock, outdated>>
    PROVE  WalletInv'
<1>1. /\ account_nonce' = account_nonce /\ wallet_pool' = wallet_pool
      /\ committing' = committing /\ charged' = charged /\ clock' = clock
      /\ outdated' = outdated
    BY DEF nodeVars
<1>2. WalletTypeOK'
    BY <1>1 DEF WalletInv, WalletTypeOK
<1>3. Reported' = Reported
    BY <1>1 DEF Reported
<1>4. FreshIsNext'
    <2> SUFFICES ASSUME NEW u \in Terminals, wallet'[u].fresh
                 PROVE  /\ wallet'[u].step = "sign" => wallet'[u].nonce = Reported
                        /\ wallet'[u].step = "submit" => wallet'[u].nonce = Reported + 1
        BY <1>3 DEF FreshIsNext
    <2>1. CASE u = w
        <3>1. wallet'[u] = s
            BY <2>1 DEF WalletInv, WalletTypeOK
        <3> QED
            BY <3>1
    <2>2. CASE u # w
        <3>1. wallet'[u] = wallet[u]
            BY <2>2 DEF WalletInv, WalletTypeOK
        <3> QED
            BY <3>1 DEF WalletInv, FreshIsNext
    <2> QED
        BY <2>1, <2>2
<1>5. PendingIsNext'
    BY <1>1, <1>3 DEF WalletInv, PendingIsNext
<1>6. ChargedIsPast' /\ ChargedLeaves' /\ ChargedOnce'
    BY <1>1 DEF WalletInv, ChargedIsPast, ChargedLeaves, ChargedOnce
<1> QED
    BY <1>2, <1>4, <1>5, <1>6 DEF WalletInv

LEMMA TerminalSteps ==
    ASSUME WalletInv, NEW w \in Terminals,
           \/ \E c \in WalletCommands : Begin(w, c)
           \/ AskChainInfo(w) \/ FetchNonce(w) \/ SignTransaction(w) \/ CallFails(w)
    PROVE  WalletInv'
<1>1. /\ wallet \in [Terminals -> WalletStates] /\ wallet[w] \in WalletStates
      /\ account_nonce \in Nat \cup {NoAccount} /\ clock \in Nat
    BY DEF WalletInv, WalletTypeOK
<1>2. Reported \in Nat
    BY <1>1 DEF Reported
<1>3. ASSUME NEW c \in WalletCommands, Begin(w, c)
      PROVE  WalletInv'
    <2> DEFINE s1 == [Resting EXCEPT !.step = "chain_info"]
               s2 == [s1 EXCEPT !.action = CommandOf(c).action]
               s == [s2 EXCEPT !.fee_ok = c.fee_ok]
    <2>1. CommandOf(c).action \in Actions /\ c.fee_ok \in Fees
        BY Zenon DEF Actions, Fees
    <2>2. wallet' = [wallet EXCEPT ![w] = s] /\ UNCHANGED <<nodeVars, clock, outdated>>
        BY <1>3, Zenon DEF Begin
    <2>3. s1 \in WalletStates /\ s1.step = "chain_info"
        BY RestingType DEF WalletStates, Steps
    <2> HIDE DEF s1
    <2>4. s2 \in WalletStates /\ s2.step = "chain_info"
        BY <2>1, <2>3 DEF WalletStates
    <2> HIDE DEF s2
    <2>5. s \in WalletStates /\ s.step = "chain_info"
        BY <2>1, <2>4 DEF WalletStates
    <2> HIDE DEF s
    <2> QED
        BY <2>2, <2>5, TerminalStep, Zenon
<1>4. CASE AskChainInfo(w)
    <2> DEFINE s == [wallet[w] EXCEPT !.step = "nonce"]
    <2>1. s \in WalletStates /\ s.step = "nonce"
        BY <1>1 DEF WalletStates, Steps
    <2>2. wallet' = [wallet EXCEPT ![w] = s]
        BY <1>4 DEF AskChainInfo
    <2>3. UNCHANGED <<nodeVars, clock, outdated>>
        BY <1>4 DEF AskChainInfo
    <2> HIDE DEF s
    <2> QED
        BY <2>1, <2>2, <2>3, TerminalStep, Zenon
<1>5. CASE FetchNonce(w)
    <2> DEFINE s == [wallet[w] EXCEPT !.step = "sign", !.nonce = Reported]
    <2>1. s \in WalletStates /\ s.step = "sign" /\ s.nonce = Reported
        BY <1>1, <1>2, Zenon DEF WalletStates, Steps
    <2>2. wallet' = [wallet EXCEPT ![w] = s]
        BY <1>1, <1>5, Zenon DEF FetchNonce, Reported
    <2>3. UNCHANGED <<nodeVars, clock, outdated>>
        BY <1>5 DEF FetchNonce
    <2> HIDE DEF s
    <2> QED
        BY <2>1, <2>2, <2>3, TerminalStep, Zenon
<1>6. CASE SignTransaction(w)
    <2> DEFINE s1 == [wallet[w] EXCEPT !.step = "submit"]
               s2 == [s1 EXCEPT !.nonce = @ + 1]
               s == [s2 EXCEPT !.time = clock]
    <2>1. wallet' = [wallet EXCEPT ![w] = s] /\ UNCHANGED <<nodeVars, clock, outdated>>
        BY <1>1, <1>6 DEF SignTransaction, WalletStates
    <2>2. /\ s1 \in WalletStates /\ s1.step = "submit" /\ s1.nonce = wallet[w].nonce
          /\ s1.fresh = wallet[w].fresh
        BY <1>1 DEF WalletStates, Steps
    <2> HIDE DEF s1
    <2>3. /\ s2 \in WalletStates /\ s2.step = "submit" /\ s2.nonce = wallet[w].nonce + 1
          /\ s2.fresh = wallet[w].fresh
        BY <2>2 DEF WalletStates
    <2> HIDE DEF s2
    <2>4. /\ s \in WalletStates /\ s.step = "submit" /\ s.nonce = wallet[w].nonce + 1
          /\ s.fresh = wallet[w].fresh
        BY <2>3, <1>1 DEF WalletStates
    <2> HIDE DEF s
    <2>5. wallet[w].fresh => wallet[w].nonce = Reported
        BY <1>6 DEF WalletInv, FreshIsNext, SignTransaction
    <2> QED
        BY <2>1, <2>4, <2>5, TerminalStep, Zenon
<1>7. CASE CallFails(w)
    <2>1. wallet' = [wallet EXCEPT ![w] = Resting] /\ UNCHANGED <<nodeVars, clock, outdated>>
        BY <1>7 DEF CallFails
    <2> QED
        BY <2>1, RestingType, TerminalStep, Zenon
<1> QED
    BY <1>3, <1>4, <1>5, <1>6, <1>7

LEMMA SubmitStep ==
    ASSUME WalletInv, NEW w \in Terminals, SubmitTransaction(w)
    PROVE  WalletInv'
<1> DEFINE T == Transaction(w)
<1>1. /\ wallet \in [Terminals -> WalletStates] /\ wallet[w] \in WalletStates
      /\ account_nonce \in Nat \cup {NoAccount} /\ Reported \in Nat
    BY DEF WalletInv, WalletTypeOK, Reported
<1>2. /\ wallet' = [wallet EXCEPT ![w] = Resting] /\ wallet_pool' = wallet_pool \cup {T}
      /\ account_nonce' = account_nonce /\ committing' = committing
      /\ charged' = charged /\ clock' = clock
    BY DEF SubmitTransaction
<1>3. outdated' = IF T \notin wallet_pool /\ ~wallet[w].fresh THEN outdated \cup {T} ELSE outdated
    BY DEF SubmitTransaction
<1>4. T \in Transactions /\ T.nonce = wallet[w].nonce
    BY <1>1 DEF Transaction, Transactions, WalletStates
<1>5. wallet[w].fresh => T.nonce = Reported + 1
    BY <1>4 DEF WalletInv, FreshIsNext, SubmitTransaction
<1> HIDE DEF T
<1>6. WalletTypeOK'
    <2>1. IsFiniteSet(wallet_pool')
        BY <1>2, FS_AddElement DEF WalletInv, WalletTypeOK
    <2>2. wallet' \in [Terminals -> WalletStates]
        BY <1>1, <1>2, RestingType
    <2> QED
        BY <2>1, <2>2, <1>2, <1>4 DEF WalletInv, WalletTypeOK
<1>7. Reported' = Reported
    BY <1>2 DEF Reported
<1>8. FreshIsNext'
    <2> SUFFICES ASSUME NEW u \in Terminals, wallet'[u].fresh
                 PROVE  /\ wallet'[u].step = "sign" => wallet'[u].nonce = Reported
                        /\ wallet'[u].step = "submit" => wallet'[u].nonce = Reported + 1
        BY <1>7 DEF FreshIsNext
    <2>1. wallet'[u] = Resting \/ wallet'[u] = wallet[u]
        BY <1>1, <1>2
    <2> QED
        BY <2>1, RestingType DEF WalletInv, FreshIsNext
<1>9. PendingIsNext'
    BY <1>1, <1>2, <1>3, <1>5, <1>7 DEF WalletInv, PendingIsNext
<1>10. ChargedIsPast'
    BY <1>2, <1>3 DEF WalletInv, ChargedIsPast
<1>11. ChargedOnce'
    BY <1>2, <1>3 DEF WalletInv, ChargedOnce
<1>12. ChargedLeaves'
    <2> SUFFICES ASSUME NEW i \in DOMAIN charged, charged[i] = T, T \notin wallet_pool,
                        T \notin outdated, wallet[w].fresh
                 PROVE  FALSE
        BY <1>2, <1>3 DEF WalletInv, ChargedLeaves
    <2>1. account_nonce # NoAccount /\ T.nonce <= account_nonce
        BY DEF WalletInv, ChargedIsPast
    <2> QED
        BY <2>1, <1>1, <1>5 DEF Reported
<1> QED
    BY <1>6, <1>8, <1>9, <1>10, <1>11, <1>12 DEF WalletInv

LEMMA PoolShrinks ==
    ASSUME WalletInv, wallet_pool' \subseteq wallet_pool,
           UNCHANGED <<wallet, account_nonce, charged, outdated>>, clock' \in Nat,
           \A t \in wallet_pool' : t \in committing => t \in committing'
    PROVE  WalletInv'
<1>1. WalletTypeOK'
    <2>1. IsFiniteSet(wallet_pool')
        BY FS_Subset DEF WalletInv, WalletTypeOK
    <2> QED
        BY <2>1 DEF WalletInv, WalletTypeOK
<1>2. Reported' = Reported
    BY DEF Reported
<1>3. FreshIsNext' /\ PendingIsNext'
    BY <1>2 DEF WalletInv, FreshIsNext, PendingIsNext
<1>4. ChargedIsPast' /\ ChargedOnce'
    BY DEF WalletInv, ChargedIsPast, ChargedOnce
<1>5. ChargedLeaves'
    BY DEF WalletInv, ChargedLeaves
<1> QED
    BY <1>1, <1>3, <1>4, <1>5 DEF WalletInv

(* A block is executed when none is being committed, so what it charges    *)
(* again was outdated.                                                     *)
LEMMA BlockStep ==
    ASSUME WalletInv, ExecuteBlock
    PROVE  WalletInv'
<1>1. PICK block \in SUBSET wallet_pool :
          LET paid == {t \in block : Charged(t)}
          IN  /\ committing' = block
              /\ \E order \in Bijection(1..Cardinality(paid), paid) : charged' = charged \o order
              /\ IF paid = {} THEN UNCHANGED <<account_nonce, wallet>>
                 ELSE account_nonce' = account_nonce + Cardinality(paid) /\ NonceChanges
    BY Zenon DEF ExecuteBlock
<1> DEFINE paid == {t \in block : Charged(t)}
           n == Cardinality(paid)
<1>2. PICK order \in Bijection(1..n, paid) : charged' = charged \o order
    BY <1>1, Zenon
<1>3. /\ committing = {} /\ committing' = block
      /\ wallet_pool' = wallet_pool /\ clock' = clock /\ outdated' = outdated
    BY <1>1 DEF ExecuteBlock
<1>4. /\ wallet \in [Terminals -> WalletStates] /\ clock \in Nat
      /\ account_nonce \in Nat \cup {NoAccount} /\ Reported \in Nat
      /\ wallet_pool \subseteq Transactions /\ IsFiniteSet(wallet_pool)
      /\ charged \in Seq(Transactions)
    BY DEF WalletInv, WalletTypeOK, Reported
<1>5. /\ paid \subseteq wallet_pool /\ paid \subseteq block /\ paid \subseteq Transactions
      /\ IsFiniteSet(paid) /\ n \in Nat
      /\ paid # {} => account_nonce \in Nat /\ n > 0
    <2>1. paid \subseteq wallet_pool
        OBVIOUS
    <2>2. IsFiniteSet(paid) /\ n \in Nat /\ (n = 0 <=> paid = {})
        BY <2>1, <1>4, FS_Subset, FS_CardinalityType, FS_EmptySet, Zenon
    <2>3. paid # {} => account_nonce \in Nat
        BY <1>4 DEF Charged
    <2> QED
        BY <2>1, <2>2, <2>3, <1>4
<1>6. /\ IF paid = {} THEN UNCHANGED <<account_nonce, wallet>>
         ELSE account_nonce' = account_nonce + n /\ NonceChanges
    BY <1>1
<1> HIDE DEF paid, n
<1>7. /\ order \in [1..n -> paid]
      /\ \A i, j \in 1..n : order[i] = order[j] => i = j
    BY <1>2 DEF Bijection, Injection, IsInjective
<1>8. /\ charged' \in Seq(Transactions) /\ Len(charged') = Len(charged) + n
      /\ \A i \in 1..(Len(charged) + n) :
            charged'[i] = IF i <= Len(charged) THEN charged[i] ELSE order[i - Len(charged)]
    <2>1. order \in Seq(Transactions) /\ Len(order) = n
        BY <1>5, <1>7
    <2>2. /\ charged \o order \in Seq(Transactions)
          /\ Len(charged \o order) = Len(charged) + n
          /\ \A i \in 1..(Len(charged) + n) :
                (charged \o order)[i]
                    = IF i <= Len(charged) THEN charged[i] ELSE order[i - Len(charged)]
        BY <2>1, <1>4, ConcatProperties, Zenon
    <2> QED
        BY <2>2, <1>2, Zenon
<1>9. DOMAIN charged = 1..Len(charged) /\ Len(charged) \in Nat
    BY <1>4
<1>10. DOMAIN charged' = 1..(Len(charged) + n)
    BY <1>8
<1>11. ASSUME NEW i \in DOMAIN charged'
       PROVE  \/ i \in DOMAIN charged /\ charged'[i] = charged[i]
              \/ /\ i \in Nat /\ i - Len(charged) \in 1..n
                 /\ charged'[i] = order[i - Len(charged)] /\ charged'[i] \in paid
    <2>1. CASE i <= Len(charged)
        BY <2>1, <1>8, <1>9, <1>10, <1>5
    <2>2. CASE ~(i <= Len(charged))
        <3>1. i \in Nat /\ i - Len(charged) \in 1..n
            BY <2>2, <1>9, <1>10, <1>5
        <3>2. charged'[i] = order[i - Len(charged)]
            BY <2>2, <1>8, <1>10
        <3> QED
            BY <3>1, <3>2, <1>7
    <2> QED
        BY <2>1, <2>2
<1>12. /\ account_nonce' \in Nat \cup {NoAccount}
       /\ account_nonce # NoAccount => account_nonce' \in Nat /\ account_nonce <= account_nonce'
       /\ account_nonce = NoAccount => account_nonce' = NoAccount
       /\ paid # {} => account_nonce \in Nat /\ account_nonce + 1 <= account_nonce'
    BY <1>4, <1>5, <1>6, WalletAssumption
<1>13. Reported' \in Nat /\ Reported <= Reported'
    BY <1>4, <1>12, WalletAssumption DEF Reported
<1>14. wallet' \in [Terminals -> WalletStates] /\ FreshIsNext'
    <2>1. CASE paid = {}
        BY <2>1, <1>4, <1>6 DEF WalletInv, FreshIsNext, Reported
    <2>2. CASE paid # {}
        <3>1. wallet' = [w \in Terminals |->
                  IF wallet[w].step \in {"sign", "submit"} THEN [wallet[w] EXCEPT !.fresh = FALSE]
                  ELSE wallet[w]]
            BY <2>2, <1>6 DEF NonceChanges
        <3>2. ASSUME NEW w \in Terminals
              PROVE  /\ [wallet[w] EXCEPT !.fresh = FALSE] \in WalletStates
                     /\ ~[wallet[w] EXCEPT !.fresh = FALSE].fresh
            BY <1>4, Zenon DEF WalletStates
        <3> QED
            BY <3>1, <3>2, <1>4 DEF FreshIsNext
    <2> QED
        BY <2>1, <2>2
<1>15. WalletTypeOK'
    BY <1>3, <1>4, <1>8, <1>12, <1>14 DEF WalletTypeOK
<1>16. PendingIsNext'
    <2> SUFFICES ASSUME NEW t \in wallet_pool \ outdated
                 PROVE  t.nonce <= Reported' + 1
        BY <1>3 DEF PendingIsNext
    <2>1. t.nonce <= Reported + 1 /\ t.nonce \in Nat
        BY <1>4 DEF WalletInv, PendingIsNext, Transactions
    <2> QED
        BY <2>1, <1>4, <1>13
<1>17. ChargedIsPast'
    <2> SUFFICES ASSUME NEW i \in DOMAIN charged', charged'[i] \notin outdated
                 PROVE  account_nonce' # NoAccount /\ charged'[i].nonce <= account_nonce'
        BY <1>3 DEF ChargedIsPast
    <2>1. CASE i \in DOMAIN charged /\ charged'[i] = charged[i]
        <3>1. /\ account_nonce # NoAccount /\ charged[i].nonce <= account_nonce
              /\ charged[i] \in Transactions
            BY <2>1, <1>4 DEF WalletInv, ChargedIsPast
        <3>2. charged[i].nonce \in Nat
            BY <3>1 DEF Transactions
        <3> QED
            BY <2>1, <3>1, <3>2, <1>4, <1>12, WalletAssumption
    <2>2. CASE charged'[i] \in paid
        <3>1. charged'[i].nonce <= Reported + 1 /\ charged'[i].nonce \in Nat
            BY <2>2, <1>4, <1>5 DEF WalletInv, PendingIsNext, Transactions
        <3>2. account_nonce \in Nat /\ account_nonce + 1 <= account_nonce' /\ account_nonce' \in Nat
            BY <2>2, <1>12, WalletAssumption
        <3> QED
            BY <3>1, <3>2, WalletAssumption DEF Reported
    <2> QED
        BY <2>1, <2>2, <1>11
<1>18. ChargedLeaves'
    <2> SUFFICES ASSUME NEW i \in DOMAIN charged', charged'[i] \in wallet_pool
                 PROVE  charged'[i] \in block \/ charged'[i] \in outdated
        BY <1>3 DEF ChargedLeaves
    <2> QED
        BY <1>3, <1>5, <1>11 DEF WalletInv, ChargedLeaves
<1>19. ChargedOnce'
    <2> SUFFICES ASSUME NEW i \in DOMAIN charged', NEW j \in DOMAIN charged',
                        i # j, charged'[i] = charged'[j]
                 PROVE  charged'[i] \in outdated
        BY <1>3 DEF ChargedOnce
    <2>1. \A k \in DOMAIN charged : charged[k] \in paid => charged[k] \in outdated
        BY <1>3, <1>5 DEF WalletInv, ChargedLeaves
    <2>2. CASE charged'[i] = charged[i] /\ i \in DOMAIN charged
        BY <2>1, <2>2, <1>11, Zenon DEF WalletInv, ChargedOnce
    <2>3. CASE charged'[j] = charged[j] /\ j \in DOMAIN charged
        BY <2>1, <2>3, <1>11 DEF WalletInv, ChargedOnce
    <2>4. CASE /\ i \in Nat /\ i - Len(charged) \in 1..n
               /\ charged'[i] = order[i - Len(charged)]
               /\ j \in Nat /\ j - Len(charged) \in 1..n
               /\ charged'[j] = order[j - Len(charged)]
        <3>1. i - Len(charged) = j - Len(charged)
            BY <2>4, <1>7, Zenon
        <3> QED
            BY <3>1, <2>4, <1>9
    <2> QED
        BY <2>2, <2>3, <2>4, <1>11
<1> QED
    BY <1>14, <1>15, <1>16, <1>17, <1>18, <1>19 DEF WalletInv

LEMMA WalletStep == WalletInv /\ [WalletNext]_walletVars => WalletInv'
<1> SUFFICES ASSUME WalletInv, [WalletNext]_walletVars
             PROVE  WalletInv'
    OBVIOUS
<1>1. clock \in Nat
    BY DEF WalletInv, WalletTypeOK
<1>2. CASE UNCHANGED walletVars
    BY <1>1, <1>2, PoolShrinks DEF walletVars
<1>3. CASE ClockTicks
    BY <1>1, <1>3, PoolShrinks DEF ClockTicks, nodeVars
<1>4. CASE RemoveBatch
    BY <1>1, <1>4, PoolShrinks DEF RemoveBatch
<1>5. CASE EvictPending
    BY <1>1, <1>5, PoolShrinks DEF EvictPending
<1> QED
    BY <1>2, <1>3, <1>4, <1>5, TerminalSteps, SubmitStep, BlockStep DEF WalletNext

(* The wallet and the node it talks to: with any number of terminals that  *)
(* use one key, no transaction is charged twice unless it was submitted    *)
(* with a nonce that had changed since it was read.                        *)
THEOREM WalletChargesOnce == WalletSpec => []ChargedOnce
<1>1. WalletInit => WalletInv
    BY WalletStart
<1>2. WalletInv /\ [WalletNext]_walletVars => WalletInv'
    BY WalletStep
<1>3. WalletInv => ChargedOnce
    BY DEF WalletInv
<1> QED
    BY <1>1, <1>2, <1>3, PTL DEF WalletSpec
=============================================================================
