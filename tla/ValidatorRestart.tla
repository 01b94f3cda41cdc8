-------------------------- MODULE ValidatorRestart --------------------------
(***************************************************************************)
(* ValidatorLoop with validators that crash and are started again.  The    *)
(* applied chain is in RocksDB and survives; the consensus state machine,  *)
(* its lock and the record of votes cast are in memory and do not.         *)
(***************************************************************************)
EXTENDS ValidatorLoop

CONSTANTS Restarting, MaxRestarts

ASSUME RestartingAssumption ==
    Restarting \subseteq Honest /\ MaxRestarts \in Nat

VARIABLE restarts

rvars == <<vars, restarts>>

RInit == Init /\ restarts = 0

(* Fault: the new machine decides the height of the tip again.             *)
CrashToTip(n) ==
    /\ running[n] /\ Active(n)
    /\ restarts < MaxRestarts
    /\ restarts' = restarts + 1
    /\ cs' = [cs EXCEPT ![n] = NewMachine(Len(chain[n]))]
    /\ running' = [running EXCEPT ![n] = FALSE]
    /\ armed' = [armed EXCEPT ![n] = FALSE]
    /\ delivered' = [delivered EXCEPT ![n] = {}]
    /\ UNCHANGED <<chain, msgs, proofs>>

(* Fault: the last applied block was not durable.                          *)
CrashLosesTip(n) ==
    /\ running[n] /\ Active(n)
    /\ restarts < MaxRestarts
    /\ restarts' = restarts + 1
    /\ chain' = [chain EXCEPT ![n] = SubSeq(@, 1, Len(@) - 1)]
    /\ cs' = [cs EXCEPT ![n] = NewMachine(Len(chain'[n]) + 1)]
    /\ running' = [running EXCEPT ![n] = FALSE]
    /\ armed' = [armed EXCEPT ![n] = FALSE]
    /\ delivered' = [delivered EXCEPT ![n] = {}]
    /\ UNCHANGED <<msgs, proofs>>

(* The process dies in any state; cmd_run opens the store again and        *)
(* init_consensus builds a new machine for the height after the tip.       *)
Crash(n) ==
    /\ running[n] /\ Active(n)
    /\ restarts < MaxRestarts
    /\ restarts' = restarts + 1
    /\ cs' = [cs EXCEPT ![n] = NewMachine(Len(chain[n]) + 1)]
    /\ running' = [running EXCEPT ![n] = FALSE]
    /\ armed' = [armed EXCEPT ![n] = FALSE]
    /\ delivered' = [delivered EXCEPT ![n] = {}]
    /\ UNCHANGED <<chain, msgs, proofs>>

RNext ==
    \/ Next /\ UNCHANGED restarts
    \/ \E n \in Restarting : Crash(n)

RSpec == RInit /\ [][RNext]_rvars

-----------------------------------------------------------------------------
(* "No two conflicting blocks are finalized at the same height, as long as *)
(* fewer than 1/3 of total stake is controlled by Byzantine validators."   *)
(* A validator that forgets its lock counts towards that third.            *)
AppliedAgreement ==
    StakeOf(Faulty \cup Restarting) * 3 < total_stake =>
    \A m, n \in Honest : \A h \in DOMAIN chain[m] \cap DOMAIN chain[n] :
        chain[m][h] = chain[n][h]

(* A block, once applied, is never replaced or dropped, restarts included. *)
ChainOnlyGrows ==
    [][\A n \in Honest : /\ Len(chain'[n]) >= Len(chain[n])
                         /\ \A h \in DOMAIN chain[n] :
                               chain'[n][h] = chain[n][h]]_rvars
=============================================================================
