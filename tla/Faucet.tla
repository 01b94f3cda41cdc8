------------------------------- MODULE Faucet -------------------------------
(***************************************************************************)
(* The drip handler of the faucet.  Requests run concurrently.  A request  *)
(* checks the limits of its address, awaits two calls to the node, and     *)
(* records the drip only then; the record it makes is read and written in  *)
(* two steps of the map.  Time is in seconds, a day has DAY of them.       *)
(***************************************************************************)
EXTENDS Naturals, Sequences, FiniteSets

CONSTANTS DripRequests, Addresses, NoRecord, cooldown, max_drips_per_day, DAY, MaxSeconds,
          MaxDrips

(* rate_limits as in the code; drip_step, drip_addr, drip_now and          *)
(* drip_count are the locals of a request.  drips logs the drips sent,     *)
(* overlapped the addresses two requests were ever in progress for.        *)
VARIABLES seconds, rate_limits, drip_step, drip_addr, drip_now, drip_count, drips, overlapped

faucetVars == <<seconds, rate_limits, drip_step, drip_addr, drip_now, drip_count, drips, overlapped>>

Today(now) == now \div DAY

(* The limits of an address; the count of another day is forgotten.        *)
MayDrip(record, now) ==
    \/ record = NoRecord
    \/ /\ record.day = Today(now) => record.drips < max_drips_per_day
       /\ now >= record.last + cooldown

DripCheck(r, a) ==
    /\ drip_step[r] = "idle" /\ Len(drips) < MaxDrips
    /\ LET record == rate_limits[a]
           reset == IF record = NoRecord \/ record.day = Today(seconds) THEN record
                    ELSE [record EXCEPT !.drips = 0, !.day = Today(seconds)]
       IN  /\ rate_limits' = [rate_limits EXCEPT ![a] = reset]
           /\ drip_step' = [drip_step EXCEPT ![r] =
                  IF MayDrip(record, seconds) THEN "nonce" ELSE "idle"]
    /\ drip_addr' = [drip_addr EXCEPT ![r] = a]
    /\ drip_now' = [drip_now EXCEPT ![r] = seconds]
    /\ overlapped' = IF \E q \in DripRequests \ {r} : drip_step[q] # "idle" /\ drip_addr[q] = a
                     THEN overlapped \cup {a} ELSE overlapped
    /\ UNCHANGED <<seconds, drip_count, drips>>

(* get_nonce: the answer of the node to polay_getAccount.                  *)
DripNonce(r) ==
    /\ drip_step[r] = "nonce" /\ drip_step' = [drip_step EXCEPT ![r] = "send"]
    /\ UNCHANGED <<seconds, rate_limits, drip_addr, drip_now, drip_count, drips, overlapped>>

(* send_transfer: the node takes the transfer.                             *)
DripTransfer(r) ==
    /\ drip_step[r] = "send" /\ drip_step' = [drip_step EXCEPT ![r] = "count"]
    /\ drips' = Append(drips, [addr |-> drip_addr[r], now |-> drip_now[r]])
    /\ UNCHANGED <<seconds, rate_limits, drip_addr, drip_now, drip_count, overlapped>>

(* Either call fails, and the request with it.                             *)
DripRefused(r) ==
    /\ drip_step[r] \in {"nonce", "send"} /\ drip_step' = [drip_step EXCEPT ![r] = "idle"]
    /\ UNCHANGED <<seconds, rate_limits, drip_addr, drip_now, drip_count, drips, overlapped>>

(* The arguments of insert are evaluated before it.                        *)
DripCount(r) ==
    /\ drip_step[r] = "count"
    /\ drip_step' = [drip_step EXCEPT ![r] = "insert"]
    /\ LET record == rate_limits[drip_addr[r]]
       IN  drip_count' = [drip_count EXCEPT ![r] =
              1 + IF record # NoRecord /\ record.day = Today(drip_now[r])
                  THEN record.drips ELSE 0]
    /\ UNCHANGED <<seconds, rate_limits, drip_addr, drip_now, drips, overlapped>>

(* Fault: the count is not written.                                        *)
DripInsertOnce(r) ==
    /\ drip_step[r] = "insert"
    /\ drip_step' = [drip_step EXCEPT ![r] = "idle"]
    /\ rate_limits' = [rate_limits EXCEPT ![drip_addr[r]] =
          [last |-> drip_now[r], drips |-> 1, day |-> Today(drip_now[r])]]
    /\ UNCHANGED <<seconds, drip_addr, drip_now, drip_count, drips, overlapped>>

DripInsert(r) ==
    /\ drip_step[r] = "insert"
    /\ drip_step' = [drip_step EXCEPT ![r] = "idle"]
    /\ rate_limits' = [rate_limits EXCEPT ![drip_addr[r]] =
          [last |-> drip_now[r], drips |-> drip_count[r], day |-> Today(drip_now[r])]]
    /\ UNCHANGED <<seconds, drip_addr, drip_now, drip_count, drips, overlapped>>

Second ==
    /\ seconds < MaxSeconds /\ seconds' = seconds + 1
    /\ UNCHANGED <<rate_limits, drip_step, drip_addr, drip_now, drip_count, drips, overlapped>>

FaucetInit ==
    /\ seconds = 0 /\ rate_limits = [a \in Addresses |-> NoRecord]
    /\ drip_step = [r \in DripRequests |-> "idle"]
    /\ drip_addr = [r \in DripRequests |-> NoRecord]
    /\ drip_now = [r \in DripRequests |-> 0] /\ drip_count = [r \in DripRequests |-> 0]
    /\ drips = <<>> /\ overlapped = {}

FaucetNext ==
    \/ Second
    \/ \E r \in DripRequests :
        \/ \E a \in Addresses : DripCheck(r, a)
        \/ DripNonce(r)
        \/ DripTransfer(r)
        \/ DripRefused(r)
        \/ DripCount(r)
        \/ DripInsert(r)

DripsOf(a) == SelectSeq(drips, LAMBDA d : d.addr = a)

(* An address whose requests never overlapped gets no more than the daily  *)
(* number of drips in a day and no two within the cooldown, whichever      *)
(* calls to the node fail.  (With overlapping requests both limits can be  *)
(* passed: the check and the record are far apart.)                        *)
SerialDripsAreLimited ==
    \A a \in Addresses \ overlapped :
        LET ds == DripsOf(a)
        IN  /\ \A i, j \in DOMAIN ds : i < j => ds[j].now >= ds[i].now + cooldown
            /\ \A i \in DOMAIN ds :
                  Cardinality({j \in DOMAIN ds : Today(ds[j].now) = Today(ds[i].now)})
                      <= max_drips_per_day
=============================================================================
