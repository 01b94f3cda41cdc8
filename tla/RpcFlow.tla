------------------------------ MODULE RpcFlow -------------------------------
(***************************************************************************)
(* What limits submissions to the RPC server, and what streams events from *)
(* it: the two parts of the server that run beside its request handlers.   *)
(***************************************************************************)
EXTENDS Integers, FiniteSets, Sequences

(***************************************************************************)
(* The global throttle of polay_submitTransaction: a counter that request  *)
(* threads increment and decrement without a lock, and a window start      *)
(* behind a lock, whose holder also clears the counter.  The counter is a  *)
(* u32 and wraps; U32 stands for 2^32.                                     *)
(***************************************************************************)

CONSTANTS Requests, max_per_second, WINDOW, U32, MaxTime

(* The limit and the threads that may be refused at once fit the counter.  *)
ASSUME ThrottleAssumption ==
    /\ IsFiniteSet(Requests)
    /\ max_per_second \in Nat /\ U32 \in Nat
    /\ max_per_second + Cardinality(Requests) < U32

(* counter and window_start are the throttle's fields; thr_step and        *)
(* thr_now a thread's position in check_and_increment and the instant it   *)
(* read.  admitted counts the admissions of the window, crossed the        *)
(* decrements of it that undo an increment made before it; late[t]: so     *)
(* will t's undo.                                                          *)
VARIABLES counter, window_start, time, thr_step, thr_now, admitted, crossed, late

throttleVars == <<counter, window_start, time, thr_step, thr_now, admitted, crossed, late>>

(* Instant::duration_since is zero for a later instant.                    *)
Expired(t) == thr_now[t] >= window_start + WINDOW

GoTo(t, s) == thr_step' = [thr_step EXCEPT ![t] = s]

ThrottleBegin(t) ==
    /\ thr_step[t] = "idle" /\ GoTo(t, "read")
    /\ thr_now' = [thr_now EXCEPT ![t] = time]
    /\ UNCHANGED <<counter, window_start, time, admitted, crossed, late>>

ThrottleRead(t) ==
    /\ thr_step[t] = "read" /\ GoTo(t, IF Expired(t) THEN "reset" ELSE "add")
    /\ UNCHANGED <<counter, window_start, time, thr_now, admitted, crossed, late>>

NewWindow(t) ==
    /\ window_start' = thr_now[t] /\ counter' = 0
    /\ IF thr_now[t] >= window_start + WINDOW
       THEN /\ admitted' = 0 /\ crossed' = 0
            /\ late' = [u \in Requests |-> thr_step[u] = "undo"]
       ELSE UNCHANGED <<admitted, crossed, late>>

(* Fault: the expiry is not checked again under the write lock.            *)
ThrottleResetUnchecked(t) ==
    /\ thr_step[t] = "reset" /\ GoTo(t, "add")
    /\ NewWindow(t)
    /\ UNCHANGED <<time, thr_now>>

(* Under the write lock: the expiry is checked again.                      *)
ThrottleReset(t) ==
    /\ thr_step[t] = "reset" /\ GoTo(t, "add")
    /\ IF Expired(t) THEN NewWindow(t)
       ELSE UNCHANGED <<counter, window_start, admitted, crossed, late>>
    /\ UNCHANGED <<time, thr_now>>

(* Fault: the limit itself is let through.                                 *)
ThrottleAddOneMore(t) ==
    /\ thr_step[t] = "add"
    /\ counter' = (counter + 1) % U32
    /\ IF counter > max_per_second
       THEN GoTo(t, "undo") /\ late' = [late EXCEPT ![t] = FALSE] /\ UNCHANGED admitted
       ELSE GoTo(t, "idle") /\ admitted' = admitted + 1 /\ UNCHANGED late
    /\ UNCHANGED <<window_start, time, thr_now, crossed>>

(* fetch_add returns the value before it.                                  *)
ThrottleAdd(t) ==
    /\ thr_step[t] = "add"
    /\ counter' = (counter + 1) % U32
    /\ IF counter >= max_per_second
       THEN GoTo(t, "undo") /\ late' = [late EXCEPT ![t] = FALSE] /\ UNCHANGED admitted
       ELSE GoTo(t, "idle") /\ admitted' = admitted + 1 /\ UNCHANGED late
    /\ UNCHANGED <<window_start, time, thr_now, crossed>>

ThrottleUndo(t) ==
    /\ thr_step[t] = "undo" /\ GoTo(t, "idle")
    /\ counter' = (counter + U32 - 1) % U32
    /\ crossed' = IF late[t] THEN crossed + 1 ELSE crossed
    /\ late' = [late EXCEPT ![t] = FALSE]
    /\ UNCHANGED <<window_start, time, thr_now, admitted>>

Later ==
    /\ time < MaxTime /\ time' = time + 1
    /\ UNCHANGED <<counter, window_start, thr_step, thr_now, admitted, crossed, late>>

ThrottleInit ==
    /\ counter = 0 /\ window_start = 0 /\ time = 0
    /\ thr_step = [t \in Requests |-> "idle"] /\ thr_now = [t \in Requests |-> 0]
    /\ admitted = 0 /\ crossed = 0 /\ late = [t \in Requests |-> FALSE]

ThrottleNext ==
    \/ Later
    \/ \E t \in Requests :
        \/ ThrottleBegin(t)
        \/ ThrottleRead(t)
        \/ ThrottleReset(t)
        \/ ThrottleAdd(t)
        \/ ThrottleUndo(t)

-----------------------------------------------------------------------------
(* The counter is exactly what the window's threads did to it: admissions  *)
(* plus refusals not undone yet, less the decrements for refusals of the   *)
(* window before.  Those can take it below zero, to the top of the u32,    *)
(* and then every submission is refused until the next window.             *)
CounterIsExact ==
    counter = (U32 + admitted - crossed
                 + Cardinality({t \in Requests : thr_step[t] = "undo" /\ ~late[t]})) % U32

(* A window admits no more than the limit, but for one submission per      *)
(* thread whose refusal in the window before is undone in this one.        *)
WindowAdmitsFew == admitted <= max_per_second + crossed

(* The throttle counts what it admitted, and admits at most its limit in a *)
(* window, but for what undos that arrive after the window take from it.   *)
ThrottleIsExact == CounterIsExact /\ WindowAdmitsFew
-----------------------------------------------------------------------------
(***************************************************************************)
(* The event bus between the validator loop and the subscriptions of the   *)
(* RPC server: a broadcast channel that keeps the last EVENT_CAPACITY      *)
(* events.  publish never waits; a receiver that falls further behind gets *)
(* an error from recv, and the subscription handlers end on any error.     *)
(***************************************************************************)

CONSTANTS EVENT_CAPACITY, Subscribers, MaxBlockEvents, MaxTxsPerBlock

(* The events published so far, the ones publish_block_events has still to *)
(* publish, and for every subscriber the filter of its handler, the first  *)
(* event and the next one of its receiver, and what was sent to the client.*)
VARIABLES published, publishing, subscriptions

busVars == <<published, publishing, subscriptions>>

Filters == {"NewBlocks", "NewTransactions", "Events"}

(* The filters of the three handlers.                                      *)
Wanted(filter, e) ==
    CASE filter = "NewBlocks" -> e.kind = "NewBlock"
      [] filter = "NewTransactions" -> e.kind \in {"NewTransaction", "TransactionConfirmed"}
      [] filter = "Events" -> TRUE

Closed == [open |-> FALSE, filter |-> "Events", first |-> 1, next |-> 1, delivered |-> <<>>]

(* publish_block_events: the block, then two events for each transaction.  *)
BlockEvents(h, n) ==
    <<[kind |-> "NewBlock", height |-> h, index |-> 0]>>
        \o [k \in 1..(2 * n) |->
              [kind |-> IF k % 2 = 1 THEN "NewTransaction" ELSE "TransactionConfirmed",
               height |-> h, index |-> (k + 1) \div 2]]

BlockCommitted ==
    /\ publishing = <<>> /\ Len(published) < MaxBlockEvents
    /\ \E n \in 0..MaxTxsPerBlock :
          publishing' = BlockEvents(1 + (IF published = <<>> THEN 0
                                         ELSE published[Len(published)].height), n)
    /\ UNCHANGED <<published, subscriptions>>

Publish ==
    /\ publishing # <<>>
    /\ published' = Append(published, Head(publishing))
    /\ publishing' = Tail(publishing)
    /\ UNCHANGED subscriptions

Subscribe(s) ==
    /\ ~subscriptions[s].open
    /\ \E f \in Filters :
          subscriptions' = [subscriptions EXCEPT ![s] =
              [open |-> TRUE, filter |-> f, first |-> Len(published) + 1,
               next |-> Len(published) + 1, delivered |-> <<>>]]
    /\ UNCHANGED <<published, publishing>>

Lagged(s) == Len(published) + 1 - subscriptions[s].next > EVENT_CAPACITY

(* Fault: a lagging receiver goes on with the oldest event still kept.     *)
RecvPastLag(s) ==
    LET n == IF Lagged(s) THEN Len(published) + 1 - EVENT_CAPACITY ELSE subscriptions[s].next
    IN  /\ subscriptions[s].open /\ n <= Len(published)
        /\ subscriptions' = [subscriptions EXCEPT
              ![s].next = n + 1,
              ![s].delivered = IF Wanted(subscriptions[s].filter, published[n])
                               THEN Append(@, published[n]) ELSE @]
        /\ UNCHANGED <<published, publishing>>

(* One turn of a subscription handler.                                     *)
Recv(s) ==
    LET n == subscriptions[s].next
    IN  /\ subscriptions[s].open /\ n <= Len(published)
        /\ IF Lagged(s) THEN subscriptions' = [subscriptions EXCEPT ![s].open = FALSE]
           ELSE subscriptions' = [subscriptions EXCEPT
                    ![s].next = n + 1,
                    ![s].delivered = IF Wanted(subscriptions[s].filter, published[n])
                                     THEN Append(@, published[n]) ELSE @]
        /\ UNCHANGED <<published, publishing>>

(* The client went away: sending to the sink fails.                        *)
SinkClosed(s) ==
    /\ subscriptions[s].open
    /\ subscriptions' = [subscriptions EXCEPT ![s].open = FALSE]
    /\ UNCHANGED <<published, publishing>>

BusInit ==
    /\ published = <<>> /\ publishing = <<>>
    /\ subscriptions = [s \in Subscribers |-> Closed]

BusNext ==
    \/ BlockCommitted
    \/ Publish
    \/ \E s \in Subscribers : Subscribe(s) \/ Recv(s) \/ SinkClosed(s)

-----------------------------------------------------------------------------
(* What a client was sent is every event of its filter since it            *)
(* subscribed, in order and without a gap, up to a point: a handler that   *)
(* falls behind ends instead of skipping events.                           *)
StreamHasNoGaps ==
    \A s \in Subscribers :
        LET sub == subscriptions[s]
        IN  sub.delivered = SelectSeq(SubSeq(published, sub.first, sub.next - 1),
                                      LAMBDA e : Wanted(sub.filter, e))
=============================================================================
