------------------------------ MODULE MCMempool ------------------------------
(* Alice sends x0, x1 and a replacement y1 with the nonce of x1; Bob sends *)
(* z0.  Fees decide who is evicted; w0 of Bob pays too little.             *)
EXTENDS Mempool, TLC

CONSTANTS x0, x1, y1, z0, w0, alice, bob

MCSender == [t \in Txs |-> IF t \in {z0, w0} THEN bob ELSE alice]

MCNonce == [t \in Txs |-> IF t \in {x1, y1} THEN 1 ELSE 0]

MCFee == [t \in Txs |-> CASE t = x0 -> 2 [] t = x1 -> 3 [] t = y1 -> 4
                          [] t = z0 -> 3 [] t = w0 -> 1]
=============================================================================
