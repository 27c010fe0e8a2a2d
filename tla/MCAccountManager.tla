-------------------------- MODULE MCAccountManager --------------------------
(***************************************************************************)
(* Two accounts, for TLC: one gets a deposit and a refund, and is          *)
(* withdrawn from; the other gets a deposit.                               *)
(***************************************************************************)
EXTENDS AccountManager

CONSTANTS a, b, d1, d2, r1, w1

MCDepositOf ==
    [d \in {d1, d2, r1} |->
        CASE d = d1 -> [id |-> a, amount |-> 2, refund |-> FALSE]
          [] d = d2 -> [id |-> b, amount |-> 2, refund |-> FALSE]
          [] d = r1 -> [id |-> a, amount |-> 1, refund |-> TRUE]]
MCWithdrawalOf == [w \in {w1} |-> [id |-> a, amount |-> 1, expiry |-> 0]]
=============================================================================
