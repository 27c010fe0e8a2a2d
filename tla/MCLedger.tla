------------------------------ MODULE MCLedger ------------------------------
(***************************************************************************)
(* A small ledger for TLC: block bodies with coins, a contract and its     *)
(* revisions and proofs, and siafunds that share its tax; and the outputs  *)
(* of the airdrop of the dev and testing builds.                           *)
(***************************************************************************)
EXTENDS Ledger

\* A transaction with the given parts and nothing else.
Tx(name, parts) ==
    parts @@ [name |-> name, scIn |-> << >>, scOut |-> << >>, fees |-> << >>, fcs |-> << >>,
              revs |-> << >>, proofs |-> << >>, sfIn |-> << >>, sfOut |-> << >>]

MCGenesisCoins == <<"a", 0>> :> 9 @@ <<"b", 0>> :> 3
MCGenesisFunds == <<"s", 0>> :> 1 @@ <<"u", 0>> :> 1
MCSegmentOf == [x \in 0..9 |-> x % 2]

\* A payout of 9 is taxed 3, rounded down to 2 for two siafunds.
Contract == [payout |-> 9, valid |-> <<4, 3>>, missed |-> <<7>>, start |-> 2, end |-> 3,
             number |-> 0, size |-> 1]
Form == Tx("form", [scIn |-> <<<<"a", 0>>>>, fcs |-> <<Contract>>])
Revision(n, start, end) ==
    [parent |-> <<"form", 1>>, number |-> n, start |-> start, end |-> end,
     valid |-> <<1, 6>>, missed |-> <<1, 5, 1>>, size |-> 0]
Revise == Tx("revise", [revs |-> <<Revision(1, 3, 4)>>])
ReviseAgain == Tx("again", [revs |-> <<Revision(2, 2, 4)>>])
Prove(segment) == Tx("prove", [proofs |-> <<[parent |-> <<"form", 1>>, segment |-> segment]>>])

\* The fee is paid to the miner; the output is spent in the same block.
Pay == Tx("pay", [scIn |-> <<<<"b", 0>>>>, scOut |-> <<2>>, fees |-> <<1>>])
Respend == Tx("respend", [scIn |-> <<<<"pay", 1>>>>, scOut |-> <<1, 1>>])

\* Siafunds move before, after and with the taxes they share.
Move == Tx("move", [sfIn |-> <<<<"s", 0>>>>, sfOut |-> <<1>>])
MoveAll == Tx("all", [sfIn |-> <<<<"u", 0>>, <<"move", 1>>>>, sfOut |-> <<2>>])
FormAndMove == Tx("both", [scIn |-> <<<<"a", 0>>>>, fcs |-> <<Contract>>,
                           sfIn |-> <<<<"s", 0>>>>, sfOut |-> <<1>>])

MCBodies ==
    {<< >>, <<Form>>, <<Move, Form, Revise, MoveAll>>, <<Revise>>, <<Prove(0), Pay, Respend>>,
     <<ReviseAgain, Prove(1)>>, <<FormAndMove>>}

\* The airdrop of the dev and testing builds moves the genesis funds.
MCForkedFunds == <<"f", 0>> :> 2
MCHardforkFunds == 2 :> (<<"g", 0>> :> 2)
=============================================================================
