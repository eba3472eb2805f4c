------------------------------ MODULE MCReceipt ------------------------------
(* Four kinds of block: nothing of the account, the transaction, another   *)
(* transaction of the account, the transaction reaping the account.        *)
EXTENDS Receipt

CONSTANTS quiet, tx, other, reap

MCBranches == {quiet, tx, other, reap}
MCFewBranches == {quiet, tx}
MCFewTx == {tx}
MCTx == {tx, reap}
MCOther == {other}
MCReap == {reap}
=============================================================================
