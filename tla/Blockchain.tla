----------------------------- MODULE Blockchain -----------------------------
(***************************************************************************)
(* The ledger's own chain of transactions (blockchain.rs): a list of blocks *)
(* that one process appends to and folds balances out of.  The links by    *)
(* hash are left out: the program receives no such block from elsewhere,   *)
(* and verify_integrity, which the snapshots show, only recomputes what     *)
(* commit_block computed.  A block is a function from the places of its    *)
(* transactions, a sequence or one indexed by the winners they pay.        *)
(***************************************************************************)
EXTENDS Sequences, TokenSums

Mint(to, amount) == [kind |-> "Mint", to |-> to, amount |-> amount]
Pay(from, to, amount) ==
  [kind |-> "Transfer", from |-> from, to |-> to, amount |-> amount]
Burn(from, amount) == [kind |-> "Burn", from |-> from, amount |-> amount]

Genesis == <<<<>>>>

CommitBlock(chain, transactions) == Append(chain, transactions)

Gained(tx, address) ==
  IF tx.kind # "Burn" /\ tx.to = address THEN tx.amount ELSE 0
Spent(tx, address) ==
  IF tx.kind # "Mint" /\ tx.from = address THEN tx.amount ELSE 0

\* One transaction of the fold.  A transfer to oneself counts both ways.
Moved(tx, address) == Gained(tx, address) - Spent(tx, address)

Places(chain) == UNION {{b} \X DOMAIN chain[b] : b \in DOMAIN chain}

\* The sum over all transactions of all blocks, cut off at zero at the end.
BalanceOnChain(chain, address) ==
  LET raw == NetSum(Places(chain), [at \in Places(chain) |->
                                     Moved(chain[at[1]][at[2]], address)])
  IN  IF raw < 0 THEN 0 ELSE raw

=============================================================================
