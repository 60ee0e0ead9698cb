----------------------------- MODULE WalletChain ----------------------------
(***************************************************************************)
(* The chain as the shell loop of src/mine.sh and the wallet calls of      *)
(* src/fund-ssp.mjs see it (external: bitcoind).  Heights and clock        *)
(* readings are never compared across blocks, so the module keeps only     *)
(* the age of the tip and how deep each deposit transaction lies.          *)
(***************************************************************************)
EXTENDS Integers

CONSTANTS
  Txs,            \* transactions sendtoaddress may make
  CONFIRMATIONS,  \* fund-ssp.mjs: FUND_CONFS
  MAX_AGE,        \* wait_chain_sync.sh: two hours, in ticks
  MaxDepth,       \* bound: blocks one reorganisation removes
  MaxReorgs,      \* bound: reorganisations
  MaxFaults       \* bound: calls that fail, processes that are killed

ASSUME ChainAssumption ==
  /\ Txs \subseteq Nat
  /\ CONFIRMATIONS \in Nat
  /\ MAX_AGE \in Nat
  /\ MaxDepth \in Nat \ {0}
  /\ MaxReorgs \in Nat
  /\ MaxFaults \in Nat

VARIABLES
  conf,    \* confirmations of a transaction, or one of the two values below
  age,     \* the clock minus the time of the tip, counted up to MAX_AGE + 1
  reorgs,  \* reorganisations so far
  faults   \* failures so far

NotMade == -2       \* the wallet has made no such transaction
Conflicted == -1    \* another transaction spent its inputs

\* A transaction under Cap blocks stays above CONFIRMATIONS through every
\* reorganisation of the model: deeper ones need not be told apart.
Cap == CONFIRMATIONS + MaxDepth * MaxReorgs

Old == MAX_AGE + 1

Fault == faults < MaxFaults /\ faults' = faults + 1

ChainInit ==
  /\ conf = [t \in Txs |-> NotMade]
  /\ age \in 0 .. Old
  /\ reorgs = 0
  /\ faults = 0

\* A block with the whole mempool; `a` is the age of its timestamp.
AddBlock(a) ==
  /\ conf' = [t \in Txs |-> IF conf[t] \in 0 .. (Cap - 1) THEN conf[t] + 1 ELSE conf[t]]
  /\ age' = a

\* The last k blocks are replaced by an older branch: their transactions are
\* in the mempool again.
Reorg(k) ==
  /\ reorgs < MaxReorgs
  /\ reorgs' = reorgs + 1
  /\ conf' = [t \in Txs |-> IF conf[t] < 0 THEN conf[t]
                            ELSE IF conf[t] > k THEN conf[t] - k ELSE 0]
  /\ age' \in age .. Old
  /\ UNCHANGED faults

\* An unconfirmed transaction is replaced.
Conflict(t) ==
  /\ conf[t] = 0
  /\ Fault
  /\ conf' = [conf EXCEPT ![t] = Conflicted]
  /\ UNCHANGED <<age, reorgs>>

Made == {t \in Txs : conf[t] # NotMade}
=============================================================================
