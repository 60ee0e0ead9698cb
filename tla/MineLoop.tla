------------------------------ MODULE MineLoop ------------------------------
(***************************************************************************)
(* src/mine.sh with src/wait_chain_sync.sh and src/consolidate_utxos.sh.   *)
(* mine.sh runs under `set -e` in the background of run.sh: when it ends,  *)
(* nothing starts it again until the container is started again.  What one *)
(* call of the miner does is the module SignetMiner; here it stores one    *)
(* block, with the time `date` gave before the call, or fails.             *)
(***************************************************************************)
EXTENDS WalletChain

CONSTANT
  CONSOLIDATE_INTERVAL   \* blocks between two consolidations, 0 for none

ASSUME IntervalAssumption == CONSOLIDATE_INTERVAL \in Nat

VARIABLES
  loop,      \* where mine.sh is, or "down" with its container, or "dead"
  date,      \* while the miner runs: how long ago its $(date +%s) was read
  blocks,    \* the block count modulo CONSOLIDATE_INTERVAL
  balance,   \* consolidate_utxos.sh: "none", "read", or "stale" after a reorganisation
  cause      \* history: where mine.sh ended

loopvars == <<loop, date, blocks, balance, cause>>

LoopInit ==
  /\ loop = "sync"
  /\ date = 0
  /\ blocks = 0
  /\ balance = "none"
  /\ cause = "none"

Go(from, to) == loop = from /\ loop' = to

Quiet == UNCHANGED <<conf, age, reorgs, faults>>

Older(a) == IF a < Old THEN a + 1 ELSE a

\* (block count) % CONSOLIDATE_INTERVAL after n more blocks.
Count(n) == IF CONSOLIDATE_INTERVAL = 0 THEN 0 ELSE (blocks + n) % CONSOLIDATE_INTERVAL

\* The clock: every `sleep` of the scripts, and the time their calls take.
Tick ==
  /\ age' = Older(age)
  /\ date' = IF loop = "miner" THEN Older(date) ELSE date
  /\ UNCHANGED <<loop, blocks, balance, cause, conf, reorgs, faults>>

\* check_block_recency: the argument of the script is not looked at; an older
\* tip, or a call that fails, leaves the loop where it is.
SyncDone ==
  /\ Go("sync", "address")
  /\ age <= MAX_AGE
  /\ Quiet
  /\ UNCHANGED <<date, blocks, balance, cause>>

\* ADDR from a file, from MINETO or from getnewaddress.
Address ==
  /\ Go("address", "date")
  /\ Quiet
  /\ UNCHANGED <<date, blocks, balance, cause>>

\* After the production delay: $(date +%s).
Date ==
  /\ Go("date", "miner")
  /\ date' = 0
  /\ Quiet
  /\ UNCHANGED <<blocks, balance, cause>>

\* miner generate --set-block-time stores a block.
MinerDone ==
  /\ Go("miner", "count")
  /\ AddBlock(date)
  /\ blocks' = Count(1)
  /\ date' = 0
  /\ UNCHANGED <<balance, cause, reorgs, faults>>

\* Mutant: without `|| true`.
MinerFails_Ends ==
  /\ Go("miner", "dead")
  /\ Fault
  /\ cause' = "miner"
  /\ UNCHANGED <<date, blocks, balance, conf, age, reorgs>>

\* The miner fails, `|| true`.
MinerFails ==
  /\ Go("miner", "count")
  /\ Fault
  /\ date' = 0
  /\ UNCHANGED <<blocks, balance, cause, conf, age, reorgs>>

\* getblockcount, and a consolidation at every multiple of the interval; also
\* once more when the miner failed at such a height.
BlockCount ==
  /\ loop = "count"
  /\ loop' = IF CONSOLIDATE_INTERVAL > 0 /\ blocks = 0 THEN "own" ELSE "address"
  /\ Quiet
  /\ UNCHANGED <<date, blocks, balance, cause>>

\* A command outside every `||` fails and `set -e` ends the script: getnewaddress,
\* the sleep of a delay that is no number, getblockcount.
CommandFails ==
  /\ loop \in {"address", "date", "count"}
  /\ loop' = "dead"
  /\ Fault
  /\ cause' = loop
  /\ UNCHANGED <<date, blocks, balance, conf, age, reorgs>>

\* consolidate_utxos.sh: getaddressinfo; an address outside the wallet ends it.
ConsolidateOwn ==
  /\ \/ Go("own", "balance")
     \/ Go("own", "address")
  /\ Quiet
  /\ UNCHANGED <<date, blocks, balance, cause>>

ConsolidateBalance ==
  /\ Go("balance", "send")
  /\ balance' = "read"
  /\ Quiet
  /\ UNCHANGED <<date, blocks, cause>>

\* sendtoaddress of the balance read before: the coins may have gone.
ConsolidateSend ==
  /\ Go("send", "address")
  /\ balance' = "none"
  /\ Quiet
  /\ UNCHANGED <<date, blocks, cause>>

\* A failing consolidation is a warning.
ConsolidateFails ==
  /\ loop \in {"own", "balance", "send"}
  /\ loop' = "address"
  /\ IF balance = "stale" THEN UNCHANGED faults ELSE Fault
  /\ balance' = "none"
  /\ UNCHANGED <<date, blocks, cause, conf, age, reorgs>>

\* The container dies, and is started again.
Outage ==
  /\ loop # "down"
  /\ loop' = "down"
  /\ Fault
  /\ balance' = "none"
  /\ cause' = "none"
  /\ date' = 0
  /\ UNCHANGED <<blocks, conf, age, reorgs>>

Boot ==
  /\ Go("down", "sync")
  /\ Quiet
  /\ UNCHANGED <<date, blocks, balance, cause>>

\* Somebody who holds the signing key mines one block by hand.
ManualBlock ==
  /\ AddBlock(0)
  /\ blocks' = Count(1)
  /\ UNCHANGED <<loop, date, balance, cause, reorgs, faults>>

\* bitcoind follows another branch.
LoopReorg ==
  /\ \E k \in 1 .. MaxDepth :
       /\ Reorg(k)
       /\ blocks' = IF CONSOLIDATE_INTERVAL = 0 THEN 0 ELSE (blocks - k) % CONSOLIDATE_INTERVAL
  /\ balance' = IF balance = "read" THEN "stale" ELSE balance
  /\ UNCHANGED <<loop, date, cause>>

\* What the script does next when nothing fails.
LoopStep ==
  \/ SyncDone \/ Address \/ Date \/ MinerDone \/ BlockCount
  \/ ConsolidateOwn \/ ConsolidateBalance \/ ConsolidateSend \/ Boot

\* What its calls, its host and the chain do to it.
LoopEnvironment ==
  \/ Tick \/ MinerFails \/ CommandFails \/ ConsolidateFails \/ Outage \/ ManualBlock
=============================================================================
