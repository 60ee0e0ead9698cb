------------------------------- MODULE Funding ------------------------------
(***************************************************************************)
(* The two scripts on one chain: mine.sh makes the blocks that             *)
(* fund-ssp.mjs waits for.                                                 *)
(***************************************************************************)
EXTENDS MineLoop, FundSsp

vars == <<conf, age, reorgs, faults, loopvars, fundvars>>

Init == ChainInit /\ LoopInit /\ FundInit

\* Only a reorganisation of the chain concerns both.
Reorganise == LoopReorg /\ NoteUndone /\ UNCHANGED <<scriptvars, claimed, short>>

Replaced == \E t \in Txs : Conflict(t)

Next ==
  \/ LoopStep /\ UNCHANGED fundvars
  \/ LoopEnvironment /\ UNCHANGED fundvars
  \/ FundStep /\ UNCHANGED loopvars
  \/ FundEnvironment /\ UNCHANGED loopvars
  \/ Reorganise
  \/ Replaced /\ UNCHANGED <<loopvars, fundvars>>

\* The host runs both scripts and Docker restarts a container that has ended.
\* wait_chain_sync.sh looks every 30 seconds, so it does not for ever miss the
\* two hours in which a new tip is recent: strong fairness.
Fairness ==
  /\ SF_vars(SyncDone /\ UNCHANGED fundvars)
  /\ WF_vars(LoopStep /\ UNCHANGED fundvars)
  /\ WF_vars(FundStep /\ UNCHANGED loopvars)

Spec == Init /\ [][Next]_vars /\ Fairness

(***************************************************************************)
(* Properties.                                                             *)
(***************************************************************************)
\* fund-ssp.mjs waits for all deposits before it claims the first, and does not
\* look again: it claims a deposit with too few confirmations only when a
\* reorganisation removed the deposit's block after it had left `pending`.
ClaimsConfirmed == short \subseteq undone

\* Every transaction the wallet was told to send is credited by the SSP, is in
\* the list of the run in progress, or was lost with a run that ended in an
\* exception; no more than one ladder per such run.
DepositsAccounted ==
  /\ Cardinality(Made \ (deposits \cup claimed)) <= failed * Ladder
  /\ script \in {"status", "done"} => deposits \subseteq claimed

\* Mining stops for good only when a command outside every `||` failed (a call
\* of bitcoin-cli, or the sleep of a malformed production delay), or when the
\* tip was older than MAX_AGE at a start of the container and nobody mines by
\* hand: wait_chain_sync.sh then waits for a block that only the loop behind it
\* would make.
MiningGoesOn ==
  \/ []<>(loop = "miner")
  \/ <>[](loop = "dead" /\ cause \in {"address", "date", "count"})
  \/ <>[](loop = "sync" /\ age > MAX_AGE)

\* fund-ssp.mjs waits for ever only for a transaction that was replaced, or
\* because mine.sh has stopped or waits for a recent block.
FundingEnds ==
  <>[](script = "poll") =>
    \/ <>[](\E t \in pending : conf[t] = Conflicted)
    \/ <>[](loop \in {"dead", "sync"})
=============================================================================
