------------------------------- MODULE FundSsp ------------------------------
(***************************************************************************)
(* src/fund-ssp.mjs: one deposit per rung of the ladder is sent, all of    *)
(* them are waited for, each is claimed.  The list of deposits lives in    *)
(* the process.  A call that fails outside the one `try` ends the process, *)
(* possibly after the callee has done what was asked.  The script may then *)
(* be started again, which begins with an empty list.                      *)
(*                                                                         *)
(* The SSP is external: it makes deposit addresses and takes claims, and   *)
(* may refuse the claim of a transaction without enough confirmations.     *)
(***************************************************************************)
EXTENDS WalletChain, FiniteSets

CONSTANTS
  Ladder,     \* number of deposits of one run
  MaxRuns     \* bound: times the script is started

ASSUME LadderAssumption == Ladder \in Nat \ {0} /\ MaxRuns \in Nat \ {0}

VARIABLES
  script,    \* where the process is
  deposits,  \* the list, as the set of its txids (they are sent in order)
  pending,   \* txids that still need confirmations
  round,     \* txids this pass over `pending` has not asked for yet
  todo,      \* deposits that are not claimed yet by this run
  claimed,   \* the SSP: deposits it has credited
  runs,      \* times the script was started
  failed,    \* history: runs that ended with an exception
  short,     \* history: deposits claimed with too few confirmations
  undone     \* history: deposits that a reorganisation put back below
             \* CONFIRMATIONS after they had left `pending`

scriptvars == <<script, deposits, pending, round, todo, runs, failed>>
claims == <<claimed, short, undone>>
fundvars == <<scriptvars, claims>>

Least(S) == CHOOSE x \in S : \A y \in S : x <= y

FundInit ==
  /\ script = "address"
  /\ deposits = {} /\ pending = {} /\ round = {} /\ todo = {}
  /\ claimed = {} /\ short = {} /\ undone = {}
  /\ runs = 1
  /\ failed = 0

NodeQuiet == UNCHANGED <<conf, age, reorgs, faults>>

At(from, to) == script = from /\ script' = to

\* POST /admin/spark/deposit-address
DepositAddress ==
  /\ At("address", "send")
  /\ NodeQuiet
  /\ UNCHANGED <<deposits, pending, round, todo, runs, failed, claims>>

\* The wallet makes and broadcasts the next transaction.
Send == \E t \in Txs \ Made :
  /\ t = Least(Txs \ Made)
  /\ conf' = [conf EXCEPT ![t] = 0]
  /\ UNCHANGED <<age, reorgs>>

\* sendtoaddress and the push; after the last one, the set of all txids.
SendDeposit ==
  /\ script = "send"
  /\ Send
  /\ deposits' = deposits \cup (Made' \ Made)
  /\ IF Cardinality(deposits') = Ladder
     THEN script' = "poll" /\ pending' = deposits' /\ round' = deposits' /\ todo' = deposits'
     ELSE script' = "address" /\ UNCHANGED <<pending, round, todo>>
  /\ UNCHANGED <<faults, runs, failed, claims>>

\* Mutant: a deposit needs one confirmation less.
Poll_OneLess ==
  /\ script = "poll"
  /\ \E t \in round :
       /\ t = Least(round)
       /\ pending' = IF conf[t] >= CONFIRMATIONS - 1 THEN pending \ {t} ELSE pending
       /\ round' = IF round = {t} THEN pending' ELSE round \ {t}
  /\ script' = IF pending' = {} THEN "fetch" ELSE "poll"
  /\ NodeQuiet
  /\ UNCHANGED <<deposits, todo, runs, failed, claims>>

\* Mutant: the set is gone through once.
Poll_OnePass ==
  /\ script = "poll"
  /\ \E t \in round :
       /\ t = Least(round)
       /\ pending' = IF conf[t] >= CONFIRMATIONS THEN pending \ {t} ELSE pending
       /\ round' = round \ {t}
  /\ script' = IF pending' = {} THEN "fetch" ELSE "poll"
  /\ NodeQuiet
  /\ UNCHANGED <<deposits, todo, runs, failed, claims>>

\* gettransaction for the next txid of the pass; with its confirmations it
\* leaves the set for good.  After the pass the script sleeps and begins
\* another, or goes on when the set is empty.
Poll ==
  /\ script = "poll"
  /\ \E t \in round :
       /\ t = Least(round)
       /\ pending' = IF conf[t] >= CONFIRMATIONS THEN pending \ {t} ELSE pending
       /\ round' = IF round = {t} THEN pending' ELSE round \ {t}
  /\ script' = IF pending' = {} THEN "fetch" ELSE "poll"
  /\ NodeQuiet
  /\ UNCHANGED <<deposits, todo, runs, failed, claims>>

\* The catch around gettransaction: the txid is asked for in the next pass.
PollFails ==
  /\ script = "poll"
  /\ \E t \in round :
       t = Least(round) /\ round' = IF round = {t} THEN pending ELSE round \ {t}
  /\ Fault
  /\ UNCHANGED <<script, deposits, pending, todo, runs, failed, claims, conf, age, reorgs>>

\* gettransaction and decoderawtransaction of the next deposit.  The output to
\* its address is there: the wallet made it.
Fetch ==
  /\ At("fetch", "claim")
  /\ NodeQuiet
  /\ UNCHANGED <<deposits, pending, round, todo, runs, failed, claims>>

\* The SSP credits the deposit t.
Credit(t) ==
  /\ claimed' = claimed \cup {t}
  /\ short' = IF conf[t] < CONFIRMATIONS THEN short \cup {t} ELSE short
  /\ UNCHANGED undone

\* Mutant: the list is given up with its first deposit.
Claim_FirstOnly ==
  /\ script = "claim"
  /\ Credit(Least(todo))
  /\ todo' = {}
  /\ script' = "status"
  /\ NodeQuiet
  /\ UNCHANGED <<deposits, pending, round, runs, failed>>

\* POST /admin/spark/claim-deposit
Claim ==
  /\ script = "claim"
  /\ Credit(Least(todo))
  /\ todo' = todo \ {Least(todo)}
  /\ script' = IF todo' = {} THEN "status" ELSE "fetch"
  /\ NodeQuiet
  /\ UNCHANGED <<deposits, pending, round, runs, failed>>

\* GET /status
Status ==
  /\ At("status", "done")
  /\ NodeQuiet
  /\ UNCHANGED <<deposits, pending, round, todo, runs, failed, claims>>

\* An exception that nothing catches, or a kill: the list is gone.
Throw ==
  /\ script' = "failed"
  /\ deposits' = {} /\ pending' = {} /\ round' = {} /\ todo' = {}
  /\ failed' = failed + 1
  /\ UNCHANGED runs

\* The process is killed, or a call fails without effect.
FundDies ==
  /\ script \notin {"done", "failed"}
  /\ Throw
  /\ Fault
  /\ UNCHANGED <<conf, age, reorgs, claims>>

\* sendtoaddress takes effect and its answer is lost.
SendLost == script = "send" /\ Send /\ Throw /\ Fault /\ UNCHANGED claims

\* The claim takes effect and its answer is lost.
ClaimLost ==
  /\ script = "claim"
  /\ Credit(Least(todo))
  /\ Throw
  /\ Fault
  /\ UNCHANGED <<conf, age, reorgs>>

\* The SSP refuses a deposit that has lost its confirmations.
ClaimRefused ==
  /\ script = "claim"
  /\ conf[Least(todo)] < CONFIRMATIONS
  /\ Throw
  /\ NodeQuiet
  /\ UNCHANGED claims

\* The script is run again.
Rerun ==
  /\ script \in {"done", "failed"}
  /\ runs < MaxRuns
  /\ runs' = runs + 1
  /\ script' = "address"
  /\ deposits' = {} /\ pending' = {} /\ round' = {} /\ todo' = {}
  /\ NodeQuiet
  /\ UNCHANGED <<failed, claims>>

FundStep ==
  \/ DepositAddress \/ SendDeposit \/ Poll \/ Fetch \/ Claim \/ Status

FundEnvironment ==
  \/ PollFails \/ FundDies \/ SendLost \/ ClaimLost \/ ClaimRefused \/ Rerun

\* What a reorganisation does to deposits that are no longer pending.
NoteUndone ==
  undone' = undone \cup {t \in deposits \ pending :
    conf[t] >= CONFIRMATIONS /\ conf'[t] < CONFIRMATIONS}
=============================================================================
