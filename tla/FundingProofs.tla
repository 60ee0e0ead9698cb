--------------------------- MODULE FundingProofs ---------------------------
(***************************************************************************)
(* Proofs about Funding, for any ladder, any number of confirmations that  *)
(* are asked for, any depth of reorganisations and any number of runs of   *)
(* fund-ssp.mjs.                                                           *)
(***************************************************************************)
EXTENDS Funding, FiniteSetTheorems, WellFoundedInduction, TLAPS

ScriptPCs == {"address", "send", "poll", "fetch", "claim", "status", "done", "failed"}

(***************************************************************************)
(* Types, and the sets of the script.  While it waits no deposit has been  *)
(* claimed; while it claims none is pending.                               *)
(***************************************************************************)
TypeInv ==
  /\ conf \in [Txs -> Int]
  /\ script \in ScriptPCs
  /\ deposits \subseteq Txs
  /\ pending \subseteq deposits
  /\ round \subseteq deposits
  /\ todo \subseteq deposits
  /\ failed \in Nat
  /\ script = "poll" => todo = deposits /\ deposits # {}
  /\ script \in {"fetch", "claim"} => pending = {} /\ todo # {}

\* A deposit that has left `pending` is confirmed, or a reorganisation has
\* undone that since.
ConfirmedInv ==
  /\ script \in {"poll", "fetch", "claim"} =>
       \A t \in deposits \ pending : conf[t] >= CONFIRMATIONS \/ t \in undone
  /\ short \subseteq undone

\* What the wallet has sent.
Forgotten == Made \ (deposits \cup claimed)

AccountInv ==
  /\ IsFiniteSet(Made)
  /\ deposits \subseteq Made
  /\ Cardinality(deposits) <= Ladder
  /\ script \in {"address", "send"} => Cardinality(deposits) < Ladder
  /\ script \in {"fetch", "claim"} => deposits \ todo \subseteq claimed
  /\ script \in {"status", "done"} => deposits \subseteq claimed
  /\ script = "failed" => deposits = {}
  /\ Cardinality(Forgotten) <= failed * Ladder

FundingInv == TypeInv /\ ConfirmedInv /\ AccountInv

(***************************************************************************)
(* Operators of the model.                                                 *)
(***************************************************************************)
\* A set of txids that is not empty has a first one.
LEMMA LeastIn ==
  ASSUME NEW S, S \subseteq Nat, S # {}
  PROVE  Least(S) \in S
<1> DEFINE R == {p \in Nat \X Nat : p[1] < p[2]}
<1>1. IsWellFoundedOn(R, Nat)
  BY NatLessThanWellFounded DEF OpToRel
<1> HIDE DEF R
<1>2. PICK x \in S : \A y \in S : <<y, x>> \notin R
  BY <1>1, WFMin
<1>3. \A y \in S : x <= y
  <2> TAKE y \in S
  <2>1. x \in Nat /\ y \in Nat /\ <<y, x>> \notin R
    BY <1>2
  <2>2. y < x => <<y, x>> \in R
    BY <2>1 DEF R
  <2> QED BY <2>1, <2>2
<1> QED BY <1>3 DEF Least

\* A block adds confirmations, and takes none.
LEMMA BlockGrows ==
  ASSUME conf \in [Txs -> Int], NEW a, AddBlock(a)
  PROVE  /\ conf' \in [Txs -> Int]
         /\ \A t \in Txs : conf'[t] >= conf[t]
         /\ Made' = Made
<1>1. conf' = [t \in Txs |-> IF conf[t] \in 0 .. (Cap - 1) THEN conf[t] + 1 ELSE conf[t]]
  BY DEF AddBlock
<1>2. Cap \in Int
  BY ChainAssumption DEF Cap
<1> QED BY <1>1, <1>2 DEF Made, NotMade

\* A reorganisation puts transactions back, it does not take them out of the
\* wallet.
LEMMA ReorgKeeps ==
  ASSUME conf \in [Txs -> Int], NEW k \in 1 .. MaxDepth, Reorg(k)
  PROVE  conf' \in [Txs -> Int] /\ Made' = Made
<1>1. conf' = [t \in Txs |-> IF conf[t] < 0 THEN conf[t]
                             ELSE IF conf[t] > k THEN conf[t] - k ELSE 0]
  BY DEF Reorg
<1>2. k \in Int
  BY ChainAssumption
<1> QED BY <1>1, <1>2 DEF Made, NotMade

\* A transaction with a confirmation is not replaced.
LEMMA ConflictKeeps ==
  ASSUME conf \in [Txs -> Int], NEW t \in Txs, Conflict(t)
  PROVE  /\ conf' \in [Txs -> Int]
         /\ \A u \in Txs : conf[u] >= 1 => conf'[u] = conf[u]
         /\ Made' = Made
<1>1. conf[t] = 0 /\ conf' = [conf EXCEPT ![t] = -1]
  BY DEF Conflict, Conflicted
<1> QED BY <1>1 DEF Made, NotMade

\* sendtoaddress makes one transaction.
LEMMA SendMakes ==
  ASSUME conf \in [Txs -> Int], Send
  PROVE  /\ conf' \in [Txs -> Int]
         /\ \E t \in Txs \ Made : Made' = Made \cup {t}
<1>1. PICK t \in Txs \ Made : conf' = [conf EXCEPT ![t] = 0]
  BY DEF Send
<1>2. Made' = Made \cup {t}
  BY <1>1 DEF Made, NotMade
<1> QED BY <1>1, <1>2

\* The mining loop adds blocks to the chain and does nothing else to it.
LEMMA LoopChain ==
  LoopStep \/ LoopEnvironment => conf' = conf \/ \E a : AddBlock(a)
BY DEF LoopStep, LoopEnvironment, SyncDone, Address, Date, MinerDone, BlockCount,
       ConsolidateOwn, ConsolidateBalance, ConsolidateSend, Boot, Tick, MinerFails,
       CommandFails, ConsolidateFails, Outage, ManualBlock, Quiet

\* The steps by what they touch.
Elsewhere == /\ conf' = conf \/ (\E a : AddBlock(a))
             /\ UNCHANGED fundvars
Replacing == Replaced /\ UNCHANGED fundvars
Undoing == (\E k \in 1 .. MaxDepth : Reorg(k)) /\ NoteUndone
           /\ UNCHANGED <<scriptvars, claimed, short>>

LEMMA NextCases ==
  [Next]_vars => \/ Elsewhere \/ Replacing \/ Undoing
                 \/ FundStep \/ FundEnvironment
<1>1. CASE UNCHANGED vars
  BY <1>1 DEF vars, Elsewhere
<1>2. CASE (LoopStep \/ LoopEnvironment) /\ UNCHANGED fundvars
  BY <1>2, LoopChain DEF Elsewhere
<1>3. CASE Reorganise
  BY <1>3 DEF Reorganise, LoopReorg, Undoing
<1> QED BY <1>1, <1>2, <1>3 DEF Next, Replacing

(***************************************************************************)
(* Types.                                                                  *)
(***************************************************************************)
LEMMA TypeInit == Init => TypeInv
BY DEF Init, ChainInit, FundInit, TypeInv, ScriptPCs, NotMade

LEMMA TypeNext ==
  ASSUME TypeInv, [Next]_vars
  PROVE  TypeInv'
<1> USE DEF ScriptPCs, fundvars, scriptvars, claims
<1>1. conf \in [Txs -> Int] /\ Txs \subseteq Nat /\ deposits \subseteq Txs
  BY ChainAssumption DEF TypeInv
<1>2. CASE Elsewhere
  <2>1. conf' \in [Txs -> Int]
    BY <1>1, <1>2, BlockGrows DEF Elsewhere
  <2> QED BY <1>2, <2>1 DEF Elsewhere, TypeInv
<1>3. CASE Replacing
  <2>1. conf' \in [Txs -> Int]
    BY <1>1, <1>3, ConflictKeeps DEF Replacing, Replaced
  <2> QED BY <1>3, <2>1 DEF Replacing, TypeInv
<1>4. CASE Undoing
  <2>1. conf' \in [Txs -> Int]
    BY <1>1, <1>4, ReorgKeeps DEF Undoing
  <2> QED BY <1>4, <2>1 DEF Undoing, TypeInv
<1>5. CASE DepositAddress
  BY <1>5 DEF DepositAddress, At, NodeQuiet, TypeInv
<1>6. CASE SendDeposit
  <2>1. conf' \in [Txs -> Int] /\ \E t \in Txs \ Made : Made' = Made \cup {t}
    BY <1>1, <1>6, SendMakes DEF SendDeposit
  <2>2. PICK t \in Txs : t \notin Made /\ deposits' = deposits \cup {t}
    BY <1>6, <2>1 DEF SendDeposit
  <2>3. deposits' \subseteq Txs /\ deposits' # {} /\ deposits \subseteq deposits'
    BY <1>1, <2>2
  <2>4. \/ script' = "poll" /\ pending' = deposits' /\ round' = deposits'
           /\ todo' = deposits'
        \/ script' = "address" /\ UNCHANGED <<pending, round, todo>>
    BY <1>6 DEF SendDeposit
  <2>5. failed' = failed
    BY <1>6 DEF SendDeposit
  <2> QED BY <2>1, <2>3, <2>4, <2>5 DEF TypeInv
<1>7. CASE Poll
  <2>1. /\ script = "poll" /\ pending' \subseteq pending /\ round' \subseteq round \cup pending
        /\ script' = IF pending' = {} THEN "fetch" ELSE "poll"
        /\ UNCHANGED <<conf, deposits, todo, failed>>
    BY <1>7 DEF Poll, NodeQuiet
  <2> QED BY <2>1 DEF TypeInv
<1>8. CASE PollFails
  <2>1. /\ script = "poll" /\ round' \subseteq round \cup pending
        /\ UNCHANGED <<conf, script, deposits, pending, todo, failed>>
    BY <1>8 DEF PollFails
  <2> QED BY <2>1 DEF TypeInv
<1>9. CASE Fetch \/ Status
  BY <1>9 DEF Fetch, Status, At, NodeQuiet, TypeInv
<1>10. CASE Claim
  <2>1. /\ script = "claim" /\ todo' \subseteq todo
        /\ script' = IF todo' = {} THEN "status" ELSE "fetch"
        /\ UNCHANGED <<conf, deposits, pending, round, failed>>
    BY <1>10 DEF Claim, NodeQuiet
  <2> QED BY <2>1 DEF TypeInv
<1>11. CASE Throw
  <2>1. conf' \in [Txs -> Int] => TypeInv'
    BY <1>11 DEF Throw, TypeInv
  <2>2. FundEnvironment => conf' \in [Txs -> Int]
    BY <1>1, SendMakes DEF FundEnvironment, PollFails, FundDies, SendLost, ClaimLost,
       ClaimRefused, Rerun, NodeQuiet
  <2>3. ~FundStep
    BY <1>11 DEF Throw, FundStep, DepositAddress, SendDeposit, Poll, Fetch, Claim,
       Status, At
  <2> QED BY <1>2, <1>3, <1>4, <2>1, <2>2, <2>3, NextCases
<1>12. CASE Rerun
  BY <1>12 DEF Rerun, NodeQuiet, TypeInv
<1> QED BY <1>2, <1>3, <1>4, <1>5, <1>6, <1>7, <1>8, <1>9, <1>10, <1>11, <1>12,
           NextCases
        DEF FundStep, FundEnvironment, FundDies, SendLost, ClaimLost, ClaimRefused

(***************************************************************************)
(* Confirmations.                                                          *)
(***************************************************************************)
LEMMA ConfirmedNext ==
  ASSUME CONFIRMATIONS > 0, TypeInv, ConfirmedInv, [Next]_vars
  PROVE  ConfirmedInv'
<1> USE DEF fundvars, scriptvars, claims
<1>1. /\ conf \in [Txs -> Int] /\ Txs \subseteq Nat /\ deposits \subseteq Txs
      /\ CONFIRMATIONS \in Nat /\ CONFIRMATIONS >= 1
  BY ChainAssumption DEF TypeInv
<1>2. CASE Elsewhere
  <2>1. \A t \in Txs : conf'[t] >= conf[t] /\ conf'[t] \in Int /\ conf[t] \in Int
    BY <1>1, <1>2, BlockGrows DEF Elsewhere
  <2>2. \A t \in Txs : conf[t] >= CONFIRMATIONS => conf'[t] >= CONFIRMATIONS
    BY <1>1, <2>1
  <2> QED BY <1>1, <1>2, <2>2 DEF Elsewhere, ConfirmedInv
<1>3. CASE Replacing
  <2>1. \A t \in Txs : conf[t] >= 1 => conf'[t] = conf[t]
    BY <1>1, <1>3, ConflictKeeps DEF Replacing, Replaced
  <2>2. \A t \in Txs : conf[t] >= CONFIRMATIONS => conf'[t] >= CONFIRMATIONS
    BY <1>1, <2>1
  <2> QED BY <1>1, <1>3, <2>2 DEF Replacing, ConfirmedInv
<1>4. CASE Undoing
  <2>1. conf' \in [Txs -> Int]
    BY <1>1, <1>4, ReorgKeeps DEF Undoing
  <2>2. /\ undone \subseteq undone'
        /\ \A t \in deposits \ pending :
             conf[t] >= CONFIRMATIONS /\ conf'[t] < CONFIRMATIONS => t \in undone'
        /\ UNCHANGED <<script, deposits, pending, short>>
    BY <1>4 DEF Undoing, NoteUndone
  <2>3. \A t \in Txs : conf'[t] >= CONFIRMATIONS \/ conf'[t] < CONFIRMATIONS
    BY <1>1, <2>1
  <2> QED BY <1>1, <2>2, <2>3 DEF ConfirmedInv
<1>5. CASE DepositAddress \/ Fetch \/ Status
  BY <1>5 DEF DepositAddress, Fetch, Status, At, NodeQuiet, ConfirmedInv
<1>6. CASE SendDeposit
  <2>1. \/ script' = "poll" /\ pending' = deposits'
        \/ script' = "address"
    BY <1>6 DEF SendDeposit
  <2> QED BY <1>6, <2>1 DEF SendDeposit, ConfirmedInv
<1>7. CASE Poll
  <2>1. PICK t \in round : pending' = IF conf[t] >= CONFIRMATIONS THEN pending \ {t}
                                      ELSE pending
    BY <1>7 DEF Poll
  <2>2. script = "poll" /\ UNCHANGED <<conf, deposits, short, undone>>
    BY <1>7 DEF Poll, NodeQuiet
  <2> QED BY <2>1, <2>2 DEF ConfirmedInv
<1>8. CASE PollFails
  BY <1>8 DEF PollFails, ConfirmedInv
<1>9. CASE Claim \/ ClaimLost
  <2>1. script = "claim" /\ pending = {} /\ todo # {} /\ todo \subseteq deposits
    BY <1>9 DEF Claim, ClaimLost, TypeInv
  <2>2. Least(todo) \in deposits
    BY <1>1, <2>1, LeastIn
  <2>3. conf[Least(todo)] >= CONFIRMATIONS \/ Least(todo) \in undone
    BY <2>1, <2>2 DEF ConfirmedInv
  <2>4. Credit(Least(todo)) /\ conf' = conf
    BY <1>9 DEF Claim, ClaimLost, NodeQuiet
  <2>5. short' \subseteq undone' /\ undone' = undone
    <3>1. conf[Least(todo)] \in Int
      BY <1>1, <2>2
    <3>2. short' \in {short, short \cup {Least(todo)}} /\ undone' = undone
      BY <2>4 DEF Credit
    <3>3. short \subseteq undone
      BY DEF ConfirmedInv
    <3>4. CASE Least(todo) \in undone
      BY <3>2, <3>3, <3>4
    <3>5. CASE conf[Least(todo)] >= CONFIRMATIONS
      <4>1. ~(conf[Least(todo)] < CONFIRMATIONS)
        BY <1>1, <3>1, <3>5
      <4> QED BY <2>4, <3>3, <4>1 DEF Credit
    <3> QED BY <2>3, <3>4, <3>5
  <2>6. \/ deposits' = {}
        \/ UNCHANGED <<deposits, pending>>
    BY <1>9 DEF Claim, ClaimLost, Throw
  <2> QED BY <2>1, <2>4, <2>5, <2>6 DEF ConfirmedInv
<1>10. CASE FundDies \/ SendLost \/ ClaimRefused \/ Rerun
  <2>1. deposits' = {} /\ UNCHANGED <<short, undone>>
    BY <1>10 DEF FundDies, SendLost, ClaimRefused, Rerun, Throw
  <2> QED BY <2>1 DEF ConfirmedInv
<1> QED BY <1>2, <1>3, <1>4, <1>5, <1>6, <1>7, <1>8, <1>9, <1>10, NextCases
        DEF FundStep, FundEnvironment

(***************************************************************************)
(* Accounts.                                                               *)
(***************************************************************************)
\* A run that ends in an exception forgets no more than its ladder.
LEMMA ForgottenBound ==
  ASSUME AccountInv, TypeInv, NEW X, IsFiniteSet(X), Cardinality(X) <= Ladder,
         NEW Y, Y \subseteq Forgotten \cup X
  PROVE  Cardinality(Y) <= (failed + 1) * Ladder
<1>1. /\ IsFiniteSet(Forgotten) /\ Cardinality(Forgotten) \in Nat
      /\ Cardinality(X) \in Nat
  <2>1. IsFiniteSet(Forgotten)
    BY FS_Subset DEF AccountInv, Forgotten
  <2> QED BY <2>1, FS_CardinalityType
<1>2. /\ IsFiniteSet(Forgotten \cup X)
      /\ Cardinality(Forgotten \cup X) <= Cardinality(Forgotten) + Cardinality(X)
  <2>1. IsFiniteSet(Forgotten \cap X)
    BY <1>1, FS_Subset
  <2>2. Cardinality(Forgotten \cap X) \in Nat
    BY <2>1, FS_CardinalityType
  <2>3. Cardinality(Forgotten \cup X) =
          Cardinality(Forgotten) + Cardinality(X) - Cardinality(Forgotten \cap X)
    BY <1>1, FS_Union
  <2>4. IsFiniteSet(Forgotten \cup X)
    BY <1>1, FS_Union
  <2> QED BY <1>1, <2>2, <2>3, <2>4
<1>3. /\ Cardinality(Y) <= Cardinality(Forgotten \cup X)
      /\ Cardinality(Y) \in Nat /\ Cardinality(Forgotten \cup X) \in Nat
  <2>1. IsFiniteSet(Y) /\ Cardinality(Y) <= Cardinality(Forgotten \cup X)
    BY <1>2, FS_Subset
  <2> QED BY <1>2, <2>1, FS_CardinalityType
<1>4. failed \in Nat /\ Ladder \in Nat
  BY LadderAssumption DEF TypeInv
<1>5. Cardinality(Forgotten) <= failed * Ladder
  BY DEF AccountInv
<1>6. failed * Ladder \in Nat /\ (failed + 1) * Ladder = failed * Ladder + Ladder
  BY <1>4
<1> QED BY <1>1, <1>2, <1>3, <1>4, <1>5, <1>6

LEMMA AccountInit == Init => AccountInv
<1> SUFFICES ASSUME Init PROVE AccountInv
  OBVIOUS
<1>1. Made = {} /\ deposits = {} /\ script = "address" /\ failed = 0
  BY DEF Init, ChainInit, FundInit, Made
<1>2. Forgotten = {}
  BY <1>1 DEF Forgotten
<1> QED BY <1>1, <1>2, FS_EmptySet, LadderAssumption DEF AccountInv

\* A step that keeps the transactions, the list and the number of failures.
LEMMA AccountKept ==
  ASSUME AccountInv, Made' = Made, UNCHANGED <<deposits, claimed, failed>>,
         \/ UNCHANGED <<script, todo>>
         \/ script = "address" /\ script' = "send"
         \/ script = "fetch" /\ script' = "claim" /\ UNCHANGED todo
         \/ script = "status" /\ script' = "done"
         \/ script = "poll" /\ script' \in {"poll", "fetch"}
             /\ todo' = deposits
  PROVE  AccountInv'
<1>1. Forgotten' = Forgotten
  BY DEF Forgotten
<1> QED BY <1>1 DEF AccountInv

LEMMA AccountNext ==
  ASSUME TypeInv, AccountInv, [Next]_vars
  PROVE  AccountInv'
<1> USE DEF fundvars, scriptvars, claims
<1>1. /\ conf \in [Txs -> Int] /\ Txs \subseteq Nat /\ deposits \subseteq Txs
      /\ failed \in Nat /\ Ladder \in Nat
  BY ChainAssumption, LadderAssumption DEF TypeInv
<1>2. /\ IsFiniteSet(Made) /\ deposits \subseteq Made /\ IsFiniteSet(deposits)
      /\ Cardinality(deposits) \in Nat
  <2>1. IsFiniteSet(Made) /\ deposits \subseteq Made
    BY DEF AccountInv
  <2>2. IsFiniteSet(deposits)
    BY <2>1, FS_Subset
  <2> QED BY <2>1, <2>2, FS_CardinalityType
<1>3. conf' = conf => Made' = Made
  BY DEF Made
<1>4. CASE Elsewhere \/ Replacing \/ Undoing
  <2>1. Made' = Made
    BY <1>1, <1>3, <1>4, BlockGrows, ConflictKeeps, ReorgKeeps
       DEF Elsewhere, Replacing, Replaced, Undoing
  <2> QED BY <1>4, <2>1, AccountKept DEF Elsewhere, Replacing, Undoing
<1>5. CASE DepositAddress \/ Fetch \/ Status \/ PollFails
  BY <1>3, <1>5, AccountKept
     DEF DepositAddress, Fetch, Status, PollFails, At, NodeQuiet
<1>6. CASE Poll
  <2>1. /\ script = "poll" /\ script' \in {"poll", "fetch"}
        /\ UNCHANGED <<conf, deposits, todo, claimed, failed>>
    BY <1>6 DEF Poll, NodeQuiet
  <2>2. todo = deposits
    BY <2>1 DEF TypeInv
  <2> QED BY <1>3, <2>1, <2>2, AccountKept
<1>7. CASE SendDeposit
  <2>1. PICK t \in Txs \ Made : Made' = Made \cup {t}
    BY <1>1, <1>7, SendMakes DEF SendDeposit
  <2>2. deposits' = deposits \cup {t} /\ UNCHANGED <<claimed, failed>>
    BY <1>7, <2>1 DEF SendDeposit
  <2>3. IsFiniteSet(Made') /\ deposits' \subseteq Made'
    BY <1>2, <2>1, <2>2, FS_AddElement
  <2>4. Cardinality(deposits') = Cardinality(deposits) + 1
    BY <1>2, <2>1, <2>2, FS_AddElement
  <2>5. Cardinality(deposits) < Ladder
    BY <1>7 DEF SendDeposit, AccountInv
  <2>6. \/ script' = "poll"
        \/ script' = "address" /\ Cardinality(deposits') # Ladder
    BY <1>7 DEF SendDeposit
  <2>7. Cardinality(deposits') <= Ladder /\ (script' = "address" => Cardinality(deposits') < Ladder)
    BY <1>1, <1>2, <2>4, <2>5, <2>6
  <2>8. Cardinality(Forgotten') <= failed' * Ladder
    <3>1. Forgotten' \subseteq Forgotten
      BY <2>1, <2>2 DEF Forgotten
    <3>2. IsFiniteSet(Forgotten)
      BY <1>2, FS_Subset DEF Forgotten
    <3>3. IsFiniteSet(Forgotten') /\ Cardinality(Forgotten') <= Cardinality(Forgotten)
      BY <3>1, <3>2, FS_Subset
    <3>4. Cardinality(Forgotten') \in Nat /\ Cardinality(Forgotten) \in Nat
      BY <3>2, <3>3, FS_CardinalityType
    <3>5. failed * Ladder \in Nat /\ Cardinality(Forgotten) <= failed * Ladder
      BY <1>1 DEF AccountInv
    <3> QED BY <2>2, <3>3, <3>4, <3>5
  <2> QED BY <2>3, <2>6, <2>7, <2>8 DEF AccountInv
<1>8. CASE Claim
  <2>1. /\ script = "claim" /\ claimed' = claimed \cup {Least(todo)}
        /\ todo' = todo \ {Least(todo)}
        /\ script' = IF todo' = {} THEN "status" ELSE "fetch"
        /\ UNCHANGED <<conf, deposits, failed>>
    BY <1>8 DEF Claim, Credit, NodeQuiet
  <2>2. deposits \ todo' \subseteq claimed'
    BY <2>1 DEF AccountInv
  <2>3. Cardinality(Forgotten') <= failed' * Ladder
    <3>1. Forgotten' \subseteq Forgotten
      BY <1>3, <2>1 DEF Forgotten
    <3>2. IsFiniteSet(Forgotten)
      BY <1>2, FS_Subset DEF Forgotten
    <3>3. IsFiniteSet(Forgotten') /\ Cardinality(Forgotten') <= Cardinality(Forgotten)
      BY <3>1, <3>2, FS_Subset
    <3>4. Cardinality(Forgotten') \in Nat /\ Cardinality(Forgotten) \in Nat
      BY <3>2, <3>3, FS_CardinalityType
    <3>5. failed * Ladder \in Nat /\ Cardinality(Forgotten) <= failed * Ladder
      BY <1>1 DEF AccountInv
    <3> QED BY <2>1, <3>3, <3>4, <3>5
  <2>4. Made' = Made
    BY <1>3, <2>1
  <2> QED BY <2>1, <2>2, <2>3, <2>4 DEF AccountInv
<1>9. CASE FundDies \/ ClaimLost \/ ClaimRefused
  <2>1. /\ script' = "failed" /\ deposits' = {} /\ failed' = failed + 1
        /\ claimed \subseteq claimed' /\ conf' = conf
    BY <1>9 DEF FundDies, ClaimLost, ClaimRefused, Throw, Credit, NodeQuiet
  <2>2. Forgotten' \subseteq Forgotten \cup deposits
    BY <1>3, <2>1 DEF Forgotten
  <2>3. Cardinality(Forgotten') <= (failed + 1) * Ladder
    BY <1>2, <2>2, ForgottenBound DEF AccountInv
  <2> QED BY <1>1, <1>2, <1>3, <2>1, <2>3, FS_EmptySet DEF AccountInv
<1>10. CASE SendLost
  <2>1. PICK t \in Txs \ Made : Made' = Made \cup {t}
    BY <1>1, <1>10, SendMakes DEF SendLost
  <2>2. /\ script' = "failed" /\ deposits' = {} /\ failed' = failed + 1
        /\ claimed' = claimed /\ script = "send"
    BY <1>10 DEF SendLost, Throw
  <2>3. Forgotten' \subseteq Forgotten \cup (deposits \cup {t})
    BY <2>1, <2>2 DEF Forgotten
  <2>4. IsFiniteSet(deposits \cup {t}) /\ Cardinality(deposits \cup {t}) <= Ladder
    <3>1. Cardinality(deposits) < Ladder
      BY <2>2 DEF AccountInv
    <3>2. t \notin deposits
      BY <1>2
    <3>3. /\ IsFiniteSet(deposits \cup {t})
          /\ Cardinality(deposits \cup {t}) = Cardinality(deposits) + 1
      BY <1>2, <3>2, FS_AddElement
    <3> QED BY <1>1, <1>2, <3>1, <3>3
  <2>5. Cardinality(Forgotten') <= (failed + 1) * Ladder
    BY <2>3, <2>4, ForgottenBound
  <2>6. IsFiniteSet(Made')
    BY <1>2, <2>1, FS_AddElement
  <2> QED BY <1>1, <2>2, <2>5, <2>6, FS_EmptySet DEF AccountInv
<1>11. CASE Rerun
  <2>1. /\ script \in {"done", "failed"} /\ script' = "address" /\ deposits' = {}
        /\ UNCHANGED <<conf, claimed, failed>>
    BY <1>11 DEF Rerun, NodeQuiet
  <2>2. Forgotten' = Forgotten
    BY <1>3, <2>1 DEF AccountInv, Forgotten
  <2> QED BY <1>1, <1>3, <2>1, <2>2, FS_EmptySet, LadderAssumption DEF AccountInv
<1> QED BY <1>4, <1>5, <1>6, <1>7, <1>8, <1>9, <1>10, <1>11, NextCases
        DEF FundStep, FundEnvironment

(***************************************************************************)
(* The theorems.                                                           *)
(***************************************************************************)
\* fund-ssp.mjs that asks for at least one confirmation claims a deposit with
\* too few only where a reorganisation undid it after it had left `pending`.
\* (With FUND_CONFS=0 a deposit leaves `pending` unconfirmed and may then be
\* replaced.)
THEOREM ClaimsAreConfirmed ==
  ASSUME CONFIRMATIONS > 0
  PROVE  Spec => []ClaimsConfirmed
<1>1. Init => TypeInv /\ ConfirmedInv
  BY TypeInit DEF Init, FundInit, ConfirmedInv
<1>2. TypeInv /\ ConfirmedInv /\ [Next]_vars => (TypeInv /\ ConfirmedInv)'
  BY TypeNext, ConfirmedNext
<1>3. ConfirmedInv => ClaimsConfirmed
  BY DEF ConfirmedInv, ClaimsConfirmed
<1> QED BY <1>1, <1>2, <1>3, PTL DEF Spec

\* Every transaction that the wallet sent is credited, is in the list of the
\* run in progress, or was lost with a run that ended in an exception, and of
\* these there are no more than a ladder for each such run.
THEOREM DepositsAreAccounted == Spec => []DepositsAccounted
<1>1. Init => TypeInv /\ AccountInv
  BY TypeInit, AccountInit
<1>2. TypeInv /\ AccountInv /\ [Next]_vars => (TypeInv /\ AccountInv)'
  BY TypeNext, AccountNext
<1>3. AccountInv => DepositsAccounted
  BY DEF AccountInv, DepositsAccounted, Forgotten
<1> QED BY <1>1, <1>2, <1>3, PTL DEF Spec
============================================================================
