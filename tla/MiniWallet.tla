----------------------------- MODULE MiniWallet -----------------------------
(***************************************************************************)
(* src/miner_imports/test_framework/wallet.py: MiniWallet keeps a list of  *)
(* the coins of one script beside the node's own books (external: a chain, *)
(* a mempool), and looks at the node only in rescan_utxos.  Callers take   *)
(* coins with or without marking them as spent, make transactions, send    *)
(* them late, more than once, against each other or not at all, while the  *)
(* node's chain moves.                                                     *)
(***************************************************************************)
EXTENDS Integers, Sequences, SequencesExt, FiniteSets

CONSTANTS
  COINBASE_MATURITY,
  SUBSIDY,         \* value of a coinbase
  MaxBlocks,       \* bound: blocks on top of the first ones
  MaxIds           \* bound: transactions and coinbases of the wallet that are made

ASSUME WalletAssumption == {COINBASE_MATURITY, SUBSIDY, MaxBlocks, MaxIds} \subseteq Nat

VARIABLES
  chain,     \* node: blocks, each with its coinbase (0: not to the wallet) and transactions
  pool,      \* node: the mempool, parents first
  utxos,     \* MiniWallet._utxos
  held,      \* coins that a caller was given
  made,      \* transactions that a caller has and may send
  nextid,    \* names for coinbases and transactions
  fresh,     \* ghost: since the last rescan no block was undone, no transaction was
             \* sent again and none replaced another
  refused    \* ghost: a fresh wallet's own choice of coin was refused

walletvars == <<chain, pool, utxos, held, made, nextid, fresh, refused>>

----------------------------------------------------------------------------
(* The node. *)

\* What a chain leaves unspent, as the coins that _create_utxo makes of it.
Coin(txid, vout, value, height, coinbase, confirmations) ==
  [txid |-> txid, vout |-> vout, value |-> value, height |-> height, coinbase |-> coinbase,
   confirmations |-> confirmations]
Outpoint(c) == <<c.txid, c.vout>>
Ins(txs) == UNION {ToSet(txs[i].ins) : i \in DOMAIN txs}
\* The outputs of tx that pay to the wallet's script.
Outs(tx, height, confirmations) ==
  [v \in 1 .. tx.ours |-> Coin(tx.id, v, tx.each, height, FALSE, confirmations)]

InChain == UNION {Ins(chain[h].txs) : h \in DOMAIN chain}
Height == Len(chain)
CoinsAt(h) ==
  (IF chain[h].coinbase = 0 THEN {} ELSE {Coin(chain[h].coinbase, 1, SUBSIDY, h, TRUE, Height - h + 1)})
  \cup UNION {ToSet(Outs(chain[h].txs[i], h, Height - h + 1)) : i \in DOMAIN chain[h].txs}
Confirmed == {c \in UNION {CoinsAt(h) : h \in DOMAIN chain} : Outpoint(c) \notin InChain}
Unconfirmed == UNION {ToSet(Outs(pool[i], 0, 0)) : i \in DOMAIN pool}
\* Coins that no transaction of the chain or the mempool spends.
Available == {c \in Confirmed \cup Unconfirmed : Outpoint(c) \notin Ins(pool)}

\* A coinbase may be spent in the next block if that is COINBASE_MATURITY above it.
NodeMature(c) == ~c.coinbase \/ Height + 1 - c.height >= COINBASE_MATURITY
There == {Outpoint(c) : c \in {d \in Confirmed : NodeMature(d)}}

\* The transactions of q, in order, whose inputs are there.
RECURSIVE Valid(_, _, _)
Valid(q, there, out) ==
  IF q = <<>> THEN out
  ELSE IF ToSet(Head(q).ins) \subseteq there
  THEN Valid(Tail(q), (there \ ToSet(Head(q).ins)) \cup {Outpoint(c) : c \in ToSet(Outs(Head(q), 0, 0))}, Append(out, Head(q)))
  ELSE Valid(Tail(q), there, out)

\* What is left of the mempool when tx comes: every transaction is made with
\* sequence=0, so one that spends the same coin goes, with its descendants, if
\* tx pays more than all that go.
Kept(tx) == Valid(SelectSeq(pool, LAMBDA t : ToSet(t.ins) \cap ToSet(tx.ins) = {}), There, <<>>)
Evicted(tx) == ToSet(pool) \ ToSet(Kept(tx))
Known(tx) == tx \in ToSet(pool)
Accepts(tx) ==
  /\ Valid(Append(Kept(tx), tx), There, <<>>) = Append(Kept(tx), tx)
  /\ Evicted(tx) # {} => tx.fee > MapThenSumSet(LAMBDA t : t.fee, Evicted(tx))

----------------------------------------------------------------------------
(* MiniWallet's list. *)

\* The sort of get_utxo, with the largest value last, then the smallest height.
Before(a, b) == a.value < b.value \/ (a.value = b.value /\ a.height > b.height)
Sorted(q) == SortSeq(q, Before)

\* Mutant: coins that the transaction spends stay in the list.
scan_tx_KeepsSpent(q, tx) == q \o Outs(tx, 0, 0)

\* scan_tx: coins that the transaction spends go, if they are in the list, and
\* its own outputs are added.
scan_tx(q, tx) ==
  FoldLeft(LAMBDA w, in : RemoveFirstMatch(Sorted(w), LAMBDA c : Outpoint(c) = in), q, tx.ins) \o Outs(tx, 0, 0)

\* rescan_utxos(include_mempool=True)
ByOutpoint(a, b) == a.txid < b.txid \/ (a.txid = b.txid /\ a.vout < b.vout)
rescan_utxos(confirmed, p) == FoldLeft(scan_tx, SetToSortSeq(confirmed, ByOutpoint), p)

\* get_utxo without a txid: the last of the sorted list that is mature, by the
\* wallet's own rule and the heights in its list.
Mature(c) == ~c.coinbase \/ COINBASE_MATURITY - 1 <= Height - c.height
Usable(q, confirmed_only) == SelectSeq(Sorted(q), LAMBDA c : Mature(c) /\ (confirmed_only => c.confirmations > 0))
Choice(q, confirmed_only) ==
  LET usable == Usable(q, confirmed_only) IN IF usable = <<>> THEN {} ELSE {Last(usable)}
Popped(q, coin) == RemoveFirst(Sorted(q), coin)

----------------------------------------------------------------------------
(* Steps. *)

WalletInit ==
  /\ chain = [h \in 1 .. COINBASE_MATURITY + 1 |-> [coinbase |-> h, txs |-> <<>>]]
  /\ pool = <<>>
  /\ utxos = rescan_utxos(Confirmed, <<>>)
  /\ held = {}
  /\ made = {}
  /\ nextid = COINBASE_MATURITY + 2
  /\ fresh = TRUE
  /\ refused = FALSE

\* Bounds: names; blocks; coins listed, as each sending adds to them.
CanName == nextid < COINBASE_MATURITY + 2 + MaxIds
CanGrow == Len(chain) < COINBASE_MATURITY + 1 + MaxBlocks
MaxListed == COINBASE_MATURITY + 2 + MaxIds

\* get_utxo, by the caller: of a txid and vout, mature or not.  What is taken when
\* no transaction can be named any more is of no use: such steps, and what callers
\* hold then, are left out.
GetUtxo ==
  /\ CanName /\ held = {}
  /\ \E coin \in ToSet(utxos), mark \in BOOLEAN :
       /\ held' = {coin}
       /\ utxos' = IF mark THEN Popped(utxos, coin) ELSE Sorted(utxos)
  /\ UNCHANGED <<chain, pool, made, nextid, fresh, refused>>

\* get_utxos: all, or all that are mature or confirmed; marked, the others are
\* gone too.
GetUtxos ==
  /\ CanName /\ held = {} /\ utxos # <<>>
  /\ \E mark, immature, confirmed_only \in BOOLEAN :
       /\ held' = {c \in ToSet(utxos) : (immature \/ Mature(c)) /\ (confirmed_only => c.confirmations > 0)}
       /\ utxos' = IF mark THEN <<>> ELSE utxos
  /\ UNCHANGED <<chain, pool, made, nextid, fresh, refused>>

\* create_self_transfer_multi: n outputs of equal value, after a fee of 1 each;
\* what does not divide is added to the fee.
NewTx(coin, n) ==
  LET each == (coin.value - n) \div n
  IN  [id |-> nextid, ins |-> <<Outpoint(coin)>>, ours |-> n, each |-> each, fee |-> coin.value - each * n]

\* create_self_transfer, create_self_transfer_multi: of a coin the caller has,
\* or of get_utxo's choice.  The caller gets the new coins before they are sent,
\* and may spend them.
CreateTransfer ==
  /\ CanName
  /\ nextid' = nextid + 1
  /\ \E n \in 1 .. 2, confirmed_only, chained \in BOOLEAN :
       \E coin \in held \cup Choice(utxos, confirmed_only) :
         LET tx == NewTx(coin, n) IN
         /\ tx.each > 0
         /\ made' = made \cup {tx}
         /\ held' = IF CanName' THEN (held \ {coin}) \cup (IF chained THEN ToSet(Outs(tx, 0, 0)) ELSE {}) ELSE {}
         /\ utxos' = IF coin \in held THEN utxos ELSE Popped(utxos, coin)
  /\ UNCHANGED <<chain, pool, fresh, refused>>

\* The value does not cover the fee: an error, when the coin has left the list.
CreateFails ==
  /\ CanName
  /\ \E n \in 1 .. 2, confirmed_only \in BOOLEAN : \E coin \in Choice(utxos, confirmed_only) :
       NewTx(coin, n).each <= 0 /\ utxos' = Popped(utxos, coin)
  /\ UNCHANGED <<chain, pool, held, made, nextid, fresh, refused>>

\* sendrawtransaction of the wallet: the node takes the transaction, which may
\* cost others their place; then scan_tx.
Send ==
  \E tx \in made :
    /\ ~Known(tx) /\ Accepts(tx)
    /\ pool' = Append(Kept(tx), tx)
    /\ utxos' = scan_tx(utxos, tx)
    /\ Len(utxos') <= MaxListed
    /\ fresh' = (fresh /\ Evicted(tx) = {})
    /\ UNCHANGED <<chain, held, made, nextid, refused>>

\* The transaction is in the mempool already: the node says nothing, and
\* scan_tx adds its outputs once more.
SendAgain ==
  \E tx \in made :
    /\ Known(tx)
    /\ utxos' = scan_tx(utxos, tx)
    /\ Len(utxos') <= MaxListed
    /\ fresh' = FALSE
    /\ UNCHANGED <<chain, pool, held, made, nextid, refused>>

\* The node raises an error (it is confirmed, a coin is missing or immature, or
\* it pays too little for those it would replace); the coins are not given back,
\* and the caller gives it up.
SendFails ==
  \E tx \in made :
    /\ ~Known(tx) /\ ~Accepts(tx)
    /\ made' = made \ {tx}
    /\ UNCHANGED <<chain, pool, utxos, held, nextid, fresh, refused>>

\* send_self_transfer: get_utxo, create and send in one call.
SendSelfTransfer ==
  /\ CanName
  /\ \E coin \in Choice(utxos, FALSE) :
       LET tx == NewTx(coin, 1) IN
       /\ tx.each > 0
       /\ IF Accepts(tx)
          THEN /\ pool' = Append(Kept(tx), tx)
               /\ utxos' = scan_tx(Popped(utxos, coin), tx)
               /\ made' = made \cup {tx}
               /\ fresh' = (fresh /\ Evicted(tx) = {})
               /\ UNCHANGED refused
          ELSE /\ utxos' = Popped(utxos, coin)
               /\ refused' = (refused \/ fresh)
               /\ UNCHANGED <<pool, made, fresh>>
  /\ nextid' = nextid + 1
  /\ UNCHANGED <<chain, held>>

\* A block with the mempool and a coinbase to the wallet or not.
Block(coinbase) == chain' = Append(chain, [coinbase |-> coinbase, txs |-> pool]) /\ pool' = <<>>

\* generate: one block to the wallet, then rescan_utxos.
Generate ==
  /\ CanGrow /\ CanName
  /\ Block(nextid)
  /\ nextid' = nextid + 1
  /\ utxos' = rescan_utxos(Confirmed', <<>>)
  /\ fresh' = TRUE
  /\ UNCHANGED <<held, made, refused>>

\* Somebody else's block: no coin of the wallet's is spent, gained or lost.
OtherBlock ==
  /\ CanGrow
  /\ Block(0)
  /\ UNCHANGED <<utxos, held, made, nextid, fresh, refused>>

\* invalidateblock: the tip's transactions return to the mempool if they can.
Reorg ==
  /\ Len(chain) > COINBASE_MATURITY + 1
  /\ chain' = Front(chain)
  /\ pool' = Valid(Last(chain).txs \o pool, There', <<>>)
  /\ fresh' = FALSE
  /\ UNCHANGED <<utxos, held, made, nextid, refused>>

Rescan ==
  /\ ~fresh
  /\ utxos' = rescan_utxos(Confirmed, pool)
  /\ fresh' = TRUE
  /\ UNCHANGED <<chain, pool, held, made, nextid, refused>>

WalletNext ==
  GetUtxo \/ GetUtxos \/ CreateTransfer \/ CreateFails \/ Send \/ SendAgain \/ SendFails \/ SendSelfTransfer \/ Generate \/ OtherBlock \/ Reorg \/ Rescan

----------------------------------------------------------------------------
\* The wallet lists each coin once and none that the node counts as spent or does
\* not know, whatever its callers took, made, kept, sent late or left unsent; and
\* a transaction of its own choice of coin is not refused: the wallet judges
\* maturity, from the heights of its list, as the node does for the next block.
\* Three events undo this, and rescan_utxos, alone or in generate, restores it:
\* a block is undone, a transaction is sent again, one replaces another ("re-orgs",
\* "rbf'd": wallet.py, generate).
WalletCoinsSpendable ==
  /\ fresh =>
       /\ \A i, j \in DOMAIN utxos : Outpoint(utxos[i]) = Outpoint(utxos[j]) => i = j
       /\ {Outpoint(c) : c \in ToSet(utxos)} \subseteq {Outpoint(c) : c \in Available}
  /\ ~refused
=============================================================================
