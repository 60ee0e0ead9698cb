----------------------------- MODULE SignetBlock ----------------------------
(***************************************************************************)
(* How a block is put together: src/miner get_reward_addr_spk,             *)
(* generate_psbt, signet_txs, decode_psbt and finish_block, around the     *)
(* wallet that signs (external), one block after the other, and for tests  *)
(* src/miner_imports/test_framework/blocktools.py create_coinbase,         *)
(* create_block and add_witness_commitment.  The objects of messages.py    *)
(* keep the hash that was computed last: `sha` is that cache.              *)
(*                                                                         *)
(* Hashes are symbolic: the hash of x is x without its caches.             *)
(***************************************************************************)
EXTENDS Integers, Sequences, SequencesExt, FiniteSets

CONSTANTS
  WINDOW,      \* addresses that are derived ahead (20)
  MaxTxs,      \* bound: transactions of a block besides the coinbase
  MaxHeight,   \* bound: height of a template
  MaxRounds    \* bound: blocks made one after the other

ASSUME BlockAssumption == {WINDOW, MaxTxs, MaxHeight, MaxRounds} \subseteq Nat

VARIABLES
  stage,    \* which step of the path is done
  template, \* what the block is made from
  block,
  psbt,     \* generate_psbt's result, then with the wallet's signature
  args,     \* the arguments --address and --descriptor, and what is kept with them
  rounds    \* templates so far

blockvars == <<stage, template, block, psbt, args, rounds>>

None == [none |-> TRUE]
Zero == [zero |-> TRUE]      \* uint256 0

----------------------------------------------------------------------------
(* CTransaction: outputs are sequences of pushes; what else a transaction  *)
(* has is `rest`.                                                          *)

TxId(tx) == [rest |-> tx.rest, vout |-> tx.vout]
\* calc_sha256(with_witness=True) is not cached.
WtxId(tx) == IF tx.wit = <<>> THEN TxId(tx) ELSE [rest |-> tx.rest, vout |-> tx.vout, wit |-> tx.wit]
\* Serialized and read again.
Fresh(tx) == [tx EXCEPT !.sha = None]
rehash(tx) == [tx EXCEPT !.sha = TxId(tx)]
calc_sha256(tx) == IF tx.sha = None THEN rehash(tx) ELSE tx

----------------------------------------------------------------------------
(* CBlock *)

\* get_merkle_root: the last hash of an odd row is paired with itself.
RECURSIVE get_merkle_root(_)
get_merkle_root(hashes) ==
  IF Len(hashes) = 1 THEN hashes[1]
  ELSE get_merkle_root([i \in 1 .. (Len(hashes) + 1) \div 2 |->
         [l |-> hashes[2 * i - 1],
          r |-> hashes[IF 2 * i <= Len(hashes) THEN 2 * i ELSE Len(hashes)]]])

Each(op(_), q) == [i \in 1 .. Len(q) |-> op(q[i])]
ShaOf(tx) == tx.sha

\* calc_merkle_root fills the caches that are empty and uses the ones that are not.
Hashed(b) == [b EXCEPT !.vtx = Each(calc_sha256, b.vtx)]
MerkleRoot(b) == get_merkle_root(Each(ShaOf, Hashed(b).vtx))
WithRoot(b) == [Hashed(b) EXCEPT !.root = MerkleRoot(b)]

calc_witness_merkle_root(b) == get_merkle_root(<<Zero>> \o Each(WtxId, Tail(b.vtx)))

\* CBlockHeader: the fields that are hashed; nonce is "solved" when the hash of
\* the others with it meets the target.
Header(b) == [root |-> b.root, time |-> b.time, nonce |-> b.nonce]
RehashHeader(b) == [b EXCEPT !.sha = Header(b)]
HeaderHash(b) == IF b.sha = None THEN RehashHeader(b) ELSE b

\* solve
solve(b) ==
  RehashHeader([b EXCEPT !.nonce = [for |-> [root |-> b.root, time |-> b.time, nonce |-> None]]])
Solved(b) == b.nonce = [for |-> [root |-> b.root, time |-> b.time, nonce |-> None]]

\* get_witness_script: OP_RETURN and the commitment.
Commitment(root) == [commits |-> root]
get_witness_script(root) == <<Commitment(root)>>

NewBlock(vtx, time) == [vtx |-> vtx, time |-> time, root |-> Zero, nonce |-> None, sha |-> None]

----------------------------------------------------------------------------
(* The miner's path. *)

\* get_reward_addr_spk.  A ranged descriptor has an address for each height
\* (external: deriveaddresses), number 0 is the one of --address or of a
\* descriptor without a range; the script of an address is that it pays it.
Address(n) == [address |-> n]
Spk(address) == [pays |-> address]
Ranged(a) == a.address = None /\ a.ranged
\* Addresses below the window are dropped, the ones at and above derived.
Derived(a, height) ==
  LET kept == {h \in a.derived : h + WINDOW > height}
  IN IF height \in kept THEN kept ELSE kept \cup height .. height + WINDOW
get_reward_addr_spk(a, height) ==
  IF a.reward_spk # None THEN a
  ELSE IF Ranged(a) THEN [a EXCEPT !.derived = Derived(a, height)]
  ELSE [a EXCEPT !.address = Address(0), !.reward_spk = Spk(Address(0))]
RewardSpk(a, height) == IF a.reward_spk # None THEN a.reward_spk ELSE Spk(Address(height))

SIGNET_HEADER == [signet |-> TRUE]
Later(a, b) == IF a < b THEN b ELSE a

\* vout[-1].scriptPubKey += encode_op_pushdata(data)
PushLast(tx, data) == [tx EXCEPT !.vout[Len(tx.vout)] = Append(@, data)]

\* Mutant: the copy of the coinbase keeps the hash that it was copied with.
signet_txs_Stale(b) ==
  LET txs == [b.vtx EXCEPT ![1] = PushLast(@, SIGNET_HEADER)]
      mroot == get_merkle_root(Each(ShaOf, Each(calc_sha256, txs)))
  IN [spends |-> [root |-> mroot, time |-> b.time]]

\* signet_txs: every hash is computed anew, of a copy of the coinbase.  The
\* transaction to sign spends one that commits to the version, the previous
\* block, this merkle root and the time.
signet_txs(b) ==
  LET txs == [b.vtx EXCEPT ![1] = PushLast(@, SIGNET_HEADER)]
      mroot == get_merkle_root(Each(ShaOf, Each(rehash, txs)))
  IN [spends |-> [root |-> mroot, time |-> b.time]]

Coinbase(reward) == rehash([rest |-> [coinbase |-> TRUE], vout |-> <<<<reward>>>>, wit |-> <<>>, sha |-> None])

\* calc_witness_merkle_root comes before the coinbase has its witness and its
\* second output; the block is serialized into the PSBT.
generate_psbt(t, reward_spk) ==
  LET time == Later(t.blocktime, t.mintime)
      b0 == NewBlock(<<Coinbase(reward_spk)>> \o t.txs, time)
      witroot == calc_witness_merkle_root(b0)
      b1 == [b0 EXCEPT !.vtx[1].wit = <<Zero>>, !.vtx[1].vout = Append(@, get_witness_script(witroot))]
  IN [tx |-> signet_txs(b1), block |-> [b1 EXCEPT !.vtx = Each(Fresh, @)], final |-> None]

\* decode_psbt: the block, and the solution of scriptSig and witness.
DecodedBlock(p) == [p.block EXCEPT !.vtx = Each(Fresh, @)]
Solution(p) == p.final

\* finish_block, with block.solve() or with grind_cmd, of which only the nonce
\* is taken.
finish_block(b, solution, grind) ==
  LET b1 == [b EXCEPT !.vtx[1] = rehash(PushLast(@, [signet |-> solution]))]
      b2 == WithRoot(b1)
      ground == RehashHeader([b2 EXCEPT !.nonce = solve(b2).nonce])
  IN IF grind THEN ground ELSE solve(b2)

----------------------------------------------------------------------------
(* A test's path. *)

\* create_coinbase, create_block: hashes are cached.
create_block(t) ==
  HeaderHash(WithRoot(NewBlock(<<calc_sha256([Coinbase(Spk(None)) EXCEPT !.sha = None])>> \o t.txs, t.blocktime)))

\* add_witness_commitment
add_witness_commitment(b) ==
  LET witroot == calc_witness_merkle_root(b)
      b1 == [b EXCEPT !.vtx[1].wit = <<Zero>>, !.vtx[1].vout = Append(@, get_witness_script(witroot))]
  IN RehashHeader(WithRoot([b1 EXCEPT !.vtx[1] = rehash(@)]))

----------------------------------------------------------------------------
(* Steps. *)

SomeTxs == UNION {[1 .. n -> {[rest |-> [id |-> i], vout |-> <<<<>>>>, wit |-> w, sha |-> None] :
                              i \in 1 .. 2, w \in {<<>>, <<[w |-> 1]>>}}] : n \in 0 .. MaxTxs}

BlockInit ==
  /\ stage = "start"
  /\ template = None
  /\ block = None
  /\ psbt = None
  /\ args = None
  /\ rounds = 0

\* The command line: --address, or --descriptor with or without a range.
Start ==
  /\ stage = "start" /\ args = None
  /\ \E address \in {None, Address(0)}, ranged \in BOOLEAN :
       args' = [address |-> address, ranged |-> ranged, derived |-> {}, reward_spk |-> None]
  /\ UNCHANGED <<stage, template, block, psbt, rounds>>

\* getblocktemplate (external)
GetTemplate ==
  /\ stage \in {"start", "finished"} /\ args # None
  /\ rounds < MaxRounds
  /\ \E txs \in SomeTxs, t \in 0 .. 1, h \in 1 .. MaxHeight :
       template' = [txs |-> txs, blocktime |-> t, mintime |-> 1, height |-> h]
  /\ stage' \in {"template", "test"}
  /\ block' = None
  /\ psbt' = None
  /\ rounds' = rounds + 1
  /\ UNCHANGED args

GenPsbt ==
  /\ stage = "template"
  /\ args' = get_reward_addr_spk(args, template.height)
  /\ psbt' = generate_psbt(template, RewardSpk(args', template.height))
  /\ stage' = "psbt"
  /\ UNCHANGED <<template, block, rounds>>

\* walletprocesspsbt (external): a signature of what the transaction spends.
Sign ==
  /\ stage = "psbt"
  /\ psbt' = [psbt EXCEPT !.final = [signs |-> psbt.tx.spends]]
  /\ stage' = "signed"
  /\ UNCHANGED <<template, block, args, rounds>>

SolvePsbt ==
  /\ stage = "signed"
  /\ \E grind \in BOOLEAN : block' = finish_block(DecodedBlock(psbt), Solution(psbt), grind)
  /\ stage' = "finished"
  /\ UNCHANGED <<template, psbt, args, rounds>>

CreateBlock ==
  /\ stage = "test"
  /\ block' = create_block(template)
  /\ stage' = "created"
  /\ UNCHANGED <<template, psbt, args, rounds>>

AddCommitment ==
  /\ stage = "created"
  /\ block' = add_witness_commitment(block)
  /\ stage' = "committed"
  /\ UNCHANGED <<template, psbt, args, rounds>>

\* A block without witnesses needs no commitment.
SolveTest ==
  /\ \/ stage = "committed"
     \/ stage = "created" /\ \A i \in DOMAIN template.txs : template.txs[i].wit = <<>>
  /\ block' = solve(block)
  /\ stage' = "tested"
  /\ UNCHANGED <<template, psbt, args, rounds>>

BlockNext == Start \/ GetTemplate \/ GenPsbt \/ Sign \/ SolvePsbt \/ CreateBlock \/ AddCommitment \/ SolveTest

----------------------------------------------------------------------------
(* What a node checks (external): BIP141 and BIP325. *)

Anew(b) == get_merkle_root(Each(TxId, b.vtx))
LastOut(b) == b.vtx[1].vout[Len(b.vtx[1].vout)]
HasCommitment(b) == \E i \in DOMAIN LastOut(b) : LastOut(b)[i] = Commitment(calc_witness_merkle_root(b))
\* The solution is cut down to its header before the merkle root is computed.
Unsigned(b) == [b EXCEPT !.vtx[1].vout[Len(b.vtx[1].vout)] =
                  [i \in 1 .. Len(@) |-> IF "signet" \in DOMAIN @[i] THEN SIGNET_HEADER ELSE @[i]]]

\* Finished: the nonce is one for the header, and the cached hash, by which the
\* block is announced, is the hash of that header.
SolvedAsHashed(b) == Solved(b) /\ b.sha = Header(b)

\* The block that the miner submits is one a signet node accepts: its header
\* has the merkle root of its transactions as they are, its coinbase commits to
\* their witnesses, and its signature is one of the merkle root of the block
\* without the signature, although the coinbase changes three times on the way
\* and each object may hold an old hash.  The coinbase pays the address of the
\* template's height, whatever heights came before, and of the descriptor's
\* addresses only a window is kept.  The blocks that tests make have the root,
\* and the commitment if they need one.
BlocksValid ==
  /\ stage \in {"finished", "tested"} => block.root = Anew(block) /\ SolvedAsHashed(block)
  /\ stage = "finished" =>
       /\ HasCommitment(block)
       /\ Last(LastOut(block)) = [signet |-> [signs |-> [root |-> Anew(Unsigned(block)), time |-> block.time]]]
       /\ block.time >= template.mintime
       /\ block.vtx[1].vout[1] = <<Spk(Address(IF Ranged(args) THEN template.height ELSE 0))>>
       /\ \A h \in args.derived : h > template.height - WINDOW
  /\ stage = "tested" =>
       HasCommitment(block) \/ \A i \in DOMAIN block.vtx : block.vtx[i].wit = <<>>
=============================================================================
