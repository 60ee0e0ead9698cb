# A TLA+ model of MutinyNet's own code

MutinyNet is a custom Bitcoin signet and the services around it. Most of the
repository configures other people's programs; what it adds is a block miner
for signet (`src/miner`), the scripts that bring up and supervise the node
that mines, the rendezvous of two Spark operators, the funding of a service,
and some host jobs. The miner is written on a copy of Bitcoin Core's Python
test framework (`src/miner_imports/test_framework`), the larger part of the
repository's Python. This directory models the parts that keep state, can be
interrupted, or compute something that is easy to get wrong.

## Inventory

| Part | State | Operations | Interacts with | What is hard |
|---|---|---|---|---|
| `miner generate` (`class Generate`, `do_generate`) | `bestheader`, `mined_blocks`, `mine_time`, the template | poll, schedule, sleep, `getblocktemplate`, sign, grind, `submitblock` | bitcoind over RPC, other miners through the chain | another block or a reorganisation between any two RPCs; the clock moves meanwhile; calls fail, also after they took effect; slots of dead miners |
| block construction (`generate_psbt`, `signet_txs`, `decode_psbt`, `finish_block`) | none | a block PSBT out of a template, a solved block out of a signed PSBT | wallet, grinder | what the signature commits to and what may change after it |
| compact targets, durations, `calc_nversion.py` | none | pure functions | | rounding at the sign bit, carries |
| reward address cache (`get_reward_addr_spk`) | `derived_addresses`, `reward_spk` | derive, cache, expire | bitcoind | heights that go back |
| container start (`docker-entrypoint.sh`, `install.sh`, `migrate.sh`, `setup-signet.sh`, `gen-signet-keys.sh`, `import-*.sh`) | marker files, `PRIVKEY.txt`, `SIGNETCHALLENGE.txt`, `bitcoin.conf`, wallets | install, migrate, configure | bitcoind, Docker | a kill between any two commands; commands that fail and are not noticed |
| supervision (`run.sh`, `ensure-miner-wallet.sh`) | bitcoind's PID, wallets, `mine.sh` | wait for RPC, make the wallet, start the loop, wait, shut down | bitcoind, Docker's signals | signals in every phase, bitcoind's death in every phase |
| mining loop (`mine.sh`, `wait_chain_sync.sh`, `consolidate_utxos.sh`, `purge-tip.sh`) | none of its own | wait for a recent tip, one `miner` call per block, consolidate | miner, bitcoind | an outage longer than the age limit, failing calls under `set -e` |
| Spark operators (`spark-entrypoint.sh`, `keygen.py`) | identity, TLS pair, `operators.json`, databases | make or check identity, publish, rotate TLS, rendezvous, serve | each other through a shared volume | half-written files, crashes, timeouts and restarts on both sides |
| `reset-spark.sh` | volumes, databases | stop, drop, clear, up | operators | interruption between two volumes |
| `fund-ssp.mjs` | list of deposits, in memory | send, wait for confirmations, claim | bitcoind, SSP | crash in the middle, reorganisations, transactions that never confirm |
| messages, PSBTs (`messages.py`, `psbt.py`) | objects, cached hashes | serialize, deserialize, rehash | node, miner | boundaries of lengths, missing witnesses, hashes of what an object was before |
| peer connections (`p2p.py`, `v2_p2p.py`) | receive buffer, handshake and ciphers, `last_message` | handshake, callbacks, sends, waits | node; a network thread and a test thread | any fragmentation, two threads on one cipher, waits that old messages satisfy |
| scripts, signature hashes (`script.py`) | none | build and read scripts, sign | | boundaries of pushes and numbers; what a signature covers |
| keys (`key.py`, `crypto/secp256k1.py`, `crypto/ellswift.py`) | none | ECDSA, Schnorr, tweaks, taproot, ElligatorSwift | | parity, half the order, points with several or no encodings |
| packet ciphers (`crypto/chacha20.py`, `crypto/bip324_cipher.py`) | key, packet counter, block counter, left-over keystream | encrypt, decrypt, rekey | the other end | the packet at which both ends rekey |
| `MiniWallet` (`wallet.py`) | list of coins | take, create, send, generate, rescan | node | the list and the node's coins drift apart |
| `host/`, `nginx/`, Dockerfiles, `docker-compose.yml`, `audit-spark.sh`, `gen-bitcoind-conf.sh`, `rpcauth.py` | | configuration, one-shot jobs | | |

For each part, what makes it correct:

- **Miners**: no block is refused for its timestamp; nobody takes another
  miner's slot before its delay has passed, on the parent the block really
  has; times follow the deterministic schedule; forks come from real races
  only; the chain grows although processes die.
- **Container**: a miner that runs can sign for the challenge of its node; a
  volume stays on one network; bitcoind's end ends the container, and a stop
  lets it flush.
- **Operators**: both come up; each knows the other's present identity and
  trusts the certificate the other serves; interrupted rotations neither serve
  nor back up a mixed pair.
- **Funding and mining loop**: mining goes on after a failing miner, an outage
  or a reorganisation; every deposit that was sent is claimed, or its loss has
  a failed run to answer for it; only confirmed deposits are claimed.
- **Blocks**: the block that is submitted has the merkle root, the witness
  commitment, the solution and the reward script of what it contains.
- **Messages, scripts, signatures, keys, ciphers**: what is written is what is
  read; a signature holds exactly while what it covers is unchanged; what one
  end makes verifies or decrypts at the other; no keystream is used twice.
- **Peers**: a test that is not cut passes, and what its waits promise is true
  when they return.

## Modules

- **Generate** has the pure operators of `class Generate` with the command
  lines as the constant `Args`: `retarget_factor`, `next_block_delta`,
  `next_block_is_mine`, and the two branches of `next_block_time` that depend
  on the chain (`DueTime`, `PatientTime`). What the code reads from a block
  hash is a pair of fields (`rand`, `var`) that a block gets nondeterministically.
  `-log1p(-x)` is a multiple of `1/VarUnit`.
- **SignetMiner** is `do_generate` for any set of processes around one node.
  One action per RPC or reading of the clock: `Start`, `Poll`, `ScheduleDue`,
  `ScheduleSleep`, `Gbt`, `GbtTooEarly`, `GbtMismatch`, `Mine`, `SignFails`,
  `Submit`, `RpcError`. `best` is both the best hash and `bestheader`, which the
  code fetches by that hash whenever they differ. The node is external: `blocks` with the timestamps of
  the median window, `tip`, `invalid`, `AcceptBlock`, `mintime`, `Reorg`. A
  block keeps, for the properties only, who made it, when its schedule was
  computed, when it was stored, and whether it was its miner's first.
- **BlockSchedule** is the abstract specification: a tree of blocks to which a
  miner adds a block in one step, at the right time and in its turn.
  A miner joins when it does not run, and adds blocks only while it runs.
  `SignetMiner!ImplementsSchedule` is the refinement, with the stored blocks,
  the running processes and the miners that have not mined yet as the mapping.
- **MCSignetMiner** has the two command-line sets used by the runs.
- **SignetMinerProofs** has SignetMiner's inductive invariant and the theorems
  that follow from it; **MinerTurnProofs** and **MinerScheduleProofs** build on
  it. **ContainerProofs**, **SparkProofs**, **FundingProofs**, **PeerProofs** and
  **CipherProofs** are about MinerContainer, SparkOperators, Funding, Peer and
  PacketCipher.
- **MinerContainer** is one bitcoind container from `docker-entrypoint.sh` to
  the end of `run.sh`, one action per command that changes state; the
  environment and the kind of volume are chosen in `Init`. `Crash`,
  `DaemonDies` and `MineDies` are the deaths; `GenPrivkeyFails` is a
  `gen-signet-keys.sh` whose regtest bitcoind is late, dies or is not stopped
  (`regtest`); `MigrateStop` has the sleep that is too short. `Stop`,
  `Shutdown` and `GraceOver` are a docker stop, the trap, which waits while
  `ensure-miner-wallet.sh` is in the foreground, and the kill at the end of the
  grace period, whatever runs then. `torn`, `early`, `slow`, `unclean` and `net`
  are history.
- **WalletChain** is what a wallet sees of a chain: confirmations per
  transaction, the age of the tip, reorganisations, conflicts (external).
  **MineLoop** is `mine.sh` with the two scripts it calls, **FundSsp** is
  `fund-ssp.mjs`, **Funding** composes them: blocks of the loop confirm what the
  script waits for. A call that fails either had its effect or not
  (`SendLost`, `ClaimLost`, `FundDies`).
- **EncryptedP2PState** has the methods of that class as operators on its
  state; a cipher is its position, so a packet decrypts only at its own number.
  **P2PConnection** is the network thread's byte handling, **P2PInterface** the
  callbacks, **Peer** adds the test thread (`send_blocks_and_test`,
  `send_txs_and_test`, reconnection), the socket and the node (external). Bytes
  arrive one symbol or more at a time.
- **SignetBlock** is block construction, with hashes as terms and every cache of
  a hash as a field of its own: a cache is stale when its term is not that of
  the object. The PSBT goes through `signet_txs`, `SolvePsbt` and
  `finish_block`; `get_reward_addr_spk` runs inside, over several rounds of one
  process with the heights of reorganised chains. `create_block`,
  `add_witness_commitment` and `solve` are the tests' way.
- **WireFormat** gives every class two layouts, from its `serialize` and its
  `deserialize`, and one reader and writer for layouts; **MessageRelay** sends
  samples of every message on, over several hops.
- **Script**, **Sighash**, **Curve**, **Keys**, **PacketCipher**,
  **MiniWallet**, **CompactTarget** model the files their headers name.
  **MCBlockTools** instantiates these parts for TLC; they share no state and
  a behaviour is one of them.
- **SparkOperators** is both operators' `spark-entrypoint.sh` and
  `reset-spark.sh`. A file is absent, empty (created by a redirection or by `cp`
  and not yet written) or holds a number; redirections and copies take two
  steps, `mv` one. `ResetStopFails` and `ResetDropFails` are the commands of the
  reset that fail; a container that it could not stop runs on over volumes that
  are being emptied, and ends at the first file it misses (`Lacks`). `lost` and
  `racing` are history: halves of an old certificate pair whose copy was cut,
  and whether the last reset left a container running.

## Runs

| Run | Question |
|---|---|
| `miners` | Two `--ongoing` miners with half the slots each: types, timestamps, patience, schedule, forks, survival, and refinement of BlockSchedule. |
| `faults` | The same, for a standby miner beside one started again and again with `--set-block-time` whose calls fail, with a reorganisation. |
| `live` | Under a fair host the chain reaches its bound. |
| `gbt_retry` (violation) | `gbt` says it retries; the process dies of a NameError. |
| `container` | Signing key, network, shutdown, exit and recovery for every environment. |
| `wallet_key` (violation) | `ensure-miner-wallet.sh` says it makes sure of the key; it does not look. |
| `spark` | Identities, certificates, backups and liveness of the two operators. |
| `spark_same` (violation) | The operators do not always build the same `operators.json`. |
| `spark_key` (violation) | An empty key file passes for a complete identity. |
| `funding` | Where deposits can end up, when mining stops for good, when the script waits for ever, what may be claimed unconfirmed. |
| `peer` | Errors, waits, left-over messages and termination of a test's connection, for v1 and v2, both directions and the reconnection after a refused v2. |
| `tools` | Ten questions about the parts of MCBlockTools, one for each of its properties. |

What the properties of the last five passing runs say:

- `MinerCanSign`, `StopFlushes` and `Recovers` name what the scripts do not
  catch: a wallet that was made and a death before its key was imported, a
  `gen-signet-keys.sh` that got no key, a grace period that ends before
  `ensure-miner-wallet.sh` or the flush does, a migration cut before its mark,
  a dead `mine.sh`, a regtest bitcoind that nobody stopped.
- `NoForeignPeer` excepts a reset that could not stop a container;
  `TlsPairServed` holds after such a reset too. `BackupIsLegacyPair` excepts the
  half of the old pair that `cp` was copying when it was killed: never the other
  half, and never by overwriting.

- `ClaimsConfirmed`, `DepositsAccounted`, `MiningGoesOn`, `FundingEnds` are
  exact: each names the only circumstances in which the script misses the aim.
  `MiningGoesOn` has two: a command that fails outside every `||` (a call of
  `bitcoin-cli`, or the `sleep` of a malformed `BLOCKPRODUCTIONDELAY.txt`), and
  a container that starts with a tip older than `MAX_AGE`, when the loop waits
  for a block only it would make.
- `NoFalseAlarm`, `SyncMeansProcessed`, `OfferArrives`, `NothingLeftBehind`,
  `TestPasses` hold apart from the four behaviours listed below, which the
  model records in `quirks` when they happen.
- `SentOnUnchanged`: a message read and sent on is the same bytes, up to the
  witnesses that a `no_witness` message drops and with the same txids.
  `CompactRebuilds`: the prefilled transactions of a compact block that came
  over the wire lie at their places in the block, and the short ids fill the
  gaps in order (the request for missing transactions and its answer are sent
  on like any message; what they select is not checked). `BlocksValid`: finished blocks are ones a node
  accepts, with the reward script of their height. `ScriptReadsBack`: items,
  numbers, sigop counts and the removal of separators. `SignaturesHold`: a
  signature message is unchanged exactly when the fields its kind and hash type
  cover are: of the transaction, of the outputs spent, and for taproot of the
  annex, the path, the leaf and the last separator; separators in the script of
  a legacy input do not count. `SignaturesVerify`: ECDSA, and Schnorr under a
  tweaked key that only the public side computed, verify; every leaf of a
  taproot output can spend it. `EllswiftAgrees`: two ends that exchange
  encodings, whatever `u` and case each chose, get the same secret. `KeystreamOnce`: no two
  keystream blocks of one key and nonce, and both ends stay in step.
  `WalletCoinsSpendable`: a list without repetition, of coins that the node has
  unspent; the wallet's choice, made by its own rule of maturity, is never
  refused by the node's. Three events void this until the next rescan: a block
  is undone, a transaction is sent again, one replaces another. `TargetRounding`: rounding
  upwards by less than a unit, with the sign bit's exception.

**Bounds.** Times are scaled: an interval of two ticks, a margin of one and a
future limit of two keep the order of the code's 600 s, 6900 s and 7200 s
relative to each other as far as the guards compare them, and make it possible
for the chain to run ahead of the clock. Three blocks of two miners give a
first (backdated) block, a start-up block out of turn, and blocks in turn; a
median window of three (two in `faults`) lets it both grow and slide. The difficulty changes at height two. `MaxHeight`
stops `Poll`, `MaxClock` stops `Tick`; processes may then wait for ever, so the
miner runs do not check deadlock. One reorganisation suffices to separate a
polled header from the tip without a new block. The container runs have three
deaths and two stops, the Spark run one crash or interruption and one reset,
which reaches every window between two writes together with what a reset
leaves behind; a container that a reset does not stop counts as that
interruption. A key that is not made and a daemon that outlasts its sleep count as
deaths of the container run. Containers that serve stay as they are, so these runs do not
check deadlock either.

`funding` has two deposits a run and two runs, one reorganisation of depth one
below two confirmations, and two faults: enough for a deposit to lose its
confirmations after it was counted, and for a run to fail before and after a
call took effect. `MAX_AGE = 0` makes a tip old after one tick without a block.
`peer` has keys of three symbols of which two can be those of a v1 message,
garbage of up to one, three blocks and headers in batches of two, so that a
second `getheaders` is needed. `tools`: bytes of eight values make 5, 6 and 7 the
marks of a compact size and lengths 4 to 8 the boundary; a script's byte has 32
values and pushes change form at 5 and 32; the curve y^2 = x^3 + 7 over 43
elements has prime order 31, small enough for all ECDSA nonces and for every encoding
of the four secrets used, the first and the last among them (the two ends of an
exchange take `u` and `-u`, and opposite cases, rather than all pairs);
three packets between rekeyings and seven packets pass two of them; a cache
window of two addresses over heights up to four expires and goes back; the
wallet makes two transactions and one block above its first three, of which not
all are mature, and a list grows to `MaxListed` by repeated sending; each change
to a signed transaction is made once; digits of base 4 stand for hexadecimal ones. These three runs
end at their bounds and do not check deadlock; `TestPasses` and `FundingEnds` are
what would notice a stop that matters.

**Fairness.** `live`: the host schedules every process that can take a step,
every miner is started once, and the clock advances; nothing is assumed of
failing calls, reorganisations or restarts. `container` and `spark`: a script
that can take its next step takes it, bitcoind starts up and stops when told,
Docker restarts a container that has ended (`restart: always`) and kills one
that outlives its grace period, a reset that has begun is seen through. `funding`: both scripts run, Docker restarts a container, and
`wait_chain_sync.sh`, which looks every 30 seconds, does not for ever miss the
two hours in which a tip is recent (strong fairness of `SyncDone`). Blocks by
hand and reorganisations are not assumed. `peer`: as long as anything can go on,
something does; no step can be repeated for ever. Faults
are never fair. The Spark rendezvous may time out whenever the files are not
all there.

## Proofs

The theorems hold for every value of the constants that satisfies the named
assumptions of the modules. Each one is `Spec => []P` for a property `P` that a
run checks, except `MinersKeepSchedule`, which is the refinement. Every
inductive invariant was an invariant of the run first.

| Theorem | Property | Module |
|---|---|---|
| `TypeCorrect` | `TypeOK` | SignetMinerProofs |
| `TimestampsAccepted` | `NoTimestampReject` | SignetMinerProofs |
| `BackupsArePatient` | `BackupPatience` | MinerTurnProofs |
| `LastMinerSurvives` | `SomeMinerSurvives` | MinerTurnProofs |
| `ForksAreRaces` | `ForksOnlyInRace` | MinerTurnProofs |
| `ScheduleKept` | `OnSchedule` | MinerScheduleProofs |
| `MinersKeepSchedule` | `ImplementsSchedule` | MinerScheduleProofs |
| `NetworkKept` | `SameNetwork` | ContainerProofs |
| `MinersSign` | `MinerCanSign` | ContainerProofs |
| `StopsFlush` | `StopFlushes` | ContainerProofs |
| `PeersAreCurrent` | `NoForeignPeer` | SparkProofs |
| `TlsPairsMatch` | `TlsPairServed` | SparkProofs |
| `BackupKept` | `BackupIsLegacyPair` | SparkProofs |
| `ClaimsAreConfirmed` | `ClaimsConfirmed` | FundingProofs |
| `DepositsAreAccounted` | `DepositsAccounted` | FundingProofs |
| `NothingStays` | `NothingLeftBehind` | PeerProofs |
| `PongMeansProcessed` | `SyncMeansProcessed` | PeerProofs |
| `NoByteTwice` | `KeystreamOnce` | CipherProofs |

### The miners

`NoTimestampReject` speaks of the moment of submission; it is decided earlier.
The inductive invariant `IndInv` therefore says what holds at each stage of a
process: a process in `schedule` or later has a header (`PolledInv`), one in
`gbt` has a `mineTime` at most `FutureMargin` ahead of the `now` it was computed
at, which is at most the clock (`PlannedInv`), one in `mine` or `submit` has in addition a
time of at least the template's `mintime` (`TemplateInv`). `WindowInv` says
that every stored block has a non-empty window, with no time beyond the
consensus limit, which makes `Median` a member of it (`MedianIsATime`, from `LeastNat`) and `mintime` a number.
Appending a block changes neither the window of an older block nor, so, the
`mintime` of a pending template. The constants' assumptions used are that the
margin is within the consensus limit, that the clock starts late enough for the backdated
first block, and that command-line numbers are naturals.

`BackupPatience` speaks of stored blocks and of the parent they have; it is
decided in `ScheduleDue`, on the block that was polled. `PatienceInv` adds to it
`PatientPlan`, the same claim about a process that has planned and not yet
submitted, with the shift of `mined` at `Gbt` (a first block has `mined = 0`
before and 1 after), and that parents are stored blocks, so that a new block
changes nothing that is said of an old one. `IndInv` gives the step from the
polled block to the parent: the template of a process in `submit` is on it.

`SomeMinerSurvives` is not inductive, since the survivor may have polled a block
that is no longer the tip. `SurvivorInv` says that, while nothing has
reorganised, some process is not dead and, if it is in `schedule` or `gbt`,
holds the tip. Only `Submit` moves the tip then, and it leaves its process at
the head of the loop, where the header is read afresh, or ended some other way.

`ForksOnlyInRace` compares two stored blocks; what decides it is the moment of
the second template. `ForkInv` has `RaceInv`: while a process holds a template,
every valid child of the template's parent was stored after the process made
its plan. `Gbt` establishes it because its template is on the tip, and the tip
is a leaf: it is a highest valid block (`TipInv`), and a child is one higher
than its parent (`HeightInv`). What is stored later is stored after the plan,
since no plan is later than the clock (`StoredInv`).

`OnSchedule` needs to know that `gbt` does not raise a time to `mintime`.
`RisingTimes` says that without `--set-block-time` no time in the window of a
block is later than the block, so its median is not; `DuePlan` says that the
`mineTime` of a process is the due time on the polled block, or was raised.

`MinersKeepSchedule` maps each action: `Start` to `Join`, `Submit` of a block
that is stored to `Produce`, ends and lost first blocks to `GiveUp`, everything
else to a stutter. In `Produce` the time is right by `DuePlan` and the turn by
`PatientPlan`, both about the block that was polled; `IndInv` carries them to
the parent.

### The container

`PhaseInv` says which marks on the volume go with which stage of PID 1, and
that past the wait for RPC nothing starts bitcoind again. `NetInv` then ties
the challenge of the configuration to the file it is generated from, which
changes only while `install.sh` runs, before anything was served. For
`MinerCanSign` a key is followed from its file to the wallet: `KeyInv` (the
challenge's key is in `PRIVKEY.txt` from the step that writes the challenge on,
although a repeated install appends to it), `InstallInv` and `ImportInv` (a
wallet that is complete holds the key once its import is over), `LoadInv`,
`ServeInv`. All of them are void for the two exceptions of the property, of
which a key that was not made is forgotten when the install is repeated and
makes one. `StopInv` says that a signal that was not early is pending in the last
part of `run.sh`, or has left no bitcoind that is up: what the grace period can
still kill is a pending trap's bitcoind or one that is being flushed.

### The operators

`KeyInv`, `PubInv` and `ReadInv` follow an identity from the home volume to the
shared one and from there into a peer's `operators.json`. The peer's copy does
not go stale because an identity changes only in a reset, and a reset stops
both operators first (`StoppedInv`), unless it is `racing`; in between it empties one volume before
the other, so `PubInv` claims nothing while it is at work. The whole of it is
void after a reset that left a container running, until the next one that does
not. `CertInv` states, for each stage
of `ensure_tls_cert`, which of the four files can be of different pairs:
between the two `mv` the certificate is still absent or the CA-marked one, so
that the next start repeats the rotation. `OldCertInv` and `OldKeyInv` say what
there is of either half of the CA-marked pair: where a new pair is made both
halves have been copied, or a kill has cut the copy. `LegacyInv` adds that a
CA-marked certificate has its own key until that is kept aside. None of these
needs the containers to be stopped during a reset.

### Funding

`ConfirmedInv`: a deposit that has left `pending` has its confirmations, or a
reorganisation undid them since. `ClaimsAreConfirmed` assumes `CONFIRMATIONS >
0`: with `FUND_CONFS=0` a deposit leaves `pending` while it is unconfirmed, and
may then be replaced by a conflict, which is no reorganisation. The default is
3. `AccountInv` counts: the deposits that are neither in the list nor credited
number at most a ladder for each failed run; the list is a ladder at most and is
forgotten as a whole.

### Peers

`IdleInv` says that between two callbacks the buffer begins with no whole
message (`NothingWhole`), for v1 by its magic and length, for v2 by the length
symbol of the packet that comes next, unless one of the two quirks that the
property excepts has happened. It has to say more than the property: a length
that has been read is remembered in `contents_len`, not in the buffer.
`CallbackInv` keeps the callbacks of the handshake apart from those after it.
The lemmas before it say what each method of EncryptedP2PState leaves of its
state.

`SyncMeansProcessed` speaks of the moment when `sync_with_ping` returns; what it
returns on is a pong that was sent long before. `SyncInv` follows the nonce
through everything that is under way (`WireInv`): no ping that is held, queued
or in the socket has a nonce larger than `ping_counter`, one that has it was
built in this sync, and its number is at least that of the last message sent
before it; no pong in the socket, in `recvbuf` or in `last_message` has it unless
the node has read that far. A ping becomes a pong only in the node's step, which
reads the message with the number of its counter, and that is the step in which
the first half of the claim turns into the second. The claims are about a stage
(`Stage`: nonce, whether the ping is built, the mark, the node's counter), and
`AllLater` carries them to a later stage at once for every buffer. `EndInv` and
`TestInv` say the rest: the node begins anew after a refused v2 connection only
while the mark is 0, and only the sending steps of the test thread hold bytes.

### Packet ciphers

`KeystreamOnce` compares the bytes of key stream that were spent so far. The
inductive invariant of CipherProofs says which they are, for each epoch between
two rekeyings: the length cipher has spent a prefix of its stream and made its
next key of what comes behind, the contents cipher a prefix of the stream of
each nonce. It speaks of the state of the ciphers in every earlier epoch, which
no variable holds; the states are a function whose existence is asserted and to
which each rekeying adds a value. That the length and the contents cipher never
share a key is an invariant of its own. The receiver is the sender some packets
ago.

### What is only model-checked

Liveness (`ChainGrows`, `NoSilentContainer`, `Recovers`, `BothServe`,
`MiningGoesOn`, `FundingEnds`, `TestPasses`): fairness is out of the prover's
reach. What recursive operators compute on data: the properties of
MessageRelay, SignetBlock, Script, Keys and MiniWallet, whose
modules declare `RECURSIVE` operators. `NoFalseAlarm` and
`OfferArrives` of the peers need an invariant that says of every place in every
buffer which symbol is there; no proof of them is complete. `TargetRounding` folds over
the digits of a target, an induction over data. `SignaturesHold` is about a
finite table of signature types, which TLC goes through.

## Findings

1. `src/miner:312`: the warning of `gbt` names `bci`, which is not defined in that method.
   The miner that sees another miner's block at the wrong moment ends instead
   of retrying. `SomeMinerSurvives` and `ChainGrows` show that a group of
   `--ongoing` miners goes on without it.
2. `src/spark-entrypoint.sh:73`: publication truncates a file that the peer
   only tests for existence.
3. `src/spark-entrypoint.sh:62`: an empty `operator_N.key` counts as complete.
4. `src/ensure-miner-wallet.sh:9`: a wallet that exists is taken to hold the
   key.

Modelled as they are, with the properties stating the exception:

- `src/miner:201`: `target_to_nbits` rounds the mantissa up after the check that
  avoids a negative one (`src/miner:198`); 0x7fffff and a rest become 0x800000.
- `src/wait_chain_sync.sh:5` ignores its argument, against the message of
  `src/mine.sh:13`; after a long outage nobody mines.
- `v2_p2p.py:143` (`prefix`): `respond_v2_handshake` reports all it has ever read
  as consumed, so bytes of a later fragment are cut off unread;
  `p2p.py:267` (`downgrade`): the bytes it read are lost when it decides for v1;
  `p2p.py:263` (`key`): after an answer without garbage the next fragment makes
  another key pair; `p2p.py:330` (`decoy`): `_on_data` returns at a decoy and
  leaves the messages behind it until more bytes come.
- `wallet.py`: a coin that was taken is not given back when the transaction is
  refused or the fee is not covered; a transaction that is sent again has its
  outputs listed twice, and one that was replaced stays in the list, until the
  next rescan.
- `src/spark-entrypoint.sh:129`: a kill inside `cp` leaves a partial
  `.legacy-ca` file that every later rotation takes for the copy.
- `src/reset-spark.sh:55`: after a stop that failed, a container may publish the
  identity from before the reset, and its peer may keep it in `operators.json`.
- `src/gen-signet-keys.sh:34`: a regtest bitcoind that is not up after five
  seconds leaves no key and an empty challenge, and the install is marked as
  done; one that was not stopped is waited for at `src/docker-entrypoint.sh:12`.
- `src/run.sh:33`: a stop signal waits for `ensure-miner-wallet.sh`, and the
  grace period does not.
- `src/miner:492`: `calibrate` divides by the mantissa of its target, and a zero
  one ends it with an error.
- `src/consolidate_utxos.sh:22`: the balance is read before it is sent.

Seen while reading and not checked by a run: `src/miner:387` fails with
`--set-block-time` and no `--nbits`; `src/miner:250` says one hour where the
default is 1800 s; an `--nbits` of size below 3 gives a float that `"{0:x}"`
refuses; `src/setup-signet.sh:8` reads `PRIV_KEY`, which nothing sets;
`sign_ecdsa` leaves `s = ORDER_HALF` while `verify_ecdsa` refuses it, and draws
no new nonce for `r = 0` or `s = 0`; `GE` has no `__eq__`, so `self == G`
compares identities; `MiniWallet.generate`'s comment says that mempool
transactions are not considered, and `rescan_utxos` includes them by default.

## Plan

1. `NoFalseAlarm` for every length of keys and garbage: each direction of the
   connection is one sequence of symbols, of which recvbuf, the socket and the
   queue are consecutive parts.
2. `OfferArrives` of the peers, on top of it: where an offered block is, in the
   buffers, the socket or the node.

## Not modelled

Argument parsing, logging, proof of work (grinding is part of `Mine`), the
peer-to-peer network between the two bitcoind containers, the services of
`docker-compose.yml`, nginx, host timers. Of the test framework: the runner, the
node wrapper, RPC clients and sockets (the state is the operating system's; the
miner imports none of it), `P2PTxInvStore`, the helpers that build single test
transactions, the bits of hash functions, Poly1305, MuHash, base58, bech32 and
file formats (bit arithmetic without state, covered by published vectors), and
messages that no node sends, such as a transaction with outputs and no inputs,
whose bytes are ambiguous. `PROJECT.json` lists every component with its status.
