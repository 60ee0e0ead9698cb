--------------------------- MODULE MinerContainer ---------------------------
(***************************************************************************)
(* One bitcoind container: src/docker-entrypoint.sh, which installs a new  *)
(* volume (install.sh) or migrates an old one (migrate.sh), and src/run.sh,*)
(* which runs bitcoind, makes the miner's wallet (ensure-miner-wallet.sh), *)
(* starts mine.sh and waits.  The container is killed at any step and      *)
(* started again (restart: always), bitcoind dies under any script,        *)
(* `docker stop` sends SIGTERM and kills after the grace period.           *)
(*                                                                         *)
(* Keys are numbers; key 1 is the PRIVKEY of the environment or of the old *)
(* volume.  A challenge is the number of the key that signs for it, 0 when *)
(* it is empty.                                                            *)
(***************************************************************************)
EXTENDS Integers, FiniteSets

CONSTANTS
  Wallets,       \* names of wallets, "custom_signet" among them
  MaxFaults,     \* bound: crashes of the container, bitcoind or mine.sh,
                 \* keys that are not made, a bitcoind slower than a sleep
  MaxStops       \* bound: docker stop

custom == "custom_signet"

ASSUME ContainerAssumption ==
  /\ custom \in Wallets
  /\ MaxFaults \in Nat
  /\ MaxStops \in Nat

VARIABLES
  env,           \* the environment of the container and the volume it finds
  pc,            \* where the process with PID 1 is
  installDone,   \* the file install_done
  modern,        \* the file uses_modern_wallet
  privkey,       \* the keys in PRIVKEY.txt
  challenge,     \* SIGNETCHALLENGE.txt
  conf,          \* signetchallenge= in bitcoin.conf
  wallets,       \* the wallet directory
  bitcoind, loaded,   \* the daemon, and its loaded wallets
  regtest,       \* the bitcoind of gen-signet-keys.sh was left running
  mining,        \* mine.sh runs
  sig,           \* SIGTERM: "none", "pending" or "seen"
  made,          \* keys made so far
  faults, stops,
  net,           \* history: the first challenge that run.sh served
  torn,          \* history: what was cut between two steps that belong together
  early,         \* history: the last SIGTERM came before the wait for RPC was over
  slow,          \* history: its grace period ended before the script in the
                 \* foreground or the flush did
  unclean        \* history: that docker stop killed a running bitcoind

files == <<installDone, modern, privkey, challenge, conf>>
node == <<wallets, bitcoind, loaded>>
history == <<net, torn, early, slow, unclean>>
vars == <<env, pc, files, node, regtest, mining, sig, made, faults, stops, history>>

\* A node that mines may be given its key; one that does not is given the
\* challenge.  The volume is new, or was installed with a legacy wallet, or
\* with a modern one that has been unloaded for its size.
Envs ==
  {e \in [MINERENABLED : BOOLEAN, given : BOOLEAN, MINER_WALLET : Wallets,
          volume : {"new", "legacy", "unloaded"}] : e.MINERENABLED \/ e.given}

NotServed == -1

NoWallet == [kind |-> "none", keys |-> {}, auto |-> FALSE]

Init ==
  /\ env \in Envs
  /\ pc = "entry"
  /\ installDone = (env.volume # "new")
  /\ modern = (env.volume = "unloaded")
  /\ privkey = IF installDone /\ env.MINERENABLED THEN {1} ELSE {}
  /\ challenge = IF installDone THEN 1 ELSE 0
  /\ conf = challenge
  /\ wallets = [w \in Wallets |->
       IF installDone /\ w = custom
       THEN [kind |-> IF modern THEN "descriptor" ELSE "legacy",
             keys |-> privkey, auto |-> ~modern]
       ELSE NoWallet]
  /\ bitcoind = "none"
  /\ loaded = {}
  /\ regtest = FALSE
  /\ mining = FALSE
  /\ sig = "none"
  /\ made = 1
  /\ faults = 0
  /\ stops = 0
  /\ net = NotServed
  /\ torn = {}
  /\ early = FALSE
  /\ slow = FALSE
  /\ unclean = FALSE

Goto(from, to) == pc = from /\ pc' = to

(***************************************************************************)
(* bitcoind (external).                                                    *)
(***************************************************************************)
\* Wallets that are loaded when the daemon starts.
AutoLoaded == {w \in Wallets : wallets[w].auto}

\* bitcoind --daemonwait: returns when the daemon answers.
StartAndWait == bitcoind' = "up" /\ loaded' = AutoLoaded

Gone == bitcoind' = "none" /\ loaded' = {}

\* createwallet load_on_startup=true: an error if the wallet exists.
CreateWallet(w) ==
  IF bitcoind = "up" /\ wallets[w].kind = "none"
  THEN /\ wallets' = [wallets EXCEPT ![w] =
            [kind |-> "descriptor", keys |-> {}, auto |-> TRUE]]
       /\ loaded' = loaded \cup {w}
  ELSE UNCHANGED <<wallets, loaded>>

\* import-signing-key.sh: every key of PRIVKEY.txt, or an error.
ImportKeys(w) ==
  wallets' = [wallets EXCEPT ![w].keys =
    IF bitcoind = "up" /\ w \in loaded THEN @ \cup privkey ELSE @]

(***************************************************************************)
(* docker-entrypoint.sh and what it calls.  install.sh and migrate.sh have *)
(* no `set -e`: after a command that fails they go on.                     *)
(***************************************************************************)
\* Mutant: an installed volume is installed again.
Entry_Reinstalls ==
  /\ \/ (~installDone \/ modern) /\ Goto("entry", "touchmodern")
     \/ installDone /\ ~modern /\ Goto("entry", "migrate")
  /\ UNCHANGED <<env, files, node, regtest, mining, sig, made, faults, stops, history>>

Entry ==
  /\ \/ ~installDone /\ Goto("entry", "touchmodern")
     \/ installDone /\ ~modern /\ Goto("entry", "migrate")
     \/ installDone /\ modern /\ Goto("entry", "conf")
  /\ UNCHANGED <<env, files, node, regtest, mining, sig, made, faults, stops, history>>

\* install.sh, first line.
TouchModern ==
  /\ Goto("touchmodern", "keys")
  /\ modern' = TRUE
  /\ UNCHANGED <<env, installDone, privkey, challenge, conf, node, regtest, mining, sig,
                 made, faults, stops, history>>

\* gen-signet-keys.sh: PRIVKEY.txt takes the given key, or the descriptors of
\* a new one, from a regtest bitcoind, are appended to it.
GenPrivkey ==
  /\ Goto("keys", "challenge")
  /\ \/ ~env.MINERENABLED /\ UNCHANGED <<privkey, made>>
     \/ env.MINERENABLED /\ env.given /\ privkey' = {1} /\ UNCHANGED made
     \/ /\ env.MINERENABLED /\ ~env.given
        /\ made' = made + 1
        /\ privkey' = privkey \cup {made + 1}
  /\ torn' = torn \ {"keys"}
  /\ UNCHANGED <<env, installDone, modern, challenge, conf, node, regtest, mining,
                 sig, faults, stops, net, early, slow, unclean>>

\* The regtest bitcoind is not up after the sleep, or dies before the wallet is
\* dumped; there is no `set -e`.  No key is written, the challenge has been read
\* or is empty, and where the stop fails too the daemon stays.
GenPrivkeyFails ==
  /\ faults < MaxFaults
  /\ faults' = faults + 1
  /\ env.MINERENABLED /\ ~env.given
  /\ \/ Goto("keys", "challenge") /\ made' = made + 1
     \/ Goto("keys", "nochallenge") /\ UNCHANGED made
  /\ regtest' \in BOOLEAN
  /\ torn' = torn \cup {"keys"}
  /\ UNCHANGED <<env, files, node, mining, sig, stops, net, early, slow, unclean>>

\* Its write_files.
GenChallenge ==
  /\ \/ /\ Goto("challenge", "instconf")
        /\ challenge' = IF env.given THEN 1 ELSE made
     \/ Goto("nochallenge", "instconf") /\ challenge' = 0
  /\ UNCHANGED <<env, installDone, modern, privkey, conf, node, regtest, mining,
                 sig, made, faults, stops, history>>

\* gen-bitcoind-conf.sh, in install.sh and before every later start: the
\* challenge of the environment, or of the file.
GenConf ==
  /\ Goto("instconf", "instdaemon") \/ Goto("conf", "run")
  /\ conf' = IF env.given THEN 1 ELSE challenge
  /\ UNCHANGED <<env, installDone, modern, privkey, challenge, node, regtest, mining, sig,
                 made, faults, stops, history>>

\* setup-signet.sh: bitcoind, createwallet, the import.
SetupDaemon ==
  /\ Goto("instdaemon", "instcreate")
  /\ StartAndWait
  /\ UNCHANGED <<env, files, wallets, regtest, mining, sig, made, faults, stops, history>>

SetupCreate ==
  /\ Goto("instcreate", "instimport")
  /\ CreateWallet(custom)
  /\ UNCHANGED <<env, files, bitcoind, regtest, mining, sig, made, faults, stops, history>>

SetupImport ==
  /\ Goto("instimport", "installed")
  /\ IF modern /\ env.MINERENABLED THEN ImportKeys(custom) ELSE UNCHANGED wallets
  /\ UNCHANGED <<env, files, bitcoind, loaded, regtest, mining, sig, made, faults, stops,
                 history>>

\* install.sh, last line (mine-genesis.sh, before it, leaves no state here).
TouchInstalled ==
  /\ Goto("installed", "inststop")
  /\ installDone' = TRUE
  /\ UNCHANGED <<env, modern, privkey, challenge, conf, node, regtest, mining, sig, made,
                 faults, stops, history>>

\* bitcoin-cli stop, and the wait until no bitcoind is left, of any network.
StopInstalled ==
  /\ \/ Goto("inststop", "instwait") /\ Gone
     \/ ~regtest /\ Goto("instwait", "run") /\ UNCHANGED <<bitcoind, loaded>>
  /\ UNCHANGED <<env, files, wallets, regtest, mining, sig, made, faults, stops,
                 history>>

\* migrate.sh.
MigrateDaemon ==
  /\ Goto("migrate", "migwallet")
  /\ StartAndWait
  /\ UNCHANGED <<env, files, wallets, regtest, mining, sig, made, faults, stops, history>>

\* migratewallet.  The scripts of the legacy key become descriptors that do
\* not sign for the challenge; that is what the import is for.  An error (the
\* wallet is no longer legacy) is exit 1, and the container stops.
MigrateWallet ==
  /\ IF bitcoind = "up" /\ wallets[custom].kind = "legacy"
     THEN /\ Goto("migwallet", "migimport")
          /\ wallets' = [wallets EXCEPT ![custom].kind = "descriptor",
                                        ![custom].keys = {}]
          /\ loaded' = loaded \cup {custom}
          /\ UNCHANGED bitcoind
     ELSE Goto("migwallet", "down") /\ Gone /\ UNCHANGED wallets
  /\ UNCHANGED <<env, files, regtest, mining, sig, made, faults, stops, history>>

MigrateImport ==
  /\ Goto("migimport", "migtouch")
  /\ ImportKeys(custom)
  /\ UNCHANGED <<env, files, bitcoind, loaded, regtest, mining, sig, made, faults, stops,
                 history>>

\* Mutant: the migrated volume is not marked.
MigrateTouch_Unmarked ==
  /\ Goto("migtouch", "migstop")
  /\ UNCHANGED <<env, files, node, regtest, mining, sig, made, faults, stops, history>>

MigrateTouch ==
  /\ Goto("migtouch", "migstop")
  /\ modern' = TRUE
  /\ UNCHANGED <<env, installDone, privkey, challenge, conf, node, regtest, mining, sig,
                 made, faults, stops, history>>

\* stop and the sleeps after it, which are long enough for bitcoind or not.
MigrateStop ==
  /\ Goto("migstop", "conf")
  /\ \/ Gone /\ UNCHANGED faults
     \/ /\ faults < MaxFaults
        /\ faults' = faults + 1
        /\ bitcoind' = IF bitcoind = "up" THEN "stopping" ELSE bitcoind
        /\ UNCHANGED loaded
  /\ UNCHANGED <<env, files, wallets, regtest, mining, sig, made, stops, history>>

(***************************************************************************)
(* run.sh.  Between two commands the shell runs the trap of a signal that  *)
(* has come: these steps wait for it.  While ensure-miner-wallet.sh is in  *)
(* the foreground the trap waits.                                          *)
(***************************************************************************)
NoSignal == sig # "pending"

\* A bitcoind that still holds the data directory keeps the new one out, and
\* the script ends.
RunDaemon ==
  /\ \/ /\ bitcoind = "none"
        /\ Goto("run", "rpcwait")
        /\ bitcoind' = "starting"
        /\ net' = IF net = NotServed THEN conf ELSE net
        /\ UNCHANGED loaded
     \/ bitcoind # "none" /\ Goto("run", "down") /\ Gone /\ UNCHANGED net
  /\ UNCHANGED <<env, files, wallets, regtest, mining, sig, made, faults, stops,
                 torn, early, slow, unclean>>

\* External: the daemon has read its indexes and answers; it has ended after
\* the RPC stop.
DaemonReady ==
  /\ bitcoind = "starting"
  /\ StartAndWait
  /\ UNCHANGED <<env, pc, files, wallets, regtest, mining, sig, made, faults, stops,
                 history>>

DaemonStops ==
  /\ bitcoind = "stopping"
  /\ Gone
  /\ UNCHANGED <<env, pc, files, wallets, regtest, mining, sig, made, faults, stops,
                 history>>

\* until bitcoin-cli getblockchaininfo
RpcWait ==
  /\ NoSignal
  /\ \/ bitcoind = "up" /\ Goto("rpcwait", IF env.MINERENABLED THEN "wallet" ELSE "wait")
     \/ bitcoind = "none" /\ Goto("rpcwait", "down")
  /\ UNCHANGED <<env, files, node, regtest, mining, sig, made, faults, stops, history>>

\* ensure-miner-wallet.sh: loaded, or on disk, or new.  run.sh goes on when it
\* fails.
EnsureWallet ==
  LET w == env.MINER_WALLET
  IN  /\ \/ /\ bitcoind # "up" \/ w \in loaded
            /\ Goto("wallet", "startmine")
            /\ UNCHANGED <<wallets, loaded>>
         \/ /\ bitcoind = "up" /\ w \notin loaded /\ wallets[w].kind # "none"
            /\ Goto("wallet", "startmine")
            /\ wallets' = [wallets EXCEPT ![w].auto = TRUE]
            /\ loaded' = loaded \cup {w}
         \/ /\ bitcoind = "up" /\ w \notin loaded /\ wallets[w].kind = "none"
            /\ Goto("wallet", "import")
            /\ CreateWallet(w)
      /\ UNCHANGED <<env, files, bitcoind, regtest, mining, sig, made, faults, stops,
                     history>>

\* Mutant: the wallet is created and left at that.
EnsureImport_Skipped ==
  /\ Goto("import", "startmine")
  /\ UNCHANGED <<env, files, node, regtest, mining, sig, made, faults, stops, history>>

EnsureImport ==
  /\ Goto("import", "startmine")
  /\ ImportKeys(env.MINER_WALLET)
  /\ UNCHANGED <<env, files, bitcoind, loaded, regtest, mining, sig, made, faults, stops,
                 history>>

StartMine ==
  /\ NoSignal
  /\ Goto("startmine", "wait")
  /\ mining' = TRUE
  /\ UNCHANGED <<env, files, node, regtest, sig, made, faults, stops, history>>

\* Mutants of Wait: the container lives as long as mine.sh; a signal that
\* interrupts `wait` ends the script.
Wait_OnMiner ==
  /\ NoSignal
  /\ bitcoind = "none" /\ ~mining
  /\ Goto("wait", "down")
  /\ UNCHANGED <<env, files, node, regtest, mining, sig, made, faults, stops, history>>

Wait_Once ==
  /\ NoSignal
  /\ bitcoind = "none" \/ sig = "seen"
  /\ Goto("wait", "down")
  /\ Gone
  /\ mining' = FALSE
  /\ unclean' = (unclean \/ bitcoind # "none")
  /\ UNCHANGED <<env, files, wallets, regtest, sig, made, faults, stops, net, torn,
                 early, slow>>

\* The loop around `wait`: the container ends when bitcoind has.
Wait ==
  /\ NoSignal
  /\ bitcoind = "none"
  /\ Goto("wait", "down")
  /\ mining' = FALSE
  /\ UNCHANGED <<env, files, node, regtest, sig, made, faults, stops, history>>

\* trap shutdown: bitcoin-cli stop || true
InRun == {"rpcwait", "wallet", "import", "startmine", "wait"}
Foreground == {"wallet", "import"}

Shutdown ==
  /\ sig = "pending"
  /\ pc \in InRun \ Foreground
  /\ sig' = "seen"
  /\ bitcoind' = IF bitcoind = "up" THEN "stopping" ELSE bitcoind
  /\ UNCHANGED <<env, pc, files, wallets, loaded, regtest, mining, made, faults, stops,
                 history>>

(***************************************************************************)
(* Docker, and what goes wrong.                                            *)
(***************************************************************************)
\* docker stop.  Before run.sh is PID 1 there is no trap, and the kernel
\* drops the signal.
Stop ==
  /\ stops < MaxStops
  /\ stops' = stops + 1
  /\ pc # "down" /\ sig = "none"
  /\ sig' = IF pc \in InRun THEN "pending" ELSE "seen"
  /\ early' = (pc \notin InRun \ {"rpcwait"})
  /\ slow' = FALSE
  /\ unclean' = FALSE
  /\ UNCHANGED <<env, pc, files, node, regtest, mining, made, faults, net, torn>>

\* What belongs together and is cut when the container ends: the wallet that
\* ensure-miner-wallet.sh made and its key; migratewallet and the mark.
Cut ==
  torn' = torn \cup (IF pc = "import" THEN {"wallet"} ELSE {})
               \cup (IF pc \in {"migimport", "migtouch"} THEN {"migration"} ELSE {})

Killed ==
  /\ pc' = "down"
  /\ Gone
  /\ regtest' = FALSE
  /\ mining' = FALSE
  /\ Cut
  /\ UNCHANGED <<env, files, wallets, made, net, early>>

\* The grace period is over: Docker kills the container wherever it is, with a
\* trap that is still pending behind ensure-miner-wallet.sh and with a bitcoind
\* that has not been told to stop or is still flushing.
GraceOver ==
  /\ sig = "seen" \/ (sig = "pending" /\ pc \in Foreground)
  /\ pc # "down"
  /\ Killed
  /\ slow' = (sig = "pending" \/ bitcoind = "stopping")
  /\ unclean' = (bitcoind # "none")
  /\ UNCHANGED <<sig, faults, stops>>

Crash ==
  /\ faults < MaxFaults
  /\ faults' = faults + 1
  /\ pc # "down"
  /\ Killed
  /\ UNCHANGED <<sig, stops, slow, unclean>>

\* bitcoind dies under the scripts, which do not look.
DaemonDies ==
  /\ faults < MaxFaults
  /\ faults' = faults + 1
  /\ bitcoind # "none"
  /\ Gone
  /\ torn' = IF pc \in {"instcreate", "instimport", "migimport", "import"}
             THEN torn \cup {"wallet"} ELSE torn
  /\ UNCHANGED <<env, pc, files, wallets, regtest, mining, sig, made, stops, net,
                 early, slow, unclean>>

\* A command of mine.sh fails outside the miner: set -e.
MineDies ==
  /\ faults < MaxFaults
  /\ faults' = faults + 1
  /\ mining
  /\ mining' = FALSE
  /\ UNCHANGED <<env, pc, files, node, regtest, sig, made, stops, history>>

\* External: the regtest bitcoind, whose data directory is gone, may end.
RegtestEnds ==
  /\ regtest
  /\ regtest' = FALSE
  /\ UNCHANGED <<env, pc, files, node, mining, sig, made, faults, stops, history>>

\* restart: always, or somebody starts the container again.
Boot ==
  /\ Goto("down", "entry")
  /\ sig' = "none"
  /\ regtest' = FALSE
  /\ mining' = FALSE
  /\ Gone
  /\ UNCHANGED <<env, files, wallets, made, faults, stops, history>>

Scripts ==
  \/ Entry \/ TouchModern \/ GenPrivkey \/ GenChallenge \/ GenConf
  \/ SetupDaemon \/ SetupCreate \/ SetupImport \/ TouchInstalled \/ StopInstalled
  \/ MigrateDaemon \/ MigrateWallet \/ MigrateImport \/ MigrateTouch
  \/ MigrateStop
  \/ RunDaemon \/ RpcWait \/ EnsureWallet \/ EnsureImport \/ StartMine \/ Wait
  \/ Shutdown \/ Boot

Daemon == DaemonReady \/ DaemonStops

Next ==
  \/ Scripts \/ Daemon
  \/ GenPrivkeyFails \/ RegtestEnds
  \/ Stop \/ GraceOver \/ Crash \/ DaemonDies \/ MineDies

\* Scripts and the daemon go on, Docker restarts the container and keeps to
\* the grace period.
Fairness == WF_vars(Scripts) /\ WF_vars(Daemon) /\ WF_vars(GraceOver)

Spec == Init /\ [][Next]_vars /\ Fairness

(***************************************************************************)
(* Properties.                                                             *)
(***************************************************************************)
Serving == pc = "wait" /\ bitcoind = "up"

\* A miner that runs can sign for the challenge of its bitcoind, however
\* often the install, which appends to PRIVKEY.txt, was cut short and begun
\* again.  The exceptions are the two places where the scripts mark their work
\* as done all the same: a wallet was made and something died before its key
\* was imported (ensure-miner-wallet.sh or, for bitcoind, install.sh and
\* migrate.sh); the last gen-signet-keys.sh got no key from its bitcoind.
MinerCanSign ==
  Serving /\ mining /\ torn \cap {"wallet", "keys"} = {} =>
    conf \in wallets[env.MINER_WALLET].keys

\* Once run.sh has served a challenge the node never serves another one: no
\* restart makes a new key or configures another network.
SameNetwork == pc \in InRun => conf = net

\* run.sh: "Container is shutting down, lets make sure bitcoind flushes the
\* db".  A docker stop kills a running bitcoind only when the signal came
\* before the wait for RPC was over, when ensure-miner-wallet.sh held the trap
\* up for the whole grace period, or when the flush took longer than that: a
\* signal that comes later is never lost.
StopFlushes == unclean => early \/ slow

\* run.sh: "When bitcoind exits, this script exits, the container stops, and
\* Docker's restart policy starts it again."
NoSilentContainer == (pc = "wait" /\ bitcoind = "none") ~> (pc = "down")

\* After the last fault the container comes up and serves, mining if it is to,
\* unless a migration was cut before it was marked (it then fails for ever),
\* mine.sh has died, which nothing watches, or gen-signet-keys.sh left its
\* bitcoind running, which docker-entrypoint.sh waits for.
Recovers ==
  \/ <>[](Serving /\ (env.MINERENABLED => mining))
  \/ <>[]("migration" \in torn)
  \/ <>[](env.MINERENABLED /\ Serving /\ ~mining)
  \/ <>[](pc = "instwait" /\ regtest)

\* "Make sure $MINER_WALLET is loaded and holds the block signing key"
\* (ensure-miner-wallet.sh).
MinerWalletHasKey ==
  Serving /\ mining =>
    /\ env.MINER_WALLET \in loaded
    /\ conf \in wallets[env.MINER_WALLET].keys
=============================================================================
