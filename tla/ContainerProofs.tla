-------------------------- MODULE ContainerProofs --------------------------
(***************************************************************************)
(* Proofs about MinerContainer, for any environment and volume, any        *)
(* wallets and any number of crashes, stops and restarts.                  *)
(***************************************************************************)
EXTENDS MinerContainer, TLAPS

(***************************************************************************)
(* The stages of PID 1.                                                    *)
(***************************************************************************)
Keyed == {"instconf", "instdaemon", "instcreate", "instimport", "installed"}
Installing == {"touchmodern", "keys", "challenge", "nochallenge"} \cup Keyed
Migrating == {"migrate", "migwallet", "migimport", "migtouch", "migstop"}
Late == {"wallet", "import", "startmine", "wait"}
Running == {"run", "rpcwait"} \cup Late
Stopping == {"inststop", "instwait"}
PCs == {"entry", "conf", "down"} \cup Stopping \cup Installing \cup Migrating
         \cup Running

Daemons == {"none", "starting", "up", "stopping"}
WalletType == [kind : {"none", "legacy", "descriptor"}, keys : SUBSET Nat,
               auto : BOOLEAN]

TypeInv ==
  /\ env \in Envs
  /\ pc \in PCs
  /\ installDone \in BOOLEAN
  /\ modern \in BOOLEAN
  /\ privkey \in SUBSET Nat
  /\ wallets \in [Wallets -> WalletType]
  /\ bitcoind \in Daemons
  /\ loaded \in SUBSET Wallets
  /\ mining \in BOOLEAN
  /\ sig \in {"none", "pending", "seen"}
  /\ made \in Nat
  /\ early \in BOOLEAN
  /\ slow \in BOOLEAN
  /\ unclean \in BOOLEAN

(***************************************************************************)
(* Phases: what the marks on the volume say about where PID 1 can be, and  *)
(* that nothing starts bitcoind again once run.sh has come past the wait   *)
(* for RPC.                                                                *)
(***************************************************************************)
PhaseInv ==
  /\ pc \in Installing => ~installDone
  /\ pc \in Installing \ {"touchmodern"} => modern
  /\ pc \in {"conf"} \cup Stopping \cup Migrating \cup Running => installDone
  /\ pc \in {"conf"} \cup Stopping \cup Running => modern
  /\ pc \in Migrating \ {"migstop"} => ~modern
  /\ pc = "migstop" => modern
  /\ pc \in Late => bitcoind # "starting"
  /\ pc = "down" => bitcoind = "none"
  /\ pc \in {"wallet", "import", "startmine"} => env.MINERENABLED
  /\ mining => pc = "wait" /\ env.MINERENABLED

(***************************************************************************)
(* The network.  The challenge of the configuration is the one that        *)
(* gen-bitcoind-conf.sh writes at every start, and the file it reads       *)
(* changes only while install.sh runs.                                     *)
(***************************************************************************)
Chal == IF env.given THEN 1 ELSE challenge

NetInv ==
  /\ pc \in Stopping \cup (Keyed \ {"instconf"}) \cup Running => conf = Chal
  /\ net # NotServed => installDone /\ net = Chal
  /\ pc \in InRun => net = conf

(***************************************************************************)
(* Keys.                                                                   *)
(***************************************************************************)
Whole == "wallet" \notin torn
KeyMade == "keys" \notin torn

KeyInv ==
  env.MINERENABLED /\ KeyMade =>
    /\ pc # "nochallenge"
    /\ pc = "challenge" => (IF env.given THEN 1 ELSE made) \in privkey
    /\ installDone \/ pc \in Keyed => Chal \in privkey

LoadInv ==
  /\ \A w \in Wallets : wallets[w].auto => wallets[w].kind # "none"
  /\ \A w \in loaded : wallets[w].kind # "none"

\* Before the install is over custom_signet is the only wallet, and it is
\* loaded whenever bitcoind starts.
InstallInv ==
  ~installDone =>
    /\ \A w \in Wallets \ {custom} : wallets[w].kind = "none"
    /\ wallets[custom].kind # "none" => wallets[custom].auto
    /\ Whole =>
         /\ pc \in {"instcreate", "instimport"} => bitcoind = "up"
         /\ pc = "instcreate" /\ wallets[custom].kind # "none" => custom \in loaded
         /\ pc = "instimport" => custom \in loaded
         /\ pc = "installed" /\ env.MINERENABLED /\ KeyMade =>
              Chal \in wallets[custom].keys

\* After it every wallet holds the key, except where an import is still to
\* come.
ImportInv ==
  installDone /\ env.MINERENABLED /\ Whole /\ KeyMade =>
    /\ \A w \in Wallets :
         wallets[w].kind # "none" =>
           \/ Chal \in wallets[w].keys
           \/ w = custom /\ ~modern
           \/ w = env.MINER_WALLET /\ pc = "import"
    /\ pc = "migimport" => bitcoind = "up" /\ custom \in loaded
    /\ pc = "migtouch" => Chal \in wallets[custom].keys
    /\ pc = "import" => bitcoind = "up" /\ env.MINER_WALLET \in loaded

\* The miner's wallet exists once ensure-miner-wallet.sh has come past it.
ServeInv ==
  pc \in {"import", "startmine", "wait"} /\ env.MINERENABLED /\ bitcoind = "up" =>
    wallets[env.MINER_WALLET].kind # "none"

(***************************************************************************)
(* Signals.  A SIGTERM that comes after the wait for RPC is pending in the *)
(* last part of run.sh; once the trap has run, bitcoind is no longer up,   *)
(* so that what the end of the grace period kills is being flushed.        *)
(***************************************************************************)
StopInv ==
  /\ unclean => early \/ slow
  /\ ~early /\ sig # "none" =>
       /\ pc \in Late \cup {"down"}
       /\ sig = "seen" => bitcoind \in {"none", "stopping"}

Inv ==
  /\ PhaseInv /\ NetInv /\ KeyInv /\ LoadInv
  /\ InstallInv /\ ImportInv /\ ServeInv /\ StopInv

(***************************************************************************)
(* The actions by the script they belong to.                               *)
(***************************************************************************)
Install ==
  \/ TouchModern \/ GenPrivkey \/ GenPrivkeyFails \/ GenChallenge \/ GenConf
  \/ SetupDaemon \/ SetupCreate \/ SetupImport \/ TouchInstalled \/ StopInstalled

Migrate ==
  \/ Entry \/ MigrateDaemon \/ MigrateWallet \/ MigrateImport \/ MigrateTouch
  \/ MigrateStop

RunSh ==
  \/ RunDaemon \/ RpcWait \/ EnsureWallet \/ EnsureImport \/ StartMine \/ Wait
  \/ Shutdown

Outside ==
  \/ Boot \/ DaemonReady \/ DaemonStops
  \/ Stop \/ GraceOver \/ Crash \/ DaemonDies \/ MineDies \/ RegtestEnds

LEMMA NextCases == Next => Install \/ Migrate \/ RunSh \/ Outside
BY DEF Next, Scripts, Daemon, Install, Migrate, RunSh, Outside

LEMMA EnvType ==
  ASSUME env \in Envs
  PROVE  /\ env.MINERENABLED \in BOOLEAN /\ env.given \in BOOLEAN
         /\ env.MINER_WALLET \in Wallets
         /\ env.MINERENABLED \/ env.given
BY DEF Envs

LEMMA EnvKept == Next => env' = env
BY DEF Next, Scripts, Daemon, Entry, TouchModern, GenPrivkey, GenPrivkeyFails,
       GenChallenge, GenConf, SetupDaemon, SetupCreate, SetupImport, TouchInstalled,
       StopInstalled, MigrateDaemon, MigrateWallet, MigrateImport, MigrateTouch,
       MigrateStop, RunDaemon, RpcWait, EnsureWallet, EnsureImport, StartMine,
       Wait, Shutdown, Boot, DaemonReady, DaemonStops, Stop, GraceOver, Crash,
       Killed, DaemonDies, MineDies, RegtestEnds

(***************************************************************************)
(* Types.                                                                  *)
(***************************************************************************)
LEMMA TypeInit == Init => TypeInv
<1> SUFFICES ASSUME Init PROVE TypeInv
  OBVIOUS
<1>1. installDone \in BOOLEAN /\ modern \in BOOLEAN /\ privkey \in SUBSET Nat
  BY DEF Init
<1>2. wallets \in [Wallets -> WalletType]
  BY <1>1 DEF Init, WalletType, NoWallet
<1> QED BY <1>1, <1>2 DEF Init, TypeInv, PCs, Daemons

\* Wallets change by createwallet, migratewallet, the import of keys and
\* load_on_startup.
LEMMA WalletTypes ==
  ASSUME TypeInv, NEW w \in Wallets
  PROVE  /\ [kind |-> "descriptor", keys |-> {}, auto |-> TRUE] \in WalletType
         /\ CreateWallet(w) => /\ wallets' \in [Wallets -> WalletType]
                               /\ loaded' \in SUBSET Wallets
         /\ ImportKeys(w) => wallets' \in [Wallets -> WalletType]
<1>1. [kind |-> "descriptor", keys |-> {}, auto |-> TRUE] \in WalletType
  BY DEF WalletType
<1>2. ASSUME CreateWallet(w)
      PROVE  wallets' \in [Wallets -> WalletType] /\ loaded' \in SUBSET Wallets
  BY <1>1, <1>2 DEF CreateWallet, TypeInv
<1>3. ASSUME ImportKeys(w) PROVE wallets' \in [Wallets -> WalletType]
  <2>1. wallets[w] \in WalletType /\ privkey \in SUBSET Nat
    BY DEF TypeInv
  <2>2. wallets' = [wallets EXCEPT ![w] = [wallets[w] EXCEPT !.keys =
          IF bitcoind = "up" /\ w \in loaded THEN @ \cup privkey ELSE @]]
    BY <1>3 DEF ImportKeys
  <2>3. [wallets[w] EXCEPT !.keys =
          IF bitcoind = "up" /\ w \in loaded THEN @ \cup privkey ELSE @] \in WalletType
    BY <2>1 DEF WalletType
  <2> QED BY <2>2, <2>3 DEF TypeInv
<1> QED BY <1>1, <1>2, <1>3

LEMMA TypeNext == TypeInv /\ [Next]_vars => TypeInv'
<1> SUFFICES ASSUME TypeInv, [Next]_vars PROVE TypeInv'
  OBVIOUS
<1> USE DEF PCs, Installing, Keyed, Stopping, Migrating, Running, Late, Daemons,
            Goto, files, node, history
<1>1. env \in Envs /\ env.MINER_WALLET \in Wallets /\ custom \in Wallets
  BY EnvType, ContainerAssumption DEF TypeInv
<1>2. CASE Install
  <2>1. CASE SetupCreate
    BY <1>1, <2>1, WalletTypes DEF SetupCreate, TypeInv
  <2>2. CASE SetupImport
    BY <1>1, <2>2, WalletTypes DEF SetupImport, TypeInv
  <2>3. CASE GenPrivkey
    <3>1. made \in Nat /\ privkey \in SUBSET Nat
      BY DEF TypeInv
    <3>2. made' \in {made, made + 1}
      BY <2>3 DEF GenPrivkey
    <3>3. privkey' \in {privkey, {1}, privkey \cup {made + 1}}
      BY <2>3 DEF GenPrivkey
    <3>4. privkey' \in SUBSET Nat
      BY <3>1, <3>3
    <3>5. made' \in Nat
      BY <3>1, <3>2
    <3> QED BY <2>3, <3>4, <3>5 DEF GenPrivkey, TypeInv
  <2>10. CASE GenPrivkeyFails
    <3>1. made' \in Nat
      BY <2>10 DEF GenPrivkeyFails, TypeInv
    <3> QED BY <2>10, <3>1 DEF GenPrivkeyFails, TypeInv
  <2>4. CASE TouchModern
    BY <2>4 DEF TouchModern, TypeInv
  <2>5. CASE GenChallenge
    BY <2>5 DEF GenChallenge, TypeInv
  <2>6. CASE GenConf
    BY <2>6 DEF GenConf, TypeInv
  <2>7. CASE SetupDaemon
    BY <2>7 DEF SetupDaemon, StartAndWait, AutoLoaded, TypeInv
  <2>8. CASE TouchInstalled
    BY <2>8 DEF TouchInstalled, TypeInv
  <2>9. CASE StopInstalled
    BY <2>9 DEF StopInstalled, Gone, TypeInv
  <2> QED BY <1>2, <2>1, <2>2, <2>3, <2>4, <2>5, <2>6, <2>7, <2>8, <2>9, <2>10
        DEF Install
<1>3. CASE Migrate
  <2>1. CASE MigrateWallet
    <3>1. wallets[custom] \in WalletType
      BY <1>1 DEF TypeInv
    <3>2. [wallets[custom] EXCEPT !.kind = "descriptor", !.keys = {}] \in WalletType
      BY <3>1 DEF WalletType
    <3>3. wallets' \in [Wallets -> WalletType]
      BY <1>1, <2>1, <3>2 DEF MigrateWallet, TypeInv
    <3> QED BY <1>1, <2>1, <3>3 DEF MigrateWallet, Gone, TypeInv
  <2>2. CASE MigrateImport
    BY <1>1, <2>2, WalletTypes DEF MigrateImport, TypeInv
  <2>3. CASE Entry
    BY <2>3 DEF Entry, TypeInv
  <2>4. CASE MigrateDaemon
    BY <2>4 DEF MigrateDaemon, StartAndWait, AutoLoaded, TypeInv
  <2>5. CASE MigrateTouch
    BY <2>5 DEF MigrateTouch, TypeInv
  <2>6. CASE MigrateStop
    BY <2>6 DEF MigrateStop, Gone, TypeInv
  <2> QED BY <1>3, <2>1, <2>2, <2>3, <2>4, <2>5, <2>6 DEF Migrate
<1>4. CASE RunSh
  <2>1. CASE EnsureWallet
    <3> DEFINE w == env.MINER_WALLET
    <3>1. wallets[w] \in WalletType
      BY <1>1 DEF TypeInv
    <3>2. [wallets[w] EXCEPT !.auto = TRUE] \in WalletType
      BY <3>1 DEF WalletType
    <3>3. wallets' \in [Wallets -> WalletType] /\ loaded' \in SUBSET Wallets
      BY <1>1, <2>1, <3>2, WalletTypes DEF EnsureWallet, TypeInv
    <3> QED BY <2>1, <3>3 DEF EnsureWallet, TypeInv
  <2>2. CASE EnsureImport
    BY <1>1, <2>2, WalletTypes DEF EnsureImport, TypeInv
  <2>3. CASE RunDaemon
    BY <2>3 DEF RunDaemon, Gone, TypeInv
  <2>7. CASE RpcWait
    BY <2>7 DEF RpcWait, TypeInv
  <2>4. CASE StartMine
    BY <2>4 DEF StartMine, TypeInv
  <2>5. CASE Wait
    BY <2>5 DEF Wait, TypeInv
  <2>6. CASE Shutdown
    BY <2>6 DEF Shutdown, TypeInv
  <2> QED BY <1>4, <2>1, <2>2, <2>3, <2>4, <2>5, <2>6, <2>7 DEF RunSh
<1>5. CASE Outside
  <2>1. CASE Boot
    BY <2>1 DEF Boot, Gone, TypeInv
  <2>2. CASE DaemonReady
    BY <2>2 DEF DaemonReady, StartAndWait, AutoLoaded, TypeInv
  <2>3. CASE DaemonStops
    BY <2>3 DEF DaemonStops, Gone, TypeInv
  <2>4. CASE DaemonDies
    BY <2>4 DEF DaemonDies, Gone, TypeInv
  <2>5. CASE MineDies \/ RegtestEnds
    <3>1. /\ mining' \in {mining, FALSE}
          /\ UNCHANGED <<env, pc, installDone, modern, privkey, wallets, bitcoind,
                         loaded, sig, made, early, slow, unclean>>
      BY <2>5 DEF MineDies, RegtestEnds
    <3> HIDE DEF PCs, Daemons
    <3> QED BY <3>1 DEF TypeInv
  <2>6. CASE Stop
    BY <2>6 DEF Stop, InRun, TypeInv
  <2>7. CASE GraceOver
    BY <2>7 DEF GraceOver, Killed, Gone, TypeInv
  <2>8. CASE Crash
    BY <2>8 DEF Crash, Killed, Gone, TypeInv
  <2> QED BY <1>5, <2>1, <2>2, <2>3, <2>4, <2>5, <2>6, <2>7, <2>8 DEF Outside
<1>6. CASE UNCHANGED vars
  BY <1>6 DEF vars, TypeInv
<1> QED BY <1>2, <1>3, <1>4, <1>5, <1>6, NextCases

LEMMA InvInit == Init => Inv
<1> SUFFICES ASSUME Init PROVE Inv
  OBVIOUS
<1>1. env.MINERENABLED \in BOOLEAN /\ env.given \in BOOLEAN
  BY EnvType DEF Init
<1>2. PhaseInv /\ NetInv /\ ServeInv /\ StopInv
  BY DEF Init, PhaseInv, NetInv, ServeInv, StopInv, Installing, Keyed, Stopping,
         Migrating, Running, Late, InRun
<1>3. KeyInv
  BY <1>1 DEF Init, KeyInv, Keyed, Chal
<1>4. \A w \in Wallets : wallets[w] =
        IF installDone /\ w = custom
        THEN [kind |-> IF modern THEN "descriptor" ELSE "legacy",
              keys |-> privkey, auto |-> ~modern]
        ELSE NoWallet
  BY DEF Init
<1>5. LoadInv
  BY <1>4 DEF LoadInv, NoWallet, Init
<1>6. InstallInv
  BY <1>4, ContainerAssumption DEF InstallInv, NoWallet, Init
<1>7. ImportInv
  <2>1. installDone /\ env.MINERENABLED => Chal \in privkey
    BY <1>3 DEF KeyInv, KeyMade, Init
  <2>2. pc = "entry"
    BY DEF Init
  <2> QED BY <1>4, <2>1, <2>2 DEF ImportInv, NoWallet
<1> QED BY <1>2, <1>3, <1>5, <1>6, <1>7 DEF Inv

(***************************************************************************)
(* The phases.                                                             *)
(***************************************************************************)
LEMMA PhaseNext == TypeInv /\ PhaseInv /\ [Next]_vars => PhaseInv'
<1> SUFFICES ASSUME TypeInv, PhaseInv, [Next]_vars PROVE PhaseInv'
  OBVIOUS
<1> USE DEF Installing, Keyed, Stopping, Migrating, Running, Late, Goto, files,
            node, history, PhaseInv
<1>1. CASE Install
  <2>1. CASE TouchModern \/ GenPrivkey \/ GenPrivkeyFails \/ GenChallenge \/ GenConf
    BY <2>1 DEF TouchModern, GenPrivkey, GenPrivkeyFails, GenChallenge, GenConf
  <2>2. CASE SetupDaemon \/ SetupCreate \/ SetupImport
    BY <2>2 DEF SetupDaemon, SetupCreate, SetupImport
  <2>3. CASE TouchInstalled \/ StopInstalled
    BY <2>3 DEF TouchInstalled, StopInstalled, Gone
  <2> QED BY <1>1, <2>1, <2>2, <2>3 DEF Install
<1>2. CASE Migrate
  <2>1. CASE Entry
    BY <2>1 DEF Entry
  <2>2. CASE MigrateDaemon \/ MigrateWallet \/ MigrateImport
    BY <2>2 DEF MigrateDaemon, MigrateWallet, MigrateImport, Gone
  <2>3. CASE MigrateTouch \/ MigrateStop
    BY <2>3 DEF MigrateTouch, MigrateStop, Gone
  <2> QED BY <1>2, <2>1, <2>2, <2>3 DEF Migrate
<1>3. CASE RunSh
  <2>1. CASE RunDaemon \/ RpcWait
    BY <2>1, EnvType DEF RunDaemon, RpcWait, Gone, TypeInv
  <2>2. CASE EnsureWallet \/ EnsureImport
    BY <2>2 DEF EnsureWallet, EnsureImport
  <2>3. CASE StartMine \/ Wait \/ Shutdown
    BY <2>3 DEF StartMine, Wait, Shutdown
  <2> QED BY <1>3, <2>1, <2>2, <2>3 DEF RunSh
<1>4. CASE Outside
  <2>1. CASE Boot \/ DaemonReady \/ DaemonStops
    BY <2>1 DEF Boot, DaemonReady, DaemonStops, StartAndWait, Gone
  <2>2. CASE Stop \/ GraceOver \/ Crash
    BY <2>2 DEF Stop, GraceOver, Crash, Killed, Gone
  <2>3. CASE DaemonDies \/ MineDies \/ RegtestEnds
    BY <2>3 DEF DaemonDies, MineDies, RegtestEnds, Gone
  <2> QED BY <1>4, <2>1, <2>2, <2>3 DEF Outside
<1>5. CASE UNCHANGED vars
  BY <1>5 DEF vars
<1> QED BY <1>1, <1>2, <1>3, <1>4, <1>5, NextCases

(***************************************************************************)
(* The network.                                                            *)
(***************************************************************************)
LEMMA NetNext ==
  TypeInv /\ PhaseInv /\ NetInv /\ [Next]_vars => NetInv'
<1> SUFFICES ASSUME TypeInv, PhaseInv, NetInv, [Next]_vars PROVE NetInv'
  OBVIOUS
<1> USE DEF Installing, Keyed, Stopping, Migrating, Running, Late, InRun, Goto,
            files, node, history, NetInv, Chal
<1>1. env \in Envs /\ env.given \in BOOLEAN
  BY EnvType DEF TypeInv
<1>2. CASE Install
  <2>1. CASE TouchModern \/ GenPrivkey \/ GenPrivkeyFails
    BY <2>1 DEF TouchModern, GenPrivkey, GenPrivkeyFails
  <2>2. CASE GenChallenge
    <3>1. net = NotServed
      BY <2>2 DEF GenChallenge, PhaseInv
    <3> QED BY <2>2, <3>1 DEF GenChallenge
  <2>3. CASE GenConf
    BY <2>3 DEF GenConf
  <2>4. CASE SetupDaemon \/ SetupCreate \/ SetupImport
    BY <2>4 DEF SetupDaemon, SetupCreate, SetupImport
  <2>5. CASE TouchInstalled \/ StopInstalled
    BY <2>5 DEF TouchInstalled, StopInstalled
  <2> QED BY <1>2, <2>1, <2>2, <2>3, <2>4, <2>5 DEF Install
<1>3. CASE Migrate
  <2>1. CASE Entry
    BY <2>1 DEF Entry
  <2>2. CASE MigrateDaemon \/ MigrateWallet \/ MigrateImport
    BY <2>2 DEF MigrateDaemon, MigrateWallet, MigrateImport
  <2>3. CASE MigrateTouch \/ MigrateStop
    BY <2>3 DEF MigrateTouch, MigrateStop
  <2> QED BY <1>3, <2>1, <2>2, <2>3 DEF Migrate
<1>4. CASE RunSh
  <2>1. CASE RunDaemon
    <3>1. installDone /\ conf = Chal
      BY <2>1 DEF RunDaemon, PhaseInv
    <3> QED BY <2>1, <3>1 DEF RunDaemon
  <2>2. CASE RpcWait
    BY <2>2 DEF RpcWait
  <2>3. CASE EnsureWallet \/ EnsureImport
    BY <2>3 DEF EnsureWallet, EnsureImport
  <2>4. CASE StartMine \/ Wait \/ Shutdown
    BY <2>4 DEF StartMine, Wait, Shutdown
  <2> QED BY <1>4, <2>1, <2>2, <2>3, <2>4 DEF RunSh
<1>5. CASE Outside
  <2>1. CASE Boot \/ DaemonReady \/ DaemonStops
    BY <2>1 DEF Boot, DaemonReady, DaemonStops
  <2>2. CASE Stop \/ GraceOver \/ Crash
    BY <2>2 DEF Stop, GraceOver, Crash, Killed
  <2>3. CASE DaemonDies \/ MineDies \/ RegtestEnds
    BY <2>3 DEF DaemonDies, MineDies, RegtestEnds
  <2> QED BY <1>5, <2>1, <2>2, <2>3 DEF Outside
<1>6. CASE UNCHANGED vars
  BY <1>6 DEF vars
<1> QED BY <1>2, <1>3, <1>4, <1>5, <1>6, NextCases

(***************************************************************************)
(* The keys of PRIVKEY.txt.  Only install.sh writes them.                  *)
(***************************************************************************)
LEMMA KeyNext ==
  TypeInv /\ PhaseInv /\ KeyInv /\ [Next]_vars => KeyInv'
<1> SUFFICES ASSUME TypeInv, PhaseInv, KeyInv, [Next]_vars PROVE KeyInv'
  OBVIOUS
<1> USE DEF Installing, Keyed, Goto, files, node, history, KeyInv, KeyMade, Chal
<1>1. env \in Envs /\ env.given \in BOOLEAN /\ env.MINERENABLED \in BOOLEAN
  BY EnvType DEF TypeInv
<1>2. CASE Install
  <2>1. CASE TouchModern
    BY <2>1 DEF TouchModern
  <2>2. CASE GenPrivkey
    BY <1>1, <2>2 DEF GenPrivkey, PhaseInv
  <2>7. CASE GenPrivkeyFails
    BY <2>7 DEF GenPrivkeyFails
  <2>3. CASE GenChallenge
    BY <1>1, <2>3 DEF GenChallenge, PhaseInv
  <2>4. CASE GenConf
    BY <2>4 DEF GenConf
  <2>5. CASE SetupDaemon \/ SetupCreate \/ SetupImport
    BY <2>5 DEF SetupDaemon, SetupCreate, SetupImport
  <2>6. CASE TouchInstalled \/ StopInstalled
    BY <2>6 DEF TouchInstalled, StopInstalled
  <2> QED BY <1>2, <2>1, <2>2, <2>3, <2>4, <2>5, <2>6, <2>7 DEF Install
<1>3. CASE Migrate
  <2>1. CASE Entry
    BY <2>1 DEF Entry
  <2>2. CASE MigrateDaemon \/ MigrateWallet \/ MigrateImport
    BY <2>2 DEF MigrateDaemon, MigrateWallet, MigrateImport
  <2>3. CASE MigrateTouch \/ MigrateStop
    BY <2>3 DEF MigrateTouch, MigrateStop
  <2> QED BY <1>3, <2>1, <2>2, <2>3 DEF Migrate
<1>4. CASE RunSh
  <2>1. CASE RunDaemon \/ RpcWait
    BY <2>1 DEF RunDaemon, RpcWait
  <2>2. CASE EnsureWallet \/ EnsureImport
    BY <2>2 DEF EnsureWallet, EnsureImport
  <2>3. CASE StartMine \/ Wait \/ Shutdown
    BY <2>3 DEF StartMine, Wait, Shutdown
  <2> QED BY <1>4, <2>1, <2>2, <2>3 DEF RunSh
<1>5. CASE Outside
  <2>1. CASE Boot \/ DaemonReady \/ DaemonStops
    BY <2>1 DEF Boot, DaemonReady, DaemonStops
  <2>2. CASE Stop \/ GraceOver \/ Crash
    BY <2>2 DEF Stop, GraceOver, Crash, Killed, Cut
  <2>3. CASE DaemonDies \/ MineDies \/ RegtestEnds
    BY <2>3 DEF DaemonDies, MineDies, RegtestEnds
  <2> QED BY <1>5, <2>1, <2>2, <2>3 DEF Outside
<1>6. CASE UNCHANGED vars
  BY <1>6 DEF vars
<1> QED BY <1>2, <1>3, <1>4, <1>5, <1>6, NextCases

(***************************************************************************)
(* Wallets.                                                                *)
(***************************************************************************)
Walleting ==
  \/ SetupCreate \/ SetupImport \/ MigrateWallet \/ MigrateImport
  \/ EnsureWallet \/ EnsureImport

LEMMA WalletsKept ==
  Next => \/ Walleting
          \/ wallets' = wallets /\ loaded' \in {loaded, {}, AutoLoaded}
BY DEF Next, Scripts, Daemon, Walleting, StartAndWait, Gone, Entry, TouchModern,
       GenPrivkey, GenPrivkeyFails, GenChallenge,
       GenConf, SetupDaemon, TouchInstalled, StopInstalled, MigrateDaemon,
       MigrateTouch, MigrateStop, RunDaemon, RpcWait, StartMine, Wait, Shutdown,
       Boot, DaemonReady, DaemonStops, Stop, GraceOver, Crash, Killed, DaemonDies,
       MineDies, RegtestEnds, node

\* createwallet makes a wallet without keys, loads it and has it loaded at
\* every start; where it fails it does nothing.
LEMMA Created ==
  ASSUME TypeInv, NEW w \in Wallets, CreateWallet(w)
  PROVE  /\ \A v \in Wallets \ {w} : wallets'[v] = wallets[v]
         /\ bitcoind = "up" /\ wallets[w].kind = "none" =>
              /\ wallets'[w].kind = "descriptor"
              /\ wallets'[w].auto
              /\ loaded' = loaded \cup {w}
         /\ ~(bitcoind = "up" /\ wallets[w].kind = "none") =>
              wallets' = wallets /\ loaded' = loaded
<1>1. CASE bitcoind = "up" /\ wallets[w].kind = "none"
  <2>1. wallets' = [wallets EXCEPT ![w] =
            [kind |-> "descriptor", keys |-> {}, auto |-> TRUE]]
    BY <1>1 DEF CreateWallet
  <2>2. wallets'[w] = [kind |-> "descriptor", keys |-> {}, auto |-> TRUE]
    BY <2>1 DEF TypeInv
  <2> QED BY <1>1, <2>1, <2>2 DEF CreateWallet, TypeInv
<1>2. CASE ~(bitcoind = "up" /\ wallets[w].kind = "none")
  BY <1>2 DEF CreateWallet
<1> QED BY <1>1, <1>2

\* The import adds the keys of PRIVKEY.txt to a loaded wallet.
LEMMA Imported ==
  ASSUME TypeInv, NEW w \in Wallets, ImportKeys(w)
  PROVE  /\ \A v \in Wallets : /\ wallets'[v].kind = wallets[v].kind
                                /\ wallets'[v].auto = wallets[v].auto
                                /\ wallets[v].keys \subseteq wallets'[v].keys
         /\ bitcoind = "up" /\ w \in loaded => privkey \subseteq wallets'[w].keys
<1> DEFINE new == IF bitcoind = "up" /\ w \in loaded
                  THEN wallets[w].keys \cup privkey ELSE wallets[w].keys
<1>1. wallets \in [Wallets -> WalletType] /\ wallets[w] \in WalletType
  BY DEF TypeInv
<1>2. wallets' = [wallets EXCEPT ![w] = [wallets[w] EXCEPT !.keys = new]]
  BY DEF ImportKeys
<1>3. \A v \in Wallets \ {w} : wallets'[v] = wallets[v]
  BY <1>1, <1>2
<1>4. wallets'[w] = [wallets[w] EXCEPT !.keys = new]
  BY <1>1, <1>2
<1>5. /\ wallets'[w].kind = wallets[w].kind
      /\ wallets'[w].auto = wallets[w].auto
      /\ wallets'[w].keys = new
  BY <1>1, <1>4 DEF WalletType
<1> QED BY <1>3, <1>5

\* migratewallet turns the wallet into one of descriptors.
LEMMA Migrated ==
  ASSUME TypeInv, MigrateWallet, pc' = "migimport"
  PROVE  /\ bitcoind = "up" /\ bitcoind' = "up" /\ custom \in loaded'
         /\ loaded' = loaded \cup {custom}
         /\ \A v \in Wallets \ {custom} : wallets'[v] = wallets[v]
         /\ wallets'[custom].kind = "descriptor"
<1>1. wallets \in [Wallets -> WalletType] /\ wallets[custom] \in WalletType
  BY ContainerAssumption DEF TypeInv
<1>2. /\ bitcoind = "up" /\ bitcoind' = "up" /\ loaded' = loaded \cup {custom}
      /\ wallets' = [wallets EXCEPT ![custom].kind = "descriptor",
                                    ![custom].keys = {}]
  BY DEF MigrateWallet, Goto
<1>3. wallets' = [wallets EXCEPT ![custom] =
        [wallets[custom] EXCEPT !.kind = "descriptor", !.keys = {}]]
  BY <1>1, <1>2
<1>4. wallets'[custom] = [wallets[custom] EXCEPT !.kind = "descriptor", !.keys = {}]
  BY <1>1, <1>3, ContainerAssumption
<1>5. wallets'[custom].kind = "descriptor"
  BY <1>1, <1>4 DEF WalletType
<1> QED BY <1>1, <1>2, <1>3, <1>5

\* What ensure-miner-wallet.sh does to the wallets.
WalletFound ==
  /\ pc' = "startmine" /\ wallets' = wallets /\ loaded' = loaded
  /\ bitcoind # "up" \/ env.MINER_WALLET \in loaded

WalletReloaded ==
  /\ pc' = "startmine" /\ loaded' = loaded \cup {env.MINER_WALLET}
  /\ \A v \in Wallets \ {env.MINER_WALLET} : wallets'[v] = wallets[v]
  /\ wallets'[env.MINER_WALLET].kind = wallets[env.MINER_WALLET].kind
  /\ wallets'[env.MINER_WALLET].keys = wallets[env.MINER_WALLET].keys
  /\ wallets[env.MINER_WALLET].kind # "none"

WalletMade ==
  /\ pc' = "import" /\ bitcoind = "up" /\ loaded' = loaded \cup {env.MINER_WALLET}
  /\ \A v \in Wallets \ {env.MINER_WALLET} : wallets'[v] = wallets[v]
  /\ wallets'[env.MINER_WALLET].kind = "descriptor"

LEMMA Ensured ==
  ASSUME TypeInv, EnsureWallet
  PROVE  WalletFound \/ WalletReloaded \/ WalletMade
<1> DEFINE w == env.MINER_WALLET
<1>1. /\ w \in Wallets /\ wallets \in [Wallets -> WalletType]
      /\ wallets[w] \in WalletType
  BY EnvType DEF TypeInv
<1>2. CASE bitcoind # "up" \/ w \in loaded
  BY <1>2 DEF EnsureWallet, Goto, WalletFound
<1>3. CASE bitcoind = "up" /\ w \notin loaded /\ wallets[w].kind # "none"
  <2>1. /\ pc' = "startmine" /\ loaded' = loaded \cup {w}
        /\ wallets' = [wallets EXCEPT ![w].auto = TRUE]
    BY <1>3 DEF EnsureWallet, Goto
  <2>2. wallets'[w] = [wallets[w] EXCEPT !.auto = TRUE]
    BY <1>1, <2>1
  <2>3. /\ wallets'[w].kind = wallets[w].kind
        /\ wallets'[w].keys = wallets[w].keys
        /\ wallets'[w].auto
    BY <1>1, <2>2 DEF WalletType
  <2>4. \A v \in Wallets \ {w} : wallets'[v] = wallets[v]
    BY <1>1, <2>1
  <2> QED BY <1>3, <2>1, <2>3, <2>4 DEF WalletReloaded
<1>4. CASE bitcoind = "up" /\ w \notin loaded /\ wallets[w].kind = "none"
  <2>1. pc' = "import" /\ CreateWallet(w)
    BY <1>4 DEF EnsureWallet, Goto
  <2> QED BY <1>1, <1>4, <2>1, Created DEF WalletMade
<1> QED BY <1>2, <1>3, <1>4

LEMMA LoadNext == TypeInv /\ LoadInv /\ [Next]_vars => LoadInv'
<1> SUFFICES ASSUME TypeInv, LoadInv, [Next]_vars PROVE LoadInv'
  OBVIOUS
<1>1. /\ custom \in Wallets /\ env.MINER_WALLET \in Wallets
      /\ loaded \in SUBSET Wallets
  BY EnvType, ContainerAssumption DEF TypeInv
<1>2. CASE SetupCreate
  BY <1>1, <1>2, Created DEF SetupCreate, LoadInv
<1>3. CASE SetupImport
  BY <1>1, <1>3, Imported DEF SetupImport, LoadInv
<1>4. CASE MigrateWallet
  <2>1. CASE pc' = "migimport"
    BY <1>1, <1>4, <2>1, Migrated DEF LoadInv
  <2>2. CASE pc' # "migimport"
    BY <1>4, <2>2 DEF MigrateWallet, Goto, Gone, LoadInv
  <2> QED BY <2>1, <2>2
<1>5. CASE MigrateImport
  BY <1>1, <1>5, Imported DEF MigrateImport, LoadInv
<1>6. CASE EnsureWallet
  <2>1. CASE WalletFound
    BY <2>1 DEF WalletFound, LoadInv
  <2>2. CASE WalletReloaded
    BY <1>1, <2>2 DEF WalletReloaded, LoadInv
  <2>3. CASE WalletMade
    BY <1>1, <2>3 DEF WalletMade, LoadInv
  <2> QED BY <1>6, <2>1, <2>2, <2>3, Ensured
<1>7. CASE EnsureImport
  BY <1>1, <1>7, Imported DEF EnsureImport, LoadInv
<1>8. CASE wallets' = wallets /\ loaded' \in {loaded, {}, AutoLoaded}
  BY <1>8 DEF LoadInv, AutoLoaded
<1>9. CASE UNCHANGED vars
  BY <1>9 DEF vars, node, LoadInv
<1> QED BY <1>2, <1>3, <1>4, <1>5, <1>6, <1>7, <1>8, <1>9, WalletsKept DEF Walleting

(***************************************************************************)
(* The install.                                                            *)
(***************************************************************************)
LEMMA TornGrows == [Next]_vars => torn \ {"keys"} \subseteq torn'
BY DEF Next, Scripts, Daemon, Entry, TouchModern, GenPrivkey, GenPrivkeyFails,
       GenChallenge, GenConf, SetupDaemon, SetupCreate, SetupImport,
       TouchInstalled, StopInstalled, MigrateDaemon, MigrateWallet, MigrateImport,
       MigrateTouch, MigrateStop, RunDaemon, RpcWait, EnsureWallet, EnsureImport,
       StartMine, Wait, Shutdown, Boot, DaemonReady, DaemonStops, Stop, GraceOver,
       Crash, Killed, Cut, DaemonDies, MineDies, RegtestEnds, vars, history

\* Only gen-signet-keys.sh makes a key, or fails to.
LEMMA KeysMade ==
  [Next]_vars => GenPrivkey \/ GenPrivkeyFails \/ (KeyMade' <=> KeyMade)
BY DEF Next, Scripts, Daemon, Entry, TouchModern, GenChallenge, GenConf,
       SetupDaemon, SetupCreate, SetupImport, TouchInstalled, StopInstalled,
       MigrateDaemon, MigrateWallet, MigrateImport, MigrateTouch, MigrateStop,
       RunDaemon, RpcWait, EnsureWallet, EnsureImport, StartMine, Wait, Shutdown,
       Boot, DaemonReady, DaemonStops, Stop, GraceOver, Crash, Killed, Cut,
       DaemonDies, MineDies, RegtestEnds, vars, history, KeyMade

\* Until the install is over only entry, install.sh and what happens outside
\* the scripts take place.
LEMMA InstallSteps ==
  ASSUME TypeInv, PhaseInv, Next, ~installDone
  PROVE  Install \/ Entry \/ Outside
<1>1. pc \in {"entry", "down"} \cup Installing
  BY DEF TypeInv, PhaseInv, PCs, Stopping, Migrating, Running, Installing, Late
<1>2. ~(MigrateDaemon \/ MigrateWallet \/ MigrateImport \/ MigrateTouch
        \/ MigrateStop)
  BY <1>1 DEF MigrateDaemon, MigrateWallet, MigrateImport, MigrateTouch, MigrateStop,
       Goto, Installing, Keyed
<1>3. ~RunSh
  BY <1>1 DEF RunSh, RunDaemon, RpcWait, EnsureWallet, EnsureImport, StartMine, Wait,
       Shutdown, InRun, Goto, Installing, Keyed
<1> QED BY <1>2, <1>3, NextCases DEF Migrate

LEMMA InstallNext ==
  TypeInv /\ PhaseInv /\ KeyInv /\ LoadInv /\ InstallInv /\ [Next]_vars => InstallInv'
<1> SUFFICES ASSUME TypeInv, PhaseInv, KeyInv, LoadInv, InstallInv, [Next]_vars,
                    ~installDone'
             PROVE  InstallInv'
  BY DEF InstallInv
<1>1. /\ custom \in Wallets /\ env.MINERENABLED \in BOOLEAN
      /\ Whole' => Whole
      /\ pc # "keys" => (KeyMade' <=> KeyMade)
  BY EnvType, ContainerAssumption, TornGrows, KeysMade
     DEF TypeInv, Whole, GenPrivkey, GenPrivkeyFails, Goto
<1>2. CASE Install \/ Entry \/ Outside
  <2>1. CASE SetupCreate
    <3>1. /\ ~installDone /\ pc = "instcreate" /\ pc' = "instimport"
          /\ CreateWallet(custom) /\ bitcoind' = bitcoind
      BY <2>1 DEF SetupCreate, Goto, PhaseInv, Installing, Keyed
    <3> QED BY <1>1, <3>1, Created DEF InstallInv
  <2>2. CASE SetupImport
    <3>1. /\ ~installDone /\ pc = "instimport" /\ pc' = "installed"
          /\ modern /\ privkey' = privkey /\ Chal' = Chal /\ env' = env
          /\ bitcoind' = bitcoind /\ loaded' = loaded
      BY <2>2 DEF SetupImport, Goto, PhaseInv, Installing, Keyed, files, Chal
    <3>2. env.MINERENABLED => ImportKeys(custom) /\ (KeyMade => Chal \in privkey)
      BY <2>2, <3>1 DEF SetupImport, KeyInv, Keyed
    <3>3. ~env.MINERENABLED => wallets' = wallets
      BY <2>2, <3>1 DEF SetupImport
    <3>4. CASE env.MINERENABLED
      BY <1>1, <3>1, <3>2, <3>4, Imported DEF InstallInv
    <3>5. CASE ~env.MINERENABLED
      BY <1>1, <3>1, <3>3, <3>5 DEF InstallInv
    <3> QED BY <3>4, <3>5
  <2>3. CASE SetupDaemon
    <3>1. /\ pc' = "instcreate" /\ bitcoind' = "up" /\ loaded' = AutoLoaded
          /\ wallets' = wallets /\ ~installDone
      BY <2>3 DEF SetupDaemon, Goto, StartAndWait, files
    <3> QED BY <1>1, <3>1 DEF InstallInv, AutoLoaded
  <2>4. CASE TouchModern \/ GenPrivkey \/ GenPrivkeyFails \/ GenChallenge \/ GenConf
    <3>1. /\ pc' \notin {"instcreate", "instimport", "installed"}
          /\ wallets' = wallets /\ ~installDone
      BY <2>4 DEF TouchModern, GenPrivkey, GenPrivkeyFails,
       GenChallenge, GenConf, Goto, node, files
    <3> QED BY <3>1 DEF InstallInv
  <2>5. CASE TouchInstalled \/ StopInstalled \/ Entry
    <3>1. /\ pc' \notin {"instcreate", "instimport", "installed"}
          /\ wallets' = wallets /\ ~installDone
      BY <2>5 DEF TouchInstalled, StopInstalled, Entry, Goto, node, files
    <3> QED BY <3>1 DEF InstallInv
  <2>6. CASE DaemonReady
    <3>1. /\ bitcoind = "starting" /\ bitcoind' = "up" /\ loaded' = AutoLoaded
          /\ UNCHANGED <<env, pc, installDone, challenge, wallets>>
      BY <2>6 DEF DaemonReady, StartAndWait, files
    <3>2. Chal' = Chal
      BY <3>1 DEF Chal
    <3> QED BY <1>1, <3>1, <3>2 DEF InstallInv, AutoLoaded
  <2>7. CASE DaemonStops
    <3>1. bitcoind = "stopping" /\ UNCHANGED <<env, pc, installDone, challenge, wallets>>
      BY <2>7 DEF DaemonStops, files
    <3>2. Chal' = Chal
      BY <3>1 DEF Chal
    <3> QED BY <1>1, <3>1, <3>2 DEF InstallInv
  <2>8. CASE DaemonDies
    <3>1. /\ UNCHANGED <<env, pc, installDone, challenge, wallets>>
          /\ pc \in {"instcreate", "instimport"} => ~Whole'
      BY <2>8 DEF DaemonDies, files, Whole
    <3>2. Chal' = Chal
      BY <3>1 DEF Chal
    <3> QED BY <1>1, <3>1, <3>2 DEF InstallInv
  <2>9. CASE Boot \/ GraceOver \/ Crash
    <3>1. /\ pc' \notin {"instcreate", "instimport", "installed"}
          /\ wallets' = wallets /\ ~installDone
      BY <2>9 DEF Boot, GraceOver, Crash, Killed, Goto, files
    <3> QED BY <3>1 DEF InstallInv
  <2>10. CASE Stop \/ MineDies \/ RegtestEnds
    <3>1. UNCHANGED <<env, pc, installDone, challenge, wallets, bitcoind, loaded>>
      BY <2>10 DEF Stop, MineDies, RegtestEnds, files, node
    <3>2. Chal' = Chal
      BY <3>1 DEF Chal
    <3> QED BY <1>1, <3>1, <3>2 DEF InstallInv
  <2> QED BY <1>2, <2>1, <2>2, <2>3, <2>4, <2>5, <2>6, <2>7, <2>8, <2>9, <2>10
        DEF Install, Outside
<1>3. CASE UNCHANGED vars
  BY <1>3 DEF vars, files, node, history, InstallInv, Chal, Whole, KeyMade
<1>4. Next => ~installDone
  <2>1. Next /\ installDone => installDone'
    BY DEF Next, Scripts, Daemon, Entry, TouchModern, GenPrivkey, GenPrivkeyFails,
       GenChallenge, GenConf, SetupDaemon, SetupCreate, SetupImport, TouchInstalled,
       StopInstalled, MigrateDaemon, MigrateWallet, MigrateImport, MigrateTouch,
       MigrateStop, RunDaemon, RpcWait, EnsureWallet, EnsureImport, StartMine,
       Wait, Shutdown, Boot, DaemonReady, DaemonStops, Stop, GraceOver, Crash,
       Killed, DaemonDies, MineDies, RegtestEnds, files
  <2> QED BY <2>1
<1> QED BY <1>2, <1>3, <1>4, InstallSteps

(***************************************************************************)
(* After the install.  No step writes the keys or the challenge again.     *)
(***************************************************************************)
LEMMA Settled ==
  ASSUME TypeInv, PhaseInv, [Next]_vars, installDone
  PROVE  /\ env' = env /\ privkey' = privkey /\ Chal' = Chal
         /\ KeyMade' <=> KeyMade
         /\ ~Install \/ StopInstalled \/ GenConf
<1>1. pc \notin Installing
  BY DEF PhaseInv
<1>2. ~(TouchModern \/ GenPrivkey \/ GenPrivkeyFails \/ GenChallenge
        \/ SetupDaemon \/ SetupCreate
        \/ SetupImport \/ TouchInstalled)
  BY <1>1 DEF TouchModern, GenPrivkey, GenPrivkeyFails,
       GenChallenge, SetupDaemon, SetupCreate,
       SetupImport, TouchInstalled, Goto, Installing, Keyed
<1> SUFFICES env' = env /\ privkey' = privkey /\ Chal' = Chal
  BY <1>2, KeysMade DEF Install
<1>3. CASE Install
  BY <1>2, <1>3 DEF Install, GenConf, StopInstalled, files, Chal
<1>4. CASE Migrate
  BY <1>4 DEF Migrate, Entry, MigrateDaemon, MigrateWallet, MigrateImport,
       MigrateTouch, MigrateStop, files, Chal
<1>5. CASE RunSh
  BY <1>5 DEF RunSh, RunDaemon, RpcWait, EnsureWallet, EnsureImport, StartMine,
       Wait, Shutdown, files, Chal
<1>6. CASE Outside
  BY <1>6 DEF Outside, Boot, DaemonReady, DaemonStops, Stop, GraceOver, Crash,
       Killed, DaemonDies, MineDies, RegtestEnds, files, Chal
<1>7. CASE UNCHANGED vars
  BY <1>7 DEF vars, files, Chal
<1> QED BY <1>3, <1>4, <1>5, <1>6, <1>7, NextCases

\* A step that leaves the wallets alone and does not come to a place where an
\* import is due, or leave one without it.
LEMMA ImportIdle ==
  ASSUME TypeInv, PhaseInv, ImportInv, [Next]_vars, installDone, installDone',
         UNCHANGED <<modern, wallets>>,
         pc' \notin {"migimport", "migtouch", "import"},
         Whole' => pc # "import"
  PROVE  ImportInv'
<1>1. env' = env /\ Chal' = Chal /\ (Whole' => Whole) /\ (KeyMade' <=> KeyMade)
  BY Settled, TornGrows DEF Whole
<1> QED BY <1>1 DEF ImportInv

\* A step that leaves the place, the wallets and the daemon alone.
LEMMA ImportStill ==
  ASSUME TypeInv, PhaseInv, ImportInv, [Next]_vars, installDone, installDone',
         UNCHANGED <<pc, modern, wallets>>,
         Whole' => UNCHANGED <<bitcoind, loaded>> \/ pc \notin {"migimport", "import"}
  PROVE  ImportInv'
<1>1. env' = env /\ Chal' = Chal /\ (Whole' => Whole) /\ (KeyMade' <=> KeyMade)
  BY Settled, TornGrows DEF Whole
<1> QED BY <1>1 DEF ImportInv

LEMMA ImportNext ==
  ASSUME TypeInv, PhaseInv, NetInv, KeyInv, LoadInv, InstallInv, ImportInv,
         [Next]_vars
  PROVE  ImportInv'
<1>1. /\ custom \in Wallets /\ env.MINERENABLED \in BOOLEAN
      /\ env.MINER_WALLET \in Wallets /\ (Whole' => Whole)
  BY EnvType, ContainerAssumption, TornGrows DEF TypeInv, Whole
<1>2. SUFFICES ASSUME installDone', env.MINERENABLED, Whole', KeyMade', Next
               PROVE  ImportInv'
  <2>1. CASE UNCHANGED vars
    BY <2>1 DEF vars, files, node, history, ImportInv, Chal, Whole, KeyMade
  <2>2. Next => env' = env
    BY EnvKept
  <2> QED BY <2>1, <2>2 DEF ImportInv
<1>3. CASE TouchInstalled
  <2>1. /\ pc = "installed" /\ pc' = "inststop" /\ ~installDone
        /\ UNCHANGED <<env, challenge, wallets>> /\ KeyMade
    BY <1>2, <1>3 DEF TouchInstalled, Goto, PhaseInv, Installing, Keyed, node,
       history, KeyMade
  <2>2. Chal' = Chal
    BY <2>1 DEF Chal
  <2> QED BY <1>1, <1>2, <2>1, <2>2 DEF ImportInv, InstallInv
<1>4. CASE ~TouchInstalled
  <2>1. installDone
    BY <1>2, <1>4 DEF Next, Scripts, Daemon, Entry, TouchModern, GenPrivkey,
       GenPrivkeyFails, GenChallenge, GenConf, SetupDaemon, SetupCreate, SetupImport,
       StopInstalled, MigrateDaemon, MigrateWallet, MigrateImport, MigrateTouch,
       MigrateStop, RunDaemon, RpcWait, EnsureWallet, EnsureImport, StartMine,
       Wait, Shutdown, Boot, DaemonReady, DaemonStops, Stop, GraceOver, Crash,
       Killed, DaemonDies, MineDies, RegtestEnds, files
  <2>2. /\ env' = env /\ privkey' = privkey /\ Chal' = Chal /\ KeyMade
        /\ ~Install \/ StopInstalled \/ GenConf
        /\ Chal \in privkey
    BY <1>2, <2>1, Settled DEF KeyInv
  <2>3. CASE StopInstalled \/ GenConf
    <3>1. /\ UNCHANGED <<modern, wallets>> /\ pc # "import"
          /\ pc' \notin {"migimport", "migtouch", "import"}
      BY <2>3 DEF StopInstalled, GenConf, Goto, files, node
    <3> QED BY <1>2, <2>1, <3>1, ImportIdle
  <2>4. CASE Entry \/ MigrateDaemon \/ MigrateStop
    <3>1. /\ UNCHANGED <<modern, wallets>> /\ pc # "import"
          /\ pc' \notin {"migimport", "migtouch", "import"}
      BY <2>4 DEF Entry, MigrateDaemon, MigrateStop, Goto, files, node
    <3> QED BY <1>2, <2>1, <3>1, ImportIdle
  <2>5. CASE MigrateWallet
    <3>1. CASE pc' = "migimport"
      <4>1. pc = "migwallet" /\ modern' = modern /\ ~modern
        BY <2>5 DEF MigrateWallet, Goto, files, PhaseInv, Migrating
      <4> QED BY <1>1, <1>2, <2>1, <2>2, <2>5, <3>1, <4>1, Migrated DEF ImportInv
    <3>2. CASE pc' # "migimport"
      <4>1. pc # "import" /\ pc' = "down" /\ UNCHANGED <<modern, wallets>>
        BY <2>5, <3>2 DEF MigrateWallet, Goto, files
      <4> QED BY <1>2, <2>1, <4>1, ImportIdle
    <3> QED BY <3>1, <3>2
  <2>6. CASE MigrateImport
    <3>1. /\ pc = "migimport" /\ pc' = "migtouch" /\ modern' = modern /\ ~modern
          /\ ImportKeys(custom)
      BY <2>6 DEF MigrateImport, Goto, files, PhaseInv, Migrating
    <3>2. bitcoind = "up" /\ custom \in loaded
      BY <1>1, <1>2, <2>1, <2>2, <3>1 DEF ImportInv
    <3> QED BY <1>1, <1>2, <2>1, <2>2, <3>1, <3>2, Imported DEF ImportInv
  <2>7. CASE MigrateTouch
    <3>1. pc = "migtouch" /\ pc' = "migstop" /\ wallets' = wallets
      BY <2>7 DEF MigrateTouch, Goto, node
    <3> QED BY <1>1, <1>2, <2>1, <2>2, <3>1 DEF ImportInv
  <2>8. CASE RunDaemon \/ RpcWait \/ StartMine \/ Wait
    <3>1. /\ UNCHANGED <<modern, wallets>> /\ pc # "import"
          /\ pc' \notin {"migimport", "migtouch", "import"}
      BY <2>8 DEF RunDaemon, RpcWait, StartMine, Wait, Goto, files, node
    <3> QED BY <1>2, <2>1, <3>1, ImportIdle
  <2>9. CASE EnsureWallet
    <3>1. pc = "wallet" /\ UNCHANGED <<modern, bitcoind>>
      BY <2>9 DEF EnsureWallet, Goto, files
    <3>2. \A w \in Wallets :
            wallets[w].kind # "none" =>
              Chal \in wallets[w].keys \/ (w = custom /\ ~modern)
      BY <1>1, <1>2, <2>1, <2>2, <3>1 DEF ImportInv
    <3>3. CASE WalletFound
      BY <1>2, <2>1, <3>1, <3>3, ImportIdle DEF WalletFound
    <3>4. CASE WalletReloaded
      <4>1. \A w \in Wallets : /\ wallets'[w].kind = wallets[w].kind
                               /\ wallets'[w].keys = wallets[w].keys
        BY <3>4 DEF WalletReloaded
      <4>2. pc' = "startmine"
        BY <3>4 DEF WalletReloaded
      <4> QED BY <1>2, <2>2, <3>1, <3>2, <4>1, <4>2 DEF ImportInv
    <3>5. CASE WalletMade
      BY <1>2, <2>2, <3>1, <3>2, <3>5 DEF ImportInv, WalletMade
    <3> QED BY <2>9, <3>3, <3>4, <3>5, Ensured
  <2>10. CASE EnsureImport
    <3>1. /\ pc = "import" /\ pc' = "startmine" /\ modern' = modern
          /\ ImportKeys(env.MINER_WALLET)
      BY <2>10 DEF EnsureImport, Goto, files
    <3>2. bitcoind = "up" /\ env.MINER_WALLET \in loaded
      BY <1>1, <1>2, <2>1, <2>2, <3>1 DEF ImportInv
    <3> QED BY <1>1, <1>2, <2>1, <2>2, <3>1, <3>2, Imported DEF ImportInv
  <2>11. CASE Shutdown \/ Stop \/ MineDies \/ RegtestEnds
    <3>1. /\ UNCHANGED <<pc, modern, wallets>>
          /\ UNCHANGED <<bitcoind, loaded>> \/ pc \notin {"migimport", "import"}
      BY <2>11 DEF Shutdown, Stop, MineDies, RegtestEnds, files, node, InRun,
           Foreground
    <3> QED BY <1>2, <2>1, <3>1, ImportStill
  <2>12. CASE DaemonReady \/ DaemonStops
    <3>1. /\ UNCHANGED <<pc, modern, wallets>>
          /\ bitcoind \in {"starting", "stopping"}
      BY <2>12 DEF DaemonReady, DaemonStops, files
    <3>2. pc \notin {"migimport", "import"}
      BY <1>1, <1>2, <2>1, <2>2, <3>1 DEF ImportInv
    <3> QED BY <1>2, <2>1, <3>1, <3>2, ImportStill
  <2>13. CASE DaemonDies
    <3>1. UNCHANGED <<pc, modern, wallets>> /\ pc \notin {"migimport", "import"}
      BY <1>2, <2>13 DEF DaemonDies, files, Whole
    <3> QED BY <1>2, <2>1, <3>1, ImportStill
  <2>14. CASE Boot \/ GraceOver \/ Crash
    <3>1. /\ UNCHANGED <<modern, wallets>> /\ pc # "import"
          /\ pc' \notin {"migimport", "migtouch", "import"}
      BY <1>2, <2>14 DEF Boot, GraceOver, Crash, Killed, Cut, Goto, files, Whole
    <3> QED BY <1>2, <2>1, <3>1, ImportIdle
  <2> QED BY <1>2, <2>2, <2>3, <2>4, <2>5, <2>6, <2>7, <2>8, <2>9, <2>10, <2>11,
             <2>12, <2>13, <2>14, NextCases DEF Migrate, RunSh, Outside
<1> QED BY <1>3, <1>4

(***************************************************************************)
(* The miner's wallet exists.                                              *)
(***************************************************************************)
LEMMA ServeNext ==
  ASSUME TypeInv, PhaseInv, LoadInv, ServeInv, [Next]_vars
  PROVE  ServeInv'
<1>1. /\ env \in Envs /\ env.MINERENABLED \in BOOLEAN
      /\ env.MINER_WALLET \in Wallets
  BY EnvType DEF TypeInv
<1>2. SUFFICES ASSUME Next, pc' \in {"import", "startmine", "wait"}, env.MINERENABLED,
                      bitcoind' = "up"
               PROVE  wallets'[env.MINER_WALLET].kind # "none"
  <2>1. CASE UNCHANGED vars
    BY <2>1 DEF vars, node, ServeInv
  <2> QED BY <2>1, EnvKept DEF ServeInv
<1>3. CASE EnsureWallet
  <2>1. bitcoind' = bitcoind
    BY <1>3 DEF EnsureWallet
  <2>2. CASE WalletFound
    BY <1>2, <2>1, <2>2 DEF WalletFound, LoadInv
  <2>3. CASE WalletReloaded
    BY <2>3 DEF WalletReloaded
  <2>4. CASE WalletMade
    BY <2>4 DEF WalletMade
  <2> QED BY <1>3, <2>2, <2>3, <2>4, Ensured
<1>4. CASE EnsureImport
  <2>1. pc = "import" /\ bitcoind' = bitcoind /\ ImportKeys(env.MINER_WALLET)
    BY <1>4 DEF EnsureImport, Goto
  <2> QED BY <1>1, <1>2, <2>1, Imported DEF ServeInv
<1>5. CASE StartMine \/ Stop \/ MineDies \/ RegtestEnds
  <2>1. /\ pc \in {"import", "startmine", "wait"}
        /\ wallets' = wallets /\ bitcoind' = bitcoind
    BY <1>2, <1>5 DEF StartMine, Stop, MineDies, RegtestEnds, Goto, node
  <2> QED BY <1>2, <2>1 DEF ServeInv
<1>6. CASE DaemonReady
  BY <1>2, <1>6 DEF DaemonReady, PhaseInv, Late
<1>7. ~Install
  BY <1>2 DEF Install, TouchModern, GenPrivkey, GenPrivkeyFails,
       GenChallenge, GenConf,
       SetupDaemon, SetupCreate, SetupImport, TouchInstalled, StopInstalled, Goto
<1>8. ~Migrate
  BY <1>2 DEF Migrate, Entry, MigrateDaemon, MigrateWallet, MigrateImport,
       MigrateTouch, MigrateStop, Goto
<1>9. ~(RunDaemon \/ RpcWait \/ Wait \/ Shutdown)
  BY <1>2 DEF RunDaemon, RpcWait, Wait, Shutdown, Goto
<1>10. ~(Boot \/ DaemonStops \/ GraceOver \/ Crash \/ DaemonDies)
  BY <1>2 DEF Boot, DaemonStops, GraceOver, Crash, Killed, DaemonDies, Gone
<1> QED BY <1>2, <1>3, <1>4, <1>5, <1>6, <1>7, <1>8, <1>9, <1>10, NextCases
        DEF RunSh, Outside

(***************************************************************************)
(* Signals.                                                                *)
(***************************************************************************)
LEMMA StopNext ==
  ASSUME TypeInv, PhaseInv, StopInv, [Next]_vars
  PROVE  StopInv'
<1> USE DEF Late, Goto, history, node, StopInv
<1>1. early \in BOOLEAN /\ slow \in BOOLEAN /\ unclean \in BOOLEAN
  BY DEF TypeInv
<1>2. CASE Install
  <2>1. pc \notin Late \cup {"down"} /\ UNCHANGED <<sig, early, slow, unclean>>
    BY <1>2 DEF Install, TouchModern, GenPrivkey, GenPrivkeyFails,
       GenChallenge, GenConf,
       SetupDaemon, SetupCreate, SetupImport, TouchInstalled, StopInstalled
  <2> QED BY <2>1
<1>3. CASE Migrate
  <2>1. pc \notin Late \cup {"down"} /\ UNCHANGED <<sig, early, slow, unclean>>
    BY <1>3 DEF Migrate, Entry, MigrateDaemon, MigrateWallet, MigrateImport,
       MigrateTouch, MigrateStop
  <2> QED BY <2>1
<1>4. CASE RunSh
  <2>1. CASE RunDaemon \/ RpcWait
    <3>1. pc \notin Late \cup {"down"} /\ UNCHANGED <<sig, early, slow, unclean>>
      BY <2>1 DEF RunDaemon, RpcWait
    <3> QED BY <3>1
  <2>2. CASE EnsureWallet \/ EnsureImport \/ StartMine \/ Wait
    <3>1. /\ pc' \in Late \cup {"down"}
          /\ UNCHANGED <<bitcoind, sig, early, slow, unclean>>
      BY <2>2 DEF EnsureWallet, EnsureImport, StartMine, Wait
    <3> QED BY <3>1
  <2>3. CASE Shutdown
    <3>1. bitcoind \in Daemons /\ (pc \in Late => bitcoind # "starting")
      BY DEF TypeInv, PhaseInv
    <3>2. /\ UNCHANGED <<pc, early, slow, unclean>> /\ sig = "pending" /\ sig' = "seen"
          /\ bitcoind' = IF bitcoind = "up" THEN "stopping" ELSE bitcoind
          /\ pc # "down"
      BY <2>3 DEF Shutdown, InRun
    <3> QED BY <3>1, <3>2 DEF Daemons
  <2> QED BY <1>4, <2>1, <2>2, <2>3 DEF RunSh
<1>5. CASE Outside
  <2>1. CASE Boot
    BY <2>1 DEF Boot
  <2>2. CASE DaemonReady
    <3>1. /\ pc \notin Late \cup {"down"}
          /\ UNCHANGED <<pc, sig, early, slow, unclean>>
      BY <2>2 DEF DaemonReady, PhaseInv
    <3> QED BY <3>1
  <2>3. CASE DaemonStops \/ DaemonDies
    <3>1. bitcoind' = "none" /\ UNCHANGED <<pc, sig, early, slow, unclean>>
      BY <2>3 DEF DaemonStops, DaemonDies, Gone
    <3> QED BY <3>1
  <2>4. CASE Stop
    <3>1. /\ unclean' = FALSE /\ pc' = pc
          /\ early' = (pc \notin InRun \ {"rpcwait"})
          /\ sig' = IF pc \in InRun THEN "pending" ELSE "seen"
      BY <2>4 DEF Stop
    <3>2. ~early' => pc \in Late /\ sig' = "pending"
      BY <3>1 DEF InRun
    <3> QED BY <3>1, <3>2
  <2>5. CASE GraceOver
    <3>1. /\ pc' = "down" /\ bitcoind' = "none" /\ UNCHANGED <<sig, early>>
          /\ sig \in {"pending", "seen"}
          /\ slow' = (sig = "pending" \/ bitcoind = "stopping")
          /\ unclean' = (bitcoind # "none")
      BY <2>5 DEF GraceOver, Killed, Gone
    <3>2. CASE early \/ sig = "pending"
      BY <3>1, <3>2
    <3>3. CASE ~early /\ sig = "seen"
      <4>1. bitcoind \in {"none", "stopping"}
        BY <3>3
      <4> QED BY <3>1, <3>3, <4>1
    <3> QED BY <3>1, <3>2, <3>3
  <2>6. CASE Crash
    <3>1. /\ UNCHANGED <<sig, early, slow, unclean>>
          /\ pc' = "down" /\ bitcoind' = "none"
      BY <2>6 DEF Crash, Killed, Gone
    <3> QED BY <3>1
  <2>7. CASE MineDies \/ RegtestEnds
    BY <2>7 DEF MineDies, RegtestEnds
  <2> QED BY <1>5, <2>1, <2>2, <2>3, <2>4, <2>5, <2>6, <2>7 DEF Outside
<1>6. CASE UNCHANGED vars
  BY <1>6 DEF vars
<1> QED BY <1>2, <1>3, <1>4, <1>5, <1>6, NextCases

(***************************************************************************)
(* The theorems.                                                           *)
(***************************************************************************)
LEMMA Invariance == Spec => [](TypeInv /\ Inv)
<1>1. Init => TypeInv /\ Inv
  BY TypeInit, InvInit
<1>2. TypeInv /\ Inv /\ [Next]_vars => (TypeInv /\ Inv)'
  BY TypeNext, PhaseNext, NetNext, KeyNext, LoadNext, InstallNext, ImportNext,
     ServeNext, StopNext DEF Inv
<1> QED BY <1>1, <1>2, PTL DEF Spec

\* The challenge in bitcoin.conf is, whenever run.sh has started bitcoind, the
\* one that was served first, however often the install was cut short or the
\* container was killed, stopped and started again.
THEOREM NetworkKept == Spec => []SameNetwork
<1>1. TypeInv /\ Inv => SameNetwork
  BY DEF Inv, NetInv, SameNetwork
<1> QED BY <1>1, Invariance, PTL

\* A mine.sh that runs has a wallet that signs for the challenge of its
\* bitcoind, unless something died between the making of a wallet and the
\* import of its key, or the last run of gen-signet-keys.sh got no key.
THEOREM MinersSign == Spec => []MinerCanSign
<1>1. TypeInv /\ Inv => MinerCanSign
  <2> SUFFICES ASSUME TypeInv, Inv, Serving, mining, torn \cap {"wallet", "keys"} = {}
               PROVE  conf \in wallets[env.MINER_WALLET].keys
    BY DEF MinerCanSign
  <2>1. /\ pc = "wait" /\ bitcoind = "up" /\ env.MINERENABLED
        /\ installDone /\ modern /\ Whole /\ KeyMade
    BY DEF Serving, Inv, PhaseInv, Running, Late, Whole, KeyMade
  <2>2. env.MINER_WALLET \in Wallets
    BY EnvType DEF TypeInv
  <2>3. wallets[env.MINER_WALLET].kind # "none"
    BY <2>1 DEF Inv, ServeInv
  <2>4. Chal \in wallets[env.MINER_WALLET].keys
    BY <2>1, <2>2, <2>3 DEF Inv, ImportInv
  <2>5. conf = Chal
    BY <2>1 DEF Inv, NetInv, Running, Late
  <2> QED BY <2>4, <2>5
<1> QED BY <1>1, Invariance, PTL

\* A docker stop whose SIGTERM comes after the wait for RPC ends in the kill of
\* a bitcoind that was still running only if the grace period was too short for
\* ensure-miner-wallet.sh or for the flush: the signal itself is never lost.
THEOREM StopsFlush == Spec => []StopFlushes
<1>1. TypeInv /\ Inv => StopFlushes
  BY DEF Inv, StopInv, StopFlushes
<1> QED BY <1>1, Invariance, PTL
=============================================================================
