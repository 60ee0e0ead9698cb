--------------------------- MODULE SparkOperators ---------------------------
(***************************************************************************)
(* The two Spark operators of src/docker-compose.yml, as far as            *)
(* src/spark-entrypoint.sh brings them up: each makes an identity and a    *)
(* TLS certificate in its own volume, publishes both to a shared volume,   *)
(* waits for the other's and writes operators.json.  Containers crash at   *)
(* any step and are started again (restart: always); src/reset-spark.sh    *)
(* stops both, or goes on when that fails, drops their databases, empties  *)
(* the volumes and starts them over.                                       *)
(*                                                                         *)
(* A file is Absent, Empty (a redirection has created it and nothing has   *)
(* been written yet) or holds what was written: the number of an identity  *)
(* or of a TLS key pair of one operator, who never uses a number twice.    *)
(***************************************************************************)
EXTENDS Integers, FiniteSets

CONSTANTS
  LegacyTls,     \* operators whose volume holds an old CA-marked certificate
  MaxFaults,     \* bound: crashes, failed signers, resets interrupted, containers not stopped
  MaxResets      \* bound: runs of reset-spark.sh

Operators == {0, 1}

ASSUME SparkAssumption ==
  /\ LegacyTls \subseteq Operators
  /\ MaxFaults \in Nat
  /\ MaxResets \in Nat

VARIABLES
  pc,          \* where each entrypoint is
  db,          \* sparkoperator_N: "none" or "migrated"
  keypair,     \* $HOME_DIR/keypair_N.txt
  key,         \* $HOME_DIR/operator_N.key
  tlsCert,     \* $HOME_DIR/server.crt
  tlsKey,      \* $HOME_DIR/server.key
  tmp,         \* the pair in server.key.tmp and server.crt.tmp
  oldCert,     \* server.crt.legacy-ca
  oldKey,      \* server.key.legacy-ca
  pub,         \* $SHARED_DIR/pubkey_N
  crt,         \* $SHARED_DIR/server_N.crt
  read,        \* what an entrypoint has in its variables: at its own index
               \* pubkey of ensure_identity, later pub0 and pub1
  operators,   \* $HOME_DIR/operators.json: the two identity_public_key
  reset,       \* where reset-spark.sh is
  used,        \* numbers an operator has given to identities and TLS pairs
  lost,        \* history: the halves of a CA-marked pair this volume never
               \* had, whose copy was cut off, or that a reset has deleted
  racing,      \* history: the last reset went on beside a running container
  faults, resets

home == <<keypair, key, tlsCert, tlsKey, tmp, oldCert, oldKey, operators>>
shared == <<pub, crt>>
history == <<lost, racing>>
vars == <<pc, db, home, shared, read, reset, used, history, faults, resets>>

Absent == -2
Empty == -1
Legacy == 0     \* the number of the CA-marked pair
Missing == {Absent, Empty}

Exists(file) == file # Absent

Unread == [j \in Operators |-> Absent]

Init ==
  /\ pc = [i \in Operators |-> "db"]
  /\ db = [i \in Operators |-> "none"]
  /\ keypair = [i \in Operators |-> Absent]
  /\ key = [i \in Operators |-> Absent]
  /\ tlsCert = [i \in Operators |-> IF i \in LegacyTls THEN Legacy ELSE Absent]
  /\ tlsKey = tlsCert
  /\ tmp = [i \in Operators |-> Absent]
  /\ oldCert = [i \in Operators |-> Absent]
  /\ oldKey = [i \in Operators |-> Absent]
  /\ pub = [i \in Operators |-> Absent]
  /\ crt = [i \in Operators |-> Absent]
  /\ read = [i \in Operators |-> Unread]
  /\ operators = [i \in Operators |-> Unread]
  /\ reset = "idle"
  /\ used = [i \in Operators |-> 0]
  /\ lost = [i \in Operators |-> IF i \in LegacyTls THEN {} ELSE {"cert", "key"}]
  /\ racing = FALSE
  /\ faults = 0
  /\ resets = 0

Goto(i, from, to) == pc[i] = from /\ pc' = [pc EXCEPT ![i] = to]

(***************************************************************************)
(* spark-entrypoint.sh, in the order of its last lines.                    *)
(***************************************************************************)
\* wait_for_db, create_databases, run_migrations.
Databases(i) ==
  /\ Goto(i, "db", "identity")
  /\ db' = [db EXCEPT ![i] = "migrated"]
  /\ UNCHANGED <<home, shared, read, reset, used, history, faults, resets>>

\* ensure_identity: neither file is there, and the redirection of keygen.py
\* creates keypair_N.txt.
NewIdentity(i) ==
  /\ ~Exists(key[i]) /\ ~Exists(keypair[i])
  /\ Goto(i, "identity", "keygen")
  /\ keypair' = [keypair EXCEPT ![i] = Empty]
  /\ UNCHANGED <<db, key, tlsCert, tlsKey, tmp, oldCert, oldKey, operators,
                 shared, read, reset, used, history, faults, resets>>

\* What is written to a file that a reset has removed meanwhile is gone.
Keygen(i) ==
  /\ Goto(i, "keygen", "keyfile")
  /\ used' = [used EXCEPT ![i] = @ + 1]
  /\ keypair' = [keypair EXCEPT ![i] = IF Exists(@) THEN used[i] + 1 ELSE @]
  /\ UNCHANGED <<db, key, tlsCert, tlsKey, tmp, oldCert, oldKey, operators,
                 shared, read, reset, history, faults, resets>>

\* grep "PRIVATE:" ... > key_file: created, then written.
KeyFile(i) ==
  /\ \/ Goto(i, "keyfile", "keywrite") /\ key' = [key EXCEPT ![i] = Empty]
     \/ Goto(i, "keywrite", "publish") /\ key' = [key EXCEPT ![i] = keypair[i]]
  /\ UNCHANGED <<db, keypair, tlsCert, tlsKey, tmp, oldCert, oldKey, operators,
                 shared, read, reset, used, history, faults, resets>>

\* Both files are there, and the keypair holds a public key.
OldIdentity(i) ==
  /\ Exists(key[i]) /\ keypair[i] \notin Missing
  /\ Goto(i, "identity", "publish")
  /\ UNCHANGED <<db, home, shared, read, reset, used, history, faults, resets>>

\* "incomplete operator identity", or an empty public key: exit 1.
BadIdentity(i) ==
  /\ Exists(key[i]) \/ Exists(keypair[i])
  /\ ~Exists(key[i]) \/ keypair[i] \in Missing
  /\ Goto(i, "identity", "exited")
  /\ UNCHANGED <<db, home, shared, read, reset, used, history, faults, resets>>

\* Mutant: the rendezvous comes before the certificate.
Publish_ThenMeet(i) ==
  /\ \/ /\ Goto(i, "publish", "pubwrite")
        /\ read' = [read EXCEPT ![i][i] = keypair[i]]
        /\ pub' = [pub EXCEPT ![i] = Empty]
     \/ /\ Goto(i, "pubwrite", "rendezvous")
        /\ pub' = [pub EXCEPT ![i] = IF Exists(@) THEN read[i][i] ELSE @]
        /\ read' = [read EXCEPT ![i] = Unread]
  /\ UNCHANGED <<db, home, crt, reset, used, history, faults, resets>>

\* pubkey=$(grep "PUBLIC:" ...); echo "$pubkey" > "$SHARED_DIR/pubkey_N":
\* created or truncated, then written.
Publish(i) ==
  /\ \/ /\ Goto(i, "publish", "pubwrite")
        /\ read' = [read EXCEPT ![i][i] = keypair[i]]
        /\ pub' = [pub EXCEPT ![i] = Empty]
     \/ /\ Goto(i, "pubwrite", "tls")
        /\ pub' = [pub EXCEPT ![i] = IF Exists(@) THEN read[i][i] ELSE @]
        /\ read' = [read EXCEPT ![i] = Unread]
  /\ UNCHANGED <<db, home, crt, reset, used, history, faults, resets>>

\* Mutant: any certificate with a key will do.
TlsCheck_AnyPair(i) ==
  /\ LET both == Exists(tlsCert[i]) /\ Exists(tlsKey[i])
     IN  \/ both /\ tlsCert[i] = tlsKey[i] /\ tlsCert[i] = Legacy
            /\ Goto(i, "tls", "oldcert")
         \/ both /\ ~(tlsCert[i] = tlsKey[i] /\ tlsCert[i] = Legacy)
            /\ Goto(i, "tls", "certpub")
         \/ ~both /\ Goto(i, "tls", "gentls")
  /\ UNCHANGED <<db, home, shared, read, reset, used, history, faults, resets>>

\* ensure_tls_cert: the pair is good, is CA-marked, or is incomplete.
TlsCheck(i) ==
  /\ LET both == Exists(tlsCert[i]) /\ Exists(tlsKey[i])
     IN  \/ both /\ tlsCert[i] # Legacy /\ Goto(i, "tls", "certpub")
         \/ both /\ tlsCert[i] = Legacy /\ Goto(i, "tls", "oldcert")
         \/ ~both /\ Goto(i, "tls", "gentls")
  /\ UNCHANGED <<db, home, shared, read, reset, used, history, faults, resets>>

\* Mutant: each rotation writes the backups anew.
TlsBackup_Overwrites(i) ==
  /\ \/ /\ Goto(i, "oldcert", "cpcert")
        /\ oldCert' = [oldCert EXCEPT ![i] = Empty]
        /\ UNCHANGED oldKey
     \/ /\ Goto(i, "cpcert", "oldkey")
        /\ oldCert' = [oldCert EXCEPT ![i] = IF Exists(@) THEN tlsCert[i] ELSE @]
        /\ UNCHANGED oldKey
     \/ /\ Goto(i, "oldkey", "cpkey")
        /\ oldKey' = [oldKey EXCEPT ![i] = Empty]
        /\ UNCHANGED oldCert
     \/ /\ Goto(i, "cpkey", "gentls")
        /\ oldKey' = [oldKey EXCEPT ![i] = IF Exists(@) THEN tlsKey[i] ELSE @]
        /\ UNCHANGED oldCert
  /\ UNCHANGED <<db, keypair, key, tlsCert, tlsKey, tmp, operators, shared, read,
                 reset, used, history, faults, resets>>

\* The CA-marked pair is kept aside, each half unless a file of that name is
\* there already.  cp creates its target and then fills it.
TlsBackup(i) ==
  /\ \/ /\ ~Exists(oldCert[i])
        /\ Goto(i, "oldcert", "cpcert")
        /\ oldCert' = [oldCert EXCEPT ![i] = Empty]
        /\ UNCHANGED oldKey
     \/ /\ Goto(i, "cpcert", "oldkey")
        /\ oldCert' = [oldCert EXCEPT ![i] = IF Exists(@) THEN tlsCert[i] ELSE @]
        /\ UNCHANGED oldKey
     \/ /\ Exists(oldCert[i])
        /\ Goto(i, "oldcert", "oldkey")
        /\ UNCHANGED <<oldCert, oldKey>>
     \/ /\ ~Exists(oldKey[i])
        /\ Goto(i, "oldkey", "cpkey")
        /\ oldKey' = [oldKey EXCEPT ![i] = Empty]
        /\ UNCHANGED oldCert
     \/ /\ Goto(i, "cpkey", "gentls")
        /\ oldKey' = [oldKey EXCEPT ![i] = IF Exists(@) THEN tlsKey[i] ELSE @]
        /\ UNCHANGED oldCert
     \/ /\ Exists(oldKey[i])
        /\ Goto(i, "oldkey", "gentls")
        /\ UNCHANGED <<oldCert, oldKey>>
  /\ UNCHANGED <<db, keypair, key, tlsCert, tlsKey, tmp, operators, shared, read,
                 reset, used, history, faults, resets>>

\* openssl genrsa and req into the temporary files.
TlsGenerate(i) ==
  /\ Goto(i, "gentls", "mvkey")
  /\ used' = [used EXCEPT ![i] = @ + 1]
  /\ tmp' = [tmp EXCEPT ![i] = used[i] + 1]
  /\ UNCHANGED <<db, keypair, key, tlsCert, tlsKey, oldCert, oldKey, operators,
                 shared, read, reset, history, faults, resets>>

TlsInstall(i) ==
  /\ \/ /\ Goto(i, "mvkey", "mvcert")
        /\ tlsKey' = [tlsKey EXCEPT ![i] = tmp[i]]
        /\ UNCHANGED <<tlsCert, tmp>>
     \/ /\ Goto(i, "mvcert", "certpub")
        /\ tlsCert' = [tlsCert EXCEPT ![i] = tmp[i]]
        /\ tmp' = [tmp EXCEPT ![i] = Absent]
        /\ UNCHANGED tlsKey
  /\ UNCHANGED <<db, keypair, key, oldCert, oldKey, operators, shared, read,
                 reset, used, history, faults, resets>>

\* cp to a temporary name and mv: the peer sees the old file or the new one.
CertPublish(i) ==
  /\ Goto(i, "certpub", "rendezvous")
  /\ crt' = [crt EXCEPT ![i] = tlsCert[i]]
  /\ UNCHANGED <<db, home, pub, read, reset, used, history, faults, resets>>

\* rendezvous_operators: all four files have appeared, or they have not after
\* sixty looks.
AllPublished == \A j \in Operators : Exists(pub[j]) /\ Exists(crt[j])

Rendezvous(i) ==
  /\ \/ AllPublished /\ Goto(i, "rendezvous", "read0")
     \/ ~AllPublished /\ Goto(i, "rendezvous", "exited")
  /\ UNCHANGED <<db, home, shared, read, reset, used, history, faults, resets>>

\* pub0=$(cat pubkey_0); pub1=$(cat pubkey_1)
ReadPubkeys(i) ==
  /\ \/ Goto(i, "read0", "read1") /\ read' = [read EXCEPT ![i][0] = pub[0]]
     \/ Goto(i, "read1", "json") /\ read' = [read EXCEPT ![i][1] = pub[1]]
  /\ UNCHANGED <<db, home, shared, reset, used, history, faults, resets>>

WriteOperators(i) ==
  /\ Goto(i, "json", "signer")
  /\ operators' = [operators EXCEPT ![i] = read[i]]
  /\ read' = [read EXCEPT ![i] = Unread]
  /\ UNCHANGED <<db, keypair, key, tlsCert, tlsKey, tmp, oldCert, oldKey,
                 shared, reset, used, history, faults, resets>>

\* start_frost_signer, then exec spark-operator, which needs its database.
StartSigner(i) ==
  /\ \/ db[i] = "migrated" /\ Goto(i, "signer", "running")
     \/ db[i] = "none" /\ Goto(i, "signer", "exited")
  /\ UNCHANGED <<db, home, shared, read, reset, used, history, faults, resets>>

\* The command that comes next uses a file that is no longer there, because a
\* reset that could not stop this container has removed it.
Lacks(i) ==
  \/ pc[i] = "keywrite" /\ ~(Exists(keypair[i]) /\ Exists(key[i]))
  \/ pc[i] = "publish" /\ ~Exists(keypair[i])
  \/ pc[i] = "oldcert" /\ ~Exists(oldCert[i]) /\ ~Exists(tlsCert[i])
  \/ pc[i] = "oldkey" /\ ~Exists(oldKey[i]) /\ ~Exists(tlsKey[i])
  \/ pc[i] \in {"mvkey", "mvcert"} /\ ~Exists(tmp[i])
  \/ pc[i] = "certpub" /\ ~Exists(tlsCert[i])
  \/ pc[i] = "read0" /\ ~Exists(pub[0])
  \/ pc[i] = "read1" /\ ~Exists(pub[1])

\* set -e: the command fails and the container exits.
FileGone(i) ==
  /\ Goto(i, pc[i], "exited")
  /\ read' = [read EXCEPT ![i] = Unread]
  /\ UNCHANGED <<db, home, shared, reset, used, history, faults, resets>>

\* The copy that ends when the container is killed now.
Copying(i) ==
  CASE pc[i] = "cpcert" -> {"cert"} [] pc[i] = "cpkey" -> {"key"} [] OTHER -> {}

\* The signer dies or its socket never appears, the container is killed, the
\* host reboots: whatever was going on stops, the volumes stay.
Crash(i) ==
  /\ faults < MaxFaults
  /\ faults' = faults + 1
  /\ pc[i] \notin {"stopped", "exited"}
  /\ pc' = [pc EXCEPT ![i] = "exited"]
  /\ read' = [read EXCEPT ![i] = Unread]
  /\ lost' = [lost EXCEPT ![i] = @ \cup Copying(i)]
  /\ UNCHANGED <<db, home, shared, reset, used, racing, resets>>

\* restart: always
Restart(i) ==
  /\ Goto(i, "exited", "db")
  /\ UNCHANGED <<db, home, shared, read, reset, used, history, faults, resets>>

Command(i) ==
  \/ Databases(i)
  \/ NewIdentity(i)
  \/ Keygen(i)
  \/ KeyFile(i)
  \/ OldIdentity(i)
  \/ BadIdentity(i)
  \/ Publish(i)
  \/ TlsCheck(i)
  \/ TlsBackup(i)
  \/ TlsGenerate(i)
  \/ TlsInstall(i)
  \/ CertPublish(i)
  \/ Rendezvous(i)
  \/ ReadPubkeys(i)
  \/ WriteOperators(i)
  \/ StartSigner(i)
  \/ Restart(i)

Entrypoint(i) ==
  \/ ~Lacks(i) /\ Command(i)
  \/ Lacks(i) /\ FileGone(i)

(***************************************************************************)
(* reset-spark.sh: stop, drop, empty the volumes in the order of `targets`,*)
(* up.  A reset that was interrupted, or that ended because a database     *)
(* could not be dropped, is run again from the start.                      *)
(***************************************************************************)
\* docker compose stop ... || true: all containers, or all but the ones in
\* still.
Stop(still) ==
  /\ reset' = "drop"
  /\ pc' = [i \in Operators |-> IF i \in still THEN pc[i] ELSE "stopped"]
  /\ read' = [i \in Operators |-> IF i \in still THEN read[i] ELSE Unread]
  /\ lost' = [i \in Operators |->
                IF i \in still THEN lost[i] ELSE lost[i] \cup Copying(i)]
  /\ racing' = (still # {})
  /\ UNCHANGED <<db, home, shared, used>>

ResetBegins ==
  \/ reset = "again" /\ UNCHANGED resets
  \/ reset = "idle" /\ resets < MaxResets /\ resets' = resets + 1

ResetStop ==
  /\ ResetBegins
  /\ Stop({})
  /\ UNCHANGED faults

ResetStopFails ==
  /\ ResetBegins
  /\ \E still \in SUBSET {i \in Operators : pc[i] # "stopped"} :
       /\ still # {}
       /\ faults + Cardinality(still) <= MaxFaults
       /\ faults' = faults + Cardinality(still)
       /\ Stop(still)

ResetDrop ==
  /\ reset = "drop"
  /\ \A i \in Operators : pc[i] # "running"
  /\ reset' = "clear0"
  /\ db' = [i \in Operators |-> "none"]
  /\ UNCHANGED <<pc, home, shared, read, used, history, faults, resets>>

\* A database that an operator is connected to cannot be dropped: set -e.
ResetDropFails ==
  /\ reset = "drop"
  /\ reset' = "again"
  /\ \E i \in Operators :
       /\ pc[i] = "running"
       /\ \A j \in Operators : j < i => pc[j] # "running"
       /\ db' = [j \in Operators |-> IF j < i THEN "none" ELSE db[j]]
  /\ UNCHANGED <<pc, home, shared, read, used, history, faults, resets>>

\* find "$resolved" -mindepth 1 ... -exec rm -rf for spark or spark2.
ResetHome(i) ==
  /\ reset = IF i = 0 THEN "clear0" ELSE "clear1"
  /\ reset' = IF i = 0 THEN "clear1" ELSE "clearshared"
  /\ keypair' = [keypair EXCEPT ![i] = Absent]
  /\ key' = [key EXCEPT ![i] = Absent]
  /\ tlsCert' = [tlsCert EXCEPT ![i] = Absent]
  /\ tlsKey' = [tlsKey EXCEPT ![i] = Absent]
  /\ tmp' = [tmp EXCEPT ![i] = Absent]
  /\ oldCert' = [oldCert EXCEPT ![i] = Absent]
  /\ oldKey' = [oldKey EXCEPT ![i] = Absent]
  /\ operators' = [operators EXCEPT ![i] = Unread]
  /\ lost' = [lost EXCEPT ![i] = {"cert", "key"}]
  /\ UNCHANGED <<pc, db, shared, read, used, racing, faults, resets>>

\* Mutant of ResetShared: the shared volume is not one of the targets.
ResetShared_Kept ==
  /\ reset = "clearshared"
  /\ reset' = "up"
  /\ UNCHANGED <<pc, db, home, shared, read, used, history, faults, resets>>

\* The same for spark-shared.
ResetShared ==
  /\ reset = "clearshared"
  /\ reset' = "up"
  /\ pub' = [i \in Operators |-> Absent]
  /\ crt' = [i \in Operators |-> Absent]
  /\ UNCHANGED <<pc, db, home, read, used, history, faults, resets>>

\* docker compose up -d --no-deps --force-recreate spark spark2: a container
\* that was never stopped is stopped now.
ResetUp ==
  /\ reset = "up"
  /\ reset' = "idle"
  /\ pc' = [i \in Operators |-> "db"]
  /\ read' = [i \in Operators |-> Unread]
  /\ lost' = [i \in Operators |-> lost[i] \cup Copying(i)]
  /\ UNCHANGED <<db, home, shared, used, racing, faults, resets>>

ResetInterrupted ==
  /\ faults < MaxFaults
  /\ reset \notin {"idle", "again"}
  /\ faults' = faults + 1
  /\ reset' = "again"
  /\ UNCHANGED <<pc, db, home, shared, read, used, history, resets>>

ResetStep ==
  \/ ResetDrop
  \/ ResetDropFails
  \/ \E i \in Operators : ResetHome(i)
  \/ ResetShared
  \/ ResetUp

Next ==
  \/ \E i \in Operators : Entrypoint(i) \/ Crash(i)
  \/ ResetStop \/ ResetStopFails \/ ResetStep \/ ResetInterrupted

\* Containers make progress and are restarted; a reset is seen through, and
\* run again when it was cut short.
Fairness ==
  /\ \A i \in Operators : WF_vars(Entrypoint(i))
  /\ WF_vars(ResetStep \/ (reset = "again" /\ ResetStop))

Spec == Init /\ [][Next]_vars /\ Fairness

(***************************************************************************)
(* Properties.                                                             *)
(***************************************************************************)
\* rendezvous_operators: operators.json of an operator that has come past it
\* holds the operator's own identity, and the peer's present identity or the
\* empty file the peer was just writing; never an identity from before a
\* reset, whatever was left over in the shared volume and whoever crashed.
\* The exception is a reset that could not stop a container (`|| true` of
\* reset-spark.sh): it may publish its old identity behind the reset's back.
NoForeignPeer ==
  ~racing =>
    \A i \in Operators : pc[i] \in {"signer", "running"} =>
      /\ operators[i][i] = keypair[i]
      /\ \A j \in Operators : operators[i][j] \in {Empty, keypair[j]}

\* ensure_tls_cert: an operator never serves a certificate with another
\* pair's key or a CA-marked one, even when it was killed between the two mv,
\* and what its peer trusts is the certificate it serves, while no reset is
\* at work, and then even after a reset that could not stop it.
TlsPairServed ==
  reset = "idle" =>
    \A i \in Operators : pc[i] \in {"rendezvous", "read0", "read1", "json",
                                    "signer", "running"} =>
      /\ tlsCert[i] = tlsKey[i]
      /\ tlsCert[i] > Legacy
      /\ crt[i] = tlsCert[i]

\* ensure_tls_cert keeps the CA-marked pair: a rotation that had to be
\* repeated does not overwrite a .legacy-ca file with half of the new pair,
\* and neither half of the old pair is replaced before it has been copied.
\* The exception is a kill inside cp, which leaves a partial file that the
\* next rotation takes for the copy; that costs the half cp was copying and
\* never the other one.
BackupIsLegacyPair ==
  \A i \in Operators :
    /\ \/ oldCert[i] \in {Absent, Legacy}
       \/ oldCert[i] = Empty /\ (pc[i] = "cpcert" \/ "cert" \in lost[i])
    /\ \/ oldKey[i] \in {Absent, Legacy}
       \/ oldKey[i] = Empty /\ (pc[i] = "cpkey" \/ "key" \in lost[i])
    /\ "cert" \notin lost[i] => Legacy \in {tlsCert[i], oldCert[i]}
    /\ "key" \notin lost[i] => Legacy \in {tlsKey[i], oldKey[i]}

\* What a crash while the identity is made leaves behind: the keypair, and no
\* key or an empty one; what a reset leaves that ran beside it: an empty key.
Incomplete(i) ==
  \/ Exists(keypair[i]) /\ key[i] \in Missing
  \/ Exists(key[i]) /\ keypair[i] \in Missing

\* However often one operator gives up waiting for the other, both come up in
\* the end, with their keys, and stay up, unless a crash left an incomplete
\* identity, which only reset-spark.sh repairs.
BothServe ==
  \/ <>[](\A i \in Operators : pc[i] = "running" /\ key[i] = keypair[i])
  \/ <>[](\E i \in Operators : Incomplete(i))

\* "Both operators publish their pubkeys to the shared volume, then each
\* builds the same operators.json" (spark-entrypoint.sh).
SameOperators ==
  (\A i \in Operators : pc[i] = "running") => operators[0] = operators[1]

\* ensure_identity stops on an "incomplete operator identity": spark-operator
\* is only started with the private key of the identity it has published.
KeyOfIdentity == \A i \in Operators : pc[i] = "running" => key[i] = keypair[i]
=============================================================================
