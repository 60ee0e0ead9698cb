---------------------------- MODULE SparkProofs ----------------------------
(***************************************************************************)
(* Proofs about SparkOperators, for any number of crashes and resets.      *)
(***************************************************************************)
EXTENDS SparkOperators, TLAPS

(***************************************************************************)
(* The stages of the entrypoint.                                           *)
(***************************************************************************)
Paired == {"rendezvous", "read0", "read1", "json", "signer", "running"}
Rotating == {"oldcert", "cpcert", "oldkey", "cpkey"}
Making == {"gentls", "mvkey", "mvcert"}
Published == {"tls", "certpub"} \cup Rotating \cup Making \cup Paired
Identified == {"keyfile", "keywrite", "publish", "pubwrite"} \cup Published
PCs == {"db", "identity", "keygen", "exited", "stopped"} \cup Identified
Resets == {"idle", "again", "drop", "clear0", "clear1", "clearshared", "up"}

Files == {Absent, Empty} \cup Nat

TypeInv ==
  /\ pc \in [Operators -> PCs]
  /\ keypair \in [Operators -> Files]
  /\ tlsCert \in [Operators -> Files]
  /\ tlsKey \in [Operators -> Files]
  /\ tmp \in [Operators -> Files]
  /\ oldCert \in [Operators -> Files]
  /\ oldKey \in [Operators -> Files]
  /\ pub \in [Operators -> Files]
  /\ crt \in [Operators -> Files]
  /\ read \in [Operators -> [Operators -> Files]]
  /\ operators \in [Operators -> [Operators -> Files]]
  /\ reset \in Resets
  /\ used \in [Operators -> Nat]
  /\ lost \in [Operators -> SUBSET {"cert", "key"}]
  /\ racing \in BOOLEAN

\* While a reset that could stop the containers is at work none runs.
StoppedInv ==
  ~racing /\ reset # "idle" => \A i \in Operators : pc[i] = "stopped"

(***************************************************************************)
(* Identities.  What is in the shared volume is the identity in the home   *)
(* volume of the same operator, except while a reset has emptied one of    *)
(* the two; what an operator has read from it is still so, because an      *)
(* identity changes only in a reset, which stops the reader first.  All of *)
(* this is void when a reset could not stop a container, and holds again   *)
(* from the next reset that can.                                           *)
(***************************************************************************)
KeyInv(i) ==
  /\ pc[i] = "keygen" => keypair[i] = Empty
  /\ pc[i] \in Identified => keypair[i] \notin Missing

PubInv(i) ==
  /\ reset \in {"idle", "up"} => pub[i] \in {Absent, Empty, keypair[i]}
  /\ pc[i] = "pubwrite" => pub[i] = Empty /\ read[i][i] = keypair[i]
  /\ pc[i] \in Published => pub[i] = keypair[i]

\* An entry that operator i has for operator j.
Entry(i, j, e) ==
  /\ e \in {Empty, keypair[j]}
  /\ e = Empty \/ e \notin Missing
  /\ i = j => e = keypair[j]

ReadInv(i) ==
  /\ pc[i] \in {"read0", "read1"} => \A j \in Operators : Exists(pub[j])
  /\ pc[i] \in {"read1", "json"} => Entry(i, 0, read[i][0])
  /\ pc[i] = "json" => Entry(i, 1, read[i][1])
  /\ pc[i] \in {"signer", "running"} =>
       \A j \in Operators : Entry(i, j, operators[i][j])

CurrentInv == \A i \in Operators : KeyInv(i) /\ PubInv(i) /\ ReadInv(i)

IdentityInv == StoppedInv /\ (~racing => CurrentInv)

(***************************************************************************)
(* TLS pairs.                                                              *)
(***************************************************************************)
Pair(i) == tlsCert[i] > Legacy /\ tlsKey[i] = tlsCert[i]

\* The volume of i was emptied by a reset that is still at work.
Emptied(i) ==
  /\ reset # "idle"
  /\ tlsCert[i] = Absent /\ tlsKey[i] = Absent
  /\ oldCert[i] = Absent /\ oldKey[i] = Absent

CertInv(i) ==
  /\ tlsCert[i] \in {Absent, Legacy} \/ Pair(i)
  /\ pc[i] \in Rotating => tlsCert[i] = Legacy \/ Emptied(i)
  /\ pc[i] \in Making => tlsCert[i] \in {Absent, Legacy}
  /\ pc[i] \in {"mvkey", "mvcert"} => tmp[i] = Absent \/ tmp[i] > Legacy
  /\ pc[i] = "mvcert" => tlsKey[i] = tmp[i]
  /\ pc[i] \in {"certpub"} \cup Paired => Pair(i) \/ Emptied(i)
  /\ pc[i] \in Paired /\ reset = "idle" => crt[i] = tlsCert[i]

\* What there is of the CA-marked certificate, and the same for its key.
OldCertInv(i) ==
  /\ oldCert[i] \in {Absent, Empty, Legacy}
  /\ oldCert[i] = Empty => pc[i] = "cpcert" \/ "cert" \in lost[i]
  /\ "cert" \notin lost[i] => Legacy \in {tlsCert[i], oldCert[i]}
  /\ tlsCert[i] = Absent \/ tlsKey[i] = Absent => "cert" \in lost[i]
  /\ pc[i] \in {"oldkey", "cpkey"} \cup Making /\ "cert" \notin lost[i] =>
       oldCert[i] = Legacy

OldKeyInv(i) ==
  /\ oldKey[i] \in {Absent, Empty, Legacy}
  /\ oldKey[i] = Empty => pc[i] = "cpkey" \/ "key" \in lost[i]
  /\ "key" \notin lost[i] => Legacy \in {tlsKey[i], oldKey[i]}
  /\ tlsCert[i] = Absent \/ tlsKey[i] = Absent => "key" \in lost[i]
  /\ pc[i] \in Making /\ "key" \notin lost[i] => oldKey[i] = Legacy

\* A CA-marked certificate keeps its key until the key is kept aside.
LegacyInv(i) ==
  /\ tlsCert[i] = Legacy /\ (~Exists(oldKey[i]) \/ pc[i] = "cpkey") =>
       tlsKey[i] = Legacy
  /\ pc[i] = "cpcert" /\ tlsCert[i] = Legacy => Exists(oldCert[i])
  /\ pc[i] \in {"cpkey"} \cup Making /\ tlsCert[i] = Legacy => Exists(oldKey[i])

TlsOf(i) == CertInv(i) /\ OldCertInv(i) /\ OldKeyInv(i) /\ LegacyInv(i)

TlsInv == \A i \in Operators : TlsOf(i)

(***************************************************************************)
(* Types.                                                                  *)
(***************************************************************************)
LEMMA TypeInit == Init => TypeInv
<1> SUFFICES ASSUME Init PROVE TypeInv
  OBVIOUS
<1>1. pc \in [Operators -> PCs] /\ reset \in Resets /\ racing \in BOOLEAN
  BY DEF Init, PCs, Resets
<1>2. Unread \in [Operators -> Files] /\ Absent \in Files /\ Legacy \in Files
  BY DEF Unread, Files, Absent, Legacy
<1>3. lost \in [Operators -> SUBSET {"cert", "key"}] /\ used \in [Operators -> Nat]
  BY DEF Init
<1> QED BY <1>1, <1>2, <1>3 DEF Init, TypeInv

LEMMA CopyingType ==
  ASSUME NEW i
  PROVE  /\ Copying(i) \in SUBSET {"cert", "key"}
         /\ "cert" \in Copying(i) <=> pc[i] = "cpcert"
         /\ "key" \in Copying(i) <=> pc[i] = "cpkey"
BY DEF Copying

LEMMA Assigned ==
  ASSUME NEW S, NEW T, NEW f \in [S -> T], NEW x \in S, NEW v \in T
  PROVE  [f EXCEPT ![x] = v] \in [S -> T]
OBVIOUS

LEMMA TypeEntrypoint ==
  ASSUME TypeInv, NEW x \in Operators, Entrypoint(x) \/ Crash(x)
  PROVE  TypeInv'
<1> USE DEF TypeInv, PCs, Identified, Published, Paired, Rotating, Making, Files,
            Goto, Unread, home, shared, history
<1>1. CASE Databases(x)
  BY <1>1 DEF Databases
<1>2. CASE NewIdentity(x)
  BY <1>2 DEF NewIdentity
<1>3. CASE Keygen(x)
  BY <1>3 DEF Keygen
<1>4. CASE KeyFile(x)
  BY <1>4 DEF KeyFile
<1>5. CASE OldIdentity(x)
  BY <1>5 DEF OldIdentity
<1>6. CASE BadIdentity(x)
  BY <1>6 DEF BadIdentity
<1>7. CASE Publish(x)
  <2>1. /\ keypair[x] \in Files /\ read[x] \in [Operators -> Files]
        /\ Unread \in [Operators -> Files] /\ Empty \in Files
    BY DEF Empty
  <2>2. pc' \in [Operators -> PCs]
    BY <1>7 DEF Publish
  <2>3. \/ /\ read' = [read EXCEPT ![x][x] = keypair[x]]
           /\ pub' = [pub EXCEPT ![x] = Empty]
        \/ /\ read' = [read EXCEPT ![x] = Unread]
           /\ pub' = [pub EXCEPT ![x] = IF Exists(@) THEN read[x][x] ELSE @]
    BY <1>7 DEF Publish
  <2>4. read \in [Operators -> [Operators -> Files]] /\ pub \in [Operators -> Files]
    OBVIOUS
  <2> HIDE DEF TypeInv, Files, Unread
  <2>5. read' \in [Operators -> [Operators -> Files]]
    <3>1. [read[x] EXCEPT ![x] = keypair[x]] \in [Operators -> Files]
      BY <2>1, Assigned
    <3>2. CASE read' = [read EXCEPT ![x] = [read[x] EXCEPT ![x] = keypair[x]]]
      BY <2>4, <3>1, <3>2, Assigned
    <3>3. CASE read' = [read EXCEPT ![x] = Unread]
      BY <2>1, <2>4, <3>3, Assigned
    <3> QED BY <2>3, <3>2, <3>3
  <2>6. pub' \in [Operators -> Files]
    <3>1. (IF Exists(pub[x]) THEN read[x][x] ELSE pub[x]) \in Files
      BY <2>1, <2>4
    <3> QED BY <2>1, <2>3, <2>4, <3>1, Assigned
  <2> QED BY <1>7, <2>2, <2>5, <2>6 DEF Publish, TypeInv
<1>8. CASE TlsCheck(x)
  BY <1>8 DEF TlsCheck
<1>9. CASE TlsBackup(x)
  <2>1. pc' \in [Operators -> PCs]
    <3>1. pc \in [Operators -> PCs] /\ {"cpcert", "oldkey", "cpkey", "gentls"} \subseteq PCs
      OBVIOUS
    <3> HIDE DEF TypeInv, PCs
    <3>2. \E to \in {"cpcert", "oldkey", "cpkey", "gentls"} : pc' = [pc EXCEPT ![x] = to]
      BY <1>9 DEF TlsBackup
    <3> QED BY <3>1, <3>2, Assigned
  <2>2. /\ oldCert' \in {oldCert, [oldCert EXCEPT ![x] = Empty],
                          [oldCert EXCEPT ![x] = IF Exists(@) THEN tlsCert[x] ELSE @]}
        /\ oldKey' \in {oldKey, [oldKey EXCEPT ![x] = Empty],
                         [oldKey EXCEPT ![x] = IF Exists(@) THEN tlsKey[x] ELSE @]}
    BY <1>9 DEF TlsBackup
  <2>3. Empty \in Files
    BY DEF Empty
  <2>4. /\ oldCert \in [Operators -> Files] /\ tlsCert[x] \in Files
        /\ oldKey \in [Operators -> Files] /\ tlsKey[x] \in Files
    OBVIOUS
  <2> HIDE DEF TypeInv, Files
  <2>5. oldCert' \in [Operators -> Files] /\ oldKey' \in [Operators -> Files]
    BY <2>2, <2>3, <2>4, Assigned
  <2> QED BY <1>9, <2>1, <2>5 DEF TlsBackup, TypeInv
<1>10. CASE TlsGenerate(x)
  BY <1>10 DEF TlsGenerate
<1>11. CASE TlsInstall(x)
  <2>1. pc' \in [Operators -> PCs]
    BY <1>11 DEF TlsInstall
  <2>2. /\ tlsKey' \in {tlsKey, [tlsKey EXCEPT ![x] = tmp[x]]}
        /\ tlsCert' \in {tlsCert, [tlsCert EXCEPT ![x] = tmp[x]]}
        /\ tmp' \in {tmp, [tmp EXCEPT ![x] = Absent]}
    BY <1>11 DEF TlsInstall
  <2>3. /\ tlsKey \in [Operators -> Files] /\ tlsCert \in [Operators -> Files]
        /\ tmp \in [Operators -> Files] /\ Absent \in Files
    BY DEF Absent
  <2> HIDE DEF TypeInv, Files
  <2>4. /\ tlsKey' \in [Operators -> Files]
        /\ tlsCert' \in [Operators -> Files]
        /\ tmp' \in [Operators -> Files]
    BY <2>2, <2>3, Assigned
  <2> QED BY <1>11, <2>1, <2>4 DEF TlsInstall, TypeInv
<1>12. CASE CertPublish(x)
  BY <1>12 DEF CertPublish
<1>13. CASE Rendezvous(x)
  BY <1>13 DEF Rendezvous
<1>14. CASE ReadPubkeys(x)
  BY <1>14 DEF ReadPubkeys, Operators
<1>15. CASE WriteOperators(x)
  BY <1>15 DEF WriteOperators
<1>16. CASE StartSigner(x)
  BY <1>16 DEF StartSigner
<1>17. CASE Restart(x)
  BY <1>17 DEF Restart
<1>18. CASE Crash(x)
  BY <1>18, CopyingType DEF Crash
<1>19. CASE FileGone(x)
  BY <1>19 DEF FileGone
<1> QED BY <1>1, <1>2, <1>3, <1>4, <1>5, <1>6, <1>7, <1>8, <1>9, <1>10, <1>11,
           <1>12, <1>13, <1>14, <1>15, <1>16, <1>17, <1>18, <1>19
        DEF Entrypoint, Command

LEMMA TypeReset ==
  ASSUME TypeInv, ResetStop \/ ResetStopFails \/ ResetStep \/ ResetInterrupted
  PROVE  TypeInv'
<1> USE DEF TypeInv, PCs, Resets, Files, Unread, home, shared, history
<1>1. ASSUME NEW still, Stop(still) PROVE TypeInv'
  BY <1>1, CopyingType DEF Stop
<1>2. CASE ResetStop \/ ResetStopFails
  BY <1>1, <1>2 DEF ResetStop, ResetStopFails
<1>3. CASE ResetDrop \/ ResetDropFails
  BY <1>3 DEF ResetDrop, ResetDropFails
<1>4. ASSUME NEW x \in Operators, ResetHome(x) PROVE TypeInv'
  BY <1>4 DEF ResetHome
<1>5. CASE ResetShared
  BY <1>5 DEF ResetShared
<1>6. CASE ResetUp
  BY <1>6, CopyingType DEF ResetUp
<1>7. CASE ResetInterrupted
  BY <1>7 DEF ResetInterrupted
<1> QED BY <1>2, <1>3, <1>4, <1>5, <1>6, <1>7 DEF ResetStep

LEMMA TypeNext == TypeInv /\ [Next]_vars => TypeInv'
<1> SUFFICES ASSUME TypeInv, [Next]_vars PROVE TypeInv'
  OBVIOUS
<1>1. CASE UNCHANGED vars
  BY <1>1 DEF TypeInv, vars, home, shared, history
<1> QED BY <1>1, TypeEntrypoint, TypeReset DEF Next

\* A container that takes a step runs, so no reset that has stopped the
\* containers is under way.
LEMMA NoResetNow ==
  ASSUME TypeInv, StoppedInv, NEW x \in Operators, Entrypoint(x) \/ Crash(x)
  PROVE  /\ reset' = reset /\ racing' = racing /\ StoppedInv'
         /\ ~racing => reset = "idle"
<1>1. CASE pc[x] # "stopped" /\ reset' = reset /\ racing' = racing
  BY <1>1 DEF StoppedInv
<1>2. CASE Crash(x)
  BY <1>1, <1>2 DEF Crash
<1>3. CASE Lacks(x) /\ FileGone(x)
  BY <1>1, <1>3 DEF Lacks, FileGone, history
<1>4. CASE Command(x)
  <2>1. pc[x] # "stopped" /\ reset' = reset /\ racing' = racing
    BY <1>4 DEF Command, Goto, Databases, NewIdentity, Keygen, KeyFile,
         OldIdentity, BadIdentity, Publish, TlsCheck, TlsBackup, TlsGenerate,
         TlsInstall, CertPublish, Rendezvous, ReadPubkeys, WriteOperators,
         StartSigner, Restart, history
  <2> QED BY <1>1, <2>1
<1> QED BY <1>2, <1>3, <1>4 DEF Entrypoint

(***************************************************************************)
(* Identities.                                                             *)
(***************************************************************************)
\* Steps of operator x that touch no identity and nothing published or read.
LEMMA IdentityMoves ==
  ASSUME TypeInv, CurrentInv, NEW x \in Operators, NEW to, Goto(x, pc[x], to),
         UNCHANGED <<keypair, pub, read, operators, reset>>,
         (KeyInv(x) /\ PubInv(x) /\ ReadInv(x))'
  PROVE  CurrentInv'
<1>1. ASSUME NEW i \in Operators, i # x PROVE (KeyInv(i) /\ PubInv(i) /\ ReadInv(i))'
  <2>1. pc'[i] = pc[i]
    BY <1>1 DEF Goto, TypeInv
  <2>2. KeyInv(i) /\ PubInv(i) /\ ReadInv(i)
    BY DEF CurrentInv
  <2> QED BY <2>1, <2>2 DEF KeyInv, PubInv, ReadInv, Entry
<1> QED BY <1>1 DEF CurrentInv

LEMMA IdentityQuiet ==
  ASSUME TypeInv, CurrentInv, NEW x \in Operators, reset = "idle",
         \/ Databases(x) \/ KeyFile(x) \/ OldIdentity(x) \/ BadIdentity(x)
         \/ TlsCheck(x) \/ TlsBackup(x) \/ TlsGenerate(x) \/ TlsInstall(x)
         \/ CertPublish(x) \/ Rendezvous(x) \/ StartSigner(x) \/ Restart(x)
  PROVE  CurrentInv'
<1>1. UNCHANGED <<keypair, pub, read, operators, reset>>
  BY DEF Databases, KeyFile, OldIdentity, BadIdentity, TlsCheck, TlsBackup,
         TlsGenerate, TlsInstall, CertPublish, Rendezvous, StartSigner, Restart,
         home, shared, history
<1>2. Goto(x, pc[x], pc'[x])
  BY DEF TypeInv, Goto, Databases, KeyFile, OldIdentity, BadIdentity, TlsCheck,
         TlsBackup, TlsGenerate, TlsInstall, CertPublish, Rendezvous, StartSigner,
         Restart
<1>3. KeyInv(x) /\ PubInv(x) /\ ReadInv(x) /\ pc \in [Operators -> PCs]
  BY DEF CurrentInv, TypeInv
<1>4. \/ pc'[x] \notin {"keygen"} \cup Identified
      \/ pc[x] \in Published /\ pc'[x] \in Published
      \/ /\ pc'[x] \in {"keywrite", "publish"}
         /\ pc[x] \in Identified \/ keypair[x] \notin Missing
  BY <1>3 DEF Goto, Databases, KeyFile, OldIdentity, BadIdentity, TlsCheck,
         TlsBackup, TlsGenerate, TlsInstall, CertPublish, Rendezvous, StartSigner,
         Restart, Identified, Published, Rotating, Making, Paired
<1>5. KeyInv(x)' /\ PubInv(x)'
  BY <1>1, <1>3, <1>4 DEF KeyInv, PubInv, Identified, Published, Rotating, Making, Paired
<1>6. ReadInv(x)'
  <2>1. CASE Rendezvous(x)
    <3>1. pc'[x] = "exited" \/ (pc'[x] = "read0" /\ AllPublished)
      BY <1>3, <2>1 DEF Rendezvous, Goto
    <3> QED BY <1>1, <3>1 DEF ReadInv, AllPublished
  <2>2. CASE StartSigner(x)
    <3>1. pc[x] = "signer" /\ pc'[x] \in {"running", "exited"}
      BY <1>3, <2>2 DEF StartSigner, Goto
    <3> QED BY <1>1, <1>3, <3>1 DEF ReadInv, Entry
  <2>3. CASE ~Rendezvous(x) /\ ~StartSigner(x)
    <3>1. pc'[x] \notin {"read0", "read1", "json", "signer", "running"}
      BY <1>3, <2>3 DEF Goto, Databases, KeyFile, OldIdentity, BadIdentity,
           TlsCheck, TlsBackup, TlsGenerate, TlsInstall, CertPublish, Restart
    <3> QED BY <3>1 DEF ReadInv
  <2> QED BY <2>1, <2>2, <2>3
<1> QED BY <1>1, <1>2, <1>5, <1>6, IdentityMoves

\* An identity is made while its file is absent or empty: what the peer may
\* have read is an empty file.
LEMMA IdentityMade ==
  ASSUME TypeInv, CurrentInv, NEW x \in Operators, reset = "idle",
         NewIdentity(x) \/ Keygen(x)
  PROVE  CurrentInv'
<1>1. UNCHANGED <<pub, read, operators, reset>>
  BY DEF NewIdentity, Keygen, shared, history
<1>2. /\ keypair[x] \in Missing
      /\ \/ pc'[x] = "keygen" /\ keypair'[x] = Empty
         \/ pc'[x] = "keyfile" /\ keypair'[x] \notin Missing
      /\ pub[x] \in {Absent, Empty}
  <2>1. KeyInv(x) /\ PubInv(x)
    BY DEF CurrentInv
  <2>2. CASE NewIdentity(x)
    BY <2>1, <2>2 DEF NewIdentity, Goto, TypeInv, PubInv, Missing, Exists
  <2>3. CASE Keygen(x)
    <3>1. pc[x] = "keygen" /\ pc'[x] = "keyfile"
      BY <2>3 DEF Keygen, Goto, TypeInv
    <3>2. keypair'[x] = used[x] + 1
      BY <2>1, <2>3, <3>1 DEF Keygen, TypeInv, KeyInv, Exists, Absent, Empty
    <3>3. used[x] + 1 \notin Missing
      BY DEF TypeInv, Missing, Absent, Empty
    <3> QED BY <2>1, <3>1, <3>2, <3>3 DEF KeyInv, PubInv, Missing
  <2> QED BY <2>2, <2>3
<1>3. \A i \in Operators \ {x} : pc'[i] = pc[i] /\ keypair'[i] = keypair[i]
  BY DEF NewIdentity, Keygen, Goto, TypeInv
<1>4. ASSUME NEW i \in Operators PROVE KeyInv(i)' /\ PubInv(i)'
  <2>1. CASE i = x
    BY <1>1, <1>2, <2>1 DEF KeyInv, PubInv, Identified, Published, Rotating, Making, Paired
  <2>2. CASE i # x
    BY <1>1, <1>3, <2>2 DEF CurrentInv, KeyInv, PubInv
  <2> QED BY <2>1, <2>2
<1>5. ASSUME NEW i \in Operators, i # x, NEW j \in Operators, NEW e, Entry(i, j, e)
      PROVE  Entry(i, j, e)'
  BY <1>2, <1>3, <1>5 DEF Entry, Missing
<1>6. ASSUME NEW i \in Operators PROVE ReadInv(i)'
  <2>1. CASE i = x
    BY <1>2, <2>1 DEF ReadInv
  <2>2. CASE i # x
    <3>1. ReadInv(i) /\ pc'[i] = pc[i] /\ 0 \in Operators /\ 1 \in Operators
      BY <1>3, <2>2 DEF CurrentInv, Operators
    <3> QED BY <1>1, <1>5, <2>2, <3>1 DEF ReadInv
  <2> QED BY <2>1, <2>2
<1> QED BY <1>4, <1>6 DEF CurrentInv

LEMMA IdentityPublished ==
  ASSUME TypeInv, CurrentInv, NEW x \in Operators, reset = "idle",
         Publish(x)
  PROVE  CurrentInv'
<1>1. UNCHANGED <<keypair, operators, reset>>
  BY DEF Publish, home
<1>2. KeyInv(x) /\ PubInv(x) /\ ReadInv(x) /\ pc \in [Operators -> PCs]
  BY DEF CurrentInv, TypeInv
<1>3. /\ \/ /\ pc[x] = "publish" /\ pc'[x] = "pubwrite" /\ pub'[x] = Empty
            /\ read'[x][x] = keypair[x]
         \/ pc[x] = "pubwrite" /\ pc'[x] = "tls" /\ pub'[x] = keypair[x]
      /\ \A i \in Operators \ {x} :
           pc'[i] = pc[i] /\ pub'[i] = pub[i] /\ read'[i] = read[i]
  <2>1. CASE pc[x] = "publish"
    BY <2>1 DEF Publish, Goto, TypeInv
  <2>2. CASE pc[x] = "pubwrite"
    BY <1>2, <2>2 DEF Publish, Goto, TypeInv, PubInv, Exists, Absent, Empty
  <2> QED BY <2>1, <2>2 DEF Publish, Goto
<1>4. keypair[x] \notin Missing
  BY <1>2, <1>3 DEF KeyInv, Identified
<1>5. Exists(pub'[x])
  BY <1>3, <1>4 DEF Exists, Missing, Absent, Empty
<1>6. ASSUME NEW i \in Operators PROVE (KeyInv(i) /\ PubInv(i) /\ ReadInv(i))'
  <2>1. KeyInv(i) /\ PubInv(i) /\ ReadInv(i)
    BY DEF CurrentInv
  <2>2. CASE i = x
    BY <1>1, <1>3, <1>4, <2>1, <2>2
       DEF KeyInv, PubInv, ReadInv, Published, Rotating, Making, Paired
  <2>3. CASE i # x
    BY <1>1, <1>3, <1>5, <2>1, <2>3 DEF KeyInv, PubInv, ReadInv, Entry, Exists
  <2> QED BY <2>2, <2>3
<1> QED BY <1>6 DEF CurrentInv

\* What is read from the shared volume is an identity of now, or an empty file.
LEMMA IdentityRead ==
  ASSUME TypeInv, CurrentInv, NEW x \in Operators, reset = "idle",
         ReadPubkeys(x) \/ WriteOperators(x) \/ Crash(x) \/ FileGone(x)
  PROVE  CurrentInv'
<1>1. UNCHANGED <<keypair, pub, reset>>
  BY DEF ReadPubkeys, WriteOperators, Crash, FileGone, home, shared
<1>2. /\ pc \in [Operators -> PCs] /\ read \in [Operators -> [Operators -> Files]]
      /\ operators \in [Operators -> [Operators -> Files]]
  BY DEF TypeInv
<1>3. \A i \in Operators \ {x} :
        pc'[i] = pc[i] /\ read'[i] = read[i] /\ operators'[i] = operators[i]
  BY <1>2 DEF ReadPubkeys, WriteOperators, Crash, FileGone, Goto, home
<1>4. KeyInv(x) /\ PubInv(x) /\ ReadInv(x)
  BY DEF CurrentInv
<1>5. KeyInv(x)' /\ PubInv(x)'
  <2>1. pc'[x] = "exited" \/ (pc[x] \in Published /\ pc'[x] \in Paired)
    BY <1>2 DEF ReadPubkeys, WriteOperators, Crash, FileGone, Goto, Published, Rotating, Making, Paired
  <2> QED BY <1>1, <1>4, <2>1 DEF KeyInv, PubInv, Identified, Published, Rotating, Making, Paired
<1>6. ASSUME NEW j \in Operators, pc[x] \in {"read0", "read1"}
      PROVE  Entry(x, j, pub[j])
  <2>1. PubInv(j) /\ Exists(pub[j])
    BY <1>4, <1>6 DEF CurrentInv, ReadInv
  <2> QED BY <1>4, <1>6, <2>1
          DEF PubInv, Entry, Exists, Missing, Published, Rotating, Making, Paired
<1>7. \A i, j, e : Entry(i, j, e)' <=> Entry(i, j, e)
  BY <1>1 DEF Entry
<1>8. ReadInv(x)'
  <2> USE DEF Operators
  <2>1. CASE pc[x] = "read0" /\ ReadPubkeys(x)
    <3>1. pc'[x] = "read1" /\ read'[x][0] = pub[0]
      BY <1>2, <2>1 DEF ReadPubkeys, Goto
    <3> QED BY <1>1, <1>4, <1>6, <1>7, <2>1, <3>1 DEF ReadInv
  <2>2. CASE pc[x] = "read1" /\ ReadPubkeys(x)
    <3>1. pc'[x] = "json" /\ read'[x][1] = pub[1] /\ read'[x][0] = read[x][0]
      BY <1>2, <2>2 DEF ReadPubkeys, Goto
    <3> QED BY <1>4, <1>6, <1>7, <2>2, <3>1 DEF ReadInv
  <2>3. CASE WriteOperators(x)
    <3>1. pc[x] = "json" /\ pc'[x] = "signer" /\ operators'[x] = read[x]
      BY <1>2, <2>3 DEF WriteOperators, Goto
    <3> QED BY <1>4, <1>7, <3>1 DEF ReadInv
  <2>4. CASE Crash(x) \/ FileGone(x)
    <3>1. pc'[x] = "exited"
      BY <1>2, <2>4 DEF Crash, FileGone, Goto
    <3> QED BY <3>1 DEF ReadInv
  <2> QED BY <2>1, <2>2, <2>3, <2>4 DEF ReadPubkeys, Goto
<1>9. ASSUME NEW i \in Operators, i # x PROVE (KeyInv(i) /\ PubInv(i) /\ ReadInv(i))'
  <2>1. KeyInv(i) /\ PubInv(i) /\ ReadInv(i)
    BY DEF CurrentInv
  <2> QED BY <1>1, <1>3, <1>7, <1>9, <2>1 DEF KeyInv, PubInv, ReadInv
<1> QED BY <1>5, <1>8, <1>9 DEF CurrentInv

\* A reset stops both operators before it touches a volume, and empties the
\* shared volume before it starts them again.
LEMMA IdentityReset ==
  ASSUME TypeInv, IdentityInv,
         ResetStop \/ ResetStopFails \/ ResetStep \/ ResetInterrupted
  PROVE  IdentityInv'
<1> SUFFICES ASSUME ~racing' PROVE StoppedInv' /\ CurrentInv'
  BY DEF IdentityInv, StoppedInv
<1>1. \/ reset' # "idle" /\ \A i \in Operators : pc'[i] = "stopped"
      \/ reset = "up" /\ reset' = "idle" /\ \A i \in Operators : pc'[i] = "db"
  <2>1. CASE ResetStop
    BY <2>1 DEF ResetStop, Stop
  <2>2. CASE ResetStopFails
    BY <2>2 DEF ResetStopFails, Stop
  <2>3. CASE ResetStep \/ ResetInterrupted
    BY <2>3 DEF IdentityInv, StoppedInv, ResetStep, ResetInterrupted,
         ResetDrop, ResetDropFails, ResetHome, ResetShared, ResetUp, history
  <2> QED BY <2>1, <2>2, <2>3
<1>2. StoppedInv'
  BY <1>1 DEF StoppedInv
<1>3. ASSUME NEW i \in Operators PROVE KeyInv(i)' /\ ReadInv(i)'
  BY <1>1 DEF KeyInv, ReadInv, Identified, Published, Rotating, Making, Paired
<1>4. ASSUME NEW i \in Operators PROVE PubInv(i)'
  <2>1. pc'[i] \notin {"pubwrite"} \cup Published
    BY <1>1 DEF Published, Rotating, Making, Paired
  <2>2. CASE ResetUp
    <3>1. ~racing /\ UNCHANGED <<keypair, pub>>
      BY <2>2 DEF ResetUp, home, shared
    <3> QED BY <2>1, <2>2, <3>1 DEF ResetUp, PubInv, IdentityInv, CurrentInv
  <2>3. CASE ResetShared
    BY <2>1, <2>3 DEF ResetShared, PubInv
  <2>4. CASE ~ResetUp /\ ~ResetShared
    <3>1. reset' \notin {"idle", "up"}
      BY <2>4 DEF ResetStop, ResetStopFails, Stop, ResetStep, ResetInterrupted,
           ResetDrop, ResetDropFails, ResetHome
    <3> QED BY <2>1, <3>1 DEF PubInv
  <2> QED BY <2>2, <2>3, <2>4
<1> QED BY <1>2, <1>3, <1>4 DEF CurrentInv

LEMMA IdentityInvariance == Spec => [](TypeInv /\ IdentityInv)
<1>1. Init => IdentityInv
  BY DEF Init, IdentityInv, CurrentInv, StoppedInv, KeyInv, PubInv, ReadInv,
         Identified, Published, Rotating, Making, Paired
<1>2. TypeInv /\ IdentityInv /\ [Next]_vars => IdentityInv'
  <2> SUFFICES ASSUME TypeInv, IdentityInv, [Next]_vars PROVE IdentityInv'
    OBVIOUS
  <2>1. ASSUME NEW x \in Operators, Entrypoint(x) \/ Crash(x) PROVE IdentityInv'
    <3>1. racing' = racing /\ StoppedInv' /\ (~racing => reset = "idle")
      BY <2>1, NoResetNow DEF IdentityInv
    <3>2. CASE racing
      BY <3>1, <3>2 DEF IdentityInv
    <3>3. CASE ~racing
      <4>1. CurrentInv /\ reset = "idle"
        BY <3>1, <3>3 DEF IdentityInv
      <4>2. CurrentInv'
        BY <2>1, <4>1, IdentityQuiet, IdentityMade, IdentityPublished,
           IdentityRead DEF Entrypoint, Command
      <4> QED BY <3>1, <4>2 DEF IdentityInv
    <3> QED BY <3>2, <3>3
  <2>2. CASE UNCHANGED vars
    BY <2>2 DEF vars, home, shared, history, IdentityInv, CurrentInv, StoppedInv,
                KeyInv, PubInv, ReadInv, Entry
  <2> QED BY <2>1, <2>2, IdentityReset DEF Next
<1> QED BY <1>1, <1>2, TypeInit, TypeNext, PTL DEF Spec

\* Any number of crashes and resets: whoever has come past the rendezvous
\* serves its own identity, and for its peer the peer's present identity or an
\* empty one, never one from before a reset that could stop the containers.
THEOREM PeersAreCurrent == Spec => []NoForeignPeer
<1>1. IdentityInv => NoForeignPeer
  <2> SUFFICES ASSUME IdentityInv, ~racing, NEW i \in Operators,
                      pc[i] \in {"signer", "running"}
               PROVE  /\ operators[i][i] = keypair[i]
                      /\ \A j \in Operators : operators[i][j] \in {Empty, keypair[j]}
    BY DEF NoForeignPeer
  <2>1. \A j \in Operators : Entry(i, j, operators[i][j])
    BY DEF IdentityInv, CurrentInv, ReadInv
  <2> QED BY <2>1 DEF Entry
<1> QED BY <1>1, IdentityInvariance, PTL

(***************************************************************************)
(* TLS pairs.  TlsPairServed is not inductive: a container killed between  *)
(* the two mv leaves a new key beside the old certificate, or none.        *)
(* CertInv says what that leaves: a certificate that is absent or          *)
(* CA-marked, so that the next start makes a new pair.  BackupIsLegacyPair *)
(* needs the rest: as long as the CA-marked certificate is in place and    *)
(* its key not yet kept aside, the key in place is its own, and where a    *)
(* new pair is made both halves have been copied, or a kill has cut the    *)
(* copy.  No part needs the containers to be stopped during a reset.       *)
(***************************************************************************)
\* A step of operator x that leaves the files of the other alone.
LEMMA TlsOthers ==
  ASSUME TlsInv, NEW x \in Operators, reset' = reset,
         \A i \in Operators \ {x} :
           /\ pc'[i] = pc[i] /\ tlsCert'[i] = tlsCert[i] /\ tlsKey'[i] = tlsKey[i]
           /\ tmp'[i] = tmp[i] /\ crt'[i] = crt[i] /\ lost'[i] = lost[i]
           /\ oldCert'[i] = oldCert[i] /\ oldKey'[i] = oldKey[i],
         TlsOf(x)'
  PROVE  TlsInv'
<1>1. ASSUME NEW i \in Operators, i # x PROVE TlsOf(i)'
  <2>1. TlsOf(i)
    BY DEF TlsInv
  <2> QED BY <1>1, <2>1 DEF TlsOf, CertInv, OldCertInv, OldKeyInv, LegacyInv, Pair,
                            Emptied
<1> QED BY <1>1 DEF TlsInv

LEMMA TlsEntrypoint ==
  ASSUME TypeInv, TlsInv, NEW x \in Operators, Entrypoint(x) \/ Crash(x)
  PROVE  TlsInv'
<1>1. TlsOf(x)
  BY DEF TlsInv
<1>2. /\ pc \in [Operators -> PCs] /\ tlsCert \in [Operators -> Files]
      /\ tlsKey \in [Operators -> Files] /\ tmp \in [Operators -> Files]
      /\ crt \in [Operators -> Files] /\ oldCert \in [Operators -> Files]
      /\ oldKey \in [Operators -> Files] /\ used \in [Operators -> Nat]
      /\ lost \in [Operators -> SUBSET {"cert", "key"}]
  BY DEF TypeInv
<1>3. /\ reset' = reset
      /\ \A i \in Operators \ {x} :
           /\ pc'[i] = pc[i] /\ tlsCert'[i] = tlsCert[i] /\ tlsKey'[i] = tlsKey[i]
           /\ tmp'[i] = tmp[i] /\ crt'[i] = crt[i] /\ lost'[i] = lost[i]
           /\ oldCert'[i] = oldCert[i] /\ oldKey'[i] = oldKey[i]
  BY <1>2 DEF Entrypoint, Command, Crash, FileGone, Goto, Databases, NewIdentity,
              Keygen, KeyFile, OldIdentity, BadIdentity, Publish, TlsCheck,
              TlsBackup, TlsGenerate, TlsInstall, CertPublish, Rendezvous,
              ReadPubkeys, WriteOperators, StartSigner, Restart, home, shared,
              history
<1> SUFFICES TlsOf(x)'
  BY <1>3, TlsOthers
<1> DEFINE tls == <<tlsCert, tlsKey, tmp, crt, oldCert, oldKey, lost>>
<1> USE DEF Absent, Empty, Legacy, Exists, TlsOf, CertInv, OldCertInv, OldKeyInv,
            LegacyInv, Pair, Emptied, Rotating, Making, Paired
<1>4. CASE TlsCheck(x)
  <2>1. UNCHANGED tls
    BY <1>4 DEF TlsCheck, home, shared, history
  <2>2. /\ pc[x] = "tls"
        /\ \/ tlsCert[x] # Legacy /\ tlsCert[x] # Absent /\ pc'[x] = "certpub"
           \/ tlsCert[x] = Legacy /\ pc'[x] = "oldcert"
           \/ (tlsCert[x] = Absent \/ tlsKey[x] = Absent) /\ pc'[x] = "gentls"
    BY <1>2, <1>4 DEF TlsCheck, Goto
  <2> QED BY <1>1, <1>2, <1>3, <2>1, <2>2
<1>5. CASE ~Lacks(x) /\ TlsBackup(x)
  <2>1. UNCHANGED <<tlsCert, tlsKey, tmp, crt, lost>>
    BY <1>5 DEF TlsBackup, home, shared, history
  <2>2. \/ /\ pc[x] = "oldcert" /\ pc'[x] = "cpcert" /\ oldCert[x] = Absent
           /\ oldCert'[x] = Empty /\ oldKey'[x] = oldKey[x]
           /\ tlsCert[x] # Absent
        \/ /\ pc[x] = "cpcert" /\ pc'[x] = "oldkey" /\ oldKey'[x] = oldKey[x]
           /\ oldCert'[x] = IF oldCert[x] # Absent THEN tlsCert[x] ELSE Absent
        \/ /\ pc[x] = "oldcert" /\ pc'[x] = "oldkey" /\ oldCert[x] # Absent
           /\ oldCert'[x] = oldCert[x] /\ oldKey'[x] = oldKey[x]
        \/ /\ pc[x] = "oldkey" /\ pc'[x] = "cpkey" /\ oldKey[x] = Absent
           /\ oldKey'[x] = Empty /\ oldCert'[x] = oldCert[x]
           /\ tlsKey[x] # Absent
        \/ /\ pc[x] = "cpkey" /\ pc'[x] = "gentls" /\ oldCert'[x] = oldCert[x]
           /\ oldKey'[x] = IF oldKey[x] # Absent THEN tlsKey[x] ELSE Absent
        \/ /\ pc[x] = "oldkey" /\ pc'[x] = "gentls" /\ oldKey[x] # Absent
           /\ oldCert'[x] = oldCert[x] /\ oldKey'[x] = oldKey[x]
    BY <1>2, <1>5 DEF TlsBackup, Goto, Lacks
  <2> QED BY <1>1, <1>2, <1>3, <2>1, <2>2
<1>6. CASE TlsGenerate(x)
  <2>1. UNCHANGED <<tlsCert, tlsKey, crt, oldCert, oldKey, lost>>
    BY <1>6 DEF TlsGenerate, shared, history
  <2>2. pc[x] = "gentls" /\ pc'[x] = "mvkey" /\ tmp'[x] > Legacy
    BY <1>2, <1>6 DEF TlsGenerate, Goto
  <2> QED BY <1>1, <1>3, <2>1, <2>2
<1>7. CASE ~Lacks(x) /\ TlsInstall(x)
  <2>1. UNCHANGED <<crt, oldCert, oldKey, lost>>
    BY <1>7 DEF TlsInstall, shared, history
  <2>2. CASE pc[x] = "mvkey"
    <3>1. /\ pc'[x] = "mvcert" /\ tlsKey'[x] = tmp[x] /\ tmp[x] # Absent
          /\ tlsCert' = tlsCert /\ tmp' = tmp
      BY <1>2, <1>7, <2>2 DEF TlsInstall, Goto, Lacks
    <3> QED BY <1>1, <1>2, <1>3, <2>1, <2>2, <3>1
  <2>3. CASE pc[x] = "mvcert"
    <3>1. /\ pc'[x] = "certpub" /\ tlsCert'[x] = tmp[x] /\ tmp[x] # Absent
          /\ tlsKey' = tlsKey
      BY <1>2, <1>7, <2>3 DEF TlsInstall, Goto, Lacks
    <3> QED BY <1>1, <1>2, <1>3, <2>1, <2>3, <3>1
  <2> QED BY <1>7, <2>2, <2>3 DEF TlsInstall, Goto
<1>8. CASE CertPublish(x)
  <2>1. UNCHANGED <<tlsCert, tlsKey, tmp, oldCert, oldKey, lost>>
    BY <1>8 DEF CertPublish, home, history
  <2>2. pc[x] = "certpub" /\ pc'[x] = "rendezvous" /\ crt'[x] = tlsCert[x]
    BY <1>2, <1>8 DEF CertPublish, Goto
  <2> QED BY <1>1, <1>3, <2>1, <2>2
<1>9. CASE Crash(x)
  <2>1. UNCHANGED <<tlsCert, tlsKey, tmp, crt, oldCert, oldKey>> /\ pc'[x] = "exited"
    BY <1>2, <1>9 DEF Crash, home, shared
  <2>2. lost'[x] = lost[x] \cup Copying(x)
    BY <1>2, <1>9 DEF Crash
  <2>3. /\ "cert" \in lost'[x] <=> ("cert" \in lost[x] \/ pc[x] = "cpcert")
        /\ "key" \in lost'[x] <=> ("key" \in lost[x] \/ pc[x] = "cpkey")
    BY <2>2, CopyingType
  <2> QED BY <1>1, <1>3, <2>1, <2>3
<1>10. CASE (Lacks(x) /\ FileGone(x)) \/ (Command(x) /\ ~(\/ TlsCheck(x) \/ TlsBackup(x)
              \/ TlsGenerate(x) \/ TlsInstall(x) \/ CertPublish(x)))
  <2>1. UNCHANGED tls
    BY <1>10 DEF Command, FileGone, Databases, NewIdentity, Keygen, KeyFile,
         OldIdentity, BadIdentity, Publish, Rendezvous, ReadPubkeys,
         WriteOperators, StartSigner, Restart, home, shared, history
  <2>2. \/ pc[x] \in Paired /\ pc'[x] \in Paired
        \/ pc'[x] \notin {"certpub"} \cup Rotating \cup Making \cup Paired
    BY <1>2, <1>10 DEF Command, FileGone, Goto, Databases, NewIdentity, Keygen,
         KeyFile, OldIdentity, BadIdentity, Publish, Rendezvous, ReadPubkeys,
         WriteOperators, StartSigner, Restart
  <2>3. pc[x] \notin {"cpcert", "cpkey"}
    BY <1>10 DEF Command, Lacks, Goto, Databases, NewIdentity, Keygen, KeyFile,
         OldIdentity, BadIdentity, Publish, Rendezvous, ReadPubkeys,
         WriteOperators, StartSigner, Restart
  <2> QED BY <1>1, <1>3, <2>1, <2>2, <2>3
<1> QED BY <1>4, <1>5, <1>6, <1>7, <1>8, <1>9, <1>10 DEF Entrypoint, Command

LEMMA TlsReset ==
  ASSUME TypeInv, TlsInv, ResetStop \/ ResetStopFails \/ ResetStep \/ ResetInterrupted
  PROVE  TlsInv'
<1> USE DEF Absent, Empty, Legacy, Exists, TlsOf, CertInv, OldCertInv, OldKeyInv,
            LegacyInv, Pair, Emptied, Rotating, Making, Paired
<1>1. lost \in [Operators -> SUBSET {"cert", "key"}]
  BY DEF TypeInv
<1>2. ASSUME NEW i \in Operators, TlsOf(i),
             UNCHANGED <<tlsCert, tlsKey, tmp, crt, oldCert, oldKey>>,
             \/ pc'[i] = pc[i] /\ lost'[i] = lost[i] /\ reset' # "idle"
             \/ pc'[i] \in {"stopped", "db"} /\ lost'[i] = lost[i] \cup Copying(i)
      PROVE  TlsOf(i)'
  <2>1. CASE pc'[i] = pc[i] /\ lost'[i] = lost[i] /\ reset' # "idle"
    BY <1>2, <2>1
  <2>2. CASE pc'[i] \in {"stopped", "db"} /\ lost'[i] = lost[i] \cup Copying(i)
    <3>1. /\ "cert" \in lost'[i] <=> ("cert" \in lost[i] \/ pc[i] = "cpcert")
          /\ "key" \in lost'[i] <=> ("key" \in lost[i] \/ pc[i] = "cpkey")
      BY <2>2, CopyingType
    <3> QED BY <1>2, <2>2, <3>1
  <2> QED BY <1>2, <2>1, <2>2
<1>3. ASSUME NEW still, Stop(still) PROVE TlsInv'
  <2>1. ASSUME NEW i \in Operators PROVE TlsOf(i)'
    <3>1. \/ pc'[i] = pc[i] /\ lost'[i] = lost[i] /\ reset' # "idle"
          \/ pc'[i] = "stopped" /\ lost'[i] = lost[i] \cup Copying(i)
      BY <1>3 DEF Stop
    <3>2. UNCHANGED <<tlsCert, tlsKey, tmp, crt, oldCert, oldKey>>
      BY <1>3 DEF Stop, home, shared
    <3> QED BY <1>2, <3>1, <3>2 DEF TlsInv
  <2> QED BY <2>1 DEF TlsInv
<1>4. CASE ResetStop \/ ResetStopFails
  BY <1>3, <1>4 DEF ResetStop, ResetStopFails
<1>5. CASE ResetDrop \/ ResetDropFails \/ ResetInterrupted \/ ResetUp
  <2>1. ASSUME NEW i \in Operators PROVE TlsOf(i)'
    <3>1. \/ pc'[i] = pc[i] /\ lost'[i] = lost[i] /\ reset' # "idle"
          \/ pc'[i] = "db" /\ lost'[i] = lost[i] \cup Copying(i)
      BY <1>5 DEF ResetDrop, ResetDropFails, ResetInterrupted, ResetUp, history
    <3>2. UNCHANGED <<tlsCert, tlsKey, tmp, crt, oldCert, oldKey>>
      BY <1>5 DEF ResetDrop, ResetDropFails, ResetInterrupted, ResetUp, home, shared
    <3> QED BY <1>2, <3>1, <3>2 DEF TlsInv
  <2> QED BY <2>1 DEF TlsInv
<1>6. CASE ResetShared
  <2>1. UNCHANGED <<pc, tlsCert, tlsKey, tmp, oldCert, oldKey, lost>> /\ reset' = "up"
    BY <1>6 DEF ResetShared, home, history
  <2>2. reset # "idle"
    BY <1>6 DEF ResetShared
  <2> QED BY <2>1, <2>2 DEF TlsInv
<1>7. ASSUME NEW x \in Operators, ResetHome(x) PROVE TlsInv'
  <2>1. ASSUME NEW i \in Operators PROVE TlsOf(i)'
    <3>1. reset # "idle" /\ reset' # "idle" /\ pc' = pc
      BY <1>7 DEF ResetHome
    <3>2. CASE i = x
      <4>1. /\ tlsCert'[i] = Absent /\ tlsKey'[i] = Absent /\ tmp'[i] = Absent
            /\ oldCert'[i] = Absent /\ oldKey'[i] = Absent
            /\ lost'[i] = {"cert", "key"}
        BY <1>7, <3>2 DEF ResetHome, TypeInv
      <4> QED BY <3>1, <4>1
    <3>3. CASE i # x
      <4>1. /\ tlsCert'[i] = tlsCert[i] /\ tlsKey'[i] = tlsKey[i] /\ tmp'[i] = tmp[i]
            /\ oldCert'[i] = oldCert[i] /\ oldKey'[i] = oldKey[i]
            /\ lost'[i] = lost[i]
        BY <1>7, <3>3 DEF ResetHome, TypeInv
      <4>2. TlsOf(i)
        BY DEF TlsInv
      <4> QED BY <3>1, <4>1, <4>2
    <3> QED BY <3>2, <3>3
  <2> QED BY <2>1 DEF TlsInv
<1> QED BY <1>4, <1>5, <1>6, <1>7 DEF ResetStep

LEMMA TlsInvariance == Spec => []TlsInv
<1>1. Init => TlsInv
  BY DEF Init, TlsInv, TlsOf, CertInv, OldCertInv, OldKeyInv, LegacyInv, Rotating,
         Making, Paired, Exists, Absent, Empty, Legacy
<1>2. TypeInv /\ TlsInv /\ [Next]_vars => TlsInv'
  <2> SUFFICES ASSUME TypeInv, TlsInv, [Next]_vars PROVE TlsInv'
    OBVIOUS
  <2>1. CASE UNCHANGED vars
    BY <2>1 DEF vars, home, shared, history, TlsInv, TlsOf, CertInv, OldCertInv,
                OldKeyInv, LegacyInv, Pair, Emptied
  <2> QED BY <2>1, TlsEntrypoint, TlsReset DEF Next
<1> QED BY <1>1, <1>2, IdentityInvariance, PTL DEF Spec

\* Wherever an operator was killed, it never serves a certificate with another
\* pair's key or a CA-marked one, and its peer trusts the one it serves,
\* whenever no reset is at work.
THEOREM TlsPairsMatch == Spec => []TlsPairServed
<1>1. TlsInv => TlsPairServed
  BY DEF TlsInv, TlsOf, CertInv, Pair, Emptied, Paired, TlsPairServed
<1> QED BY <1>1, TlsInvariance, PTL

\* However often the rotation is cut short and repeated, what is kept aside is
\* the CA-marked pair, but for the half that a kill inside cp has cost.
THEOREM BackupKept == Spec => []BackupIsLegacyPair
<1>1. TlsInv => BackupIsLegacyPair
  BY DEF TlsInv, TlsOf, OldCertInv, OldKeyInv, BackupIsLegacyPair
<1> QED BY <1>1, TlsInvariance, PTL
=============================================================================
