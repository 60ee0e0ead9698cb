-------------------------- MODULE MinerTurnProofs --------------------------
(***************************************************************************)
(* Three results about SignetMiner that rest on its inductive invariant    *)
(* and on one more each: the NameError of gbt never takes the last miner,  *)
(* nobody takes another miner's slot early, and two blocks on one parent   *)
(* come from a race only.                                                  *)
(***************************************************************************)
EXTENDS SignetMinerProofs

(***************************************************************************)
(* Survival.  SomeMinerSurvives is not inductive: the survivor could have  *)
(* polled a block that is no longer the tip, and die next.  As long as     *)
(* nothing reorganises, the tip moves only with a Submit, and whoever      *)
(* submits is then at the head of its loop, or has ended another way.      *)
(***************************************************************************)
Safe(m) ==
  /\ pc[m] # "nameerror"
  /\ pc[m] \in {"schedule", "gbt"} => best[m] = tip

SurvivorInv == (reorgs = 0 /\ Miners # {}) => \E m \in Miners : Safe(m)

\* A process whose own step is not GbtMismatch stays safe while the tip does.
LEMMA SafeStep ==
  ASSUME TypeOK, NEW m \in Miners, Safe(m), NEW x \in Miners,
         Start(x) \/ Step(x) \/ SignFails(x) \/ RpcError(x),
         tip' = tip
  PROVE  Safe(m)'
<1> USE DEF Safe
<1>0. pc \in [Miners -> PCs] /\ best \in [Miners -> {0} \cup Ids]
  BY DEF TypeOK
<1>1. CASE Start(x)
  BY <1>0, <1>1 DEF Start
<1>2. CASE Poll(x)
  BY <1>0, <1>2 DEF Poll
<1>3. CASE ScheduleDue(x)
  BY <1>0, <1>3 DEF ScheduleDue
<1>4. CASE ScheduleSleep(x)
  BY <1>0, <1>4 DEF ScheduleSleep, Leave
<1>5. CASE Gbt(x)
  BY <1>0, <1>5 DEF Gbt
<1>6. CASE GbtTooEarly(x)
  BY <1>0, <1>6 DEF GbtTooEarly, Leave
<1>7. CASE GbtMismatch(x)
  BY <1>0, <1>7 DEF GbtMismatch, Leave
<1>8. CASE Mine(x)
  BY <1>0, <1>8 DEF Mine
<1>9. CASE Submit(x)
  BY <1>0, <1>9 DEF Submit, Leave, LoopHead
<1>10. CASE SignFails(x)
  BY <1>0, <1>10 DEF SignFails, Leave
<1>11. CASE RpcError(x)
  BY <1>0, <1>11 DEF RpcError, Leave
<1> QED BY <1>1, <1>2, <1>3, <1>4, <1>5, <1>6, <1>7, <1>8, <1>9, <1>10, <1>11
        DEF Step

\* Who submits is safe afterwards, whatever became of the tip.
LEMMA SubmitterSafe ==
  ASSUME TypeOK, NEW x \in Miners, Submit(x)
  PROVE  Safe(x)'
<1>1. pc \in [Miners -> PCs]
  BY DEF TypeOK
<1>2. pc'[x] \in {"done", "poll", "rpcerror"}
  BY <1>1 DEF Submit, Leave, LoopHead
<1> QED BY <1>2 DEF Safe

LEMMA SurvivorNext == TypeOK /\ SurvivorInv /\ [Next]_vars => SurvivorInv'
<1> SUFFICES ASSUME TypeOK, SurvivorInv, [Next]_vars, reorgs' = 0, Miners # {}
             PROVE  \E m \in Miners : Safe(m)'
  BY DEF SurvivorInv
<1>1. ASSUME NEW x \in Miners, Start(x) \/ Step(x) \/ SignFails(x) \/ RpcError(x)
      PROVE  \E m \in Miners : Safe(m)'
  <2>1. reorgs' = reorgs
    BY <1>1 DEF Start, Step, SignFails, RpcError, Poll, ScheduleDue,
                ScheduleSleep, Gbt, GbtTooEarly, GbtMismatch, Mine, Submit,
                nodeVars
  <2>2. PICK m \in Miners : Safe(m)
    BY <2>1 DEF SurvivorInv
  <2>3. CASE tip' = tip
    BY <1>1, <2>2, <2>3, SafeStep
  <2>4. CASE tip' # tip
    <3>1. Submit(x)
      BY <1>1, <2>4 DEF Start, Step, SignFails, RpcError, Poll, ScheduleDue,
                        ScheduleSleep, Gbt, GbtTooEarly, GbtMismatch, Mine,
                        nodeVars
    <3> QED BY <3>1, SubmitterSafe
  <2> QED BY <2>3, <2>4
<1>2. CASE Reorg
  BY <1>2 DEF Reorg, TypeOK
<1>3. CASE Tick
  BY <1>3 DEF Tick, SurvivorInv, Safe, nodeVars, minerVars
<1>4. CASE UNCHANGED vars
  BY <1>4 DEF SurvivorInv, Safe, vars, nodeVars, minerVars
<1> QED BY <1>1, <1>2, <1>3, <1>4 DEF Next

\* Any number of miners: unless the chain is reorganised from outside, the
\* NameError of gbt never ends all of them.
THEOREM LastMinerSurvives == Spec => []SomeMinerSurvives
<1>1. Init => SurvivorInv
  BY DEF Init, SurvivorInv, Safe
<1>2. SurvivorInv => SomeMinerSurvives
  BY DEF SurvivorInv, Safe, SomeMinerSurvives
<1> QED BY <1>1, <1>2, SurvivorNext, TypeCorrect, PTL DEF Spec

(***************************************************************************)
(* Patience.  BackupPatience speaks of stored blocks; what it needs is     *)
(* decided in ScheduleDue, on the block that was polled, and must hold of  *)
(* the parent that Gbt takes.  PatientPlan carries it across: mined is     *)
(* raised by Gbt, so that a first block is one with mined = 0 before and   *)
(* mined = 1 after.                                                        *)
(***************************************************************************)
NotFirst(m) == mined[m] > (IF pc[m] = "gbt" THEN 0 ELSE 1)

PatientPlan(m) ==
  /\ pc[m] \in {"gbt", "mine", "submit"}
  /\ ~Args[m].set_block_time
  /\ blocks[best[m]].height > 0
  /\ Args[m].standby_delay > 0 \/ NotFirst(m)
  => now[m] >= PatientTime(m, blocks[best[m]])

ParentInv ==
  \A i \in Mined : blocks[i].parent \in Ids /\ blocks[i].by \in Miners

PatienceInv ==
  /\ BackupPatience
  /\ ParentInv
  /\ \A m \in Miners : PatientPlan(m)

\* next_block_time of a patient miner.
LEMMA PatientAction ==
  ASSUME NEW m \in Miners, NEW t \in Nat, NEW b, NEW first \in BOOLEAN,
         b.height \in 0..MaxHeight, b.var \in Nat, b.time \in Nat,
         ~Args[m].set_block_time, b.height > 0,
         ~first \/ Args[m].standby_delay > 0
  PROVE  next_block_time(m, t, b, first).action >= PatientTime(m, b)
<1>1. DueTime(m, b) \in Nat /\ PatientTime(m, b) \in Nat
  BY DueType
<1>2. Args[m].standby_delay \in Nat
  BY ArgsAssumption DEF ArgsType
<1>3. next_block_time(m, t, b, first).action
        = max(PatientTime(m, b), DueTime(m, b) - FutureMargin)
  BY <1>2 DEF next_block_time
<1> QED BY <1>1, <1>3, TimesAssumption DEF max

\* A step that stores no block leaves what is said of stored blocks alone.
LEMMA PatienceQuiet ==
  ASSUME PatienceInv, blocks' = blocks, \A m \in Miners : PatientPlan(m)'
  PROVE  PatienceInv'
<1>1. Ids' = Ids /\ Mined' = Mined
  BY DEF Ids, Mined
<1>2. BackupPatience'
  BY <1>1 DEF PatienceInv, BackupPatience, Scheduled
<1>3. ParentInv'
  BY <1>1 DEF PatienceInv, ParentInv
<1> QED BY <1>2, <1>3 DEF PatienceInv

\* The plan of a process that does not move.
LEMMA OtherPlan ==
  ASSUME IndInv, PatienceInv, NEW m \in Miners,
         pc'[m] = pc[m], best'[m] = best[m], now'[m] = now[m],
         mined'[m] = mined[m],
         \A i \in Ids : blocks'[i] = blocks[i]
  PROVE  PatientPlan(m)'
<1>1. SUFFICES ASSUME pc[m] \in {"gbt", "mine", "submit"} PROVE PatientPlan(m)'
  BY DEF PatientPlan
<1>2. best[m] \in Ids
  BY <1>1 DEF IndInv, PlanInv, PolledInv
<1>3. blocks'[best'[m]] = blocks[best[m]]
  BY <1>2
<1> QED BY <1>3 DEF PatientPlan, NotFirst, PatienceInv

LEMMA PatienceDue ==
  ASSUME IndInv, PatienceInv, NEW x \in Miners, ScheduleDue(x)
  PROVE  PatientPlan(x)'
<1> DEFINE b == blocks[best[x]]
           plan == next_block_time(x, clock, b, mined[x] = 0)
<1>1. /\ pc'[x] = "gbt" /\ now'[x] = clock /\ best' = best /\ mined' = mined
      /\ blocks' = blocks /\ clock >= plan.action
  BY DEF ScheduleDue, IndInv, TypeOK, nodeVars
<1>2. SUFFICES ASSUME ~Args[x].set_block_time, b.height > 0,
                      Args[x].standby_delay > 0 \/ mined[x] > 0
               PROVE  clock >= PatientTime(x, b)
  BY <1>1 DEF PatientPlan, NotFirst
<1>3. best[x] \in Ids
  BY DEF ScheduleDue, IndInv, PlanInv, PolledInv
<1>4. b.height \in 0..MaxHeight /\ b.time \in Nat /\ b.var \in Nat
  BY <1>3, BlockFacts DEF IndInv
<1>5. clock \in Nat /\ mined[x] \in Nat
  BY DEF IndInv, TypeOK
<1>6. plan.action >= PatientTime(x, b)
  <2>1. (mined[x] = 0) \in BOOLEAN /\ (~(mined[x] = 0) \/ Args[x].standby_delay > 0)
    BY <1>2, <1>5
  <2> HIDE DEF b
  <2> QED BY <1>2, <1>4, <1>5, <2>1, PatientAction
<1>7. plan.action \in Nat /\ PatientTime(x, b) \in Nat
  <2>1. plan.action \in Nat
    BY PlanType DEF ScheduleDue
  <2> HIDE DEF b
  <2>2. PatientTime(x, b) \in Nat
    BY <1>4, DueType
  <2> QED BY <2>1, <2>2
<1> HIDE DEF plan, b
<1> QED BY <1>1, <1>5, <1>6, <1>7

\* A block that is stored was planned with patience.
LEMMA PatienceSubmit ==
  ASSUME IndInv, PatienceInv, NEW x \in Miners, Submit(x)
  PROVE  PatienceInv'
<1>1. /\ pc \in [Miners -> PCs] /\ pc[x] = "submit"
      /\ best' = best /\ mined' = mined
      /\ pc'[x] \in {"done", "poll", "rpcerror"}
      /\ \A m \in Miners \ {x} : pc'[m] = pc[m] /\ now'[m] = now[m]
  BY DEF Submit, Leave, LoopHead, IndInv, TypeOK
<1>2. CASE blocks' = blocks
  <2>1. ASSUME NEW m \in Miners PROVE PatientPlan(m)'
    <3>1. CASE m = x
      BY <1>1, <3>1 DEF PatientPlan
    <3>2. CASE m # x
      BY <1>1, <1>2, <3>2, OtherPlan
    <3> QED BY <3>1, <3>2
  <2> QED BY <1>2, <2>1, PatienceQuiet
<1>3. ASSUME NEW r \in Rands, NEW v \in Variances,
             blocks' = Append(blocks, NewBlock(x, r, v))
      PROVE  PatienceInv'
  <2> DEFINE new == Len(blocks) + 1
  <2>1. Len(blocks) \in Nat /\ Len(blocks) >= 1 /\ blocks \in Seq(BlockType)
    BY DEF IndInv, TypeOK, Ids
  <2>2. /\ Ids' = Ids \cup {new} /\ new \notin Ids /\ new # 1
        /\ blocks'[new] = NewBlock(x, r, v)
        /\ \A i \in Ids : blocks'[i] = blocks[i]
    BY <1>3, <2>1 DEF Ids
  <2>3. Mined' = Mined \cup {new}
    BY <2>2 DEF Mined
  <2>4. tmpl[x] = best[x] /\ best[x] \in Ids /\ mined[x] >= 1 /\ mined[x] \in Nat
    BY <1>1 DEF IndInv, PlanInv, PolledInv, TemplateInv, TypeOK
  <2>5. /\ blocks'[new].parent = best[x] /\ blocks'[new].by = x
        /\ blocks'[new].planned = now[x] /\ blocks'[new].first = (mined[x] = 1)
    BY <2>2, <2>4 DEF NewBlock
  <2>6. ParentInv'
    <3>1. ASSUME NEW i \in Mined'
          PROVE  blocks'[i].parent \in Ids' /\ blocks'[i].by \in Miners
      <4>1. CASE i = new
        BY <4>1, <2>2, <2>4, <2>5
      <4>2. CASE i \in Mined
        <5>1. blocks'[i] = blocks[i]
          BY <4>2, <2>2 DEF Mined
        <5> QED BY <4>2, <5>1, <2>2 DEF PatienceInv, ParentInv
      <4> QED BY <4>1, <4>2, <2>3
    <3> QED BY <3>1 DEF ParentInv
  <2>7. ASSUME NEW m \in Miners PROVE PatientPlan(m)'
    <3>1. CASE m = x
      BY <1>1, <3>1 DEF PatientPlan
    <3>2. CASE m # x
      BY <1>1, <2>2, <3>2, OtherPlan
    <3> QED BY <3>1, <3>2
  <2>8. BackupPatience'
    <3>1. SUFFICES ASSUME NEW i \in Mined',
                          ~Args[blocks'[i].by].set_block_time,
                          blocks'[blocks'[i].parent].height > 0,
                          ~blocks'[i].first \/ Args[blocks'[i].by].standby_delay > 0
                   PROVE  blocks'[i].planned
                            >= PatientTime(blocks'[i].by, blocks'[blocks'[i].parent])
      BY DEF BackupPatience, Scheduled
    <3>2. CASE i = new
      <4>1. blocks'[blocks'[i].parent] = blocks[best[x]]
        BY <3>2, <2>2, <2>4, <2>5
      <4>2. PatientPlan(x)
        BY DEF PatienceInv
      <4>3. Args[x].standby_delay > 0 \/ NotFirst(x)
        <5>1. Args[x].standby_delay > 0 \/ ~(mined[x] = 1)
          BY <2>5, <3>1, <3>2, Zenon
        <5>2. ~(mined[x] = 1) => mined[x] > 1
          BY <2>4
        <5>3. NotFirst(x) <=> mined[x] > 1
          BY <1>1 DEF NotFirst
        <5> QED BY <5>1, <5>2, <5>3, Zenon
      <4>4. now[x] >= PatientTime(x, blocks[best[x]])
        BY <1>1, <2>5, <3>1, <3>2, <4>1, <4>2, <4>3 DEF PatientPlan
      <4> QED BY <2>5, <3>2, <4>1, <4>4
    <3>3. CASE i \in Mined
      <4>1. blocks'[i] = blocks[i] /\ blocks[i].parent \in Ids
        BY <3>3, <2>2 DEF Mined, PatienceInv, ParentInv
      <4>2. blocks'[blocks'[i].parent] = blocks[blocks[i].parent]
        BY <4>1, <2>2
      <4> QED BY <3>1, <3>3, <4>1, <4>2 DEF PatienceInv, BackupPatience, Scheduled
    <3> QED BY <2>3, <3>2, <3>3
  <2> QED BY <2>6, <2>7, <2>8 DEF PatienceInv
<1> QED BY <1>2, <1>3 DEF Submit

\* The plan of the process that moves, when it stores no block.
LEMMA OwnPlan ==
  ASSUME IndInv, PatienceInv, NEW x \in Miners,
         Start(x) \/ Step(x) \/ SignFails(x) \/ RpcError(x), ~Submit(x)
  PROVE  PatientPlan(x)'
<1>0. pc \in [Miners -> PCs] /\ mined \in [Miners -> Nat]
  BY DEF IndInv, TypeOK
<1>1. CASE pc'[x] \notin {"gbt", "mine", "submit"}
  BY <1>1 DEF PatientPlan
<1>2. CASE ScheduleDue(x)
  BY <1>2, PatienceDue
<1>3. CASE Gbt(x)
  <2>1. /\ pc[x] = "gbt" /\ pc'[x] = "mine" /\ mined'[x] = mined[x] + 1
        /\ best' = best /\ now' = now /\ blocks' = blocks
    BY <1>0, <1>3 DEF Gbt, nodeVars
  <2>2. NotFirst(x)' => NotFirst(x)
    BY <1>0, <2>1 DEF NotFirst
  <2>3. PatientPlan(x)
    BY DEF PatienceInv
  <2> QED BY <2>1, <2>2, <2>3 DEF PatientPlan
<1>4. CASE Mine(x)
  <2>1. /\ pc[x] = "mine" /\ pc'[x] = "submit" /\ mined' = mined
        /\ best' = best /\ now' = now /\ blocks' = blocks
    BY <1>0, <1>4 DEF Mine, nodeVars
  <2>2. PatientPlan(x)
    BY DEF PatienceInv
  <2> QED BY <2>1, <2>2 DEF PatientPlan, NotFirst
<1>5. CASE ~(ScheduleDue(x) \/ Gbt(x) \/ Mine(x))
  BY <1>0, <1>1, <1>5 DEF Start, Step, SignFails, RpcError, Poll, ScheduleSleep,
                          GbtTooEarly, GbtMismatch, Leave
<1> QED BY <1>2, <1>3, <1>4, <1>5

LEMMA PatienceNext == IndInv /\ PatienceInv /\ [Next]_vars => PatienceInv'
<1> SUFFICES ASSUME IndInv, PatienceInv, [Next]_vars
             PROVE  PatienceInv'
  OBVIOUS
<1>1. ASSUME NEW x \in Miners, Start(x) \/ Step(x) \/ SignFails(x) \/ RpcError(x),
             ~Submit(x)
      PROVE  PatienceInv'
  <2>1. /\ blocks' = blocks
        /\ \A m \in Miners \ {x} : /\ pc'[m] = pc[m] /\ best'[m] = best[m]
                                    /\ now'[m] = now[m] /\ mined'[m] = mined[m]
    BY <1>1 DEF Start, Step, SignFails, RpcError, Poll, ScheduleDue,
                ScheduleSleep, Gbt, GbtTooEarly, GbtMismatch, Mine, Leave,
                nodeVars, IndInv, TypeOK
  <2>2. ASSUME NEW m \in Miners \ {x} PROVE PatientPlan(m)'
    BY <2>1, OtherPlan
  <2>3. PatientPlan(x)'
    BY <1>1, OwnPlan
  <2> QED BY <2>1, <2>2, <2>3, PatienceQuiet
<1>2. ASSUME NEW x \in Miners, Submit(x) PROVE PatienceInv'
  BY <1>2, PatienceSubmit
<1>3. CASE Reorg \/ Tick \/ UNCHANGED vars
  <2>1. blocks' = blocks /\ UNCHANGED <<pc, best, now, mined>>
    BY <1>3 DEF Reorg, Tick, vars, nodeVars, minerVars
  <2>2. ASSUME NEW m \in Miners PROVE PatientPlan(m)'
    BY <2>1, OtherPlan
  <2> QED BY <2>1, <2>2, PatienceQuiet
<1> QED BY <1>1, <1>2, <1>3 DEF Next

LEMMA PatienceInvariance == Spec => []PatienceInv
<1>1. Init => PatienceInv
  <2> SUFFICES ASSUME Init PROVE PatienceInv
    OBVIOUS
  <2>1. Mined = {}
    BY DEF Init, Mined, Ids
  <2>2. \A m \in Miners : PatientPlan(m)
    BY DEF Init, PatientPlan
  <2> QED BY <2>1, <2>2 DEF PatienceInv, BackupPatience, ParentInv
<1> QED BY <1>1, PatienceNext, Invariance, PTL DEF Spec

\* Any number of miners, any delays, any reorganisations: no block that is
\* stored was planned before its miner's turn on the parent it has, unless it
\* was the first block of a miner without --standby-delay.
THEOREM BackupsArePatient == Spec => []BackupPatience
<1>1. PatienceInv => BackupPatience
  BY DEF PatienceInv
<1> QED BY <1>1, PatienceInvariance, PTL

(***************************************************************************)
(* ForksOnlyInRace is not inductive: a process that holds a template must  *)
(* not have planned it after a sibling of its block to be was stored.  Gbt *)
(* establishes that (RaceInv), because its template is on the tip and no   *)
(* valid block is higher than the tip (TipInv, HeightInv); whatever is     *)
(* stored later is stored after the plan was made (StoredInv).             *)
(***************************************************************************)
TipInv ==
  /\ tip \notin invalid
  /\ \A c \in Ids \ invalid : blocks[c].height <= blocks[tip].height

HeightInv ==
  \A i \in Mined :
    /\ blocks[i].parent \in Ids
    /\ blocks[i].height = blocks[blocks[i].parent].height + 1

StoredInv ==
  \A i \in Mined : blocks[i].planned <= clock /\ blocks[i].at <= clock

RaceInv(m) ==
  pc[m] \in {"mine", "submit"} =>
    \A i \in Mined \ invalid :
      blocks[i].parent = tmpl[m] => blocks[i].at >= now[m]

ForkInv ==
  /\ TipInv
  /\ HeightInv
  /\ StoredInv
  /\ \A m \in Miners : RaceInv(m)
  /\ ForksOnlyInRace

\* A valid block has no valid child when it is the tip.
LEMMA TipIsALeaf ==
  ASSUME TypeOK, TipInv, HeightInv, NEW i \in Mined \ invalid
  PROVE  blocks[i].parent # tip
<1>1. i \in Ids \ invalid /\ tip \in Ids
  BY DEF Mined, TypeOK
<1>2. blocks[i].height <= blocks[tip].height
  BY <1>1 DEF TipInv
<1>3. blocks[i].height \in Nat /\ blocks[tip].height \in Nat
  BY <1>1, BlockFacts, IntervalAssumption
<1> QED BY <1>2, <1>3 DEF HeightInv

\* A step of process x that stores no block.
LEMMA ForkQuiet ==
  ASSUME ForkInv, UNCHANGED <<clock, nodeVars>>, NEW x \in Miners, RaceInv(x)',
         \A m \in Miners \ {x} :
           pc'[m] = pc[m] /\ now'[m] = now[m] /\ tmpl'[m] = tmpl[m]
  PROVE  ForkInv'
<1>1. /\ clock' = clock /\ blocks' = blocks /\ tip' = tip /\ invalid' = invalid
      /\ Ids' = Ids /\ Mined' = Mined
  BY DEF nodeVars, Ids, Mined
<1>2. TipInv' /\ HeightInv' /\ StoredInv' /\ ForksOnlyInRace'
  BY <1>1 DEF ForkInv, TipInv, HeightInv, StoredInv, ForksOnlyInRace
<1>3. ASSUME NEW m \in Miners PROVE RaceInv(m)'
  BY <1>1 DEF ForkInv, RaceInv
<1> QED BY <1>2, <1>3 DEF ForkInv

\* The same without a process.
LEMMA ForkStill ==
  ASSUME ForkInv, TypeOK, TypeOK', UNCHANGED <<blocks, minerVars>>, TipInv',
         invalid \subseteq invalid', clock' >= clock
  PROVE  ForkInv'
<1>1. Ids' = Ids /\ Mined' = Mined /\ UNCHANGED <<pc, now, tmpl>>
  BY DEF Ids, Mined, minerVars
<1>2. HeightInv'
  BY <1>1 DEF ForkInv, HeightInv
<1>3. StoredInv'
  <2>1. ASSUME NEW i \in Mined
        PROVE  blocks[i].planned <= clock' /\ blocks[i].at <= clock'
    <3>1. blocks[i].planned \in Nat /\ blocks[i].at \in Nat
      BY BlockFacts DEF Mined
    <3>2. clock \in Nat /\ clock' \in Nat
      BY DEF TypeOK
    <3>3. blocks[i].planned <= clock /\ blocks[i].at <= clock
      BY DEF ForkInv, StoredInv
    <3> QED BY <3>1, <3>2, <3>3
  <2> QED BY <1>1, <2>1 DEF StoredInv
<1>4. ForksOnlyInRace'
  BY <1>1 DEF ForkInv, ForksOnlyInRace
<1>5. ASSUME NEW m \in Miners PROVE RaceInv(m)'
  BY <1>1 DEF ForkInv, RaceInv
<1> QED BY <1>2, <1>3, <1>4, <1>5 DEF ForkInv

\* The node stores a block and takes it for its tip if it is higher.
LEMMA TipMoves ==
  ASSUME TypeOK, TipInv, NEW new, Ids' = Ids \cup {new}, new \notin Ids,
         \A i \in Ids : blocks'[i] = blocks[i],
         blocks'[new].height \in Nat, invalid' = invalid,
         tip' = IF blocks'[new].height > blocks[tip].height THEN new ELSE tip
  PROVE  TipInv'
<1> DEFINE h == blocks'[new].height
           top == blocks[tip].height
<1>1. tip \in Ids /\ invalid \subseteq Ids /\ tip \notin invalid
  BY DEF TypeOK, TipInv
<1>2. \A i \in Ids : blocks[i].height \in Nat
  BY BlockFacts, IntervalAssumption
<1>3. \A c \in Ids \ invalid : blocks'[c].height <= top /\ blocks'[c].height \in Nat
  BY <1>2 DEF TipInv
<1>4. h \in Nat /\ top \in Nat /\ blocks'[tip].height = top
  BY <1>1, <1>2
<1>5. tip' = IF h > top THEN new ELSE tip
  OBVIOUS
<1>6. \A c \in Ids' \ invalid' : c = new \/ c \in Ids \ invalid
  OBVIOUS
<1> HIDE DEF top
<1>7. CASE h > top
  <2>1. \A c \in Ids' \ invalid' : blocks'[c].height <= h
    BY <1>3, <1>4, <1>6, <1>7
  <2> QED BY <1>1, <1>5, <1>7, <2>1 DEF TipInv
<1>8. CASE ~(h > top)
  <2>1. \A c \in Ids' \ invalid' : blocks'[c].height <= top
    BY <1>3, <1>4, <1>6, <1>8
  <2> QED BY <1>1, <1>4, <1>5, <1>8, <2>1 DEF TipInv
<1> QED BY <1>7, <1>8

\* The node stores the block of miner x.
LEMMA ForkSubmit ==
  ASSUME IndInv, ForkInv, NEW x \in Miners, Submit(x),
         NEW r \in Rands, NEW v \in Variances,
         blocks' = Append(blocks, NewBlock(x, r, v)),
         tip' = IF blocks[tmpl[x]].height + 1 > blocks[tip].height
                THEN Len(blocks) + 1 ELSE tip
  PROVE  ForkInv'
<1> DEFINE new == Len(blocks) + 1
<1>0. Len(blocks) \in Nat /\ Len(blocks) >= 1 /\ blocks \in Seq(BlockType)
  BY DEF IndInv, TypeOK, Ids
<1>1. /\ invalid \subseteq Ids /\ tip \in Ids /\ clock \in Nat
      /\ pc \in [Miners -> PCs] /\ now \in [Miners -> Nat]
      /\ pc[x] = "submit"
  BY DEF Submit, IndInv, TypeOK, Ids
<1>2. /\ Ids' = Ids \cup {new} /\ new \notin Ids /\ new # 1
      /\ \A i \in Ids : blocks'[i] = blocks[i]
  BY <1>0 DEF Ids
<1>3. Mined' = Mined \cup {new} /\ Mined \subseteq Ids /\ new \notin Mined
  BY <1>2 DEF Mined
<1>4. tmpl[x] \in Ids /\ now[x] <= clock
  BY <1>1 DEF IndInv, PlanInv, PolledInv, PlannedInv, TemplateInv
<1>5. /\ blocks'[new].parent = tmpl[x]
      /\ blocks'[new].height = blocks[tmpl[x]].height + 1
      /\ blocks'[new].planned = now[x] /\ blocks'[new].at = clock
  <2>1. blocks'[new] = NewBlock(x, r, v)
    BY <1>0
  <2> QED BY <2>1 DEF NewBlock
<1>6. /\ invalid' = invalid /\ clock' = clock
      /\ pc'[x] \in {"done", "poll", "rpcerror"}
      /\ \A m \in Miners \ {x} :
           pc'[m] = pc[m] /\ now'[m] = now[m] /\ tmpl'[m] = tmpl[m]
  BY <1>1 DEF Submit, Leave, LoopHead, IndInv, TypeOK
<1>7. new \notin invalid
  BY <1>1, <1>2
<1>8. \A i \in Ids : blocks[i].height \in Nat
  BY BlockFacts, IntervalAssumption DEF IndInv
<1> HIDE DEF new
<1>9. TipInv'
  <2>1. tip' = IF blocks'[new].height > blocks[tip].height THEN new ELSE tip
    BY <1>5 DEF new
  <2>2. blocks'[new].height \in Nat
    BY <1>4, <1>5, <1>8
  <2> QED BY <1>2, <1>6, <2>1, <2>2, TipMoves DEF IndInv, ForkInv
<1>10. HeightInv'
  <2>1. ASSUME NEW i \in Mined'
        PROVE  /\ blocks'[i].parent \in Ids'
               /\ blocks'[i].height = blocks'[blocks'[i].parent].height + 1
    <3>1. CASE i = new
      BY <1>2, <1>4, <1>5, <3>1
    <3>2. CASE i \in Mined
      <4>1. /\ blocks[i].parent \in Ids
            /\ blocks[i].height = blocks[blocks[i].parent].height + 1
        BY <3>2 DEF ForkInv, HeightInv
      <4>2. blocks'[i] = blocks[i]
        BY <1>2, <1>3, <3>2
      <4> QED BY <1>2, <4>1, <4>2
    <3> QED BY <1>3, <3>1, <3>2
  <2> QED BY <2>1 DEF HeightInv
<1>11. StoredInv'
  <2>1. ASSUME NEW i \in Mined'
        PROVE  blocks'[i].planned <= clock' /\ blocks'[i].at <= clock'
    <3>1. CASE i = new
      <4>1. clock <= clock
        BY <1>1
      <4> QED BY <1>4, <1>5, <1>6, <3>1, <4>1
    <3>2. CASE i \in Mined
      <4>1. blocks[i].planned <= clock /\ blocks[i].at <= clock
        BY <3>2 DEF ForkInv, StoredInv
      <4> QED BY <1>2, <1>3, <1>6, <3>2, <4>1
    <3> QED BY <1>3, <3>1, <3>2
  <2> QED BY <2>1 DEF StoredInv
<1>12. ASSUME NEW m \in Miners PROVE RaceInv(m)'
  <2>1. CASE m = x
    BY <1>6, <2>1 DEF RaceInv
  <2>2. CASE m # x
    <3>1. SUFFICES ASSUME pc[m] \in {"mine", "submit"},
                          NEW i \in Mined' \ invalid',
                          blocks'[i].parent = tmpl[m]
                   PROVE  blocks'[i].at >= now[m]
      BY <1>6, <2>2 DEF RaceInv
    <3>2. CASE i = new
      <4>1. now[m] <= clock /\ now[m] \in Nat
        BY <1>1, <3>1 DEF IndInv, PlanInv, PlannedInv
      <4> QED BY <1>1, <1>5, <3>2, <4>1
    <3>3. CASE i \in Mined
      <4>1. blocks'[i] = blocks[i] /\ i \notin invalid
        BY <1>2, <1>3, <1>6, <3>1, <3>3
      <4> QED BY <3>1, <3>3, <4>1 DEF ForkInv, RaceInv
    <3> QED BY <1>3, <3>1, <3>2, <3>3
  <2> QED BY <2>1, <2>2
<1>13. ForksOnlyInRace'
  <2>1. SUFFICES ASSUME NEW i \in Mined' \ invalid', NEW j \in Mined' \ invalid',
                        i # j, blocks'[i].parent = blocks'[j].parent
                 PROVE  blocks'[i].at >= blocks'[j].planned
    BY DEF ForksOnlyInRace
  <2>2. CASE i = new
    <3>1. j \in Mined
      BY <1>3, <2>1, <2>2
    <3>2. blocks[j].planned <= clock /\ blocks[j].planned \in Nat
      BY <1>3, <3>1, BlockFacts DEF ForkInv, StoredInv, IndInv
    <3> QED BY <1>1, <1>2, <1>3, <1>5, <2>2, <3>1, <3>2
  <2>3. CASE j = new
    <3>1. i \in Mined \ invalid /\ blocks'[i] = blocks[i]
      BY <1>2, <1>3, <1>6, <2>1, <2>3
    <3>2. blocks[i].at >= now[x]
      BY <1>1, <1>5, <2>1, <2>3, <3>1 DEF ForkInv, RaceInv
    <3> QED BY <1>5, <2>3, <3>1, <3>2
  <2>4. CASE i # new /\ j # new
    <3>1. /\ i \in Mined \ invalid /\ blocks'[i] = blocks[i]
          /\ j \in Mined \ invalid /\ blocks'[j] = blocks[j]
      BY <1>2, <1>3, <1>6, <2>1, <2>4
    <3> QED BY <2>1, <3>1 DEF ForkInv, ForksOnlyInRace
  <2> QED BY <2>2, <2>3, <2>4
<1> QED BY <1>9, <1>10, <1>11, <1>12, <1>13 DEF ForkInv

\* The process that moves, when it stores no block.
LEMMA OwnRace ==
  ASSUME IndInv, ForkInv, NEW x \in Miners,
         Start(x) \/ Step(x) \/ SignFails(x) \/ RpcError(x),
         blocks' = blocks, invalid' = invalid
  PROVE  RaceInv(x)'
<1>0. pc \in [Miners -> PCs] /\ tmpl \in [Miners -> {0} \cup Ids]
  BY DEF IndInv, TypeOK
<1>1. Mined' = Mined
  BY DEF Mined, Ids
<1>2. CASE pc'[x] \notin {"mine", "submit"}
  BY <1>2 DEF RaceInv
<1>3. CASE Gbt(x)
  <2>1. tmpl'[x] = tip
    BY <1>0, <1>3 DEF Gbt
  <2> QED BY <1>1, <2>1, TipIsALeaf DEF RaceInv, ForkInv, IndInv
<1>4. CASE Mine(x)
  <2>1. pc[x] = "mine" /\ now' = now /\ tmpl' = tmpl
    BY <1>4 DEF Mine
  <2> QED BY <1>1, <2>1 DEF RaceInv, ForkInv
<1>5. CASE ~(Gbt(x) \/ Mine(x))
  <2>1. pc'[x] \notin {"mine", "submit"}
    BY <1>0, <1>5 DEF Start, Step, SignFails, RpcError, Poll, ScheduleDue,
                      ScheduleSleep, GbtTooEarly, GbtMismatch, Submit, LoopHead,
                      Leave
  <2> QED BY <1>2, <2>1
<1> QED BY <1>3, <1>4, <1>5

LEMMA ForkNext == IndInv /\ IndInv' /\ ForkInv /\ [Next]_vars => ForkInv'
<1> SUFFICES ASSUME IndInv, IndInv', ForkInv, [Next]_vars PROVE ForkInv'
  OBVIOUS
<1>0. TypeOK /\ TypeOK'
  BY DEF IndInv
<1>1. ASSUME NEW x \in Miners, Start(x) \/ Step(x) \/ SignFails(x) \/ RpcError(x),
             UNCHANGED <<blocks, tip>>
      PROVE  ForkInv'
  <2> DEFINE Others == \A m \in Miners \ {x} :
                          pc'[m] = pc[m] /\ now'[m] = now[m] /\ tmpl'[m] = tmpl[m]
  <2>1. UNCHANGED <<clock, nodeVars>> /\ Others
    <3>1. CASE Start(x) \/ Poll(x)
      BY <1>0, <3>1 DEF Start, Poll, Leave, nodeVars, TypeOK
    <3>2. CASE ScheduleDue(x) \/ ScheduleSleep(x)
      BY <1>0, <3>2 DEF ScheduleDue, ScheduleSleep, Leave, nodeVars, TypeOK
    <3>3. CASE Gbt(x) \/ GbtTooEarly(x) \/ GbtMismatch(x)
      BY <1>0, <3>3 DEF Gbt, GbtTooEarly, GbtMismatch, Leave, nodeVars, TypeOK
    <3>4. CASE Mine(x)
      BY <1>0, <3>4 DEF Mine, Leave, nodeVars, TypeOK
    <3>5. CASE Submit(x)
      BY <1>0, <1>1, <3>5 DEF Submit, LoopHead, Leave, nodeVars, TypeOK
    <3>6. CASE SignFails(x) \/ RpcError(x)
      BY <1>0, <3>6 DEF SignFails, RpcError, Leave, nodeVars, TypeOK
    <3> QED BY <1>1, <3>1, <3>2, <3>3, <3>4, <3>5, <3>6 DEF Step
  <2>2. RaceInv(x)'
    BY <1>1, <2>1, OwnRace DEF nodeVars
  <2> QED BY <2>1, <2>2, ForkQuiet
<1>2. ASSUME NEW x \in Miners, Submit(x) PROVE ForkInv'
  <2>1. CASE UNCHANGED <<blocks, tip>>
    BY <1>1, <1>2, <2>1 DEF Step
  <2>2. CASE ~UNCHANGED <<blocks, tip>>
    BY <1>2, <2>2, ForkSubmit DEF Submit
  <2> QED BY <2>1, <2>2
<1>3. ASSUME NEW x \in Miners, Start(x) \/ Step(x) \/ SignFails(x) \/ RpcError(x),
             ~Submit(x)
      PROVE  ForkInv'
  <2>1. UNCHANGED <<blocks, tip>>
    BY <1>3 DEF Start, Step, SignFails, RpcError, Poll, ScheduleDue,
                ScheduleSleep, Gbt, GbtTooEarly, GbtMismatch, Mine, nodeVars
  <2> QED BY <1>1, <1>3, <2>1
<1>4. CASE Reorg
  <2>1. /\ tip' \in Ids \ invalid'
        /\ \A c \in Ids \ invalid' : blocks[c].height <= blocks[tip'].height
        /\ invalid \subseteq invalid' /\ clock' = clock
        /\ UNCHANGED <<blocks, minerVars>>
    BY <1>4 DEF Reorg
  <2>2. TipInv'
    BY <2>1 DEF TipInv, Ids
  <2>3. clock' >= clock
    BY <1>0, <2>1 DEF TypeOK
  <2> QED BY <1>0, <2>1, <2>2, <2>3, ForkStill
<1>5. CASE Tick
  <2>1. UNCHANGED <<blocks, tip, invalid>> /\ UNCHANGED minerVars /\ clock' >= clock
    BY <1>0, <1>5 DEF Tick, nodeVars, TypeOK
  <2>2. TipInv'
    BY <2>1 DEF ForkInv, TipInv, Ids
  <2> QED BY <1>0, <2>1, <2>2, ForkStill
<1>6. CASE UNCHANGED vars
  <2>1. UNCHANGED <<blocks, tip, invalid>> /\ UNCHANGED minerVars /\ clock' >= clock
    BY <1>0, <1>6 DEF vars, nodeVars, TypeOK
  <2>2. TipInv'
    BY <2>1 DEF ForkInv, TipInv, Ids
  <2> QED BY <1>0, <2>1, <2>2, ForkStill
<1> QED BY <1>2, <1>3, <1>4, <1>5, <1>6 DEF Next

LEMMA ForkInvariance == Spec => []ForkInv
<1>1. Init => ForkInv
  <2> SUFFICES ASSUME Init PROVE ForkInv
    OBVIOUS
  <2>1. Ids = {1} /\ Mined = {} /\ tip = 1 /\ invalid = {}
    BY DEF Init, Ids, Mined
  <2>2. blocks[1].height = 0
    BY DEF Init, Genesis
  <2>3. TipInv
    BY <2>1, <2>2 DEF TipInv
  <2>4. HeightInv /\ StoredInv /\ ForksOnlyInRace /\ \A m \in Miners : RaceInv(m)
    BY <2>1 DEF HeightInv, StoredInv, ForksOnlyInRace, RaceInv
  <2> QED BY <2>3, <2>4 DEF ForkInv
<1> QED BY <1>1, ForkNext, Invariance, PTL DEF Spec

\* Of two valid blocks on one parent, neither was planned by its miner after
\* the other one had been stored: do_generate polls the tip, and gbt refuses
\* a template on any other block.
THEOREM ForksAreRaces == Spec => []ForksOnlyInRace
<1>1. ForkInv => ForksOnlyInRace
  BY DEF ForkInv
<1> QED BY <1>1, ForkInvariance, PTL
=============================================================================
