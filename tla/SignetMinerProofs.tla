------------------------- MODULE SignetMinerProofs -------------------------
(***************************************************************************)
(* Proofs about SignetMiner, for any number of miners and any command      *)
(* lines, delays, clocks and number of reorganisations.                    *)
(***************************************************************************)
EXTENDS SignetMiner, FiniteSetTheorems, WellFoundedInduction, TLAPS

(***************************************************************************)
(* The operators of Generate.                                              *)
(***************************************************************************)
\* next_block_delta is a whole number of seconds, at least 1 and at most
\* max_interval, whatever the targets and the hash.
LEMMA DeltaType ==
  ASSUME NEW m \in Miners, NEW b, b.height \in 0..MaxHeight, b.var \in Nat
  PROVE  /\ next_block_delta(m, b) \in Nat
         /\ next_block_delta(m, b) >= 1
         /\ next_block_delta(m, b) <= Args[m].max_interval
<1> DEFINE f == retarget_factor(m, b)
           variance == IF Args[m].poisson THEN b.var ELSE VarUnit
           raw == (INTERVAL * f[1] * variance) \div (f[2] * VarUnit)
<1>1. Args[m] \in ArgsType
  BY ArgsAssumption
<1>2. /\ Args[m].ultimate_target \in Nat \ {0}
      /\ Args[m].max_interval \in Nat \ {0}
  BY <1>1 DEF ArgsType
<1>3. BitsAt[b.height] \in Nat \ {0}
  BY IntervalAssumption
<1>4. f[1] \in Nat /\ f[2] \in Nat \ {0}
  BY <1>2, <1>3 DEF retarget_factor
<1>5. variance \in Nat
  BY IntervalAssumption
<1>6. INTERVAL * f[1] * variance \in Int /\ f[2] * VarUnit \in Nat \ {0}
  <2> HIDE DEF f, variance
  <2>1. INTERVAL * f[1] \in Nat
    BY <1>4, IntervalAssumption
  <2>2. (INTERVAL * f[1]) * variance \in Nat
    BY <2>1, <1>5
  <2>3. f[2] * VarUnit \in Nat \ {0}
    BY <1>4, IntervalAssumption
  <2> QED BY <2>2, <2>3
<1>7. raw \in Int
  <2> DEFINE x == INTERVAL * f[1] * variance
             y == f[2] * VarUnit
  <2>1. x \in Int /\ y \in Nat \ {0}
    BY <1>6
  <2> HIDE DEF x, y
  <2>2. x \div y \in Int
    BY <2>1
  <2> QED BY <2>2 DEF x, y
<1>8. next_block_delta(m, b) = max(1, min(raw, Args[m].max_interval))
  BY DEF next_block_delta
<1> HIDE DEF raw
<1> QED BY <1>2, <1>7, <1>8 DEF max, min

\* The due time and the patient time are integers, the due time is after the
\* block, and no miner is patient for less than nothing.
LEMMA DueType ==
  ASSUME NEW m \in Miners, NEW b, b.height \in 0..MaxHeight, b.var \in Nat,
         b.time \in Nat
  PROVE  /\ DueTime(m, b) \in Nat
         /\ DueTime(m, b) > b.time
         /\ PatientTime(m, b) \in Nat
         /\ PatientTime(m, b) >= DueTime(m, b)
<1>1. /\ next_block_delta(m, b) \in Nat
      /\ next_block_delta(m, b) >= 1
  BY DeltaType
<1>2. Args[m].standby_delay \in Nat /\ Args[m].backup_delay \in Nat
  BY ArgsAssumption DEF ArgsType
<1> QED BY <1>1, <1>2 DEF DueTime, PatientTime

(***************************************************************************)
(* The median of a window of timestamps exists: the least number with more *)
(* than half of the window at or below it is one of the timestamps.        *)
(***************************************************************************)
LEMMA LeastNat ==
  ASSUME NEW T \in SUBSET Nat, T # {}
  PROVE  \E x \in T : \A y \in T : x <= y
<1>1. \E x \in T : \A y \in T : ~ (<<y, x>> \in OpToRel(<, Nat))
  BY WFMin, NatLessThanWellFounded, Zenon
<1>2. PICK x \in T : \A y \in T : ~ (<<y, x>> \in OpToRel(<, Nat))
  BY <1>1
<1>3. \A y \in T : ~ (y < x)
  BY <1>2 DEF OpToRel
<1> QED BY <1>3

LEMMA MedianIsATime ==
  ASSUME NEW s \in Seq(Nat), Len(s) > 0, NEW B \in Nat,
         \A k \in 1..Len(s) : s[k] <= B
  PROVE  /\ Median(s) \in {s[i] : i \in 1..Len(s)}
         /\ Median(s) \in Nat
<1> DEFINE n == Len(s)
           Upto(t) == {i \in 1..n : s[i] <= t}
           Below(t) == {i \in 1..n : s[i] < t}
           T == {t \in Nat : Cardinality(Upto(t)) > n \div 2}
<1>1. n \in Nat /\ n > 0 /\ n \div 2 \in Nat /\ n > n \div 2
  BY Z3
<1>2. \A i \in 1..n : s[i] \in Nat
  OBVIOUS
<1>3. IsFiniteSet(1..n) /\ Cardinality(1..n) = n
  <2> HIDE DEF n
  <2>0. 1 \in Int /\ n \in Int
    BY <1>1
  <2>1. /\ IsFiniteSet(1..n)
        /\ Cardinality(1..n) = IF 1 > n THEN 0 ELSE n - 1 + 1
    BY <2>0, FS_Interval, Zenon
  <2> QED BY <1>1, <2>1
<1>4. \A t : Cardinality(Upto(t)) \in Nat /\ Cardinality(Below(t)) \in Nat
  BY <1>3, FS_Subset, FS_CardinalityType, Zenon
<1>5. B \in T
  <2>1. Upto(B) = 1..n
    OBVIOUS
  <2>2. Cardinality(Upto(B)) = n
    BY <2>1, <1>3
  <2> QED BY <2>2, <1>1
<1>6. PICK t \in T : \A u \in T : t <= u
  BY <1>5, LeastNat
<1>7. t \in Nat /\ Cardinality(Upto(t)) > n \div 2
  BY <1>6
<1>8. Cardinality(Below(t)) <= n \div 2
  <2>1. CASE t = 0
    <3>1. Below(t) = {}
      BY <2>1, <1>2
    <3>2. Cardinality(Below(t)) = 0
      BY <3>1, FS_EmptySet
    <3> QED BY <3>2, <1>1
  <2>2. CASE t # 0
    <3>1. t - 1 \in Nat /\ t - 1 < t
      BY <2>2, <1>7
    <3>2. t - 1 \notin T
      BY <3>1, <1>6, <1>7
    <3>3. ~(Cardinality(Upto(t - 1)) > n \div 2)
      BY <3>1, <3>2
    <3>4. Below(t) = Upto(t - 1)
      BY <1>2, <1>7
    <3>5. Cardinality(Below(t)) = Cardinality(Upto(t - 1))
      BY <3>4, Zenon
    <3>6. Cardinality(Below(t)) \in Nat
      BY <1>4
    <3> HIDE DEF n, Below, Upto
    <3> QED BY <3>3, <3>5, <3>6, <1>1
  <2> QED BY <2>1, <2>2
<1>9. t \in {s[i] : i \in 1..n}
  <2>1. SUFFICES ASSUME t \notin {s[i] : i \in 1..n} PROVE FALSE
    OBVIOUS
  <2>2. Below(t) = Upto(t)
    BY <2>1, <1>2, <1>7
  <2>3. Cardinality(Below(t)) = Cardinality(Upto(t))
    BY <2>2, Zenon
  <2>4. Cardinality(Below(t)) \in Nat
    BY <1>4
  <2> HIDE DEF n, Below, Upto
  <2> QED BY <2>3, <2>4, <1>7, <1>8, <1>1
<1>10. Median(s) \in {s[i] : i \in 1..Len(s)}
  BY <1>7, <1>8, <1>9 DEF Median
<1> QED BY <1>10, <1>2

(***************************************************************************)
(* The inductive invariant.  TypeOK and NoTimestampReject are not          *)
(* inductive: that a block has the time its parent demands depends on what *)
(* the process read two RPCs earlier.  PlanInv carries those facts from    *)
(* Poll through ScheduleDue and Gbt to Submit; WindowInv bounds the stored *)
(* timestamps, so that the median exists.                                  *)
(***************************************************************************)
WindowInv ==
  \A i \in Ids :
    /\ Len(blocks[i].times) > 0
    /\ \A k \in 1..Len(blocks[i].times) :
         blocks[i].times[k] <= clock + MaxFutureBlockTime

PolledInv(m) ==
  pc[m] \in {"schedule", "gbt", "mine", "submit"} =>
    /\ best[m] \in Ids
    /\ blocks[best[m]].height < MaxHeight

PlannedInv(m) ==
  pc[m] \in {"gbt", "mine", "submit"} =>
    /\ now[m] <= clock
    /\ mineTime[m] <= now[m] + FutureMargin

TemplateInv(m) ==
  pc[m] \in {"mine", "submit"} =>
    /\ tmpl[m] = best[m]
    /\ mineTime[m] >= mintime(tmpl[m])
    /\ mined[m] >= 1

PlanInv == \A m \in Miners : PolledInv(m) /\ PlannedInv(m) /\ TemplateInv(m)

IndInv ==
  /\ TypeOK
  /\ clock >= StartClock
  /\ WindowInv
  /\ PlanInv

(***************************************************************************)
(* Facts about the operators in a state that satisfies the invariant.      *)
(***************************************************************************)
LEMMA BlockFacts ==
  ASSUME TypeOK, NEW i \in Ids
  PROVE  /\ blocks[i] \in BlockType
         /\ blocks[i].parent \in Nat
         /\ blocks[i].height \in 0..MaxHeight
         /\ blocks[i].time \in Nat
         /\ blocks[i].times \in Seq(Nat)
         /\ blocks[i].rand \in Nat
         /\ blocks[i].var \in Nat
         /\ blocks[i].planned \in Nat
         /\ blocks[i].at \in Nat
<1>1. blocks[i] \in BlockType
  BY DEF TypeOK, Ids
<1> QED BY <1>1 DEF BlockType

\* mintime of a stored block is a timestamp.
LEMMA MintimeType ==
  ASSUME TypeOK, WindowInv, NEW i \in Ids
  PROVE  mintime(i) \in Nat
<1>1. blocks[i].times \in Seq(Nat)
  BY BlockFacts
<1>2. clock + MaxFutureBlockTime \in Nat
  BY TimesAssumption DEF TypeOK
<1>3. Median(blocks[i].times) \in Nat
  BY <1>1, <1>2, MedianIsATime DEF WindowInv
<1> QED BY <1>3 DEF mintime

\* What next_block_time returns: times that exist, and an action no more than
\* FutureMargin before the block's own time.
LEMMA PlanType ==
  ASSUME IndInv, NEW m \in Miners, pc[m] = "schedule",
         NEW plan, plan = next_block_time(m, clock, blocks[best[m]], mined[m] = 0)
  PROVE  /\ plan.mine \in Nat
         /\ plan.action \in Nat
         /\ plan.mine - FutureMargin <= plan.action
<1> DEFINE b == blocks[best[m]]
<1>1. best[m] \in Ids
  BY DEF IndInv, PlanInv, PolledInv
<1>2. b.height \in 0..MaxHeight /\ b.time \in Nat /\ b.var \in Nat
  BY <1>1, BlockFacts DEF IndInv
<1>3. DueTime(m, b) \in Nat /\ PatientTime(m, b) \in Nat
  BY <1>2, DueType
<1>4. setTime[m] \in Nat /\ clock \in Nat
  BY DEF IndInv, TypeOK
<1>5. FutureMargin \in Nat
  BY TimesAssumption
<1>6. clock - Backdate * INTERVAL \in Nat
  <2>1. Backdate * INTERVAL \in Nat
    BY TimesAssumption, IntervalAssumption
  <2>2. Backdate * INTERVAL <= clock
    BY <2>1, <1>4, TimesAssumption DEF IndInv
  <2> QED BY <2>1, <2>2, <1>4
<1> HIDE DEF b
<1>7. \E x, y \in Nat : plan = [mine |-> x, action |-> max(y, x - FutureMargin)]
  BY <1>3, <1>4, <1>6 DEF next_block_time, b
<1>8. PICK x, y \in Nat : plan = [mine |-> x, action |-> max(y, x - FutureMargin)]
  BY <1>7
<1>9. max(y, x - FutureMargin) \in Nat /\ x - FutureMargin <= max(y, x - FutureMargin)
  BY <1>5 DEF max
<1> QED BY <1>8, <1>9

(***************************************************************************)
(* Every step preserves the invariant.                                     *)
(***************************************************************************)
LEMMA InitInv == Init => IndInv
<1> SUFFICES ASSUME Init PROVE IndInv
  OBVIOUS
<1>1. Genesis \in BlockType
  <2>1. <<GenesisTime>> \in Seq(Nat) /\ GenesisTime \in Nat
    BY TimesAssumption
  <2> QED BY <2>1, IntervalAssumption DEF Genesis, BlockType
<1>2. blocks \in Seq(BlockType) /\ Ids = 1..1 /\ blocks[1] = Genesis
  BY <1>1 DEF Init, Ids
<1>3. TypeOK
  BY <1>2, TimesAssumption DEF Init, TypeOK, PCs, Ended
<1>4. clock >= StartClock
  BY TimesAssumption DEF Init
<1>5. WindowInv
  <2>1. blocks[1].times = <<GenesisTime>>
    BY <1>2 DEF Genesis
  <2>2. Len(blocks[1].times) = 1 /\ blocks[1].times[1] = GenesisTime
    BY <2>1
  <2>3. GenesisTime <= clock + MaxFutureBlockTime
    BY TimesAssumption DEF Init
  <2> QED BY <1>2, <2>2, <2>3 DEF WindowInv
<1>6. PlanInv
  BY DEF Init, PlanInv, PolledInv, PlannedInv, TemplateInv
<1> QED BY <1>3, <1>4, <1>5, <1>6 DEF IndInv

\* A step of one process that leaves the node and the clock alone.
LEMMA QuietStep ==
  ASSUME IndInv, TypeOK', UNCHANGED <<clock, nodeVars>>, NEW m \in Miners,
         (PolledInv(m) /\ PlannedInv(m) /\ TemplateInv(m))',
         \A x \in Miners \ {m} :
           /\ pc'[x] = pc[x] /\ best'[x] = best[x] /\ now'[x] = now[x]
           /\ mineTime'[x] = mineTime[x] /\ tmpl'[x] = tmpl[x]
           /\ mined'[x] = mined[x]
  PROVE  IndInv'
<1>1. clock' = clock /\ blocks' = blocks /\ Ids' = Ids
  BY DEF nodeVars, Ids
<1>2. WindowInv'
  BY <1>1 DEF IndInv, WindowInv
<1>3. ASSUME NEW x \in Miners
      PROVE  (PolledInv(x) /\ PlannedInv(x) /\ TemplateInv(x))'
  <2>1. CASE x = m
    BY <2>1
  <2>2. CASE x # m
    <3>1. PolledInv(x) /\ PlannedInv(x) /\ TemplateInv(x)
      BY DEF IndInv, PlanInv
    <3>2. \A p : mintime(p)' = mintime(p)
      BY <1>1 DEF mintime
    <3> QED BY <2>2, <3>1, <3>2, <1>1 DEF PolledInv, PlannedInv, TemplateInv
  <2> QED BY <2>1, <2>2
<1> QED BY <1>1, <1>2, <1>3 DEF IndInv, PlanInv

\* Leaving the body of the loop.
LEMMA LeaveStep ==
  ASSUME IndInv, NEW m \in Miners, NEW where \in Ended \cup {"poll"},
         Leave(m, where), UNCHANGED <<clock, nodeVars, setTime, best, mined>>,
         wake' \in [Miners -> Nat]
  PROVE  IndInv'
<1>1. TypeOK'
  BY DEF IndInv, TypeOK, Leave, nodeVars, PCs, Ids
<1>2. pc'[m] = where
  BY DEF IndInv, TypeOK, Leave
<1>3. (PolledInv(m) /\ PlannedInv(m) /\ TemplateInv(m))'
  BY <1>2 DEF PolledInv, PlannedInv, TemplateInv, Ended
<1>4. \A x \in Miners \ {m} :
        /\ pc'[x] = pc[x] /\ best'[x] = best[x] /\ now'[x] = now[x]
        /\ mineTime'[x] = mineTime[x] /\ tmpl'[x] = tmpl[x]
        /\ mined'[x] = mined[x]
  BY DEF IndInv, TypeOK, Leave
<1> QED BY <1>1, <1>3, <1>4, QuietStep

LEMMA StartStep == ASSUME IndInv, NEW m \in Miners, Start(m) PROVE IndInv'
<1>1. setTime' \in [Miners -> Nat]
  <2>1. CASE Args[m].set_block_time
    <3>1. PICK offset \in SetTimeOffsets :
            setTime' = [setTime EXCEPT ![m] =
              IF clock + offset < 0 THEN clock ELSE clock + offset]
      BY <2>1 DEF Start
    <3>2. offset \in Int /\ clock \in Nat
      BY SetsAssumption DEF IndInv, TypeOK
    <3>3. (IF clock + offset < 0 THEN clock ELSE clock + offset) \in Nat
      BY <3>2
    <3> QED BY <3>1, <3>3 DEF IndInv, TypeOK
  <2>2. CASE ~Args[m].set_block_time
    BY <2>2 DEF Start, IndInv, TypeOK
  <2> QED BY <2>1, <2>2
<1>2. TypeOK'
  BY <1>1 DEF IndInv, TypeOK, Start, nodeVars, PCs, Ids
<1>3. (PolledInv(m) /\ PlannedInv(m) /\ TemplateInv(m))'
  BY DEF Start, IndInv, TypeOK, PolledInv, PlannedInv, TemplateInv
<1> QED BY <1>2, <1>3, QuietStep DEF Start, IndInv, TypeOK

LEMMA PollStep == ASSUME IndInv, NEW m \in Miners, Poll(m) PROVE IndInv'
<1>1. TypeOK'
  BY DEF IndInv, TypeOK, Poll, nodeVars, PCs, Ids
<1>2. (PolledInv(m) /\ PlannedInv(m) /\ TemplateInv(m))'
  BY DEF Poll, IndInv, TypeOK, PolledInv, PlannedInv, TemplateInv, nodeVars, Ids
<1> QED BY <1>1, <1>2, QuietStep DEF Poll, IndInv, TypeOK

LEMMA ScheduleDueStep ==
  ASSUME IndInv, NEW m \in Miners, ScheduleDue(m) PROVE IndInv'
<1> DEFINE plan == next_block_time(m, clock, blocks[best[m]], mined[m] = 0)
<1>1. pc[m] = "schedule" /\ clock >= plan.action /\ clock \in Nat
  BY DEF ScheduleDue, IndInv, TypeOK
<1>2. /\ plan.mine \in Nat /\ plan.action \in Nat
      /\ plan.mine - FutureMargin <= plan.action
  BY <1>1, PlanType
<1>3. /\ now' = [now EXCEPT ![m] = clock]
      /\ mineTime' = [mineTime EXCEPT ![m] = plan.mine]
      /\ pc' = [pc EXCEPT ![m] = "gbt"]
      /\ UNCHANGED <<clock, nodeVars, setTime, best, mined, tmpl, wake>>
  BY DEF ScheduleDue
<1> HIDE DEF plan
<1>4. TypeOK'
  BY <1>1, <1>2, <1>3 DEF IndInv, TypeOK, nodeVars, PCs, Ids
<1>5. pc'[m] = "gbt" /\ now'[m] = clock /\ mineTime'[m] = plan.mine
  BY <1>3 DEF IndInv, TypeOK
<1>6. PolledInv(m)'
  BY <1>1, <1>3 DEF IndInv, PlanInv, PolledInv, nodeVars, Ids
<1>7. PlannedInv(m)' /\ TemplateInv(m)'
  BY <1>1, <1>2, <1>3, <1>5, TimesAssumption DEF PlannedInv, TemplateInv
<1> QED BY <1>3, <1>4, <1>6, <1>7, QuietStep DEF IndInv, TypeOK

LEMMA ScheduleSleepStep ==
  ASSUME IndInv, NEW m \in Miners, ScheduleSleep(m) PROVE IndInv'
<1> DEFINE plan == next_block_time(m, clock, blocks[best[m]], mined[m] = 0)
           sleep_for == min(plan.action - clock, SleepCap)
           until == clock + (IF plan.mine < clock
                             THEN min(LateSleepCap, sleep_for) ELSE sleep_for)
<1>1. pc[m] = "schedule" /\ clock < plan.action /\ clock \in Nat
  BY DEF ScheduleSleep, IndInv, TypeOK
<1>2. plan.mine \in Nat /\ plan.action \in Nat
  BY <1>1, PlanType
<1>3. wake' = [wake EXCEPT ![m] = until]
  BY DEF ScheduleSleep
<1>4. until \in Nat
  <2> HIDE DEF plan
  <2>1. sleep_for \in Nat
    BY <1>1, <1>2, TimesAssumption DEF min
  <2> HIDE DEF sleep_for
  <2> QED BY <1>1, <2>1, TimesAssumption DEF min
<1> HIDE DEF until
<1>5. wake' \in [Miners -> Nat]
  BY <1>3, <1>4 DEF IndInv, TypeOK
<1> QED BY <1>5, LeaveStep DEF ScheduleSleep

LEMMA GbtStep == ASSUME IndInv, NEW m \in Miners, Gbt(m) PROVE IndInv'
<1> DEFINE t == max(mineTime[m], mintime(tip))
<1>1. /\ tip \in Ids /\ best[m] = tip /\ pc[m] = "gbt"
      /\ mineTime[m] \in Nat /\ now[m] \in Nat /\ mined[m] \in Nat /\ clock \in Nat
  BY DEF Gbt, IndInv, TypeOK
<1>2. mintime(tip) \in Nat
  BY <1>1, MintimeType DEF IndInv
<1>3. /\ mineTime' = [mineTime EXCEPT ![m] = t]
      /\ tmpl' = [tmpl EXCEPT ![m] = tip]
      /\ mined' = [mined EXCEPT ![m] = mined[m] + 1]
      /\ pc' = [pc EXCEPT ![m] = "mine"]
      /\ UNCHANGED <<clock, nodeVars, setTime, best, now, wake>>
      /\ mintime(tip) <= mineTime[m] \/ mintime(tip) <= now[m]
  BY DEF Gbt
<1>4. /\ t \in Nat /\ t >= mintime(tip)
      /\ t = mineTime[m] \/ t <= now[m]
  BY <1>1, <1>2, <1>3 DEF max
<1> HIDE DEF t
<1>5. TypeOK'
  BY <1>1, <1>3, <1>4, SMTT(30) DEF IndInv, TypeOK, nodeVars, PCs, Ids
<1>6. /\ pc'[m] = "mine" /\ mineTime'[m] = t /\ tmpl'[m] = tip
      /\ mined'[m] = mined[m] + 1 /\ now'[m] = now[m] /\ best'[m] = tip
  BY <1>1, <1>3 DEF IndInv, TypeOK
<1>7. blocks' = blocks /\ Ids' = Ids /\ clock' = clock /\ mintime(tip)' = mintime(tip)
  BY <1>3 DEF nodeVars, Ids, mintime
<1>8. PolledInv(m)'
  BY <1>1, <1>6, <1>7 DEF IndInv, PlanInv, PolledInv
<1>9. PlannedInv(m)'
  <2>1. now[m] <= clock /\ mineTime[m] <= now[m] + FutureMargin
    BY <1>1 DEF IndInv, PlanInv, PlannedInv
  <2> QED BY <2>1, <1>1, <1>4, <1>6, <1>7, TimesAssumption DEF PlannedInv
<1>10. TemplateInv(m)'
  BY <1>1, <1>3, <1>4, <1>6, <1>7 DEF TemplateInv, mintime, nodeVars
<1> QED BY <1>3, <1>5, <1>8, <1>9, <1>10, QuietStep DEF IndInv, TypeOK

LEMMA MineStep == ASSUME IndInv, NEW m \in Miners, Mine(m) PROVE IndInv'
<1>1. TypeOK'
  BY DEF IndInv, TypeOK, Mine, nodeVars, PCs, Ids
<1>2. pc[m] = "mine" /\ pc'[m] = "submit" /\ blocks' = blocks /\ Ids' = Ids
  BY DEF Mine, IndInv, TypeOK, nodeVars, Ids
<1>3. PolledInv(m)' /\ PlannedInv(m)' /\ TemplateInv(m)'
  BY <1>2 DEF Mine, IndInv, PlanInv, PolledInv, PlannedInv, TemplateInv, mintime
<1> QED BY <1>1, <1>3, QuietStep DEF Mine, IndInv, TypeOK

\* The window of a new block: at most one longer, all timestamps known.
LEMMA WindowFacts ==
  ASSUME TypeOK, WindowInv, NEW p \in Ids, NEW t \in Nat,
         t <= clock + MaxFutureBlockTime
  PROVE  /\ Window(p, t) \in Seq(Nat)
         /\ Len(Window(p, t)) > 0
         /\ \A k \in 1..Len(Window(p, t)) :
              Window(p, t)[k] <= clock + MaxFutureBlockTime
<1> DEFINE s == blocks[p].times
           w == Append(s, t)
<1>1. s \in Seq(Nat) /\ Len(s) > 0
  BY BlockFacts DEF WindowInv
<1>2. \A k \in 1..Len(s) : s[k] <= clock + MaxFutureBlockTime
  BY DEF WindowInv
<1> HIDE DEF s
<1>3. /\ w \in Seq(Nat) /\ Len(w) = Len(s) + 1
      /\ \A k \in 1..Len(w) : w[k] <= clock + MaxFutureBlockTime
  BY <1>1, <1>2
<1> HIDE DEF w
<1>4. /\ Tail(w) \in Seq(Nat) /\ Len(Tail(w)) = Len(w) - 1
      /\ \A k \in 1..Len(Tail(w)) : Tail(w)[k] = w[k + 1]
  BY <1>1, <1>3
<1>5. \A k \in 1..Len(Tail(w)) : Tail(w)[k] <= clock + MaxFutureBlockTime
  BY <1>1, <1>3, <1>4
<1>6. Window(p, t) \in {w, Tail(w)}
  BY DEF Window, w, s
<1>7. Len(w) > 0 /\ Len(Tail(w)) > 0
  BY <1>1, <1>3, <1>4
<1> QED BY <1>3, <1>4, <1>5, <1>6, <1>7

\* The block that miner m submits.
LEMMA NewBlockType ==
  ASSUME IndInv, NEW m \in Miners, pc[m] = "submit",
         NEW r \in Rands, NEW v \in Variances
  PROVE  /\ NewBlock(m, r, v) \in BlockType
         /\ tmpl[m] \in Ids
         /\ mineTime[m] <= clock + MaxFutureBlockTime
<1>1. /\ clock \in Nat /\ mineTime[m] \in Nat /\ now[m] \in Nat
      /\ r \in Nat /\ v \in Nat
  BY SetsAssumption DEF IndInv, TypeOK
<1>2. /\ tmpl[m] = best[m] /\ best[m] \in Ids
      /\ blocks[best[m]].height < MaxHeight
      /\ now[m] <= clock /\ mineTime[m] <= now[m] + FutureMargin
  BY DEF IndInv, PlanInv, PolledInv, PlannedInv, TemplateInv
<1>3. mineTime[m] <= clock + MaxFutureBlockTime
  BY <1>1, <1>2, TimesAssumption
<1>4. blocks[tmpl[m]].height + 1 \in 0..MaxHeight
  BY <1>2, BlockFacts, IntervalAssumption DEF IndInv
<1>5. Window(tmpl[m], mineTime[m]) \in Seq(Nat)
  BY <1>1, <1>2, <1>3, WindowFacts DEF IndInv
<1>6. tmpl[m] \in Nat
  BY <1>2 DEF Ids
<1>7. NewBlock(m, r, v) \in BlockType
  BY <1>1, <1>4, <1>5, <1>6 DEF NewBlock, BlockType
<1> QED BY <1>2, <1>3, <1>7

LEMMA SubmitStep == ASSUME IndInv, NEW m \in Miners, Submit(m) PROVE IndInv'
<1>1. PICK where \in Ended \cup {"poll"} : Leave(m, where)
  BY DEF Submit, LoopHead, Ended
<1>2. pc[m] = "submit" /\ UNCHANGED <<clock, invalid, reorgs, setTime, best, mined, wake>>
  BY DEF Submit
<1>3. CASE UNCHANGED <<blocks, tip>>
  BY <1>1, <1>2, <1>3, LeaveStep DEF nodeVars, IndInv, TypeOK
<1>4. CASE /\ AcceptBlock(tmpl[m], mineTime[m])
           /\ \E r \in Rands, v \in Variances :
                blocks' = Append(blocks, NewBlock(m, r, v))
           /\ tip' = IF blocks[tmpl[m]].height + 1 > blocks[tip].height
                     THEN Len(blocks) + 1 ELSE tip
  <2>1. PICK r \in Rands, v \in Variances :
          blocks' = Append(blocks, NewBlock(m, r, v))
    BY <1>4
  <2> DEFINE nb == NewBlock(m, r, v)
             n == Len(blocks)
  <2>2. nb \in BlockType /\ tmpl[m] \in Ids /\ mineTime[m] \in Nat
        /\ mineTime[m] <= clock + MaxFutureBlockTime
    BY <1>2, NewBlockType DEF IndInv, TypeOK
  <2>3. nb.times = Window(tmpl[m], mineTime[m])
    BY DEF NewBlock
  <2> HIDE DEF nb
  <2>4. blocks \in Seq(BlockType) /\ n \in Nat
    BY DEF IndInv, TypeOK
  <2>5. /\ blocks' \in Seq(BlockType)
        /\ Ids' = 1..(n + 1) /\ Ids = 1..n
        /\ blocks'[n + 1] = nb
        /\ \A i \in Ids : blocks'[i] = blocks[i]
    BY <2>1, <2>2, <2>4 DEF Ids, nb
  <2> HIDE DEF n
  <2>6. Ids \subseteq Ids' /\ n + 1 \in Ids' /\ \A i \in Ids' : i \in Ids \/ i = n + 1
    BY <2>4, <2>5
  <2>7. TypeOK'
    <3>1. tip' \in Ids'
      BY <1>4, <2>6 DEF IndInv, TypeOK, n
    <3>2. invalid' \subseteq Ids' /\ best' \in [Miners -> {0} \cup Ids']
      BY <1>2, <2>6 DEF IndInv, TypeOK
    <3>3. tmpl' \in [Miners -> {0} \cup Ids']
      BY <1>1, <2>6 DEF Leave, IndInv, TypeOK
    <3> QED BY <1>1, <1>2, <2>5, <3>1, <3>2, <3>3
            DEF Leave, IndInv, TypeOK, PCs
  <2>8. WindowInv'
    <3>1. ASSUME NEW i \in Ids
          PROVE /\ Len(blocks'[i].times) > 0
                /\ \A k \in 1..Len(blocks'[i].times) :
                     blocks'[i].times[k] <= clock + MaxFutureBlockTime
      BY <2>5 DEF IndInv, WindowInv
    <3>2. /\ Len(nb.times) > 0
          /\ \A k \in 1..Len(nb.times) : nb.times[k] <= clock + MaxFutureBlockTime
      BY <2>2, <2>3, WindowFacts DEF IndInv
    <3> QED BY <1>2, <2>5, <2>6, <3>1, <3>2 DEF WindowInv
  <2>9. ASSUME NEW x \in Miners
        PROVE  (PolledInv(x) /\ PlannedInv(x) /\ TemplateInv(x))'
    <3>1. CASE x = m
      <4>1. pc'[m] = where
        BY <1>1 DEF Leave, IndInv, TypeOK
      <4> QED BY <3>1, <4>1 DEF PolledInv, PlannedInv, TemplateInv, Ended
    <3>2. CASE x # m
      <4>1. PolledInv(x) /\ PlannedInv(x) /\ TemplateInv(x)
        BY DEF IndInv, PlanInv
      <4>2. \A p \in Ids : mintime(p)' = mintime(p)
        BY <2>5 DEF mintime
      <4>3. /\ pc'[x] = pc[x] /\ best'[x] = best[x] /\ now'[x] = now[x]
            /\ mineTime'[x] = mineTime[x] /\ tmpl'[x] = tmpl[x]
            /\ mined'[x] = mined[x] /\ clock' = clock
        BY <1>1, <1>2, <3>2 DEF Leave, IndInv, TypeOK
      <4>4. PolledInv(x)' /\ PlannedInv(x)'
        BY <4>1, <4>3, <2>5, <2>6 DEF PolledInv, PlannedInv
      <4>5. TemplateInv(x)'
        <5>1. SUFFICES ASSUME pc[x] \in {"mine", "submit"} PROVE TemplateInv(x)'
          BY <4>3 DEF TemplateInv
        <5>2. tmpl[x] \in Ids /\ tmpl[x] = best[x] /\ mineTime[x] >= mintime(tmpl[x])
              /\ mined[x] >= 1
          BY <4>1, <5>1 DEF PolledInv, TemplateInv
        <5>3. mintime(tmpl[x])' = mintime(tmpl[x])
          BY <4>3, <5>2, <2>5 DEF mintime
        <5> QED BY <4>3, <5>2, <5>3 DEF TemplateInv
      <4> QED BY <4>4, <4>5
    <3> QED BY <3>1, <3>2
  <2> QED BY <1>2, <2>7, <2>8, <2>9 DEF IndInv, PlanInv
<1> QED BY <1>3, <1>4 DEF Submit

LEMMA ReorgStep == ASSUME IndInv, Reorg PROVE IndInv'
<1>1. /\ tip' \in Ids /\ invalid' = invalid \cup {tip} /\ reorgs' = reorgs + 1
      /\ reorgs < MaxReorgs /\ UNCHANGED <<clock, blocks, minerVars>>
  BY DEF Reorg
<1>2. Ids' = Ids /\ \A p : mintime(p)' = mintime(p)
  BY <1>1 DEF Ids, mintime
<1>3. TypeOK'
  BY <1>1, <1>2, TimesAssumption DEF IndInv, TypeOK, minerVars
<1> QED BY <1>1, <1>2, <1>3
        DEF IndInv, WindowInv, PlanInv, PolledInv, PlannedInv, TemplateInv, minerVars

LEMMA TickStep == ASSUME IndInv, Tick PROVE IndInv'
<1>1. /\ clock \in Nat /\ clock' = clock + 1
      /\ UNCHANGED <<blocks, tip, invalid, reorgs>> /\ UNCHANGED minerVars
  BY DEF Tick, IndInv, TypeOK, nodeVars
<1>2. Ids' = Ids /\ \A p : mintime(p)' = mintime(p)
  BY <1>1 DEF Ids, mintime
<1>3. TypeOK'
  BY <1>1, <1>2 DEF IndInv, TypeOK, minerVars
<1>4. WindowInv'
  <2>1. ASSUME NEW i \in Ids, NEW k \in 1..Len(blocks[i].times)
        PROVE  blocks[i].times[k] <= clock' + MaxFutureBlockTime
    <3>1. blocks[i].times[k] \in Nat
      BY BlockFacts DEF IndInv
    <3>2. blocks[i].times[k] <= clock + MaxFutureBlockTime
      BY DEF IndInv, WindowInv
    <3> QED BY <1>1, <3>1, <3>2, TimesAssumption
  <2> QED BY <1>1, <1>2, <2>1 DEF IndInv, WindowInv
<1>5. ASSUME NEW x \in Miners
      PROVE  (PolledInv(x) /\ PlannedInv(x) /\ TemplateInv(x))'
  <2>1. PolledInv(x) /\ PlannedInv(x) /\ TemplateInv(x) /\ now[x] \in Nat
    BY DEF IndInv, PlanInv, TypeOK
  <2> QED BY <1>1, <1>2, <2>1
          DEF PolledInv, PlannedInv, TemplateInv, minerVars
<1>6. clock' >= StartClock
  BY <1>1, TimesAssumption DEF IndInv
<1> QED BY <1>3, <1>4, <1>5, <1>6 DEF IndInv, PlanInv

LEMMA NextInv == IndInv /\ [Next]_vars => IndInv'
<1> SUFFICES ASSUME IndInv, [Next]_vars PROVE IndInv'
  OBVIOUS
<1>1. ASSUME NEW m \in Miners, Start(m) PROVE IndInv'
  BY <1>1, StartStep
<1>2. ASSUME NEW m \in Miners, Step(m) PROVE IndInv'
  <2>1. CASE Poll(m)
    BY <2>1, PollStep
  <2>2. CASE ScheduleDue(m)
    BY <2>2, ScheduleDueStep
  <2>3. CASE ScheduleSleep(m)
    BY <2>3, ScheduleSleepStep
  <2>4. CASE Gbt(m)
    BY <2>4, GbtStep
  <2>5. CASE GbtTooEarly(m)
    BY <2>5, LeaveStep DEF GbtTooEarly, IndInv, TypeOK
  <2>6. CASE GbtMismatch(m)
    BY <2>6, LeaveStep DEF GbtMismatch, IndInv, TypeOK, Ended
  <2>7. CASE Mine(m)
    BY <2>7, MineStep
  <2>8. CASE Submit(m)
    BY <2>8, SubmitStep
  <2> QED BY <1>2, <2>1, <2>2, <2>3, <2>4, <2>5, <2>6, <2>7, <2>8 DEF Step
<1>3. ASSUME NEW m \in Miners, SignFails(m) PROVE IndInv'
  BY <1>3, LeaveStep DEF SignFails, IndInv, TypeOK, Ended
<1>4. ASSUME NEW m \in Miners, RpcError(m) PROVE IndInv'
  BY <1>4, LeaveStep DEF RpcError, IndInv, TypeOK, Ended
<1>5. CASE Reorg
  BY <1>5, ReorgStep
<1>6. CASE Tick
  BY <1>6, TickStep
<1>7. CASE UNCHANGED vars
  <2>1. /\ UNCHANGED <<clock, blocks, tip, invalid, reorgs, pc, setTime>>
        /\ UNCHANGED <<best, mined, now, mineTime, tmpl, wake>>
    BY <1>7 DEF vars, nodeVars, minerVars
  <2> QED BY <2>1 DEF IndInv, TypeOK, Ids, WindowInv, PlanInv, PolledInv,
                      PlannedInv, TemplateInv, mintime
<1> QED BY <1>1, <1>2, <1>3, <1>4, <1>5, <1>6, <1>7 DEF Next

LEMMA Invariance == Spec => []IndInv
BY InitInv, NextInv, PTL DEF Spec

(***************************************************************************)
(* The results.                                                            *)
(***************************************************************************)
\* Every variable keeps its type: in particular every header that was read and
\* every template is a stored block, and no computed time is negative.
THEOREM TypeCorrect == Spec => []TypeOK
<1>1. IndInv => TypeOK
  BY DEF IndInv
<1> QED BY <1>1, Invariance, PTL

\* No block is submitted with a timestamp the node would refuse, however
\* long signing and grinding take and whatever happens to the chain.
THEOREM TimestampsAccepted == Spec => []NoTimestampReject
<1>1. IndInv => NoTimestampReject
  <2>1. SUFFICES ASSUME IndInv, NEW m \in Miners, pc[m] = "submit"
                 PROVE  /\ mineTime[m] >= mintime(tmpl[m])
                        /\ mineTime[m] <= clock + FutureMargin
    BY DEF NoTimestampReject
  <2>2. PlannedInv(m) /\ TemplateInv(m)
    BY <2>1 DEF IndInv, PlanInv
  <2>3. clock \in Nat /\ now[m] \in Nat /\ mineTime[m] \in Nat
    BY <2>1 DEF IndInv, TypeOK
  <2> QED BY <2>1, <2>2, <2>3, TimesAssumption DEF PlannedInv, TemplateInv
<1> QED BY <1>1, Invariance, PTL
=============================================================================
