------------------------ MODULE MinerScheduleProofs ------------------------
(***************************************************************************)
(* The concurrent miners keep the deterministic schedule, and implement    *)
(* the abstract specification BlockSchedule.                               *)
(***************************************************************************)
EXTENDS MinerTurnProofs, SequenceTheorems

(***************************************************************************)
(* OnSchedule is not inductive.  A block has the time that ScheduleDue     *)
(* computed from the polled block unless gbt had to raise it to mintime    *)
(* (DuePlan); when every block is scheduled it never has to, because no    *)
(* timestamp in a block's window is later than the block (RisingTimes).    *)
(***************************************************************************)
AllScheduled == \A m \in Miners : ~Args[m].set_block_time

RisingTimes ==
  AllScheduled =>
    \A i \in Ids : \A k \in 1..Len(blocks[i].times) :
      /\ blocks[i].times[k] <= blocks[i].time
      /\ blocks[i].height = 0 => blocks[i].times[k] = blocks[i].time

DuePlan(m) ==
  /\ pc[m] \in {"gbt", "mine", "submit"}
  /\ ~Args[m].set_block_time
  /\ blocks[best[m]].height > 0
  => \/ mineTime[m] = DueTime(m, blocks[best[m]])
     \/ /\ pc[m] # "gbt"
        /\ ~AllScheduled
        /\ mineTime[m] > DueTime(m, blocks[best[m]])
        /\ mineTime[m] <= now[m]

ScheduleInv ==
  /\ RisingTimes
  /\ ParentInv
  /\ OnSchedule
  /\ \A m \in Miners : DuePlan(m)

\* mintime on a block of a scheduled chain.
LEMMA ScheduledMintime ==
  ASSUME TypeOK, WindowInv, RisingTimes, AllScheduled, NEW i \in Ids
  PROVE  /\ mintime(i) \in Nat
         /\ mintime(i) <= blocks[i].time + 1
         /\ blocks[i].height = 0 => mintime(i) = blocks[i].time + 1
<1> DEFINE s == blocks[i].times
<1>1. s \in Seq(Nat) /\ Len(s) > 0 /\ blocks[i].time \in Nat
  BY BlockFacts DEF WindowInv
<1>2. \A k \in 1..Len(s) :
        /\ s[k] <= blocks[i].time
        /\ blocks[i].height = 0 => s[k] = blocks[i].time
  BY DEF RisingTimes
<1>3. mintime(i) = Median(s) + 1
  BY DEF mintime
<1> HIDE DEF s
<1>4. Median(s) \in {s[k] : k \in 1..Len(s)} /\ Median(s) \in Nat
  BY <1>1, <1>2, MedianIsATime
<1>5. PICK k \in 1..Len(s) : Median(s) = s[k]
  BY <1>4
<1> QED BY <1>1, <1>2, <1>3, <1>4, <1>5

\* What the window of a new block holds.
LEMMA WindowMembers ==
  ASSUME TypeOK, WindowInv, NEW p \in Ids, NEW t \in Nat,
         NEW k \in 1..Len(Window(p, t))
  PROVE  \/ Window(p, t)[k] = t
         \/ \E j \in 1..Len(blocks[p].times) : Window(p, t)[k] = blocks[p].times[j]
<1> DEFINE s == blocks[p].times
           w == Append(s, t)
<1>1. s \in Seq(Nat) /\ Len(s) > 0 /\ Len(s) \in Nat
  BY BlockFacts DEF WindowInv
<1> HIDE DEF s
<1>2. /\ w \in Seq(Nat) /\ Len(w) = Len(s) + 1
      /\ \A j \in 1..Len(s) : w[j] = s[j]
      /\ w[Len(s) + 1] = t
  BY <1>1
<1>3. \A j \in 1..Len(w) : w[j] = t \/ \E l \in 1..Len(s) : w[j] = s[l]
  BY <1>1, <1>2
<1> HIDE DEF w
<1>4. /\ Len(Tail(w)) = Len(w) - 1
      /\ \A j \in 1..Len(Tail(w)) : Tail(w)[j] = w[j + 1] /\ j + 1 \in 1..Len(w)
  BY <1>1, <1>2
<1>5. Window(p, t) = w \/ Window(p, t) = Tail(w)
  BY DEF Window, w, s
<1>6. CASE Window(p, t) = w
  BY <1>3, <1>6 DEF s
<1>7. CASE Window(p, t) = Tail(w)
  <2>1. Tail(w)[k] = w[k + 1] /\ k + 1 \in 1..Len(w)
    BY <1>4, <1>7
  <2> QED BY <1>3, <1>7, <2>1 DEF s
<1> QED BY <1>5, <1>6, <1>7

\* A step that stores no block leaves what is said of stored blocks alone.
LEMMA ScheduleQuiet ==
  ASSUME ScheduleInv, blocks' = blocks, \A m \in Miners : DuePlan(m)'
  PROVE  ScheduleInv'
<1>1. Ids' = Ids /\ Mined' = Mined
  BY DEF Ids, Mined
<1>2. RisingTimes'
  BY <1>1 DEF ScheduleInv, RisingTimes, AllScheduled
<1>3. ParentInv'
  BY <1>1 DEF ScheduleInv, ParentInv
<1>4. OnSchedule'
  BY <1>1 DEF ScheduleInv, OnSchedule, Scheduled
<1> QED BY <1>2, <1>3, <1>4 DEF ScheduleInv

\* The plan of a process that does not move.
LEMMA OtherDue ==
  ASSUME IndInv, ScheduleInv, NEW m \in Miners,
         pc'[m] = pc[m], best'[m] = best[m], now'[m] = now[m],
         mineTime'[m] = mineTime[m],
         \A i \in Ids : blocks'[i] = blocks[i]
  PROVE  DuePlan(m)'
<1>1. SUFFICES ASSUME pc[m] \in {"gbt", "mine", "submit"} PROVE DuePlan(m)'
  BY DEF DuePlan
<1>2. best[m] \in Ids
  BY <1>1 DEF IndInv, PlanInv, PolledInv
<1>3. blocks'[best'[m]] = blocks[best[m]]
  BY <1>2
<1> QED BY <1>3 DEF DuePlan, ScheduleInv, AllScheduled

\* next_block_time of a scheduled block, and gbt's correction of it.
LEMMA DueAtSchedule ==
  ASSUME IndInv, NEW x \in Miners, ScheduleDue(x)
  PROVE  DuePlan(x)'
<1> DEFINE b == blocks[best[x]]
           plan == next_block_time(x, clock, b, mined[x] = 0)
<1>1. /\ pc'[x] = "gbt" /\ best' = best /\ blocks' = blocks
      /\ mineTime'[x] = plan.mine
  BY DEF ScheduleDue, IndInv, TypeOK, nodeVars
<1>2. SUFFICES ASSUME ~Args[x].set_block_time, b.height > 0
               PROVE  plan.mine = DueTime(x, b)
  BY <1>1 DEF DuePlan
<1>3. best[x] \in Ids
  BY DEF ScheduleDue, IndInv, PlanInv, PolledInv
<1>4. ~(b.height = 0)
  BY <1>2, <1>3, BlockFacts, IntervalAssumption DEF IndInv
<1> HIDE DEF b
<1> QED BY <1>2, <1>4 DEF next_block_time

LEMMA DueAtGbt ==
  ASSUME IndInv, ScheduleInv, NEW x \in Miners, Gbt(x)
  PROVE  DuePlan(x)'
<1> DEFINE b == blocks[tip]
           due == DueTime(x, b)
<1>1. /\ pc[x] = "gbt" /\ best[x] = tip /\ tip \in Ids
      /\ mineTime[x] \in Nat /\ now[x] \in Nat
  BY DEF Gbt, IndInv, TypeOK
<1>2. /\ best' = best /\ blocks' = blocks /\ now' = now
      /\ mineTime'[x] = max(mineTime[x], mintime(tip))
      /\ mintime(tip) <= mineTime[x] \/ mintime(tip) <= now[x]
  BY DEF Gbt, IndInv, TypeOK, nodeVars
<1>3. pc'[x] = "mine"
  BY DEF Gbt, IndInv, TypeOK
<1>4. SUFFICES ASSUME ~Args[x].set_block_time, b.height > 0
               PROVE  \/ mineTime'[x] = due
                      \/ ~AllScheduled /\ mineTime'[x] > due /\ mineTime'[x] <= now[x]
  BY <1>1, <1>2, <1>3 DEF DuePlan, AllScheduled
<1>5. b.height \in 0..MaxHeight /\ b.time \in Nat /\ b.var \in Nat
  BY <1>1, BlockFacts DEF IndInv
<1>6. mineTime[x] = due
  BY <1>1, <1>4 DEF ScheduleInv, DuePlan
<1>7. mintime(tip) \in Nat
  BY <1>1, MintimeType DEF IndInv
<1>8. AllScheduled => mintime(tip) <= b.time + 1
  BY <1>1, ScheduledMintime DEF IndInv, ScheduleInv
<1> HIDE DEF b
<1>9. due \in Nat /\ due > b.time
  BY <1>5, DueType
<1> HIDE DEF due
<1>10. CASE mintime(tip) <= due
  BY <1>1, <1>2, <1>6, <1>7, <1>10 DEF max
<1>11. CASE ~(mintime(tip) <= due)
  <2>1. ~AllScheduled
    BY <1>5, <1>7, <1>8, <1>9, <1>11
  <2> QED BY <1>1, <1>2, <1>6, <1>7, <1>9, <1>11, <2>1 DEF max
<1> QED BY <1>10, <1>11

\* The process that moves, when it stores no block.
LEMMA OwnDue ==
  ASSUME IndInv, ScheduleInv, NEW x \in Miners,
         Start(x) \/ Step(x) \/ SignFails(x) \/ RpcError(x), ~Submit(x)
  PROVE  DuePlan(x)'
<1>0. pc \in [Miners -> PCs]
  BY DEF IndInv, TypeOK
<1>1. CASE ScheduleDue(x)
  BY <1>1, DueAtSchedule
<1>2. CASE Gbt(x)
  BY <1>2, DueAtGbt
<1>3. CASE Mine(x)
  <2>1. /\ pc[x] = "mine" /\ pc'[x] = "submit" /\ mineTime' = mineTime
        /\ best' = best /\ now' = now /\ blocks' = blocks
    BY <1>0, <1>3 DEF Mine, nodeVars
  <2>2. DuePlan(x)
    BY DEF ScheduleInv
  <2> QED BY <2>1, <2>2 DEF DuePlan, AllScheduled
<1>4. CASE ~(ScheduleDue(x) \/ Gbt(x) \/ Mine(x))
  <2>1. pc'[x] \notin {"gbt", "mine", "submit"}
    BY <1>0, <1>4 DEF Start, Step, SignFails, RpcError, Poll, ScheduleSleep,
                      GbtTooEarly, GbtMismatch, Leave
  <2> QED BY <2>1 DEF DuePlan
<1> QED BY <1>1, <1>2, <1>3, <1>4

\* When all are scheduled, a block that is submitted is later than its parent.
LEMMA LaterThanParent ==
  ASSUME IndInv, ScheduleInv, AllScheduled, NEW x \in Miners, pc[x] = "submit"
  PROVE  mineTime[x] > blocks[best[x]].time
<1>1. best[x] \in Ids /\ tmpl[x] = best[x] /\ mineTime[x] >= mintime(tmpl[x])
  BY DEF IndInv, PlanInv, PolledInv, TemplateInv
<1> DEFINE b == blocks[best[x]]
<1> SUFFICES mineTime[x] > b.time
  OBVIOUS
<1>2. b.height \in 0..MaxHeight /\ b.time \in Nat /\ b.var \in Nat
  BY <1>1, BlockFacts DEF IndInv
<1>3. mineTime[x] \in Nat /\ MaxHeight \in Nat
  BY IntervalAssumption DEF IndInv, TypeOK
<1>4. CASE b.height = 0
  <2>1. mintime(best[x]) = b.time + 1
    BY <1>1, <1>4, ScheduledMintime DEF IndInv, ScheduleInv
  <2> HIDE DEF b
  <2> QED BY <1>1, <1>2, <1>3, <2>1
<1>5. CASE b.height > 0
  <2>1. mineTime[x] = DueTime(x, b)
    BY <1>5 DEF ScheduleInv, DuePlan, AllScheduled
  <2> HIDE DEF b
  <2>2. DueTime(x, b) > b.time
    BY <1>2, DueType
  <2> QED BY <2>1, <2>2
<1> QED BY <1>2, <1>3, <1>4, <1>5

\* A block that is stored keeps the schedule.
LEMMA ScheduleSubmit ==
  ASSUME IndInv, ScheduleInv, NEW x \in Miners, Submit(x)
  PROVE  ScheduleInv'
<1>1. /\ pc \in [Miners -> PCs] /\ pc[x] = "submit" /\ best' = best
      /\ pc'[x] \in {"done", "poll", "rpcerror"}
      /\ \A m \in Miners \ {x} :
           pc'[m] = pc[m] /\ now'[m] = now[m] /\ mineTime'[m] = mineTime[m]
  BY DEF Submit, Leave, LoopHead, IndInv, TypeOK
<1>2. ASSUME \A i \in Ids : blocks'[i] = blocks[i], NEW m \in Miners
      PROVE  DuePlan(m)'
  <2>1. CASE m = x
    BY <1>1, <2>1 DEF DuePlan
  <2>2. CASE m # x
    BY <1>1, <1>2, <2>2, OtherDue
  <2> QED BY <2>1, <2>2
<1>3. CASE blocks' = blocks
  BY <1>2, <1>3, ScheduleQuiet
<1>4. ASSUME NEW r \in Rands, NEW v \in Variances,
             blocks' = Append(blocks, NewBlock(x, r, v))
      PROVE  ScheduleInv'
  <2> DEFINE new == Len(blocks) + 1
             p == best[x]
             t == mineTime[x]
  <2>1. Len(blocks) \in Nat /\ Len(blocks) >= 1 /\ blocks \in Seq(BlockType)
    BY DEF IndInv, TypeOK, Ids
  <2>2. /\ Ids' = Ids \cup {new} /\ new \notin Ids /\ new # 1
        /\ \A i \in Ids : blocks'[i] = blocks[i]
    BY <1>4, <2>1 DEF Ids
  <2>3. Mined' = Mined \cup {new} /\ Mined \subseteq Ids
    BY <2>2 DEF Mined
  <2>4. p \in Ids /\ tmpl[x] = p /\ t \in Nat
    BY <1>1 DEF IndInv, PlanInv, PolledInv, TemplateInv, TypeOK
  <2>5. /\ blocks'[new].parent = p /\ blocks'[new].by = x
        /\ blocks'[new].time = t /\ blocks'[new].times = Window(p, t)
        /\ blocks'[new].height = blocks[p].height + 1
    <3>1. blocks'[new] = NewBlock(x, r, v)
      BY <1>4, <2>1
    <3> QED BY <2>4, <3>1 DEF NewBlock
  <2>6. blocks[p].height \in Nat /\ blocks[p].time \in Nat
    BY <2>4, BlockFacts, IntervalAssumption DEF IndInv
  <2> HIDE DEF new, p, t
  <2>7. RisingTimes'
    <3>1. SUFFICES ASSUME AllScheduled, NEW i \in Ids',
                          NEW k \in 1..Len(blocks'[i].times)
                   PROVE  /\ blocks'[i].times[k] <= blocks'[i].time
                          /\ blocks'[i].height = 0 =>
                               blocks'[i].times[k] = blocks'[i].time
      BY DEF RisingTimes, AllScheduled
    <3>2. CASE i \in Ids
      <4>1. blocks'[i] = blocks[i]
        BY <2>2, <3>2
      <4> QED BY <3>1, <3>2, <4>1 DEF ScheduleInv, RisingTimes
    <3>3. CASE i = new
      <4>1. t > blocks[p].time
        BY <1>1, <3>1, LaterThanParent DEF p, t
      <4>2. \A j \in 1..Len(blocks[p].times) :
              blocks[p].times[j] <= blocks[p].time /\ blocks[p].times[j] \in Nat
        <5>1. blocks[p].times \in Seq(Nat)
          BY <2>4, BlockFacts DEF IndInv
        <5> QED BY <2>4, <3>1, <5>1 DEF ScheduleInv, RisingTimes
      <4>3. \/ Window(p, t)[k] = t
            \/ \E j \in 1..Len(blocks[p].times) : Window(p, t)[k] = blocks[p].times[j]
        BY <2>4, <2>5, <3>1, <3>3, WindowMembers DEF IndInv
      <4>4. Window(p, t)[k] <= t
        BY <2>4, <2>6, <4>1, <4>2, <4>3
      <4>5. blocks'[new].height # 0
        BY <2>5, <2>6
      <4> QED BY <2>5, <3>3, <4>4, <4>5
    <3> QED BY <2>2, <3>2, <3>3
  <2>8. ParentInv'
    <3>1. ASSUME NEW i \in Mined'
          PROVE  blocks'[i].parent \in Ids' /\ blocks'[i].by \in Miners
      <4>1. CASE i = new
        BY <2>2, <2>4, <2>5, <4>1
      <4>2. CASE i \in Mined
        <5>1. blocks'[i] = blocks[i]
          BY <2>2, <2>3, <4>2
        <5> QED BY <2>2, <4>2, <5>1 DEF ScheduleInv, ParentInv
      <4> QED BY <2>3, <4>1, <4>2
    <3> QED BY <3>1 DEF ParentInv
  <2>9. OnSchedule'
    <3>1. SUFFICES ASSUME AllScheduled, NEW i \in Mined',
                          blocks'[blocks'[i].parent].height > 0
                   PROVE  blocks'[i].time
                            = DueTime(blocks'[i].by, blocks'[blocks'[i].parent])
      BY DEF OnSchedule, Scheduled, AllScheduled
    <3>2. CASE i = new
      <4>1. blocks'[blocks'[i].parent] = blocks[p]
        BY <2>2, <2>4, <2>5, <3>2
      <4>2. DuePlan(x)
        BY DEF ScheduleInv
      <4>3. t = DueTime(x, blocks[p])
        BY <1>1, <3>1, <4>1, <4>2 DEF DuePlan, AllScheduled, p, t
      <4> QED BY <2>5, <3>2, <4>1, <4>3
    <3>3. CASE i \in Mined
      <4>1. /\ blocks'[i] = blocks[i] /\ blocks[i].parent \in Ids
            /\ blocks[i].by \in Miners
        BY <2>2, <2>3, <3>3 DEF ScheduleInv, ParentInv
      <4>2. blocks'[blocks'[i].parent] = blocks[blocks[i].parent]
        BY <2>2, <4>1
      <4> QED BY <3>1, <3>3, <4>1, <4>2
              DEF ScheduleInv, OnSchedule, Scheduled, AllScheduled
    <3> QED BY <2>3, <3>2, <3>3
  <2>10. \A m \in Miners : DuePlan(m)'
    BY <1>2, <2>2
  <2> QED BY <2>7, <2>8, <2>9, <2>10 DEF ScheduleInv
<1> QED BY <1>3, <1>4 DEF Submit

LEMMA ScheduleNext == IndInv /\ ScheduleInv /\ [Next]_vars => ScheduleInv'
<1> SUFFICES ASSUME IndInv, ScheduleInv, [Next]_vars PROVE ScheduleInv'
  OBVIOUS
<1>1. ASSUME NEW x \in Miners, Start(x) \/ Step(x) \/ SignFails(x) \/ RpcError(x),
             ~Submit(x)
      PROVE  ScheduleInv'
  <2>1. /\ blocks' = blocks
        /\ \A m \in Miners \ {x} : /\ pc'[m] = pc[m] /\ best'[m] = best[m]
                                    /\ now'[m] = now[m] /\ mineTime'[m] = mineTime[m]
    BY <1>1 DEF Start, Step, SignFails, RpcError, Poll, ScheduleDue,
                ScheduleSleep, Gbt, GbtTooEarly, GbtMismatch, Mine, Leave,
                nodeVars, IndInv, TypeOK
  <2>2. ASSUME NEW m \in Miners \ {x} PROVE DuePlan(m)'
    BY <2>1, OtherDue
  <2>3. DuePlan(x)'
    BY <1>1, OwnDue
  <2> QED BY <2>1, <2>2, <2>3, ScheduleQuiet
<1>2. ASSUME NEW x \in Miners, Submit(x) PROVE ScheduleInv'
  BY <1>2, ScheduleSubmit
<1>3. CASE Reorg \/ Tick \/ UNCHANGED vars
  <2>1. blocks' = blocks /\ UNCHANGED <<pc, best, now, mineTime>>
    BY <1>3 DEF Reorg, Tick, vars, nodeVars, minerVars
  <2>2. ASSUME NEW m \in Miners PROVE DuePlan(m)'
    BY <2>1, OtherDue
  <2> QED BY <2>1, <2>2, ScheduleQuiet
<1> QED BY <1>1, <1>2, <1>3 DEF Next

LEMMA ScheduleInvariance == Spec => []ScheduleInv
<1>1. Init => ScheduleInv
  <2> SUFFICES ASSUME Init PROVE ScheduleInv
    OBVIOUS
  <2>1. Ids = {1} /\ Mined = {} /\ blocks[1] = Genesis
    BY DEF Init, Mined, Ids
  <2>2. /\ blocks[1].times = <<GenesisTime>> /\ blocks[1].time = GenesisTime
        /\ GenesisTime \in Nat
    BY <2>1, TimesAssumption DEF Genesis
  <2>3. RisingTimes
    BY <2>1, <2>2 DEF RisingTimes
  <2>4. \A m \in Miners : DuePlan(m)
    BY DEF Init, DuePlan
  <2> QED BY <2>1, <2>3, <2>4 DEF ScheduleInv, OnSchedule, ParentInv
<1> QED BY <1>1, ScheduleNext, Invariance, PTL DEF Spec

\* Any number of miners, none with --set-block-time: every block after the
\* first has exactly the time that next_block_time gives it on its parent, and
\* mintime never has to correct it.
THEOREM ScheduleKept == Spec => []OnSchedule
<1>1. ScheduleInv => OnSchedule
  BY DEF ScheduleInv
<1> QED BY <1>1, ScheduleInvariance, PTL

(***************************************************************************)
(* The refinement.  A Tick is a Tick, Start is Join, an accepted Submit is *)
(* Produce; a process that ends or whose block is refused gives up its     *)
(* first block or was not fresh, and everything else, Reorg included, is a *)
(* stutter of BlockSchedule.                                               *)
(***************************************************************************)
\* The schedule reads four fields of a block.
LEMMA SameDue ==
  ASSUME NEW m \in Miners, NEW b, NEW c, b.height = c.height, b.time = c.time,
         b.rand = c.rand, b.var = c.var
  PROVE  /\ Schedule!DueTime(m, b) = DueTime(m, c)
         /\ Schedule!PatientTime(m, b) = PatientTime(m, c)
<1>1. Schedule!next_block_delta(m, b) = next_block_delta(m, c)
  BY DEF Schedule!next_block_delta, next_block_delta, Schedule!retarget_factor,
         retarget_factor, Schedule!max, max, Schedule!min, min
<1>2. Schedule!next_block_is_mine(m, b) <=> next_block_is_mine(m, c)
  BY DEF Schedule!next_block_is_mine, next_block_is_mine
<1>3. Schedule!DueTime(m, b) = DueTime(m, c)
  BY <1>1 DEF Schedule!DueTime, DueTime
<1> QED BY <1>2, <1>3 DEF Schedule!PatientTime, PatientTime

\* The chain of the abstract specification, block by block.
LEMMA ViewFacts ==
  ASSUME TypeOK
  PROVE  /\ chainView \in Seq({chainView[i] : i \in Ids})
         /\ Len(chainView) = Len(blocks)
         /\ \A i \in Ids : /\ chainView[i].height = blocks[i].height
                          /\ chainView[i].time = blocks[i].time
                          /\ chainView[i].rand = blocks[i].rand
                          /\ chainView[i].var = blocks[i].var
<1>1. Len(blocks) \in Nat /\ Ids = 1..Len(blocks)
  BY DEF TypeOK, Ids
<1>2. DOMAIN chainView = 1..Len(blocks)
  BY <1>1 DEF chainView
<1>3. chainView = [i \in 1..Len(blocks) |-> chainView[i]]
  BY <1>1 DEF chainView
<1>4. \A i \in Ids : /\ chainView[i].height = blocks[i].height
                    /\ chainView[i].time = blocks[i].time
                    /\ chainView[i].rand = blocks[i].rand
                    /\ chainView[i].var = blocks[i].var
  BY DEF chainView
<1> DEFINE S == {chainView[i] : i \in Ids}
<1>5. chainView \in [1..Len(blocks) -> S]
  BY <1>1, <1>3
<1> HIDE DEF S
<1>6. chainView \in Seq(S)
  BY <1>1, <1>5, SeqDef
<1>7. Len(chainView) = Len(blocks)
  BY <1>1, <1>2, <1>6, LenProperties
<1> QED BY <1>4, <1>6, <1>7 DEF S

\* A step that stores no block leaves the abstract chain alone.
LEMMA SameView == ASSUME blocks' = blocks PROVE chainView' = chainView
BY DEF chainView, Ids

\* A block that is stored is appended to the abstract chain.
LEMMA ViewAppend ==
  ASSUME TypeOK, TypeOK', NEW nb, blocks' = Append(blocks, nb)
  PROVE  chainView' = Append(chainView,
           [parent |-> nb.parent, height |-> nb.height, time |-> nb.time,
            rand |-> nb.rand, var |-> nb.var])
<1> DEFINE n == Len(blocks)
           rec == [parent |-> nb.parent, height |-> nb.height, time |-> nb.time,
                   rand |-> nb.rand, var |-> nb.var]
           app == Append(chainView, rec)
           S == {chainView[i] : i \in Ids} \cup {rec}
<1>1. n \in Nat /\ blocks \in Seq(BlockType) /\ Ids = 1..n
  BY DEF TypeOK, Ids
<1>2. /\ Ids' = 1..(n + 1) /\ Len(blocks') = n + 1 /\ blocks'[n + 1] = nb
      /\ \A i \in 1..n : blocks'[i] = blocks[i]
  BY <1>1 DEF Ids
<1>3. chainView \in Seq(S) /\ Len(chainView) = n
  <2>1. chainView \in Seq({chainView[i] : i \in Ids}) /\ Len(chainView) = n
    BY ViewFacts
  <2>2. \A A, B : A \subseteq B => Seq(A) \subseteq Seq(B)
    BY SeqDef
  <2>3. {chainView[i] : i \in Ids} \subseteq S
    OBVIOUS
  <2> QED BY <2>1, <2>2, <2>3, Zenon
<1>4. rec \in S
  OBVIOUS
<1> HIDE DEF S, rec, n
<1>5. /\ app \in Seq(S) /\ Len(app) = n + 1 /\ app[n + 1] = rec
      /\ \A i \in 1..n : app[i] = chainView[i]
  BY <1>1, <1>3, <1>4, AppendProperties
<1>6. app = [i \in 1..(n + 1) |-> app[i]]
  BY <1>5, LenProperties
<1> HIDE DEF app
<1>7. chainView' = [i \in 1..(n + 1) |->
        [parent |-> blocks'[i].parent, height |-> blocks'[i].height,
         time |-> blocks'[i].time, rand |-> blocks'[i].rand,
         var |-> blocks'[i].var]]
  BY <1>2 DEF chainView
<1>8. ASSUME NEW i \in 1..(n + 1)
      PROVE  [parent |-> blocks'[i].parent, height |-> blocks'[i].height,
              time |-> blocks'[i].time, rand |-> blocks'[i].rand,
              var |-> blocks'[i].var] = app[i]
  <2>1. CASE i = n + 1
    BY <1>2, <1>5, <2>1 DEF rec
  <2>2. CASE i # n + 1
    <3>1. i \in 1..n
      BY <1>1, <2>2
    <3>2. chainView[i] = [parent |-> blocks[i].parent, height |-> blocks[i].height,
                          time |-> blocks[i].time, rand |-> blocks[i].rand,
                          var |-> blocks[i].var]
      BY <1>1, <3>1 DEF chainView
    <3> QED BY <1>2, <1>5, <3>1, <3>2
  <2> QED BY <2>1, <2>2
<1>9. chainView' = app
  BY <1>6, <1>7, <1>8, Zenon
<1> QED BY <1>9 DEF app, rec

\* Two sets that differ in one element at most.
LEMMA OneChanges ==
  ASSUME NEW S, NEW A \in SUBSET S, NEW B \in SUBSET S, NEW x \in S,
         \A m \in S \ {x} : m \in B <=> m \in A
  PROVE  B = IF x \in B THEN A \cup {x} ELSE A \ {x}
<1>1. CASE x \in B
  <2>1. B = A \cup {x}
    BY <1>1
  <2> QED BY <1>1, <2>1
<1>2. CASE x \notin B
  <2>1. B = A \ {x}
    BY <1>2
  <2> QED BY <1>2, <2>1
<1> QED BY <1>1, <1>2

\* Running and fresh miners after a step of process x.
LEMMA ViewsStep ==
  ASSUME NEW x \in Miners,
         \A m \in Miners \ {x} : pc'[m] = pc[m] /\ mined'[m] = mined[m]
  PROVE  /\ runningView' = IF x \in runningView' THEN runningView \cup {x}
                           ELSE runningView \ {x}
         /\ freshView' = IF x \in freshView' THEN freshView \cup {x}
                         ELSE freshView \ {x}
<1>1. /\ runningView \in SUBSET Miners /\ runningView' \in SUBSET Miners
      /\ freshView \in SUBSET Miners /\ freshView' \in SUBSET Miners
  BY DEF runningView, freshView
<1>2. /\ \A m \in Miners \ {x} : m \in runningView' <=> m \in runningView
      /\ \A m \in Miners \ {x} : m \in freshView' <=> m \in freshView
  BY DEF runningView, freshView
<1>3. runningView' = IF x \in runningView' THEN runningView \cup {x}
                     ELSE runningView \ {x}
  BY <1>1, <1>2, OneChanges
<1>4. freshView' = IF x \in freshView' THEN freshView \cup {x}
                   ELSE freshView \ {x}
  BY <1>1, <1>2, OneChanges
<1> QED BY <1>3, <1>4

\* A process that leaves the loop, or comes back to its head with a block of
\* its own behind it.
LEMMA UsedUp ==
  ASSUME IndInv, NEW x \in Miners, NEW where \in Ended \cup {"poll"}, Leave(x, where),
         pc[x] \in {"poll", "gbt", "mine", "submit"}, mined' = mined,
         where = "poll" => mined[x] # 0
  PROVE  Schedule!Used(x)
<1>1. pc \in [Miners -> PCs]
  BY DEF IndInv, TypeOK
<1>2. pc'[x] = where /\ \A m \in Miners \ {x} : pc'[m] = pc[m]
  BY <1>1 DEF Leave
<1>3. x \in runningView
  BY DEF runningView, Ended
<1>4. x \notin freshView'
  BY <1>2 DEF freshView, Ended
<1>5. /\ runningView' \in {runningView, runningView \ {x}}
      /\ freshView' = freshView \ {x}
  BY <1>2, <1>3, <1>4, ViewsStep
<1> QED BY <1>3, <1>5 DEF Schedule!Used

\* A step of the loop that neither ends it nor stores a block.
LEMMA LoopStutters ==
  ASSUME IndInv, NEW x \in Miners,
         \/ Poll(x) \/ ScheduleDue(x) \/ ScheduleSleep(x) \/ Gbt(x)
         \/ GbtTooEarly(x) \/ Mine(x)
  PROVE  UNCHANGED Schedule!scheduleVars
<1>1. /\ pc \in [Miners -> PCs] /\ mined \in [Miners -> Nat]
  BY DEF IndInv, TypeOK
<1>2. /\ clock' = clock /\ blocks' = blocks
      /\ \A m \in Miners \ {x} : pc'[m] = pc[m] /\ mined'[m] = mined[m]
  BY <1>1 DEF Poll, ScheduleDue, ScheduleSleep, Gbt, GbtTooEarly, Mine, Leave,
              nodeVars
<1>3. x \in runningView /\ x \in runningView'
  BY <1>1 DEF Poll, ScheduleDue, ScheduleSleep, Gbt, GbtTooEarly, Mine, Leave,
              runningView, Ended
<1>4. x \in freshView' <=> x \in freshView
  <2>1. CASE Gbt(x)
    <3>1. pc[x] = "gbt" /\ pc'[x] = "mine" /\ mined'[x] = mined[x] + 1
      BY <1>1, <2>1 DEF Gbt
    <3>2. mined[x] \in Nat
      BY <1>1
    <3> QED BY <3>1, <3>2 DEF freshView
  <2>2. CASE ~Gbt(x)
    <3>1. mined' = mined
      BY <2>2 DEF Poll, ScheduleDue, ScheduleSleep, GbtTooEarly, Mine
    <3>2. \/ pc[x] \in {"poll", "schedule", "gbt"}
             /\ pc'[x] \in {"poll", "schedule", "gbt"}
          \/ pc[x] \in {"mine", "submit"} /\ pc'[x] \in {"mine", "submit"}
      BY <1>1, <2>2 DEF Poll, ScheduleDue, ScheduleSleep, GbtTooEarly, Mine, Leave
    <3> QED BY <3>1, <3>2 DEF freshView
  <2> QED BY <2>1, <2>2
<1>5. runningView' = runningView /\ freshView' = freshView
  BY <1>2, <1>3, <1>4, ViewsStep
<1>6. chainView' = chainView
  BY <1>2, SameView
<1> QED BY <1>2, <1>5, <1>6 DEF Schedule!scheduleVars

LEMMA StartJoins ==
  ASSUME IndInv, NEW x \in Miners, Start(x)
  PROVE  Schedule!Join(x)
<1>1. /\ pc \in [Miners -> PCs] /\ mined \in [Miners -> Nat]
  BY DEF IndInv, TypeOK
<1>2. /\ clock' = clock /\ blocks' = blocks /\ pc'[x] = "poll" /\ mined'[x] = 0
      /\ \A m \in Miners \ {x} : pc'[m] = pc[m] /\ mined'[m] = mined[m]
  BY <1>1 DEF Start, nodeVars
<1>3. x \notin runningView
  BY DEF Start, runningView
<1>4. x \in runningView' /\ x \in freshView'
  BY <1>2 DEF runningView, freshView, Ended
<1>5. runningView' = runningView \cup {x} /\ freshView' = freshView \cup {x}
  BY <1>2, <1>4, ViewsStep
<1>6. chainView' = chainView
  BY <1>2, SameView
<1> QED BY <1>2, <1>3, <1>5, <1>6 DEF Schedule!Join

\* A block that is stored was due, and it was its miner's turn.
LEMMA SubmitProduces ==
  ASSUME IndInv, IndInv', PatienceInv, ScheduleInv, NEW x \in Miners, Submit(x),
         NEW r \in Rands, NEW v \in Variances,
         blocks' = Append(blocks, NewBlock(x, r, v)), Schedule!Used(x)
  PROVE  Schedule!Next
<1> DEFINE p == tmpl[x]
           t == mineTime[x]
           b == blocks[p]
           c == chainView[p]
<1>1. /\ pc[x] = "submit" /\ p = best[x] /\ p \in Ids /\ t \in Nat
      /\ now[x] \in Nat /\ clock \in Nat /\ now[x] <= clock
      /\ t <= now[x] + FutureMargin /\ mined[x] \in Nat /\ mined[x] >= 1
  BY DEF Submit, IndInv, TypeOK, PlanInv, PolledInv, PlannedInv, TemplateInv
<1>2. b.height \in 0..MaxHeight /\ b.time \in Nat /\ b.var \in Nat
  BY <1>1, BlockFacts DEF IndInv
<1>3. /\ c.height = b.height /\ c.time = b.time
      /\ c.rand = b.rand /\ c.var = b.var /\ Len(chainView) = Len(blocks)
  BY <1>1, ViewFacts DEF IndInv
<1>4. /\ Schedule!DueTime(x, c) = DueTime(x, b)
      /\ Schedule!PatientTime(x, c) = PatientTime(x, b)
  <2> HIDE DEF b, c
  <2> QED BY <1>3, SameDue
<1>5. t \in 0..(clock + FutureMargin) /\ p \in 1..Len(chainView)
  <2>1. p \in 1..Len(chainView)
    BY <1>1, <1>3 DEF Ids
  <2> HIDE DEF p, t
  <2>2. t \in 0..(clock + FutureMargin)
    BY <1>1, TimesAssumption
  <2> QED BY <2>1, <2>2
<1>6. DueTime(x, b) \in Nat /\ PatientTime(x, b) \in Nat
  <2> HIDE DEF b
  <2> QED BY <1>2, DueType
<1>7. b.height = 0 \/ b.height > 0
  BY <1>2, IntervalAssumption
<1>8. Schedule!RightTime(x, c, t)
  <2>1. CASE Args[x].set_block_time \/ b.height = 0
    BY <1>3, <2>1 DEF Schedule!RightTime, Schedule!Unscheduled
  <2>2. CASE ~Args[x].set_block_time /\ b.height > 0
    <3>1. DuePlan(x)
      BY DEF ScheduleInv
    <3>2. \/ t = DueTime(x, b)
          \/ ~AllScheduled /\ t > DueTime(x, b) /\ t <= now[x]
      BY <1>1, <2>2, <3>1 DEF DuePlan
    <3>3. ~AllScheduled => Schedule!Unscheduled # {}
      BY DEF AllScheduled, Schedule!Unscheduled
    <3>4. t <= now[x] => t <= clock
      BY <1>1
    <3> HIDE DEF b, c, t
    <3> QED BY <1>4, <3>2, <3>3, <3>4 DEF Schedule!RightTime
  <2> QED BY <1>7, <2>1, <2>2
<1>9. Schedule!RightTurn(x, c)
  <2>1. CASE Args[x].set_block_time \/ b.height = 0
    BY <1>3, <2>1 DEF Schedule!RightTurn, Schedule!Unscheduled
  <2>2. CASE ~Args[x].set_block_time /\ b.height > 0
    <3>1. CASE Args[x].standby_delay > 0 \/ NotFirst(x)
      <4>1. now[x] >= PatientTime(x, b)
        BY <1>1, <2>2, <3>1 DEF PatienceInv, PatientPlan
      <4>2. clock >= PatientTime(x, b)
        <5> HIDE DEF b
        <5> QED BY <1>1, <1>6, <4>1
      <4> HIDE DEF b, c
      <4> QED BY <1>4, <4>2 DEF Schedule!RightTurn
    <3>2. CASE ~(Args[x].standby_delay > 0 \/ NotFirst(x))
      <4>1. Args[x].standby_delay \in Nat
        BY ArgsAssumption DEF ArgsType
      <4>2. Args[x].standby_delay = 0
        BY <3>2, <4>1
      <4>3. mined[x] = 1
        BY <1>1, <3>2 DEF NotFirst
      <4>4. x \in freshView
        BY <1>1, <4>3 DEF freshView
      <4> QED BY <4>2, <4>4 DEF Schedule!RightTurn
    <3> QED BY <3>1, <3>2
  <2> QED BY <1>7, <2>1, <2>2
<1>10. chainView' = Append(chainView,
         [parent |-> p, height |-> c.height + 1, time |-> t, rand |-> r, var |-> v])
  <2> DEFINE nb == NewBlock(x, r, v)
  <2>1. /\ nb.parent = p /\ nb.height = b.height + 1 /\ nb.time = t
        /\ nb.rand = r /\ nb.var = v
    BY DEF NewBlock
  <2> HIDE DEF nb
  <2>2. blocks' = Append(blocks, nb)
    BY DEF nb
  <2>3. chainView' = Append(chainView,
          [parent |-> nb.parent, height |-> nb.height, time |-> nb.time,
           rand |-> nb.rand, var |-> nb.var])
    BY <2>2, ViewAppend DEF IndInv
  <2> QED BY <1>3, <2>1, <2>3
<1>11. clock' = clock
  BY DEF Submit
<1>12. Schedule!Produce(x, p, t, r, v)
  BY <1>8, <1>9, <1>10, <1>11 DEF Schedule!Produce
<1> HIDE DEF p, t
<1> QED BY <1>5, <1>12 DEF Schedule!Next

LEMMA StepRefines ==
  IndInv /\ IndInv' /\ PatienceInv /\ ScheduleInv /\ [Next]_vars
    => [Schedule!Next]_(Schedule!scheduleVars)
<1> SUFFICES ASSUME IndInv, IndInv', PatienceInv, ScheduleInv, [Next]_vars
             PROVE  Schedule!Next \/ UNCHANGED Schedule!scheduleVars
  OBVIOUS
<1>1. ASSUME NEW x \in Miners, Start(x) PROVE Schedule!Next
  BY <1>1, StartJoins DEF Schedule!Next
<1>2. ASSUME NEW x \in Miners, Submit(x) PROVE Schedule!Next
  <2>1. PICK where \in Ended \cup {"poll"} : Leave(x, where)
    BY <1>2 DEF Submit, LoopHead, Ended
  <2>2. pc[x] = "submit" /\ mined' = mined /\ clock' = clock
    BY <1>2 DEF Submit
  <2>3. mined[x] # 0
    BY <2>2 DEF IndInv, TypeOK, PlanInv, TemplateInv
  <2>4. Schedule!Used(x)
    BY <2>1, <2>2, <2>3, UsedUp
  <2>5. CASE blocks' = blocks
    BY <2>2, <2>4, <2>5, SameView DEF Schedule!Next, Schedule!GiveUp
  <2>6. CASE blocks' # blocks
    BY <1>2, <2>4, <2>6, SubmitProduces DEF Submit
  <2> QED BY <2>5, <2>6
<1>3. ASSUME NEW x \in Miners, GbtMismatch(x) \/ SignFails(x) \/ RpcError(x)
      PROVE  Schedule!Next
  <2>1. PICK where \in Ended : Leave(x, where)
    BY <1>3 DEF GbtMismatch, SignFails, RpcError, Ended
  <2>2. /\ pc[x] \in {"poll", "gbt", "mine", "submit"} /\ mined' = mined
        /\ clock' = clock /\ blocks' = blocks
    BY <1>3 DEF GbtMismatch, SignFails, RpcError, nodeVars
  <2>3. Schedule!Used(x)
    BY <2>1, <2>2, UsedUp DEF Ended
  <2> QED BY <2>2, <2>3, SameView DEF Schedule!Next, Schedule!GiveUp
<1>4. ASSUME NEW x \in Miners, Step(x), ~Submit(x), ~GbtMismatch(x)
      PROVE  UNCHANGED Schedule!scheduleVars
  BY <1>4, LoopStutters DEF Step
<1>5. CASE Tick
  <2>1. clock' = clock + 1 /\ UNCHANGED <<blocks, pc, mined>>
    BY <1>5 DEF Tick, nodeVars, minerVars
  <2>2. runningView' = runningView /\ freshView' = freshView
    BY <2>1 DEF runningView, freshView
  <2> QED BY <2>1, <2>2, SameView DEF Schedule!Next, Schedule!Tick
<1>6. CASE Reorg \/ UNCHANGED vars
  <2>1. clock' = clock /\ UNCHANGED <<blocks, pc, mined>>
    BY <1>6 DEF Reorg, vars, nodeVars, minerVars
  <2>2. runningView' = runningView /\ freshView' = freshView
    BY <2>1 DEF runningView, freshView
  <2> QED BY <2>1, <2>2, SameView DEF Schedule!scheduleVars
<1> QED BY <1>1, <1>2, <1>3, <1>4, <1>5, <1>6 DEF Next, Step

LEMMA InitRefines == Init => Schedule!Init
<1> SUFFICES ASSUME Init PROVE Schedule!Init
  OBVIOUS
<1> DEFINE rec == [parent |-> 0, height |-> 0, time |-> GenesisTime,
                   rand |-> 0, var |-> VarUnit]
<1>1. Ids = 1..1 /\ blocks[1] = Genesis
  BY DEF Init, Ids
<1>2. chainView = [i \in 1..1 |-> rec]
  BY <1>1 DEF chainView, Genesis
<1> HIDE DEF rec
<1>3. <<rec>> = [i \in 1..1 |-> rec]
  <2>1. <<rec>> \in Seq({rec}) /\ Len(<<rec>>) = 1 /\ <<rec>>[1] = rec
    OBVIOUS
  <2>2. <<rec>> \in [1..1 -> {rec}]
    BY <2>1, LenProperties
  <2> QED BY <2>2
<1>4. runningView = {} /\ freshView = {}
  BY DEF Init, runningView, freshView
<1>5. clock = StartClock
  BY DEF Init
<1> QED BY <1>2, <1>3, <1>4, <1>5 DEF Schedule!Init, rec

\* Every behaviour of any number of concurrent miners is one of the one-step
\* schedule: each block they add, through every interleaving, failed call,
\* restart and reorganisation, is one that its miner was entitled to add to
\* that parent at that moment.
THEOREM MinersKeepSchedule == Spec => ImplementsSchedule
<1> QED BY InitRefines, StepRefines, Invariance, PatienceInvariance,
           ScheduleInvariance, PTL
        DEF Spec, ImplementsSchedule, Schedule!Spec
=============================================================================
