---------------------------- MODULE SignetMiner ----------------------------
(***************************************************************************)
(* The `miner generate` processes of src/miner (do_generate) around one    *)
(* bitcoind.  Every process repeats: read the best block, work out when    *)
(* the next block is due, sleep or fetch a template, sign, grind, submit.  *)
(* Each RPC, and each reading of the clock, is a step of its own, so that  *)
(* blocks of other miners, reorganisations and the passage of time fall    *)
(* between any two of them.  Block hashes are positions in `blocks`.       *)
(***************************************************************************)
EXTENDS Generate, Sequences, FiniteSets

CONSTANTS
  FaultyMiners,        \* miners whose bitcoin-cli calls may fail
  Restartable,         \* miners that somebody starts again after they end
  SetTimeOffsets,      \* --set-block-time, relative to the clock at start
  Backdate,            \* intervals the first block is backdated by (100)
  FutureMargin,        \* never mine further ahead than this (6900)
  MaxFutureBlockTime,  \* consensus limit on times in the future (7200)
  MTP_SPAN,            \* blocks in the median time past (11)
  SleepCap,            \* longest sleep (60)
  LateSleepCap,        \* longest sleep once the block is overdue (20)
  Rands, Variances,    \* what block hashes may give as rand and var
  GenesisTime, StartClock,
  MaxClock, MaxReorgs  \* bounds of the model

ASSUME SetsAssumption ==
  /\ FaultyMiners \subseteq Miners
  /\ Restartable \subseteq Miners
  /\ SetTimeOffsets \subseteq Int
  /\ Rands \subseteq Nat
  /\ Variances \subseteq Nat

ASSUME TimesAssumption ==
  /\ Backdate \in Nat
  /\ FutureMargin \in Nat
  /\ MaxFutureBlockTime \in Nat
  /\ FutureMargin <= MaxFutureBlockTime
  /\ MTP_SPAN \in Nat \ {0}
  /\ SleepCap \in Nat \ {0}
  /\ LateSleepCap \in Nat \ {0}
  /\ GenesisTime \in Nat
  /\ StartClock \in Nat
  /\ GenesisTime <= StartClock
  /\ Backdate * INTERVAL <= StartClock
  /\ MaxClock \in Nat
  /\ MaxReorgs \in Nat

VARIABLES
  clock,     \* time.time() of the one host
  blocks,    \* every block the node has stored; position 1 is genesis
  tip,       \* the node's best block
  invalid,   \* blocks the node has been told to drop
  reorgs,    \* how many times that happened
  pc,        \* where each process is
  setTime,   \* args.set_block_time
  best,      \* bestheader, 0 when the process has to read it
  mined,     \* mined_blocks
  now,       \* the value of time.time() the schedule was computed from
  mineTime,  \* gen.mine_time
  tmpl,      \* tmpl["previousblockhash"], 0 when there is no template
  wake       \* when time.sleep returns

nodeVars == <<blocks, tip, invalid, reorgs>>
minerVars == <<pc, setTime, best, mined, now, mineTime, tmpl, wake>>
vars == <<clock, nodeVars, minerVars>>

Ended == {"done", "unsigned", "rpcerror", "nameerror"}
PCs == {"off", "poll", "schedule", "gbt", "mine", "submit"} \cup Ended

\* Mutants of next_block_time: no limit on how far ahead a block is mined; the
\* schedule counted from now; a standby that starts at once; the first block
\* backdated twice.
next_block_time_NoMargin(m, t, b, is_first_block) ==
  [mine   |-> IF b.height = 0 THEN t - Backdate * INTERVAL ELSE DueTime(m, b),
   action |-> IF is_first_block THEN t ELSE PatientTime(m, b)]

next_block_time_FromNow(m, t, b, is_first_block) ==
  [mine   |-> t + next_block_delta(m, b),
   action |-> IF is_first_block THEN t ELSE PatientTime(m, b)]

next_block_time_NoStandby(m, t, b, is_first_block) ==
  [mine   |-> IF Args[m].set_block_time THEN setTime[m]
              ELSE IF b.height = 0 THEN t - Backdate * INTERVAL
              ELSE DueTime(m, b),
   action |-> IF is_first_block \/ Args[m].set_block_time
              THEN t ELSE PatientTime(m, b)]

next_block_time_TwiceBack(m, t, b, is_first_block) ==
  [mine   |-> IF b.height = 0 THEN t - 2 * Backdate * INTERVAL
              ELSE DueTime(m, b),
   action |-> IF is_first_block THEN t ELSE PatientTime(m, b)]

\* mine_time and action_time that next_block_time computes at time t.
next_block_time(m, t, b, is_first_block) ==
  LET plan ==
        IF Args[m].set_block_time
        THEN [mine |-> setTime[m], action |-> t]
        ELSE IF b.height = 0
        THEN [mine |-> t - Backdate * INTERVAL, action |-> t]
        ELSE [mine   |-> DueTime(m, b),
              action |-> IF is_first_block /\ Args[m].standby_delay = 0
                         THEN t ELSE PatientTime(m, b)]
  IN  [plan EXCEPT !.action = max(plan.action, plan.mine - FutureMargin)]

(***************************************************************************)
(* The node (external): stored blocks, templates, the checks on a block.   *)
(***************************************************************************)
Ids == 1..Len(blocks)

\* The median of a window of timestamps: of n sorted values the one with
\* n \div 2 values before it.
Median(times) ==
  CHOOSE t \in {times[i] : i \in 1..Len(times)} :
    /\ Cardinality({i \in 1..Len(times) : times[i] < t}) <= Len(times) \div 2
    /\ Cardinality({i \in 1..Len(times) : times[i] <= t}) > Len(times) \div 2

\* tmpl["mintime"] of a template on block p.
mintime(p) == Median(blocks[p].times) + 1

\* The timestamps of the last MTP_SPAN blocks up to a child of p at time t.
Window(p, t) ==
  LET w == Append(blocks[p].times, t)
  IN  IF Len(w) > MTP_SPAN THEN Tail(w) ELSE w

\* Whether the node stores a block with time t on p: a valid parent, and a
\* time after the median time past and not too far in the future.
AcceptBlock(p, t) ==
  /\ p \notin invalid
  /\ t >= mintime(p)
  /\ t <= clock + MaxFutureBlockTime

Genesis == [parent |-> 0, height |-> 0, time |-> GenesisTime,
            times |-> <<GenesisTime>>, rand |-> 0, var |-> VarUnit,
            by |-> "genesis", planned |-> 0, at |-> 0, first |-> TRUE]

Init ==
  /\ clock = StartClock
  /\ blocks = <<Genesis>>
  /\ tip = 1
  /\ invalid = {}
  /\ reorgs = 0
  /\ pc = [m \in Miners |-> "off"]
  /\ setTime = [m \in Miners |-> 0]
  /\ best = [m \in Miners |-> 0]
  /\ mined = [m \in Miners |-> 0]
  /\ now = [m \in Miners |-> 0]
  /\ mineTime = [m \in Miners |-> 0]
  /\ tmpl = [m \in Miners |-> 0]
  /\ wake = [m \in Miners |-> 0]

(***************************************************************************)
(* do_generate, one action per RPC or reading of the clock.                *)
(***************************************************************************)
\* The process leaves the loop's body: for the head of the loop or for good.
\* now, mine_time and the template are computed afresh before they are read
\* again, and are forgotten here; bestheader stays.
Leave(m, where) ==
  /\ pc' = [pc EXCEPT ![m] = where]
  /\ now' = [now EXCEPT ![m] = 0]
  /\ mineTime' = [mineTime EXCEPT ![m] = 0]
  /\ tmpl' = [tmpl EXCEPT ![m] = 0]

\* The process starts: mined_blocks = 0, and the block time it was given.  A
\* negative --set-block-time means the current time.
Start(m) ==
  /\ \/ pc[m] = "off"
     \/ pc[m] \in Ended /\ m \in Restartable
  /\ IF Args[m].set_block_time
     THEN \E offset \in SetTimeOffsets :
            setTime' = [setTime EXCEPT ![m] =
              IF clock + offset < 0 THEN clock ELSE clock + offset]
     ELSE UNCHANGED setTime
  /\ pc' = [pc EXCEPT ![m] = "poll"]
  /\ mined' = [mined EXCEPT ![m] = 0]
  /\ best' = [best EXCEPT ![m] = 0]
  /\ wake' = [wake EXCEPT ![m] = 0]
  /\ UNCHANGED <<clock, nodeVars, now, mineTime, tmpl>>

\* Mutant: the header is read once and never refreshed.
Poll_NoRefresh(m) ==
  /\ pc[m] = "poll"
  /\ wake[m] <= clock
  /\ blocks[tip].height < MaxHeight
  /\ best' = [best EXCEPT ![m] = IF @ = 0 THEN tip ELSE @]
  /\ pc' = [pc EXCEPT ![m] = "schedule"]
  /\ wake' = [wake EXCEPT ![m] = 0]
  /\ UNCHANGED <<clock, nodeVars, setTime, mined, now, mineTime, tmpl>>

\* getblockchaininfo and getblockheader.  The header belongs to the hash that
\* the first call returned, so nothing can come between the two.
Poll(m) ==
  /\ pc[m] = "poll"
  /\ wake[m] <= clock
  /\ blocks[tip].height < MaxHeight
  /\ best' = [best EXCEPT ![m] = tip]
  /\ pc' = [pc EXCEPT ![m] = "schedule"]
  /\ wake' = [wake EXCEPT ![m] = 0]
  /\ UNCHANGED <<clock, nodeVars, setTime, mined, now, mineTime, tmpl>>

\* Mutant: a miner only ever acts on its own slots.
ScheduleDue_OwnOnly(m) ==
  LET plan == next_block_time(m, clock, blocks[best[m]], mined[m] = 0)
  IN  /\ pc[m] = "schedule"
      /\ clock >= plan.action
      /\ blocks[best[m]].height > 0 => next_block_is_mine(m, blocks[best[m]])
      /\ now' = [now EXCEPT ![m] = clock]
      /\ mineTime' = [mineTime EXCEPT ![m] = plan.mine]
      /\ pc' = [pc EXCEPT ![m] = "gbt"]
      /\ UNCHANGED <<clock, nodeVars, setTime, best, mined, tmpl, wake>>

\* now = time.time() and next_block_time; the block is due.
ScheduleDue(m) ==
  LET plan == next_block_time(m, clock, blocks[best[m]], mined[m] = 0)
  IN  /\ pc[m] = "schedule"
      /\ clock >= plan.action
      /\ now' = [now EXCEPT ![m] = clock]
      /\ mineTime' = [mineTime EXCEPT ![m] = plan.mine]
      /\ pc' = [pc EXCEPT ![m] = "gbt"]
      /\ UNCHANGED <<clock, nodeVars, setTime, best, mined, tmpl, wake>>

\* The same when it is not: sleep, for less if the block is overdue and
\* somebody else may mine it, then look for a new block.
ScheduleSleep(m) ==
  LET plan == next_block_time(m, clock, blocks[best[m]], mined[m] = 0)
      sleep_for == min(plan.action - clock, SleepCap)
  IN  /\ pc[m] = "schedule"
      /\ clock < plan.action
      /\ wake' = [wake EXCEPT ![m] =
           clock + (IF plan.mine < clock THEN min(LateSleepCap, sleep_for)
                    ELSE sleep_for)]
      /\ Leave(m, "poll")
      /\ UNCHANGED <<clock, nodeVars, setTime, best, mined>>

\* Generate.gbt when the template is not on the block that was polled: the
\* warning reads `bci`, which is not a name in that method.
GbtMismatch(m) ==
  /\ pc[m] = "gbt"
  /\ tip # best[m]
  /\ Leave(m, "nameerror")
  /\ UNCHANGED <<clock, nodeVars, setTime, best, mined, wake>>

\* Generate.gbt when it is, but the node's mintime is still in the future:
\* round again, without a sleep.
GbtTooEarly(m) ==
  /\ pc[m] = "gbt"
  /\ tip = best[m]
  /\ mintime(tip) > mineTime[m]
  /\ mintime(tip) > now[m]
  /\ Leave(m, "poll")
  /\ UNCHANGED <<clock, nodeVars, setTime, best, mined, wake>>

\* Mutants of Gbt: any template is taken, whatever was polled; a template of
\* the polled block is kept although the node has moved on; the block time is
\* not raised to mintime.
Gbt_AnyParent(m) ==
  /\ pc[m] = "gbt"
  /\ mintime(tip) <= mineTime[m] \/ mintime(tip) <= now[m]
  /\ mineTime' = [mineTime EXCEPT ![m] = max(@, mintime(tip))]
  /\ tmpl' = [tmpl EXCEPT ![m] = tip]
  /\ mined' = [mined EXCEPT ![m] = @ + 1]
  /\ pc' = [pc EXCEPT ![m] = "mine"]
  /\ UNCHANGED <<clock, nodeVars, setTime, best, now, wake>>

Gbt_StaleTemplate(m) ==
  /\ pc[m] = "gbt"
  /\ mineTime' = [mineTime EXCEPT ![m] = max(@, mintime(best[m]))]
  /\ tmpl' = [tmpl EXCEPT ![m] = best[m]]
  /\ mined' = [mined EXCEPT ![m] = @ + 1]
  /\ pc' = [pc EXCEPT ![m] = "mine"]
  /\ UNCHANGED <<clock, nodeVars, setTime, best, now, wake>>

Gbt_NoMintime(m) ==
  /\ pc[m] = "gbt"
  /\ tip = best[m]
  /\ tmpl' = [tmpl EXCEPT ![m] = tip]
  /\ mined' = [mined EXCEPT ![m] = @ + 1]
  /\ pc' = [pc EXCEPT ![m] = "mine"]
  /\ UNCHANGED <<clock, nodeVars, setTime, best, now, mineTime, wake>>

\* Generate.gbt with a usable template: the block time moves up to mintime
\* if it has to.  mined_blocks counts before the block is signed.
Gbt(m) ==
  /\ pc[m] = "gbt"
  /\ tip = best[m]
  /\ mintime(tip) <= mineTime[m] \/ mintime(tip) <= now[m]
  /\ mineTime' = [mineTime EXCEPT ![m] = max(@, mintime(tip))]
  /\ tmpl' = [tmpl EXCEPT ![m] = tip]
  /\ mined' = [mined EXCEPT ![m] = @ + 1]
  /\ pc' = [pc EXCEPT ![m] = "mine"]
  /\ UNCHANGED <<clock, nodeVars, setTime, best, now, wake>>

\* Generate.mine: the wallet signs the block PSBT; grinding follows.
Mine(m) ==
  /\ pc[m] = "mine"
  /\ pc' = [pc EXCEPT ![m] = "submit"]
  /\ UNCHANGED <<clock, nodeVars, setTime, best, mined, now, mineTime, tmpl,
                 wake>>

\* The wallet does not complete the PSBT: do_generate returns 1.
SignFails(m) ==
  /\ m \in FaultyMiners
  /\ pc[m] = "mine"
  /\ Leave(m, "unsigned")
  /\ UNCHANGED <<clock, nodeVars, setTime, best, mined, wake>>

\* The block of miner m as the node stores it.  by, planned, at and first are
\* history for the properties.
NewBlock(m, r, v) ==
  [parent |-> tmpl[m], height |-> blocks[tmpl[m]].height + 1,
   time |-> mineTime[m], times |-> Window(tmpl[m], mineTime[m]),
   rand |-> r, var |-> v,
   by |-> m, planned |-> now[m], at |-> clock, first |-> mined[m] = 1]

\* Back to the head of the loop, or the end of do_generate.
LoopHead(m) ==
  IF Args[m].max_blocks > 0 /\ mined[m] >= Args[m].max_blocks
  THEN "done" ELSE "poll"

\* submitblock.  The node stores an acceptable block and makes it the tip if
\* it is higher; the answer is only logged.  The call may fail although the
\* node has taken the block.
Submit(m) ==
  /\ pc[m] = "submit"
  /\ \/ /\ AcceptBlock(tmpl[m], mineTime[m])
        /\ \E r \in Rands, v \in Variances :
             blocks' = Append(blocks, NewBlock(m, r, v))
        /\ tip' = IF blocks[tmpl[m]].height + 1 > blocks[tip].height
                  THEN Len(blocks) + 1 ELSE tip
     \/ /\ ~AcceptBlock(tmpl[m], mineTime[m])
        /\ UNCHANGED <<blocks, tip>>
  /\ \/ Leave(m, LoopHead(m))
     \/ m \in FaultyMiners /\ Leave(m, "rpcerror")
  /\ UNCHANGED <<clock, invalid, reorgs, setTime, best, mined, wake>>

\* bitcoin-cli fails (check=True raises) before the node has done anything.
RpcError(m) ==
  /\ m \in FaultyMiners
  /\ pc[m] \in {"poll", "gbt", "mine", "submit"}
  /\ wake[m] <= clock
  /\ Leave(m, "rpcerror")
  /\ UNCHANGED <<clock, nodeVars, setTime, best, mined, wake>>

\* External: the tip is dropped (invalidateblock, or a block the node hears
\* is on a losing fork) and one of the highest remaining blocks replaces it.
Reorg ==
  /\ reorgs < MaxReorgs
  /\ tip # 1
  /\ reorgs' = reorgs + 1
  /\ invalid' = invalid \cup {tip}
  /\ tip' \in {b \in Ids \ invalid' :
                 \A c \in Ids \ invalid' : blocks[c].height <= blocks[b].height}
  /\ UNCHANGED <<clock, blocks, minerVars>>

Tick ==
  /\ clock < MaxClock
  /\ clock' = clock + 1
  /\ UNCHANGED <<nodeVars, minerVars>>

\* One step of a running process.
Step(m) ==
  \/ Poll(m)
  \/ ScheduleDue(m)
  \/ ScheduleSleep(m)
  \/ Gbt(m)
  \/ GbtTooEarly(m)
  \/ GbtMismatch(m)
  \/ Mine(m)
  \/ Submit(m)

Next ==
  \/ \E m \in Miners : Start(m) \/ Step(m) \/ SignFails(m) \/ RpcError(m)
  \/ Reorg
  \/ Tick

Spec == Init /\ [][Next]_vars

\* The host runs its processes and its clock goes on.  Nothing makes calls
\* fail, miners end or the chain reorganise.
Fairness ==
  /\ WF_vars(Tick)
  /\ \A m \in Miners : /\ WF_vars(Start(m) /\ pc[m] = "off")
                       /\ WF_vars(Step(m))

FairSpec == Spec /\ Fairness

(***************************************************************************)
(* Properties.                                                             *)
(***************************************************************************)
BlockType ==
  [parent : Nat, height : 0..MaxHeight, time : Nat, times : Seq(Nat),
   rand : Nat, var : Nat, by : Miners \cup {"genesis"}, planned : Nat,
   at : Nat, first : BOOLEAN]

\* Every variable has its type: the tip, the headers the processes have read
\* and the parents of their templates are stored blocks, heights stay within
\* the bound, and no time that do_generate computes is negative.
TypeOK ==
  /\ clock \in Nat
  /\ blocks \in Seq(BlockType)
  /\ tip \in Ids
  /\ invalid \subseteq Ids
  /\ reorgs \in 0..MaxReorgs
  /\ pc \in [Miners -> PCs]
  /\ setTime \in [Miners -> Nat]
  /\ best \in [Miners -> {0} \cup Ids]
  /\ mined \in [Miners -> Nat]
  /\ now \in [Miners -> Nat]
  /\ mineTime \in [Miners -> Nat]
  /\ tmpl \in [Miners -> {0} \cup Ids]
  /\ wake \in [Miners -> Nat]

\* No block that `miner` submits is refused for its timestamp: whatever
\* happened since the template (other blocks, a reorganisation, a long
\* grind), its time is after the median time past of the parent it is built
\* on and within the safety margin of the future limit.  "can't mine a block
\* 2h in the future; 1h55m for some safety" (next_block_time), and the
\* mintime check of gbt.
NoTimestampReject ==
  \A m \in Miners : pc[m] = "submit" =>
    /\ mineTime[m] >= mintime(tmpl[m])
    /\ mineTime[m] <= clock + FutureMargin

Mined == Ids \ {1}

\* A block whose time the schedule decides: not given, and not the first.
Scheduled(b) == ~Args[b.by].set_block_time /\ blocks[b.parent].height > 0

\* A miner that is not starting up, or that runs with --standby-delay, does
\* not act on a slot of another miner before backup_delay has passed on the
\* block it builds on, and never acts before standby_delay has.  It must hold
\* for the parent the block really has, whatever was polled.
BackupPatience ==
  \A i \in Mined :
    LET b == blocks[i]
    IN  Scheduled(b) /\ (~b.first \/ Args[b.by].standby_delay > 0) =>
          b.planned >= PatientTime(b.by, blocks[b.parent])

\* Without --set-block-time the chain keeps exactly the deterministic
\* schedule: each time is the parent's plus next_block_delta, and mintime
\* never has to correct it.
OnSchedule ==
  (\A m \in Miners : ~Args[m].set_block_time) =>
    \A i \in Mined :
      Scheduled(blocks[i]) =>
        blocks[i].time = DueTime(blocks[i].by, blocks[blocks[i].parent])

\* Two valid blocks on one parent come from a race only: neither miner had
\* planned its block after the other one had been stored.  With
\* BackupPatience: a backup miner never forks off a block that came in time.
ForksOnlyInRace ==
  \A i, j \in Mined \ invalid :
    i # j /\ blocks[i].parent = blocks[j].parent =>
      blocks[i].at >= blocks[j].planned

\* The chain as BlockSchedule sees it, the processes that run, and those that
\* may still jump the queue: mined_blocks is raised before the first block is
\* submitted.
chainView ==
  [i \in Ids |-> [parent |-> blocks[i].parent, height |-> blocks[i].height,
                  time |-> blocks[i].time, rand |-> blocks[i].rand,
                  var |-> blocks[i].var]]

runningView == {m \in Miners : pc[m] \notin {"off"} \cup Ended}

freshView ==
  {m \in Miners :
     \/ pc[m] \in {"poll", "schedule", "gbt"} /\ mined[m] = 0
     \/ pc[m] \in {"mine", "submit"} /\ mined[m] = 1}

Schedule == INSTANCE BlockSchedule
  WITH chain <- chainView, running <- runningView, fresh <- freshView

\* The concurrent miners implement the one-step schedule: through every
\* interleaving, failed call and reorganisation, each block they add is
\* one that its miner was entitled to add to that parent at that moment.
ImplementsSchedule == Schedule!Spec

\* The NameError in gbt ends a process for good, but never the last of a
\* group of --ongoing miners: as long as only their own blocks move the tip,
\* the miner whose block moved it goes on.
SomeMinerSurvives ==
  (reorgs = 0 /\ Miners # {}) => \E m \in Miners : pc[m] # "nameerror"

\* Whatever the interleaving, and though processes may die on the way, the
\* miners bring the chain to its bound: somebody always backs up a slot whose
\* owner is gone, and the backdated first block leaves the time for it.
ChainGrows == <>(blocks[tip].height = MaxHeight)

\* "GBT based off unexpected block (%s not %s), retrying" (Generate.gbt): a
\* template on another block is a reason to retry, not to end.
GbtRetries == \A m \in Miners : pc[m] # "nameerror"
=============================================================================
