--------------------------- MODULE BlockSchedule ---------------------------
(***************************************************************************)
(* What the miners of a signet promise, without processes, RPCs, templates *)
(* and retries: a tree of blocks to which miners add blocks in one step,   *)
(* each at the time the deterministic schedule gives it, and none before   *)
(* its turn except once after each start.                                  *)
(***************************************************************************)
EXTENDS Generate, Sequences

CONSTANTS FutureMargin, Rands, Variances, GenesisTime, StartClock

VARIABLES
  clock,
  chain,     \* every block ever stored; position 1 is genesis
  running,   \* miners that have joined and not yet ended
  fresh      \* those of them that have not yet tried their first block

scheduleVars == <<clock, chain, running, fresh>>

\* Miners whose blocks take a given time and answer to no schedule.
Unscheduled == {m \in Miners : Args[m].set_block_time}

Init ==
  /\ clock = StartClock
  /\ chain = <<[parent |-> 0, height |-> 0, time |-> GenesisTime,
                rand |-> 0, var |-> VarUnit]>>
  /\ running = {}
  /\ fresh = {}

Join(m) ==
  /\ m \notin running
  /\ running' = running \cup {m}
  /\ fresh' = fresh \cup {m}
  /\ UNCHANGED <<clock, chain>>

\* A miner has used its first block up, and goes on or ends.
Used(m) ==
  /\ m \in running
  /\ running' \in {running, running \ {m}}
  /\ fresh' = fresh \ {m}

\* A miner ends, or its first block comes to nothing.
GiveUp(m) ==
  /\ Used(m)
  /\ UNCHANGED <<clock, chain>>

\* The time of a scheduled block is exact unless unscheduled blocks have
\* pushed the median time past beyond it.
RightTime(m, p, t) ==
  \/ m \in Unscheduled
  \/ p.height = 0
  \/ t = DueTime(m, p)
  \/ Unscheduled # {} /\ t > DueTime(m, p) /\ t <= clock

RightTurn(m, p) ==
  \/ m \in Unscheduled
  \/ p.height = 0
  \/ clock >= PatientTime(m, p)
  \/ m \in fresh /\ Args[m].standby_delay = 0

\* Miner m adds a block on p, not necessarily a tip: miners race.  The
\* time is at most FutureMargin ahead (Next).
Produce(m, p, t, r, v) ==
  /\ Used(m)
  /\ RightTime(m, chain[p], t)
  /\ RightTurn(m, chain[p])
  /\ chain' = Append(chain, [parent |-> p, height |-> chain[p].height + 1,
                             time |-> t, rand |-> r, var |-> v])
  /\ UNCHANGED clock

Tick ==
  /\ clock' = clock + 1
  /\ UNCHANGED <<chain, running, fresh>>

Next ==
  \/ Tick
  \/ \E m \in Miners :
       \/ Join(m)
       \/ GiveUp(m)
       \/ \E p \in 1..Len(chain), t \in 0..(clock + FutureMargin),
             r \in Rands, v \in Variances : Produce(m, p, t, r, v)

Spec == Init /\ [][Next]_scheduleVars
=============================================================================
