------------------------------ MODULE Generate ------------------------------
(***************************************************************************)
(* class Generate of src/miner: when the block after a given one is due,   *)
(* and whose turn it is, as functions of the command line of a miner and   *)
(* of the block.  Every miner works them out from the chain alone, which   *)
(* is how independent miners share a signet.                               *)
(*                                                                         *)
(* Times are integers in seconds (scaled by the MC modules).  What the     *)
(* code reads from a block hash as randomness is the pair of fields rand   *)
(* (the digits that assign the slot) and var (the poisson factor).         *)
(***************************************************************************)
EXTENDS Integers

CONSTANTS
  Miners,              \* the generate processes that may run
  Args,                \* Args[m]: the command line of miner m
  INTERVAL,            \* average block interval
  VarUnit,             \* -log1p(-det_rand) is a multiple of 1 / VarUnit
  MaxHeight,           \* bound: highest block of the model
  BitsAt               \* BitsAt[h]: the target that nBits gives at height h

ArgsType == [multi_low : Nat, multi_high : Nat, multi_period : Nat \ {0},
             standby_delay : Nat, backup_delay : Nat,
             max_interval : Nat \ {0}, ultimate_target : Nat \ {0},
             poisson : BOOLEAN,
             max_blocks : Nat,           \* 0 stands for --ongoing (None)
             set_block_time : BOOLEAN]   \* --set-block-time is given

ASSUME ArgsAssumption ==
  /\ Args \in [Miners -> ArgsType]
  /\ \A m \in Miners : Args[m].set_block_time => Args[m].max_blocks = 1

ASSUME IntervalAssumption ==
  /\ INTERVAL \in Nat \ {0}
  /\ VarUnit \in Nat \ {0}
  /\ MaxHeight \in Nat
  /\ BitsAt \in [0..MaxHeight -> Nat \ {0}]

min(a, b) == IF a <= b THEN a ELSE b
max(a, b) == IF a >= b THEN a ELSE b

\* ultimate_target / current_target capped to [1/4, 4], as a fraction.
retarget_factor(m, b) ==
  LET want == Args[m].ultimate_target
      current == BitsAt[b.height]
  IN  CASE 4 * want < current -> <<1, 4>>
        [] want > 4 * current -> <<4, 1>>
        [] OTHER              -> <<want, current>>

next_block_delta(m, b) ==
  LET f == retarget_factor(m, b)
      variance == IF Args[m].poisson THEN b.var ELSE VarUnit
      this_interval == (INTERVAL * f[1] * variance) \div (f[2] * VarUnit)
  IN  max(1, min(this_interval, Args[m].max_interval))

next_block_is_mine(m, b) ==
  /\ Args[m].multi_low <= b.rand % Args[m].multi_period
  /\ b.rand % Args[m].multi_period < Args[m].multi_high

\* The schedule branch of next_block_time (the block is neither the first of
\* the chain nor given its time): mine_time, and action_time when the miner
\* is not starting up.
DueTime(m, b) == b.time + next_block_delta(m, b)

PatientTime(m, b) ==
  DueTime(m, b) + Args[m].standby_delay
    + (IF next_block_is_mine(m, b) THEN 0 ELSE Args[m].backup_delay)
=============================================================================
