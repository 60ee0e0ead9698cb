--------------------------- MODULE MCSignetMiner ---------------------------
(***************************************************************************)
(* Small instances of SignetMiner: two --ongoing miners that share the     *)
(* slots (--multiminer=1/2 and 2/2), and a standby miner beside one that   *)
(* is run with --set-block-time.  Times are scaled.                        *)
(***************************************************************************)
EXTENDS SignetMiner, TLC

CONSTANTS m1, m2

Ongoing(low, high, period, standby, backup) ==
  [multi_low |-> low, multi_high |-> high, multi_period |-> period,
   standby_delay |-> standby, backup_delay |-> backup, max_interval |-> 3,
   ultimate_target |-> 2, poisson |-> TRUE, max_blocks |-> 0,
   set_block_time |-> FALSE]

\* m1 mines the even slots and backs m2 up, m2 the odd ones.
TwoMiners ==
  (m1 :> Ongoing(0, 1, 2, 0, 1)) @@ (m2 :> Ongoing(1, 2, 2, 0, 1))
\* m1 keeps mining as a standby; m2 is `--set-block-time`, run again and again.
StandbyAndSetTime ==
  (m1 :> Ongoing(0, 1, 2, 1, 1)) @@
  (m2 :> [Ongoing(0, 1, 1, 0, 0) EXCEPT !.max_blocks = 1,
                                        !.set_block_time = TRUE])

\* The difficulty changes once, at height 2.
Bits == [h \in 0..MaxHeight |-> IF h < 2 THEN 2 ELSE 1]
=============================================================================
