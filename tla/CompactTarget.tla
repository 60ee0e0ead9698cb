---------------------------- MODULE CompactTarget ---------------------------
(***************************************************************************)
(* src/miner nbits_to_target, target_to_nbits and do_calibrate: a target   *)
(* and its compact form, a size in bytes and three bytes of mantissa.  The *)
(* time of the trial runs is a guess, so the wanted target is any number.  *)
(*                                                                         *)
(* A hexadecimal digit has HEX values; a number is read and written in     *)
(* digits as the code does with strings.                                   *)
(***************************************************************************)
EXTENDS Integers, Sequences, SequencesExt

CONSTANTS
  HEX,         \* 16
  MaxDigits    \* bound: digits of a target

ASSUME CompactAssumption == HEX \in Nat /\ HEX % 2 = 0 /\ HEX > 0 /\ MaxDigits \in Nat

VARIABLE calib    \* the arguments of calibrate, the wanted target and what is printed

Mantissa == HEX^6

----------------------------------------------------------------------------
\* "{0:x}".format(n), with no leading zero
Digits(n) ==
  LET w == CHOOSE k \in 1 .. MaxDigits + 2 : n < HEX^k /\ (k = 1 \/ n >= HEX^(k - 1))
  IN [i \in 1 .. w |-> (n \div HEX^(w - i)) % HEX]
Value(s) == FoldLeft(LAMBDA v, d : v * HEX + d, 0, s)
Zeros(n) == [i \in 1 .. n |-> 0]

Shift(nbits) == nbits \div Mantissa
\* A size below 3 makes a float of it, which "{0:x}" refuses.
IsFloat(nbits) == Shift(nbits) < 3
nbits_to_target(nbits) == (nbits % Mantissa) * HEX^(2 * (Shift(nbits) - 3))

\* Padded to six digits, to whole bytes, and away from the sign bit.
Padded(target) ==
  LET t0 == Digits(target)
      t1 == IF Len(t0) < 6 THEN Zeros(6 - Len(t0)) \o t0 ELSE t0
      t2 == Zeros(Len(t1) % 2) \o t1
  IN IF t2[1] >= HEX \div 2 THEN Zeros(2) \o t2 ELSE t2

\* Mutant: what is cut off is not rounded up.
target_to_nbits_Truncates(target) ==
  LET t == Padded(target)
  IN (Len(t) \div 2) * Mantissa + Value(SubSeq(t, 1, 6))

\* The mantissa is one more when anything is cut off.
target_to_nbits(target) ==
  LET t == Padded(target)
      cut == SubSeq(t, 7, Len(t))
      fix == Value(SubSeq(t, 1, 6)) + (IF cut # Zeros(Len(t) - 6) THEN 1 ELSE 0)
  IN (Len(t) \div 2) * Mantissa + fix

----------------------------------------------------------------------------
CalibInit == calib = [step |-> "start"]

\* Both arguments, or --nbits of another length.
Refuse ==
  /\ calib.step = "start"
  /\ calib' = [step |-> "refused"]

\* A target of 0 is no divisor for the time.
CalibrateNbits ==
  /\ calib.step = "start"
  /\ \E nbits \in 0 .. (MaxDigits \div 2 + 1) * Mantissa - 1 :
       calib' = IF IsFloat(nbits) \/ nbits % Mantissa = 0 THEN [step |-> "raised"]
                ELSE [step |-> "nbits", given |-> nbits, want |-> nbits_to_target(nbits),
                      out |-> target_to_nbits(nbits_to_target(nbits))]

\* A time that is not positive ends in an error, in the division or the format.
CalibrateSeconds ==
  /\ calib.step = "start"
  /\ \/ calib' = [step |-> "raised"]
     \/ \E want_targ \in 0 .. HEX^MaxDigits - 1 :
          calib' = [step |-> "seconds", want |-> want_targ, out |-> target_to_nbits(want_targ)]

CalibNext == Refuse \/ CalibrateNbits \/ CalibrateSeconds

----------------------------------------------------------------------------
(* Properties. *)

\* How a node reads nBits (external): the top bit of the mantissa is a sign.
Negative(nbits) == nbits % Mantissa >= Mantissa \div 2
\* The comment's way of writing: a mantissa without sign, no byte more than needed.
Canonical(nbits) ==
  /\ ~Negative(nbits)
  /\ Shift(nbits) = 3 \/ nbits % Mantissa >= Mantissa \div (2 * HEX^2)

\* What calibrate prints is a target at least as large as the wanted one, larger
\* by less than one unit of the mantissa, and the same nbits for a canonical
\* --nbits.  The mantissa that "avoid negative" makes is not negative, unless the
\* rounding, which comes after it, carries 7fffff into the sign bit.
TargetRounding ==
  calib.step \in {"nbits", "seconds"} =>
    LET read == nbits_to_target(calib.out)
        unit == HEX^(2 * (Shift(calib.out) - 3))
    IN /\ read >= calib.want /\ read - calib.want < unit
       /\ Negative(calib.out) =>
            /\ calib.out % Mantissa = Mantissa \div 2
            /\ calib.want > read - unit /\ calib.want < read
       /\ calib.step = "nbits" /\ Canonical(calib.given) => calib.out = calib.given
=============================================================================
