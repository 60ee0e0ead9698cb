-------------------------------- MODULE Curve -------------------------------
(***************************************************************************)
(* src/miner_imports/test_framework/crypto/secp256k1.py on a small curve   *)
(* y^2 = x^3 + 7 of prime order: FE (a fraction, so that inversions can    *)
(* wait), GE (a point or infinity), FastGEMul; and ellswift.py.            *)
(***************************************************************************)
EXTENDS Integers, Sequences, SequencesExt

CONSTANTS
  SIZE,    \* FE.SIZE, the field: a prime, 3 modulo 4 and 1 modulo 3
  ORDER,   \* GE.ORDER, the number of points with infinity: a prime
  BITS     \* bits of a scalar (256)

ASSUME CurveAssumption ==
  /\ {SIZE, ORDER, BITS} \subseteq Nat
  /\ SIZE % 4 = 3 /\ SIZE % 3 = 1 /\ ORDER % 2 = 1 /\ ORDER < 2^BITS
ORDER_HALF == ORDER \div 2

----------------------------------------------------------------------------
(* FE *)

\* pow(a, n, m) for n >= 0, and pow(a, -1, m).
RECURSIVE PowMod(_, _, _)
PowMod(a, n, m) == IF n = 0 THEN 1 ELSE (PowMod(a, n - 1, m) * a) % m
InvMod(a, m) == CHOOSE b \in 1 .. m - 1 : (a * b) % m = 1

\* FE(a, b) of two ints.
Frac(a, b) == [num |-> a % SIZE, den |-> IF a % SIZE = 0 THEN 1 ELSE b % SIZE]
FE(a) == Frac(a, 1)
Add(a, b) == Frac(a.num * b.den + a.den * b.num, a.den * b.den)
Sub(a, b) == Frac(a.num * b.den - a.den * b.num, a.den * b.den)
Mul(a, b) == Frac(a.num * b.num, a.den * b.den)
Div(a, b) == Frac(a.num * b.den, a.den * b.num)
Pow(a, n) == Frac(PowMod(a.num, n, SIZE), PowMod(a.den, n, SIZE))
Neg(a) == Frac(-a.num, a.den)
AsInt(a) == IF a.den = 1 THEN a.num ELSE (a.num * InvMod(a.den, SIZE)) % SIZE
Eq(a, b) == (a.num * b.den - a.den * b.num) % SIZE = 0
IsZero(a) == Eq(a, FE(0))
is_even(a) == AsInt(a) % 2 = 0

NoRoot == [num |-> 0, den |-> 0]     \* None
sqrt(a) ==
  LET s == PowMod(AsInt(a), (SIZE + 1) \div 4, SIZE)
  IN IF (s * s) % SIZE = AsInt(a) THEN FE(s) ELSE NoRoot
is_square(a) == sqrt(a) # NoRoot

----------------------------------------------------------------------------
(* GE *)

Infinity == [inf |-> TRUE]
Point(x, y) == [inf |-> FALSE, x |-> FE(AsInt(x)), y |-> FE(AsInt(y))]
Cubic(x) == Add(Pow(x, 3), FE(7))

\* __add__
Plus(p, a) ==
  IF p.inf THEN a
  ELSE IF a.inf THEN p
  ELSE IF Eq(p.x, a.x) /\ ~Eq(p.y, a.y) THEN Infinity
  ELSE LET lam == IF Eq(p.x, a.x) THEN Div(Mul(FE(3), Pow(p.x, 2)), Mul(FE(2), p.y))
                  ELSE Div(Sub(p.y, a.y), Sub(p.x, a.x))
           x == Sub(Pow(lam, 2), Add(p.x, a.x))
           y == Sub(Mul(lam, Sub(p.x, x)), p.y)
       IN Point(x, y)

Bit(a, i) == (a \div 2^i) % 2 = 1

\* GE.mul of pairs of a scalar and a point: the bits from high to low, each the
\* double of what was there and the points whose scalar has the bit.
RECURSIVE PlusEach(_, _, _), MulBits(_, _)
PlusEach(aps, i, r) ==
  IF aps = <<>> THEN r
  ELSE PlusEach(Tail(aps), i, IF Bit(Head(aps)[1] % ORDER, i) THEN Plus(r, Head(aps)[2]) ELSE r)
MulBits(aps, i) ==
  IF i = BITS THEN Infinity
  ELSE LET r == MulBits(aps, i + 1) IN PlusEach(aps, i, Plus(r, r))
mul(aps) == MulBits(aps, 0)

\* lift_x: None is Infinity.
is_valid_x(x) == is_square(Cubic(x))
lift_x(x) ==
  LET y == sqrt(Cubic(x))
  IN IF y = NoRoot THEN Infinity ELSE Point(x, IF is_even(y) THEN y ELSE Neg(y))

G == lift_x(FE(CHOOSE x \in 1 .. SIZE - 1 : is_valid_x(FE(x)) /\ \A z \in 1 .. x - 1 : ~is_valid_x(FE(z))))

\* FastGEMul: table[i + 1] is 2^i * G.
FAST_G[i \in 0 .. BITS - 1] == IF i = 0 THEN G ELSE Plus(FAST_G[i - 1], FAST_G[i - 1])
RECURSIVE FastBits(_, _, _)
FastBits(a, i, r) ==
  IF i = BITS THEN r ELSE FastBits(a, i + 1, IF Bit(a, i) THEN Plus(r, FAST_G[i]) ELSE r)
FastMul(a) == FastBits(a % ORDER, 0, Infinity)
\* __rmul__
Times(a, p) == IF p = G THEN FastMul(a) ELSE mul(<<<<a, p>>>>)

----------------------------------------------------------------------------
(* ellswift.py *)

MINUS_3_SQRT == sqrt(FE(-3))
Half(a) == Div(a, FE(2))

\* Three candidates, of which one at least is on the curve.
Candidates(u0, t0) ==
  LET u == IF IsZero(u0) THEN FE(1) ELSE u0
      t1 == IF IsZero(t0) THEN FE(1) ELSE t0
      t == IF IsZero(Add(Cubic(u), Pow(t1, 2))) THEN Mul(FE(2), t1) ELSE t1
      X == Div(Sub(Cubic(u), Pow(t, 2)), Mul(FE(2), t))
      Y == Div(Add(X, t), Mul(MINUS_3_SQRT, u))
  IN <<Add(u, Mul(FE(4), Pow(Y, 2))), Half(Sub(Neg(Div(X, Y)), u)), Half(Sub(Div(X, Y), u))>>

\* Mutant: the last one that is on the curve is taken.
xswiftec_Last(u, t) ==
  LET xs == Candidates(u, t)
  IN xs[CHOOSE i \in 1 .. 3 : is_valid_x(xs[i]) /\ \A j \in i + 1 .. 3 : ~is_valid_x(xs[j])]

xswiftec(u, t) ==
  LET xs == Candidates(u, t)
  IN xs[CHOOSE i \in 1 .. 3 : is_valid_x(xs[i]) /\ \A j \in 1 .. i - 1 : ~is_valid_x(xs[j])]

\* xswiftec_inv: None is NoRoot.  case & 2 selects the equation, case & 1 the
\* root, case & 4 the sign.
xswiftec_inv(x, u, case) ==
  LET low == (case \div 2) % 2 = 0
      s == IF low THEN Div(Neg(Cubic(u)), Add(Pow(u, 2), Add(Mul(u, x), Pow(x, 2)))) ELSE Sub(x, u)
      r == sqrt(Neg(Mul(s, Add(Mul(FE(4), Cubic(u)), Mul(FE(3), Mul(s, Pow(u, 2)))))))
      v == IF low THEN x ELSE Half(Add(Neg(u), Div(r, s)))
      w == sqrt(s)
      one == case % 2 = 1
      root == IF one THEN Add(FE(1), MINUS_3_SQRT) ELSE Sub(FE(1), MINUS_3_SQRT)
      t == Mul(w, Add(Half(Mul(u, root)), v))
  IN IF low /\ is_valid_x(Sub(Neg(x), u)) THEN NoRoot
     ELSE IF ~low /\ (IsZero(s) \/ r = NoRoot \/ (one /\ IsZero(r))) THEN NoRoot
     ELSE IF w = NoRoot THEN NoRoot
     ELSE IF (case \div 4) % 2 = (case % 2) THEN Neg(t) ELSE t

\* ellswift_ecdh_xonly: theirs is the pair (u, t).
ellswift_ecdh_xonly(theirs, priv) == AsInt(Times(priv, lift_x(xswiftec(FE(theirs[1]), FE(theirs[2])))).x)
=============================================================================
