-------------------------------- MODULE Keys --------------------------------
(***************************************************************************)
(* src/miner_imports/test_framework/key.py, and what script.py builds on   *)
(* it: keys that sign, taproot outputs with a tree of scripts, and the     *)
(* keys that two ends of an encrypted connection agree on.                 *)
(*                                                                         *)
(* Hashes are some functions of their arguments to numbers (external).  A  *)
(* byte of a DER number has DER_BITS bits.                                 *)
(***************************************************************************)
EXTENDS Curve

CONSTANTS
  DER_BITS,     \* 8
  SomeSecrets,  \* private keys
  SomeHashes    \* messages that are signed, as numbers
ASSUME KeysAssumption == DER_BITS \in Nat \ {0} /\ SomeSecrets \subseteq 1 .. ORDER - 1 /\ SomeHashes \subseteq Nat

VARIABLE key    \* step, secret key, public key and what was made with them

----------------------------------------------------------------------------
(* ECDSA.  A DER number is big-endian, with its top bit clear. *)

BitLength(v) == CHOOSE n \in 0 .. 2 * BITS : v < 2^n /\ (n = 0 \/ v >= 2^(n - 1))
DerBytes(v) ==
  LET n == (BitLength(v) + DER_BITS) \div DER_BITS
  IN [i \in 1 .. n |-> (v \div 2^(DER_BITS * (n - i))) % 2^DER_BITS]
FromDer(b) == FoldLeft(LAMBDA v, x : v * 2^DER_BITS + x, 0, b)

sign_ecdsa(secret, z, k, low_s) ==
  LET r == AsInt(Times(k, G).x) % ORDER
      s0 == (InvMod(k, ORDER) * (z + secret * r)) % ORDER
      s == IF low_s /\ s0 > ORDER_HALF THEN ORDER - s0 ELSE s0
      rb == DerBytes(r)
      sb == DerBytes(s)
  IN <<48, 4 + Len(rb) + Len(sb), 2, Len(rb)>> \o rb \o <<2, Len(sb)>> \o sb

\* A number of n bytes at place i: its length, sign and padding.
MaxDer == (BITS + DER_BITS) \div DER_BITS
DerNumber(sig, i) ==
  LET n == sig[i + 1] IN
  /\ sig[i] = 2
  /\ n \in 1 .. MaxDer /\ i + 1 + n <= Len(sig)
  /\ sig[i + 2] < 2^(DER_BITS - 1)
  /\ n > 1 /\ sig[i + 2] = 0 => sig[i + 3] >= 2^(DER_BITS - 1)

verify_ecdsa(p, sig, z, low_s) ==
  /\ sig[2] + 2 = Len(sig) /\ sig[1] = 48
  /\ DerNumber(sig, 3) /\ DerNumber(sig, 5 + sig[4])
  /\ Len(sig) = 6 + sig[4] + sig[6 + sig[4]]
  /\ LET r == FromDer(SubSeq(sig, 5, 4 + sig[4]))
         s == FromDer(SubSeq(sig, 7 + sig[4], Len(sig)))
         w == InvMod(s, ORDER)
         R == mul(<<<<z * w, G>>, <<r * w, p>>>>)
     IN /\ r \in 1 .. ORDER - 1 /\ s \in 1 .. ORDER - 1
        /\ low_s => s < ORDER_HALF
        /\ ~R.inf /\ AsInt(R.x) % ORDER = r

----------------------------------------------------------------------------
(* x-only keys and Schnorr signatures. *)

NoKey == [x |-> -1, neg |-> FALSE]      \* None
Xonly(p) == [x |-> AsInt(p.x), neg |-> ~is_even(p.y)]
compute_xonly_pubkey(d) == IF d = 0 \/ d >= ORDER THEN NoKey ELSE Xonly(Times(d, G))

\* Mutant: the key is not negated first.
tweak_add_privkey_AsIs(d, t) == (d + t) % ORDER

\* 0 is None, also for a tweak that is not below the order.
tweak_add_privkey(d, t) ==
  LET even == IF is_even(Times(d, G).y) THEN d ELSE ORDER - d
  IN IF d = 0 \/ d >= ORDER \/ t >= ORDER THEN 0 ELSE (even + t) % ORDER
tweak_add_pubkey(x, t) ==
  LET P == lift_x(FE(x))
      Q == Plus(Times(t, G), P)
  IN IF P.inf \/ t >= ORDER \/ Q.inf THEN NoKey ELSE Xonly(Q)

Challenge(r, x, z) == (5 * r + 3 * x + 7 * z + 2) % ORDER     \* external: a hash

\* kp: the nonce, a hash (external); flip_p is left out.
NoSignature == [r |-> SIZE, s |-> ORDER]      \* None
sign_schnorr(d, z, kp, flip_r) ==
  IF d = 0 \/ d >= ORDER THEN NoSignature ELSE
  LET P == Times(d, G)
      sec == IF is_even(P.y) THEN d ELSE ORDER - d
      R == Times(kp, G)
      k == IF is_even(R.y) # flip_r THEN kp ELSE ORDER - kp
      e == Challenge(AsInt(R.x), AsInt(P.x), z)
  IN [r |-> AsInt(R.x), s |-> (k + e * sec) % ORDER]

verify_schnorr(x, sig, z) ==
  LET P == lift_x(FE(x))
      R == mul(<<<<sig.s, G>>, <<-Challenge(sig.r, x, z), P>>>>)
  IN ~P.inf /\ sig.r < SIZE /\ sig.s < ORDER /\ ~R.inf /\ is_even(R.y) /\ AsInt(R.x) = sig.r

----------------------------------------------------------------------------
(* Taproot outputs.  An item of a tree is a leaf, a list of items, or, as  *)
(* the second of two, a function from the hash of the first.               *)

TapLeaf(code) == 100 * code + 7                               \* external: hashes
TapBranch(l, r) == (31 * l + r * r + 5) % 9973
TapTweak(x, h) == (4 * x + 3 * h + 1) % (ORDER + 3)          \* below 2^256, not below ORDER
Swapped(l, r) == IF r < l THEN <<r, l>> ELSE <<l, r>>
NoTree == [leaves |-> <<>>, h |-> -1]

Extend(leaves, h) == [i \in 1 .. Len(leaves) |-> [leaves[i] EXCEPT !.branch = Append(@, h)]]

\* Each side's leaves get the other side's hash.
Joined(left, right) ==
  LET two == Swapped(left.h, right.h)
  IN [leaves |-> Extend(left.leaves, right.h) \o Extend(right.leaves, left.h), h |-> TapBranch(two[1], two[2])]

RECURSIVE taproot_tree_helper(_)
taproot_tree_helper(scripts) ==
  IF scripts = <<>> THEN NoTree
  ELSE IF Len(scripts) = 1
  THEN IF scripts[1].is = "list" THEN taproot_tree_helper(scripts[1].of)
       ELSE LET h == TapLeaf(scripts[1].code)
            IN [leaves |-> IF scripts[1].named THEN <<[code |-> scripts[1].code, branch |-> <<>>]>> ELSE <<>>, h |-> h]
  ELSE IF Len(scripts) = 2 /\ scripts[2].is = "function"
  THEN LET left == taproot_tree_helper(SubSeq(scripts, 1, 1))
       IN Joined(left, [leaves |-> <<>>, h |-> left.h + scripts[2].add])
  ELSE LET split_pos == Len(scripts) \div 2
       IN Joined(taproot_tree_helper(SubSeq(scripts, 1, split_pos)),
                 taproot_tree_helper(SubSeq(scripts, split_pos + 1, Len(scripts))))

\* None from tweak_add_pubkey is an error here, and no output is made.
taproot_construct(x, scripts) ==
  LET ret == taproot_tree_helper(scripts)
      tweak == TapTweak(x, ret.h)
      tweaked == tweak_add_pubkey(x, tweak)
  IN [internal |-> x, out |-> tweaked.x, neg |-> tweaked.neg, tweak |-> tweak, leaves |-> ret.leaves]

----------------------------------------------------------------------------
(* Steps. *)

Leaf(n) == [is |-> "leaf", code |-> n, named |-> n # 2]
Leaves(n) == [i \in 1 .. n |-> Leaf(i)]
List(q) == [is |-> "list", of |-> q]
Trees ==
  {Leaves(n) : n \in 0 .. 5}
  \cup {<<List(Leaves(m)), Leaf(3), List(Leaves(n))>> : m \in 1 .. 3, n \in 1 .. 2}
  \cup {<<List(Leaves(n)), [is |-> "function", add |-> a]>> : n \in 1 .. 3, a \in {-1, 0, 1}}
  \cup {<<Leaf(3), List(<<List(Leaves(n)), [is |-> "function", add |-> 2]>>)>> : n \in 1 .. 2}

Nothing == [none |-> TRUE]
KeysInit == key = [step |-> "none", d |-> 0, z |-> 0, sig |-> <<>>, flip |-> FALSE, low_s |-> FALSE,
                   info |-> Nothing, mine |-> <<>>, theirs |-> <<>>]

\* ECKey.generate, generate_privkey
GenerateKey ==
  /\ key.step = "none"
  /\ \E d \in SomeSecrets : key' = [key EXCEPT !.step = "key", !.d = d]

SignEcdsa ==
  /\ key.step = "key"
  /\ \E z \in SomeHashes, k \in 1 .. ORDER - 1, low_s \in BOOLEAN :
       key' = [key EXCEPT !.step = "ecdsa", !.z = z, !.low_s = low_s, !.sig = sign_ecdsa(key.d, z, k, low_s)]

Construct ==
  /\ key.step = "key"
  /\ \E scripts \in Trees :
       LET info == taproot_construct(compute_xonly_pubkey(key.d).x, scripts)
       IN info.out # NoKey.x /\ key' = [key EXCEPT !.step = "taproot", !.info = info]

\* The owner of the internal key signs with the tweaked key.
SignKeyPath ==
  /\ key.step = "taproot"
  /\ \E z \in SomeHashes, k \in SomeSecrets, flip \in BOOLEAN :
       key' = [key EXCEPT !.step = "schnorr", !.z = z, !.flip = flip,
                          !.sig = sign_schnorr(tweak_add_privkey(key.d, key.info.tweak), z, k, flip)]

\* ellswift_create, with the u and the case that xelligatorswift draws.
Encoding(d, u, case) == <<u, AsInt(xswiftec_inv(Times(d, G).x, FE(u), case))>>
Encodes(d, u, case) == xswiftec_inv(Times(d, G).x, FE(u), case) # NoRoot

EllswiftCreate ==
  /\ key.step = "key"
  /\ \E d \in SomeSecrets, u \in 1 .. SIZE - 1, case \in 0 .. 7 :
       /\ Encodes(key.d, u, case) /\ Encodes(d, SIZE - u, 7 - case)
       /\ key' = [key EXCEPT !.step = "ellswift", !.z = d, !.mine = Encoding(key.d, u, case),
                             !.theirs = Encoding(d, SIZE - u, 7 - case)]

KeysNext == GenerateKey \/ SignEcdsa \/ Construct \/ SignKeyPath \/ EllswiftCreate

----------------------------------------------------------------------------
(* Properties. *)

\* Every named leaf of a tree, whatever its shape, can be spent: the branch in
\* its control block hashes to the root that the output key commits to, with the
\* parity that the control block states (BIP341's check, external).
LeafSpends(info, leaf) ==
  LET Step(k, e) == IF e < k THEN TapBranch(e, k) ELSE TapBranch(k, e)
      root == FoldLeft(Step, TapLeaf(leaf.code), leaf.branch)
      Q == Plus(lift_x(FE(info.internal)), FastMul(TapTweak(info.internal, root)))
  IN TapTweak(info.internal, root) < ORDER /\ ~Q.inf /\ Xonly(Q) = [x |-> info.out, neg |-> info.neg]

\* A signature verifies under the public key, which others may only know as the
\* internal key and the tweak, and one made with the wrong nonce sign does not:
\* the owner of the internal key has a key wherever there is an output.
\* Left out: an ECDSA s of 0, which sign_ecdsa does not draw again, and of
\* exactly half the order, which it makes and verify_ecdsa refuses.  An output
\* that taproot_construct makes can be spent by each of its leaves.
SignaturesVerify ==
  /\ key.step = "ecdsa" =>
       LET s == FromDer(SubSeq(key.sig, 7 + key.sig[4], Len(key.sig)))
       IN verify_ecdsa(Times(key.d, G), key.sig, key.z, key.low_s)
            = ~(s = 0 \/ (key.low_s /\ s = ORDER_HALF))
  /\ key.step = "schnorr" => verify_schnorr(key.info.out, key.sig, key.z) = ~key.flip
  /\ key.step = "taproot" => \A i \in DOMAIN key.info.leaves : LeafSpends(key.info, key.info.leaves[i])

\* Two ends that exchange encodings of their keys, each with its own choice of u
\* and case, compute the same secret, and it is on the curve.
EllswiftAgrees ==
  key.step = "ellswift" =>
    LET secret == ellswift_ecdh_xonly(key.theirs, key.d)
    IN secret = ellswift_ecdh_xonly(key.mine, key.z) /\ is_valid_x(FE(secret))
=============================================================================
