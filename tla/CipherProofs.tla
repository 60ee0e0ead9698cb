---------------------------- MODULE CipherProofs ----------------------------
(***************************************************************************)
(* Proofs about PacketCipher, for every interval between changes of key,   *)
(* every size of block, key and length field, all contents and any number  *)
(* of packets.                                                             *)
(***************************************************************************)
EXTENDS PacketCipher, NaturalsInduction, WellFoundedInduction, TLAPS

LEMMA Sizes ==
  /\ REKEY_INTERVAL \in Nat /\ REKEY_INTERVAL > 0
  /\ BLOCK \in Nat /\ BLOCK > 0
  /\ KEY \in Nat /\ KEY > 0 /\ KEY <= BLOCK
  /\ LENGTH_FIELD_LEN \in Nat /\ LENGTH_FIELD_LEN > 0
BY CipherAssumption

(***************************************************************************)
(* Sequences.                                                              *)
(***************************************************************************)
IsSeq(s) == \E T : s \in Seq(T)

LEMMA SeqElements ==
  ASSUME NEW s, IsSeq(s)
  PROVE  DOMAIN s = 1 .. Len(s) /\ Len(s) \in Nat
BY DEF IsSeq

LEMMA FunctionSeq ==
  ASSUME NEW T, NEW m \in Nat, NEW s \in [1 .. m -> T]
  PROVE  s \in Seq(T) /\ Len(s) = m /\ DOMAIN s = 1 .. m
OBVIOUS

\* What the concatenation of two sequences holds; and if neither holds anything
\* twice, nor both the same thing, it holds nothing twice.
LEMMA Concat ==
  ASSUME NEW s, NEW t, IsSeq(s), IsSeq(t)
  PROVE  /\ IsSeq(s \o t)
         /\ ToSet(s \o t) = ToSet(s) \cup ToSet(t)
         /\ IsInjective(s) /\ IsInjective(t) /\ ToSet(s) \cap ToSet(t) = {} => IsInjective(s \o t)
<1>1. PICK T : s \in Seq(T)
  BY DEF IsSeq
<1>2. PICK U : t \in Seq(U)
  BY DEF IsSeq
<1> DEFINE W == T \cup U
           c == s \o t
<1>3. s \in Seq(W) /\ t \in Seq(W)
  BY <1>1, <1>2
<1>4. /\ c \in Seq(W) /\ Len(c) = Len(s) + Len(t)
      /\ \A i \in 1 .. Len(s) : c[i] = s[i]
      /\ \A i \in 1 .. Len(t) : c[Len(s) + i] = t[i]
  BY <1>3
<1>5. /\ DOMAIN c = 1 .. Len(c) /\ DOMAIN s = 1 .. Len(s) /\ DOMAIN t = 1 .. Len(t)
      /\ Len(s) \in Nat /\ Len(t) \in Nat
  BY <1>3, <1>4
<1> HIDE DEF c, W
<1>6. \A i \in 1 .. Len(c) : \/ i \in 1 .. Len(s) /\ c[i] = s[i]
                             \/ i - Len(s) \in 1 .. Len(t) /\ c[i] = t[i - Len(s)]
  <2> TAKE i \in 1 .. Len(c)
  <2>1. i \in 1 .. Len(s) \/ i - Len(s) \in 1 .. Len(t)
    BY <1>4, <1>5
  <2>2. i - Len(s) \in 1 .. Len(t) => c[Len(s) + (i - Len(s))] = t[i - Len(s)]
    BY <1>4
  <2>3. Len(s) + (i - Len(s)) = i
    BY <1>5
  <2> QED BY <1>4, <2>1, <2>2, <2>3
<1>7. ToSet(c) = ToSet(s) \cup ToSet(t)
  <2>1. ToSet(c) \subseteq ToSet(s) \cup ToSet(t)
    BY <1>5, <1>6 DEF ToSet
  <2>2. \A i \in 1 .. Len(t) : Len(s) + i \in 1 .. Len(c)
    BY <1>4, <1>5
  <2>3. \A i \in 1 .. Len(s) : i \in 1 .. Len(c)
    BY <1>4, <1>5
  <2>4. ToSet(s) \cup ToSet(t) \subseteq ToSet(c)
    BY <1>4, <1>5, <2>2, <2>3 DEF ToSet
  <2> QED BY <2>1, <2>4
<1>8. ASSUME IsInjective(s), IsInjective(t), ToSet(s) \cap ToSet(t) = {}
      PROVE  IsInjective(c)
  <2> SUFFICES ASSUME NEW i \in 1 .. Len(c), NEW j \in 1 .. Len(c), c[i] = c[j]
               PROVE  i = j
    BY <1>5 DEF IsInjective
  <2>1. \A a \in 1 .. Len(s), b \in 1 .. Len(t) : s[a] # t[b]
    BY <1>5, <1>8 DEF ToSet
  <2>2. \A a, b \in 1 .. Len(s) : s[a] = s[b] => a = b
    BY <1>5, <1>8 DEF IsInjective
  <2>3. \A a, b \in 1 .. Len(t) : t[a] = t[b] => a = b
    BY <1>5, <1>8 DEF IsInjective
  <2>4. i - Len(s) = j - Len(s) => i = j
    BY <1>4, <1>5
  <2> QED BY <1>6, <2>1, <2>2, <2>3, <2>4
<1> QED BY <1>4, <1>7, <1>8 DEF c, IsSeq

LEMMA Nothing == IsSeq(<<>>) /\ ToSet(<<>>) = {} /\ IsInjective(<<>>)
BY DEF IsSeq, ToSet, IsInjective

(***************************************************************************)
(* Key streams.                                                            *)
(***************************************************************************)
Byte(key, nonce, at) == [key |-> key, nonce |-> nonce, at |-> at]

LEMMA StreamHolds ==
  ASSUME NEW k, NEW n, NEW f \in Nat, NEW m \in Nat
  PROVE  /\ IsSeq(Stream(k, n, f, m)) /\ Len(Stream(k, n, f, m)) = m
         /\ IsInjective(Stream(k, n, f, m))
         /\ m > 0 => Stream(k, n, f, m)[1] = Byte(k, n, f)
<1> DEFINE s == Stream(k, n, f, m)
<1>1. s = [i \in 1 .. m |-> Byte(k, n, f + i - 1)]
  BY DEF Stream, Byte
<1> HIDE DEF s
<1>2. s \in Seq({Byte(k, n, f + i - 1) : i \in 1 .. m}) /\ Len(s) = m /\ DOMAIN s = 1 .. m
  <2>1. s \in [1 .. m -> {Byte(k, n, f + i - 1) : i \in 1 .. m}]
    BY <1>1
  <2> QED BY <2>1, FunctionSeq, Zenon
<1>3. \A a, b : Byte(k, n, a) = Byte(k, n, b) => a = b
  BY DEF Byte
<1>4. IsInjective(s)
  <2> SUFFICES ASSUME NEW i \in 1 .. m, NEW j \in 1 .. m, s[i] = s[j] PROVE i = j
    BY <1>2 DEF IsInjective
  <2>1. f + i - 1 = f + j - 1
    BY <1>1, <1>3
  <2> QED BY <2>1
<1>5. m > 0 => s[1] = Byte(k, n, f)
  <2>1. f + 1 - 1 = f /\ (m > 0 => 1 \in 1 .. m)
    OBVIOUS
  <2> QED BY <1>1, <2>1
<1> QED BY <1>2, <1>4, <1>5 DEF s, IsSeq

(***************************************************************************)
(* The length cipher after n chunks: b blocks of the key's stream are      *)
(* made, and all but the first pos bytes of them are held.                 *)
(***************************************************************************)
Epoch(n) == n \div REKEY_INTERVAL
LengthNonce(n) == <<0, Epoch(n)>>
LengthAt(key, n, b, pos) ==
  [key |-> key, block_counter |-> b, chunk_counter |-> n,
   keystream |-> Stream(key, LengthNonce(n), pos, b * BLOCK - pos)]
Reach(b, pos) == pos <= b * BLOCK

\* The packets of a key are numbered from 0; after REKEY_INTERVAL of them comes
\* the next key.
LEMMA Epochs ==
  ASSUME NEW n \in Nat
  PROVE  /\ Epoch(n) \in Nat /\ n % REKEY_INTERVAL \in Nat
         /\ (n + 1) % REKEY_INTERVAL = 0 => Epoch(n + 1) = Epoch(n) + 1
         /\ (n + 1) % REKEY_INTERVAL # 0 =>
              /\ Epoch(n + 1) = Epoch(n)
              /\ (n + 1) % REKEY_INTERVAL = (n % REKEY_INTERVAL) + 1
BY Sizes DEF Epoch

LEMMA MinIn ==
  ASSUME NEW n \in Nat, NEW S, S \subseteq 0 .. n, S # {}
  PROVE  Min(S) \in S
<1> DEFINE R == {p \in Nat \X Nat : p[1] < p[2]}
<1>1. IsWellFoundedOn(R, Nat)
  BY NatLessThanWellFounded DEF OpToRel
<1> HIDE DEF R
<1>2. S \subseteq Nat
  OBVIOUS
<1>3. PICK x \in S : \A y \in S : <<y, x>> \notin R
  BY <1>1, <1>2, WFMin
<1>4. \A y \in S : x =< y
  <2> TAKE y \in S
  <2>1. x \in Nat /\ y \in Nat /\ <<y, x>> \notin R
    BY <1>2, <1>3
  <2>2. y < x => <<y, x>> \in R
    BY <2>1 DEF R
  <2> QED BY <2>1, <2>2
<1> QED BY <1>4 DEF Min

LEMMA FilledAt ==
  ASSUME NEW key, NEW n \in Nat, NEW b \in Nat, NEW pos \in Nat, Reach(b, pos),
         NEW m \in Nat
  PROVE  \E c \in Nat : /\ Reach(c, pos) /\ pos + m <= c * BLOCK
                       /\ Filled(LengthAt(key, n, b, pos), m) = LengthAt(key, n, c, pos)
<1> DEFINE have == b * BLOCK - pos
           S == {k \in 0 .. m : have + k * BLOCK >= m}
           k == Min(S)
           ks == Stream(key, LengthNonce(n), pos, have)
           more == Stream(key, LengthNonce(n), b * BLOCK, k * BLOCK)
<1>1. have \in Nat /\ b \in Nat /\ pos \in Nat /\ b * BLOCK \in Nat
  BY Sizes DEF Reach
<1>2. k \in S
  <2>1. have + m * BLOCK >= m
    BY <1>1, Sizes
  <2>2. m \in S
    BY <2>1
  <2> HIDE DEF S
  <2>3. S \subseteq 0 .. m
    BY DEF S
  <2> QED BY <2>2, <2>3, MinIn
<1>3. Len(ks) = have
  BY <1>1, StreamHolds
<1>4. Filled(LengthAt(key, n, b, pos), m) =
        [key |-> key, block_counter |-> b + k, chunk_counter |-> n, keystream |-> ks \o more]
  <2> DEFINE c == LengthAt(key, n, b, pos)
  <2>1. c.keystream = ks /\ c.key = key /\ c.block_counter = b /\ c.chunk_counter = n
    BY DEF LengthAt
  <2>2. {j \in 0 .. m : Len(c.keystream) + j * BLOCK >= m} = S
    BY <1>3, <2>1
  <2>3. Filled(c, m) = [c EXCEPT !.keystream = @ \o more, !.block_counter = @ + k]
    BY <2>1, <2>2 DEF Filled, LengthNonce, Epoch
  <2> HIDE DEF k, more
  <2> QED BY <2>3 DEF LengthAt
<1> HIDE DEF k
<1>5. k \in Nat /\ k * BLOCK \in Nat /\ have + k * BLOCK >= m
  BY <1>2, Sizes
<1>6. pos + have = b * BLOCK
  BY <1>1
<1>7. ks \o more = Stream(key, LengthNonce(n), pos, have + k * BLOCK)
  <2>1. \A h, e, x : h \in Nat /\ x \in Nat /\ e = pos + h =>
          Stream(key, LengthNonce(n), pos, h) \o Stream(key, LengthNonce(n), e, x)
            = Stream(key, LengthNonce(n), pos, h + x)
    <3> TAKE h, e, x
    <3> HAVE h \in Nat /\ x \in Nat /\ e = pos + h
    <3> QED BY <1>1 DEF Stream
  <2> QED BY <1>1, <1>5, <1>6, <2>1, Zenon
<1>8. /\ (b + k) * BLOCK = b * BLOCK + k * BLOCK
      /\ have + k * BLOCK = (b + k) * BLOCK - pos
      /\ pos + m <= (b + k) * BLOCK /\ pos <= (b + k) * BLOCK
  BY <1>1, <1>5, Sizes
<1>9. Filled(LengthAt(key, n, b, pos), m) = LengthAt(key, n, b + k, pos)
  BY <1>4, <1>7, <1>8 DEF LengthAt
<1> QED BY <1>1, <1>5, <1>8, <1>9 DEF Reach

LEMMA TakenAt ==
  ASSUME NEW key, NEW n \in Nat, NEW b \in Nat, NEW pos \in Nat, Reach(b, pos),
         NEW m \in Nat
  PROVE  /\ Taken(LengthAt(key, n, b, pos), m).bytes = Stream(key, LengthNonce(n), pos, m)
         /\ \E c \in Nat : /\ Reach(c, pos + m)
                          /\ Taken(LengthAt(key, n, b, pos), m).c = LengthAt(key, n, c, pos + m)
<1>1. PICK c \in Nat : /\ Reach(c, pos) /\ pos + m <= c * BLOCK
                      /\ Filled(LengthAt(key, n, b, pos), m) = LengthAt(key, n, c, pos)
  BY FilledAt
<1> DEFINE N == LengthNonce(n)
           h == c * BLOCK - pos
           ks == Stream(key, N, pos, h)
           f == LengthAt(key, n, c, pos)
<1>2. h \in Nat /\ m <= h /\ pos \in Nat /\ c \in Nat /\ h - m = c * BLOCK - (pos + m)
  BY <1>1, Sizes DEF Reach
<1>3. f = [key |-> key, block_counter |-> c, chunk_counter |-> n, keystream |-> ks]
  BY DEF LengthAt
<1>4. LengthAt(key, n, c, pos + m) = [key |-> key, block_counter |-> c, chunk_counter |-> n,
                                      keystream |-> Stream(key, N, pos + m, h - m)]
  BY <1>2, Zenon DEF LengthAt
<1> HIDE DEF h, N
<1>5. /\ Len(ks) = h
      /\ SubSeq(ks, 1, m) = Stream(key, N, pos, m)
      /\ SubSeq(ks, m + 1, h) = Stream(key, N, pos + m, h - m)
  <2>1. Len(ks) = h
    BY <1>2, StreamHolds
  <2>2. /\ SubSeq(ks, 1, m) = Stream(key, N, pos, m)
        /\ SubSeq(ks, m + 1, h) = Stream(key, N, pos + m, h - m)
    BY <1>2 DEF Stream
  <2> QED BY <2>1, <2>2
<1>6. Taken(LengthAt(key, n, b, pos), m) =
        [bytes |-> SubSeq(f.keystream, 1, m), c |-> [f EXCEPT !.keystream = SubSeq(@, m + 1, Len(@))]]
  BY <1>1, Zenon DEF Taken
<1> HIDE DEF f, ks
<1>7. f.keystream = ks
  BY <1>3
<1>8. [f EXCEPT !.keystream = SubSeq(@, m + 1, Len(@))] = LengthAt(key, n, c, pos + m)
  <2>1. \A x : [f EXCEPT !.keystream = x]
                = [key |-> key, block_counter |-> c, chunk_counter |-> n, keystream |-> x]
    BY <1>3
  <2> QED BY <1>4, <1>5, <1>7, <2>1, Zenon
<1>9. Reach(c, pos + m)
  BY <1>1, <1>2 DEF Reach
<1> QED BY <1>5, <1>6, <1>7, <1>8, <1>9 DEF N

NextKey(key, n, b, pos) ==
  /\ Taken(LengthAt(key, n, b, pos), KEY).bytes = Stream(key, LengthNonce(n), pos, KEY)
  /\ \E c \in Nat : Taken(LengthAt(key, n, b, pos), KEY).c = LengthAt(key, n, c, pos + KEY)

LEMMA KeyTaken ==
  ASSUME NEW key, NEW n \in Nat, NEW b \in Nat, NEW pos \in Nat, Reach(b, pos)
  PROVE  NextKey(key, n, b, pos)
BY Sizes, TakenAt DEF NextKey

Restart(z, x, e) ==
  [[z EXCEPT !.key = x, !.block_counter = 0, !.keystream = e] EXCEPT !.chunk_counter = @ + 1]

LEMMA Restarted ==
  ASSUME NEW k, NEW b, NEW n, NEW y, NEW x, NEW e,
         NEW z, z = [key |-> k, block_counter |-> b, chunk_counter |-> n, keystream |-> y]
  PROVE  Restart(z, x, e) = [key |-> x, block_counter |-> 0, chunk_counter |-> n + 1, keystream |-> e]
<1> DEFINE R(q, v, t) == [key |-> q, block_counter |-> v, chunk_counter |-> n, keystream |-> t]
<1>1. [R(k, b, y) EXCEPT !.key = x] = R(x, b, y)
  OBVIOUS
<1>2. [R(x, b, y) EXCEPT !.block_counter = 0] = R(x, 0, y)
  OBVIOUS
<1>3. [R(x, 0, y) EXCEPT !.keystream = e] = R(x, 0, e)
  OBVIOUS
<1>4. [R(k, b, y) EXCEPT !.key = x, !.block_counter = 0, !.keystream = e] = R(x, 0, e)
  BY <1>1, <1>2, <1>3, Zenon
<1>5. [R(x, 0, e) EXCEPT !.chunk_counter = @ + 1]
        = [key |-> x, block_counter |-> 0, chunk_counter |-> n + 1, keystream |-> e]
  OBVIOUS
<1> QED BY <1>4, <1>5, Zenon DEF Restart

\* crypt takes the next bytes of the stream; a new key starts its own.
LengthCrypt(r, key, n, pos, m) ==
  /\ r.ks = Stream(key, LengthNonce(n), pos, m)
  /\ (n + 1) % REKEY_INTERVAL = 0 =>
       /\ r.rekeyed = Stream(key, LengthNonce(n), pos + m, KEY)
       /\ r.c = LengthAt([from |-> Byte(key, LengthNonce(n), pos + m)], n + 1, 0, 0)
  /\ (n + 1) % REKEY_INTERVAL # 0 =>
       /\ r.rekeyed = <<>>
       /\ \E c \in Nat : Reach(c, pos + m) /\ r.c = LengthAt(key, n + 1, c, pos + m)

LEMMA CryptAt ==
  ASSUME NEW key, NEW n \in Nat, NEW b \in Nat, NEW pos \in Nat, Reach(b, pos),
         NEW m \in Nat, NEW r, r = crypt(LengthAt(key, n, b, pos), m)
  PROVE  LengthCrypt(r, key, n, pos, m)
<1> DEFINE C == LengthAt(key, n, b, pos)
           N == LengthNonce(n)
           ks == Taken(C, m)
           next == Taken(ks.c, KEY)
<1>1. PICK c \in Nat : Reach(c, pos + m) /\ ks.c = LengthAt(key, n, c, pos + m)
  BY TakenAt
<1>2. ks.bytes = Stream(key, N, pos, m)
  BY TakenAt
<1>3. next = Taken(LengthAt(key, n, c, pos + m), KEY)
  BY <1>1
<1>4. C.chunk_counter = n
  BY DEF LengthAt
<1>5. r =
        [ks |-> ks.bytes,
         rekeyed |-> IF (n + 1) % REKEY_INTERVAL = 0 THEN next.bytes ELSE <<>>,
         c |-> [(IF (n + 1) % REKEY_INTERVAL = 0
                 THEN [next.c EXCEPT !.key = KeyFrom(next.bytes), !.block_counter = 0, !.keystream = <<>>]
                 ELSE ks.c) EXCEPT !.chunk_counter = @ + 1]]
  BY <1>4 DEF crypt
<1> HIDE DEF ks, next, C
<1>6. /\ \E d \in Nat : next.c = LengthAt(key, n, d, pos + m + KEY)
      /\ next.bytes = Stream(key, N, pos + m, KEY)
  <2>1. pos + m \in Nat
    OBVIOUS
  <2> HIDE DEF N
  <2>2. \A p \in Nat : Reach(c, p) => NextKey(key, n, c, p)
    BY KeyTaken, Zenon
  <2>3. NextKey(key, n, c, pos + m)
    BY <1>1, <2>1, <2>2, Zenon
  <2> QED BY <1>3, <2>3 DEF NextKey, N
<1>7. PICK d : next.c = LengthAt(key, n, d, pos + m + KEY)
  BY <1>6
<1>8. /\ r.ks = ks.bytes
      /\ (n + 1) % REKEY_INTERVAL = 0 =>
           /\ r.rekeyed = next.bytes
           /\ r.c = Restart(next.c, KeyFrom(next.bytes), <<>>)
      /\ (n + 1) % REKEY_INTERVAL # 0 =>
           r.rekeyed = <<>> /\ r.c = [ks.c EXCEPT !.chunk_counter = @ + 1]
  <2>1. /\ r.ks = ks.bytes
        /\ r.rekeyed = IF (n + 1) % REKEY_INTERVAL = 0 THEN next.bytes ELSE <<>>
        /\ r.c = [(IF (n + 1) % REKEY_INTERVAL = 0
                   THEN [next.c EXCEPT !.key = KeyFrom(next.bytes), !.block_counter = 0, !.keystream = <<>>]
                   ELSE ks.c) EXCEPT !.chunk_counter = @ + 1]
    BY <1>5
  <2>2. CASE (n + 1) % REKEY_INTERVAL = 0
    BY <2>1, <2>2 DEF Restart
  <2>3. CASE (n + 1) % REKEY_INTERVAL # 0
    BY <2>1, <2>3
  <2> QED BY <2>2, <2>3
<1>9. pos + m \in Nat
  OBVIOUS
<1>10. CASE (n + 1) % REKEY_INTERVAL = 0
  <2>1. KeyFrom(next.bytes) = [from |-> Byte(key, N, pos + m)]
    BY <1>6, <1>9, Sizes, StreamHolds DEF KeyFrom
  <2>2. \A x, y : Stream(x, y, 0, 0 * BLOCK - 0) = <<>>
    BY Sizes DEF Stream
  <2>3. \A x : LengthAt(x, n + 1, 0, 0)
                = [key |-> x, block_counter |-> 0, chunk_counter |-> n + 1, keystream |-> <<>>]
    BY <2>2, Zenon DEF LengthAt
  <2>4. PICK y : next.c = [key |-> key, block_counter |-> d, chunk_counter |-> n, keystream |-> y]
    BY <1>7, Zenon DEF LengthAt
  <2>5. \A x : Restart(next.c, x, <<>>) = LengthAt(x, n + 1, 0, 0)
    <3> TAKE x
    <3>1. Restart(next.c, x, <<>>)
            = [key |-> x, block_counter |-> 0, chunk_counter |-> n + 1, keystream |-> <<>>]
      BY <2>4, Restarted, SMT
    <3> QED BY <2>3, <3>1, Zenon
  <2>6. r.c = LengthAt([from |-> Byte(key, N, pos + m)], n + 1, 0, 0)
    BY <1>8, <1>10, <2>1, <2>5, Zenon
  <2>7. r.ks = Stream(key, N, pos, m) /\ r.rekeyed = Stream(key, N, pos + m, KEY)
    BY <1>2, <1>6, <1>8, <1>10
  <2> QED BY <1>10, <2>6, <2>7 DEF LengthCrypt
<1>11. CASE (n + 1) % REKEY_INTERVAL # 0
  <2>1. LengthNonce(n + 1) = N
    BY <1>11, Epochs DEF LengthNonce
  <2>2. [ks.c EXCEPT !.chunk_counter = @ + 1] = LengthAt(key, n + 1, c, pos + m)
    BY <1>1, <2>1 DEF LengthAt
  <2> QED BY <1>1, <1>2, <1>8, <1>11, <2>2 DEF LengthCrypt
<1> QED BY <1>10, <1>11

(***************************************************************************)
(* What one packet uses.                                                   *)
(***************************************************************************)
\* The bytes that were used before packet n: of earlier keys, those of the
\* length cipher before pos, and the nonces of earlier packets.
Spent(u, lk, pk, n, pos) ==
  \/ u.nonce[2] < Epoch(n)
  \/ /\ u.nonce[2] = Epoch(n)
     /\ \/ u.key = lk /\ u.at < pos
        \/ u.key = pk /\ u.nonce[1] \in 0 .. (n % REKEY_INTERVAL) - 1
IsByte(u) == u.nonce[1] \in Int /\ u.nonce[2] \in Nat /\ u.at \in Nat

Piece(u, k, x, e, f, m) ==
  IsByte(u) /\ u.key = k /\ u.nonce[1] = x /\ u.nonce[2] = e /\ u.at >= f /\ u.at < f + m

LEMMA StreamBytes ==
  ASSUME NEW k, NEW x \in Int, NEW e \in Nat, NEW f \in Nat, NEW m \in Nat,
         NEW u \in ToSet(Stream(k, <<x, e>>, f, m))
  PROVE  Piece(u, k, x, e, f, m)
<1> DEFINE N == <<x, e>>
<1>1. PICK i \in 1 .. m : u = [key |-> k, nonce |-> N, at |-> f + i - 1]
  BY Zenon DEF ToSet, Stream
<1>2. N[1] = x /\ N[2] = e
  OBVIOUS
<1> HIDE DEF N
<1>3. u.key = k /\ u.nonce = N /\ u.at = f + i - 1
  BY <1>1
<1>4. f + i - 1 \in Nat /\ f + i - 1 >= f /\ f + i - 1 < f + m
  OBVIOUS
<1> QED BY <1>2, <1>3, <1>4 DEF Piece, IsByte

\* Two pieces of key stream have nothing in common if their keys differ, or
\* their nonces, or one ends before the other begins.
LEMMA Apart ==
  ASSUME NEW k, NEW x \in Int, NEW f \in Nat, NEW m \in Nat,
         NEW j, NEW y \in Int, NEW g \in Nat, NEW o \in Nat, NEW e \in Nat,
         k # j \/ x # y \/ f + m <= g \/ g + o <= f
  PROVE  ToSet(Stream(k, <<x, e>>, f, m)) \cap ToSet(Stream(j, <<y, e>>, g, o)) = {}
<1> SUFFICES ASSUME NEW u \in ToSet(Stream(k, <<x, e>>, f, m)),
                    u \in ToSet(Stream(j, <<y, e>>, g, o))
             PROVE  FALSE
  OBVIOUS
<1>1. Piece(u, k, x, e, f, m)
  BY StreamBytes, Zenon
<1>2. Piece(u, j, y, e, g, o)
  BY StreamBytes, Zenon
<1> QED BY <1>1, <1>2 DEF Piece, IsByte

\* What packet n takes was not used before it.
LEMMA NotSpent ==
  ASSUME NEW lk, NEW pk, lk # pk, NEW n \in Nat, NEW pos \in Nat,
         NEW S, \A u \in S : IsByte(u) /\ Spent(u, lk, pk, n, pos),
         NEW m \in Nat, NEW f \in Nat, NEW x \in Int
  PROVE  /\ f >= pos => S \cap ToSet(Stream(lk, <<x, Epoch(n)>>, f, m)) = {}
         /\ x \notin 0 .. (n % REKEY_INTERVAL) - 1
              => S \cap ToSet(Stream(pk, <<x, Epoch(n)>>, f, m)) = {}
<1>1. Epoch(n) \in Nat /\ n % REKEY_INTERVAL \in Nat
  BY Epochs
<1>2. ASSUME f >= pos, NEW u \in S, u \in ToSet(Stream(lk, <<x, Epoch(n)>>, f, m)) PROVE FALSE
  <2>1. Piece(u, lk, x, Epoch(n), f, m)
    BY <1>1, <1>2, StreamBytes, Zenon
  <2>2. IsByte(u) /\ Spent(u, lk, pk, n, pos)
    OBVIOUS
  <2> QED BY <1>1, <1>2, <2>1, <2>2 DEF Spent, Piece, IsByte
<1>3. ASSUME x \notin 0 .. (n % REKEY_INTERVAL) - 1, NEW u \in S,
             u \in ToSet(Stream(pk, <<x, Epoch(n)>>, f, m))
      PROVE  FALSE
  <2>1. Piece(u, pk, x, Epoch(n), f, m)
    BY <1>1, <1>3, StreamBytes, Zenon
  <2>2. IsByte(u) /\ Spent(u, lk, pk, n, pos)
    OBVIOUS
  <2> QED BY <1>1, <1>3, <2>1, <2>2 DEF Spent, Piece, IsByte
<1> QED BY <1>2, <1>3

\* The same for the content cipher as CryptAt says for the length cipher.
ContentAt(key, n) == [key |-> key, packet_counter |-> n]

ContentCrypt(r, key, n, m) ==
  /\ r.ks = Stream(key, <<n % REKEY_INTERVAL, Epoch(n)>>, BLOCK, m)
  /\ r.poly = Stream(key, <<n % REKEY_INTERVAL, Epoch(n)>>, 0, KEY)
  /\ (n + 1) % REKEY_INTERVAL = 0 =>
       /\ r.rekeyed = Stream(key, <<-1, Epoch(n)>>, BLOCK, KEY) \o Stream(key, <<-1, Epoch(n)>>, 0, KEY)
       /\ r.c = ContentAt([from |-> Byte(key, <<-1, Epoch(n)>>, BLOCK)], n + 1)
  /\ (n + 1) % REKEY_INTERVAL # 0 => r.rekeyed = <<>> /\ r.c = ContentAt(key, n + 1)

LEMMA ContentCryptAt ==
  ASSUME NEW key, NEW n \in Nat, NEW m \in Nat, NEW r, r = _crypt(ContentAt(key, n), m)
  PROVE  ContentCrypt(r, key, n, m)
<1> DEFINE c == ContentAt(key, n)
<1>1. c.key = key /\ c.packet_counter = n
  BY DEF ContentAt
<1>2. RekeyNonce(c) = <<-1, Epoch(n)>>
  BY <1>1 DEF RekeyNonce, Rekeying, Epoch
<1> DEFINE next == Stream(key, <<-1, Epoch(n)>>, BLOCK, KEY)
           poly == Stream(key, <<-1, Epoch(n)>>, 0, KEY)
<1>3. r = [ks |-> Stream(key, <<n % REKEY_INTERVAL, Epoch(n)>>, BLOCK, m),
           poly |-> Stream(key, <<n % REKEY_INTERVAL, Epoch(n)>>, 0, KEY),
           rekeyed |-> IF (n + 1) % REKEY_INTERVAL = 0 THEN next \o poly ELSE <<>>,
           c |-> ContentAt(IF (n + 1) % REKEY_INTERVAL = 0 THEN KeyFrom(next) ELSE key, n + 1)]
  <2> HIDE DEF c
  <2> QED BY <1>1, <1>2 DEF _crypt, AeadStream, PolyKey, Epoch, ContentAt, c
<1>4. KeyFrom(next) = [from |-> Byte(key, <<-1, Epoch(n)>>, BLOCK)]
  BY Sizes, StreamHolds DEF KeyFrom
<1> DEFINE both == next \o poly
<1>5. r = [ks |-> Stream(key, <<n % REKEY_INTERVAL, Epoch(n)>>, BLOCK, m),
           poly |-> Stream(key, <<n % REKEY_INTERVAL, Epoch(n)>>, 0, KEY),
           rekeyed |-> IF (n + 1) % REKEY_INTERVAL = 0 THEN both ELSE <<>>,
           c |-> ContentAt(IF (n + 1) % REKEY_INTERVAL = 0 THEN KeyFrom(next) ELSE key, n + 1)]
  BY <1>3
<1> HIDE DEF both, next
<1>6. /\ r.ks = Stream(key, <<n % REKEY_INTERVAL, Epoch(n)>>, BLOCK, m)
      /\ r.poly = Stream(key, <<n % REKEY_INTERVAL, Epoch(n)>>, 0, KEY)
      /\ (n + 1) % REKEY_INTERVAL = 0 => r.rekeyed = both /\ r.c = ContentAt(KeyFrom(next), n + 1)
      /\ (n + 1) % REKEY_INTERVAL # 0 => r.rekeyed = <<>> /\ r.c = ContentAt(key, n + 1)
  BY <1>5
<1> QED BY <1>4, <1>6, Zenon DEF both, next, ContentCrypt

\* u has been used, nothing of it twice, and packet n comes.
Once(u, lk, pk, n, pos) ==
  /\ IsSeq(u) /\ IsInjective(u)
  /\ \A x \in ToSet(u) : IsByte(x) /\ Spent(x, lk, pk, n, pos)

LEMMA SendOnce ==
  ASSUME NEW lk, NEW pk, lk # pk, NEW n \in Nat, NEW pos \in Nat, NEW m \in Nat,
         NEW l, LengthCrypt(l, lk, n, pos, LENGTH_FIELD_LEN),
         NEW p, ContentCrypt(p, pk, n, m),
         NEW u, Once(u, lk, pk, n, pos)
  PROVE  \E lk2, pk2 : \E b2, pos2 \in Nat :
           /\ lk2 # pk2 /\ Reach(b2, pos2)
           /\ l.c = LengthAt(lk2, n + 1, b2, pos2) /\ p.c = ContentAt(pk2, n + 1)
           /\ Once(u \o l.ks \o l.rekeyed \o p.ks \o p.poly \o p.rekeyed, lk2, pk2, n + 1, pos2)
<1> DEFINE LF == LENGTH_FIELD_LEN
           e == Epoch(n)
           r == n % REKEY_INTERVAL
           A == Stream(lk, <<0, e>>, pos, LF)
           B == Stream(lk, <<0, e>>, pos + LF, KEY)
           C == Stream(pk, <<r, e>>, BLOCK, m)
           D == Stream(pk, <<r, e>>, 0, KEY)
           E == Stream(pk, <<-1, e>>, BLOCK, KEY)
           F == Stream(pk, <<-1, e>>, 0, KEY)
           last == (n + 1) % REKEY_INTERVAL = 0
<1>1. e \in Nat /\ r \in Nat /\ LF \in Nat /\ KEY \in Nat /\ BLOCK \in Nat /\ KEY <= BLOCK /\ pos + LF \in Nat
      /\ r \notin 0 .. r - 1 /\ -1 \notin 0 .. r - 1 /\ -1 # r /\ -1 \in Int /\ 0 \in Int /\ 0 \in Nat
      /\ r \in Int /\ pos >= pos /\ pos + LF >= pos
  BY Sizes, Epochs
<1>2. IsSeq(u) /\ IsInjective(u) /\ \A x \in ToSet(u) : IsByte(x) /\ Spent(x, lk, pk, n, pos)
  BY DEF Once
<1>3. /\ l.ks = A
      /\ last => l.rekeyed = B /\ l.c = LengthAt([from |-> Byte(lk, <<0, e>>, pos + LF)], n + 1, 0, 0)
      /\ ~last => l.rekeyed = <<>>
                  /\ \E c \in Nat : Reach(c, pos + LF) /\ l.c = LengthAt(lk, n + 1, c, pos + LF)
  BY Zenon DEF LengthCrypt, LengthNonce
<1>4. /\ p.ks = C /\ p.poly = D
      /\ last => p.rekeyed = E \o F /\ p.c = ContentAt([from |-> Byte(pk, <<-1, e>>, BLOCK)], n + 1)
      /\ ~last => p.rekeyed = <<>> /\ p.c = ContentAt(pk, n + 1)
  BY Zenon DEF ContentCrypt
<1>5. \A s \in {A, B, C, D, E, F} : IsSeq(s) /\ IsInjective(s)
  <2>1. IsSeq(A) /\ IsInjective(A) /\ IsSeq(B) /\ IsInjective(B)
    BY <1>1, StreamHolds, Zenon
  <2>2. IsSeq(C) /\ IsInjective(C) /\ IsSeq(D) /\ IsInjective(D)
    BY <1>1, StreamHolds, Zenon
  <2>3. IsSeq(E) /\ IsInjective(E) /\ IsSeq(F) /\ IsInjective(F)
    BY <1>1, StreamHolds, Zenon
  <2> QED BY <2>1, <2>2, <2>3, Zenon
<1>6. \A s \in {A, B, C, D, E, F} : ToSet(u) \cap ToSet(s) = {}
  <2>a. ToSet(u) \cap ToSet(A) = {}
    BY <1>1, <1>2, NotSpent, ZenonT(30)
  <2>b. ToSet(u) \cap ToSet(B) = {}
    BY <1>1, <1>2, NotSpent, ZenonT(30)
  <2>c. ToSet(u) \cap ToSet(C) = {}
    BY <1>1, <1>2, NotSpent, ZenonT(30)
  <2>d. ToSet(u) \cap ToSet(D) = {}
    BY <1>1, <1>2, NotSpent, ZenonT(30)
  <2>e. ToSet(u) \cap ToSet(E) = {}
    BY <1>1, <1>2, NotSpent, ZenonT(30)
  <2>f. ToSet(u) \cap ToSet(F) = {}
    BY <1>1, <1>2, NotSpent, ZenonT(30)
  <2> QED BY <2>a, <2>b, <2>c, <2>d, <2>e, <2>f
<1>7. /\ ToSet(A) \cap ToSet(B) = {}
      /\ \A s \in {A, B}, t \in {C, D, E, F} : ToSet(s) \cap ToSet(t) = {}
      /\ \A s \in {C, D}, t \in {E, F} : ToSet(s) \cap ToSet(t) = {}
      /\ ToSet(C) \cap ToSet(D) = {} /\ ToSet(E) \cap ToSet(F) = {}
  <2>1. ToSet(A) \cap ToSet(B) = {}
    BY <1>1, Apart
  <2>2. \A s \in {A, B}, t \in {C, D, E, F} : ToSet(s) \cap ToSet(t) = {}
    BY <1>1, Apart
  <2>3. \A s \in {C, D}, t \in {E, F} : ToSet(s) \cap ToSet(t) = {}
    BY <1>1, Apart
  <2>4. ToSet(C) \cap ToSet(D) = {}
    BY <1>1, Apart
  <2>5. ToSet(E) \cap ToSet(F) = {}
    BY <1>1, Apart
  <2> QED BY <2>1, <2>2, <2>3, <2>4, <2>5
<1> DEFINE G == l.rekeyed
           H == p.rekeyed
<1>8. IsSeq(G) /\ IsInjective(G) /\ ToSet(G) \subseteq ToSet(B)
  <2>1. CASE last
    BY <1>3, <1>5, <2>1
  <2>2. CASE ~last
    BY <1>3, <2>2, Nothing
  <2> QED BY <2>1, <2>2
<1>9. IsSeq(H) /\ IsInjective(H) /\ ToSet(H) \subseteq ToSet(E) \cup ToSet(F)
  <2>1. CASE last
    <3> DEFINE EF == E \o F
    <3>1. IsSeq(E) /\ IsSeq(F) /\ IsInjective(E) /\ IsInjective(F) /\ ToSet(E) \cap ToSet(F) = {}
      BY <1>5, <1>7, Zenon
    <3>2. p.rekeyed = EF
      BY <1>4, <2>1, Zenon
    <3> HIDE DEF E, F
    <3>3. IsSeq(EF) /\ IsInjective(EF) /\ ToSet(EF) = ToSet(E) \cup ToSet(F)
      BY <3>1, Concat
    <3> HIDE DEF EF
    <3> QED BY <3>2, <3>3
  <2>2. CASE ~last
    BY <1>4, <2>2, Nothing
  <2> QED BY <2>1, <2>2
<1> DEFINE s1 == u \o A
           s2 == s1 \o G
           s3 == s2 \o C
           s4 == s3 \o D
           w == s4 \o H
<1>10. u \o l.ks \o l.rekeyed \o p.ks \o p.poly \o p.rekeyed = w
  BY <1>3, <1>4, Zenon
<1>11. \A s \in {A, C, D} : IsSeq(s) /\ IsInjective(s)
  BY <1>5
<1>12. /\ \A s \in {A, G, C, D, H} : ToSet(u) \cap ToSet(s) = {}
       /\ ToSet(A) \cap ToSet(G) = {}
       /\ \A s \in {A, G}, t \in {C, D, H} : ToSet(s) \cap ToSet(t) = {}
       /\ ToSet(C) \cap ToSet(D) = {}
       /\ ToSet(C) \cap ToSet(H) = {} /\ ToSet(D) \cap ToSet(H) = {}
  <2> HIDE DEF A, B, C, D, E, F, G, H
  <2> QED BY <1>6, <1>7, <1>8, <1>9
<1> HIDE DEF A, B, C, D, E, F, G, H
<1>13. /\ IsSeq(s1) /\ IsInjective(s1) /\ ToSet(s1) = ToSet(u) \cup ToSet(A)
  <2>1. ToSet(u) \cap ToSet(A) = {}
    BY <1>12
  <2> QED BY <1>2, <1>11, <2>1, Concat
<1> HIDE DEF s1
<1>14. /\ IsSeq(s2) /\ IsInjective(s2) /\ ToSet(s2) = ToSet(u) \cup ToSet(A) \cup ToSet(G)
  <2>1. ToSet(s1) \cap ToSet(G) = {}
    BY <1>12, <1>13
  <2> QED BY <1>8, <1>13, <2>1, Concat
<1> HIDE DEF s2
<1>15. /\ IsSeq(s3) /\ IsInjective(s3)
       /\ ToSet(s3) = ToSet(u) \cup ToSet(A) \cup ToSet(G) \cup ToSet(C)
  <2>1. ToSet(s2) \cap ToSet(C) = {}
    BY <1>12, <1>14
  <2> QED BY <1>11, <1>14, <2>1, Concat
<1> HIDE DEF s3
<1>16. /\ IsSeq(s4) /\ IsInjective(s4)
       /\ ToSet(s4) = ToSet(u) \cup ToSet(A) \cup ToSet(G) \cup ToSet(C) \cup ToSet(D)
  <2>1. ToSet(s3) \cap ToSet(D) = {}
    BY <1>12, <1>15
  <2> QED BY <1>11, <1>15, <2>1, Concat
<1> HIDE DEF s4
<1>17. /\ IsSeq(w) /\ IsInjective(w)
       /\ ToSet(w) = ToSet(u) \cup ToSet(A) \cup ToSet(G) \cup ToSet(C) \cup ToSet(D) \cup ToSet(H)
  <2>1. ToSet(s4) \cap ToSet(H) = {}
    BY <1>12, <1>16
  <2> QED BY <1>9, <1>16, <2>1, Concat
<1> HIDE DEF w
\* All of it is spent when packet n + 1 comes.
<1>18. ASSUME NEW x \in ToSet(w)
       PROVE  /\ IsByte(x)
              /\ \/ Spent(x, lk, pk, n, pos)
                 \/ x.nonce[2] = e /\ x.key = lk /\ x.at < pos + LF
                 \/ x.nonce[2] = e /\ x.key = pk /\ x.nonce[1] = r
                 \/ x.nonce[2] = e /\ last
  <2>1. CASE x \in ToSet(u)
    BY <1>2, <2>1
  <2>2. CASE x \in ToSet(A)
    <3>1. Piece(x, lk, 0, e, pos, LF)
      BY <1>1, <2>2, StreamBytes, Zenon DEF A
    <3> QED BY <3>1 DEF Piece
  <2>3. CASE x \in ToSet(C)
    <3>1. Piece(x, pk, r, e, BLOCK, m)
      BY <1>1, <2>3, StreamBytes, Zenon DEF C
    <3> QED BY <3>1 DEF Piece
  <2>4. CASE x \in ToSet(D)
    <3>1. 0 \in Nat
      OBVIOUS
    <3>2. Piece(x, pk, r, e, 0, KEY)
      BY <1>1, <2>4, <3>1, StreamBytes, Zenon DEF D
    <3> QED BY <3>2 DEF Piece
  <2>5. CASE x \in ToSet(G)
    <3>1. Piece(x, lk, 0, e, pos + LF, KEY)
      BY <1>1, <1>8, <2>5, StreamBytes, Zenon DEF B
    <3>2. last
      BY <1>3, <2>5, Nothing DEF G
    <3> QED BY <3>1, <3>2 DEF Piece
  <2>6. CASE x \in ToSet(H)
    <3>1. last
      BY <1>4, <2>6, Nothing DEF H
    <3>2. 0 \in Nat
      OBVIOUS
    <3>3. Piece(x, pk, -1, e, BLOCK, KEY) \/ Piece(x, pk, -1, e, 0, KEY)
      BY <1>1, <1>9, <2>6, <3>2, StreamBytes, Zenon DEF E, F
    <3> QED BY <3>1, <3>3 DEF Piece
  <2> QED BY <1>17, <2>1, <2>2, <2>3, <2>4, <2>5, <2>6
<1>19. CASE last
  <2> DEFINE lk2 == [from |-> Byte(lk, <<0, e>>, pos + LF)]
             pk2 == [from |-> Byte(pk, <<-1, e>>, BLOCK)]
  <2>1. lk2 # pk2
    <3>1. lk2 = pk2 => Byte(lk, <<0, e>>, pos + LF) = Byte(pk, <<-1, e>>, BLOCK)
      OBVIOUS
    <3>2. Byte(lk, <<0, e>>, pos + LF).key = lk /\ Byte(pk, <<-1, e>>, BLOCK).key = pk
      BY DEF Byte
    <3> QED BY <3>1, <3>2
  <2>2. Reach(0, 0)
    BY <1>1 DEF Reach
  <2>3. Epoch(n + 1) = e + 1
    BY <1>19, Epochs
  <2>4. ASSUME NEW x \in ToSet(w) PROVE IsByte(x) /\ Spent(x, lk2, pk2, n + 1, 0)
    <3>1. IsByte(x) /\ (Spent(x, lk, pk, n, pos) \/ x.nonce[2] = e)
      BY <1>18
    <3>2. x.nonce[2] <= e
      BY <1>1, <3>1 DEF Spent, IsByte
    <3> QED BY <1>1, <2>3, <3>1, <3>2 DEF Spent, IsByte
  <2>5. l.c = LengthAt(lk2, n + 1, 0, 0) /\ p.c = ContentAt(pk2, n + 1) /\ 0 \in Nat
    BY <1>3, <1>4, <1>19
  <2> HIDE DEF lk2, pk2
  <2>6. Once(w, lk2, pk2, n + 1, 0)
    BY <1>17, <2>4 DEF Once
  <2> QED BY <1>10, <2>1, <2>2, <2>5, <2>6, Zenon
<1>20. CASE ~last
  <2>1. PICK c \in Nat : Reach(c, pos + LF) /\ l.c = LengthAt(lk, n + 1, c, pos + LF)
    BY <1>3, <1>20
  <2>2. p.c = ContentAt(pk, n + 1)
    BY <1>4, <1>20
  <2>3. Epoch(n + 1) = e /\ (n + 1) % REKEY_INTERVAL = r + 1
    BY <1>20, Epochs
  <2>4. ASSUME NEW x \in ToSet(w) PROVE IsByte(x) /\ Spent(x, lk, pk, n + 1, pos + LF)
    <3>1. /\ IsByte(x)
          /\ \/ Spent(x, lk, pk, n, pos)
             \/ x.nonce[2] = e /\ x.key = lk /\ x.at < pos + LF
             \/ x.nonce[2] = e /\ x.key = pk /\ x.nonce[1] = r
      BY <1>18, <1>20
    <3> QED BY <1>1, <2>3, <3>1 DEF Spent, IsByte
  <2>5. Once(w, lk, pk, n + 1, pos + LF)
    BY <1>17, <2>4 DEF Once
  <2> QED BY <1>1, <1>10, <2>1, <2>2, <2>5, Zenon
<1> QED BY <1>19, <1>20

(***************************************************************************)
(* The two ends.                                                           *)
(***************************************************************************)
IsEnd(e) == e = [L |-> e.L, P |-> e.P, length |-> e.length]

CipherType ==
  /\ ends = [sender |-> ends.sender, receiver |-> ends.receiver]
  /\ IsEnd(ends.sender) /\ IsEnd(ends.receiver)
  /\ got = [sent |-> got.sent, received |-> got.received]
  /\ got.sent \in Seq(Nat) /\ got.received \in Seq(Nat)
  /\ IsSeq(wire)

SenderInv ==
  \E lk, pk : \E b, pos \in Nat :
    /\ lk # pk /\ Reach(b, pos)
    /\ ends.sender.L = LengthAt(lk, Len(got.sent), b, pos)
    /\ ends.sender.P = ContentAt(pk, Len(got.sent))
    /\ Once(used, lk, pk, Len(got.sent), pos)

\* A packet of n bytes that ciphers L and P make.
Packet(L, P, n) ==
  [length |-> n, lks |-> crypt(L, LENGTH_FIELD_LEN).ks,
   ks |-> _crypt(P, 1 + n).ks, tag |-> _crypt(P, 1 + n).poly]

IsLengthCipher(c, n) == \E key : \E b, pos \in Nat : c = LengthAt(key, n, b, pos)

\* L and P are the sender's ciphers before each of the packets sent, and after
\* the last: those under way were made with them, and the receiver goes through
\* the same.
History(L, P, sent, r, packets) ==
  /\ r <= Len(sent) /\ Len(packets) = Len(sent) - r
  /\ \A k \in 0 .. Len(sent) : IsLengthCipher(L[k], k)
  /\ \A k \in 0 .. Len(sent) - 1 : /\ L[k + 1] = crypt(L[k], LENGTH_FIELD_LEN).c
                                   /\ P[k + 1] = _crypt(P[k], 1 + sent[k + 1]).c
  /\ \A i \in 1 .. Len(packets) : packets[i] = Packet(L[r + i - 1], P[r + i - 1], sent[r + i])

Following(L, P, sent, received, receiver) ==
  LET r == Len(received) IN
  /\ receiver.P = P[r]
  /\ \/ receiver.length = -1 /\ receiver.L = L[r]
     \/ receiver.length = sent[r + 1] /\ r < Len(sent) /\ receiver.L = L[r + 1]
  /\ \A i \in 1 .. r : received[i] = sent[i]

ReceiverInv ==
  \E L, P : /\ History(L, P, got.sent, Len(got.received), wire)
            /\ L[Len(got.sent)] = ends.sender.L /\ P[Len(got.sent)] = ends.sender.P
            /\ Following(L, P, got.sent, got.received, ends.receiver)

CipherInv == CipherType /\ SenderInv /\ ReceiverInv

LEMMA CipherStart == CipherInit => CipherInv
<1> SUFFICES ASSUME CipherInit PROVE CipherInv
  OBVIOUS
<1>1. /\ ends = [sender |-> NewEnd, receiver |-> NewEnd] /\ wire = <<>> /\ used = <<>>
      /\ got = [sent |-> <<>>, received |-> <<>>]
  BY DEF CipherInit
<1>2. ends.sender = NewEnd /\ ends.receiver = NewEnd /\ got.sent = <<>> /\ got.received = <<>>
  BY <1>1
<1>3. NewEnd.L = NewLengthCipher /\ NewEnd.P = NewContentCipher /\ NewEnd.length = -1 /\ IsEnd(NewEnd)
  BY DEF NewEnd, IsEnd
<1>4. CipherType
  BY <1>1, <1>2, <1>3, Nothing DEF CipherType
<1>5. NewLengthCipher = LengthAt([initial |-> "L"], 0, 0, 0)
  <2>1. Stream([initial |-> "L"], LengthNonce(0), 0, 0 * BLOCK - 0) = <<>>
    BY Sizes DEF Stream
  <2> QED BY <2>1, Zenon DEF NewLengthCipher, LengthAt
<1>6. NewContentCipher = ContentAt([initial |-> "P"], 0)
  BY DEF NewContentCipher, ContentAt
<1>7. [initial |-> "L"] # [initial |-> "P"]
  OBVIOUS
<1>8. Reach(0, 0) /\ Len(<<>>) = 0 /\ 0 \in Nat
  BY Sizes DEF Reach
<1>9. Once(<<>>, [initial |-> "L"], [initial |-> "P"], 0, 0)
  BY Nothing DEF Once
<1>10. SenderInv
  BY <1>1, <1>2, <1>3, <1>5, <1>6, <1>7, <1>8, <1>9, Zenon DEF SenderInv
<1>11. ReceiverInv
  <2> DEFINE L == [k \in {0} |-> NewLengthCipher]
             P == [k \in {0} |-> NewContentCipher]
  <2>1. L[0] = NewLengthCipher /\ P[0] = NewContentCipher
    OBVIOUS
  <2> HIDE DEF L, P
  <2>2. History(L, P, <<>>, 0, <<>>)
    BY <1>5, <2>1 DEF History, IsLengthCipher
  <2>3. Following(L, P, <<>>, <<>>, NewEnd)
    BY <1>3, <2>1 DEF Following
  <2> QED BY <1>1, <1>2, <1>3, <1>8, <2>1, <2>2, <2>3, Zenon DEF ReceiverInv
<1> QED BY <1>4, <1>10, <1>11 DEF CipherInv

\* A packet is sent.
Extends(G, H, m, last) == G[m + 1] = last /\ \A k \in 0 .. m : G[k] = H[k]

LEMMA HistoryGrows ==
  ASSUME NEW L, NEW P, NEW sent \in Seq(Nat), NEW r \in Nat, NEW packets, IsSeq(packets),
         History(L, P, sent, r, packets), NEW n \in Nat,
         NEW l, l = crypt(L[Len(sent)], LENGTH_FIELD_LEN).c,
         IsLengthCipher(l, Len(sent) + 1),
         NEW p, p = _crypt(P[Len(sent)], 1 + n).c
  PROVE  \E L2, P2 :
           /\ History(L2, P2, Append(sent, n), r,
                      Append(packets, Packet(L[Len(sent)], P[Len(sent)], n)))
           /\ Extends(L2, L, Len(sent), l) /\ Extends(P2, P, Len(sent), p)
<1> DEFINE m == Len(sent)
           L2 == [k \in 0 .. m + 1 |-> IF k = m + 1 THEN l ELSE L[k]]
           P2 == [k \in 0 .. m + 1 |-> IF k = m + 1 THEN p ELSE P[k]]
           q == Packet(L[m], P[m], n)
           s2 == Append(sent, n)
           w2 == Append(packets, q)
<1>1. m \in Nat
  OBVIOUS
<1>2. /\ s2 \in Seq(Nat) /\ Len(s2) = m + 1 /\ s2[m + 1] = n
      /\ \A i \in 1 .. m : s2[i] = sent[i]
  OBVIOUS
<1>3. /\ Len(w2) = Len(packets) + 1 /\ w2[Len(packets) + 1] = q /\ Len(packets) \in Nat
      /\ \A i \in 1 .. Len(packets) : w2[i] = packets[i]
  <2> HIDE DEF q
  <2>1. PICK T : packets \in Seq(T)
    BY DEF IsSeq
  <2>2. packets \in Seq(T \cup {q}) /\ q \in T \cup {q}
    BY <2>1
  <2> QED BY <2>2
<1> HIDE DEF m
<1>4. /\ L2[m + 1] = l /\ P2[m + 1] = p
      /\ \A k \in 0 .. m : L2[k] = L[k] /\ P2[k] = P[k]
  BY <1>1
<1> HIDE DEF L2, P2, q, s2, w2
<1>5. /\ r <= m /\ Len(packets) = m - r
      /\ \A k \in 0 .. m : IsLengthCipher(L[k], k)
      /\ \A k \in 0 .. m - 1 : /\ L[k + 1] = crypt(L[k], LENGTH_FIELD_LEN).c
                               /\ P[k + 1] = _crypt(P[k], 1 + sent[k + 1]).c
      /\ \A i \in 1 .. Len(packets) : packets[i] = Packet(L[r + i - 1], P[r + i - 1], sent[r + i])
  BY DEF History, m
<1>6. \A k \in 0 .. m + 1 : IsLengthCipher(L2[k], k)
  <2> TAKE k \in 0 .. m + 1
  <2>1. CASE k = m + 1
    BY <1>4, <2>1, Zenon DEF m
  <2>2. CASE k # m + 1
    <3>1. k \in 0 .. m
      BY <1>1, <2>2
    <3> QED BY <1>4, <1>5, <3>1, Zenon
  <2> QED BY <2>1, <2>2
<1>7. \A k \in 0 .. m : /\ L2[k + 1] = crypt(L2[k], LENGTH_FIELD_LEN).c
                        /\ P2[k + 1] = _crypt(P2[k], 1 + s2[k + 1]).c
  <2> TAKE k \in 0 .. m
  <2>1. CASE k = m
    <3>1. l = crypt(L[m], LENGTH_FIELD_LEN).c /\ p = _crypt(P[m], 1 + n).c
      BY DEF m
    <3> QED BY <1>2, <1>4, <2>1, <3>1, Zenon
  <2>2. CASE k # m
    <3>1. k \in 0 .. m - 1 /\ k + 1 \in 1 .. m /\ k + 1 \in 0 .. m
      BY <1>1, <2>2
    <3> QED BY <1>2, <1>4, <1>5, <3>1, Zenon
  <2> QED BY <2>1, <2>2
<1>8. \A i \in 1 .. Len(w2) : w2[i] = Packet(L2[r + i - 1], P2[r + i - 1], s2[r + i])
  <2> TAKE i \in 1 .. Len(w2)
  <2>1. CASE i = Len(packets) + 1
    <3>1. r + i - 1 = m /\ r + i = m + 1 /\ m \in 0 .. m
      BY <1>1, <1>3, <1>5, <2>1
    <3>2. w2[i] = q
      BY <1>3, <2>1
    <3>3. L2[m] = L[m] /\ P2[m] = P[m]
      BY <1>4, <3>1
    <3> QED BY <1>2, <3>1, <3>2, <3>3, Zenon DEF q
  <2>2. CASE i # Len(packets) + 1
    <3>1. i \in 1 .. Len(packets) /\ r + i - 1 \in 0 .. m /\ r + i \in 1 .. m
      BY <1>1, <1>3, <1>5, <2>2
    <3>2. w2[i] = packets[i] /\ s2[r + i] = sent[r + i]
      BY <1>2, <1>3, <3>1
    <3>3. L2[r + i - 1] = L[r + i - 1] /\ P2[r + i - 1] = P[r + i - 1]
      BY <1>4, <3>1
    <3> QED BY <1>5, <3>1, <3>2, <3>3, Zenon
  <2> QED BY <2>1, <2>2
<1>9. History(L2, P2, s2, r, w2)
  <2>1. r <= m + 1 /\ Len(w2) = m + 1 - r /\ m + 1 - 1 = m
    BY <1>1, <1>3, <1>5
  <2>2. r <= Len(s2) /\ Len(w2) = Len(s2) - r /\ Len(s2) - 1 = m
    BY <1>1, <1>2, <2>1
  <2>3. \A k \in 0 .. Len(s2) : IsLengthCipher(L2[k], k)
    BY <1>2, <1>6, Zenon
  <2>4. \A k \in 0 .. Len(s2) - 1 : /\ L2[k + 1] = crypt(L2[k], LENGTH_FIELD_LEN).c
                                    /\ P2[k + 1] = _crypt(P2[k], 1 + s2[k + 1]).c
    BY <1>7, <2>2, Zenon
  <2> QED BY <1>8, <2>2, <2>3, <2>4, Zenon DEF History
<1>10. History(L2, P2, Append(sent, n), r, Append(packets, Packet(L[Len(sent)], P[Len(sent)], n)))
  BY <1>9, Zenon DEF s2, w2, q, m
<1>11. Extends(L2, L, Len(sent), l) /\ Extends(P2, P, Len(sent), p)
  BY <1>4, Zenon DEF Extends, m
<1> QED BY <1>10, <1>11, Zenon

LEMMA SendKeeps ==
  ASSUME CipherInv, SendPacket
  PROVE  CipherInv'
<1> USE DEF CipherInv
<1>1. PICK n \in Contents :
        LET l == crypt(ends.sender.L, LENGTH_FIELD_LEN)
            p == _crypt(ends.sender.P, 1 + n)
        IN /\ wire' = Append(wire, [length |-> n, lks |-> l.ks, ks |-> p.ks, tag |-> p.poly])
           /\ ends' = [ends EXCEPT !.sender.L = l.c, !.sender.P = p.c]
           /\ used' = used \o l.ks \o l.rekeyed \o p.ks \o p.poly \o p.rekeyed
           /\ got' = [got EXCEPT !.sent = Append(@, n)]
  BY DEF SendPacket
<1> DEFINE l == crypt(ends.sender.L, LENGTH_FIELD_LEN)
           p == _crypt(ends.sender.P, 1 + n)
           m == Len(got.sent)
<1>2. n \in Nat /\ 1 + n \in Nat /\ m \in Nat
  BY CipherAssumption DEF CipherType
<1>3. /\ used' = used \o l.ks \o l.rekeyed \o p.ks \o p.poly \o p.rekeyed
      /\ wire' = Append(wire, Packet(ends.sender.L, ends.sender.P, n))
  BY <1>1 DEF Packet
<1>4. /\ ends' = [sender |-> ends'.sender, receiver |-> ends'.receiver]
      /\ ends'.receiver = ends.receiver /\ IsEnd(ends'.sender)
      /\ ends'.sender.L = l.c /\ ends'.sender.P = p.c
  <2> DEFINE s == ends.sender
             t == [[s EXCEPT !.L = l.c] EXCEPT !.P = p.c]
  <2>1. ends' = [[ends EXCEPT !.sender.L = l.c] EXCEPT !.sender.P = p.c]
    BY <1>1
  <2> HIDE DEF l, p
  <2>2. ends = [sender |-> s, receiver |-> ends.receiver] /\ s = [L |-> s.L, P |-> s.P, length |-> s.length]
    BY DEF CipherType, IsEnd
  <2> HIDE DEF s
  <2>3. [ends EXCEPT !.sender.L = l.c] = [sender |-> [s EXCEPT !.L = l.c], receiver |-> ends.receiver]
    BY <2>2
  <2>4. ends' = [sender |-> t, receiver |-> ends.receiver]
    BY <2>1, <2>3
  <2>5. [s EXCEPT !.L = l.c] = [L |-> l.c, P |-> s.P, length |-> s.length]
    BY <2>2
  <2>6. t = [L |-> l.c, P |-> p.c, length |-> s.length]
    <3>1. [[L |-> l.c, P |-> s.P, length |-> s.length] EXCEPT !.P = p.c]
            = [L |-> l.c, P |-> p.c, length |-> s.length]
      OBVIOUS
    <3> QED BY <2>5, <3>1, Zenon
  <2> HIDE DEF t
  <2>7. ends'.sender = t /\ ends'.receiver = ends.receiver
    BY <2>4
  <2> QED BY <2>4, <2>6, <2>7 DEF IsEnd
<1>5. /\ got' = [sent |-> got'.sent, received |-> got'.received]
      /\ got'.sent = Append(got.sent, n) /\ got'.received = got.received
  BY <1>1 DEF CipherType
<1>6. got'.sent \in Seq(Nat) /\ Len(got'.sent) = m + 1
      /\ \A i \in 1 .. m : got'.sent[i] = got.sent[i]
  BY <1>2, <1>5 DEF CipherType
<1>7. IsSeq(wire')
  <2> DEFINE q == Packet(ends.sender.L, ends.sender.P, n)
  <2> HIDE DEF q
  <2>1. PICK T : wire \in Seq(T)
    BY DEF CipherType, IsSeq
  <2>2. wire \in Seq(T \cup {q}) /\ q \in T \cup {q}
    BY <2>1
  <2>3. Append(wire, q) \in Seq(T \cup {q})
    BY <2>2
  <2> QED BY <1>3, <2>3, Zenon DEF IsSeq, q
<1>8. CipherType'
  BY <1>4, <1>5, <1>6, <1>7 DEF CipherType
<1>8a. PICK lk, pk : \E b, pos \in Nat :
         /\ lk # pk /\ Reach(b, pos)
         /\ ends.sender.L = LengthAt(lk, m, b, pos) /\ ends.sender.P = ContentAt(pk, m)
         /\ Once(used, lk, pk, m, pos)
  BY Zenon DEF SenderInv
<1>9. PICK b \in Nat, pos \in Nat :
        /\ lk # pk /\ Reach(b, pos)
        /\ ends.sender.L = LengthAt(lk, m, b, pos) /\ ends.sender.P = ContentAt(pk, m)
        /\ Once(used, lk, pk, m, pos)
  BY <1>8a, Zenon
<1>10. LengthCrypt(l, lk, m, pos, LENGTH_FIELD_LEN)
  BY <1>2, <1>9, Sizes, CryptAt
<1>11. ContentCrypt(p, pk, m, 1 + n)
  BY <1>2, <1>9, ContentCryptAt
<1> HIDE DEF l, p, m
<1>12. \E lk2, pk2 : \E b2, pos2 \in Nat :
         /\ lk2 # pk2 /\ Reach(b2, pos2)
         /\ l.c = LengthAt(lk2, m + 1, b2, pos2) /\ p.c = ContentAt(pk2, m + 1)
         /\ Once(used \o l.ks \o l.rekeyed \o p.ks \o p.poly \o p.rekeyed, lk2, pk2, m + 1, pos2)
  BY <1>2, <1>9, <1>10, <1>11, SendOnce, ZenonT(30)
<1>13. SenderInv'
  BY <1>3, <1>4, <1>6, <1>12, ZenonT(40) DEF SenderInv
<1>14. PICK L, P : /\ History(L, P, got.sent, Len(got.received), wire)
                  /\ L[m] = ends.sender.L /\ P[m] = ends.sender.P
                  /\ Following(L, P, got.sent, got.received, ends.receiver)
  BY Zenon DEF ReceiverInv, m
<1>15. PICK L2, P2 : /\ History(L2, P2, got'.sent, Len(got'.received), wire')
                    /\ Extends(L2, L, m, l.c) /\ Extends(P2, P, m, p.c)
  <2>1. IsLengthCipher(l.c, m + 1)
    BY <1>12, Zenon DEF IsLengthCipher
  <2>2. l.c = crypt(L[m], LENGTH_FIELD_LEN).c /\ p.c = _crypt(P[m], 1 + n).c
    BY <1>14, Zenon DEF l, p
  <2>3. got.sent \in Seq(Nat) /\ Len(got.received) \in Nat /\ IsSeq(wire)
    BY DEF CipherType
  <2>4. \E L2, P2 : /\ History(L2, P2, Append(got.sent, n), Len(got.received),
                               Append(wire, Packet(L[m], P[m], n)))
                    /\ Extends(L2, L, m, l.c) /\ Extends(P2, P, m, p.c)
    BY <1>2, <1>14, <2>1, <2>2, <2>3, HistoryGrows, Zenon DEF m
  <2> QED BY <1>3, <1>5, <1>14, <2>4, Zenon
<1>16. Following(L2, P2, got'.sent, got'.received, ends'.receiver)
  <2> DEFINE r == Len(got.received)
  <2>1. r \in Nat /\ r <= m
    BY <1>14 DEF History, CipherType, m
  <2>2. /\ ends.receiver.P = P[r]
        /\ \/ ends.receiver.length = -1 /\ ends.receiver.L = L[r]
           \/ ends.receiver.length = got.sent[r + 1] /\ r < m /\ ends.receiver.L = L[r + 1]
        /\ \A i \in 1 .. r : got.received[i] = got.sent[i]
    BY <1>14 DEF Following, m
  <2> HIDE DEF r
  <2>3. P2[r] = P[r] /\ L2[r] = L[r] /\ (r < m => L2[r + 1] = L[r + 1])
    BY <1>2, <1>15, <2>1 DEF Extends
  <2>4. \A i \in 1 .. r : i \in 1 .. m
    BY <1>2, <2>1
  <2>5. \A i \in 1 .. r : got.received[i] = got'.sent[i]
    BY <1>6, <2>2, <2>4
  <2>6. r < m => r < m + 1 /\ got'.sent[r + 1] = got.sent[r + 1]
    BY <1>2, <1>6, <2>1
  <2>7. /\ ends.receiver.P = P2[r]
        /\ \/ ends.receiver.length = -1 /\ ends.receiver.L = L2[r]
           \/ ends.receiver.length = got'.sent[r + 1] /\ r < m + 1 /\ ends.receiver.L = L2[r + 1]
    BY <2>2, <2>3, <2>6
  <2> QED BY <1>4, <1>5, <1>6, <2>5, <2>7 DEF Following, r
<1>17. ReceiverInv'
  <2>1. L2[m + 1] = l.c /\ P2[m + 1] = p.c
    BY <1>15 DEF Extends
  <2> QED BY <1>4, <1>6, <1>15, <1>16, <2>1, Zenon DEF ReceiverInv
<1> QED BY <1>8, <1>13, <1>17

\* The packet that the receiver is at, and the ciphers it was made with.
LEMMA AtHead ==
  ASSUME CipherType, wire # <<>>, NEW L, NEW P,
         History(L, P, got.sent, Len(got.received), wire)
  PROVE  LET r == Len(got.received)
         IN /\ r \in Nat /\ r < Len(got.sent) /\ Len(got.sent) \in Nat
            /\ got.sent[r + 1] \in Nat
            /\ Head(wire) = Packet(L[r], P[r], got.sent[r + 1])
            /\ L[r + 1] = crypt(L[r], LENGTH_FIELD_LEN).c
            /\ P[r + 1] = _crypt(P[r], 1 + got.sent[r + 1]).c
<1> DEFINE r == Len(got.received)
           n == Len(got.sent)
<1>1. r \in Nat /\ n \in Nat /\ got.sent \in Seq(Nat)
  BY DEF CipherType
<1>2. Len(wire) \in Nat /\ Len(wire) > 0 /\ Head(wire) = wire[1]
  BY DEF CipherType, IsSeq
<1>3. /\ r <= n /\ Len(wire) = n - r
      /\ \A k \in 0 .. n - 1 : /\ L[k + 1] = crypt(L[k], LENGTH_FIELD_LEN).c
                               /\ P[k + 1] = _crypt(P[k], 1 + got.sent[k + 1]).c
      /\ \A i \in 1 .. Len(wire) : wire[i] = Packet(L[r + i - 1], P[r + i - 1], got.sent[r + i])
  BY DEF History
<1>4. got.sent[r + 1] \in Nat
  BY <1>1, <1>2, <1>3
<1> HIDE DEF r, n
<1>5. r < n /\ r \in 0 .. n - 1 /\ 1 \in 1 .. Len(wire) /\ r + 1 - 1 = r
  BY <1>1, <1>2, <1>3
<1>6. wire[1] = Packet(L[r], P[r], got.sent[r + 1])
  BY <1>3, <1>5, Zenon
<1> QED BY <1>1, <1>2, <1>3, <1>4, <1>5, <1>6, Zenon DEF r, n

LEMMA LengthKeeps ==
  ASSUME CipherInv, ReceiveLength
  PROVE  CipherInv'
<1> DEFINE r == Len(got.received)
           l == crypt(ends.receiver.L, LENGTH_FIELD_LEN)
           v == IF l.ks = Head(wire).lks THEN Head(wire).length ELSE 99
<1>1. /\ wire # <<>> /\ ends.receiver.length = -1 /\ UNCHANGED <<wire, used, got>>
      /\ ends' = [ends EXCEPT !.receiver.L = l.c, !.receiver.length = v]
  BY DEF ReceiveLength
<1>2. CipherType
  BY DEF CipherInv
<1>3. /\ ends' = [sender |-> ends'.sender, receiver |-> ends'.receiver]
      /\ ends'.sender = ends.sender /\ IsEnd(ends'.receiver)
      /\ ends'.receiver.L = l.c /\ ends'.receiver.P = ends.receiver.P /\ ends'.receiver.length = v
  <2> DEFINE s == ends.receiver
             t == [[s EXCEPT !.L = l.c] EXCEPT !.length = v]
  <2>1. ends' = [[ends EXCEPT !.receiver.L = l.c] EXCEPT !.receiver.length = v]
    BY <1>1, Zenon
  <2> HIDE DEF l, v
  <2>2. ends = [sender |-> ends.sender, receiver |-> s] /\ s = [L |-> s.L, P |-> s.P, length |-> s.length]
    BY <1>2 DEF CipherType, IsEnd
  <2> HIDE DEF s
  <2>3. [ends EXCEPT !.receiver.L = l.c] = [sender |-> ends.sender, receiver |-> [s EXCEPT !.L = l.c]]
    BY <2>2
  <2>4. ends' = [sender |-> ends.sender, receiver |-> t]
    BY <2>1, <2>3
  <2>5. [s EXCEPT !.L = l.c] = [L |-> l.c, P |-> s.P, length |-> s.length]
    BY <2>2
  <2>6. t = [L |-> l.c, P |-> s.P, length |-> v]
    <3>1. [[L |-> l.c, P |-> s.P, length |-> s.length] EXCEPT !.length = v]
            = [L |-> l.c, P |-> s.P, length |-> v]
      OBVIOUS
    <3> QED BY <2>5, <3>1, Zenon
  <2> HIDE DEF t
  <2>7. ends'.receiver = t /\ ends'.sender = ends.sender
    BY <2>4
  <2> QED BY <2>4, <2>6, <2>7 DEF IsEnd, s
<1>4. CipherType'
  BY <1>1, <1>2, <1>3 DEF CipherType
<1>5. SenderInv'
  <2>1. SenderInv
    BY DEF CipherInv
  <2> QED BY <1>1, <1>3, <2>1 DEF SenderInv
<1>6. PICK L, P : /\ History(L, P, got.sent, Len(got.received), wire)
                 /\ L[Len(got.sent)] = ends.sender.L /\ P[Len(got.sent)] = ends.sender.P
                 /\ Following(L, P, got.sent, got.received, ends.receiver)
  BY Zenon DEF CipherInv, ReceiverInv
<1>7. /\ r \in Nat /\ r < Len(got.sent) /\ got.sent[r + 1] \in Nat
      /\ Head(wire) = Packet(L[r], P[r], got.sent[r + 1])
      /\ L[r + 1] = crypt(L[r], LENGTH_FIELD_LEN).c
  BY <1>1, <1>2, <1>6, AtHead
<1>8. /\ ends.receiver.P = P[r] /\ ends.receiver.L = L[r]
      /\ \A i \in 1 .. r : got.received[i] = got.sent[i]
  BY <1>1, <1>6, <1>7 DEF Following
<1>9. Head(wire).lks = crypt(L[r], LENGTH_FIELD_LEN).ks /\ Head(wire).length = got.sent[r + 1]
  BY <1>7 DEF Packet
<1>10. v = got.sent[r + 1] /\ l.c = L[r + 1]
  BY <1>7, <1>8, <1>9
<1>11. Following(L, P, got'.sent, got'.received, ends'.receiver)
  BY <1>1, <1>3, <1>7, <1>8, <1>10 DEF Following
<1>12. ReceiverInv'
  BY <1>1, <1>3, <1>6, <1>11, Zenon DEF ReceiverInv
<1> QED BY <1>4, <1>5, <1>12 DEF CipherInv

LEMMA ContentsKeeps ==
  ASSUME CipherInv, ReceiveContents
  PROVE  CipherInv'
<1> DEFINE r == Len(got.received)
           p == _crypt(ends.receiver.P, 1 + ends.receiver.length)
           good == p.poly = Head(wire).tag /\ p.ks = Head(wire).ks
           v == IF good THEN ends.receiver.length ELSE -1
<1>1. /\ wire # <<>> /\ ends.receiver.length # -1
      /\ ends' = [ends EXCEPT !.receiver.P = p.c, !.receiver.length = -1]
      /\ got' = [got EXCEPT !.received = Append(@, v)]
      /\ wire' = Tail(wire) /\ used' = used
  BY DEF ReceiveContents
<1>2. CipherType
  BY DEF CipherInv
<1>3. /\ ends' = [sender |-> ends'.sender, receiver |-> ends'.receiver]
      /\ ends'.sender = ends.sender /\ IsEnd(ends'.receiver)
      /\ ends'.receiver.L = ends.receiver.L /\ ends'.receiver.P = p.c /\ ends'.receiver.length = -1
  <2> DEFINE s == ends.receiver
             t == [[s EXCEPT !.P = p.c] EXCEPT !.length = -1]
  <2>1. ends' = [[ends EXCEPT !.receiver.P = p.c] EXCEPT !.receiver.length = -1]
    BY <1>1, Zenon
  <2> HIDE DEF p, v, good
  <2>2. ends = [sender |-> ends.sender, receiver |-> s] /\ s = [L |-> s.L, P |-> s.P, length |-> s.length]
    BY <1>2 DEF CipherType, IsEnd
  <2> HIDE DEF s
  <2>3. [ends EXCEPT !.receiver.P = p.c] = [sender |-> ends.sender, receiver |-> [s EXCEPT !.P = p.c]]
    BY <2>2
  <2>4. ends' = [sender |-> ends.sender, receiver |-> t]
    BY <2>1, <2>3
  <2>5. [s EXCEPT !.P = p.c] = [L |-> s.L, P |-> p.c, length |-> s.length]
    BY <2>2
  <2>6. t = [L |-> s.L, P |-> p.c, length |-> -1]
    <3>1. [[L |-> s.L, P |-> p.c, length |-> s.length] EXCEPT !.length = -1]
            = [L |-> s.L, P |-> p.c, length |-> -1]
      OBVIOUS
    <3> QED BY <2>5, <3>1, Zenon
  <2> HIDE DEF t
  <2>7. ends'.receiver = t /\ ends'.sender = ends.sender
    BY <2>4
  <2> QED BY <2>4, <2>6, <2>7 DEF IsEnd, s
<1>4. PICK L, P : /\ History(L, P, got.sent, Len(got.received), wire)
                 /\ L[Len(got.sent)] = ends.sender.L /\ P[Len(got.sent)] = ends.sender.P
                 /\ Following(L, P, got.sent, got.received, ends.receiver)
  BY Zenon DEF CipherInv, ReceiverInv
<1>5. /\ r \in Nat /\ r < Len(got.sent) /\ got.sent[r + 1] \in Nat /\ Len(got.sent) \in Nat
      /\ Head(wire) = Packet(L[r], P[r], got.sent[r + 1])
      /\ P[r + 1] = _crypt(P[r], 1 + got.sent[r + 1]).c
  BY <1>1, <1>2, <1>4, AtHead
<1>6. /\ ends.receiver.P = P[r] /\ ends.receiver.L = L[r + 1] /\ ends.receiver.length = got.sent[r + 1]
      /\ \A i \in 1 .. r : got.received[i] = got.sent[i]
  BY <1>1, <1>4, <1>5 DEF Following
<1>7. /\ Head(wire).tag = _crypt(P[r], 1 + got.sent[r + 1]).poly
      /\ Head(wire).ks = _crypt(P[r], 1 + got.sent[r + 1]).ks
  BY <1>5 DEF Packet
<1>8. v = got.sent[r + 1] /\ p.c = P[r + 1]
  BY <1>5, <1>6, <1>7
<1> HIDE DEF v, p, good
<1>9. /\ got' = [sent |-> got'.sent, received |-> got'.received]
      /\ got'.sent = got.sent /\ got'.received = Append(got.received, v)
  BY <1>1, <1>2 DEF CipherType
<1>10. /\ got'.received \in Seq(Nat) /\ Len(got'.received) = r + 1
       /\ \A i \in 1 .. r + 1 : got'.received[i] = got.sent[i]
  <2>1. got.received \in Seq(Nat) /\ v \in Nat
    BY <1>2, <1>5, <1>8 DEF CipherType
  <2>2. /\ got'.received \in Seq(Nat) /\ Len(got'.received) = r + 1
        /\ \A i \in 1 .. r : got'.received[i] = got.received[i]
        /\ got'.received[r + 1] = v
    BY <1>9, <2>1
  <2>3. \A i \in 1 .. r + 1 : i \in 1 .. r \/ i = r + 1
    BY <1>5
  <2> QED BY <1>6, <1>8, <2>2, <2>3
<1>11. /\ IsSeq(wire') /\ Len(wire') = Len(wire) - 1 /\ Len(wire) \in Nat
       /\ \A i \in 1 .. Len(wire') : wire'[i] = wire[i + 1] /\ i + 1 \in 1 .. Len(wire)
  <2>1. PICK T : wire \in Seq(T)
    BY <1>2 DEF CipherType, IsSeq
  <2>2. /\ Tail(wire) \in Seq(T) /\ Len(Tail(wire)) = Len(wire) - 1 /\ Len(wire) \in Nat
        /\ \A i \in 1 .. Len(wire) - 1 : Tail(wire)[i] = wire[i + 1] /\ i + 1 \in 1 .. Len(wire)
    BY <1>1, <2>1
  <2> QED BY <1>1, <2>2 DEF IsSeq
<1>12. CipherType'
  BY <1>2, <1>3, <1>9, <1>10, <1>11 DEF CipherType
<1>13. SenderInv'
  <2>1. SenderInv
    BY DEF CipherInv
  <2> QED BY <1>1, <1>3, <1>9, <2>1 DEF SenderInv
<1> HIDE DEF r
<1>14. History(L, P, got.sent, r + 1, wire')
  <2>1. /\ r <= Len(got.sent) /\ Len(wire) = Len(got.sent) - r
        /\ \A i \in 1 .. Len(wire) : wire[i] = Packet(L[r + i - 1], P[r + i - 1], got.sent[r + i])
    BY <1>4 DEF History, r
  <2>2. r + 1 <= Len(got.sent) /\ Len(wire') = Len(got.sent) - (r + 1)
    <3>1. /\ r \in Nat /\ Len(got.sent) \in Nat /\ r < Len(got.sent)
          /\ Len(wire) = Len(got.sent) - r /\ Len(wire') = Len(wire) - 1
      BY <1>5, <1>11, <2>1, Zenon
    <3> QED BY <3>1
  <2>3. ASSUME NEW i \in 1 .. Len(wire')
        PROVE  wire'[i] = Packet(L[r + 1 + i - 1], P[r + 1 + i - 1], got.sent[r + 1 + i])
    <3>1. r + 1 + i - 1 = r + (i + 1) - 1 /\ r + 1 + i = r + (i + 1)
      BY <1>5, <1>11
    <3>2. wire'[i] = wire[i + 1] /\ i + 1 \in 1 .. Len(wire)
      BY <1>11
    <3> QED BY <2>1, <3>1, <3>2, Zenon
  <2>4. /\ \A k \in 0 .. Len(got.sent) : IsLengthCipher(L[k], k)
        /\ \A k \in 0 .. Len(got.sent) - 1 : /\ L[k + 1] = crypt(L[k], LENGTH_FIELD_LEN).c
                                             /\ P[k + 1] = _crypt(P[k], 1 + got.sent[k + 1]).c
    BY <1>4 DEF History
  <2> QED BY <2>2, <2>3, <2>4, Zenon DEF History
<1>15. Following(L, P, got'.sent, got'.received, ends'.receiver)
  BY <1>3, <1>6, <1>8, <1>9, <1>10 DEF Following
<1>16. ReceiverInv'
  BY <1>3, <1>4, <1>9, <1>10, <1>14, <1>15, Zenon DEF ReceiverInv
<1> QED BY <1>12, <1>13, <1>16 DEF CipherInv

\* What a length cipher holds comes from its key.
LEMMA HeldFromKey ==
  ASSUME NEW c, NEW key, NEW n, NEW b, NEW pos, c = LengthAt(key, n, b, pos)
  PROVE  \A u \in ToSet(c.keystream) : u.key = c.key
<1>1. c.key = key /\ c.keystream = Stream(key, LengthNonce(n), pos, b * BLOCK - pos)
  BY DEF LengthAt
<1>2. \A k, o, f, m : \A u \in ToSet(Stream(k, o, f, m)) : u.key = k
  BY DEF ToSet, Stream
<1> QED BY <1>1, <1>2

LEMMA CipherSafe == CipherInv => KeystreamOnce
<1> SUFFICES ASSUME CipherInv PROVE KeystreamOnce
  OBVIOUS
<1> DEFINE n == Len(got.sent)
<1>1. PICK lk, pk : \E b, pos \in Nat :
        /\ lk # pk /\ Reach(b, pos) /\ ends.sender.L = LengthAt(lk, n, b, pos)
        /\ Once(used, lk, pk, n, pos)
  BY Zenon DEF CipherInv, SenderInv
<1>2. PICK b \in Nat, pos \in Nat :
        /\ lk # pk /\ Reach(b, pos) /\ ends.sender.L = LengthAt(lk, n, b, pos)
        /\ Once(used, lk, pk, n, pos)
  BY <1>1, Zenon
<1>3. n \in Nat /\ got.sent \in Seq(Nat) /\ got.received \in Seq(Nat)
  BY DEF CipherInv, CipherType
<1>4. IsInjective(used)
  BY <1>2 DEF Once
<1>5. \A u \in ToSet(ends.sender.L.keystream) : u.key = ends.sender.L.key
  BY <1>2, HeldFromKey
<1>6. ToSet(ends.sender.L.keystream) \cap ToSet(used) = {}
  <2> DEFINE m == b * BLOCK - pos
  <2>1. ends.sender.L.keystream = Stream(lk, <<0, Epoch(n)>>, pos, m)
    BY <1>2 DEF LengthAt, LengthNonce
  <2>2. m \in Nat /\ pos >= pos /\ 0 \in Int
    BY <1>2, Sizes DEF Reach
  <2> HIDE DEF m, n
  <2>3. \A u \in ToSet(used) : IsByte(u) /\ Spent(u, lk, pk, n, pos)
    BY <1>2 DEF Once
  <2>4. ToSet(used) \cap ToSet(Stream(lk, <<0, Epoch(n)>>, pos, m)) = {}
    BY <1>2, <1>3, <2>2, <2>3, NotSpent, Zenon
  <2> QED BY <2>1, <2>4
<1>7. PICK L, P : /\ History(L, P, got.sent, Len(got.received), wire)
                 /\ Following(L, P, got.sent, got.received, ends.receiver)
  BY Zenon DEF CipherInv, ReceiverInv
<1> DEFINE r == Len(got.received)
<1>8. /\ r \in Nat /\ r <= n /\ (ends.receiver.L = L[r] \/ (r < n /\ ends.receiver.L = L[r + 1]))
      /\ \A i \in 1 .. r : got.received[i] = got.sent[i]
      /\ \A k \in 0 .. n : IsLengthCipher(L[k], k)
  BY <1>3, <1>7 DEF History, Following
<1>9. \A u \in ToSet(ends.receiver.L.keystream) : u.key = ends.receiver.L.key
  <2> HIDE DEF r, n
  <2>1. \E k : IsLengthCipher(ends.receiver.L, k)
    <3>1. r \in 0 .. n /\ (r < n => r + 1 \in 0 .. n)
      BY <1>3, <1>8
    <3>2. CASE ends.receiver.L = L[r]
      BY <1>8, <3>1, <3>2, Zenon
    <3>3. CASE r < n /\ ends.receiver.L = L[r + 1]
      BY <1>8, <3>1, <3>3, Zenon
    <3> QED BY <1>8, <3>2, <3>3
  <2> QED BY <2>1, HeldFromKey, Zenon DEF IsLengthCipher
<1>10. IsPrefix(got.received, got.sent)
  <2>1. SubSeq(got.received, 1, r) = SubSeq(got.sent, 1, r)
    BY <1>3, <1>8
  <2> QED BY <1>8, <2>1 DEF IsPrefix
<1> QED BY <1>4, <1>5, <1>6, <1>9, <1>10 DEF KeystreamOnce

\* Through any number of packets and changes of key, no byte of key stream of
\* FSChaCha20 and FSChaCha20Poly1305 encrypts twice, or encrypts and becomes a
\* key; nothing that a cipher holds was used or is of a key that is gone; and a
\* receiver, however far behind, decrypts what was sent.
THEOREM NoByteTwice == CipherSpec => []KeystreamOnce
<1>1. CipherInv /\ [CipherNext]_ciphervars => CipherInv'
  <2> SUFFICES ASSUME CipherInv, [CipherNext]_ciphervars PROVE CipherInv'
    OBVIOUS
  <2>1. CASE UNCHANGED ciphervars
    BY <2>1 DEF ciphervars, CipherInv, CipherType, SenderInv, ReceiverInv
  <2> QED BY <2>1, SendKeeps, LengthKeeps, ContentsKeeps DEF CipherNext
<1> QED BY <1>1, CipherStart, CipherSafe, PTL DEF CipherSpec
=============================================================================
