------------------------------- MODULE Script -------------------------------
(***************************************************************************)
(* src/miner_imports/test_framework/script.py: how CScript puts a script   *)
(* together from opcodes, numbers and data, and how it is read again:      *)
(* raw_iter and what is built on it.  A script grows by one item a step.   *)
(*                                                                         *)
(* A byte has BYTE values, and the opcodes are placed in it in the order   *)
(* of the code: pushes of less than OP_PUSHDATA1 bytes are an opcode of    *)
(* their own, SMALL is the largest number with an opcode (16).             *)
(***************************************************************************)
EXTENDS Integers, Sequences, SequencesExt

CONSTANTS
  BYTE,            \* 256
  OP_PUSHDATA1,    \* 0x4c
  SMALL,           \* 16
  MaxItems         \* bound: items of a script

ASSUME ScriptAssumption ==
  /\ {BYTE, OP_PUSHDATA1, SMALL, MaxItems} \subseteq Nat \ {0}
  /\ OP_PUSHDATA1 + 11 + SMALL <= BYTE /\ BYTE % 2 = 0

VARIABLES items, script

OP_0 == 0
OP_PUSHDATA2 == OP_PUSHDATA1 + 1
OP_PUSHDATA4 == OP_PUSHDATA1 + 2
OP_1NEGATE == OP_PUSHDATA1 + 3
OP_1 == OP_PUSHDATA1 + 5         \* after OP_RESERVED
OP_LAST == OP_1 + SMALL - 1      \* OP_16
OP_CODESEPARATOR == OP_LAST + 1
OP_CHECKSIG == OP_LAST + 2
OP_CHECKSIGVERIFY == OP_LAST + 3
OP_CHECKMULTISIG == OP_LAST + 4
OP_CHECKMULTISIGVERIFY == OP_LAST + 5
OP_INVALIDOPCODE == BYTE - 1

----------------------------------------------------------------------------
(* Writing. *)

Abs(v) == IF v < 0 THEN -v ELSE v
Little(v, w) == [i \in 1 .. w |-> (v \div BYTE^(i - 1)) % BYTE]
FromLittle(s) == FoldLeft(LAMBDA v, i : v + s[i] * BYTE^(i - 1), 0, [i \in 1 .. Len(s) |-> i])

\* The fewest bytes that hold a magnitude below limit, for bounded numbers.
BytesFor(v) == CHOOSE n \in 0 .. 4 : v < BYTE^n /\ \A k \in 0 .. n - 1 : v >= BYTE^k

\* bn2vch: the magnitude with room for a sign bit on top.
bn2vch(v) ==
  IF v = 0 THEN <<>>
  ELSE LET w == BytesFor(2 * Abs(v))
       IN Little(Abs(v) + (IF v < 0 THEN BYTE^w \div 2 ELSE 0), w)

\* CScriptNum.encode: the bytes of the magnitude, then a sign in the last of
\* them or, if its top bit is taken, in another; the length goes before it.
EncodeNum(v) ==
  LET r == Little(Abs(v), BytesFor(Abs(v)))
      signed == IF 2 * Last(r) >= BYTE THEN Append(r, IF v < 0 THEN BYTE \div 2 ELSE 0)
                ELSE IF v < 0 THEN Append(Front(r), Last(r) + BYTE \div 2) ELSE r
  IN IF v = 0 THEN <<>> ELSE <<Len(signed)>> \o signed

\* CScriptNum.decode
DecodeNum(vch) ==
  LET value == Tail(vch)
      result == FromLittle(value)
  IN IF value = <<>> THEN 0
     ELSE IF 2 * Last(value) >= BYTE THEN -(result - BYTE^Len(value) \div 2) ELSE result

\* Mutant: one byte too many is given an opcode of its own.
encode_op_pushdata_OffByOne(d) ==
  CASE Len(d) <= OP_PUSHDATA1 -> <<Len(d)>> \o d
    [] Len(d) > OP_PUSHDATA1 /\ Len(d) < BYTE -> <<OP_PUSHDATA1, Len(d)>> \o d
    [] Len(d) >= BYTE /\ Len(d) < BYTE^2 -> <<OP_PUSHDATA2>> \o Little(Len(d), 2) \o d
    [] Len(d) >= BYTE^2 -> <<OP_PUSHDATA4>> \o Little(Len(d), 4) \o d

encode_op_pushdata(d) ==
  CASE Len(d) < OP_PUSHDATA1 -> <<Len(d)>> \o d
    [] Len(d) >= OP_PUSHDATA1 /\ Len(d) < BYTE -> <<OP_PUSHDATA1, Len(d)>> \o d
    [] Len(d) >= BYTE /\ Len(d) < BYTE^2 -> <<OP_PUSHDATA2>> \o Little(Len(d), 2) \o d
    [] Len(d) >= BYTE^2 -> <<OP_PUSHDATA4>> \o Little(Len(d), 4) \o d

encode_op_n(n) == IF n = 0 THEN OP_0 ELSE OP_1 + n - 1
decode_op_n(op) == IF op = OP_0 THEN 0 ELSE op - OP_1 + 1

\* __coerce_instance: an item is an opcode, a CScriptNum, an int or bytes.
Coerce(x) ==
  CASE x.is = "op" -> <<x.op>>
    [] x.is = "num" -> IF x.n = 0 THEN <<OP_0>> ELSE EncodeNum(x.n)
    [] x.is = "int" -> IF x.n \in 0 .. SMALL THEN <<encode_op_n(x.n)>>
                       ELSE IF x.n = -1 THEN <<OP_1NEGATE>> ELSE encode_op_pushdata(bn2vch(x.n))
    [] x.is = "data" -> encode_op_pushdata(x.d)

CScript(q) == FlattenSeq([i \in 1 .. Len(q) |-> Coerce(q[i])])

----------------------------------------------------------------------------
(* Reading. *)

\* The push that starts at i: where its data starts and how long it says it is,
\* or 0 bytes at 0 if the length itself is cut off.
LengthBytes(op) == IF op = OP_PUSHDATA1 THEN 1 ELSE IF op = OP_PUSHDATA2 THEN 2 ELSE IF op = OP_PUSHDATA4 THEN 4 ELSE 0
DataSize(s, i) ==
  IF s[i] < OP_PUSHDATA1 THEN s[i] ELSE FromLittle(SubSeq(s, i + 1, i + LengthBytes(s[i])))

\* raw_iter: opcode, data and the place of the opcode of each operation; what is
\* yielded before an error, and the error.
IsPush(op) == op <= OP_PUSHDATA4
RECURSIVE RawIter(_, _, _)
RawIter(s, i, out) ==
  IF i > Len(s) THEN [ops |-> out, err |-> "none"]
  ELSE IF ~IsPush(s[i])
  THEN RawIter(s, i + 1, Append(out, [op |-> s[i], data |-> <<>>, at |-> i]))
  ELSE LET from == i + LengthBytes(s[i])
           size == DataSize(s, i)
       IN IF from > Len(s) /\ from > i THEN [ops |-> out, err |-> "missing data length"]
          ELSE IF from + size > Len(s) THEN [ops |-> out, err |-> "truncated data"]
          ELSE RawIter(s, from + size + 1,
                       Append(out, [op |-> s[i], data |-> SubSeq(s, from + 1, from + size), at |-> i]))
raw_iter(s) == RawIter(s, 1, <<>>)

\* __iter__
Cooked(s) ==
  LET ops == raw_iter(s).ops
  IN [i \in 1 .. Len(ops) |->
        IF IsPush(ops[i].op) THEN [is |-> "data", d |-> ops[i].data]
        ELSE IF ops[i].op \in OP_1 .. OP_LAST THEN [is |-> "int", n |-> decode_op_n(ops[i].op)]
        ELSE [is |-> "op", op |-> ops[i].op]]

\* FindAndDelete, of a sig of one opcode.
FindAndDelete(s, sig) ==
  LET ops == raw_iter(s).ops
      Piece(i) == SubSeq(s, ops[i].at, IF i = Len(ops) THEN Len(s) ELSE ops[i + 1].at - 1)
  IN FlattenSeq([i \in 1 .. Len(ops) |-> IF s[ops[i].at] = sig THEN <<>> ELSE Piece(i)])

GetSigOpCount(s, fAccurate) ==
  LET ops == raw_iter(s).ops
      last(i) == IF i = 1 THEN OP_INVALIDOPCODE ELSE ops[i - 1].op
      count(i) ==
        CASE ops[i].op \in {OP_CHECKSIG, OP_CHECKSIGVERIFY} -> 1
          [] ops[i].op \in {OP_CHECKMULTISIG, OP_CHECKMULTISIGVERIFY} ->
               IF fAccurate /\ last(i) \in OP_1 .. OP_LAST THEN decode_op_n(last(i)) ELSE 20
          [] OTHER -> 0
  IN FoldLeft(LAMBDA n, i : n + count(i), 0, [i \in 1 .. Len(ops) |-> i])

\* script_BIP34_coinbase_height: a small height needs a second byte.
script_BIP34_coinbase_height(height) ==
  IF height <= SMALL THEN CScript(<<[is |-> "op", op |-> encode_op_n(height)], [is |-> "op", op |-> OP_0]>>)
  ELSE CScript(<<[is |-> "num", n |-> height]>>)

----------------------------------------------------------------------------
(* Steps: CScript(items) with one item more. *)

Edge == BYTE \div 2
SomeNumbers == {0, 1, SMALL, SMALL + 1, Edge - 1, Edge, BYTE - 1, BYTE, BYTE * Edge - 1, BYTE * Edge, BYTE^2}
Data(n) == [i \in 1 .. n |-> IF i = 1 THEN OP_CODESEPARATOR ELSE IF i = 2 THEN OP_CHECKSIG ELSE (i - 1) % BYTE]
SomeItems ==
  {[is |-> "op", op |-> op] : op \in {OP_1NEGATE, OP_LAST, OP_CODESEPARATOR, OP_CHECKSIG, OP_CHECKMULTISIGVERIFY}}
  \cup {[is |-> k, n |-> s * n] : k \in {"num", "int"}, s \in {1, -1}, n \in SomeNumbers}
  \cup {[is |-> "data", d |-> Data(n)] : n \in {0, 1, OP_PUSHDATA1 - 1, OP_PUSHDATA1, BYTE - 1, BYTE, BYTE^2}}

ScriptInit == items = <<>> /\ script = <<>>

AddItem ==
  /\ Len(items) < MaxItems
  /\ \E x \in SomeItems : items' = Append(items, x)
  /\ script' = CScript(items')

ScriptNext == AddItem

----------------------------------------------------------------------------
(* Properties. *)

\* What an item is when it is read: a number that has no opcode is its bytes.
AsRead(x) ==
  CASE x.is = "op" -> IF x.op \in OP_1 .. OP_LAST THEN [is |-> "int", n |-> x.op - OP_1 + 1] ELSE x
    [] x.is = "data" -> x
    [] OTHER -> IF x.n = 0 THEN [is |-> "data", d |-> <<>>]
                ELSE IF x.is = "int" /\ x.n \in 1 .. SMALL THEN x
                ELSE IF x.is = "int" /\ x.n = -1 THEN [is |-> "op", op |-> OP_1NEGATE]
                ELSE [is |-> "data", d |-> bn2vch(x.n)]
Multi(x) == x.is = "op" /\ x.op \in {OP_CHECKMULTISIG, OP_CHECKMULTISIGVERIFY}
SigOps(i) ==
  IF Multi(items[i])
  THEN IF i > 1 /\ AsRead(items[i - 1]).is = "int" THEN AsRead(items[i - 1]).n ELSE 20
  ELSE IF items[i].is = "op" /\ items[i].op \in {OP_CHECKSIG, OP_CHECKSIGVERIFY} THEN 1 ELSE 0
IsSeparator(x) == x.is = "op" /\ x.op = OP_CODESEPARATOR

\* A script is read as what it was put together from, whatever bytes its data
\* has and at every length where a push or a number takes another form: raw_iter
\* finds the items and no error, a number decodes to itself and its two encoders
\* agree, FindAndDelete takes out the separators and nothing in data, signature
\* operations are counted where they are operations.  A script that is cut off
\* gives the operations before the cut, and an error unless it is cut between two.
ScriptReadsBack ==
  /\ raw_iter(script).err = "none"
  /\ Cooked(script) = [i \in 1 .. Len(items) |-> AsRead(items[i])]
  /\ \A i \in DOMAIN items :
       items[i].is \in {"num", "int"} =>
         LET v == items[i].n
             d == bn2vch(v)
         IN /\ DecodeNum(<<Len(d)>> \o d) = v
            /\ v # 0 => EncodeNum(v) = <<Len(d)>> \o d
            /\ v >= 0 => LET s == script_BIP34_coinbase_height(v)
                         IN Len(s) >= 2 /\ (v > SMALL => DecodeNum(s) = v)
  /\ LET ops == raw_iter(script).ops
     IN \A n \in DOMAIN ops : \A k \in ops[n].at - 1 .. ops[n].at + 5 :
          k < (IF n = Len(ops) THEN Len(script) ELSE ops[n + 1].at - 1) =>
            LET cut == raw_iter(SubSeq(script, 1, k))
            IN cut.ops = SubSeq(ops, 1, n - 1) /\ (cut.err = "none") = (k = ops[n].at - 1)
  /\ FindAndDelete(script, OP_CODESEPARATOR) = CScript(SelectSeq(items, LAMBDA x : ~IsSeparator(x)))
  /\ GetSigOpCount(script, TRUE) = FoldLeft(LAMBDA n, i : n + SigOps(i), 0, [i \in 1 .. Len(items) |-> i])
=============================================================================
