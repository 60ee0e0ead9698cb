------------------------------- MODULE Sighash ------------------------------
(***************************************************************************)
(* src/miner_imports/test_framework/script.py: what a signature signs,     *)
(* for legacy, version 0 and taproot inputs.  The inputs of a transaction  *)
(* are signed one by one, each in its own way, and the transaction is      *)
(* changed before, between and after.                                      *)
(*                                                                         *)
(* A hash is the message it is made of; an opcode, an amount, an output is *)
(* a number, and a script a sequence of opcodes.                           *)
(***************************************************************************)
EXTENDS Integers, Sequences, SequencesExt, FiniteSets

CONSTANTS
  MaxChanges,   \* bound: changes to the transaction
  NumOutputs    \* outputs to start with

ASSUME SighashAssumption == MaxChanges \in Nat /\ NumOutputs \in Nat

VARIABLES
  tx,       \* the transaction
  spent,    \* the outputs that its inputs spend: amount and script
  path,     \* how each taproot input is spent: annex, key or script path, the leaf
            \* and the last OP_CODESEPARATOR that was executed in it
  sigs,     \* what each input was signed with
  changes   \* what was changed since an input was signed: pairs of a change and that input

sigvars == <<tx, spent, path, sigs, changes>>

SpendKinds == {"legacy", "v0", "taproot"}
\* A hash type: outputs that are signed, SIGHASH_ANYONECANPAY or not; taproot has
\* SIGHASH_DEFAULT too, a byte of its own that means ALL.
HashTypes(kind) ==
  [out : {"ALL", "NONE", "SINGLE"}, acp : BOOLEAN]
  \cup (IF kind = "taproot" THEN {[out |-> "DEFAULT", acp |-> FALSE]} ELSE {})
out_type(ht) == IF ht.out = "DEFAULT" THEN "ALL" ELSE ht.out

NoAnnex == 0
SEPARATOR == 0      \* OP_CODESEPARATOR
LEAF_VERSION_TAPSCRIPT == 1
Paths == [annex : {NoAnnex, 1}, scriptpath : BOOLEAN, leaf_ver : {LEAF_VERSION_TAPSCRIPT},
          leaf_script : {<<1, SEPARATOR, 2>>}, codeseparator_pos : {-1}]
KeyPath == CHOOSE p \in Paths : p.annex = NoAnnex /\ ~p.scriptpath
NotSigned == [none |-> TRUE]

Fields(op(_), q) == [i \in 1 .. Len(q) |-> op(q[i])]
Prevout(txin) == txin.prevout
Sequence(txin) == txin.seq
Amount(utxo) == utxo.amount
ScriptOf(utxo) == utxo.script

----------------------------------------------------------------------------
\* FindAndDelete(script, OP_CODESEPARATOR), on opcodes; Script has it on bytes.
NoSeparators(script) == SelectSeq(script, LAMBDA o : o # SEPARATOR)

\* LegacySignatureMsg: a copy of the transaction with parts left out, without
\* witness; no message (HASH_ONE) if there is no output of the input's number.
HASH_ONE == [one |-> TRUE]
LegacyMsg(t, vin, i, ht) ==
  IF ht.out = "SINGLE" /\ i > Len(t.vout) THEN HASH_ONE
  ELSE LET seq(j) == IF j # i /\ ht.out # "ALL" THEN [vin[j] EXCEPT !.seq = 0] ELSE vin[j]
       IN [version |-> t.version, lock |-> t.lock, ht |-> ht,
           vin |-> IF ht.acp THEN <<seq(i)>> ELSE [j \in DOMAIN vin |-> seq(j)],
           vout |-> CASE ht.out = "ALL" -> t.vout
                      [] ht.out = "NONE" -> <<>>
                      [] ht.out = "SINGLE" -> [j \in 1 .. i |-> IF j = i THEN t.vout[i] ELSE -1]]

\* Mutant: signatures that are there already are signed.
LegacySignatureMsg_KeepsSigs(t, sp, i, ht) ==
  LegacyMsg(t, [t.vin EXCEPT ![i].sig = NoSeparators(sp[i].script)], i, ht)

LegacySignatureMsg(t, sp, i, ht) ==
  LegacyMsg(t, [j \in DOMAIN t.vin |->
                 [t.vin[j] EXCEPT !.sig = IF j = i THEN NoSeparators(sp[i].script) ELSE <<>>]], i, ht)

\* SegwitV0SignatureMsg: a part that is left out is 0.
NoHash == <<>>
SegwitV0SignatureMsg(t, sp, i, ht) ==
  [version |-> t.version, lock |-> t.lock, ht |-> ht,
   hashPrevouts |-> IF ht.acp THEN NoHash ELSE Fields(Prevout, t.vin),
   hashSequence |-> IF ht.acp \/ ht.out # "ALL" THEN NoHash ELSE Fields(Sequence, t.vin),
   hashOutputs |-> CASE ht.out = "ALL" -> t.vout
                     [] ht.out = "SINGLE" /\ i <= Len(t.vout) -> <<t.vout[i]>>
                     [] OTHER -> NoHash,
   prevout |-> t.vin[i].prevout, script |-> sp[i].script, amount |-> sp[i].amount, seq |-> t.vin[i].seq]

\* TaprootSignatureMsg: BIP341_sha_prevouts, _amounts, _scriptpubkeys, _sequences,
\* _outputs, and the input itself or its number; the annex, and for a script
\* path the leaf with its version and the position of the separator.
TaprootSignatureMsg(t, sp, p, i, ht) ==
  [version |-> t.version, lock |-> t.lock, ht |-> ht,
   ins |-> IF ht.acp THEN <<>>
           ELSE <<Fields(Prevout, t.vin), Fields(Amount, sp), Fields(ScriptOf, sp), Fields(Sequence, t.vin)>>,
   outs |-> IF out_type(ht) = "ALL" THEN t.vout ELSE NoHash,
   spend_type |-> <<p[i].annex # NoAnnex, p[i].scriptpath>>,
   own |-> IF ht.acp THEN <<t.vin[i].prevout, sp[i].amount, sp[i].script, t.vin[i].seq>> ELSE <<i>>,
   annex |-> IF p[i].annex # NoAnnex THEN <<p[i].annex>> ELSE NoHash,
   single |-> IF out_type(ht) = "SINGLE" /\ i <= Len(t.vout) THEN <<t.vout[i]>> ELSE NoHash,
   leaf |-> IF p[i].scriptpath THEN <<p[i].leaf_ver, p[i].leaf_script, p[i].codeseparator_pos>> ELSE NoHash]

SignatureMsg(kind, t, sp, p, i, ht) ==
  CASE kind = "legacy" -> LegacySignatureMsg(t, sp, i, ht)
    [] kind = "v0" -> SegwitV0SignatureMsg(t, sp, i, ht)
    [] kind = "taproot" -> TaprootSignatureMsg(t, sp, p, i, ht)

----------------------------------------------------------------------------
(* Steps. *)

NewInput(n) == [prevout |-> n, seq |-> 1, sig |-> <<>>]
NewSpent(n) == [amount |-> n, script |-> <<n, SEPARATOR, n + 3>>]
SighashInit ==
  /\ tx = [version |-> 1, lock |-> 1, vin |-> <<NewInput(1), NewInput(2)>>,
           vout |-> [i \in 1 .. NumOutputs |-> i], wit |-> <<<<>>, <<>>>>]
  /\ spent = <<NewSpent(1), NewSpent(2)>>
  /\ path = <<KeyPath, KeyPath>>
  /\ sigs = <<NotSigned, NotSigned>>
  /\ changes = {}

\* sign_input_legacy puts the signature before the scriptSig, sign_input_segwitv0
\* below the witness; a legacy SINGLE without its output is refused.
SignInput ==
  \E i \in DOMAIN tx.vin, kind \in SpendKinds :
    \E ht \in HashTypes(kind), p \in IF kind = "taproot" THEN Paths ELSE {KeyPath} :
      LET msg == SignatureMsg(kind, tx, spent, [path EXCEPT ![i] = p], i, ht) IN
      /\ sigs[i] = NotSigned
      /\ msg # HASH_ONE
      /\ path' = [path EXCEPT ![i] = p]
      /\ sigs' = [sigs EXCEPT ![i] = [kind |-> kind, ht |-> ht, scriptpath |-> p.scriptpath, msg |-> msg]]
      /\ tx' = IF kind = "legacy" THEN [tx EXCEPT !.vin[i].sig = <<i>> \o @]
               ELSE [tx EXCEPT !.wit[i] = <<i>> \o @]
      /\ UNCHANGED <<spent, changes>>

\* Every signed input notes the change; each is made once.
Note(what) ==
  /\ what \notin {c[1] : c \in changes}
  /\ Cardinality({c[1] : c \in changes}) < MaxChanges
  /\ \E i \in DOMAIN sigs : sigs[i] # NotSigned
  /\ changes' = changes \cup {<<what, i>> : i \in {j \in DOMAIN sigs : sigs[j] # NotSigned}}

SetTx(t) == tx' = t /\ UNCHANGED <<spent, path, sigs>>
SetVersion == Note(<<"version", 0>>) /\ SetTx([tx EXCEPT !.version = 2])
SetLock == Note(<<"lock", 0>>) /\ SetTx([tx EXCEPT !.lock = 2])
SetInput ==
  \E j \in DOMAIN tx.vin :
    \/ Note(<<"prevout", j>>) /\ SetTx([tx EXCEPT !.vin[j].prevout = 9])
    \/ Note(<<"seq", j>>) /\ SetTx([tx EXCEPT !.vin[j].seq = 9])
SetSpent ==
  /\ \E j \in DOMAIN spent :
       \/ Note(<<"amount", j>>) /\ spent' = [spent EXCEPT ![j].amount = 9]
       \/ Note(<<"script", j>>) /\ spent' = [spent EXCEPT ![j].script[1] = 9]
       \/ Note(<<"separator", j>>) /\ spent' = [spent EXCEPT ![j].script = <<SEPARATOR>> \o @]
  /\ UNCHANGED <<tx, path, sigs>>
\* Another annex or none, another leaf, version or separator, the other path.
SetPath ==
  /\ \E j \in {k \in DOMAIN sigs : sigs[k] # NotSigned /\ sigs[k].kind = "taproot"} :
       \/ Note(<<"annex", j>>) /\ \E a \in {NoAnnex, 2} \ {path[j].annex} : path' = [path EXCEPT ![j].annex = a]
       \/ Note(<<"leaf", j>>) /\ path' = [path EXCEPT ![j].leaf_script = NoSeparators(@)]
       \/ Note(<<"leaf", j>>) /\ path' = [path EXCEPT ![j].leaf_ver = 2]
       \/ Note(<<"leaf", j>>) /\ path' = [path EXCEPT ![j].codeseparator_pos = 1]
       \/ Note(<<"scriptpath", j>>) /\ path' = [path EXCEPT ![j].scriptpath = ~@]
  /\ UNCHANGED <<tx, spent, sigs>>
SetOutput == \E j \in DOMAIN tx.vout : Note(<<"out", j>>) /\ SetTx([tx EXCEPT !.vout[j] = 9])
AddOutput ==
  /\ Len(tx.vout) < 3 /\ Note(<<"out", Len(tx.vout) + 1>>)
  /\ SetTx([tx EXCEPT !.vout = Append(@, 8)])
DropOutput ==
  /\ tx.vout # <<>> /\ Note(<<"out", Len(tx.vout)>>)
  /\ SetTx([tx EXCEPT !.vout = Front(@)])
AddInput ==
  /\ Len(tx.vin) = 2 /\ Note(<<"inputs", 0>>)
  /\ tx' = [tx EXCEPT !.vin = Append(@, NewInput(3)), !.wit = Append(@, <<>>)]
  /\ spent' = Append(spent, NewSpent(3))
  /\ path' = Append(path, KeyPath)
  /\ sigs' = Append(sigs, NotSigned)

SighashNext ==
  SignInput \/ SetVersion \/ SetLock \/ SetInput \/ SetSpent \/ SetPath \/ SetOutput \/ AddOutput \/ DropOutput \/ AddInput

----------------------------------------------------------------------------
(* Properties. *)

\* What the signature of an input commits to, as the BIPs say it.
Commits(i, s, what) ==
  LET kind == s.kind
      ht == s.ht
      j == what[2]
  IN CASE what[1] \in {"version", "lock"} -> TRUE
    [] what[1] = "inputs" -> ~ht.acp
    [] what[1] = "prevout" -> j = i \/ ~ht.acp
    [] what[1] = "seq" -> j = i \/ (~ht.acp /\ (kind = "taproot" \/ ht.out = "ALL"))
    [] what[1] = "out" -> ht.out \in {"ALL", "DEFAULT"} \/ (ht.out = "SINGLE" /\ j = i)
    [] what[1] = "amount" -> (kind # "legacy" /\ j = i) \/ (kind = "taproot" /\ ~ht.acp)
    [] what[1] = "script" -> j = i \/ (kind = "taproot" /\ ~ht.acp)
    [] what[1] = "separator" -> (kind # "legacy" /\ j = i) \/ (kind = "taproot" /\ ~ht.acp)
    [] what[1] \in {"annex", "scriptpath"} -> j = i
    [] what[1] = "leaf" -> j = i /\ s.scriptpath

\* A signature stays good through the signing of other inputs in any order and
\* through changes of what its hash type leaves open (for a legacy one also the
\* separators of its script), and no other change of the transaction, of the
\* outputs spent or of the way a taproot input is spent goes unnoticed: it holds
\* for the transaction as it is exactly if nothing that it commits to was changed
\* since it was made.
SignaturesHold ==
  \A i \in DOMAIN sigs :
    sigs[i] # NotSigned =>
      (SignatureMsg(sigs[i].kind, tx, spent, path, i, sigs[i].ht) = sigs[i].msg)
        = (\A c \in changes : c[2] = i => ~Commits(i, sigs[i], c[1]))
=============================================================================
