---------------------------- MODULE MessageRelay ----------------------------
(***************************************************************************)
(* An object of messages.py that is sent on: it is serialized and          *)
(* deserialized again and again, with or without witness, as a node and    *)
(* the peers of a test pass it.                                            *)
(***************************************************************************)
EXTENDS WireFormat

CONSTANT MaxHops    \* bound: how often a message is sent on

VARIABLE msg    \* kind of the object, the object first made and now, what was left unread

Compact(witness) == msg_cmpctblock(witness)

\* The classes that carry each kind of object.
Carriers ==
  [version |-> {msg_version}, addr |-> {msg_addr}, addrv2 |-> {msg_addrv2},
   inv |-> {msg_inv, msg_getdata, msg_notfound}, locator |-> {msg_getblocks, msg_getheaders},
   tx |-> {msg_tx, msg_no_witness_tx}, block |-> {msg_block, msg_no_witness_block},
   nothing |-> {msg_verack, msg_sendaddrv2, msg_wtxidrelay, msg_getaddr, msg_mempool,
                msg_sendheaders, msg_filterclear},
   nonce |-> {msg_ping, msg_pong, msg_feefilter}, headers |-> {msg_headers},
   merkleblock |-> {msg_merkleblock}, filterload |-> {msg_filterload}, filteradd |-> {msg_filteradd},
   sendcmpct |-> {msg_sendcmpct}, cmpctblock |-> {Compact(TRUE), Compact(FALSE)},
   getblocktxn |-> {msg_getblocktxn}, blocktxn |-> {msg_blocktxn, msg_no_witness_blocktxn},
   getcfilters |-> {msg_getcfilters, msg_getcfheaders}, cfilter |-> {msg_cfilter},
   cfheaders |-> {msg_cfheaders}, getcfcheckpt |-> {msg_getcfcheckpt}, cfcheckpt |-> {msg_cfcheckpt},
   sendtxrcncl |-> {msg_sendtxrcncl}, psbt |-> {Class(<<Psbt>>, <<Psbt>>)}]
Kinds == DOMAIN Carriers

----------------------------------------------------------------------------
(* Samples: a value of each layout for each of a few profiles; profile 3   *)
(* has vectors and strings of the first length that needs a mark.          *)

Profiles == 0 .. 3
Count(p) == IF p = 3 THEN Base - 3 ELSE p

Input(n) == <<<<n, 0>>, [i \in 1 .. Count(n) |-> 1], 3>>
Stack(n) == <<[i \in 1 .. n |-> <<i>>]>>
Txs ==
  {tx \in [version : {2}, vin : {<<>>, <<Input(0)>>, <<Input(1), Input(3)>>}, vout : {<<>>, <<<<-1, <<4>>>>>>},
           wit : {<<>>, <<Stack(0)>>, <<Stack(1)>>, <<Stack(0), Stack(2)>>, <<Stack(1), Stack(0), Stack(1)>>},
           lock : {0, 9}] :
     tx.vin # <<>> \/ tx.vout = <<>>}
SomeTx(p) == [version |-> 2, vin |-> <<Input(1), Input(p)>>, vout |-> <<>>, wit |-> <<Stack(p)>>, lock |-> p]

\* What generate_psbt makes: one input and one output; p entries more in each map.
More(p) == [i \in 1 .. p |-> <<<<3, i>>, [j \in 1 .. Count(p) |-> j]>>]
SomePsbt(p) ==
  [g |-> <<<<PSBT_GLOBAL_UNSIGNED_TX,
             SerTx([version |-> 0, vin |-> <<Input(1)>>, vout |-> <<<<0, <<>>>>>>, wit |-> <<>>, lock |-> 0], TRUE)>>>>
         \o More(p),
   i |-> <<More(p)>>, o |-> <<More(Count(p) % 2)>>]

RECURSIVE Sample(_, _)
Sample(t, p) ==
  CASE t.k = "number" -> IF p = 2 THEN Base - 1 ELSE p
    [] t.k = "signed" -> IF p = 2 THEN -1 ELSE p
    [] t.k = "port" -> p * Base + 1
    [] t.k = "size" -> IF p = 2 THEN Base^2 ELSE Count(p)
    [] t.k = "string" -> [i \in 1 .. Count(p) |-> i]
    [] t.k = "raw" -> [i \in 1 .. t.n |-> p]
    [] t.k = "low" -> p * Base^4
    [] t.k = "bits" -> [i \in 1 .. 2 * p |-> i % 2 = 1]
    [] t.k = "vector" -> [i \in 1 .. Count(p) |-> Sample(t.of, IF i = p THEN p ELSE 1)]
    [] t.k = "record" -> [i \in 1 .. Len(t.fields) |-> Sample(t.fields[i], p)]
    [] t.k = "given" -> t.v
    [] t.k = "pad" -> 0
    [] t.k = "address" -> LET n == <<1, 2, 4, 5>>[p + 1]
                          IN [net |-> n, ip |-> IpText(n, [i \in 1 .. ADDRV2_ADDRESS_LENGTH[n] |-> i])]
    [] t.k = "tx" -> SomeTx(p)
    [] t.k = "psbt" -> SomePsbt(p)

\* The compact block of a block of n transactions, in which number i has the
\* short id and the lock time i.
CompactBlock(n, prefill) ==
  LET b == initialize_from_block(n, prefill)
      diff == from_absolute(b.prefilled)
  IN <<<<Sample(CBlockHeader.w, 1), 1, b.shortids,
         [i \in 1 .. Len(diff) |-> <<diff[i], [SomeTx(1) EXCEPT !.lock = b.prefilled[i]]>>]>>>>

Samples(kind) ==
  IF kind = "tx" THEN {<<tx>> : tx \in Txs}
  ELSE IF kind = "cmpctblock"
  THEN {CompactBlock(3, SetToSortSeq(S, <)) : S \in SUBSET (0 .. 2)} \cup {CompactBlock(Base - 2, <<0, 4>>)}
  ELSE {Sample(c.w, p) : c \in Carriers[kind], p \in Profiles}

----------------------------------------------------------------------------
NoMessage == [kind |-> "none", first |-> <<>>, now |-> <<>>, rest |-> <<>>, hops |-> 0, stripped |-> FALSE]

RelayInit == msg = NoMessage

Make ==
  /\ msg.kind = "none"
  /\ \E kind \in Kinds : \E x \in Samples(kind) :
       msg' = [NoMessage EXCEPT !.kind = kind, !.first = x, !.now = x]

Strips(c) == c \in {msg_no_witness_tx, msg_no_witness_block, msg_no_witness_blocktxn, Compact(FALSE)}

\* from_binary(cls, obj.serialize())
Hop ==
  /\ msg.kind # "none" /\ msg.hops < MaxHops
  /\ \E c \in Carriers[msg.kind] :
       LET d == Deser(c.r, Ser(c.w, msg.now)) IN
       msg' = [msg EXCEPT !.now = d.v, !.rest = d.f, !.hops = @ + 1, !.stripped = @ \/ Strips(c)]

RelayNext == Make \/ Hop

----------------------------------------------------------------------------
(* Properties. *)

\* What may change when x is sent: a witness of empty stacks, or one that is
\* not asked for, is gone, any other has as many stacks as there are inputs;
\* flags of a merkle tree fill their last byte.
RECURSIVE Normal(_, _, _)
Normal(t, x, stripped) ==
  CASE t.k = "tx" -> [x EXCEPT !.wit = IF stripped \/ WitnessNull(x.wit) THEN <<>> ELSE Fitted(x)]
    [] t.k = "vector" -> [i \in 1 .. Len(x) |-> Normal(t.of, x[i], stripped)]
    [] t.k = "record" -> [i \in 1 .. Len(t.fields) |-> Normal(t.fields[i], x[i], stripped)]
    [] t.k = "bits" -> x \o [i \in 1 .. (-Len(x)) % BYTE_BITS |-> FALSE]
    [] OTHER -> x

\* However often a message is sent on, deserialize reads what serialize wrote,
\* and reads all of it (the assertion of from_binary), in every class: at the
\* lengths where a compact size grows, with the witness marker, and with what the
\* two methods treat differently.  Twice the normal form: a witness that was cut
\* to the inputs may be null then.  The id of a transaction is the same on every
\* hop, and its wtxid is the txid exactly when no witness is left.
SentOnUnchanged ==
  msg.hops > 0 =>
    /\ msg.rest = <<>>
    /\ LET w == (CHOOSE c \in Carriers[msg.kind] : TRUE).w
           once == Normal(w, msg.first, msg.stripped)
       IN msg.now \in {once, Normal(w, once, msg.stripped)}
    /\ msg.kind = "tx" =>
         /\ SerTx(msg.now[1], FALSE) = SerTx(msg.first[1], FALSE)
         /\ (SerTx(msg.now[1], TRUE) = SerTx(msg.now[1], FALSE)) = WitnessNull(msg.now[1].wit)

\* A compact block that came over the wire gives back the block: its prefilled
\* transactions lie where to_absolute says, the short ids fill the gaps in order.
CompactRebuilds ==
  msg.kind = "cmpctblock" =>
    LET ids == msg.now[1][3]
        txs == msg.now[1][4]
        at == to_absolute([i \in 1 .. Len(txs) |-> txs[i][1]])
        gaps == SetToSortSeq((0 .. Len(ids) + Len(txs) - 1) \ ToSet(at), <)
    IN /\ Len(gaps) = Len(ids)
       /\ \A i \in DOMAIN at : txs[i][2].lock = at[i]
       /\ \A i \in DOMAIN gaps : ids[i] = gaps[i]
=============================================================================
