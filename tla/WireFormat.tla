----------------------------- MODULE WireFormat -----------------------------
(***************************************************************************)
(* src/miner_imports/test_framework/messages.py: the classes that go over  *)
(* the wire.  Each class is two layouts, what serialize writes and what    *)
(* deserialize reads, each taken from its own method.  A layout is a field *)
(* kind; the value of a class is the tuple of its fields, in order.        *)
(*                                                                         *)
(* A byte has Base values, so the one-byte marks of a compact size are     *)
(* Base - 3 to Base - 1 (253 to 255 when Base is 256), and BYTE_BITS bits. *)
(* Widths of numbers are those of the code; a uint256 has HASH_LEN bytes.  *)
(***************************************************************************)
EXTENDS Integers, Sequences, SequencesExt, FiniteSets

CONSTANTS BYTE_BITS, HASH_LEN

ASSUME ByteAssumption == BYTE_BITS \in Nat /\ BYTE_BITS > 2 /\ HASH_LEN \in Nat \ {0}

Base == 2^BYTE_BITS

----------------------------------------------------------------------------
(* Numbers, strings and vectors. *)

Read(f, n) == SubSeq(f, 1, IF n < Len(f) THEN n ELSE Len(f))    \* f.read(n): may be short
Past(f, n) == SubSeq(f, n + 1, Len(f))

\* int.to_bytes(w, "little"), and int.from_bytes of however many bytes came.
ToBytes(v, w) == [i \in 1 .. w |-> (v \div Base^(i - 1)) % Base]
FromBytes(s) == FoldLeft(LAMBDA v, i : v + s[i] * Base^(i - 1), 0, [i \in 1 .. Len(s) |-> i])
Signed(v, w) == IF v >= (Base^w) \div 2 THEN v - Base^w ELSE v

\* Mutant: the largest length of one byte is written as the first mark.
ser_compact_size_OffByOne(l) ==
  CASE l <= Base - 3 -> ToBytes(l, 1)
    [] l > Base - 3 /\ l < Base^2 -> <<Base - 3>> \o ToBytes(l, 2)
    [] l >= Base^2 /\ l < Base^4 -> <<Base - 2>> \o ToBytes(l, 4)
    [] l >= Base^4 -> <<Base - 1>> \o ToBytes(l, 8)

ser_compact_size(l) ==
  CASE l < Base - 3 -> ToBytes(l, 1)
    [] l >= Base - 3 /\ l < Base^2 -> <<Base - 3>> \o ToBytes(l, 2)
    [] l >= Base^2 /\ l < Base^4 -> <<Base - 2>> \o ToBytes(l, 4)
    [] l >= Base^4 -> <<Base - 1>> \o ToBytes(l, 8)

\* What is read, and the stream behind it.
Got(v, f) == [v |-> v, f |-> f]

deser_compact_size(f) ==
  LET n == FromBytes(Read(f, 1))
      wide == IF n = Base - 3 THEN 2 ELSE IF n = Base - 2 THEN 4 ELSE 8
  IN IF n < Base - 3 THEN Got(n, Past(f, 1))
     ELSE Got(FromBytes(Read(Past(f, 1), wide)), Past(f, 1 + wide))

ser_string(s) == ser_compact_size(Len(s)) \o s

deser_string(f) ==
  LET n == deser_compact_size(f) IN Got(Read(n.f, n.v), Past(n.f, n.v))

----------------------------------------------------------------------------
(* Kinds of fields. *)

U(w) == [k |-> "number", w |-> w]
I(w) == [k |-> "signed", w |-> w]
Port == [k |-> "port"]                        \* two bytes, "big"
Size == [k |-> "size"]                        \* a compact size
Hash == [k |-> "number", w |-> HASH_LEN]      \* ser_uint256, deser_uint256
Str == [k |-> "string"]
Raw(n) == [k |-> "raw", n |-> n]
Low(w, n) == [k |-> "low", w |-> w, n |-> n]  \* the first n of w bytes
Bits == [k |-> "bits"]
Vec(t) == [k |-> "vector", of |-> t]          \* ser_vector, deser_vector and the vectors of hashes and strings
Rec(fields) == [k |-> "record", fields |-> fields]
Given(v) == [k |-> "given", v |-> v]          \* not on the wire: the reader sets v
Pad(bytes) == [k |-> "pad", bytes |-> bytes]  \* written as these bytes, read and ignored
Ignored(t) == [k |-> "ignored", of |-> t]     \* read and ignored
NetAddr == [k |-> "address"]
Tx(witness) == [k |-> "tx", witness |-> witness]
Psbt == [k |-> "psbt"]

\* A class: what serialize writes and what deserialize reads.
Class(writes, reads) == [w |-> Rec(writes), r |-> Rec(reads)]

----------------------------------------------------------------------------
(* The parts of messages. *)

\* CAddress, addrv1 format: time, nServices, twelve bytes, the address, the
\* port; net is not written.  The value has net last.
NET_IPV4 == 1
V4Pad == [i \in 1 .. 12 |-> IF i <= 10 THEN 0 ELSE Base - 1]
CAddress == Class(<<U(4), U(8), Pad(V4Pad), Raw(4), Port, Given(NET_IPV4)>>,
                  <<U(4), U(8), Pad(V4Pad), Raw(4), Port, Given(NET_IPV4)>>)
\* with_time=False: what __init__ gave the reader's object stays.
CAddressNoTime == Class(<<Given(0), U(8), Pad(V4Pad), Raw(4), Port, Given(NET_IPV4)>>,
                        <<Given(0), U(8), Pad(V4Pad), Raw(4), Port, Given(NET_IPV4)>>)

\* ADDRV2_ADDRESS_LENGTH, scaled: IPv4, IPv6, TorV3, I2P, CJDNS.
NET_TORV3 == 4
ADDRV2_ADDRESS_LENGTH == [n \in {1, 2, 4, 5, 6} |-> CASE n = 1 -> 2 [] n \in {2, 6} -> 3 [] n \in {4, 5} -> 4]
\* The ip of a TorV3 address ends in a checksum and a version that are not sent.
OnionTail(b) == <<FoldLeft(LAMBDA x, y : (x + y) % Base, 0, b), 3>>
IpText(net, b) == IF net = NET_TORV3 THEN b \o OnionTail(b) ELSE b
IpBytes(net, ip) == IF net = NET_TORV3 THEN SubSeq(ip, 1, ADDRV2_ADDRESS_LENGTH[net]) ELSE ip
\* serialize_v2, deserialize_v2
CAddressV2 == Class(<<U(4), Size, NetAddr, Port>>, <<U(4), Size, NetAddr, Port>>)

CInv == Class(<<U(4), Hash>>, <<U(4), Hash>>)
CBlockLocator == Class(<<Pad(<<0, 0, 0, 0>>), Vec(Hash)>>, <<Ignored(I(4)), Vec(Hash)>>)
COutPoint == Class(<<Hash, U(4)>>, <<Hash, U(4)>>)
CTxIn == Class(<<COutPoint.w, Str, U(4)>>, <<COutPoint.r, Str, U(4)>>)
CTxOut == Class(<<I(8), Str>>, <<I(8), Str>>)
CTxInWitness == Class(<<Vec(Str)>>, <<Vec(Str)>>)
CBlockHeader == Class(<<I(4), Hash, Hash, U(4), U(4), U(4)>>, <<I(4), Hash, Hash, U(4), U(4), U(4)>>)
CBlock(witness) == Class(<<CBlockHeader.w, Vec(Tx(witness))>>, <<CBlockHeader.r, Vec(Tx(TRUE))>>)
PrefilledTransaction(witness) == Class(<<Size, Tx(witness)>>, <<Size, Tx(TRUE)>>)
P2PHeaderAndShortIDs(witness) ==
  Class(<<CBlockHeader.w, U(8), Vec(Low(8, 6)), Vec(PrefilledTransaction(witness).w)>>,
        <<CBlockHeader.r, U(8), Vec(U(6)), Vec(PrefilledTransaction(TRUE).r)>>)
BlockTransactionsRequest == Class(<<Hash, Vec(Size)>>, <<Hash, Vec(Size)>>)
BlockTransactions(witness) == Class(<<Hash, Vec(Tx(witness))>>, <<Hash, Vec(Tx(TRUE))>>)
CPartialMerkleTree == Class(<<U(4), Vec(Hash), Bits>>, <<U(4), Vec(Hash), Bits>>)
CMerkleBlock == Class(<<CBlockHeader.w, CPartialMerkleTree.w>>, <<CBlockHeader.r, CPartialMerkleTree.r>>)

----------------------------------------------------------------------------
(* The messages. *)

msg_version ==
  Class(<<I(4), U(8), I(8), CAddressNoTime.w, CAddressNoTime.w, U(8), Str, I(4), U(1)>>,
        <<I(4), U(8), I(8), CAddressNoTime.r, CAddressNoTime.r, U(8), Str, I(4), U(1)>>)
msg_verack == Class(<<>>, <<>>)
msg_addr == Class(<<Vec(CAddress.w)>>, <<Vec(CAddress.r)>>)
msg_addrv2 == Class(<<Vec(CAddressV2.w)>>, <<Vec(CAddressV2.r)>>)
msg_sendaddrv2 == Class(<<>>, <<>>)
msg_inv == Class(<<Vec(CInv.w)>>, <<Vec(CInv.r)>>)
msg_getdata == Class(<<Vec(CInv.w)>>, <<Vec(CInv.r)>>)
msg_getblocks == Class(<<CBlockLocator.w, Hash>>, <<CBlockLocator.r, Hash>>)
msg_tx == Class(<<Tx(TRUE)>>, <<Tx(TRUE)>>)
msg_wtxidrelay == Class(<<>>, <<>>)
msg_no_witness_tx == Class(<<Tx(FALSE)>>, <<Tx(TRUE)>>)
msg_block == Class(<<CBlock(TRUE).w>>, <<CBlock(TRUE).r>>)
msg_no_witness_block == Class(<<CBlock(FALSE).w>>, <<CBlock(FALSE).r>>)
msg_getaddr == Class(<<>>, <<>>)
msg_ping == Class(<<U(8)>>, <<U(8)>>)
msg_pong == Class(<<U(8)>>, <<U(8)>>)
msg_mempool == Class(<<>>, <<>>)
msg_notfound == Class(<<Vec(CInv.w)>>, <<Vec(CInv.r)>>)
msg_sendheaders == Class(<<>>, <<>>)
msg_getheaders == Class(<<CBlockLocator.w, Hash>>, <<CBlockLocator.r, Hash>>)
\* Headers are written and read as blocks without transactions.
msg_headers ==
  Class(<<Vec(Rec(<<CBlockHeader.w, Pad(<<0>>)>>))>>,
        <<Vec(Rec(<<CBlockHeader.r, Ignored(Vec(Tx(TRUE)))>>))>>)
msg_merkleblock == Class(<<CMerkleBlock.w>>, <<CMerkleBlock.r>>)
msg_filterload == Class(<<Str, U(4), U(4), U(1)>>, <<Str, U(4), U(4), U(1)>>)
msg_filteradd == Class(<<Str>>, <<Str>>)
msg_filterclear == Class(<<>>, <<>>)
msg_feefilter == Class(<<U(8)>>, <<U(8)>>)
msg_sendcmpct == Class(<<U(1), U(8)>>, <<U(1), U(8)>>)
msg_cmpctblock(witness) == Class(<<P2PHeaderAndShortIDs(witness).w>>, <<P2PHeaderAndShortIDs(witness).r>>)
msg_getblocktxn == Class(<<BlockTransactionsRequest.w>>, <<BlockTransactionsRequest.r>>)
msg_blocktxn == Class(<<BlockTransactions(TRUE).w>>, <<BlockTransactions(TRUE).r>>)
msg_no_witness_blocktxn == Class(<<BlockTransactions(FALSE).w>>, <<BlockTransactions(FALSE).r>>)
msg_getcfilters == Class(<<U(1), U(4), Hash>>, <<U(1), U(4), Hash>>)
msg_cfilter == Class(<<U(1), Hash, Str>>, <<U(1), Hash, Str>>)
msg_getcfheaders == Class(<<U(1), U(4), Hash>>, <<U(1), U(4), Hash>>)
msg_cfheaders == Class(<<U(1), Hash, Hash, Vec(Hash)>>, <<U(1), Hash, Hash, Vec(Hash)>>)
msg_getcfcheckpt == Class(<<U(1), Hash>>, <<U(1), Hash>>)
msg_cfcheckpt == Class(<<U(1), Hash, Vec(Hash)>>, <<U(1), Hash, Vec(Hash)>>)
msg_sendtxrcncl == Class(<<U(4), U(8)>>, <<U(4), U(8)>>)

----------------------------------------------------------------------------
(* Writing and reading.  A transaction is [version, vin, vout, wit, lock]. *)

\* CTxWitness.is_null
WitnessNull(wit) == \A i \in DOMAIN wit : wit[i][1] = <<>>

\* serialize_with_witness gives wit the length of vin.
Fitted(tx) == [i \in 1 .. Len(tx.vin) |-> IF i <= Len(tx.wit) THEN tx.wit[i] ELSE <<<<>>>>]

RECURSIVE Ser(_, _), Deser(_, _), DeserFields(_, _), DeserMap(_)

\* serialize_with_witness, serialize_without_witness
SerTx(tx, witness) ==
  LET flags == witness /\ ~WitnessNull(tx.wit) IN
  ToBytes(tx.version, 4) \o (IF flags THEN ser_compact_size(0) \o <<1>> ELSE <<>>)
  \o Ser(Vec(CTxIn.w), tx.vin) \o Ser(Vec(CTxOut.w), tx.vout)
  \o (IF flags THEN FlattenSeq([i \in 1 .. Len(tx.vin) |-> Ser(CTxInWitness.w, Fitted(tx)[i])]) ELSE <<>>)
  \o ToBytes(tx.lock, 4)

\* deser_vector's loop, without its length
DeserMany(t, n, f) == DeserFields([i \in 1 .. n |-> t], Got(<<>>, f))

\* CTransaction.deserialize: no inputs and a byte that is not zero mean a witness.
DeserLock(version, vin, vout, wit) ==
  Got([version |-> version, vin |-> vin, vout |-> vout, wit |-> wit.v, lock |-> FromBytes(Read(wit.f, 4))],
      Past(wit.f, 4))
DeserWit(version, flags, vin, vout) ==
  DeserLock(version, vin, vout.v,
            IF flags THEN DeserMany(CTxInWitness.r, Len(vin), vout.f) ELSE Got(<<>>, vout.f))
DeserOuts(version, flags, vin) == DeserWit(version, flags, vin.v, Deser(Vec(CTxOut.r), vin.f))
DeserFlags(version, vin) ==
  IF vin.v # <<>> THEN DeserOuts(version, FALSE, vin)
  ELSE IF FromBytes(Read(vin.f, 1)) # 0 THEN DeserOuts(version, TRUE, Deser(Vec(CTxIn.r), Past(vin.f, 1)))
  ELSE DeserLock(version, <<>>, <<>>, Got(<<>>, Past(vin.f, 1)))
DeserTx(f) == DeserFlags(FromBytes(Read(f, 4)), Deser(Vec(CTxIn.r), Past(f, 4)))

\* The bytes of CPartialMerkleTree.vBits.
BitBytes(bits) ==
  [i \in 1 .. (Len(bits) + BYTE_BITS - 1) \div BYTE_BITS |->
     FoldLeft(LAMBDA v, j : IF (i - 1) * BYTE_BITS + j <= Len(bits) /\ bits[(i - 1) * BYTE_BITS + j]
                            THEN v + 2^(j - 1) ELSE v, 0, [j \in 1 .. BYTE_BITS |-> j])]
ByteBits(bytes) ==
  [i \in 1 .. Len(bytes) * BYTE_BITS |->
     (bytes[(i - 1) \div BYTE_BITS + 1] \div 2^((i - 1) % BYTE_BITS)) % 2 = 1]

\* psbt.py, PSBTMap: pairs of a key and a value; an empty key, or the end of the
\* stream, ends the map.
WithPair(got, k, v) == Got(Append(got.v, <<k, v.v>>), v.f)
SerMap(m) == FlattenSeq([i \in 1 .. Len(m) |-> ser_string(m[i][1]) \o ser_string(m[i][2])]) \o <<0>>
DeserMap(got) ==
  LET k == deser_string(got.f)
  IN IF k.v = <<>> THEN Got(got.v, k.f) ELSE DeserMap(WithPair(got, k.v, deser_string(k.f)))

\* PSBT: the global map has the unsigned transaction under key 0, which tells how
\* many input and output maps follow.
PSBT_GLOBAL_UNSIGNED_TX == <<0>>
PsbtMagic == <<1, 2, 3, 4, Base - 1>>
UnsignedTx(g) == DeserTx((CHOOSE i \in ToSet(g) : i[1] = PSBT_GLOBAL_UNSIGNED_TX)[2]).v
SerPsbt(p) ==
  PsbtMagic \o FlattenSeq([i \in 1 .. 1 + Len(p.i) + Len(p.o) |-> SerMap((<<p.g>> \o p.i \o p.o)[i])])
DeserOutMaps(g, i, o) == Got([g |-> g, i |-> i, o |-> o.v], o.f)
DeserInMaps(g, tx, i) == DeserOutMaps(g, i.v, DeserMany([k |-> "map"], Len(tx.vout), i.f))
DeserMaps(g, tx) == DeserInMaps(g.v, tx, DeserMany([k |-> "map"], Len(tx.vin), g.f))
DeserGlobal(g) == DeserMaps(g, UnsignedTx(g.v))
DeserPsbt(f) == DeserGlobal(DeserMap(Got(<<>>, Past(f, 5))))

Ser(t, x) ==
  CASE t.k = "number" -> ToBytes(x, t.w)
    [] t.k = "signed" -> ToBytes(IF x < 0 THEN x + Base^t.w ELSE x, t.w)
    [] t.k = "port" -> Reverse(ToBytes(x, 2))
    [] t.k = "size" -> ser_compact_size(x)
    [] t.k = "string" -> ser_string(x)
    [] t.k = "raw" -> x
    [] t.k = "low" -> SubSeq(ToBytes(x, t.w), 1, t.n)
    [] t.k = "bits" -> ser_string(BitBytes(x))
    [] t.k = "vector" -> ser_compact_size(Len(x)) \o FlattenSeq([i \in 1 .. Len(x) |-> Ser(t.of, x[i])])
    [] t.k = "record" -> FlattenSeq([i \in 1 .. Len(t.fields) |-> Ser(t.fields[i], x[i])])
    [] t.k = "given" -> <<>>
    [] t.k = "pad" -> t.bytes
    [] t.k = "address" -> <<x.net>> \o ser_compact_size(ADDRV2_ADDRESS_LENGTH[x.net]) \o IpBytes(x.net, x.ip)
    [] t.k = "tx" -> SerTx(x, t.witness)
    [] t.k = "psbt" -> SerPsbt(x)

\* One field after the other.
WithField(got, one) == Got(Append(got.v, one.v), one.f)
DeserFields(fields, got) ==
  IF fields = <<>> THEN got
  ELSE DeserFields(Tail(fields), WithField(got, Deser(Head(fields), got.f)))

Deser(t, f) ==
  CASE t.k = "number" -> Got(FromBytes(Read(f, t.w)), Past(f, t.w))
    [] t.k = "signed" -> Got(Signed(FromBytes(Read(f, t.w)), t.w), Past(f, t.w))
    [] t.k = "port" -> Got(FromBytes(Reverse(Read(f, 2))), Past(f, 2))
    [] t.k = "size" -> deser_compact_size(f)
    [] t.k = "string" -> deser_string(f)
    [] t.k = "raw" -> Got(Read(f, t.n), Past(f, t.n))
    [] t.k = "bits" -> LET s == deser_string(f) IN Got(ByteBits(s.v), s.f)
    [] t.k = "vector" -> LET n == deser_compact_size(f) IN DeserMany(t.of, n.v, n.f)
    [] t.k = "record" -> DeserFields(t.fields, Got(<<>>, f))
    [] t.k = "given" -> Got(t.v, f)
    [] t.k = "pad" -> Got(0, Past(f, Len(t.bytes)))
    [] t.k = "ignored" -> Got(0, Deser(t.of, f).f)
    [] t.k = "address" ->
         LET net == FromBytes(Read(f, 1))
             n == deser_compact_size(Past(f, 1))
         IN Got([net |-> net, ip |-> IpText(net, Read(n.f, n.v))], Past(n.f, n.v))
    [] t.k = "tx" -> DeserTx(f)
    [] t.k = "psbt" -> DeserPsbt(f)
    [] t.k = "map" -> DeserMap(Got(<<>>, f))

----------------------------------------------------------------------------
(* Differential indexes of compact blocks. *)

\* HeaderAndShortIDs.to_p2p, BlockTransactionsRequest.from_absolute
from_absolute(abs) == [i \in 1 .. Len(abs) |-> abs[i] - (IF i = 1 THEN -1 ELSE abs[i - 1]) - 1]

\* Mutant: the first index is counted from 0 and not from -1.
to_absolute_FromZero(diff) ==
  FoldLeft(LAMBDA abs, x : Append(abs, x + (IF abs = <<>> THEN 0 ELSE Last(abs)) + 1), <<>>, diff)

\* HeaderAndShortIDs.__init__, BlockTransactionsRequest.to_absolute
to_absolute(diff) ==
  FoldLeft(LAMBDA abs, x : Append(abs, x + (IF abs = <<>> THEN -1 ELSE Last(abs)) + 1), <<>>, diff)

\* HeaderAndShortIDs.initialize_from_block: the short ids are those of the
\* transactions that are not in the prefill list.
initialize_from_block(n, prefill) ==
  [prefilled |-> prefill, shortids |-> SetToSortSeq((0 .. n - 1) \ ToSet(prefill), <)]
=============================================================================
