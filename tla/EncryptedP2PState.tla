-------------------------- MODULE EncryptedP2PState -------------------------
(***************************************************************************)
(* src/miner_imports/test_framework/v2_p2p.py: the BIP324 handshake and    *)
(* packets, as operators on the state of one end.  Lengths are scaled: an  *)
(* ElligatorSwift key of 64 bytes is KEY_LEN symbols, the 16 bytes of a v1 *)
(* version message by which a responder tells v1 from v2 are the two       *)
(* symbols of V1Prefix, a garbage terminator, the encrypted length and the *)
(* encrypted contents of a packet are one symbol each.                     *)
(*                                                                         *)
(* A cipher is its position: what was encrypted as packet number n of a    *)
(* session decrypts only as packet number n of that session.  The keys a   *)
(* shared secret gives are the pair of the two public keys it comes from.  *)
(***************************************************************************)
EXTENDS Integers, Sequences, SequencesExt

CONSTANTS
  KEY_LEN,           \* symbols of an ElligatorSwift key
  MAX_GARBAGE_LEN    \* most garbage an end sends

ASSUME KeyAssumption == KEY_LEN \in Nat /\ KEY_LEN > 2 /\ MAX_GARBAGE_LEN \in Nat

----------------------------------------------------------------------------
(* Symbols on the wire. *)

Magic == [k |-> "magic"]
TypeOf(m) == [k |-> "type", m |-> m]
Payload(m, n) == [k |-> "payload", m |-> m, n |-> n]
Version == [t |-> "version"]
V1Prefix == <<Magic, TypeOf(Version)>>

\* Key number k; the first `same` bytes may happen to be those of V1Prefix.
KeySyms(k, same) == [i \in 1 .. KEY_LEN |->
  IF i <= same THEN V1Prefix[i] ELSE [k |-> "key", id |-> k, i |-> i]]

Garbage == [k |-> "garbage"]
Term(s, side) == [k |-> "term", s |-> s, side |-> side]
LenSym(s, side, n) == [k |-> "len", s |-> s, side |-> side, n |-> n]
BodySym(s, side, n, aad, m) ==
  [k |-> "body", s |-> s, side |-> side, n |-> n, aad |-> aad, m |-> m]

Drop(q, n) == SubSeq(q, n + 1, Len(q))
\* n pieces of k symbols each, one behind the other.
Joined(n, k, piece(_)) == [j \in 1 .. n * k |-> piece((j - 1) \div k + 1)[((j - 1) % k) + 1]]
Lesser(a, b) == IF a < b THEN a ELSE b

NoKey == 0
NoSession == <<NoKey, NoKey>>
Decoy == [t |-> "decoy"]
Empty == [t |-> "empty"]    \* the transport version packet

\* EncryptedP2PState.__init__: contents_len is -1 while the length of the next
\* packet is not decrypted.  sendN, recvL and recvP are the ciphers' positions.
NewState(initiating) ==
  [initiating |-> initiating, privkey |-> NoKey, sent_garbage |-> 0, received_garbage |-> 0,
   received_prefix |-> <<>>, tried |-> FALSE, contents_len |-> -1, found |-> FALSE,
   session |-> NoSession, sendN |-> 0, recvL |-> 0, recvP |-> 0]

Side(st) == IF st.initiating THEN "initiator" ELSE "responder"
OtherSide(st) == IF st.initiating THEN "responder" ELSE "initiator"

\* v2_ecdh: the initiator's public key is placed first.
v2_ecdh(st, theirs) ==
  IF st.initiating THEN <<st.privkey, theirs>> ELSE <<theirs, st.privkey>>

\* generate_keypair_and_garbage: g symbols of garbage.
generate_keypair_and_garbage(st, key, g) ==
  [st |-> [st EXCEPT !.privkey = key, !.sent_garbage = g],
   bytes |-> KeySyms(key, 0) \o [i \in 1 .. g |-> Garbage]]

\* respond_v2_handshake: reads while the bytes agree with V1Prefix.  `length` is
\* what it returns as consumed: all of received_prefix, also what earlier calls
\* have read.
respond_v2_handshake(st, buf) ==
  LET old == Len(st.received_prefix)
      seen == SubSeq(st.received_prefix \o buf, 1, Lesser(Len(V1Prefix), old + Len(buf)))
      wrong == {i \in (old + 1) .. Len(seen) : seen[i] # V1Prefix[i]}
      read == IF wrong = {} THEN Len(seen) ELSE Min(wrong)
  IN [st |-> [st EXCEPT !.received_prefix = SubSeq(seen, 1, read)],
      length |-> read,
      lost |-> Lesser(read, Len(buf)) > read - old,
      answer |-> IF wrong # {} THEN "v2" ELSE IF read = Len(V1Prefix) THEN "v1" ELSE "wait"]

\* v2_enc_packet
v2_enc_packet(st, m, aad) ==
  [st |-> [st EXCEPT !.sendN = @ + 1],
   bytes |-> <<LenSym(st.session, Side(st), st.sendN),
               BodySym(st.session, Side(st), st.sendN, aad, m)>>]

\* The garbage terminator, `decoys` decoy packets and the version packet; the
\* first packet authenticates the garbage.
Opening(st, decoys) ==
  LET pkt(i) == <<LenSym(st.session, Side(st), i - 1),
                  BodySym(st.session, Side(st), i - 1, IF i = 1 THEN st.sent_garbage ELSE 0,
                          IF i <= decoys THEN Decoy ELSE Empty)>>
  IN <<Term(st.session, Side(st))>> \o Joined(decoys + 1, 2, pkt)

\* The number of the key these symbols are, or NoKey when they are none.
KeyOf(syms, keys, same) ==
  IF \E k \in keys : syms = KeySyms(k, same) \/ syms = KeySyms(k, 0)
  THEN CHOOSE k \in keys : syms = KeySyms(k, same) \/ syms = KeySyms(k, 0)
  ELSE NoKey

\* complete_handshake; keys and same tell what the symbols of a key stand for.
complete_handshake(st, buf, decoys, keys, same) ==
  LET theirs == st.received_prefix \o SubSeq(buf, 1, Lesser(Len(buf), KEY_LEN - Len(st.received_prefix)))
      st2 == [st EXCEPT !.session = v2_ecdh(st, KeyOf(theirs, keys, same))]
  IN IF Len(theirs) # KEY_LEN
     THEN [st |-> st, length |-> 0, bytes |-> <<>>]
     ELSE [st |-> [st2 EXCEPT !.sendN = decoys + 1],
           length |-> KEY_LEN - Len(st.received_prefix),
           bytes |-> Opening(st2, decoys)]

\* v2_receive_packet: the length is decrypted once, when it is there; the
\* contents when all of them are.  -1 for what does not authenticate.
v2_receive_packet(st, buf, aad) ==
  LET fresh == st.contents_len = -1
      n == IF fresh THEN st.recvL ELSE st.recvL - 1
      st1 == [st EXCEPT !.recvL = n + 1, !.contents_len = 1]
  IN IF Len(buf) = 0 THEN [st |-> st, length |-> 0, m |-> Decoy]
     ELSE IF buf[1] # LenSym(st.session, OtherSide(st), n)
     THEN [st |-> st1, length |-> -1, m |-> Decoy]
     ELSE IF Len(buf) < 2 THEN [st |-> st1, length |-> 0, m |-> Decoy]
     ELSE IF buf[2].k # "body" \/ buf[2] # BodySym(st.session, OtherSide(st), st.recvP, aad, buf[2].m)
     THEN [st |-> st1, length |-> -1, m |-> Decoy]
     ELSE [st |-> [st1 EXCEPT !.recvP = @ + 1, !.contents_len = -1], length |-> 2, m |-> buf[2].m]

\* authenticate_handshake, first part: looks for the terminator behind at most
\* MAX_GARBAGE_LEN symbols; nothing is consumed until it is there.
FindTerminator(st, buf) ==
  LET at == {i \in 1 .. Lesser(Len(buf), MAX_GARBAGE_LEN + 1) : buf[i] = Term(st.session, OtherSide(st))}
  IN IF at # {}
     THEN [st |-> [st EXCEPT !.found = TRUE, !.received_garbage = Min(at) - 1],
           length |-> Min(at), ok |-> TRUE]
     ELSE [st |-> st, length |-> 0, ok |-> Len(buf) < MAX_GARBAGE_LEN + 2]

\* authenticate_handshake, one turn of its second part: decoys, then the version.
AuthPacket(st, buf) ==
  LET r == v2_receive_packet(st, buf, st.received_garbage)
  IN [st |-> IF r.length > 0
             THEN [r.st EXCEPT !.received_garbage = 0, !.tried = (r.m # Decoy)]
             ELSE r.st,
      length |-> IF r.length > 0 THEN r.length ELSE 0,
      ok |-> r.length # -1,
      more |-> r.length > 0 /\ r.m = Decoy]
=============================================================================
