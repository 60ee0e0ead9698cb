---------------------------- MODULE PacketCipher ----------------------------
(***************************************************************************)
(* One direction of an encrypted connection: the ciphers of                *)
(* src/miner_imports/test_framework/crypto/chacha20.py (FSChaCha20, for    *)
(* the length of a packet) and bip324_cipher.py (FSChaCha20Poly1305, for   *)
(* its contents), as v2_p2p.py's v2_enc_packet and v2_receive_packet use   *)
(* them, through several changes of key.                                   *)
(*                                                                         *)
(* A byte of key stream is its key, its nonce and its place in the stream  *)
(* of the blocks 0, 1, ... that they make; a key is where its bytes come   *)
(* from; a byte of ciphertext is the plain byte with the byte of key       *)
(* stream it is combined with.                                             *)
(***************************************************************************)
EXTENDS Integers, SequencesExt

CONSTANTS
  REKEY_INTERVAL,  \* 224
  BLOCK,           \* bytes of a ChaCha20 block (64)
  KEY,             \* bytes of a key (32)
  LENGTH_FIELD_LEN,
  Contents,        \* lengths of contents
  MaxPackets       \* bound: packets that are sent

ASSUME CipherAssumption ==
  /\ {REKEY_INTERVAL, BLOCK, KEY, LENGTH_FIELD_LEN} \subseteq Nat \ {0} /\ Contents \subseteq Nat
  /\ KEY <= BLOCK

VARIABLES
  ends,     \* the ciphers of the sender and of the receiver
  wire,     \* packets under way
  used,     \* every byte of key stream that was used, in order
  got       \* lengths sent, and lengths received

ciphervars == <<ends, wire, used, got>>

\* chacha20_block, of blocks that follow each other: n bytes from a place on.
Stream(key, nonce, from, n) ==
  [i \in 1 .. n |-> [key |-> key, nonce |-> nonce, at |-> from + i - 1]]
\* A key of key stream bytes is named by the first of them.
KeyFrom(stream) == [from |-> stream[1]]

----------------------------------------------------------------------------
(* FSChaCha20 *)

NewLengthCipher == [key |-> [initial |-> "L"], block_counter |-> 0, chunk_counter |-> 0, keystream |-> <<>>]

\* _get_keystream_bytes: blocks are made until there are n bytes.
Filled(c, n) ==
  LET blocks == Min({k \in 0 .. n : Len(c.keystream) + k * BLOCK >= n})
      nonce == <<0, c.chunk_counter \div REKEY_INTERVAL>>
  IN [c EXCEPT !.keystream = @ \o Stream(c.key, nonce, c.block_counter * BLOCK, blocks * BLOCK),
               !.block_counter = @ + blocks]
Taken(c, n) == [bytes |-> SubSeq(Filled(c, n).keystream, 1, n),
                c |-> [Filled(c, n) EXCEPT !.keystream = SubSeq(@, n + 1, Len(@))]]

\* crypt: the bytes for the chunk, those of the next key, the cipher after it.
crypt(c, n) ==
  LET ks == Taken(c, n)
      next == Taken(ks.c, KEY)
      rekey == (c.chunk_counter + 1) % REKEY_INTERVAL = 0
      after == IF rekey THEN [next.c EXCEPT !.key = KeyFrom(next.bytes), !.block_counter = 0, !.keystream = <<>>]
               ELSE ks.c
  IN [ks |-> ks.bytes, rekeyed |-> IF rekey THEN next.bytes ELSE <<>>, c |-> [after EXCEPT !.chunk_counter = @ + 1]]

----------------------------------------------------------------------------
(* FSChaCha20Poly1305 *)

NewContentCipher == [key |-> [initial |-> "P"], packet_counter |-> 0]

\* The bytes that encrypt n bytes: blocks 1, 2, ...; block 0 keys Poly1305.
AeadStream(key, nonce, n) == Stream(key, nonce, BLOCK, n)
PolyKey(key, nonce) == Stream(key, nonce, 0, KEY)

Rekeying == -1    \* four bytes 0xff

\* Mutant: the next key is made with the nonce of the packet.
RekeyNonce_OfPacket(c) == <<c.packet_counter % REKEY_INTERVAL, c.packet_counter \div REKEY_INTERVAL>>

RekeyNonce(c) == <<Rekeying, c.packet_counter \div REKEY_INTERVAL>>

\* _crypt, of n bytes
_crypt(c, n) ==
  LET nonce == <<c.packet_counter % REKEY_INTERVAL, c.packet_counter \div REKEY_INTERVAL>>
      next == AeadStream(c.key, RekeyNonce(c), KEY)
      rekey == (c.packet_counter + 1) % REKEY_INTERVAL = 0
  IN [ks |-> AeadStream(c.key, nonce, n), poly |-> PolyKey(c.key, nonce),
      rekeyed |-> IF rekey THEN next \o PolyKey(c.key, RekeyNonce(c)) ELSE <<>>,
      c |-> [key |-> IF rekey THEN KeyFrom(next) ELSE c.key, packet_counter |-> c.packet_counter + 1]]

----------------------------------------------------------------------------
(* The two ends. *)

NewEnd == [L |-> NewLengthCipher, P |-> NewContentCipher, length |-> -1]
CipherInit ==
  /\ ends = [sender |-> NewEnd, receiver |-> NewEnd]
  /\ wire = <<>>
  /\ used = <<>>
  /\ got = [sent |-> <<>>, received |-> <<>>]

\* v2_enc_packet: the length, then header byte and contents with their tag.
SendPacket ==
  /\ Len(got.sent) < MaxPackets
  /\ \E n \in Contents :
       LET l == crypt(ends.sender.L, LENGTH_FIELD_LEN)
           p == _crypt(ends.sender.P, 1 + n)
       IN /\ wire' = Append(wire, [length |-> n, lks |-> l.ks, ks |-> p.ks, tag |-> p.poly])
          /\ ends' = [ends EXCEPT !.sender.L = l.c, !.sender.P = p.c]
          /\ used' = used \o l.ks \o l.rekeyed \o p.ks \o p.poly \o p.rekeyed
          /\ got' = [got EXCEPT !.sent = Append(@, n)]

\* v2_receive_packet: the length is decrypted as soon as its bytes are there and
\* kept until the rest is; it is the one sent if the key streams are the same.
ReceiveLength ==
  /\ wire # <<>> /\ ends.receiver.length = -1
  /\ LET l == crypt(ends.receiver.L, LENGTH_FIELD_LEN)
     IN ends' = [ends EXCEPT !.receiver.L = l.c,
                             !.receiver.length = IF l.ks = Head(wire).lks THEN Head(wire).length ELSE 99]
  /\ UNCHANGED <<wire, used, got>>

\* A wrong tag is None: the caller closes the connection.
ReceiveContents ==
  /\ wire # <<>> /\ ends.receiver.length # -1
  /\ LET p == _crypt(ends.receiver.P, 1 + ends.receiver.length)
         good == p.poly = Head(wire).tag /\ p.ks = Head(wire).ks
     IN /\ ends' = [ends EXCEPT !.receiver.P = p.c, !.receiver.length = -1]
        /\ got' = [got EXCEPT !.received = Append(@, IF good THEN ends.receiver.length ELSE -1)]
  /\ wire' = Tail(wire)
  /\ UNCHANGED used

CipherNext == SendPacket \/ ReceiveLength \/ ReceiveContents

CipherSpec == CipherInit /\ [][CipherNext]_ciphervars

----------------------------------------------------------------------------
\* No byte of key stream encrypts twice, or encrypts and becomes a key, through
\* any number of packets and changes of key; nothing that a cipher still holds
\* was used or comes from a key it no longer has; and the receiver, however far
\* behind, decrypts what was sent.
KeystreamOnce ==
  /\ IsInjective(used)
  /\ \A e \in {"sender", "receiver"} :
       LET held == ToSet(ends[e].L.keystream)
       IN /\ \A b \in held : b.key = ends[e].L.key
          /\ e = "sender" => held \cap ToSet(used) = {}
  /\ IsPrefix(got.received, got.sent)
=============================================================================
