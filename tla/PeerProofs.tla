----------------------------- MODULE PeerProofs -----------------------------
(***************************************************************************)
(* Proofs about Peer, for any length of keys, garbage, blocks and headers  *)
(* and any fragments that the socket delivers.                             *)
(***************************************************************************)
EXTENDS Peer, TLAPS, FiniteSetTheorems, NaturalsInduction, WellFoundedInduction

(***************************************************************************)
(* The state of EncryptedP2PState is a record of these fields.  What the   *)
(* proofs need of the others is only that they are there.                  *)
(***************************************************************************)
IsState(s) ==
  /\ s = [initiating |-> s.initiating, privkey |-> s.privkey,
          sent_garbage |-> s.sent_garbage, received_garbage |-> s.received_garbage,
          received_prefix |-> s.received_prefix, tried |-> s.tried,
          contents_len |-> s.contents_len, found |-> s.found, session |-> s.session,
          sendN |-> s.sendN, recvL |-> s.recvL, recvP |-> s.recvP]
  /\ s.recvL \in Int
  /\ s.contents_len \in {-1, 1}
  /\ s.tried \in BOOLEAN

\* The number of the packet that v2_receive_packet looks for.
PacketNumber(s) == IF s.contents_len = -1 THEN s.recvL ELSE s.recvL - 1

\* A turn of _on_data finds no whole message in the buffer b, and takes nothing
\* from it.
NothingWhole(v, s, b) ==
  \/ Len(b) = 0
  \/ ~v /\ (b[1] # Magic \/ Len(b) < 3)
  \/ v /\ Len(b) < 2 /\ b[1] = LenSym(s.session, OtherSide(s), PacketNumber(s))

\* The callbacks of the handshake run before it is over.
CallbackInv ==
  /\ IsState(st)
  /\ v2 \in BOOLEAN
  /\ callback \in {"respond", "complete", "auth"} => v2 /\ ~st.tried
  /\ callback = "tried" => v2
  /\ transport = "none" => recvbuf = <<>> /\ callback = "idle"

\* Between two callbacks.
IdleInv ==
  transport = "open" /\ callback = "idle" /\ (v2 => st.tried) =>
    NothingWhole(v2, st, recvbuf) \/ quirks \cap {"decoy", "downgrade"} # {}

PeerInv == CallbackInv /\ IdleInv

(***************************************************************************)
(* Operators on the state.                                                 *)
(***************************************************************************)
\* u is a state in the same part of the connection as s.
Follows(s, u) == IsState(u) /\ u.tried = s.tried

\* A field that has no type here may take any value.
LEMMA FieldSet ==
  ASSUME NEW s, IsState(s), NEW e
  PROVE  /\ Follows(s, [s EXCEPT !.privkey = e])
         /\ Follows(s, [s EXCEPT !.sent_garbage = e])
         /\ Follows(s, [s EXCEPT !.received_garbage = e])
         /\ Follows(s, [s EXCEPT !.received_prefix = e])
         /\ Follows(s, [s EXCEPT !.found = e])
         /\ Follows(s, [s EXCEPT !.session = e])
         /\ Follows(s, [s EXCEPT !.sendN = e])
         /\ Follows(s, [s EXCEPT !.recvP = e])
<1> USE DEF IsState, Follows
<1>1. /\ Follows(s, [s EXCEPT !.privkey = e])
      /\ Follows(s, [s EXCEPT !.sent_garbage = e])
      /\ Follows(s, [s EXCEPT !.received_garbage = e])
  OBVIOUS
<1>2. /\ Follows(s, [s EXCEPT !.received_prefix = e])
      /\ Follows(s, [s EXCEPT !.found = e])
      /\ Follows(s, [s EXCEPT !.session = e])
  OBVIOUS
<1>3. /\ Follows(s, [s EXCEPT !.sendN = e])
      /\ Follows(s, [s EXCEPT !.recvP = e])
  OBVIOUS
<1> HIDE DEF IsState, Follows
<1> QED BY <1>1, <1>2, <1>3

LEMMA LengthSet ==
  ASSUME NEW s, IsState(s), NEW n \in Int
  PROVE  LET u == [s EXCEPT !.recvL = n, !.contents_len = 1]
         IN  /\ Follows(s, u)
             /\ u.session = s.session /\ u.initiating = s.initiating
             /\ u.recvL = n /\ u.contents_len = 1
<1> DEFINE t == [s EXCEPT !.recvL = n]
           u == [t EXCEPT !.contents_len = 1]
<1>1. [s EXCEPT !.recvL = n, !.contents_len = 1] = u
  OBVIOUS
<1>2. /\ Follows(s, t) /\ t.recvL = n
      /\ t.session = s.session /\ t.initiating = s.initiating
  BY DEF IsState, Follows
<1> HIDE DEF t
<1>3. /\ Follows(t, u) /\ u.recvL = t.recvL /\ u.contents_len = 1
      /\ u.session = t.session /\ u.initiating = t.initiating
  BY <1>2 DEF IsState, Follows
<1> HIDE DEF u
<1> QED BY <1>1, <1>2, <1>3 DEF Follows

LEMMA ContentsSet ==
  ASSUME NEW s, IsState(s), NEW e
  PROVE  Follows(s, [s EXCEPT !.recvP = e, !.contents_len = -1])
<1> DEFINE t == [s EXCEPT !.recvP = e]
           u == [t EXCEPT !.contents_len = -1]
<1>1. [s EXCEPT !.recvP = e, !.contents_len = -1] = u
  OBVIOUS
<1>2. Follows(s, t)
  BY FieldSet
<1> HIDE DEF t
<1>3. Follows(t, u)
  BY <1>2 DEF IsState, Follows
<1> HIDE DEF u
<1> QED BY <1>1, <1>2, <1>3 DEF Follows

LEMMA TriedSet ==
  ASSUME NEW s, IsState(s), NEW e \in BOOLEAN
  PROVE  LET u == [s EXCEPT !.received_garbage = 0, !.tried = e]
         IN  IsState(u) /\ u.tried = e
<1> DEFINE t == [s EXCEPT !.received_garbage = 0]
           u == [t EXCEPT !.tried = e]
<1>1. [s EXCEPT !.received_garbage = 0, !.tried = e] = u
  OBVIOUS
<1>2. IsState(t)
  BY FieldSet DEF Follows
<1> HIDE DEF t
<1>3. IsState(u) /\ u.tried = e
  BY <1>2 DEF IsState
<1> HIDE DEF u
<1> QED BY <1>1, <1>3

\* The position of the sending cipher does not concern what is read.
LEMMA SendingKeeps ==
  ASSUME NEW s, IsState(s), NEW msgs
  PROVE  /\ Follows(s, SentState(s, msgs))
         /\ \A v, b : NothingWhole(v, s, b) => NothingWhole(v, SentState(s, msgs), b)
<1> DEFINE u == SentState(s, msgs)
<1>1. /\ IsState(u) /\ u.tried = s.tried /\ u.session = s.session
      /\ u.initiating = s.initiating /\ u.contents_len = s.contents_len
      /\ u.recvL = s.recvL
  BY DEF IsState, SentState
<1>2. PacketNumber(u) = PacketNumber(s) /\ OtherSide(u) = OtherSide(s)
  BY <1>1 DEF PacketNumber, OtherSide
<1> HIDE DEF u
<1>3. \A v, b : NothingWhole(v, s, b) => NothingWhole(v, u, b)
  BY <1>1, <1>2 DEF NothingWhole
<1> QED BY <1>1, <1>3 DEF u, Follows

\* v2_receive_packet reads the length of a packet once: when the contents are
\* not there yet it finds the same place again.
Received(s, b, r) ==
  /\ Follows(s, r.st)
  /\ r.length \in {-1, 0, 2}
  /\ r.length = 0 => NothingWhole(TRUE, r.st, b)
  /\ NothingWhole(TRUE, s, b) => r.length = 0

LEMMA ReceivingKeeps ==
  ASSUME NEW s, IsState(s), NEW b, NEW aad
  PROVE  Received(s, b, v2_receive_packet(s, b, aad))
<1> DEFINE n == PacketNumber(s)
           s1 == [s EXCEPT !.recvL = n + 1, !.contents_len = 1]
           s2 == [s1 EXCEPT !.recvP = @ + 1, !.contents_len = -1]
           r == v2_receive_packet(s, b, aad)
<1>1. n \in Int /\ n + 1 \in Int
  BY DEF IsState, PacketNumber
<1>5. r = IF Len(b) = 0 THEN [st |-> s, length |-> 0, m |-> Decoy]
          ELSE IF b[1] # LenSym(s.session, OtherSide(s), n)
          THEN [st |-> s1, length |-> -1, m |-> Decoy]
          ELSE IF Len(b) < 2 THEN [st |-> s1, length |-> 0, m |-> Decoy]
          ELSE IF b[2].k # "body" \/ b[2] # BodySym(s.session, OtherSide(s), s.recvP, aad, b[2].m)
          THEN [st |-> s1, length |-> -1, m |-> Decoy]
          ELSE [st |-> s2, length |-> 2, m |-> b[2].m]
  BY DEF v2_receive_packet, PacketNumber
<1> HIDE DEF n, r
<1>2. /\ Follows(s, s1) /\ s1.session = s.session
      /\ s1.initiating = s.initiating /\ s1.recvL = n + 1 /\ s1.contents_len = 1
  BY <1>1, LengthSet
<1> HIDE DEF s1
<1>3. PacketNumber(s1) = n /\ OtherSide(s1) = OtherSide(s)
  BY <1>1, <1>2 DEF PacketNumber, OtherSide
<1>4. Follows(s, s2)
  <2>1. Follows(s1, s2)
    BY <1>2, ContentsSet DEF Follows
  <2> QED BY <1>2, <2>1 DEF Follows
<1> HIDE DEF s2
<1>6. Follows(s, r.st) /\ r.length \in {-1, 0, 2}
  BY <1>2, <1>4, <1>5 DEF Follows
<1>7. r.length = 0 => NothingWhole(TRUE, r.st, b)
  BY <1>2, <1>3, <1>5 DEF NothingWhole
<1>8. NothingWhole(TRUE, s, b) => r.length = 0
  BY <1>5 DEF NothingWhole, n
<1> QED BY <1>6, <1>7, <1>8 DEF r, Received

\* The operators of the handshake keep the state a state.
LEMMA RespondKeeps ==
  ASSUME NEW s, IsState(s), NEW b
  PROVE  Follows(s, respond_v2_handshake(s, b).st)
<1>1. PICK e : respond_v2_handshake(s, b).st = [s EXCEPT !.received_prefix = e]
  BY DEF respond_v2_handshake
<1>2. Follows(s, [s EXCEPT !.received_prefix = e])
  BY FieldSet
<1> QED BY <1>1, <1>2

LEMMA GenerateKeeps ==
  ASSUME NEW s, IsState(s), NEW k, NEW g
  PROVE  Follows(s, generate_keypair_and_garbage(s, k, g).st)
<1> DEFINE t == [s EXCEPT !.privkey = k]
           u == [t EXCEPT !.sent_garbage = g]
<1>1. generate_keypair_and_garbage(s, k, g).st = u
  BY DEF generate_keypair_and_garbage
<1>2. Follows(s, t)
  BY FieldSet
<1> HIDE DEF t
<1>3. Follows(t, u)
  BY <1>2, FieldSet DEF Follows
<1> HIDE DEF u
<1> QED BY <1>1, <1>2, <1>3 DEF Follows

LEMMA CompleteKeeps ==
  ASSUME NEW s, IsState(s), NEW b, NEW d, NEW keys, NEW same
  PROVE  Follows(s, complete_handshake(s, b, d, keys, same).st)
<1>1. PICK e : complete_handshake(s, b, d, keys, same).st
                 \in {s, [[s EXCEPT !.session = e] EXCEPT !.sendN = d + 1]}
  BY DEF complete_handshake
<1>2. Follows(s, [s EXCEPT !.session = e])
  BY FieldSet
<1>3. Follows([s EXCEPT !.session = e], [[s EXCEPT !.session = e] EXCEPT !.sendN = d + 1])
  BY <1>2, FieldSet DEF Follows
<1> QED BY <1>1, <1>2, <1>3 DEF Follows

LEMMA TerminatorKeeps ==
  ASSUME NEW s, IsState(s), NEW b
  PROVE  Follows(s, FindTerminator(s, b).st)
<1> DEFINE t == [s EXCEPT !.found = TRUE]
<1>1. PICK e : FindTerminator(s, b).st \in {s, [t EXCEPT !.received_garbage = e]}
  BY DEF FindTerminator
<1>2. Follows(s, t)
  BY FieldSet
<1> HIDE DEF t
<1>3. Follows(t, [t EXCEPT !.received_garbage = e])
  BY <1>2, FieldSet DEF Follows
<1> QED BY <1>1, <1>2, <1>3 DEF Follows

\* After a decoy the version packet is still to come.
LEMMA AuthKeeps ==
  ASSUME NEW s, IsState(s), NEW b
  PROVE  /\ IsState(AuthPacket(s, b).st)
         /\ AuthPacket(s, b).more => ~AuthPacket(s, b).st.tried
<1> DEFINE q == v2_receive_packet(s, b, s.received_garbage)
           r == AuthPacket(s, b)
           w == [q.st EXCEPT !.received_garbage = 0, !.tried = (q.m # Decoy)]
<1>1. Received(s, b, q)
  BY ReceivingKeeps
<1>2. r = [st |-> IF q.length > 0 THEN w ELSE q.st,
           length |-> IF q.length > 0 THEN q.length ELSE 0,
           ok |-> q.length # -1,
           more |-> q.length > 0 /\ q.m = Decoy]
  BY DEF AuthPacket
<1> HIDE DEF q, r
<1>3. IsState(w) /\ w.tried = (q.m # Decoy)
  BY <1>1, TriedSet DEF Received, Follows
<1> HIDE DEF w
<1>4. /\ r.st = IF q.length > 0 THEN w ELSE q.st
      /\ r.more = (q.length > 0 /\ q.m = Decoy)
  BY <1>2
<1>5. IsState(r.st)
  BY <1>1, <1>3, <1>4 DEF Received, Follows
<1>6. r.more => ~r.st.tried
  BY <1>3, <1>4
<1> QED BY <1>5, <1>6 DEF r

\* What a turn of _on_data finds.
LEMMA FrameKeeps ==
  ASSUME IsState(st), v2 \in BOOLEAN
  PROVE  /\ Follows(st, Frame.st)
         /\ Frame.is = "more" => NothingWhole(v2, Frame.st, recvbuf)
         /\ NothingWhole(v2, st, recvbuf) => Frame.is \in {"more", "magic"}
<1>1. CASE v2
  <2> DEFINE r == v2_receive_packet(st, recvbuf, 0)
  <2>1. Received(st, recvbuf, r)
    BY ReceivingKeeps
  <2>2. Frame.st = r.st /\ Frame.is = IF r.length = -1 THEN "mac" ELSE IF r.length = 0
          THEN "more" ELSE IF r.m = Decoy THEN "decoy" ELSE "message"
    BY <1>1 DEF Frame
  <2> HIDE DEF r
  <2>3. v2 = TRUE
    BY <1>1
  <2>4. Frame.is = "more" => r.length = 0
    BY <2>1, <2>2 DEF Received
  <2>5. r.length = 0 => Frame.is = "more"
    BY <2>2
  <2> QED BY <2>1, <2>2, <2>3, <2>4, <2>5 DEF Received
<1>2. CASE ~v2
  <2>1. Frame.st = st
        /\ Frame.is = IF Len(recvbuf) = 0 THEN "more" ELSE IF recvbuf[1] # Magic
              THEN "magic" ELSE IF Len(recvbuf) < 3 THEN "more" ELSE "message"
    BY <1>2 DEF Frame
  <2> QED BY <1>2, <2>1 DEF NothingWhole, Follows
<1> QED BY <1>1, <1>2

(***************************************************************************)
(* The steps, by what they do to the callbacks' state.                     *)
(***************************************************************************)
\* The test thread between two messages, the node and the socket.
Apart == UNCHANGED <<transport, v2, st, recvbuf, callback, quirks>>

LEMMA ApartSteps ==
  \/ Write \/ WaitUntil \/ WaitForReconnect \/ SendEnqueue \/ Store \/ Mempool
  \/ NodeStep \/ NodeExtra
  => Apart
<1> USE DEF Apart
<1>1. Write => Apart
  BY DEF Write
<1>2. WaitUntil \/ WaitForReconnect \/ Mempool => Apart
  BY DEF WaitUntil, WaitForReconnect, Mempool, Calm, netvars
<1>3. SendEnqueue \/ Store => Apart
  BY DEF SendEnqueue, Store, netvars
<1>4. NodeStep \/ NodeExtra => Apart
  BY DEF NodeStep, NodeKeyRead, NodeTerm, NodeReads, NodeExtra, NodeOnly
<1> HIDE DEF Apart
<1> QED BY <1>1, <1>2, <1>3, <1>4

LEMMA NextCases ==
  [Next]_vars =>
    \/ Apart \/ ConnectionMade \/ Reconnect \/ Respond \/ Complete \/ Authenticate
    \/ OnDataEnds \/ (\E k \in 1 .. Len(toPeer) : DataReceived(k))
    \/ OnMessage \/ AfterHandshake \/ SendBuild \/ Disconnect \/ ConnectionLost
<1>1. UNCHANGED vars => Apart
  BY DEF vars, netvars, Apart
<1> QED BY <1>1, ApartSteps DEF Next, Progress, Network, NetworkThread, TestThread

\* The connection is gone.
LEMMA LostKeeps ==
  ASSUME Lost, IsState(st'), v2' \in BOOLEAN
  PROVE  PeerInv'
<1>1. transport' = "lost" /\ callback' = "idle"
  BY DEF Lost
<1> QED BY <1>1 DEF PeerInv, CallbackInv, IdleInv

\* An empty buffer.
LEMMA EmptyWaits == \A v, s : NothingWhole(v, s, <<>>)
BY DEF NothingWhole

LEMMA PeerInit == Init => PeerInv
<1> SUFFICES ASSUME Init PROVE PeerInv
  OBVIOUS
<1>1. /\ transport = "none" /\ recvbuf = <<>> /\ callback = "idle"
      /\ v2 = mode.v2 /\ st = NewState(mode.out) /\ mode \in Modes
  BY DEF Init, Helper
<1>2. v2 \in BOOLEAN
  <2>1. \A a, c, d, e, f : /\ Setup(a, TRUE, c, d, e, f).v2 \in BOOLEAN
                           /\ Setup(a, FALSE, c, d, e, f).v2 \in BOOLEAN
    BY DEF Setup
  <2>2. \E a, c, d, e, f : \/ mode = Setup(a, TRUE, c, d, e, f)
                           \/ mode = Setup(a, FALSE, c, d, e, f)
    BY <1>1, Zenon DEF Modes
  <2> QED BY <1>1, <2>1, <2>2, Zenon
<1>3. IsState(st)
  BY <1>1 DEF NewState, IsState
<1> QED BY <1>1, <1>2, <1>3 DEF PeerInv, CallbackInv, IdleInv

LEMMA PeerNext == PeerInv /\ [Next]_vars => PeerInv'
<1> SUFFICES ASSUME PeerInv, [Next]_vars PROVE PeerInv'
  OBVIOUS
<1>1. IsState(st) /\ v2 \in BOOLEAN /\ st.tried \in BOOLEAN
  BY DEF PeerInv, CallbackInv, IsState
<1>2. CASE Apart
  BY <1>2 DEF Apart, PeerInv, CallbackInv, IdleInv
<1>3. CASE ConnectionMade
  <2>1. /\ transport = "none" /\ transport' = "open" /\ UNCHANGED <<v2, recvbuf, callback>>
    BY <1>3 DEF ConnectionMade
  <2>2. recvbuf = <<>> /\ callback = "idle"
    BY <2>1 DEF PeerInv, CallbackInv
  <2>3. IsState(st')
    <3>1. \/ \E g : st' = generate_keypair_and_garbage(st, 1, g).st
          \/ st' = SentState(st, <<Version>>)
          \/ st' = st
      BY <1>3 DEF ConnectionMade, Queued
    <3>2. \A g : IsState(generate_keypair_and_garbage(st, 1, g).st)
      BY <1>1, GenerateKeeps DEF Follows
    <3>3. IsState(SentState(st, <<Version>>))
      BY <1>1, SendingKeeps DEF Follows
    <3> QED BY <1>1, <3>1, <3>2, <3>3
  <2>4. NothingWhole(v2, st', <<>>)
    BY EmptyWaits
  <2> QED BY <1>1, <2>1, <2>2, <2>3, <2>4 DEF PeerInv, CallbackInv, IdleInv
<1>4. CASE Reconnect
  <2>1. transport' = "open" /\ recvbuf' = <<>> /\ UNCHANGED <<v2, st, callback>>
    BY <1>4 DEF Reconnect
  <2>2. NothingWhole(v2, st, <<>>)
    BY EmptyWaits
  <2> QED BY <2>1, <2>2 DEF PeerInv, CallbackInv, IdleInv
<1>5. CASE \E k \in 1 .. Len(toPeer) : DataReceived(k)
  <2>1. /\ transport' = "open" /\ UNCHANGED <<v2, st>>
        /\ callback' = IF ~v2 \/ st.tried THEN "data"
                 ELSE IF st.session # NoSession THEN "auth"
                 ELSE IF ~st.initiating /\ st.sent_garbage = 0 THEN "respond" ELSE "complete"
    BY <1>5 DEF DataReceived
  <2> QED BY <1>1, <2>1 DEF PeerInv, CallbackInv, IdleInv
<1>6. CASE Respond
  <2> DEFINE r == respond_v2_handshake(st, recvbuf)
  <2>1. callback = "respond" /\ UNCHANGED transport
    BY <1>6 DEF Respond
  <2>2. v2 /\ ~st.tried /\ transport # "none"
    BY <2>1 DEF PeerInv, CallbackInv
  <2>3. Follows(st, r.st)
    BY <1>1, RespondKeeps
  <2>4. \/ /\ callback' = "complete" /\ v2' = v2
           /\ \E g : st' = generate_keypair_and_garbage(r.st, FreshKey, g).st
        \/ /\ callback' = "idle" /\ st' = r.st /\ v2' = (r.answer = "wait")
           /\ r.answer = "v1" => "downgrade" \in quirks'
           /\ r.answer # "v2"
    BY <1>6 DEF Respond
  <2>5. r.answer \in {"v1", "v2", "wait"}
    BY DEF respond_v2_handshake
  <2> HIDE DEF r
  <2>6. \A k, g : Follows(r.st, generate_keypair_and_garbage(r.st, k, g).st)
    BY <2>3, GenerateKeeps DEF Follows
  <2>7. IsState(st') /\ ~st'.tried /\ v2' \in BOOLEAN
    BY <2>2, <2>3, <2>4, <2>6 DEF Follows
  <2>8. \/ callback' = "complete" /\ v2'
        \/ callback' = "idle" /\ (v2' \/ "downgrade" \in quirks')
    BY <2>2, <2>4, <2>5
  <2> QED BY <2>1, <2>2, <2>7, <2>8 DEF PeerInv, CallbackInv, IdleInv
<1>7. CASE Complete
  <2>1. /\ callback = "complete" /\ callback' \in {"idle", "auth"}
        /\ UNCHANGED <<transport, v2>>
        /\ \E d : st' = complete_handshake(st, recvbuf, d, Keys, mode.same).st
    BY <1>7 DEF Complete
  <2>2. v2 /\ ~st.tried /\ transport # "none"
    BY <2>1 DEF PeerInv, CallbackInv
  <2>3. \A d : Follows(st, complete_handshake(st, recvbuf, d, Keys, mode.same).st)
    BY <1>1, CompleteKeeps
  <2>4. IsState(st') /\ ~st'.tried
    BY <2>1, <2>2, <2>3 DEF Follows
  <2> QED BY <1>1, <2>1, <2>2, <2>4 DEF PeerInv, CallbackInv, IdleInv
<1>8. CASE Authenticate
  <2> DEFINE r == IF st.found THEN AuthPacket(st, recvbuf) ELSE FindTerminator(st, recvbuf)
             again == IF st.found THEN r.more ELSE r.length > 0
  <2>1. /\ callback = "auth" /\ v2' = v2 /\ st' = r.st
        /\ \/ Lost
           \/ /\ callback' = IF again THEN "auth" ELSE IF r.st.tried THEN "tried" ELSE "idle"
              /\ UNCHANGED transport
    BY <1>8 DEF Authenticate, Raise
  <2>2. v2 /\ ~st.tried /\ transport # "none"
    BY <2>1 DEF PeerInv, CallbackInv
  <2>3. /\ IsState(AuthPacket(st, recvbuf).st)
        /\ AuthPacket(st, recvbuf).more => ~AuthPacket(st, recvbuf).st.tried
    BY <1>1, AuthKeeps
  <2>4. Follows(st, FindTerminator(st, recvbuf).st)
    BY <1>1, TerminatorKeeps
  <2>5. IsState(r.st) /\ (again => ~r.st.tried)
    BY <2>2, <2>3, <2>4 DEF Follows
  <2> HIDE DEF r, again
  <2>6. CASE Lost
    BY <1>1, <2>1, <2>5, <2>6, LostKeeps
  <2>7. CASE ~Lost
    <3>1. /\ callback' = IF again THEN "auth" ELSE IF r.st.tried THEN "tried" ELSE "idle"
          /\ UNCHANGED transport
      BY <2>1, <2>7
    <3> QED BY <1>1, <2>1, <2>2, <2>5, <3>1 DEF PeerInv, CallbackInv, IdleInv
  <2> QED BY <2>6, <2>7
<1>9. CASE OnDataEnds
  <2>1. /\ callback = "data" /\ v2' = v2 /\ st' = Frame.st
        /\ Frame.is \in {"more", "decoy", "mac", "magic"}
        /\ \/ Lost
           \/ /\ callback' = "idle" /\ UNCHANGED transport
              /\ \/ Frame.is = "more" /\ recvbuf' = recvbuf
                 \/ "decoy" \in quirks'
    BY <1>9 DEF OnDataEnds, Raise
  <2>2. transport # "none"
    BY <2>1 DEF PeerInv, CallbackInv
  <2>3. /\ Follows(st, Frame.st)
        /\ Frame.is = "more" => NothingWhole(v2, Frame.st, recvbuf)
    BY <1>1, FrameKeeps
  <2>4. IsState(st')
    BY <2>1, <2>3 DEF Follows
  <2>5. CASE Lost
    BY <1>1, <2>1, <2>4, <2>5, LostKeeps
  <2>6. CASE ~Lost
    <3>1. /\ callback' = "idle" /\ UNCHANGED transport
          /\ NothingWhole(v2', st', recvbuf') \/ "decoy" \in quirks'
      BY <2>1, <2>3, <2>6
    <3> QED BY <1>1, <2>1, <2>2, <2>4, <3>1 DEF PeerInv, CallbackInv, IdleInv
  <2> QED BY <2>5, <2>6
<1>10. CASE OnMessage
  <2>1. /\ callback = "data" /\ UNCHANGED <<callback, transport, v2>>
        /\ \E msgs : st' = SentState(Frame.st, msgs)
    BY <1>10 DEF OnMessage, Queued
  <2>2. IsState(Frame.st)
    BY <1>1, FrameKeeps DEF Follows
  <2>3. IsState(st')
    BY <2>1, <2>2, SendingKeeps DEF Follows
  <2> QED BY <1>1, <2>1, <2>3 DEF PeerInv, CallbackInv, IdleInv
<1>11. CASE AfterHandshake
  <2>1. /\ callback = "tried" /\ UNCHANGED <<transport, v2, recvbuf>>
        /\ callback' = IF recvbuf # <<>> THEN "data" ELSE "idle"
        /\ st' = st \/ st' = SentState(st, <<Version>>)
    BY <1>11 DEF AfterHandshake, Queued
  <2>2. IsState(st') /\ transport # "none"
    BY <1>1, <2>1, SendingKeeps DEF Follows, PeerInv, CallbackInv
  <2>3. NothingWhole(v2', st', <<>>)
    BY EmptyWaits
  <2> QED BY <1>1, <2>1, <2>2, <2>3 DEF PeerInv, CallbackInv, IdleInv
<1>12. CASE SendBuild
  <2>1. /\ st' = SentState(st, <<ToSend>>)
        /\ UNCHANGED <<transport, v2, recvbuf, callback, quirks>>
    BY <1>12 DEF SendBuild, Build
  <2>2. /\ Follows(st, st')
        /\ NothingWhole(v2, st, recvbuf) => NothingWhole(v2, st', recvbuf)
    BY <1>1, <2>1, SendingKeeps
  <2> QED BY <1>1, <2>1, <2>2 DEF Follows, PeerInv, CallbackInv, IdleInv
<1>13. CASE Disconnect \/ ConnectionLost
  <2>1. Lost /\ UNCHANGED <<v2, st>>
    BY <1>13 DEF Disconnect, ConnectionLost
  <2> QED BY <1>1, <2>1, LostKeeps
<1> QED BY <1>2, <1>3, <1>4, <1>5, <1>6, <1>7, <1>8, <1>9, <1>10, <1>11, <1>12, <1>13,
           NextCases

\* However the bytes of the other end come in fragments and the test thread
\* sends in between, no whole message stays in recvbuf between two callbacks,
\* unless a decoy or the decision for v1 was in front of it.
THEOREM NothingStays == Spec => []NothingLeftBehind
<1>1. PeerInv => NothingLeftBehind
  <2> SUFFICES ASSUME PeerInv, transport = "open", callback = "idle", v2 => st.tried
               PROVE  Frame.is \in {"more", "magic"} \/ quirks \cap {"decoy", "downgrade"} # {}
    BY DEF NothingLeftBehind
  <2>1. NothingWhole(v2, st, recvbuf) \/ quirks \cap {"decoy", "downgrade"} # {}
    BY DEF PeerInv, IdleInv
  <2>2. NothingWhole(v2, st, recvbuf) => Frame.is \in {"more", "magic"}
    BY FrameKeeps DEF PeerInv, CallbackInv
  <2> QED BY <2>1, <2>2
<1> QED BY <1>1, PeerInit, PeerNext, PTL DEF Spec
(***************************************************************************)
(* Sequences.                                                              *)
(***************************************************************************)
IsSeq(s) == \E T : s \in Seq(T)

\* s is what has these parts.
IsConcat(c, s, t) ==
  /\ IsSeq(c) /\ Len(c) = Len(s) + Len(t)
  /\ \A i \in 1 .. Len(s) : c[i] = s[i]
  /\ \A i \in 1 .. Len(t) : c[Len(s) + i] = t[i]
IsDrop(d, s, n) ==
  /\ IsSeq(d) /\ Len(d) = Len(s) - n
  /\ \A i \in 1 .. Len(d) : d[i] = s[n + i]
IsTake(d, s, n) ==
  /\ IsSeq(d) /\ Len(d) = n
  /\ \A i \in 1 .. n : d[i] = s[i]

LEMMA SeqLen ==
  ASSUME NEW s, IsSeq(s)
  PROVE  DOMAIN s = 1 .. Len(s) /\ Len(s) \in Nat
BY DEF IsSeq

LEMMA NothingSeq ==
  ASSUME NEW s, s = <<>>
  PROVE  IsSeq(s) /\ Len(s) = 0
<1>1. s \in Seq({}) /\ Len(s) = 0
  OBVIOUS
<1> QED BY <1>1 DEF IsSeq

LEMMA OneSeq ==
  ASSUME NEW s, NEW a, s = <<a>>
  PROVE  IsSeq(s) /\ Len(s) = 1 /\ s[1] = a
<1>1. s \in Seq({a}) /\ Len(s) = 1 /\ s[1] = a
  OBVIOUS
<1> QED BY <1>1 DEF IsSeq

LEMMA TwoSeq ==
  ASSUME NEW s, NEW a, NEW b, s = <<a, b>>
  PROVE  IsSeq(s) /\ Len(s) = 2 /\ s[1] = a /\ s[2] = b
<1>1. s \in Seq({a, b}) /\ Len(s) = 2 /\ s[1] = a /\ s[2] = b
  OBVIOUS
<1> QED BY <1>1 DEF IsSeq

LEMMA ThreeSeq ==
  ASSUME NEW s, NEW a, NEW b, NEW c, s = <<a, b, c>>
  PROVE  IsSeq(s) /\ Len(s) = 3 /\ s[1] = a /\ s[2] = b /\ s[3] = c
<1>1. s \in Seq({a, b, c}) /\ Len(s) = 3 /\ s[1] = a /\ s[2] = b /\ s[3] = c
  OBVIOUS
<1> QED BY <1>1 DEF IsSeq

LEMMA EmptyLen ==
  ASSUME NEW s, IsSeq(s)
  PROVE  s = <<>> <=> Len(s) = 0
BY DEF IsSeq

LEMMA FunctionSeq ==
  ASSUME NEW n \in Nat, NEW s, DOMAIN s = 1 .. n, s = [i \in 1 .. n |-> s[i]]
  PROVE  IsSeq(s) /\ Len(s) = n
<1>1. s \in [1 .. n -> {s[i] : i \in 1 .. n}]
  OBVIOUS
<1> DEFINE T == {s[i] : i \in 1 .. n}
<1> HIDE DEF T
<1>2. s \in Seq(T) /\ Len(s) = n
  BY <1>1 DEF T
<1> QED BY <1>2 DEF IsSeq

LEMMA ConcatSeq ==
  ASSUME NEW s, NEW t, IsSeq(s), IsSeq(t)
  PROVE  IsConcat(s \o t, s, t)
<1>1. PICK T : s \in Seq(T)
  BY DEF IsSeq
<1>2. PICK U : t \in Seq(U)
  BY DEF IsSeq
<1> DEFINE W == T \cup U
           c == s \o t
<1>3. s \in Seq(W) /\ t \in Seq(W)
  BY <1>1, <1>2
<1>4. /\ c \in Seq(W) /\ Len(c) = Len(s) + Len(t)
      /\ \A i \in 1 .. Len(s) : c[i] = s[i]
      /\ \A i \in 1 .. Len(t) : c[Len(s) + i] = t[i]
  BY <1>3
<1> HIDE DEF c, W
<1>5. IsConcat(c, s, t)
  BY <1>4, Zenon DEF IsConcat, IsSeq
<1> QED BY <1>5 DEF c

LEMMA DropSeq ==
  ASSUME NEW s, IsSeq(s), NEW n \in Nat, n <= Len(s)
  PROVE  IsDrop(Drop(s, n), s, n)
<1>1. PICK T : s \in Seq(T)
  BY DEF IsSeq
<1> DEFINE d == SubSeq(s, n + 1, Len(s))
<1>2. d \in Seq(T) /\ Len(d) = Len(s) - n
  BY <1>1
<1>3. \A i \in 1 .. Len(d) : d[i] = s[n + i]
  BY <1>1
<1> HIDE DEF d
<1>4. IsDrop(d, s, n)
  BY <1>2, <1>3, Zenon DEF IsDrop, IsSeq
<1> QED BY <1>4 DEF d, Drop

LEMMA DropAll ==
  ASSUME NEW s, IsSeq(s), NEW n \in Nat, n >= Len(s)
  PROVE  Drop(s, n) = <<>>
BY DEF IsSeq, Drop

LEMMA TakeSeq ==
  ASSUME NEW s, IsSeq(s), NEW n \in Nat, n <= Len(s)
  PROVE  IsTake(SubSeq(s, 1, n), s, n)
<1>1. PICK T : s \in Seq(T)
  BY DEF IsSeq
<1> DEFINE d == SubSeq(s, 1, n)
<1>2. d \in Seq(T) /\ Len(d) = n
  BY <1>1
<1>3. \A i \in 1 .. n : d[i] = s[i]
  BY <1>1
<1> HIDE DEF d
<1>4. IsTake(d, s, n)
  BY <1>2, <1>3, Zenon DEF IsTake, IsSeq
<1> QED BY <1>4 DEF d

LEMMA AppendSeq ==
  ASSUME NEW s, IsSeq(s), NEW e
  PROVE  /\ IsSeq(Append(s, e)) /\ Len(Append(s, e)) = Len(s) + 1
         /\ \A i \in 1 .. Len(s) : Append(s, e)[i] = s[i]
         /\ Append(s, e)[Len(s) + 1] = e
<1>1. PICK T : s \in Seq(T)
  BY DEF IsSeq
<1> DEFINE W == T \cup {e}
<1>2. s \in Seq(W) /\ e \in W
  BY <1>1
<1> HIDE DEF W
<1> QED BY <1>2 DEF IsSeq

LEMMA TailSeq ==
  ASSUME NEW s, IsSeq(s), s # <<>>
  PROVE  /\ Head(s) = s[1] /\ IsDrop(Tail(s), s, 1) /\ Len(s) >= 1
<1>1. PICK T : s \in Seq(T)
  BY DEF IsSeq
<1> DEFINE d == Tail(s)
<1>2. d \in Seq(T) /\ Len(d) = Len(s) - 1 /\ Head(s) = s[1] /\ Len(s) >= 1
  BY <1>1
<1>3. \A i \in 1 .. Len(d) : d[i] = s[1 + i]
  BY <1>1
<1> HIDE DEF d
<1>4. IsDrop(d, s, 1)
  BY <1>2, <1>3, Zenon DEF IsDrop, IsSeq
<1> QED BY <1>2, <1>4 DEF d

(***************************************************************************)
(* The fields of a state.                                                  *)
(***************************************************************************)
\* What stays as it is while packets are read.
SameEnd(s, u) ==
  /\ u.initiating = s.initiating /\ u.privkey = s.privkey /\ u.sent_garbage = s.sent_garbage
  /\ u.received_prefix = s.received_prefix /\ u.session = s.session /\ u.sendN = s.sendN
SameReading(s, u) ==
  /\ u.contents_len = s.contents_len /\ u.recvL = s.recvL /\ u.recvP = s.recvP
SameGarbage(s, u) ==
  /\ u.received_garbage = s.received_garbage /\ u.found = s.found

LEMMA SetPrivkey ==
  ASSUME NEW s, IsState(s), NEW e, NEW u, u = [s EXCEPT !.privkey = e]
  PROVE  /\ IsState(u) /\ u.privkey = e
         /\ u.initiating = s.initiating /\ u.sent_garbage = s.sent_garbage /\ u.received_garbage = s.received_garbage
         /\ u.received_prefix = s.received_prefix /\ u.tried = s.tried /\ u.contents_len = s.contents_len
         /\ u.found = s.found /\ u.session = s.session /\ u.sendN = s.sendN
         /\ u.recvL = s.recvL /\ u.recvP = s.recvP
BY DEF IsState

LEMMA SetSentGarbage ==
  ASSUME NEW s, IsState(s), NEW e, NEW u, u = [s EXCEPT !.sent_garbage = e]
  PROVE  /\ IsState(u) /\ u.sent_garbage = e
         /\ u.initiating = s.initiating /\ u.privkey = s.privkey /\ u.received_garbage = s.received_garbage
         /\ u.received_prefix = s.received_prefix /\ u.tried = s.tried /\ u.contents_len = s.contents_len
         /\ u.found = s.found /\ u.session = s.session /\ u.sendN = s.sendN
         /\ u.recvL = s.recvL /\ u.recvP = s.recvP
BY DEF IsState

LEMMA SetReceivedGarbage ==
  ASSUME NEW s, IsState(s), NEW e, NEW u, u = [s EXCEPT !.received_garbage = e]
  PROVE  /\ IsState(u) /\ u.received_garbage = e
         /\ u.initiating = s.initiating /\ u.privkey = s.privkey /\ u.sent_garbage = s.sent_garbage
         /\ u.received_prefix = s.received_prefix /\ u.tried = s.tried /\ u.contents_len = s.contents_len
         /\ u.found = s.found /\ u.session = s.session /\ u.sendN = s.sendN
         /\ u.recvL = s.recvL /\ u.recvP = s.recvP
BY DEF IsState

LEMMA SetPrefix ==
  ASSUME NEW s, IsState(s), NEW e, NEW u, u = [s EXCEPT !.received_prefix = e]
  PROVE  /\ IsState(u) /\ u.received_prefix = e
         /\ u.initiating = s.initiating /\ u.privkey = s.privkey /\ u.sent_garbage = s.sent_garbage
         /\ u.received_garbage = s.received_garbage /\ u.tried = s.tried /\ u.contents_len = s.contents_len
         /\ u.found = s.found /\ u.session = s.session /\ u.sendN = s.sendN
         /\ u.recvL = s.recvL /\ u.recvP = s.recvP
BY DEF IsState

LEMMA SetTried ==
  ASSUME NEW s, IsState(s), NEW e \in BOOLEAN, NEW u, u = [s EXCEPT !.tried = e]
  PROVE  /\ IsState(u) /\ u.tried = e
         /\ u.initiating = s.initiating /\ u.privkey = s.privkey /\ u.sent_garbage = s.sent_garbage
         /\ u.received_garbage = s.received_garbage /\ u.received_prefix = s.received_prefix /\ u.contents_len = s.contents_len
         /\ u.found = s.found /\ u.session = s.session /\ u.sendN = s.sendN
         /\ u.recvL = s.recvL /\ u.recvP = s.recvP
BY DEF IsState

LEMMA SetContents ==
  ASSUME NEW s, IsState(s), NEW e \in {-1, 1}, NEW u, u = [s EXCEPT !.contents_len = e]
  PROVE  /\ IsState(u) /\ u.contents_len = e
         /\ u.initiating = s.initiating /\ u.privkey = s.privkey /\ u.sent_garbage = s.sent_garbage
         /\ u.received_garbage = s.received_garbage /\ u.received_prefix = s.received_prefix /\ u.tried = s.tried
         /\ u.found = s.found /\ u.session = s.session /\ u.sendN = s.sendN
         /\ u.recvL = s.recvL /\ u.recvP = s.recvP
BY DEF IsState

LEMMA SetFound ==
  ASSUME NEW s, IsState(s), NEW e, NEW u, u = [s EXCEPT !.found = e]
  PROVE  /\ IsState(u) /\ u.found = e
         /\ u.initiating = s.initiating /\ u.privkey = s.privkey /\ u.sent_garbage = s.sent_garbage
         /\ u.received_garbage = s.received_garbage /\ u.received_prefix = s.received_prefix /\ u.tried = s.tried
         /\ u.contents_len = s.contents_len /\ u.session = s.session /\ u.sendN = s.sendN
         /\ u.recvL = s.recvL /\ u.recvP = s.recvP
BY DEF IsState

LEMMA SetSession ==
  ASSUME NEW s, IsState(s), NEW e, NEW u, u = [s EXCEPT !.session = e]
  PROVE  /\ IsState(u) /\ u.session = e
         /\ u.initiating = s.initiating /\ u.privkey = s.privkey /\ u.sent_garbage = s.sent_garbage
         /\ u.received_garbage = s.received_garbage /\ u.received_prefix = s.received_prefix /\ u.tried = s.tried
         /\ u.contents_len = s.contents_len /\ u.found = s.found /\ u.sendN = s.sendN
         /\ u.recvL = s.recvL /\ u.recvP = s.recvP
BY DEF IsState

LEMMA SetSendN ==
  ASSUME NEW s, IsState(s), NEW e, NEW u, u = [s EXCEPT !.sendN = e]
  PROVE  /\ IsState(u) /\ u.sendN = e
         /\ u.initiating = s.initiating /\ u.privkey = s.privkey /\ u.sent_garbage = s.sent_garbage
         /\ u.received_garbage = s.received_garbage /\ u.received_prefix = s.received_prefix /\ u.tried = s.tried
         /\ u.contents_len = s.contents_len /\ u.found = s.found /\ u.session = s.session
         /\ u.recvL = s.recvL /\ u.recvP = s.recvP
BY DEF IsState

LEMMA SetRecvL ==
  ASSUME NEW s, IsState(s), NEW e \in Int, NEW u, u = [s EXCEPT !.recvL = e]
  PROVE  /\ IsState(u) /\ u.recvL = e
         /\ u.initiating = s.initiating /\ u.privkey = s.privkey /\ u.sent_garbage = s.sent_garbage
         /\ u.received_garbage = s.received_garbage /\ u.received_prefix = s.received_prefix /\ u.tried = s.tried
         /\ u.contents_len = s.contents_len /\ u.found = s.found /\ u.session = s.session
         /\ u.sendN = s.sendN /\ u.recvP = s.recvP
BY DEF IsState

LEMMA SetRecvP ==
  ASSUME NEW s, IsState(s), NEW e, NEW u, u = [s EXCEPT !.recvP = e]
  PROVE  /\ IsState(u) /\ u.recvP = e
         /\ u.initiating = s.initiating /\ u.privkey = s.privkey /\ u.sent_garbage = s.sent_garbage
         /\ u.received_garbage = s.received_garbage /\ u.received_prefix = s.received_prefix /\ u.tried = s.tried
         /\ u.contents_len = s.contents_len /\ u.found = s.found /\ u.session = s.session
         /\ u.sendN = s.sendN /\ u.recvL = s.recvL
BY DEF IsState


(***************************************************************************)
(* What the operators of the connection do to the state, field by field.   *)
(***************************************************************************)
\* The next packet, after the length symbol of packet number n.
Read(s, u) == IsState(u) /\ SameEnd(s, u) /\ SameGarbage(s, u) /\ u.tried = s.tried

LEMMA ReceiveFields ==
  ASSUME NEW s, IsState(s), NEW b, NEW aad, NEW r, r = v2_receive_packet(s, b, aad)
  PROVE  /\ Read(s, r.st)
         /\ r.length = 2 =>
              /\ r.st.recvP = s.recvP + 1 /\ r.st.recvL = PacketNumber(s) + 1 /\ r.st.contents_len = -1
              /\ r.m = b[2].m /\ b[2].k = "body" /\ Len(b) # 0 /\ ~(Len(b) < 2)
         /\ r.length = 0 =>
              /\ r.st.recvP = s.recvP /\ PacketNumber(r.st) = PacketNumber(s)
         /\ r.length = -1 =>
              /\ Len(b) # 0
              /\ \/ b[1] # LenSym(s.session, OtherSide(s), PacketNumber(s))
                 \/ /\ ~(Len(b) < 2)
                    /\ b[2].k = "body" => b[2] # BodySym(s.session, OtherSide(s), s.recvP, aad, b[2].m)
<1> DEFINE n == PacketNumber(s)
           s0 == [s EXCEPT !.recvL = n + 1]
           s1 == [s0 EXCEPT !.contents_len = 1]
           s3 == [s1 EXCEPT !.recvP = @ + 1]
           s2 == [s3 EXCEPT !.contents_len = -1]
<1>1. n \in Int /\ n + 1 \in Int
  BY DEF IsState, PacketNumber
<1>2. r = IF Len(b) = 0 THEN [st |-> s, length |-> 0, m |-> Decoy]
          ELSE IF b[1] # LenSym(s.session, OtherSide(s), n)
          THEN [st |-> s1, length |-> -1, m |-> Decoy]
          ELSE IF Len(b) < 2 THEN [st |-> s1, length |-> 0, m |-> Decoy]
          ELSE IF b[2].k # "body" \/ b[2] # BodySym(s.session, OtherSide(s), s.recvP, aad, b[2].m)
          THEN [st |-> s1, length |-> -1, m |-> Decoy]
          ELSE [st |-> s2, length |-> 2, m |-> b[2].m]
  BY DEF v2_receive_packet, PacketNumber
<1> HIDE DEF n
<1>3. Read(s, s0) /\ s0.recvL = n + 1 /\ s0.recvP = s.recvP
  BY <1>1, SetRecvL DEF Read, SameEnd, SameGarbage
<1> HIDE DEF s0
<1>4. Read(s0, s1) /\ s1.recvL = n + 1 /\ s1.recvP = s.recvP /\ s1.contents_len = 1
  BY <1>3, SetContents DEF Read, SameEnd, SameGarbage
<1> HIDE DEF s1
<1>5. Read(s1, s3) /\ s3.recvL = n + 1 /\ s3.recvP = s.recvP + 1
  BY <1>4, SetRecvP DEF Read, SameEnd, SameGarbage
<1> HIDE DEF s3
<1>6. Read(s3, s2) /\ s2.recvL = n + 1 /\ s2.recvP = s.recvP + 1 /\ s2.contents_len = -1
  BY <1>5, SetContents DEF Read, SameEnd, SameGarbage
<1> HIDE DEF s2
<1>7. Read(s, s) /\ Read(s, s1) /\ Read(s, s2)
  BY <1>3, <1>4, <1>5, <1>6 DEF Read, SameEnd, SameGarbage
<1>8. PacketNumber(s1) = n
  BY <1>1, <1>4 DEF PacketNumber
<1>9. r.length = 2 => r.st = s2 /\ r.m = b[2].m /\ b[2].k = "body" /\ Len(b) # 0 /\ ~(Len(b) < 2)
  BY <1>2
<1>10. r.length = 0 => r.st = s \/ r.st = s1
  BY <1>2
<1>11. r.length = -1 =>
         /\ Len(b) # 0
         /\ \/ b[1] # LenSym(s.session, OtherSide(s), n)
            \/ /\ ~(Len(b) < 2)
               /\ b[2].k = "body" => b[2] # BodySym(s.session, OtherSide(s), s.recvP, aad, b[2].m)
  BY <1>2
<1>12. r.st \in {s, s1, s2}
  BY <1>2
<1>13. Read(s, r.st)
  BY <1>7, <1>12
<1>14. r.length = 0 => r.st.recvP = s.recvP /\ PacketNumber(r.st) = n
  BY <1>4, <1>8, <1>10 DEF n
<1> QED BY <1>6, <1>9, <1>11, <1>13, <1>14 DEF n

\* Keys and garbage.
GenerateMade(s, u, k, g) ==
  /\ IsState(u) /\ u.privkey = k /\ u.sent_garbage = g
  /\ SameReading(s, u) /\ SameGarbage(s, u) /\ u.tried = s.tried
  /\ u.initiating = s.initiating /\ u.received_prefix = s.received_prefix
  /\ u.session = s.session /\ u.sendN = s.sendN

LEMMA GenerateFields ==
  ASSUME NEW s, IsState(s), NEW k, NEW g
  PROVE  GenerateMade(s, generate_keypair_and_garbage(s, k, g).st, k, g)
<1> DEFINE t == [s EXCEPT !.privkey = k]
           u == [t EXCEPT !.sent_garbage = g]
<1>1. generate_keypair_and_garbage(s, k, g).st = u
  BY DEF generate_keypair_and_garbage
<1>2. t = [s EXCEPT !.privkey = k]
  OBVIOUS
<1>3. u = [t EXCEPT !.sent_garbage = g]
  OBVIOUS
<1> HIDE DEF t, u
<1>4. /\ IsState(t) /\ t.privkey = k /\ SameReading(s, t) /\ SameGarbage(s, t) /\ t.tried = s.tried
      /\ t.initiating = s.initiating /\ t.received_prefix = s.received_prefix
      /\ t.session = s.session /\ t.sendN = s.sendN
  BY <1>2, SetPrivkey DEF SameReading, SameGarbage
<1>5. IsState(t)
  BY <1>4
<1>6. /\ IsState(u) /\ u.privkey = t.privkey /\ u.sent_garbage = g
      /\ SameReading(t, u) /\ SameGarbage(t, u) /\ u.tried = t.tried
      /\ u.initiating = t.initiating /\ u.received_prefix = t.received_prefix
      /\ u.session = t.session /\ u.sendN = t.sendN
  BY <1>3, <1>5, SetSentGarbage DEF SameReading, SameGarbage
<1>7. GenerateMade(s, u, k, g)
  BY <1>4, <1>6 DEF GenerateMade, SameReading, SameGarbage
<1> QED BY <1>1, <1>7

\* Sending moves the position of the sending cipher only.
SentOnly(s, u) ==
  /\ IsState(u) /\ SameReading(s, u) /\ SameGarbage(s, u) /\ u.tried = s.tried
  /\ u.initiating = s.initiating /\ u.received_prefix = s.received_prefix
  /\ u.session = s.session /\ u.privkey = s.privkey /\ u.sent_garbage = s.sent_garbage

LEMMA SentFields ==
  ASSUME NEW s, IsState(s), NEW msgs
  PROVE  /\ SentOnly(s, SentState(s, msgs))
         /\ SentState(s, msgs).sendN = IF v2 THEN s.sendN + Len(msgs) ELSE s.sendN
<1> DEFINE e == s.sendN + Len(msgs)
           u == [s EXCEPT !.sendN = e]
<1>0. u = [s EXCEPT !.sendN = e]
  OBVIOUS
<1> HIDE DEF e, u
<1>1. SentOnly(s, u) /\ u.sendN = e
  BY <1>0, SetSendN DEF SentOnly, SameReading, SameGarbage
<1>2. SentOnly(s, s)
  BY DEF SentOnly, SameReading, SameGarbage
<1> HIDE DEF u
<1>3. SentState(s, msgs) = IF v2 THEN u ELSE s
  BY DEF SentState, u, e
<1> QED BY <1>1, <1>2, <1>3 DEF e

LEMMA MinOfTwo ==
  ASSUME NEW S, S \subseteq 1 .. 2, S # {}
  PROVE  Min(S) \in S
<1>1. \E x \in S : \A y \in S : x <= y
  <2>1. CASE 1 \in S
    BY <2>1
  <2>2. CASE 1 \notin S
    <3>1. \A x \in S : x = 2
      BY <2>2
    <3>2. PICK x : x \in S
      OBVIOUS
    <3> QED BY <3>1, <3>2
  <2> QED BY <2>1, <2>2
<1> QED BY <1>1 DEF Min

\* respond_v2_handshake has read `read` symbols in all its calls.
RespondMade(s, b, r, read) ==
  /\ IsState(r.st) /\ r.st.tried = s.tried /\ SameReading(s, r.st) /\ SameGarbage(s, r.st)
  /\ r.st.initiating = s.initiating /\ r.st.privkey = s.privkey /\ r.st.sent_garbage = s.sent_garbage
  /\ r.st.session = s.session /\ r.st.sendN = s.sendN
  /\ read \in 0 .. 2 /\ r.length = read
  /\ Len(s.received_prefix) <= read /\ read <= Len(s.received_prefix) + Len(b)
  /\ IsTake(r.st.received_prefix, s.received_prefix \o b, read)
  /\ r.lost \in BOOLEAN
  /\ r.lost <=> Lesser(read, Len(b)) > read - Len(s.received_prefix)
  /\ r.answer \in {"v1", "v2", "wait"}
  /\ r.answer = "v2" => read \in 1 .. 2 /\ r.st.received_prefix[read] # V1Prefix[read]

LEMMA RespondFields ==
  ASSUME NEW s, IsState(s), IsSeq(s.received_prefix), Len(s.received_prefix) <= 2,
         NEW b, IsSeq(b), NEW r, r = respond_v2_handshake(s, b)
  PROVE  \E read : RespondMade(s, b, r, read)
<1> DEFINE old == Len(s.received_prefix)
           c == s.received_prefix \o b
           n == Lesser(2, old + Len(b))
           seen == SubSeq(c, 1, n)
           wrong == {i \in (old + 1) .. Len(seen) : seen[i] # V1Prefix[i]}
           read == IF wrong = {} THEN Len(seen) ELSE Min(wrong)
           pre == SubSeq(seen, 1, read)
           u == [s EXCEPT !.received_prefix = pre]
<1>1. Len(V1Prefix) = 2
  BY DEF V1Prefix
<1>2. r = [st |-> u, length |-> read, lost |-> Lesser(read, Len(b)) > read - old,
           answer |-> IF wrong # {} THEN "v2" ELSE IF read = 2 THEN "v1" ELSE "wait"]
  BY <1>1 DEF respond_v2_handshake
<1>3. IsConcat(c, s.received_prefix, b)
  BY ConcatSeq
<1>4. old \in Nat /\ Len(b) \in Nat /\ old <= 2
  BY SeqLen
<1> HIDE DEF c, old
<1>5. /\ n \in 0 .. 2 /\ old <= n /\ n <= old + Len(b) /\ Len(c) = old + Len(b)
  BY <1>3, <1>4 DEF Lesser, IsConcat, old
<1> HIDE DEF n
<1>6. IsTake(seen, c, n)
  BY <1>3, <1>5, TakeSeq DEF IsConcat
<1> HIDE DEF seen
<1>7. Len(seen) = n /\ IsSeq(seen)
  BY <1>6 DEF IsTake
<1>8. wrong # {} => Min(wrong) \in wrong
  <2>1. wrong \subseteq 1 .. 2
    BY <1>4, <1>5, <1>7
  <2> QED BY <2>1, MinOfTwo, Zenon
<1>9. /\ read \in 0 .. 2 /\ old <= read /\ read <= n
      /\ wrong # {} => read \in 1 .. 2 /\ seen[read] # V1Prefix[read]
  BY <1>4, <1>5, <1>7, <1>8
<1> HIDE DEF wrong, read
<1>10. IsTake(pre, seen, read)
  BY <1>7, <1>9, TakeSeq
<1> HIDE DEF pre
<1>11. IsTake(pre, c, read)
  BY <1>5, <1>6, <1>9, <1>10 DEF IsTake
<1>a. u = [s EXCEPT !.received_prefix = pre]
  OBVIOUS
<1> HIDE DEF u
<1>12. /\ IsState(u) /\ u.received_prefix = pre
       /\ u.tried = s.tried /\ SameReading(s, u) /\ SameGarbage(s, u)
       /\ u.initiating = s.initiating /\ u.privkey = s.privkey /\ u.sent_garbage = s.sent_garbage
       /\ u.session = s.session /\ u.sendN = s.sendN
  BY <1>a, SetPrefix DEF SameReading, SameGarbage
<1>13. wrong # {} => pre[read] # V1Prefix[read]
  BY <1>9, <1>10 DEF IsTake
<1>14. /\ r.st = u /\ r.length = read /\ r.lost \in BOOLEAN /\ r.lost = (Lesser(read, Len(b)) > read - old)
       /\ r.answer \in {"v1", "v2", "wait"} /\ (r.answer = "v2" => wrong # {})
  BY <1>2
<1>15. read <= old + Len(b)
  BY <1>4, <1>5, <1>9
<1>16. RespondMade(s, b, r, read)
  BY <1>9, <1>11, <1>12, <1>13, <1>14, <1>15 DEF RespondMade, c, old
<1> QED BY <1>16, Zenon

(***************************************************************************)
(* Bytes.                                                                  *)
(***************************************************************************)
LEMMA Halves ==
  ASSUME NEW i \in Nat, i > 0
  PROVE  /\ (2 * i - 1 - 1) \div 2 + 1 = i /\ ((2 * i - 1 - 1) % 2) + 1 = 1
         /\ (2 * i - 1) \div 2 + 1 = i /\ ((2 * i - 1) % 2) + 1 = 2
OBVIOUS

LEMMA Thirds ==
  ASSUME NEW i \in Nat, i > 0
  PROVE  /\ (3 * i - 2 - 1) \div 3 + 1 = i /\ ((3 * i - 2 - 1) % 3) + 1 = 1
         /\ (3 * i - 1 - 1) \div 3 + 1 = i /\ ((3 * i - 1 - 1) % 3) + 1 = 2
         /\ (3 * i - 1) \div 3 + 1 = i /\ ((3 * i - 1) % 3) + 1 = 3
OBVIOUS

\* Every place of pairs or of triples is one of them.
LEMMA InHalf ==
  ASSUME NEW n \in Nat, NEW j \in 1 .. 2 * n
  PROVE  \E i \in 1 .. n : j = 2 * i - 1 \/ j = 2 * i
<1>1. j = 2 * ((j + 1) \div 2) - 1 \/ j = 2 * ((j + 1) \div 2)
  OBVIOUS
<1>2. (j + 1) \div 2 \in 1 .. n
  OBVIOUS
<1> QED BY <1>1, <1>2, Zenon

LEMMA InThird ==
  ASSUME NEW n \in Nat, NEW j \in 1 .. 3 * n
  PROVE  \E i \in 1 .. n : j = 3 * i - 2 \/ j = 3 * i - 1 \/ j = 3 * i
<1> DEFINE i == (j + 2) \div 3
<1>1. j = 3 * i - 2 \/ j = 3 * i - 1 \/ j = 3 * i
  OBVIOUS
<1>2. i \in 1 .. n
  OBVIOUS
<1> QED BY <1>1, <1>2, Zenon

\* s is n pairs, or n triples, of what these functions give.
Pairs(s, n, a, b) ==
  /\ IsSeq(s) /\ Len(s) = 2 * n
  /\ \A i \in 1 .. n : s[2 * i - 1] = a[i] /\ s[2 * i] = b[i]
Triples(s, n, a, b, c) ==
  /\ IsSeq(s) /\ Len(s) = 3 * n
  /\ \A i \in 1 .. n : s[3 * i - 2] = a[i] /\ s[3 * i - 1] = b[i] /\ s[3 * i] = c[i]

LEMMA JoinedPairs ==
  ASSUME NEW n \in Nat, NEW a, NEW b, NEW s,
         s = [j \in 1 .. n * 2 |-> <<a[(j - 1) \div 2 + 1], b[(j - 1) \div 2 + 1]>>[((j - 1) % 2) + 1]]
  PROVE  Pairs(s, n, a, b)
<1>1. n * 2 = 2 * n /\ 2 * n \in Nat
  OBVIOUS
<1>2. DOMAIN s = 1 .. 2 * n
  BY <1>1
<1>3. IsSeq(s) /\ Len(s) = 2 * n
  BY <1>1, <1>2, FunctionSeq
<1>4. ASSUME NEW i \in 1 .. n
      PROVE  s[2 * i - 1] = a[i] /\ s[2 * i] = b[i]
  <2>1. 2 * i - 1 \in 1 .. n * 2 /\ 2 * i \in 1 .. n * 2
    OBVIOUS
  <2>2. /\ s[2 * i - 1] = <<a[(2 * i - 1 - 1) \div 2 + 1], b[(2 * i - 1 - 1) \div 2 + 1]>>[((2 * i - 1 - 1) % 2) + 1]
        /\ s[2 * i] = <<a[(2 * i - 1) \div 2 + 1], b[(2 * i - 1) \div 2 + 1]>>[((2 * i - 1) % 2) + 1]
    BY <2>1, Zenon
  <2>3. /\ (2 * i - 1 - 1) \div 2 + 1 = i /\ ((2 * i - 1 - 1) % 2) + 1 = 1
        /\ (2 * i - 1) \div 2 + 1 = i /\ ((2 * i - 1) % 2) + 1 = 2
    BY Halves
  <2>4. s[2 * i - 1] = <<a[i], b[i]>>[1] /\ s[2 * i] = <<a[i], b[i]>>[2]
    BY <2>2, <2>3, Zenon
  <2> QED BY <2>4
<1> QED BY <1>3, <1>4 DEF Pairs

LEMMA JoinedTriples ==
  ASSUME NEW n \in Nat, NEW a, NEW b, NEW c, NEW s,
         s = [j \in 1 .. n * 3 |->
               <<a[(j - 1) \div 3 + 1], b[(j - 1) \div 3 + 1], c[(j - 1) \div 3 + 1]>>[((j - 1) % 3) + 1]]
  PROVE  Triples(s, n, a, b, c)
<1>1. n * 3 = 3 * n /\ 3 * n \in Nat
  OBVIOUS
<1>2. DOMAIN s = 1 .. 3 * n
  BY <1>1
<1>3. IsSeq(s) /\ Len(s) = 3 * n
  BY <1>1, <1>2, FunctionSeq
<1>4. ASSUME NEW i \in 1 .. n
      PROVE  s[3 * i - 2] = a[i] /\ s[3 * i - 1] = b[i] /\ s[3 * i] = c[i]
  <2> DEFINE at(j) == <<a[(j - 1) \div 3 + 1], b[(j - 1) \div 3 + 1], c[(j - 1) \div 3 + 1]>>[((j - 1) % 3) + 1]
  <2>1. 3 * i - 2 \in 1 .. n * 3 /\ 3 * i - 1 \in 1 .. n * 3 /\ 3 * i \in 1 .. n * 3
    OBVIOUS
  <2>2. s[3 * i - 2] = at(3 * i - 2) /\ s[3 * i - 1] = at(3 * i - 1) /\ s[3 * i] = at(3 * i)
    BY <2>1, Zenon
  <2>3. /\ (3 * i - 2 - 1) \div 3 + 1 = i /\ ((3 * i - 2 - 1) % 3) + 1 = 1
        /\ (3 * i - 1 - 1) \div 3 + 1 = i /\ ((3 * i - 1 - 1) % 3) + 1 = 2
        /\ (3 * i - 1) \div 3 + 1 = i /\ ((3 * i - 1) % 3) + 1 = 3
    BY Thirds
  <2>4. /\ s[3 * i - 2] = <<a[i], b[i], c[i]>>[1] /\ s[3 * i - 1] = <<a[i], b[i], c[i]>>[2]
        /\ s[3 * i] = <<a[i], b[i], c[i]>>[3]
    BY <2>2, <2>3, Zenon
  <2> QED BY <2>4
<1> QED BY <1>3, <1>4 DEF Triples

\* Messages as packets from number n on, and as v1 messages.
Packets(s, msgs, ses, side, n) ==
  /\ IsSeq(s) /\ Len(s) = 2 * Len(msgs)
  /\ \A i \in 1 .. Len(msgs) : /\ s[2 * i - 1] = LenSym(ses, side, n + i - 1)
                               /\ s[2 * i] = BodySym(ses, side, n + i - 1, 0, msgs[i])
Messages(s, msgs, n) ==
  /\ IsSeq(s) /\ Len(s) = 3 * Len(msgs)
  /\ \A i \in 1 .. Len(msgs) : /\ s[3 * i - 2] = Magic /\ s[3 * i - 1] = TypeOf(msgs[i])
                               /\ s[3 * i] = Payload(msgs[i], n + i - 1)

LEMMA NodeBytesAre ==
  ASSUME NEW nd, NEW msgs, IsSeq(msgs)
  PROVE  /\ nd.v2 => Packets(NodeBytes(nd, msgs), msgs, nd.session, NodeSide, nd.sendN)
         /\ ~nd.v2 => Messages(NodeBytes(nd, msgs), msgs, nd.sendN)
<1> DEFINE n == Len(msgs)
           s == NodeBytes(nd, msgs)
<1>0. n \in Nat
  BY SeqLen
<1>1. ASSUME nd.v2 PROVE Packets(s, msgs, nd.session, NodeSide, nd.sendN)
  <2> DEFINE a == [i \in 1 .. n |-> LenSym(nd.session, NodeSide, nd.sendN + i - 1)]
             b == [i \in 1 .. n |-> BodySym(nd.session, NodeSide, nd.sendN + i - 1, 0, msgs[i])]
  <2>1. s = [j \in 1 .. n * 2 |->
         <<LenSym(nd.session, NodeSide, nd.sendN + ((j - 1) \div 2 + 1) - 1),
           BodySym(nd.session, NodeSide, nd.sendN + ((j - 1) \div 2 + 1) - 1, 0, msgs[(j - 1) \div 2 + 1])>>[((j - 1) % 2) + 1]]
    BY <1>1, Zenon DEF NodeBytes, Joined
  <2> HIDE DEF s, n
  <2>2. \A j \in 1 .. n * 2 : (j - 1) \div 2 + 1 \in 1 .. n
    BY <1>0
  <2>3. \A j \in 1 .. n * 2 :
          /\ a[(j - 1) \div 2 + 1] = LenSym(nd.session, NodeSide, nd.sendN + ((j - 1) \div 2 + 1) - 1)
          /\ b[(j - 1) \div 2 + 1]
               = BodySym(nd.session, NodeSide, nd.sendN + ((j - 1) \div 2 + 1) - 1, 0, msgs[(j - 1) \div 2 + 1])
    BY <2>2, Zenon
  <2>4. /\ \A i \in 1 .. n : /\ a[i] = LenSym(nd.session, NodeSide, nd.sendN + i - 1)
                             /\ b[i] = BodySym(nd.session, NodeSide, nd.sendN + i - 1, 0, msgs[i])
    OBVIOUS
  <2> HIDE DEF a, b
  <2>5. s = [j \in 1 .. n * 2 |-> <<a[(j - 1) \div 2 + 1], b[(j - 1) \div 2 + 1]>>[((j - 1) % 2) + 1]]
    BY <2>1, <2>3, Zenon
  <2>6. Pairs(s, n, a, b)
    BY <1>0, <2>5, JoinedPairs, Zenon
  <2> QED BY <2>4, <2>6 DEF Pairs, Packets, n
<1>2. ASSUME ~nd.v2 PROVE Messages(s, msgs, nd.sendN)
  <2> DEFINE a == [i \in 1 .. n |-> Magic]
             b == [i \in 1 .. n |-> TypeOf(msgs[i])]
             c == [i \in 1 .. n |-> Payload(msgs[i], nd.sendN + i - 1)]
  <2>1. s = [j \in 1 .. n * 3 |->
         <<Magic, TypeOf(msgs[(j - 1) \div 3 + 1]),
           Payload(msgs[(j - 1) \div 3 + 1], nd.sendN + ((j - 1) \div 3 + 1) - 1)>>[((j - 1) % 3) + 1]]
    BY <1>2, Zenon DEF NodeBytes, Joined
  <2> HIDE DEF s, n
  <2>2. \A j \in 1 .. n * 3 : (j - 1) \div 3 + 1 \in 1 .. n
    BY <1>0
  <2>3. \A j \in 1 .. n * 3 :
          /\ a[(j - 1) \div 3 + 1] = Magic
          /\ b[(j - 1) \div 3 + 1] = TypeOf(msgs[(j - 1) \div 3 + 1])
          /\ c[(j - 1) \div 3 + 1]
               = Payload(msgs[(j - 1) \div 3 + 1], nd.sendN + ((j - 1) \div 3 + 1) - 1)
    BY <2>2, Zenon
  <2>4. /\ \A i \in 1 .. n : /\ a[i] = Magic /\ b[i] = TypeOf(msgs[i])
                             /\ c[i] = Payload(msgs[i], nd.sendN + i - 1)
    OBVIOUS
  <2> HIDE DEF a, b, c
  <2>5. s = [j \in 1 .. n * 3 |->
               <<a[(j - 1) \div 3 + 1], b[(j - 1) \div 3 + 1], c[(j - 1) \div 3 + 1]>>[((j - 1) % 3) + 1]]
    BY <2>1, <2>3, Zenon
  <2>6. Triples(s, n, a, b, c)
    BY <1>0, <2>5, JoinedTriples, Zenon
  <2> QED BY <2>4, <2>6 DEF Triples, Messages, n
<1> QED BY <1>1, <1>2

\* The terminator and the packets that end a handshake.
OpeningIs(o, ses, side, g, d) ==
  /\ IsSeq(o) /\ Len(o) = 2 * d + 3 /\ o[1] = Term(ses, side)
  /\ \A i \in 1 .. d + 1 :
       /\ o[2 * i] = LenSym(ses, side, i - 1)
       /\ o[2 * i + 1] = BodySym(ses, side, i - 1, IF i = 1 THEN g ELSE 0, IF i <= d THEN Decoy ELSE Empty)

LEMMA OpeningAre ==
  ASSUME NEW s, NEW d \in Nat
  PROVE  OpeningIs(Opening(s, d), s.session, Side(s), s.sent_garbage, d)
<1> DEFINE n == d + 1
           p == Joined(n, 2, LAMBDA i : <<LenSym(s.session, Side(s), i - 1),
                  BodySym(s.session, Side(s), i - 1, IF i = 1 THEN s.sent_garbage ELSE 0,
                          IF i <= d THEN Decoy ELSE Empty)>>)
           t == <<Term(s.session, Side(s))>>
           a == [i \in 1 .. n |-> LenSym(s.session, Side(s), i - 1)]
           b == [i \in 1 .. n |-> BodySym(s.session, Side(s), i - 1, IF i = 1 THEN s.sent_garbage ELSE 0,
                                          IF i <= d THEN Decoy ELSE Empty)]
<1>1. Opening(s, d) = t \o p
  BY DEF Opening, Joined
<1>2. p = [j \in 1 .. n * 2 |->
        <<LenSym(s.session, Side(s), ((j - 1) \div 2 + 1) - 1),
          BodySym(s.session, Side(s), ((j - 1) \div 2 + 1) - 1,
                  IF ((j - 1) \div 2 + 1) = 1 THEN s.sent_garbage ELSE 0,
                  IF ((j - 1) \div 2 + 1) <= d THEN Decoy ELSE Empty)>>[((j - 1) % 2) + 1]]
  BY DEF Joined
<1>3. n \in Nat /\ n > 0
  OBVIOUS
<1> HIDE DEF p, n
<1>4. \A j \in 1 .. n * 2 : (j - 1) \div 2 + 1 \in 1 .. n
  BY <1>3
<1>5. \A j \in 1 .. n * 2 :
        /\ a[(j - 1) \div 2 + 1] = LenSym(s.session, Side(s), ((j - 1) \div 2 + 1) - 1)
        /\ b[(j - 1) \div 2 + 1]
             = BodySym(s.session, Side(s), ((j - 1) \div 2 + 1) - 1,
                  IF ((j - 1) \div 2 + 1) = 1 THEN s.sent_garbage ELSE 0,
                  IF ((j - 1) \div 2 + 1) <= d THEN Decoy ELSE Empty)
  BY <1>4, Zenon
<1>6. \A i \in 1 .. n :
        /\ a[i] = LenSym(s.session, Side(s), i - 1)
        /\ b[i] = BodySym(s.session, Side(s), i - 1, IF i = 1 THEN s.sent_garbage ELSE 0,
                          IF i <= d THEN Decoy ELSE Empty)
  BY Zenon
<1> HIDE DEF a, b
<1>7. p = [j \in 1 .. n * 2 |-> <<a[(j - 1) \div 2 + 1], b[(j - 1) \div 2 + 1]>>[((j - 1) % 2) + 1]]
  BY <1>2, <1>5, Zenon
<1>8. Pairs(p, n, a, b)
  BY <1>3, <1>7, JoinedPairs, Zenon
<1>9. IsSeq(t) /\ Len(t) = 1 /\ t[1] = Term(s.session, Side(s))
  BY OneSeq
<1> HIDE DEF t
<1>10. IsConcat(t \o p, t, p)
  BY <1>8, <1>9, ConcatSeq DEF Pairs
<1> DEFINE o == t \o p
<1> HIDE DEF o
<1>11. /\ IsSeq(o) /\ Len(o) = 1 + 2 * n /\ o[1] = Term(s.session, Side(s))
       /\ \A i \in 1 .. 2 * n : o[1 + i] = p[i]
  BY <1>8, <1>9, <1>10 DEF IsConcat, Pairs, o
<1>12. ASSUME NEW i \in 1 .. n
       PROVE  o[2 * i] = a[i] /\ o[2 * i + 1] = b[i]
  <2>1. 2 * i - 1 \in 1 .. 2 * n /\ 2 * i \in 1 .. 2 * n /\ 1 + (2 * i - 1) = 2 * i /\ 1 + 2 * i = 2 * i + 1
    BY <1>3
  <2>2. p[2 * i - 1] = a[i] /\ p[2 * i] = b[i]
    BY <1>8 DEF Pairs
  <2>3. o[1 + (2 * i - 1)] = p[2 * i - 1] /\ o[1 + 2 * i] = p[2 * i]
    BY <1>11, <2>1
  <2> QED BY <2>1, <2>2, <2>3
<1>13. 1 + 2 * n = 2 * d + 3
  BY DEF n
<1>14. IsSeq(o) /\ Len(o) = 2 * d + 3 /\ o[1] = Term(s.session, Side(s))
  BY <1>11, <1>13
<1>15. \A i \in 1 .. d + 1 :
         /\ o[2 * i] = LenSym(s.session, Side(s), i - 1)
         /\ o[2 * i + 1] = BodySym(s.session, Side(s), i - 1, IF i = 1 THEN s.sent_garbage ELSE 0,
                                   IF i <= d THEN Decoy ELSE Empty)
  BY <1>6, <1>12, Zenon DEF n
<1>16. OpeningIs(o, s.session, Side(s), s.sent_garbage, d)
  BY <1>14, <1>15, Zenon DEF OpeningIs
<1> QED BY <1>1, <1>16 DEF o

\* What build_message makes of each message.
PacketOf(s, ses, side, n, m) == s = <<LenSym(ses, side, n), BodySym(ses, side, n, 0, m)>>
MessageOf(s, n, m) == s = <<Magic, TypeOf(m), Payload(m, n)>>

LEMMA BuiltAre ==
  ASSUME IsState(st), NEW msgs, IsSeq(msgs), st.sendN \in Int
  PROVE  /\ IsSeq(Built(msgs)) /\ Len(Built(msgs)) = Len(msgs)
         /\ v2 => \A i \in 1 .. Len(msgs) :
                    PacketOf(Built(msgs)[i], st.session, Side(st), st.sendN + i - 1, msgs[i])
         /\ ~v2 => \A i \in 1 .. Len(msgs) : MessageOf(Built(msgs)[i], vN + i - 1, msgs[i])
<1> DEFINE b == Built(msgs)
<1>0. Len(msgs) \in Nat
  BY SeqLen
<1>1. DOMAIN b = 1 .. Len(msgs) /\ b = [i \in 1 .. Len(msgs) |-> b[i]]
  BY DEF Built
<1>2. IsSeq(b) /\ Len(b) = Len(msgs)
  BY <1>0, <1>1, FunctionSeq
<1>3. ASSUME v2, NEW i \in 1 .. Len(msgs)
      PROVE  PacketOf(b[i], st.session, Side(st), st.sendN + i - 1, msgs[i])
  <2> DEFINE e == st.sendN + i - 1
             u == [st EXCEPT !.sendN = e]
  <2>1. b[i] = v2_enc_packet(u, msgs[i], 0).bytes
    BY <1>3 DEF Built
  <2>2. u = [st EXCEPT !.sendN = e]
    OBVIOUS
  <2> HIDE DEF u, e, b
  <2>3. u.session = st.session /\ u.sendN = e /\ u.initiating = st.initiating
    BY <2>2, SetSendN
  <2>4. Side(u) = Side(st)
    BY <2>3 DEF Side
  <2>5. b[i] = <<LenSym(u.session, Side(u), u.sendN), BodySym(u.session, Side(u), u.sendN, 0, msgs[i])>>
    BY <2>1 DEF v2_enc_packet
  <2> QED BY <2>3, <2>4, <2>5, Zenon DEF PacketOf, e
<1>4. ASSUME ~v2, NEW i \in 1 .. Len(msgs)
      PROVE  MessageOf(b[i], vN + i - 1, msgs[i])
  BY <1>4 DEF Built, MessageOf
<1> HIDE DEF b
<1>5. v2 => \A i \in 1 .. Len(msgs) : PacketOf(b[i], st.session, Side(st), st.sendN + i - 1, msgs[i])
  BY <1>3
<1>6. ~v2 => \A i \in 1 .. Len(msgs) : MessageOf(b[i], vN + i - 1, msgs[i])
  BY <1>4
<1> QED BY <1>2, <1>5, <1>6 DEF b

\* A key with garbage behind it.
KeyIs(s, key, same, g) ==
  /\ IsSeq(s) /\ Len(s) = KEY_LEN + g
  /\ \A i \in 1 .. KEY_LEN : s[i] = KeySyms(key, same)[i]
  /\ \A i \in 1 .. g : s[KEY_LEN + i] = Garbage

LEMMA KeySymsSeq ==
  ASSUME NEW k, NEW same
  PROVE  IsSeq(KeySyms(k, same)) /\ Len(KeySyms(k, same)) = KEY_LEN
<1> DEFINE s == KeySyms(k, same)
<1>1. DOMAIN s = 1 .. KEY_LEN /\ s = [i \in 1 .. KEY_LEN |-> s[i]]
  BY DEF KeySyms
<1> HIDE DEF s
<1>2. KEY_LEN \in Nat
  BY KeyAssumption
<1>3. IsSeq(s) /\ Len(s) = KEY_LEN
  BY <1>1, <1>2, FunctionSeq
<1> QED BY <1>3 DEF s

LEMMA KeyAre ==
  ASSUME NEW k, NEW same, NEW g \in Nat
  PROVE  KeyIs(KeySyms(k, same) \o [i \in 1 .. g |-> Garbage], k, same, g)
<1> DEFINE s == KeySyms(k, same)
           t == [i \in 1 .. g |-> Garbage]
<1>1. IsSeq(s) /\ Len(s) = KEY_LEN
  BY KeySymsSeq
<1>2. DOMAIN t = 1 .. g /\ t = [i \in 1 .. g |-> t[i]] /\ \A i \in 1 .. g : t[i] = Garbage
  OBVIOUS
<1> HIDE DEF t, s
<1>3. IsSeq(t) /\ Len(t) = g
  BY <1>2, FunctionSeq
<1>4. IsConcat(s \o t, s, t)
  BY <1>1, <1>3, ConcatSeq
<1>5. KeyIs(s \o t, k, same, g)
  BY <1>1, <1>2, <1>3, <1>4 DEF IsConcat, KeyIs, s
<1> QED BY <1>5 DEF s, t

\* complete_handshake when the key is whole.
CompleteMade(s, b, d, keys, same, r) ==
  /\ r.length \in Nat /\ r.length = KEY_LEN - Len(s.received_prefix) /\ r.length <= Len(b)
  /\ \E theirs : /\ IsTake(theirs, s.received_prefix \o b, KEY_LEN)
                 /\ r.st.session = v2_ecdh(s, KeyOf(theirs, keys, same))
  /\ IsState(r.st) /\ r.st.sendN = d + 1
  /\ SameReading(s, r.st) /\ SameGarbage(s, r.st) /\ r.st.tried = s.tried
  /\ r.st.initiating = s.initiating /\ r.st.privkey = s.privkey
  /\ r.st.sent_garbage = s.sent_garbage /\ r.st.received_prefix = s.received_prefix
  /\ OpeningIs(r.bytes, r.st.session, Side(r.st), s.sent_garbage, d)
CompleteWaits(s, b, r) ==
  r.st = s /\ r.length = 0 /\ r.bytes = <<>> /\ Len(s.received_prefix) + Len(b) < KEY_LEN

SessionOnly(s, u) ==
  /\ IsState(u) /\ SameReading(s, u) /\ SameGarbage(s, u) /\ u.tried = s.tried
  /\ u.initiating = s.initiating /\ u.privkey = s.privkey
  /\ u.sent_garbage = s.sent_garbage /\ u.received_prefix = s.received_prefix

LEMMA SessionSet ==
  ASSUME NEW s, IsState(s), NEW e, NEW u, u = [s EXCEPT !.session = e]
  PROVE  SessionOnly(s, u) /\ u.session = e
BY SetSession DEF SessionOnly, SameReading, SameGarbage

LEMMA PositionSet ==
  ASSUME NEW s, IsState(s), NEW e, NEW u, u = [s EXCEPT !.sendN = e]
  PROVE  SentOnly(s, u) /\ u.sendN = e
BY SetSendN DEF SentOnly, SameReading, SameGarbage

LEMMA CompleteFields ==
  ASSUME NEW s, IsState(s), IsSeq(s.received_prefix), Len(s.received_prefix) <= 2,
         NEW b, IsSeq(b), NEW d \in Nat, NEW keys, NEW same,
         NEW r, r = complete_handshake(s, b, d, keys, same)
  PROVE  CompleteWaits(s, b, r) \/ CompleteMade(s, b, d, keys, same, r)
<1> DEFINE p == s.received_prefix
           k == Lesser(Len(b), KEY_LEN - Len(p))
           z == SubSeq(b, 1, k)
           theirs == p \o z
           ses == v2_ecdh(s, KeyOf(theirs, keys, same))
           s2 == [s EXCEPT !.session = ses]
           n == d + 1
           s3 == [s2 EXCEPT !.sendN = n]
<1>1. r = IF Len(theirs) # KEY_LEN
          THEN [st |-> s, length |-> 0, bytes |-> <<>>]
          ELSE [st |-> s3, length |-> KEY_LEN - Len(p), bytes |-> Opening(s2, d)]
  BY Zenon DEF complete_handshake
<1>2. /\ Len(p) \in Nat /\ Len(b) \in Nat /\ Len(p) <= 2 /\ KEY_LEN \in Nat /\ KEY_LEN > 2
  BY SeqLen, KeyAssumption
<1> HIDE DEF p
<1>3. k \in Nat /\ k <= Len(b) /\ k <= KEY_LEN - Len(p) /\ (k = Len(b) \/ k = KEY_LEN - Len(p))
  BY <1>2 DEF Lesser
<1> HIDE DEF k
<1>4. IsTake(z, b, k)
  BY <1>3, TakeSeq
<1> HIDE DEF z
<1>5. IsConcat(theirs, p, z) /\ IsConcat(p \o b, p, b)
  BY <1>4, ConcatSeq DEF IsTake, p
<1> HIDE DEF theirs
<1>6. Len(theirs) = Len(p) + k
  BY <1>4, <1>5 DEF IsConcat, IsTake
<1>7. CASE Len(theirs) # KEY_LEN
  <2>1. Len(p) + Len(b) < KEY_LEN
    BY <1>2, <1>3, <1>6, <1>7
  <2>2. r.st = s /\ r.length = 0 /\ r.bytes = <<>>
    BY <1>1, <1>7
  <2> QED BY <2>1, <2>2 DEF CompleteWaits, p
<1>8. CASE Len(theirs) = KEY_LEN
  <2>1. k = KEY_LEN - Len(p)
    BY <1>2, <1>3, <1>6, <1>8
  <2>2. IsTake(theirs, p \o b, KEY_LEN)
    <3> DEFINE c == p \o b
    <3> HIDE DEF c
    <3>1. IsConcat(c, p, b)
      BY <1>5 DEF c
    <3>2. ASSUME NEW i \in 1 .. KEY_LEN PROVE theirs[i] = c[i]
      <4>1. CASE i <= Len(p)
        BY <1>2, <1>5, <3>1, <4>1 DEF IsConcat
      <4>2. CASE i > Len(p)
        <5>1. i - Len(p) \in 1 .. k /\ i - Len(p) \in 1 .. Len(b) /\ Len(p) + (i - Len(p)) = i
          BY <1>2, <1>3, <2>1, <4>2
        <5>2. theirs[Len(p) + (i - Len(p))] = z[i - Len(p)]
          BY <1>4, <1>5, <5>1 DEF IsConcat, IsTake
        <5>3. c[Len(p) + (i - Len(p))] = b[i - Len(p)]
          BY <3>1, <5>1 DEF IsConcat
        <5>4. z[i - Len(p)] = b[i - Len(p)]
          BY <1>4, <5>1 DEF IsTake
        <5> QED BY <5>1, <5>2, <5>3, <5>4
      <4> QED BY <1>2, <4>1, <4>2
    <3>3. IsSeq(theirs) /\ Len(theirs) = KEY_LEN
      BY <1>5, <1>8 DEF IsConcat
    <3> QED BY <3>2, <3>3 DEF IsTake, c
  <2>3. s2 = [s EXCEPT !.session = ses]
    BY Zenon
  <2>13. s3 = [s2 EXCEPT !.sendN = n]
    OBVIOUS
  <2>4. r.st = s3 /\ r.length = KEY_LEN - Len(p) /\ r.bytes = Opening(s2, d)
    BY <1>1, <1>8
  <2> HIDE DEF s2, s3, n, ses
  <2>5. /\ IsState(s2) /\ s2.session = ses
        /\ SameReading(s, s2) /\ SameGarbage(s, s2) /\ s2.tried = s.tried
        /\ s2.initiating = s.initiating /\ s2.privkey = s.privkey
        /\ s2.sent_garbage = s.sent_garbage /\ s2.received_prefix = s.received_prefix
    <3>1. SessionOnly(s, s2) /\ s2.session = ses
      BY <2>3, SessionSet, Zenon
    <3> QED BY <3>1, Zenon DEF SessionOnly
  <2>6. /\ IsState(s3) /\ s3.session = ses /\ s3.sendN = n
        /\ SameReading(s2, s3) /\ SameGarbage(s2, s3) /\ s3.tried = s2.tried
        /\ s3.initiating = s2.initiating /\ s3.privkey = s2.privkey
        /\ s3.sent_garbage = s2.sent_garbage /\ s3.received_prefix = s2.received_prefix
    <3>1. IsState(s2)
      BY <2>5
    <3>2. SentOnly(s2, s3) /\ s3.sendN = n
      BY <2>13, <3>1, PositionSet, Zenon
    <3> QED BY <2>5, <3>2, Zenon DEF SentOnly
  <2>7. OpeningIs(Opening(s2, d), s2.session, Side(s2), s2.sent_garbage, d)
    BY OpeningAre
  <2>8. Side(s3) = Side(s2)
    BY <2>6 DEF Side
  <2>9. OpeningIs(r.bytes, r.st.session, Side(r.st), s.sent_garbage, d)
    BY <2>4, <2>5, <2>6, <2>7, <2>8, Zenon
  <2>10. r.length \in Nat /\ r.length = KEY_LEN - Len(s.received_prefix) /\ r.length <= Len(b)
    BY <1>2, <1>3, <2>1, <2>4 DEF p
  <2>11. /\ IsState(r.st) /\ r.st.sendN = d + 1
         /\ SameReading(s, r.st) /\ SameGarbage(s, r.st) /\ r.st.tried = s.tried
         /\ r.st.initiating = s.initiating /\ r.st.privkey = s.privkey
         /\ r.st.sent_garbage = s.sent_garbage /\ r.st.received_prefix = s.received_prefix
    BY <2>4, <2>5, <2>6 DEF SameReading, SameGarbage, n
  <2>12. r.st.session = v2_ecdh(s, KeyOf(theirs, keys, same))
    BY <2>4, <2>6 DEF ses
  <2> QED BY <2>2, <2>9, <2>10, <2>11, <2>12, Zenon DEF CompleteMade, p
<1> QED BY <1>7, <1>8

LEMMA LeastIn ==
  ASSUME NEW S, S \subseteq Nat, S # {}
  PROVE  Min(S) \in S /\ \A y \in S : Min(S) <= y
<1> DEFINE R == {p \in Nat \X Nat : p[1] < p[2]}
<1>1. IsWellFoundedOn(R, Nat)
  BY NatLessThanWellFounded DEF OpToRel
<1> HIDE DEF R
<1>2. PICK x \in S : \A y \in S : <<y, x>> \notin R
  BY <1>1, WFMin
<1>3. \A y \in S : x <= y
  <2> TAKE y \in S
  <2>1. x \in Nat /\ y \in Nat /\ <<y, x>> \notin R
    BY <1>2
  <2>2. y < x => <<y, x>> \in R
    BY <2>1 DEF R
  <2> QED BY <2>1, <2>2
<1>4. \E z \in S : \A y \in S : z <= y
  BY <1>3
<1> QED BY <1>4 DEF Min

\* FindTerminator finds the first terminator there is, or waits.
Found(s, b, r, i) ==
  /\ i \in 1 .. Lesser(Len(b), MAX_GARBAGE_LEN + 1) /\ b[i] = Term(s.session, OtherSide(s))
  /\ IsState(r.st) /\ SameEnd(s, r.st) /\ SameReading(s, r.st) /\ r.st.tried = s.tried
  /\ r.st.found /\ r.st.received_garbage = i - 1 /\ r.length = i /\ r.ok
NotFound(s, b, r) ==
  /\ \A i \in 1 .. Lesser(Len(b), MAX_GARBAGE_LEN + 1) : b[i] # Term(s.session, OtherSide(s))
  /\ r.st = s /\ r.length = 0 /\ (r.ok <=> Len(b) < MAX_GARBAGE_LEN + 2)

LEMMA TerminatorFields ==
  ASSUME NEW s, IsState(s), NEW b, IsSeq(b), NEW r, r = FindTerminator(s, b)
  PROVE  NotFound(s, b, r) \/ \E i : Found(s, b, r, i)
<1> DEFINE top == Lesser(Len(b), MAX_GARBAGE_LEN + 1)
           at == {i \in 1 .. top : b[i] = Term(s.session, OtherSide(s))}
           m == Min(at)
           e == m - 1
           t == [s EXCEPT !.found = TRUE]
           u == [t EXCEPT !.received_garbage = e]
<1>1. r = IF at # {} THEN [st |-> u, length |-> m, ok |-> TRUE]
          ELSE [st |-> s, length |-> 0, ok |-> Len(b) < MAX_GARBAGE_LEN + 2]
  BY DEF FindTerminator
<1>2. t = [s EXCEPT !.found = TRUE]
  OBVIOUS
<1>20. u = [t EXCEPT !.received_garbage = e]
  OBVIOUS
<1> HIDE DEF t, u
<1>3. top \in Nat
  BY SeqLen, KeyAssumption DEF Lesser
<1> HIDE DEF top
<1>4. at # {} => m \in at
  <2>1. at \subseteq Nat
    BY <1>3
  <2> QED BY <2>1, LeastIn, Zenon
<1> HIDE DEF m, e
<1>5. /\ IsState(t) /\ t.found /\ SameEnd(s, t) /\ SameReading(s, t) /\ t.tried = s.tried
  BY <1>2, SetFound DEF SameEnd, SameReading
<1>6. /\ IsState(u) /\ u.found = t.found /\ SameEnd(t, u) /\ SameReading(t, u) /\ u.tried = t.tried
      /\ u.received_garbage = e
  <2>1. IsState(t)
    BY <1>5
  <2> QED BY <1>20, <2>1, SetReceivedGarbage DEF SameEnd, SameReading
<1>7. IsState(u) /\ u.found /\ SameEnd(s, u) /\ SameReading(s, u) /\ u.tried = s.tried
  BY <1>5, <1>6 DEF SameEnd, SameReading
<1>8. CASE at # {}
  <2>1. r.st = u /\ r.length = m /\ r.ok
    BY <1>1, <1>8
  <2>2. m \in 1 .. top /\ b[m] = Term(s.session, OtherSide(s))
    BY <1>4, <1>8
  <2>3. Found(s, b, r, m)
    BY <1>6, <1>7, <2>1, <2>2 DEF Found, top, e
  <2> QED BY <2>3, Zenon
<1>9. CASE at = {}
  <2> DEFINE w == Len(b) < MAX_GARBAGE_LEN + 2
  <2>1. r = [st |-> s, length |-> 0, ok |-> w]
    BY <1>1, <1>9, Zenon
  <2> HIDE DEF w
  <2>4. r.st = s /\ r.length = 0 /\ r.ok = w
    BY <2>1
  <2>3. r.st = s /\ r.length = 0 /\ (r.ok <=> Len(b) < MAX_GARBAGE_LEN + 2)
    BY <2>4, Zenon DEF w
  <2>2. \A i \in 1 .. top : b[i] # Term(s.session, OtherSide(s))
    BY <1>9
  <2> QED BY <2>2, <2>3 DEF NotFound, top
<1> QED BY <1>8, <1>9

\* AuthPacket, by what v2_receive_packet gives.
AuthMade(s, q, r) ==
  /\ IsState(r.st) /\ SameEnd(s, r.st) /\ r.st.found = s.found
  /\ q.length \in {-1, 0, 2}
  /\ r.length = (IF q.length = 2 THEN 2 ELSE 0) /\ r.ok = (q.length # -1)
  /\ r.more = (q.length = 2 /\ q.m = Decoy)
  /\ r.st.recvP = q.st.recvP /\ r.st.recvL = q.st.recvL /\ r.st.contents_len = q.st.contents_len
  /\ IF q.length = 2 THEN r.st.received_garbage = 0 /\ r.st.tried = (q.m # Decoy)
     ELSE r.st.received_garbage = s.received_garbage /\ r.st.tried = s.tried

LEMMA AuthFields ==
  ASSUME NEW s, IsState(s), NEW b, NEW r, r = AuthPacket(s, b)
  PROVE  AuthMade(s, v2_receive_packet(s, b, s.received_garbage), r)
<1> DEFINE q == v2_receive_packet(s, b, s.received_garbage)
           e == q.m # Decoy
           t == [q.st EXCEPT !.received_garbage = 0]
           u == [t EXCEPT !.tried = e]
<1>1. Read(s, q.st) /\ q.length \in {-1, 0, 2}
  BY ReceiveFields, ReceivingKeeps DEF Received
<1>2. r = [st |-> IF q.length > 0 THEN u ELSE q.st,
           length |-> IF q.length > 0 THEN q.length ELSE 0,
           ok |-> q.length # -1,
           more |-> q.length > 0 /\ q.m = Decoy]
  BY DEF AuthPacket
<1>3. t = [q.st EXCEPT !.received_garbage = 0]
  OBVIOUS
<1>30. u = [t EXCEPT !.tried = e] /\ e \in BOOLEAN
  OBVIOUS
<1> HIDE DEF q, t, u, e
<1>4. /\ IsState(t) /\ SameEnd(q.st, t) /\ SameReading(q.st, t) /\ t.found = q.st.found
      /\ t.received_garbage = 0
  BY <1>1, <1>3, SetReceivedGarbage DEF SameEnd, SameReading, Read
<1>5. /\ IsState(u) /\ SameEnd(t, u) /\ SameReading(t, u) /\ u.found = t.found
      /\ u.received_garbage = t.received_garbage /\ u.tried = e
  <2>1. IsState(t)
    BY <1>4
  <2> QED BY <1>30, <2>1, SetTried DEF SameEnd, SameReading
<1>6. /\ SameEnd(s, u) /\ SameReading(q.st, u) /\ u.found = s.found
  BY <1>1, <1>4, <1>5 DEF SameEnd, SameReading, Read, SameGarbage
<1>7. q.length > 0 <=> q.length = 2
  BY <1>1
<1>8. /\ r.st = (IF q.length = 2 THEN u ELSE q.st) /\ r.length = (IF q.length = 2 THEN 2 ELSE 0)
      /\ r.ok = (q.length # -1) /\ r.more = (q.length = 2 /\ q.m = Decoy)
  BY <1>2, <1>7
<1>9. CASE q.length = 2
  BY <1>1, <1>4, <1>5, <1>6, <1>8, <1>9 DEF AuthMade, SameReading, e, q
<1>10. CASE q.length # 2
  BY <1>1, <1>8, <1>10 DEF AuthMade, Read, SameGarbage, q
<1> QED BY <1>9, <1>10

(***************************************************************************)
(* Lists of blocks.                                                        *)
(***************************************************************************)
LEMMA GreatestIn ==
  ASSUME NEW n \in Nat, NEW S, S \subseteq 0 .. n, S # {}
  PROVE  Max(S) \in S
<1> DEFINE D == {n - x : x \in S}
<1>1. D \subseteq Nat /\ D # {}
  <2>1. \A x \in S : n - x \in Nat
    OBVIOUS
  <2>2. PICK x \in S : TRUE
    OBVIOUS
  <2>3. n - x \in D
    OBVIOUS
  <2> QED BY <2>1, <2>3
<1> HIDE DEF D
<1>2. Min(D) \in D /\ \A y \in D : Min(D) <= y
  BY <1>1, LeastIn, Zenon
<1>3. PICK x \in S : Min(D) = n - x
  BY <1>2 DEF D
<1>4. \A y \in S : n - x <= n - y
  BY <1>2, <1>3 DEF D
<1>5. \A y \in S : x >= y
  BY <1>4
<1>6. \E z \in S : \A y \in S : z >= y
  BY <1>5
<1> QED BY <1>6 DEF Max

LEMMA ElementsFinite ==
  ASSUME NEW s, IsSeq(s)
  PROVE  IsFiniteSet(ToSet(s))
<1>1. DOMAIN s = 1 .. Len(s) /\ Len(s) \in Nat /\ s \in [1 .. Len(s) -> ToSet(s)]
  BY DEF IsSeq, ToSet
<1>2. s \in Surjection(1 .. Len(s), ToSet(s))
  BY <1>1 DEF Surjection, ToSet
<1>3. IsFiniteSet(1 .. Len(s))
  BY <1>1, FS_Interval
<1> QED BY <1>2, <1>3, FS_Surjection

LEMMA AscendingSeq ==
  ASSUME NEW S, IsFiniteSet(S)
  PROVE  IsSeq(Ascending(S)) /\ Len(Ascending(S)) = Cardinality(S)
<1> DEFINE s == Ascending(S)
<1> DEFINE e(i) == CHOOSE x \in S : Cardinality({y \in S : y <= x}) = i
<1>0. s = [i \in 1 .. Cardinality(S) |-> e(i)]
  BY DEF Ascending
<1> HIDE DEF e, s
<1>1. DOMAIN s = 1 .. Cardinality(S) /\ s = [i \in 1 .. Cardinality(S) |-> s[i]]
  BY <1>0
<1>2. Cardinality(S) \in Nat
  BY FS_CardinalityType
<1> HIDE DEF s
<1>3. IsSeq(s) /\ Len(s) = Cardinality(S)
  BY <1>1, <1>2, FunctionSeq
<1> QED BY <1>3 DEF s

\* The blocks or transactions that are offered are some, and finitely many.
LEMMA OfferedSome ==
  /\ Offered \subseteq 0 .. Top + MAX_HEADERS_RESULTS /\ Offered # {} /\ IsFiniteSet(Offered)
  /\ Max(Offered) \in Nat
<1> DEFINE n == Top + MAX_HEADERS_RESULTS
<1>1. n \in Nat /\ Offered \subseteq 0 .. n
  BY TopAssumption DEF Offered, Lesser
<1>2. Offered # {}
  <2>1. CASE mode.offer = "stored"
    <3>1. 2 \in Offered
      BY <2>1, TopAssumption DEF Offered, Stored
    <3> QED BY <3>1
  <2>2. CASE mode.offer # "stored"
    <3>1. 1 \in Offered
      BY <2>2, TopAssumption DEF Offered, Stored, Lesser
    <3> QED BY <3>1
  <2> QED BY <2>1, <2>2
<1>3. IsFiniteSet(0 .. n)
  BY <1>1, FS_Interval
<1>4. IsFiniteSet(Offered)
  BY <1>1, <1>3, FS_Subset
<1>5. Max(Offered) \in Offered
  BY <1>1, <1>2, GreatestIn
<1>6. Max(Offered) \in Nat
  <2>1. \A x \in Offered : x \in Nat
    BY <1>1
  <2> QED BY <1>5, <2>1, Zenon
<1> QED BY <1>1, <1>2, <1>4, <1>6

LEMMA HeadersSeq ==
  ASSUME last_block_hash \in Nat, block_store \subseteq Nat, NEW l
  PROVE  IsSeq(HeadersFor(l))
<1> DEFINE S == {b \in 0 .. last_block_hash : b \in l \/ b - 1 \notin block_store}
           stop == Max(S)
           n == Lesser(last_block_hash - stop + 1, MAX_HEADERS_RESULTS)
           s == HeadersFor(l)
<1>1. s = [i \in 1 .. n |-> stop + i - 1]
  BY DEF HeadersFor
<1>2. CASE S # {}
  <2>1. stop \in 0 .. last_block_hash
    BY <1>2, GreatestIn
  <2> HIDE DEF stop
  <2>2. n \in Nat
    BY <2>1, TopAssumption DEF Lesser
  <2> HIDE DEF n, s
  <2>3. DOMAIN s = 1 .. n /\ s = [i \in 1 .. n |-> s[i]]
    BY <1>1
  <2>4. IsSeq(s)
    BY <2>2, <2>3, FunctionSeq
  <2> QED BY <2>4 DEF s
<1>3. CASE S = {}
  <2>1. 0 - 1 \notin block_store
    OBVIOUS
  <2>2. 0 \in S
    BY <2>1
  <2> QED BY <1>3, <2>2
<1> QED BY <1>2, <1>3

(***************************************************************************)
(* Pings and pongs.  A stage g of the connection is the nonce of the ping  *)
(* that comes next or is under way, whether it is under way, how many      *)
(* messages were sent with it, and how many messages the node has read.    *)
(* What is on its way to the node (ask): no ping has a nonce that was not  *)
(* used yet, and the one of this stage is behind all that was sent before  *)
(* it.  What is on its way back (tell): a pong with the nonce of this      *)
(* stage comes when the node has read that far.                            *)
(***************************************************************************)
Ponged(n, g) ==
  n \in Int /\ n <= g.count /\ (n = g.count => g.pinged /\ g.recvN >= g.mark)
Asks(m, k, g) ==
  /\ m.t = "ping" => m.n \in Int /\ m.n <= g.count /\ (m.n = g.count => g.pinged /\ k + 1 >= g.mark)
  /\ m.t = "headers" => IsSeq(m.b)
Tells(m, g) ==
  /\ m.t = "pong" => Ponged(m.n, g)
  /\ m.t = "getdata" => IsSeq(m.b)
Sound(d, y, g) ==
  y.k \in {"body", "payload"} => IF d = "ask" THEN Asks(y.m, y.n, g) ELSE Tells(y.m, g)
All(d, s, g) == IsSeq(s) /\ \A i \in 1 .. Len(s) : Sound(d, s[i], g)
QueueAll(q, g) == IsSeq(q) /\ \A i \in 1 .. Len(q) : All("ask", q[i], g)

IsStage(g) == g.count \in Int /\ g.mark \in Int /\ g.recvN \in Int
Later(g, h) ==
  /\ IsStage(g) /\ IsStage(h)
  /\ \/ h.count > g.count
     \/ h.count = g.count /\ (g.pinged => h.pinged /\ h.mark = g.mark /\ h.recvN >= g.recvN)

LEMMA PongedLater ==
  ASSUME NEW g, NEW h, Later(g, h), NEW n, Ponged(n, g)
  PROVE  Ponged(n, h)
BY DEF Later, IsStage, Ponged

LEMMA SoundLater ==
  ASSUME NEW g, NEW h, Later(g, h), NEW d, NEW y, Sound(d, y, g)
  PROVE  Sound(d, y, h)
<1>1. \A m, k : Asks(m, k, g) => Asks(m, k, h)
  BY DEF Later, IsStage, Asks
<1>2. \A m : Tells(m, g) => Tells(m, h)
  BY PongedLater DEF Tells
<1> QED BY <1>1, <1>2 DEF Sound

LEMMA AllLater ==
  ASSUME NEW g, NEW h, Later(g, h), NEW d, NEW s, All(d, s, g)
  PROVE  All(d, s, h)
BY SoundLater DEF All

LEMMA QueueLater ==
  ASSUME NEW g, NEW h, Later(g, h), NEW q, QueueAll(q, g)
  PROVE  QueueAll(q, h)
BY AllLater DEF QueueAll

\* What says nothing of pings.
LEMMA MuteSound ==
  ASSUME NEW d, NEW g
  PROVE  /\ Sound(d, Magic, g) /\ Sound(d, Garbage, g)
         /\ \A m : Sound(d, TypeOf(m), g)
         /\ \A s, a : Sound(d, Term(s, a), g)
         /\ \A s, a, n : Sound(d, LenSym(s, a, n), g)
         /\ \A k, i : Sound(d, [k |-> "key", id |-> k, i |-> i], g)
BY DEF Sound, Magic, Garbage, TypeOf, Term, LenSym

\* A message that may be sent as number n.
Fit(d, m, n, g) == IF d = "ask" THEN Asks(m, n, g) ELSE Tells(m, g)

LEMMA MessageSound ==
  ASSUME NEW d, NEW m, NEW n, NEW g, Fit(d, m, n, g)
  PROVE  /\ Sound(d, Payload(m, n), g)
         /\ \A s, a, e : Sound(d, BodySym(s, a, n, e, m), g)
BY DEF Sound, Fit, Payload, BodySym

LEMMA PlainFit ==
  ASSUME NEW d, NEW m, m.t \notin {"ping", "headers", "pong", "getdata"}, NEW n, NEW g
  PROVE  Fit(d, m, n, g)
BY DEF Fit, Asks, Tells

LEMMA NothingAll ==
  ASSUME NEW d, NEW g
  PROVE  All(d, <<>>, g)
BY NothingSeq DEF All

LEMMA ConcatAll ==
  ASSUME NEW d, NEW g, NEW s, NEW t, All(d, s, g), All(d, t, g)
  PROVE  All(d, s \o t, g)
<1> DEFINE c == s \o t
<1>1. IsConcat(c, s, t)
  BY ConcatSeq DEF All
<1>2. Len(s) \in Nat /\ Len(t) \in Nat
  BY SeqLen DEF All
<1> HIDE DEF c
<1>3. ASSUME NEW i \in 1 .. Len(c) PROVE Sound(d, c[i], g)
  <2>1. CASE i <= Len(s)
    BY <1>1, <1>2, <2>1 DEF IsConcat, All
  <2>2. CASE i > Len(s)
    <3>1. i - Len(s) \in 1 .. Len(t) /\ i = Len(s) + (i - Len(s))
      BY <1>1, <1>2, <2>2 DEF IsConcat
    <3>2. c[i] = t[i - Len(s)]
      BY <1>1, <3>1 DEF IsConcat
    <3> QED BY <3>1, <3>2 DEF All
  <2> QED BY <1>2, <2>1, <2>2
<1>4. All(d, c, g)
  BY <1>1, <1>3 DEF All, IsConcat
<1> QED BY <1>4 DEF c

LEMMA DropAllSound ==
  ASSUME NEW d, NEW g, NEW s, All(d, s, g), NEW n \in Nat, n <= Len(s)
  PROVE  All(d, Drop(s, n), g)
<1> DEFINE c == Drop(s, n)
<1>1. IsDrop(c, s, n)
  BY DropSeq DEF All
<1>2. Len(s) \in Nat
  BY SeqLen DEF All
<1> HIDE DEF c
<1>3. ASSUME NEW i \in 1 .. Len(c) PROVE Sound(d, c[i], g)
  <2>1. n + i \in 1 .. Len(s)
    BY <1>1, <1>2 DEF IsDrop
  <2> QED BY <1>1, <2>1 DEF IsDrop, All
<1>4. All(d, c, g)
  BY <1>1, <1>3 DEF All, IsDrop
<1> QED BY <1>4 DEF c

LEMMA TakeAllSound ==
  ASSUME NEW d, NEW g, NEW s, All(d, s, g), NEW n \in Nat, n <= Len(s)
  PROVE  All(d, SubSeq(s, 1, n), g)
<1> DEFINE c == SubSeq(s, 1, n)
<1>1. IsTake(c, s, n)
  BY TakeSeq DEF All
<1>2. Len(s) \in Nat
  BY SeqLen DEF All
<1> HIDE DEF c
<1>3. All(d, c, g)
  BY <1>1, <1>2 DEF IsTake, All
<1> QED BY <1>3 DEF c

\* Messages that may be sent from number n on.
FitAll(d, msgs, n, g) ==
  IsSeq(msgs) /\ \A i \in 1 .. Len(msgs) : Fit(d, msgs[i], n + i - 1, g)

LEMMA PacketsAll ==
  ASSUME NEW d, NEW g, NEW msgs, NEW n, FitAll(d, msgs, n, g), NEW s, NEW ses, NEW side,
         Packets(s, msgs, ses, side, n)
  PROVE  All(d, s, g)
<1>1. Len(msgs) \in Nat
  BY SeqLen DEF FitAll
<1>2. ASSUME NEW j \in 1 .. Len(s) PROVE Sound(d, s[j], g)
  <2>1. PICK i \in 1 .. Len(msgs) : j = 2 * i - 1 \/ j = 2 * i
    BY <1>1, InHalf DEF Packets
  <2>2. s[2 * i - 1] = LenSym(ses, side, n + i - 1)
        /\ s[2 * i] = BodySym(ses, side, n + i - 1, 0, msgs[i])
    BY DEF Packets
  <2>3. Sound(d, LenSym(ses, side, n + i - 1), g)
    BY MuteSound
  <2>4. Sound(d, BodySym(ses, side, n + i - 1, 0, msgs[i]), g)
    BY MessageSound DEF FitAll
  <2> QED BY <2>1, <2>2, <2>3, <2>4
<1> QED BY <1>2 DEF All, Packets

LEMMA MessagesAll ==
  ASSUME NEW d, NEW g, NEW msgs, NEW n, FitAll(d, msgs, n, g), NEW s, Messages(s, msgs, n)
  PROVE  All(d, s, g)
<1>1. Len(msgs) \in Nat
  BY SeqLen DEF FitAll
<1>2. ASSUME NEW j \in 1 .. Len(s) PROVE Sound(d, s[j], g)
  <2>1. PICK i \in 1 .. Len(msgs) : j = 3 * i - 2 \/ j = 3 * i - 1 \/ j = 3 * i
    BY <1>1, InThird DEF Messages
  <2>2. /\ s[3 * i - 2] = Magic /\ s[3 * i - 1] = TypeOf(msgs[i])
        /\ s[3 * i] = Payload(msgs[i], n + i - 1)
    BY DEF Messages
  <2>3. Sound(d, Magic, g) /\ Sound(d, TypeOf(msgs[i]), g)
    BY MuteSound
  <2>4. Sound(d, Payload(msgs[i], n + i - 1), g)
    BY MessageSound DEF FitAll
  <2> QED BY <2>1, <2>2, <2>3, <2>4
<1> QED BY <1>2 DEF All, Messages

LEMMA KeyAll ==
  ASSUME NEW d, NEW g, NEW s, NEW key, NEW same \in 0 .. 2, NEW z \in Nat, KeyIs(s, key, same, z)
  PROVE  All(d, s, g)
<1>1. ASSUME NEW i \in 1 .. Len(s) PROVE Sound(d, s[i], g)
  <2>1. CASE i <= KEY_LEN
    <3>1. s[i] = KeySyms(key, same)[i] /\ i \in 1 .. KEY_LEN
      BY <2>1, KeyAssumption DEF KeyIs
    <3>2. s[i] = IF i <= same THEN V1Prefix[i] ELSE [k |-> "key", id |-> key, i |-> i]
      BY <3>1 DEF KeySyms
    <3>3. V1Prefix[1] = Magic /\ V1Prefix[2] = TypeOf(Version)
      BY DEF V1Prefix
    <3>4. i <= same => s[i] = Magic \/ s[i] = TypeOf(Version)
      BY <3>1, <3>2, <3>3
    <3> QED BY <3>2, <3>4, MuteSound
  <2>2. CASE i > KEY_LEN
    <3>1. i - KEY_LEN \in 1 .. z /\ i = KEY_LEN + (i - KEY_LEN)
      BY <2>2, KeyAssumption DEF KeyIs
    <3>2. s[i] = Garbage
      BY <3>1 DEF KeyIs
    <3> QED BY <3>2, MuteSound
  <2> QED BY <2>1, <2>2, KeyAssumption
<1> QED BY <1>1 DEF All, KeyIs

LEMMA OpeningAll ==
  ASSUME NEW d, NEW g, NEW o, NEW ses, NEW side, NEW z, NEW n \in Nat, OpeningIs(o, ses, side, z, n)
  PROVE  All(d, o, g)
<1>1. ASSUME NEW j \in 1 .. Len(o) PROVE Sound(d, o[j], g)
  <2>1. CASE j = 1
    <3>1. o[1] = Term(ses, side)
      BY DEF OpeningIs
    <3> QED BY <2>1, <3>1, MuteSound
  <2>2. CASE j # 1
    <3>1. j - 1 \in 1 .. 2 * (n + 1) /\ n + 1 \in Nat
      BY <2>2 DEF OpeningIs
    <3>2. PICK i \in 1 .. n + 1 : j - 1 = 2 * i - 1 \/ j - 1 = 2 * i
      BY <3>1, InHalf
    <3>3. j = 2 * i \/ j = 2 * i + 1
      BY <3>2
    <3> DEFINE m == IF i <= n THEN Decoy ELSE Empty
               e == IF i = 1 THEN z ELSE 0
    <3>4. o[2 * i] = LenSym(ses, side, i - 1) /\ o[2 * i + 1] = BodySym(ses, side, i - 1, e, m)
      BY DEF OpeningIs
    <3>5. m.t \notin {"ping", "headers", "pong", "getdata"}
      BY DEF Decoy, Empty
    <3> HIDE DEF m, e
    <3>6. Fit(d, m, i - 1, g)
      BY <3>5, PlainFit
    <3>7. Sound(d, BodySym(ses, side, i - 1, e, m), g)
      BY <3>6, MessageSound
    <3>8. Sound(d, LenSym(ses, side, i - 1), g)
      BY MuteSound
    <3>9. Sound(d, o[2 * i], g) /\ Sound(d, o[2 * i + 1], g)
      BY <3>4, <3>7, <3>8
    <3> QED BY <3>3, <3>9
  <2> QED BY <2>1, <2>2
<1> QED BY <1>1 DEF All, OpeningIs

LEMMA PacketAll ==
  ASSUME NEW d, NEW g, NEW m, NEW n, Fit(d, m, n, g), NEW s
  PROVE  /\ \A ses, side : PacketOf(s, ses, side, n, m) => All(d, s, g)
         /\ MessageOf(s, n, m) => All(d, s, g)
<1>1. ASSUME NEW ses, NEW side, PacketOf(s, ses, side, n, m) PROVE All(d, s, g)
  <2>1. IsSeq(s) /\ Len(s) = 2 /\ s[1] = LenSym(ses, side, n) /\ s[2] = BodySym(ses, side, n, 0, m)
    BY <1>1, TwoSeq DEF PacketOf
  <2>2. Sound(d, s[1], g) /\ Sound(d, s[2], g)
    BY <2>1, MuteSound, MessageSound
  <2> QED BY <2>1, <2>2 DEF All
<1>2. ASSUME MessageOf(s, n, m) PROVE All(d, s, g)
  <2>1. IsSeq(s) /\ Len(s) = 3 /\ s[1] = Magic /\ s[2] = TypeOf(m) /\ s[3] = Payload(m, n)
    BY <1>2, ThreeSeq DEF MessageOf
  <2>2. Sound(d, s[1], g) /\ Sound(d, s[2], g) /\ Sound(d, s[3], g)
    BY <2>1, MuteSound, MessageSound
  <2> QED BY <2>1, <2>2 DEF All
<1> QED BY <1>1, <1>2

(***************************************************************************)
(* What the two ends say.                                                  *)
(***************************************************************************)
\* A message to the node that is no ping.
Harmless(x) == x.t # "ping" /\ (x.t = "headers" => IsSeq(x.b))
HarmlessAll(s) == IsSeq(s) /\ \A i \in 1 .. Len(s) : Harmless(s[i])

LEMMA HarmlessFit ==
  ASSUME NEW s, HarmlessAll(s), NEW n, NEW g
  PROVE  FitAll("ask", s, n, g)
BY DEF HarmlessAll, Harmless, FitAll, Fit, Asks

LEMMA HarmlessNone == HarmlessAll(<<>>)
BY NothingSeq DEF HarmlessAll

LEMMA HarmlessOne ==
  ASSUME NEW x, Harmless(x)
  PROVE  HarmlessAll(<<x>>)
<1> DEFINE s == <<x>>
<1>1. IsSeq(s) /\ Len(s) = 1 /\ s[1] = x
  BY OneSeq
<1> HIDE DEF s
<1>2. HarmlessAll(s)
  BY <1>1 DEF HarmlessAll
<1> QED BY <1>2 DEF s

LEMMA HarmlessConcat ==
  ASSUME NEW s, NEW t, HarmlessAll(s), HarmlessAll(t)
  PROVE  HarmlessAll(s \o t)
<1> DEFINE c == s \o t
<1>1. IsConcat(c, s, t)
  BY ConcatSeq DEF HarmlessAll
<1>2. Len(s) \in Nat /\ Len(t) \in Nat
  BY SeqLen DEF HarmlessAll
<1> HIDE DEF c
<1>3. ASSUME NEW i \in 1 .. Len(c) PROVE Harmless(c[i])
  <2>1. CASE i <= Len(s)
    BY <1>1, <1>2, <2>1 DEF IsConcat, HarmlessAll
  <2>2. CASE i > Len(s)
    <3>1. i - Len(s) \in 1 .. Len(t) /\ i = Len(s) + (i - Len(s))
      BY <1>1, <1>2, <2>2 DEF IsConcat
    <3>2. c[i] = t[i - Len(s)]
      BY <1>1, <3>1 DEF IsConcat
    <3> QED BY <3>1, <3>2 DEF HarmlessAll
  <2> QED BY <1>2, <2>1, <2>2
<1>4. HarmlessAll(c)
  BY <1>1, <1>3 DEF HarmlessAll, IsConcat
<1> QED BY <1>4 DEF c

LEMMA HarmlessPair ==
  ASSUME NEW x, NEW y, Harmless(x), Harmless(y)
  PROVE  HarmlessAll(<<x, y>>)
<1> DEFINE s == <<x, y>>
<1>1. IsSeq(s) /\ Len(s) = 2 /\ s[1] = x /\ s[2] = y
  BY TwoSeq
<1> HIDE DEF s
<1>2. HarmlessAll(s)
  BY <1>1 DEF HarmlessAll
<1> QED BY <1>2 DEF s

\* The handlers send no ping.
LEMMA ReplyHarmless ==
  ASSUME last_block_hash \in Nat, block_store \subseteq Nat,
         NEW m, m.t = "getdata" => IsSeq(m.b)
  PROVE  HarmlessAll(Reply(m))
<1>1. CASE m.t = "version"
  <2> DEFINE a == IF ~mode.out /\ hello THEN <<Version>> ELSE <<>>
             b == <<Msg("wtxidrelay"), Msg("verack")>>
             c == IF mode.out THEN <<Msg("getaddr")>> ELSE <<>>
  <2>1. Reply(m) = (a \o b) \o c
    BY <1>1 DEF Reply, VersionReply
  <2>2. /\ Harmless(Version) /\ Harmless(Msg("wtxidrelay")) /\ Harmless(Msg("verack"))
        /\ Harmless(Msg("getaddr"))
    BY DEF Harmless, Version, Msg
  <2>3. HarmlessAll(a) /\ HarmlessAll(b) /\ HarmlessAll(c)
    BY <2>2, HarmlessNone, HarmlessOne, HarmlessPair, Zenon
  <2> HIDE DEF a, b, c
  <2>4. HarmlessAll(a \o b)
    BY <2>3, HarmlessConcat
  <2>5. HarmlessAll((a \o b) \o c)
    BY <2>3, <2>4, HarmlessConcat
  <2> QED BY <2>1, <2>5
<1>2. CASE m.t = "ping"
  <2>1. Reply(m) = <<Pong(m.n)>>
    BY <1>2 DEF Reply
  <2>2. Harmless(Pong(m.n))
    BY DEF Harmless, Pong
  <2> QED BY <2>1, <2>2, HarmlessOne
<1>3. CASE m.t = "inv"
  <2>1. Reply(m) = <<Listing("getdata", <<>>)>>
    BY <1>3 DEF Reply
  <2>2. Harmless(Listing("getdata", <<>>))
    BY DEF Harmless, Listing
  <2> QED BY <2>1, <2>2, HarmlessOne
<1>4. CASE m.t = "getdata"
  <2> DEFINE n == Len(m.b)
             e(i) == Listing("block", <<m.b[i]>>)
             s == [i \in 1 .. n |-> e(i)]
  <2>1. Reply(m) = s /\ n \in Nat
    BY <1>4, SeqLen DEF Reply
  <2>2. \A i : Harmless(e(i))
    BY DEF Harmless, Listing
  <2> HIDE DEF n, e
  <2>3. DOMAIN s = 1 .. n /\ s = [i \in 1 .. n |-> s[i]] /\ \A i \in 1 .. n : s[i] = e(i)
    OBVIOUS
  <2> HIDE DEF s
  <2>4. IsSeq(s) /\ Len(s) = n
    BY <2>1, <2>3, FunctionSeq
  <2>5. HarmlessAll(s)
    BY <2>2, <2>3, <2>4 DEF HarmlessAll
  <2> QED BY <2>1, <2>5
<1>5. CASE m.t = "getheaders" /\ block_store # {}
  <2> DEFINE x == Listing("headers", HeadersFor(ToSet(m.b)))
  <2>1. Reply(m) = <<x>>
    BY <1>5 DEF Reply
  <2>2. x.b = HeadersFor(ToSet(m.b)) /\ x.t = "headers"
    BY DEF Listing
  <2>3. IsSeq(HeadersFor(ToSet(m.b)))
    BY HeadersSeq
  <2> HIDE DEF x
  <2>4. Harmless(x)
    BY <2>2, <2>3 DEF Harmless
  <2> QED BY <2>1, <2>4, HarmlessOne
<1>6. CASE /\ m.t \notin {"version", "ping", "inv", "getdata"}
           /\ ~(m.t = "getheaders" /\ block_store # {})
  <2>1. Reply(m) = <<>>
    BY <1>6 DEF Reply
  <2> QED BY <2>1, HarmlessNone
<1> QED BY <1>1, <1>2, <1>3, <1>4, <1>5, <1>6

\* What the node may tell.
TellsAll(s, g) == IsSeq(s) /\ \A i \in 1 .. Len(s) : Tells(s[i], g)

LEMMA TellsFit ==
  ASSUME NEW s, NEW g, TellsAll(s, g), NEW n
  PROVE  FitAll("tell", s, n, g)
BY DEF TellsAll, FitAll, Fit

LEMMA TellsNone ==
  ASSUME NEW g
  PROVE  TellsAll(<<>>, g)
BY NothingSeq DEF TellsAll

LEMMA TellsOne ==
  ASSUME NEW g, NEW x, Tells(x, g)
  PROVE  TellsAll(<<x>>, g)
<1> DEFINE s == <<x>>
<1>1. IsSeq(s) /\ Len(s) = 1 /\ s[1] = x
  BY OneSeq
<1> HIDE DEF s
<1>2. TellsAll(s, g)
  BY <1>1 DEF TellsAll
<1> QED BY <1>2 DEF s

LEMMA TellsPair ==
  ASSUME NEW g, NEW x, NEW y, Tells(x, g), Tells(y, g)
  PROVE  TellsAll(<<x>> \o <<y>>, g) /\ TellsAll(<<x, y>>, g)
<1> DEFINE s == <<x, y>>
           a == <<x>>
           b == <<y>>
           c == a \o b
<1>1. IsSeq(s) /\ Len(s) = 2 /\ s[1] = x /\ s[2] = y
  BY TwoSeq
<1>2. IsSeq(a) /\ Len(a) = 1 /\ a[1] = x /\ IsSeq(b) /\ Len(b) = 1 /\ b[1] = y
  BY OneSeq
<1> HIDE DEF s, a, b
<1>3. IsConcat(c, a, b)
  BY <1>2, ConcatSeq
<1> HIDE DEF c
<1>4. IsSeq(c) /\ Len(c) = 2 /\ c[1] = x /\ c[1 + 1] = y
  BY <1>2, <1>3 DEF IsConcat
<1>5. TellsAll(s, g) /\ TellsAll(c, g)
  BY <1>1, <1>4 DEF TellsAll
<1> QED BY <1>5 DEF s, a, b, c

LEMMA NoneConcat ==
  ASSUME NEW s, IsSeq(s)
  PROVE  <<>> \o s = s /\ s \o <<>> = s
<1>1. PICK T : s \in Seq(T)
  BY DEF IsSeq
<1> QED BY <1>1

LEMMA OneIsSeq ==
  ASSUME NEW x
  PROVE  IsSeq(<<x>>)
<1>1. <<x>> \in Seq({x})
  OBVIOUS
<1> QED BY <1>1 DEF IsSeq

\* The node answers a ping only when it has read what was sent before it.
LEMMA AnswerTells ==
  ASSUME NEW m, NEW g, m.t = "ping" => Ponged(m.n, g), m.t = "headers" => IsSeq(m.b)
  PROVE  TellsAll(NodeAnswer(m), g)
<1>0. Tells(Version, g) /\ Tells(Msg("verack"), g) /\ \A b : Tells(Listing("getheaders", b), g)
  BY DEF Tells, Version, Msg, Listing
<1>1. CASE m.t = "version"
  <2>1. NodeAnswer(m) = (IF node.hello THEN <<>> ELSE <<Version>>) \o <<Msg("verack")>>
    BY <1>1 DEF NodeAnswer
  <2>2. <<>> \o <<Msg("verack")>> = <<Msg("verack")>>
    BY OneIsSeq, NoneConcat
  <2>3. TellsAll(<<Msg("verack")>>, g) /\ TellsAll(<<Version>> \o <<Msg("verack")>>, g)
    BY <1>0, TellsOne, TellsPair
  <2> QED BY <2>1, <2>2, <2>3
<1>2. CASE m.t = "ping"
  <2>1. NodeAnswer(m) = <<Pong(m.n)>>
    BY <1>2 DEF NodeAnswer
  <2>2. Tells(Pong(m.n), g)
    BY <1>2 DEF Tells, Pong
  <2> QED BY <2>1, <2>2, TellsOne
<1>3. CASE m.t = "headers"
  <2> DEFINE S == ToSet(m.b) \ node.headers
             x == Listing("getdata", Ascending(S))
             y == Listing("getheaders", <<m.b[Len(m.b)]>>)
             z == Listing("getheaders", <<Max(node.headers)>>)
             a == IF ToSet(m.b) \subseteq node.headers THEN <<>> ELSE <<x>>
             b == IF Len(m.b) = MAX_HEADERS_RESULTS THEN <<y>> ELSE <<>>
  <2>1. NodeAnswer(m) = a \o b \/ NodeAnswer(m) = <<z>>
    BY <1>3 DEF NodeAnswer
  <2>2. Tells(y, g) /\ Tells(z, g)
    BY <1>0
  <2>3. Tells(x, g)
    <3>1. IsFiniteSet(S)
      BY <1>3, ElementsFinite, FS_Difference
    <3>2. IsSeq(Ascending(S))
      BY <3>1, AscendingSeq
    <3>3. x.t = "getdata" /\ x.b = Ascending(S)
      BY DEF Listing
    <3> HIDE DEF x, S
    <3> QED BY <3>2, <3>3 DEF Tells
  <2>4. TellsAll(<<z>>, g) /\ TellsAll(<<x>>, g) /\ TellsAll(<<y>>, g) /\ TellsAll(<<>>, g)
        /\ TellsAll(<<x>> \o <<y>>, g)
    BY <2>2, <2>3, TellsOne, TellsPair, TellsNone
  <2> HIDE DEF x, y, z
  <2>5. \/ a \o b = <<x>> \o <<y>> \/ a \o b = <<x>> \o <<>>
        \/ a \o b = <<>> \o <<y>> \/ a \o b = <<>> \o <<>>
    OBVIOUS
  <2>6. /\ <<x>> \o <<>> = <<x>> /\ <<>> \o <<y>> = <<y>> /\ <<>> \o <<>> = <<>>
    BY OneIsSeq, NoneConcat, NothingSeq
  <2> HIDE DEF a, b
  <2> QED BY <2>1, <2>4, <2>5, <2>6
<1>4. CASE m.t \notin {"version", "ping", "headers"}
  <2>1. NodeAnswer(m) = <<>>
    BY <1>4 DEF NodeAnswer
  <2> QED BY <2>1, TellsNone
<1> QED BY <1>1, <1>2, <1>3, <1>4

\* The bytes of such messages.
LEMMA NodeBytesAll ==
  ASSUME NEW nd, NEW msgs, NEW g, TellsAll(msgs, g)
  PROVE  All("tell", NodeBytes(nd, msgs), g)
<1>1. IsSeq(msgs) /\ FitAll("tell", msgs, nd.sendN, g)
  BY TellsFit DEF TellsAll
<1>2. CASE nd.v2
  BY <1>1, <1>2, NodeBytesAre, PacketsAll
<1>3. CASE ~nd.v2
  BY <1>1, <1>3, NodeBytesAre, MessagesAll
<1> QED BY <1>2, <1>3

LEMMA BuiltAll ==
  ASSUME IsState(st), st.sendN \in Int, NEW msgs, NEW g,
         FitAll("ask", msgs, IF v2 THEN st.sendN ELSE vN, g)
  PROVE  QueueAll(Built(msgs), g)
<1> DEFINE q == Built(msgs)
<1>1. IsSeq(msgs)
  BY DEF FitAll
<1>2. /\ IsSeq(q) /\ Len(q) = Len(msgs)
      /\ v2 => \A i \in 1 .. Len(msgs) : PacketOf(q[i], st.session, Side(st), st.sendN + i - 1, msgs[i])
      /\ ~v2 => \A i \in 1 .. Len(msgs) : MessageOf(q[i], vN + i - 1, msgs[i])
  BY <1>1, BuiltAre
<1> HIDE DEF q
<1>3. ASSUME NEW i \in 1 .. Len(q) PROVE All("ask", q[i], g)
  <2>1. i \in 1 .. Len(msgs)
    BY <1>2
  <2>2. CASE v2
    <3>1. Fit("ask", msgs[i], st.sendN + i - 1, g)
      BY <2>1, <2>2 DEF FitAll
    <3>2. PacketOf(q[i], st.session, Side(st), st.sendN + i - 1, msgs[i])
      BY <1>2, <2>1, <2>2
    <3> QED BY <3>1, <3>2, PacketAll
  <2>3. CASE ~v2
    <3>1. Fit("ask", msgs[i], vN + i - 1, g)
      BY <2>1, <2>3 DEF FitAll
    <3>2. MessageOf(q[i], vN + i - 1, msgs[i])
      BY <1>2, <2>1, <2>3
    <3> QED BY <3>1, <3>2, PacketAll
  <2> QED BY <2>2, <2>3
<1>4. QueueAll(q, g)
  BY <1>2, <1>3 DEF QueueAll
<1> QED BY <1>4 DEF q

LEMMA QueueAppend ==
  ASSUME NEW q, NEW g, QueueAll(q, g), NEW s, All("ask", s, g)
  PROVE  QueueAll(Append(q, s), g)
<1> DEFINE c == Append(q, s)
<1>1. /\ IsSeq(c) /\ Len(c) = Len(q) + 1 /\ c[Len(q) + 1] = s
      /\ \A i \in 1 .. Len(q) : c[i] = q[i]
  BY AppendSeq DEF QueueAll
<1>2. Len(q) \in Nat
  BY SeqLen DEF QueueAll
<1> HIDE DEF c
<1>3. ASSUME NEW i \in 1 .. Len(c) PROVE All("ask", c[i], g)
  <2>1. i \in 1 .. Len(q) \/ i = Len(q) + 1
    BY <1>1, <1>2
  <2> QED BY <1>1, <2>1 DEF QueueAll
<1>4. QueueAll(c, g)
  BY <1>1, <1>3 DEF QueueAll
<1> QED BY <1>4 DEF c

LEMMA QueueConcat ==
  ASSUME NEW q, NEW r, NEW g, QueueAll(q, g), QueueAll(r, g)
  PROVE  QueueAll(q \o r, g)
<1> DEFINE c == q \o r
<1>1. IsConcat(c, q, r)
  BY ConcatSeq DEF QueueAll
<1>2. Len(q) \in Nat /\ Len(r) \in Nat
  BY SeqLen DEF QueueAll
<1> HIDE DEF c
<1>3. ASSUME NEW i \in 1 .. Len(c) PROVE All("ask", c[i], g)
  <2>1. CASE i <= Len(q)
    BY <1>1, <1>2, <2>1 DEF IsConcat, QueueAll
  <2>2. CASE i > Len(q)
    <3>1. i - Len(q) \in 1 .. Len(r) /\ i = Len(q) + (i - Len(q))
      BY <1>1, <1>2, <2>2 DEF IsConcat
    <3>2. c[i] = r[i - Len(q)]
      BY <1>1, <3>1 DEF IsConcat
    <3> QED BY <3>1, <3>2 DEF QueueAll
  <2> QED BY <1>2, <2>1, <2>2
<1>4. QueueAll(c, g)
  BY <1>1, <1>3 DEF QueueAll, IsConcat
<1> QED BY <1>4 DEF c

LEMMA QueueHead ==
  ASSUME NEW q, NEW g, QueueAll(q, g), q # <<>>
  PROVE  All("ask", Head(q), g) /\ QueueAll(Tail(q), g)
<1> DEFINE c == Tail(q)
<1>1. Head(q) = q[1] /\ IsDrop(c, q, 1) /\ Len(q) >= 1
  BY TailSeq DEF QueueAll
<1>2. Len(q) \in Nat
  BY SeqLen DEF QueueAll
<1> HIDE DEF c
<1>3. ASSUME NEW i \in 1 .. Len(c) PROVE All("ask", c[i], g)
  <2>1. 1 + i \in 1 .. Len(q)
    BY <1>1, <1>2 DEF IsDrop
  <2> QED BY <1>1, <2>1 DEF IsDrop, QueueAll
<1>4. QueueAll(c, g)
  BY <1>1, <1>3 DEF QueueAll, IsDrop
<1>5. All("ask", q[1], g)
  BY <1>1, <1>2 DEF QueueAll
<1> QED BY <1>1, <1>4, <1>5 DEF c

(***************************************************************************)
(* The inductive invariant of sync_with_ping.                              *)
(***************************************************************************)
\* The ping with ping_counter as its nonce is built.
PingedAt(p, h) == p \in {"pong1", "pong2", "failed"} \/ (p \in {"ping1n", "ping2n"} /\ h # <<>>)
StageAt(c, p, k, r) == [count |-> c, pinged |-> p, mark |-> k, recvN |-> r]
Stage == StageAt(ping_counter, PingedAt(pc, held), mark, node.recvN)

LEMMA StageFields ==
  ASSUME NEW c, NEW p \in BOOLEAN, NEW k, NEW r
  PROVE  /\ StageAt(c, p, k, r).count = c /\ StageAt(c, p, k, r).pinged = p
         /\ StageAt(c, p, k, r).mark = k /\ StageAt(c, p, k, r).recvN = r
BY DEF StageAt

LEMMA PingedIs ==
  ASSUME NEW p, NEW h
  PROVE  PingedAt(p, h) \in BOOLEAN
BY DEF PingedAt

IsNode(nd) ==
  nd = [v2 |-> nd.v2, phase |-> nd.phase, session |-> nd.session, garbage |-> nd.garbage,
        aad |-> nd.aad, sendN |-> nd.sendN, recvN |-> nd.recvN, hello |-> nd.hello, up |-> nd.up,
        extra |-> nd.extra, headers |-> nd.headers, blocks |-> nd.blocks, pool |-> nd.pool, bad |-> nd.bad]
IsLast(l) == l = [version |-> l.version, verack |-> l.verack, pong |-> l.pong]

Sending == {"ping1", "ping1n", "headers", "send", "ping2", "ping2n"}

\* What is under way.
WireInv ==
  /\ All("ask", held, Stage) /\ All("ask", toNode, Stage) /\ QueueAll(queue, Stage)
  /\ All("tell", toPeer, Stage) /\ All("tell", recvbuf, Stage) /\ Ponged(last.pong, Stage)

\* The test thread, and what it has stored.
TestInv ==
  /\ ping_counter \in Int /\ ping_counter > 0 /\ mark \in Int
  /\ held # <<>> => pc \in Sending
  /\ pc \in {"connect", "reconnect"} => mark = 0
  /\ pc = "connect" => transport = "none"
  /\ pc = "headers" => IsSeq(offers)
  /\ last_block_hash \in Nat /\ block_store \subseteq Nat

\* The two ends.
EndInv ==
  /\ IsNode(node) /\ node.recvN \in Int /\ IsLast(last)
  /\ st.sendN \in Int /\ vN \in Int /\ IsSeq(st.received_prefix) /\ Len(st.received_prefix) <= 2
  /\ mode.same \in 0 .. 2 /\ (mode.reconnect => ~mode.out)
  /\ reconnect => ~last.version /\ mode.reconnect /\ pc \in {"connect", "reconnect", "failed"}

Synced == WireInv /\ TestInv /\ EndInv /\ SyncMeansProcessed
SyncInv == PeerInv /\ Synced

LEMMA WireStep ==
  ASSUME WireInv, Later(Stage, Stage'),
         held' = held \/ All("ask", held', Stage'),
         toNode' = toNode \/ All("ask", toNode', Stage'),
         queue' = queue \/ QueueAll(queue', Stage'),
         toPeer' = toPeer \/ All("tell", toPeer', Stage'),
         recvbuf' = recvbuf \/ All("tell", recvbuf', Stage'),
         last'.pong = last.pong \/ Ponged(last'.pong, Stage')
  PROVE  WireInv'
<1> DEFINE g == Stage
           h == Stage'
<1>1. Later(g, h)
  OBVIOUS
<1>2. /\ All("ask", held, g) /\ All("ask", toNode, g) /\ QueueAll(queue, g)
      /\ All("tell", toPeer, g) /\ All("tell", recvbuf, g) /\ Ponged(last.pong, g)
  BY DEF WireInv
<1> HIDE DEF g, h
<1>3. /\ All("ask", held, h) /\ All("ask", toNode, h) /\ QueueAll(queue, h)
      /\ All("tell", toPeer, h) /\ All("tell", recvbuf, h) /\ Ponged(last.pong, h)
  BY <1>1, <1>2, AllLater, QueueLater, PongedLater
<1>4. /\ All("ask", held', h) /\ All("ask", toNode', h) /\ QueueAll(queue', h)
      /\ All("tell", toPeer', h) /\ All("tell", recvbuf', h) /\ Ponged(last'.pong, h)
  BY <1>3, Zenon DEF h
<1> QED BY <1>4, Zenon DEF h, WireInv

\* The stage of a step that does not concern it, or only as the node reads on.
LEMMA SameStage ==
  ASSUME TestInv, EndInv, UNCHANGED <<ping_counter, pc, held, mark>>,
         node'.recvN \in Int, node'.recvN >= node.recvN
  PROVE  Later(Stage, Stage')
<1> DEFINE p == PingedAt(pc, held)
<1>1. p \in BOOLEAN /\ Stage = StageAt(ping_counter, p, mark, node.recvN)
      /\ Stage' = StageAt(ping_counter, p, mark, node'.recvN)
  BY PingedIs DEF Stage
<1> HIDE DEF p
<1>2. ping_counter \in Int /\ mark \in Int /\ node.recvN \in Int
  BY DEF TestInv, EndInv
<1> QED BY <1>1, <1>2, StageFields DEF Later, IsStage

\* A step of the network thread.
LEMMA NetworkKeeps ==
  ASSUME SyncInv, UNCHANGED <<mode, testvars, node, block_store, last_block_hash>>,
         transport = "none" => transport' = "none",
         st'.sendN \in Int, vN' \in Int, IsSeq(st'.received_prefix), Len(st'.received_prefix) <= 2,
         IsLast(last'), reconnect' => reconnect /\ ~last'.version
  PROVE  /\ TestInv' /\ EndInv' /\ SyncMeansProcessed'
         /\ Later(Stage, Stage') /\ held' = held /\ Stage' = Stage
<1>1. UNCHANGED <<mode, ping_counter, pc, offers, held, mark, node, block_store, last_block_hash>>
  BY DEF testvars
<1>2. TestInv /\ EndInv /\ SyncMeansProcessed
  BY DEF SyncInv, Synced
<1>3. TestInv'
  BY <1>1, <1>2 DEF TestInv
<1>4. EndInv'
  BY <1>1, <1>2 DEF EndInv
<1>5. SyncMeansProcessed'
  BY <1>1, <1>2 DEF SyncMeansProcessed
<1>6. node'.recvN \in Int /\ node'.recvN >= node.recvN
  BY <1>1, <1>2 DEF EndInv
<1>7. Later(Stage, Stage')
  BY <1>1, <1>2, <1>6, SameStage
<1>8. Stage' = Stage
  BY <1>1 DEF Stage
<1> QED BY <1>1, <1>3, <1>4, <1>5, <1>7, <1>8

\* What of the state is untouched.
Idle == UNCHANGED <<mode, appvars, testvars, node, reconnect>>

LEMMA IdleKeeps ==
  ASSUME SyncInv, Idle, transport = "none" => transport' = "none",
         st'.sendN \in Int, vN' \in Int, IsSeq(st'.received_prefix), Len(st'.received_prefix) <= 2,
         toNode' = toNode \/ All("ask", toNode', Stage),
         queue' = queue \/ QueueAll(queue', Stage),
         toPeer' = toPeer \/ All("tell", toPeer', Stage),
         recvbuf' = recvbuf \/ All("tell", recvbuf', Stage)
  PROVE  Synced'
<1>1. UNCHANGED <<mode, testvars, node, block_store, last_block_hash, last, reconnect>>
  BY DEF Idle, appvars
<1>2. IsLast(last') /\ (reconnect' => reconnect /\ ~last'.version)
  BY <1>1 DEF SyncInv, Synced, EndInv
<1>3. /\ TestInv' /\ EndInv' /\ SyncMeansProcessed'
      /\ Later(Stage, Stage') /\ held' = held /\ Stage' = Stage
  BY <1>1, <1>2, NetworkKeeps
<1>4. WireInv
  BY DEF SyncInv, Synced
<1>5. /\ toNode' = toNode \/ All("ask", toNode', Stage')
      /\ queue' = queue \/ QueueAll(queue', Stage')
      /\ toPeer' = toPeer \/ All("tell", toPeer', Stage')
      /\ recvbuf' = recvbuf \/ All("tell", recvbuf', Stage')
      /\ last'.pong = last.pong
  BY <1>1, <1>3
<1>6. WireInv'
  BY <1>3, <1>4, <1>5, WireStep
<1> QED BY <1>3, <1>6 DEF Synced

LEMMA SyncFacts ==
  ASSUME SyncInv
  PROVE  /\ IsState(st) /\ v2 \in BOOLEAN
         /\ st.sendN \in Int /\ vN \in Int /\ IsSeq(st.received_prefix) /\ Len(st.received_prefix) <= 2
         /\ All("ask", held, Stage) /\ All("ask", toNode, Stage) /\ QueueAll(queue, Stage)
         /\ All("tell", toPeer, Stage) /\ All("tell", recvbuf, Stage) /\ Ponged(last.pong, Stage)
         /\ IsSeq(recvbuf) /\ IsSeq(toPeer) /\ IsSeq(toNode) /\ IsSeq(queue)
         /\ Len(recvbuf) \in Nat /\ Len(toPeer) \in Nat /\ Len(toNode) \in Nat
BY SeqLen DEF SyncInv, Synced, PeerInv, CallbackInv, EndInv, WireInv, All, QueueAll

LEMMA WriteSync ==
  ASSUME SyncInv, Write, UNCHANGED <<appvars, testvars, node>>
  PROVE  Synced'
<1>1. Idle /\ UNCHANGED <<transport, st, vN, toPeer, recvbuf>>
  BY DEF Write, Idle
<1>2. All("ask", Head(queue), Stage) /\ QueueAll(Tail(queue), Stage)
  BY SyncFacts, QueueHead DEF Write
<1>3. toNode' = toNode \/ All("ask", toNode', Stage)
  BY <1>2, SyncFacts, ConcatAll DEF Write
<1>4. QueueAll(queue', Stage)
  BY <1>2 DEF Write
<1> QED BY <1>1, <1>3, <1>4, SyncFacts, IdleKeeps

LEMMA DataSync ==
  ASSUME SyncInv, NEW k \in 1 .. Len(toPeer), DataReceived(k), UNCHANGED <<appvars, testvars, node>>
  PROVE  Synced'
<1>1. Idle /\ UNCHANGED <<transport, st, vN, toNode, queue>>
  BY DEF DataReceived, Idle
<1>2. k \in Nat /\ k <= Len(toPeer)
  BY SyncFacts
<1>3. All("tell", SubSeq(toPeer, 1, k), Stage) /\ All("tell", Drop(toPeer, k), Stage)
  BY <1>2, SyncFacts, TakeAllSound, DropAllSound
<1>4. All("tell", recvbuf \o SubSeq(toPeer, 1, k), Stage)
  BY <1>3, SyncFacts, ConcatAll
<1>5. All("tell", recvbuf', Stage) /\ All("tell", toPeer', Stage)
  BY <1>3, <1>4 DEF DataReceived
<1> QED BY <1>1, <1>5, SyncFacts, IdleKeeps

LEMMA GenerateBytes ==
  ASSUME NEW s, NEW k, NEW z \in Nat, NEW g
  PROVE  All("ask", generate_keypair_and_garbage(s, k, z).bytes, g)
<1>1. generate_keypair_and_garbage(s, k, z).bytes = KeySyms(k, 0) \o [i \in 1 .. z |-> Garbage]
  BY DEF generate_keypair_and_garbage
<1>2. KeyIs(generate_keypair_and_garbage(s, k, z).bytes, k, 0, z)
  BY <1>1, KeyAre
<1>3. 0 \in 0 .. 2
  OBVIOUS
<1> QED BY <1>2, <1>3, KeyAll

LEMMA RespondSync ==
  ASSUME SyncInv, Respond, UNCHANGED <<appvars, testvars, node>>
  PROVE  Synced'
<1> DEFINE r == respond_v2_handshake(st, recvbuf)
           n == Lesser(r.length, Len(recvbuf))
<1>1. Idle /\ UNCHANGED <<transport, vN, toNode, toPeer>>
  BY DEF Respond, Idle
<1>2. recvbuf' = Drop(recvbuf, n)
  BY DEF Respond
<1>3. \E z \in 0 .. MAX_GARBAGE_LEN :
        \/ /\ st' = generate_keypair_and_garbage(r.st, FreshKey, z).st
           /\ queue' = Append(queue, generate_keypair_and_garbage(r.st, FreshKey, z).bytes)
        \/ st' = r.st /\ queue' = queue
  BY DEF Respond
<1>4. PICK read : RespondMade(st, recvbuf, r, read)
  BY SyncFacts, RespondFields
<1> HIDE DEF r
<1>5. n \in Nat /\ n <= Len(recvbuf)
  BY <1>4, SyncFacts DEF RespondMade, Lesser
<1> HIDE DEF n
<1>6. All("tell", recvbuf', Stage)
  BY <1>2, <1>5, SyncFacts, DropAllSound
<1>7. IsState(r.st) /\ r.st.sendN = st.sendN
      /\ IsSeq(r.st.received_prefix) /\ Len(r.st.received_prefix) <= 2
  BY <1>4 DEF RespondMade, IsTake
<1>8. PICK z \in 0 .. MAX_GARBAGE_LEN :
        \/ /\ st' = generate_keypair_and_garbage(r.st, FreshKey, z).st
           /\ queue' = Append(queue, generate_keypair_and_garbage(r.st, FreshKey, z).bytes)
        \/ st' = r.st /\ queue' = queue
  BY <1>3
<1>9. z \in Nat
  BY KeyAssumption
<1>10. GenerateMade(r.st, generate_keypair_and_garbage(r.st, FreshKey, z).st, FreshKey, z)
  BY <1>7, GenerateFields
<1>11. st'.sendN = st.sendN /\ st'.received_prefix = r.st.received_prefix
  BY <1>7, <1>8, <1>10 DEF GenerateMade
<1>12. All("ask", generate_keypair_and_garbage(r.st, FreshKey, z).bytes, Stage)
  BY <1>9, GenerateBytes
<1>13. queue' = queue \/ QueueAll(queue', Stage)
  BY <1>8, <1>12, SyncFacts, QueueAppend
<1> QED BY <1>1, <1>6, <1>7, <1>11, <1>13, SyncFacts, IdleKeeps

LEMMA CompleteSync ==
  ASSUME SyncInv, Complete, UNCHANGED <<appvars, testvars, node>>
  PROVE  Synced'
<1>1. Idle /\ UNCHANGED <<transport, vN, toNode, toPeer>>
  BY DEF Complete, Idle
<1>2. PICK d \in 0 .. 1 :
        LET r == complete_handshake(st, recvbuf, d, Keys, mode.same) IN
          /\ st' = r.st
          /\ recvbuf' = Drop(recvbuf, r.length)
          /\ queue' = IF r.bytes = <<>> THEN queue ELSE Append(queue, r.bytes)
  BY DEF Complete
<1> DEFINE r == complete_handshake(st, recvbuf, d, Keys, mode.same)
<1>3. d \in Nat
  OBVIOUS
<1>4. CompleteWaits(st, recvbuf, r) \/ CompleteMade(st, recvbuf, d, Keys, mode.same, r)
  BY <1>3, SyncFacts, CompleteFields
<1>5. /\ st' = r.st
      /\ recvbuf' = Drop(recvbuf, r.length)
      /\ queue' = IF r.bytes = <<>> THEN queue ELSE Append(queue, r.bytes)
  BY <1>2
<1> HIDE DEF r
<1>6. /\ r.length \in Nat /\ r.length <= Len(recvbuf)
      /\ r.st.sendN \in Int /\ r.st.received_prefix = st.received_prefix
  BY <1>3, <1>4, SyncFacts DEF CompleteWaits, CompleteMade
<1>7. All("tell", recvbuf', Stage)
  BY <1>5, <1>6, SyncFacts, DropAllSound
<1>8. r.bytes # <<>> => All("ask", r.bytes, Stage)
  BY <1>3, <1>4, OpeningAll DEF CompleteWaits, CompleteMade
<1>9. queue' = queue \/ QueueAll(queue', Stage)
  BY <1>5, <1>8, SyncFacts, QueueAppend
<1> QED BY <1>1, <1>5, <1>6, <1>7, <1>9, SyncFacts, IdleKeeps

LEMMA LostWire ==
  ASSUME Lost, NEW g
  PROVE  /\ All("ask", toNode', g) /\ QueueAll(queue', g)
         /\ All("tell", toPeer', g) /\ All("tell", recvbuf', g)
<1>1. QueueAll(<<>>, g)
  BY NothingSeq DEF QueueAll
<1> QED BY <1>1, NothingAll DEF Lost

LEMMA AuthenticateSync ==
  ASSUME SyncInv, Authenticate, UNCHANGED <<appvars, testvars, node>>
  PROVE  Synced'
<1> DEFINE r == IF st.found THEN AuthPacket(st, recvbuf) ELSE FindTerminator(st, recvbuf)
<1>1. Idle /\ UNCHANGED vN /\ callback = "auth" /\ st' = r.st
  BY DEF Authenticate, Idle
<1>2. \/ recvbuf' = Drop(recvbuf, r.length) /\ UNCHANGED <<transport, queue, toPeer, toNode>>
      \/ Lost
  BY DEF Authenticate, Raise
<1>3. transport # "none"
  BY <1>1 DEF SyncInv, PeerInv, CallbackInv
<1>4. /\ r.length \in Nat /\ r.length <= Len(recvbuf)
      /\ r.st.sendN = st.sendN /\ r.st.received_prefix = st.received_prefix
  <2>1. CASE st.found
    <3> DEFINE a == AuthPacket(st, recvbuf)
               q == v2_receive_packet(st, recvbuf, st.received_garbage)
    <3>1. AuthMade(st, q, a)
      BY SyncFacts, AuthFields
    <3>2. q.length = 2 => ~(Len(recvbuf) < 2)
      BY SyncFacts, ReceiveFields
    <3>3. r = a
      BY <2>1
    <3> HIDE DEF a, q, r
    <3> QED BY <3>1, <3>2, <3>3, SyncFacts DEF AuthMade, SameEnd
  <2>2. CASE ~st.found
    <3> DEFINE f == FindTerminator(st, recvbuf)
    <3>1. NotFound(st, recvbuf, f) \/ \E i : Found(st, recvbuf, f, i)
      BY SyncFacts, TerminatorFields
    <3>2. r = f
      BY <2>2
    <3> HIDE DEF f, r
    <3>3. CASE NotFound(st, recvbuf, f)
      BY <3>2, <3>3, SyncFacts DEF NotFound
    <3>4. CASE \E i : Found(st, recvbuf, f, i)
      <4>1. PICK i : Found(st, recvbuf, f, i)
        BY <3>4
      <4>2. i \in Nat /\ i <= Len(recvbuf)
        BY <4>1, SyncFacts, KeyAssumption DEF Found, Lesser
      <4> QED BY <3>2, <4>1, <4>2 DEF Found, SameEnd
    <3> QED BY <3>1, <3>3, <3>4
  <2> QED BY <2>1, <2>2
<1> HIDE DEF r
<1>5. CASE recvbuf' = Drop(recvbuf, r.length) /\ UNCHANGED <<transport, queue, toPeer, toNode>>
  <2>1. All("tell", recvbuf', Stage)
    BY <1>4, <1>5, SyncFacts, DropAllSound
  <2> QED BY <1>1, <1>4, <1>5, <2>1, SyncFacts, IdleKeeps
<1>6. CASE Lost
  BY <1>1, <1>3, <1>4, <1>6, SyncFacts, LostWire, IdleKeeps
<1> QED BY <1>2, <1>5, <1>6

\* What a turn of _on_data takes from the buffer.
LEMMA FrameTakes ==
  ASSUME IsState(st), v2 \in BOOLEAN, IsSeq(recvbuf)
  PROVE  /\ Frame.st.sendN = st.sendN /\ Frame.st.received_prefix = st.received_prefix
         /\ IsState(Frame.st)
         /\ Frame.is \in {"message", "decoy"} => Frame.length \in Nat /\ Frame.length <= Len(recvbuf)
<1>0. Len(recvbuf) \in Nat
  BY SeqLen
<1>1. CASE v2
  <2> DEFINE r == v2_receive_packet(st, recvbuf, 0)
  <2>1. Read(st, r.st) /\ (r.length = 2 => ~(Len(recvbuf) < 2))
    BY ReceiveFields
  <2>2. r.length \in {-1, 0, 2}
    BY ReceivingKeeps DEF Received
  <2>3. /\ Frame.st = r.st /\ Frame.length = IF r.length > 0 THEN r.length ELSE 0
        /\ Frame.is = IF r.length = -1 THEN "mac" ELSE IF r.length = 0
             THEN "more" ELSE IF r.m = Decoy THEN "decoy" ELSE "message"
    BY <1>1 DEF Frame
  <2> HIDE DEF r
  <2> QED BY <1>0, <2>1, <2>2, <2>3 DEF Read, SameEnd
<1>2. CASE ~v2
  <2>1. /\ Frame.st = st /\ Frame.length = 3
        /\ Frame.is = IF Len(recvbuf) = 0 THEN "more" ELSE IF recvbuf[1] # Magic
              THEN "magic" ELSE IF Len(recvbuf) < 3 THEN "more" ELSE "message"
    BY <1>2 DEF Frame
  <2> QED BY <1>0, <2>1
<1> QED BY <1>1, <1>2

LEMMA FrameTells ==
  ASSUME IsState(st), v2 \in BOOLEAN, NEW g, All("tell", recvbuf, g), Frame.is = "message"
  PROVE  Tells(Frame.m, g)
<1>0. Len(recvbuf) \in Nat
  BY SeqLen DEF All
<1>1. CASE v2
  <2> DEFINE r == v2_receive_packet(st, recvbuf, 0)
  <2>1. r.length = 2 => ~(Len(recvbuf) < 2) /\ r.m = recvbuf[2].m /\ recvbuf[2].k = "body"
    BY ReceiveFields
  <2>2. r.length \in {-1, 0, 2}
    BY ReceivingKeeps DEF Received
  <2>3. /\ Frame.m = r.m
        /\ Frame.is = IF r.length = -1 THEN "mac" ELSE IF r.length = 0
             THEN "more" ELSE IF r.m = Decoy THEN "decoy" ELSE "message"
    BY <1>1 DEF Frame
  <2> HIDE DEF r
  <2>4. r.length = 2
    BY <2>2, <2>3
  <2>5. Sound("tell", recvbuf[2], g)
    BY <1>0, <2>1, <2>4 DEF All
  <2> QED BY <2>1, <2>3, <2>4, <2>5 DEF Sound
<1>2. CASE ~v2
  <2>1. /\ Frame.m = IF Len(recvbuf) >= 3 /\ recvbuf[3].k = "payload" THEN recvbuf[3].m ELSE Decoy
        /\ Frame.is = IF Len(recvbuf) = 0 THEN "more" ELSE IF recvbuf[1] # Magic
              THEN "magic" ELSE IF Len(recvbuf) < 3 THEN "more" ELSE "message"
    BY <1>2 DEF Frame
  <2>2. Len(recvbuf) >= 3
    BY <1>0, <2>1
  <2>3. Sound("tell", recvbuf[3], g)
    BY <1>0, <2>2 DEF All
  <2>4. Tells(Decoy, g)
    BY DEF Tells, Decoy
  <2>5. recvbuf[3].k = "payload" => Tells(recvbuf[3].m, g)
    BY <2>3 DEF Sound
  <2> QED BY <2>1, <2>4, <2>5
<1> QED BY <1>1, <1>2

LEMMA OnDataSync ==
  ASSUME SyncInv, OnDataEnds, UNCHANGED <<appvars, testvars, node>>
  PROVE  Synced'
<1>1. Idle /\ UNCHANGED vN /\ callback = "data" /\ st' = Frame.st
  BY DEF OnDataEnds, Idle
<1>2. \/ /\ recvbuf' = recvbuf \/ (Frame.is = "decoy" /\ recvbuf' = Drop(recvbuf, Frame.length))
         /\ UNCHANGED <<transport, queue, toPeer, toNode>>
      \/ Lost
  BY DEF OnDataEnds, Raise
<1>3. transport # "none"
  BY <1>1 DEF SyncInv, PeerInv, CallbackInv
<1>4. st'.sendN = st.sendN /\ st'.received_prefix = st.received_prefix
  BY <1>1, SyncFacts, FrameTakes
<1>5. CASE /\ recvbuf' = recvbuf \/ (Frame.is = "decoy" /\ recvbuf' = Drop(recvbuf, Frame.length))
           /\ UNCHANGED <<transport, queue, toPeer, toNode>>
  <2>1. recvbuf' = recvbuf \/ All("tell", recvbuf', Stage)
    BY <1>5, SyncFacts, FrameTakes, DropAllSound
  <2> QED BY <1>1, <1>4, <1>5, <2>1, SyncFacts, IdleKeeps
<1>6. CASE Lost
  BY <1>1, <1>3, <1>4, <1>6, SyncFacts, LostWire, IdleKeeps
<1> QED BY <1>2, <1>5, <1>6

LEMMA LostSync ==
  ASSUME SyncInv, ConnectionLost, UNCHANGED <<appvars, testvars, node>>
  PROVE  Synced'
<1>1. Idle /\ UNCHANGED <<vN, st>> /\ transport = "open" /\ Lost
  BY DEF ConnectionLost, Idle
<1> QED BY <1>1, SyncFacts, LostWire, IdleKeeps

\* What the network thread sends.
LEMMA QueuedSync ==
  ASSUME SyncInv, NEW s, IsState(s), s.sendN = st.sendN, s.received_prefix = st.received_prefix,
         NEW msgs, HarmlessAll(msgs), Queued(s, msgs)
  PROVE  /\ st'.sendN \in Int /\ vN' \in Int /\ IsSeq(st'.received_prefix)
         /\ Len(st'.received_prefix) <= 2 /\ QueueAll(queue', Stage)
<1>1. st' = SentState(s, msgs) /\ vN' = SentV1(msgs) /\ queue' = queue \o Built(msgs)
  BY DEF Queued
<1>2. Len(msgs) \in Nat
  BY SeqLen DEF HarmlessAll
<1>3. SentOnly(s, st') /\ st'.sendN = IF v2 THEN s.sendN + Len(msgs) ELSE s.sendN
  BY <1>1, SentFields
<1>4. st'.sendN \in Int /\ vN' \in Int
  BY <1>1, <1>2, <1>3, SyncFacts DEF SentV1
<1>5. st'.received_prefix = st.received_prefix
  BY <1>3 DEF SentOnly
<1>6. FitAll("ask", msgs, IF v2 THEN st.sendN ELSE vN, Stage)
  BY HarmlessFit
<1>7. QueueAll(Built(msgs), Stage)
  BY <1>6, SyncFacts, BuiltAll
<1>8. QueueAll(queue', Stage)
  BY <1>1, <1>7, SyncFacts, QueueConcat
<1> QED BY <1>4, <1>5, <1>8, SyncFacts

LEMMA AfterSync ==
  ASSUME SyncInv, AfterHandshake
  PROVE  Synced'
<1>1. /\ UNCHANGED <<mode, transport, recvbuf, reconnect, toNode, toPeer, last,
                     block_store, last_block_hash, testvars, node>>
      /\ Queued(st, <<Version>>) \/ UNCHANGED <<st, vN, queue>>
  BY DEF AfterHandshake
<1>2. HarmlessAll(<<Version>>)
  BY HarmlessOne DEF Harmless, Version
<1>3. /\ st'.sendN \in Int /\ vN' \in Int /\ IsSeq(st'.received_prefix)
      /\ Len(st'.received_prefix) <= 2 /\ QueueAll(queue', Stage)
  BY <1>1, <1>2, SyncFacts, QueuedSync
<1>4. IsLast(last') /\ (reconnect' => reconnect /\ ~last'.version)
  BY <1>1 DEF SyncInv, Synced, EndInv
<1>5. /\ TestInv' /\ EndInv' /\ SyncMeansProcessed'
      /\ Later(Stage, Stage') /\ held' = held /\ Stage' = Stage
  BY <1>1, <1>3, <1>4, NetworkKeeps
<1>6. WireInv
  BY DEF SyncInv, Synced
<1>7. WireInv'
  BY <1>1, <1>3, <1>5, <1>6, WireStep
<1> QED BY <1>5, <1>7 DEF Synced

LEMMA LastSet ==
  ASSUME NEW l, IsLast(l), NEW m
  PROVE  LET k == CASE m.t = "version" -> [l EXCEPT !.version = TRUE]
                    [] m.t = "verack" -> [l EXCEPT !.verack = TRUE]
                    [] m.t = "pong" -> [l EXCEPT !.pong = m.n]
                    [] OTHER -> l
         IN  /\ IsLast(k) /\ (m.t # "version" => k.version = l.version)
             /\ k.pong = l.pong \/ (m.t = "pong" /\ k.pong = m.n)
<1>1. CASE m.t = "version"
  BY <1>1 DEF IsLast
<1>2. CASE m.t = "verack"
  BY <1>2 DEF IsLast
<1>3. CASE m.t = "pong"
  BY <1>3 DEF IsLast
<1>4. CASE m.t \notin {"version", "verack", "pong"}
  BY <1>4 DEF IsLast
<1> QED BY <1>1, <1>2, <1>3, <1>4

LEMMA MessageSync ==
  ASSUME SyncInv, OnMessage
  PROVE  Synced'
<1> DEFINE m == Frame.m
           k == CASE m.t = "version" -> [last EXCEPT !.version = TRUE]
                  [] m.t = "verack" -> [last EXCEPT !.verack = TRUE]
                  [] m.t = "pong" -> [last EXCEPT !.pong = m.n]
                  [] OTHER -> last
<1>1. /\ callback = "data" /\ Frame.is = "message"
      /\ UNCHANGED <<mode, transport, toNode, toPeer, block_store, last_block_hash, testvars, node>>
      /\ recvbuf' = Drop(recvbuf, Frame.length)
      /\ last' = k
      /\ reconnect' = IF m.t = "version" /\ ~mode.out THEN FALSE ELSE reconnect
      /\ Queued(Frame.st, Reply(m)) \/ Queued(Frame.st, <<>>)
  BY DEF OnMessage
<1>2. TestInv /\ EndInv /\ WireInv
  BY DEF SyncInv, Synced
<1>3. Tells(m, Stage)
  BY <1>1, SyncFacts, FrameTells
<1>4. /\ Frame.st.sendN = st.sendN /\ Frame.st.received_prefix = st.received_prefix
      /\ IsState(Frame.st) /\ Frame.length \in Nat /\ Frame.length <= Len(recvbuf)
  BY <1>1, SyncFacts, FrameTakes
<1>5. IsLast(last') /\ (m.t # "version" => last'.version = last.version)
      /\ (last'.pong = last.pong \/ (m.t = "pong" /\ last'.pong = m.n))
  <2>1. IsLast(last)
    BY <1>2 DEF EndInv
  <2> HIDE DEF m
  <2> QED BY <1>1, <2>1, LastSet
<1> HIDE DEF m, k
<1>6. last'.pong = last.pong \/ Ponged(last'.pong, Stage)
  BY <1>3, <1>5 DEF Tells
<1>7. reconnect' => reconnect /\ ~last'.version
  BY <1>1, <1>2, <1>5 DEF EndInv
<1>8. HarmlessAll(Reply(m)) /\ HarmlessAll(<<>>)
  BY <1>2, <1>3, ReplyHarmless, HarmlessNone DEF TestInv, Tells
<1>9. /\ st'.sendN \in Int /\ vN' \in Int /\ IsSeq(st'.received_prefix)
      /\ Len(st'.received_prefix) <= 2 /\ QueueAll(queue', Stage)
  BY <1>1, <1>4, <1>8, QueuedSync
<1>10. All("tell", recvbuf', Stage)
  BY <1>1, <1>4, SyncFacts, DropAllSound
<1>11. /\ TestInv' /\ EndInv' /\ SyncMeansProcessed'
       /\ Later(Stage, Stage') /\ held' = held /\ Stage' = Stage
  BY <1>1, <1>5, <1>7, <1>9, NetworkKeeps
<1>12. WireInv'
  BY <1>1, <1>2, <1>6, <1>9, <1>10, <1>11, WireStep
<1> QED BY <1>11, <1>12 DEF Synced

(***************************************************************************)
(* The node.                                                               *)
(***************************************************************************)
\* A field of the node that is no number read.
LEMMA NodeSet ==
  ASSUME NEW a, IsNode(a), NEW e
  PROVE  /\ IsNode([a EXCEPT !.phase = e]) /\ [a EXCEPT !.phase = e].recvN = a.recvN
         /\ IsNode([a EXCEPT !.session = e]) /\ [a EXCEPT !.session = e].recvN = a.recvN
         /\ IsNode([a EXCEPT !.garbage = e]) /\ [a EXCEPT !.garbage = e].recvN = a.recvN
         /\ IsNode([a EXCEPT !.aad = e]) /\ [a EXCEPT !.aad = e].recvN = a.recvN
         /\ IsNode([a EXCEPT !.sendN = e]) /\ [a EXCEPT !.sendN = e].recvN = a.recvN
         /\ IsNode([a EXCEPT !.hello = e]) /\ [a EXCEPT !.hello = e].recvN = a.recvN
         /\ IsNode([a EXCEPT !.up = e]) /\ [a EXCEPT !.up = e].recvN = a.recvN
         /\ IsNode([a EXCEPT !.extra = e]) /\ [a EXCEPT !.extra = e].recvN = a.recvN
         /\ IsNode([a EXCEPT !.headers = e]) /\ [a EXCEPT !.headers = e].recvN = a.recvN
         /\ IsNode([a EXCEPT !.blocks = e]) /\ [a EXCEPT !.blocks = e].recvN = a.recvN
         /\ IsNode([a EXCEPT !.pool = e]) /\ [a EXCEPT !.pool = e].recvN = a.recvN
         /\ IsNode([a EXCEPT !.bad = e]) /\ [a EXCEPT !.bad = e].recvN = a.recvN
<1>1. /\ IsNode([a EXCEPT !.phase = e]) /\ [a EXCEPT !.phase = e].recvN = a.recvN
      /\ IsNode([a EXCEPT !.session = e]) /\ [a EXCEPT !.session = e].recvN = a.recvN
      /\ IsNode([a EXCEPT !.garbage = e]) /\ [a EXCEPT !.garbage = e].recvN = a.recvN
  BY DEF IsNode
<1>2. /\ IsNode([a EXCEPT !.aad = e]) /\ [a EXCEPT !.aad = e].recvN = a.recvN
      /\ IsNode([a EXCEPT !.sendN = e]) /\ [a EXCEPT !.sendN = e].recvN = a.recvN
      /\ IsNode([a EXCEPT !.hello = e]) /\ [a EXCEPT !.hello = e].recvN = a.recvN
  BY DEF IsNode
<1>3. /\ IsNode([a EXCEPT !.up = e]) /\ [a EXCEPT !.up = e].recvN = a.recvN
      /\ IsNode([a EXCEPT !.extra = e]) /\ [a EXCEPT !.extra = e].recvN = a.recvN
      /\ IsNode([a EXCEPT !.headers = e]) /\ [a EXCEPT !.headers = e].recvN = a.recvN
  BY DEF IsNode
<1>4. /\ IsNode([a EXCEPT !.blocks = e]) /\ [a EXCEPT !.blocks = e].recvN = a.recvN
      /\ IsNode([a EXCEPT !.pool = e]) /\ [a EXCEPT !.pool = e].recvN = a.recvN
      /\ IsNode([a EXCEPT !.bad = e]) /\ [a EXCEPT !.bad = e].recvN = a.recvN
  BY DEF IsNode
<1> QED BY <1>1, <1>2, <1>3, <1>4

LEMMA NodeRead ==
  ASSUME NEW a, IsNode(a), NEW e
  PROVE  IsNode([a EXCEPT !.recvN = e]) /\ [a EXCEPT !.recvN = e].recvN = e
BY DEF IsNode

LEMMA NodeKnowsKeeps ==
  ASSUME IsNode(node), NEW m
  PROVE  IsNode(NodeKnows(m)) /\ NodeKnows(m).recvN = node.recvN
<1>1. \/ NodeKnows(m) = [node EXCEPT !.hello = TRUE]
      \/ NodeKnows(m) = [node EXCEPT !.up = TRUE]
      \/ NodeKnows(m) = [node EXCEPT !.headers = node.headers \cup ToSet(m.b)]
      \/ NodeKnows(m) = [node EXCEPT !.blocks = node.blocks \cup ToSet(m.b)]
      \/ NodeKnows(m) = [node EXCEPT !.pool = node.pool \cup ToSet(m.b)]
      \/ NodeKnows(m) = node
  <2>1. CASE m.t = "version"
    BY <2>1 DEF NodeKnows
  <2>2. CASE m.t = "verack"
    BY <2>2 DEF NodeKnows
  <2>3. CASE m.t = "headers"
    BY <2>3 DEF NodeKnows
  <2>4. CASE m.t = "block"
    BY <2>4 DEF NodeKnows
  <2>5. CASE m.t = "tx"
    BY <2>5 DEF NodeKnows
  <2>6. CASE m.t \notin {"version", "verack", "headers", "block", "tx"}
    BY <2>6 DEF NodeKnows
  <2> QED BY <2>1, <2>2, <2>3, <2>4, <2>5, <2>6
<1>2. ASSUME NEW e
      PROVE  /\ IsNode([node EXCEPT !.hello = e]) /\ [node EXCEPT !.hello = e].recvN = node.recvN
             /\ IsNode([node EXCEPT !.up = e]) /\ [node EXCEPT !.up = e].recvN = node.recvN
             /\ IsNode([node EXCEPT !.headers = e]) /\ [node EXCEPT !.headers = e].recvN = node.recvN
             /\ IsNode([node EXCEPT !.blocks = e]) /\ [node EXCEPT !.blocks = e].recvN = node.recvN
             /\ IsNode([node EXCEPT !.pool = e]) /\ [node EXCEPT !.pool = e].recvN = node.recvN
  BY NodeSet
<1>3. CASE NodeKnows(m) = [node EXCEPT !.hello = TRUE] \/ NodeKnows(m) = [node EXCEPT !.up = TRUE]
  BY <1>2, <1>3
<1>4. CASE NodeKnows(m) = [node EXCEPT !.headers = node.headers \cup ToSet(m.b)]
  BY <1>2, <1>4
<1>5. CASE NodeKnows(m) = [node EXCEPT !.blocks = node.blocks \cup ToSet(m.b)]
  BY <1>2, <1>5
<1>6. CASE NodeKnows(m) = [node EXCEPT !.pool = node.pool \cup ToSet(m.b)]
  BY <1>2, <1>6
<1>7. CASE NodeKnows(m) = node
  BY <1>7
<1> QED BY <1>1, <1>3, <1>4, <1>5, <1>6, <1>7

\* A step of the node.
LEMMA NodeKeeps ==
  ASSUME SyncInv, NodeOnly, IsNode(node'), node'.recvN \in Int, node'.recvN >= node.recvN,
         toNode' = toNode \/ All("ask", toNode', Stage'),
         toPeer' = toPeer \/ All("tell", toPeer', Stage')
  PROVE  Synced'
<1>1. /\ UNCHANGED <<mode, transport, st, recvbuf, queue, reconnect, vN, last, block_store,
                     last_block_hash, ping_counter, pc, offers, held, mark>>
  BY DEF NodeOnly, appvars, testvars
<1>2. TestInv /\ EndInv /\ SyncMeansProcessed /\ WireInv
  BY DEF SyncInv, Synced
<1>3. TestInv'
  BY <1>1, <1>2 DEF TestInv
<1>4. EndInv'
  BY <1>1, <1>2 DEF EndInv
<1>5. SyncMeansProcessed'
  BY <1>1, <1>2 DEF SyncMeansProcessed, EndInv, TestInv
<1>6. Later(Stage, Stage')
  BY <1>1, <1>2, SameStage
<1>7. WireInv'
  BY <1>1, <1>2, <1>6, WireStep
<1> QED BY <1>3, <1>4, <1>5, <1>7 DEF Synced

\* What was sound stays so while the node reads on.
LEMMA NodeWire ==
  ASSUME SyncInv, NodeOnly, node'.recvN \in Int, node'.recvN >= node.recvN
  PROVE  All("ask", toNode, Stage') /\ All("tell", toPeer, Stage') /\ Later(Stage, Stage')
<1>1. UNCHANGED <<ping_counter, pc, held, mark>>
  BY DEF NodeOnly, testvars
<1>2. Later(Stage, Stage')
  BY <1>1, SameStage DEF SyncInv, Synced
<1>3. All("ask", toNode, Stage) /\ All("tell", toPeer, Stage)
  BY SyncFacts
<1> QED BY <1>2, <1>3, AllLater

LEMMA NodeSendsKeeps ==
  ASSUME SyncInv, NodeOnly, NEW nd, IsNode(nd), nd.recvN \in Int, nd.recvN >= node.recvN,
         NEW msgs, NodeSends(nd, msgs),
         \A g : (g = Stage') => TellsAll(msgs, g),
         toNode' = toNode \/ \E n \in Nat : n <= Len(toNode) /\ toNode' = Drop(toNode, n)
  PROVE  Synced'
<1>1. node' = [nd EXCEPT !.sendN = nd.sendN + Len(msgs)] /\ toPeer' = toPeer \o NodeBytes(nd, msgs)
  BY DEF NodeSends
<1>2. IsNode(node') /\ node'.recvN = nd.recvN
  BY <1>1, NodeSet
<1>3. All("ask", toNode, Stage') /\ All("tell", toPeer, Stage')
  BY <1>2, NodeWire
<1>4. TellsAll(msgs, Stage')
  OBVIOUS
<1>5. All("tell", NodeBytes(nd, msgs), Stage')
  BY <1>4, NodeBytesAll
<1>6. All("tell", toPeer', Stage')
  BY <1>1, <1>3, <1>5, ConcatAll
<1>7. toNode' = toNode \/ All("ask", toNode', Stage')
  BY <1>3, DropAllSound
<1> QED BY <1>2, <1>6, <1>7, NodeKeeps

LEMMA NodeKeySync ==
  ASSUME SyncInv, NodeKeyRead
  PROVE  Synced'
<1>1. IsNode(node) /\ node.recvN \in Int
  BY DEF SyncInv, Synced, EndInv
<1>2. /\ NodeOnly /\ toNode' = Drop(toNode, KEY_LEN) /\ Len(toNode) >= KEY_LEN
  BY DEF NodeKeyRead
<1>3. PICK g \in 0 .. MAX_GARBAGE_LEN, d \in 0 .. 1 :
        LET theirs == KeyOf(SubSeq(toNode, 1, KEY_LEN), Keys, 0)
            me == [NewState(~mode.out) EXCEPT !.sent_garbage = IF mode.out THEN g ELSE node.garbage,
                     !.session = IF mode.out THEN <<theirs, NodeKey>> ELSE <<NodeKey, theirs>>]
        IN /\ toPeer' = toPeer
                \o (IF mode.out THEN KeySyms(NodeKey, 0) \o [i \in 1 .. g |-> Garbage] ELSE <<>>)
                \o Opening(me, d)
           /\ node' = [node EXCEPT !.session = me.session, !.sendN = d + 1, !.phase = "term"]
  BY DEF NodeKeyRead
<1> DEFINE theirs == KeyOf(SubSeq(toNode, 1, KEY_LEN), Keys, 0)
           me == [NewState(~mode.out) EXCEPT !.sent_garbage = IF mode.out THEN g ELSE node.garbage,
                    !.session = IF mode.out THEN <<theirs, NodeKey>> ELSE <<NodeKey, theirs>>]
           key == KeySyms(NodeKey, 0) \o [i \in 1 .. g |-> Garbage]
           front == IF mode.out THEN key ELSE <<>>
           o == Opening(me, d)
           a == [node EXCEPT !.session = me.session]
           b == [a EXCEPT !.sendN = d + 1]
           c == [b EXCEPT !.phase = "term"]
<1>4. toPeer' = (toPeer \o front) \o o
  BY <1>3
<1>5. node' = c
  BY <1>3
<1>6. g \in Nat /\ d \in Nat /\ KEY_LEN \in Nat
  BY KeyAssumption
<1>7. IsNode(c) /\ c.recvN = node.recvN
  <2>1. IsNode(a) /\ a.recvN = node.recvN
    BY <1>1, NodeSet
  <2> HIDE DEF a
  <2>2. IsNode(b) /\ b.recvN = a.recvN
    BY <2>1, NodeSet
  <2> HIDE DEF b
  <2>3. IsNode(c) /\ c.recvN = b.recvN
    BY <2>2, NodeSet
  <2> QED BY <2>1, <2>2, <2>3
<1> HIDE DEF c
<1>8. node'.recvN \in Int /\ node'.recvN >= node.recvN /\ IsNode(node')
  BY <1>1, <1>5, <1>7
<1>9. All("ask", toNode, Stage') /\ All("tell", toPeer, Stage')
  BY <1>2, <1>8, NodeWire
<1>10. OpeningIs(o, me.session, Side(me), me.sent_garbage, d)
  BY <1>6, OpeningAre
<1>11. KeyIs(key, NodeKey, 0, g) /\ 0 \in 0 .. 2
  BY <1>6, KeyAre
<1> HIDE DEF me, o, key
<1>12. All("tell", o, Stage') /\ All("tell", key, Stage')
  BY <1>6, <1>10, <1>11, OpeningAll, KeyAll
<1>13. All("tell", front, Stage')
  BY <1>12, NothingAll
<1> HIDE DEF front
<1>14. All("tell", toPeer \o front, Stage')
  BY <1>9, <1>13, ConcatAll
<1>15. All("tell", toPeer', Stage')
  BY <1>4, <1>12, <1>14, ConcatAll
<1>16. All("ask", toNode', Stage')
  BY <1>2, <1>6, <1>9, DropAllSound
<1> QED BY <1>2, <1>8, <1>15, <1>16, NodeKeeps

LEMMA NodeTermSync ==
  ASSUME SyncInv, NodeTerm
  PROVE  Synced'
<1>1. IsNode(node) /\ node.recvN \in Int
  BY DEF SyncInv, Synced, EndInv
<1>2. NodeOnly /\ toPeer' = toPeer
  BY DEF NodeTerm
<1>3. PICK i \in 1 .. Len(toNode) :
        /\ toNode' = Drop(toNode, i)
        /\ node' = [node EXCEPT !.aad = i - 1, !.phase = "auth"]
  BY DEF NodeTerm
<1> DEFINE a == [node EXCEPT !.aad = i - 1]
           b == [a EXCEPT !.phase = "auth"]
<1>4. node' = b
  BY <1>3
<1>5. IsNode(b) /\ b.recvN = node.recvN
  <2>1. IsNode(a) /\ a.recvN = node.recvN
    BY <1>1, NodeSet
  <2> HIDE DEF a
  <2>2. IsNode(b) /\ b.recvN = a.recvN
    BY <2>1, NodeSet
  <2> QED BY <2>1, <2>2
<1> HIDE DEF b
<1>6. node'.recvN \in Int /\ node'.recvN >= node.recvN /\ IsNode(node')
  BY <1>1, <1>4, <1>5
<1>7. All("ask", toNode, Stage')
  BY <1>2, <1>6, NodeWire
<1>8. i \in Nat /\ i <= Len(toNode)
  BY SyncFacts
<1>9. All("ask", toNode', Stage')
  BY <1>3, <1>7, <1>8, DropAllSound
<1> QED BY <1>2, <1>6, <1>9, NodeKeeps

LEMMA NodeExtraSync ==
  ASSUME SyncInv, NodeExtra
  PROVE  Synced'
<1> DEFINE nd == [node EXCEPT !.extra = TRUE]
           msgs == IF mode.extra = "decoy" THEN <<Decoy>> ELSE <<Ping(7), Msg("inv")>>
<1>1. IsNode(node) /\ node.recvN \in Int
  BY DEF SyncInv, Synced, EndInv
<1>2. NodeOnly /\ toNode' = toNode /\ NodeSends(nd, msgs)
  BY DEF NodeExtra
<1>3. IsNode(nd) /\ nd.recvN = node.recvN
  BY <1>1, NodeSet
<1>4. \A g : Tells(Decoy, g) /\ Tells(Ping(7), g) /\ Tells(Msg("inv"), g)
  BY DEF Tells, Decoy, Ping, Msg
<1>5. \A g : TellsAll(msgs, g)
  BY <1>4, TellsOne, TellsPair
<1> HIDE DEF nd, msgs
<1>6. nd.recvN \in Int /\ nd.recvN >= node.recvN
  BY <1>1, <1>3
<1> QED BY <1>2, <1>3, <1>5, <1>6, NodeSendsKeeps

\* The message that the node reads next was sent as number node.recvN.
LEMMA NodeReadsSync ==
  ASSUME SyncInv, NodeReads
  PROVE  Synced'
<1> DEFINE size == IF node.v2 THEN 2 ELSE 3
           body == toNode[size]
           good == IF node.v2
                   THEN /\ toNode[1] = LenSym(node.session, PeerSide, node.recvN)
                        /\ body = BodySym(node.session, PeerSide, node.recvN, node.aad, body.m)
                   ELSE toNode[1] = Magic /\ body = Payload(body.m, node.recvN)
           a == NodeKnows(body.m)
           b == [a EXCEPT !.recvN = a.recvN + 1]
           c == [b EXCEPT !.aad = 0]
           e == IF body.m = Empty THEN "ready" ELSE a.phase
           nd == [c EXCEPT !.phase = e]
           nh == [nd EXCEPT !.hello = TRUE]
<1>1. IsNode(node) /\ node.recvN \in Int
  BY DEF SyncInv, Synced, EndInv
<1>2. /\ NodeOnly /\ Len(toNode) >= size /\ toNode' = Drop(toNode, size)
      /\ \/ ~good /\ node' = [node EXCEPT !.bad = TRUE] /\ UNCHANGED toPeer
         \/ good /\ NodeSends(nh, <<Version>>)
         \/ good /\ NodeSends(nd, NodeAnswer(body.m))
  BY DEF NodeReads
<1>3. size \in Nat /\ size <= Len(toNode) /\ size \in 1 .. Len(toNode)
  BY <1>2, SyncFacts
<1>4. Sound("ask", body, Stage)
  BY <1>3, SyncFacts DEF All
<1>5. good => body.k \in {"body", "payload"} /\ body.n = node.recvN
  BY DEF BodySym, Payload
<1> HIDE DEF size, good
<1>6. CASE node' = [node EXCEPT !.bad = TRUE] /\ UNCHANGED toPeer
  <2>1. IsNode(node') /\ node'.recvN = node.recvN
    BY <1>1, <1>6, NodeSet
  <2>2. node'.recvN \in Int /\ node'.recvN >= node.recvN
    BY <1>1, <2>1
  <2>3. All("ask", toNode, Stage')
    BY <1>2, <2>2, NodeWire
  <2>4. All("ask", toNode', Stage')
    BY <1>2, <1>3, <2>3, DropAllSound
  <2> QED BY <1>2, <1>6, <2>1, <2>2, <2>4, NodeKeeps
<1>7. IsNode(nd) /\ nd.recvN = node.recvN + 1 /\ IsNode(nh) /\ nh.recvN = node.recvN + 1
  <2>1. IsNode(a) /\ a.recvN = node.recvN
    BY <1>1, NodeKnowsKeeps
  <2> HIDE DEF a, e
  <2>2. IsNode(b) /\ b.recvN = a.recvN + 1
    BY <2>1, NodeRead
  <2> HIDE DEF b
  <2>3. IsNode(c) /\ c.recvN = b.recvN
    BY <2>2, NodeSet
  <2> HIDE DEF c
  <2>4. IsNode(nd) /\ nd.recvN = c.recvN
    BY <2>3, NodeSet
  <2> HIDE DEF nd
  <2>5. IsNode(nh) /\ nh.recvN = nd.recvN
    BY <2>4, NodeSet
  <2> QED BY <2>1, <2>2, <2>3, <2>4, <2>5
<1> HIDE DEF nd, nh
<1>8. /\ nd.recvN \in Int /\ nd.recvN >= node.recvN /\ nh.recvN \in Int /\ nh.recvN >= node.recvN
  BY <1>1, <1>7
<1>9. toNode' = toNode \/ \E n \in Nat : n <= Len(toNode) /\ toNode' = Drop(toNode, n)
  BY <1>2, <1>3
<1>10. CASE NodeSends(nh, <<Version>>)
  <2>1. \A g : Tells(Version, g)
    BY DEF Tells, Version
  <2>2. \A g : TellsAll(<<Version>>, g)
    BY <2>1, TellsOne
  <2> QED BY <1>2, <1>7, <1>8, <1>9, <1>10, <2>2, NodeSendsKeeps
<1>11. CASE good /\ NodeSends(nd, NodeAnswer(body.m))
  <2> DEFINE m == body.m
             p == PingedAt(pc, held)
  <2>1. Asks(m, node.recvN, Stage)
    BY <1>4, <1>5, <1>11 DEF Sound
  <2> HIDE DEF body
  <2>2. node'.recvN = node.recvN + 1
    <3>1. node' = [nd EXCEPT !.sendN = nd.sendN + Len(NodeAnswer(m))]
      BY <1>11 DEF NodeSends
    <3> QED BY <1>7, <3>1, NodeSet
  <2>3. UNCHANGED <<ping_counter, pc, held, mark>>
    BY <1>2 DEF NodeOnly, testvars
  <2>4. p \in BOOLEAN /\ Stage = StageAt(ping_counter, p, mark, node.recvN)
        /\ Stage' = StageAt(ping_counter, p, mark, node.recvN + 1)
    BY <2>2, <2>3, PingedIs DEF Stage
  <2> HIDE DEF p, m
  <2>5. m.t = "ping" => Ponged(m.n, Stage')
    BY <2>1, <2>4, StageFields DEF Asks, Ponged
  <2>6. m.t = "headers" => IsSeq(m.b)
    BY <2>1 DEF Asks
  <2>7. TellsAll(NodeAnswer(m), Stage')
    BY <2>5, <2>6, AnswerTells
  <2> QED BY <1>2, <1>7, <1>8, <1>9, <1>11, <2>7, NodeSendsKeeps DEF m
<1> QED BY <1>2, <1>6, <1>10, <1>11

(***************************************************************************)
(* The test thread.                                                        *)
(***************************************************************************)
\* A step of it that sends nothing.
LEMMA TestKeeps ==
  ASSUME SyncInv, UNCHANGED <<mode, transport, st, recvbuf, queue, reconnect, vN, toNode, toPeer, last, node>>,
         Later(Stage, Stage'), TestInv', SyncMeansProcessed',
         held' = held \/ held' = <<>>,
         reconnect => pc' \in {"connect", "reconnect", "failed"}
  PROVE  Synced'
<1>1. EndInv /\ WireInv
  BY DEF SyncInv, Synced
<1>2. EndInv'
  BY <1>1 DEF EndInv
<1>3. held' = held \/ All("ask", held', Stage')
  BY NothingAll
<1>4. WireInv'
  BY <1>1, <1>3, WireStep
<1> QED BY <1>2, <1>4 DEF Synced

\* The next stage, by its parts.
LEMMA StageStep ==
  ASSUME TestInv, EndInv, TestInv', EndInv',
         \/ ping_counter' > ping_counter
         \/ /\ ping_counter' = ping_counter
            /\ PingedAt(pc, held) => /\ PingedAt(pc', held') /\ mark' = mark
                                     /\ node'.recvN >= node.recvN
  PROVE  Later(Stage, Stage')
<1> DEFINE p == PingedAt(pc, held)
           q == PingedAt(pc', held')
<1>1. p \in BOOLEAN /\ q \in BOOLEAN
      /\ Stage = StageAt(ping_counter, p, mark, node.recvN)
      /\ Stage' = StageAt(ping_counter', q, mark', node'.recvN)
  BY PingedIs DEF Stage
<1>2. (p => q /\ mark' = mark /\ node'.recvN >= node.recvN) \/ ping_counter' > ping_counter
  OBVIOUS
<1> HIDE DEF p, q
<1>3. /\ ping_counter \in Int /\ mark \in Int /\ node.recvN \in Int
      /\ ping_counter' \in Int /\ mark' \in Int /\ node'.recvN \in Int
  BY DEF TestInv, EndInv
<1> QED BY <1>1, <1>2, <1>3, StageFields DEF Later, IsStage, p, q

LEMMA AfterIs ==
  /\ pc = "verack" => After = "ping1"
  /\ pc = "ping1" => After = "ping1n"
  /\ pc = "ping1n" => After = "pong1"
  /\ pc = "pong1" => After = "store"
  /\ pc = "headers" => After = "getdata"
  /\ pc = "getdata" => After = "ping2"
  /\ pc = "send" => After \in {"send", "ping2"}
  /\ pc = "ping2" => After = "ping2n"
  /\ pc = "ping2n" => After = "pong2"
  /\ pc = "pong2" => After \in {"mempool", "tip"}
  /\ pc = "tip" => After = "close"
BY DEF After

LEMMA WaitSync ==
  ASSUME SyncInv, WaitUntil
  PROVE  Synced'
<1>1. /\ pc \in Waits
      /\ pc' = "failed" \/ (Holds /\ pc' = After)
      /\ ping_counter' = IF pc \in {"pong1", "pong2"} /\ pc' # "failed" THEN ping_counter + 1 ELSE ping_counter
      /\ UNCHANGED <<offers, held, mark>>
      /\ UNCHANGED <<mode, transport, st, recvbuf, queue, reconnect, vN, toNode, toPeer, last, node,
                     block_store, last_block_hash>>
  BY DEF WaitUntil, Calm, netvars, appvars
<1>2. TestInv /\ EndInv /\ SyncMeansProcessed /\ Ponged(last.pong, Stage)
  BY DEF SyncInv, Synced, WireInv
<1>3. /\ pc' \in {"failed", "ping1", "store", "ping2", "mempool", "tip", "close"}
      /\ pc = "verack" => pc' \in {"failed", "ping1"}
      /\ pc = "getdata" => pc' \in {"failed", "ping2"}
      /\ pc = "tip" => pc' \in {"failed", "close"}
  BY <1>1, AfterIs DEF Waits
<1>4. held = <<>> /\ pc \notin Sending
  BY <1>1, <1>2 DEF Waits, TestInv, Sending
<1>5. TestInv'
  BY <1>1, <1>2, <1>3, <1>4 DEF TestInv
<1>6. SyncMeansProcessed'
  <2>1. CASE pc \in {"pong1", "pong2"}
    <3>1. SUFFICES ASSUME pc' # "failed" PROVE node.recvN >= mark
      BY <1>1 DEF SyncMeansProcessed
    <3>2. last.pong = ping_counter
      BY <1>1, <2>1, <3>1 DEF Holds
    <3> DEFINE p == PingedAt(pc, held)
    <3>3. p \in BOOLEAN /\ Stage = StageAt(ping_counter, p, mark, node.recvN)
      BY PingedIs DEF Stage
    <3> HIDE DEF p
    <3> QED BY <1>2, <3>2, <3>3, StageFields DEF Ponged
  <2>2. CASE pc \notin {"pong1", "pong2"}
    BY <1>1, <1>2, <1>3, <2>2 DEF SyncMeansProcessed, Waits
  <2> QED BY <2>1, <2>2
<1>7. EndInv'
  BY <1>1, <1>2 DEF EndInv, Waits
<1>8. reconnect => pc' \in {"connect", "reconnect", "failed"}
  BY <1>1, <1>2 DEF EndInv, Waits
<1>9. \/ ping_counter' > ping_counter
      \/ /\ ping_counter' = ping_counter
         /\ PingedAt(pc, held) => PingedAt(pc', held') /\ mark' = mark /\ node'.recvN >= node.recvN
  <2>1. CASE pc \in {"pong1", "pong2"} /\ pc' # "failed"
    BY <1>1, <1>2, <2>1 DEF TestInv
  <2>2. CASE pc \in {"pong1", "pong2"} /\ pc' = "failed"
    BY <1>1, <1>2, <2>2 DEF PingedAt, EndInv
  <2>3. CASE pc \notin {"pong1", "pong2"}
    BY <1>1, <2>3 DEF PingedAt, Waits
  <2> QED BY <2>1, <2>2, <2>3
<1>10. Later(Stage, Stage')
  BY <1>2, <1>5, <1>7, <1>9, StageStep
<1> QED BY <1>1, <1>5, <1>6, <1>8, <1>10, TestKeeps

LEMMA WaitReconnectSync ==
  ASSUME SyncInv, WaitForReconnect
  PROVE  Synced'
<1>1. /\ pc = "reconnect" /\ pc' \in {"verack", "failed"} /\ (pc' = "verack" => last.version)
      /\ UNCHANGED <<ping_counter, offers, held, mark>>
      /\ UNCHANGED <<mode, transport, st, recvbuf, queue, reconnect, vN, toNode, toPeer, last, node,
                     block_store, last_block_hash>>
  BY DEF WaitForReconnect, Calm, netvars, appvars
<1>2. TestInv /\ EndInv /\ SyncMeansProcessed
  BY DEF SyncInv, Synced
<1>3. held = <<>>
  BY <1>1, <1>2 DEF TestInv, Sending
<1>4. TestInv' /\ SyncMeansProcessed'
  BY <1>1, <1>2, <1>3 DEF TestInv, SyncMeansProcessed
<1>5. reconnect => pc' = "failed"
  BY <1>1, <1>2 DEF EndInv
<1>6. EndInv'
  BY <1>1, <1>2, <1>5 DEF EndInv
<1>7. ~PingedAt(pc, held)
  BY <1>1 DEF PingedAt
<1>8. Later(Stage, Stage')
  BY <1>1, <1>2, <1>4, <1>6, <1>7, StageStep
<1> QED BY <1>1, <1>4, <1>5, <1>8, TestKeeps

LEMMA MempoolSync ==
  ASSUME SyncInv, Mempool
  PROVE  Synced'
<1>1. /\ pc = "mempool" /\ pc' \in {"close", "failed"}
      /\ UNCHANGED <<ping_counter, offers, held, mark>>
      /\ UNCHANGED <<mode, transport, st, recvbuf, queue, reconnect, vN, toNode, toPeer, last, node,
                     block_store, last_block_hash>>
  BY DEF Mempool, Calm, netvars, appvars
<1>2. TestInv /\ EndInv /\ SyncMeansProcessed
  BY DEF SyncInv, Synced
<1>3. held = <<>>
  BY <1>1, <1>2 DEF TestInv, Sending
<1>4. TestInv' /\ SyncMeansProcessed'
  BY <1>1, <1>2, <1>3 DEF TestInv, SyncMeansProcessed
<1>5. ~reconnect
  BY <1>1, <1>2 DEF EndInv
<1>6. EndInv'
  BY <1>1, <1>2, <1>5 DEF EndInv
<1>7. ~PingedAt(pc, held)
  BY <1>1 DEF PingedAt
<1>8. Later(Stage, Stage')
  BY <1>1, <1>2, <1>4, <1>6, <1>7, StageStep
<1> QED BY <1>1, <1>4, <1>5, <1>8, TestKeeps

LEMMA StoreSync ==
  ASSUME SyncInv, Store
  PROVE  Synced'
<1>1. /\ pc = "store" /\ pc' \in {"send", "headers"} /\ offers' = Ascending(Offered)
      /\ \/ UNCHANGED <<block_store, last_block_hash>>
         \/ block_store' = block_store \cup Offered /\ last_block_hash' = Max(Offered)
      /\ UNCHANGED <<ping_counter, held, mark>>
      /\ UNCHANGED <<mode, transport, st, recvbuf, queue, reconnect, vN, toNode, toPeer, last, node>>
  BY DEF Store, netvars
<1>2. TestInv /\ EndInv /\ SyncMeansProcessed
  BY DEF SyncInv, Synced
<1>3. held = <<>>
  BY <1>1, <1>2 DEF TestInv, Sending
<1>4. IsSeq(offers')
  BY <1>1, OfferedSome, AscendingSeq
<1>5. block_store' \subseteq Nat /\ last_block_hash' \in Nat
  <2>1. Offered \subseteq Nat
    <3>1. \A x \in 0 .. Top + MAX_HEADERS_RESULTS : x \in Nat
      OBVIOUS
    <3> QED BY <3>1, OfferedSome
  <2> QED BY <1>1, <1>2, <2>1, OfferedSome DEF TestInv
<1>6. TestInv' /\ SyncMeansProcessed'
  BY <1>1, <1>2, <1>3, <1>4, <1>5 DEF TestInv, SyncMeansProcessed
<1>7. ~reconnect
  BY <1>1, <1>2 DEF EndInv
<1>8. EndInv'
  BY <1>1, <1>2, <1>7 DEF EndInv
<1>9. ~PingedAt(pc, held)
  BY <1>1 DEF PingedAt
<1>10. Later(Stage, Stage')
  BY <1>1, <1>2, <1>6, <1>8, <1>9, StageStep
<1> QED BY <1>1, <1>6, <1>7, <1>10, TestKeeps

\* What is queued.
LEMMA EnqueueSync ==
  ASSUME SyncInv, SendEnqueue
  PROVE  Synced'
<1>1. /\ held # <<>> /\ held' = <<>>
      /\ \/ queue' = Append(queue, held) /\ pc' = After
         \/ queue' = queue /\ pc' = "failed"
      /\ UNCHANGED <<mode, transport, st, recvbuf, reconnect, vN, toNode, toPeer, last, node,
                     block_store, last_block_hash, ping_counter, mark>>
  BY DEF SendEnqueue, appvars
<1>2. TestInv /\ EndInv /\ WireInv
  BY DEF SyncInv, Synced
<1>3. pc \in Sending
  BY <1>1, <1>2 DEF TestInv
<1>4. /\ pc' \in {"ping1n", "pong1", "getdata", "send", "ping2", "ping2n", "pong2", "failed"}
      /\ pc \in {"ping1n", "ping2n"} => pc' \in {"pong1", "pong2", "failed"}
  BY <1>1, <1>3, AfterIs DEF Sending
<1>5. TestInv' /\ SyncMeansProcessed'
  BY <1>1, <1>2, <1>4 DEF TestInv, SyncMeansProcessed
<1>6. ~reconnect
  BY <1>2, <1>3 DEF EndInv, Sending
<1>7. EndInv'
  BY <1>1, <1>2, <1>6 DEF EndInv
<1>8. PingedAt(pc, held) => PingedAt(pc', held')
  BY <1>3, <1>4 DEF PingedAt, Sending
<1>9. node'.recvN >= node.recvN
  BY <1>1, <1>2 DEF EndInv
<1>10. Later(Stage, Stage')
  BY <1>1, <1>2, <1>5, <1>7, <1>8, <1>9, StageStep
<1>11. All("ask", held, Stage') /\ QueueAll(queue, Stage')
  BY <1>10, SyncFacts, AllLater, QueueLater
<1>12. queue' = queue \/ QueueAll(queue', Stage')
  BY <1>1, <1>11, QueueAppend
<1>13. All("ask", held', Stage')
  BY <1>1, NothingAll
<1>14. WireInv'
  BY <1>1, <1>2, <1>10, <1>12, <1>13, WireStep
<1> QED BY <1>5, <1>7, <1>14 DEF Synced

\* The ping of this stage is the last message that was built.
LEMMA BuildSync ==
  ASSUME SyncInv, SendBuild
  PROVE  Synced'
<1> DEFINE m == ToSend
           msgs == <<m>>
           n == IF v2 THEN st.sendN ELSE vN
<1>1. /\ pc \in Sending /\ held = <<>> /\ held' = Built(msgs)[1]
      /\ st' = SentState(st, msgs) /\ vN' = SentV1(msgs)
      /\ mark' = IF v2 THEN st'.sendN ELSE vN'
      /\ UNCHANGED <<mode, transport, recvbuf, queue, reconnect, toNode, toPeer, node, last,
                     block_store, last_block_hash, ping_counter, pc, offers>>
  BY DEF SendBuild, Build, appvars, Sending
<1>2. TestInv /\ EndInv /\ WireInv
  BY DEF SyncInv, Synced
<1>3. IsSeq(msgs) /\ Len(msgs) = 1 /\ msgs[1] = m
  BY OneSeq
<1>4. \/ m = Ping(0)
      \/ pc \in {"ping1n", "ping2n"} /\ m = Ping(ping_counter)
      \/ m = Listing("headers", offers) /\ IsSeq(offers)
      \/ \E b : m = Listing("tx", b) \/ m = Listing("block", b)
  BY <1>1, <1>2 DEF ToSend, Sending, TestInv
<1> HIDE DEF m, msgs
<1>5. SentOnly(st, st') /\ st'.sendN = IF v2 THEN st.sendN + Len(msgs) ELSE st.sendN
  BY <1>1, SyncFacts, SentFields
<1>6. /\ st'.sendN \in Int /\ vN' \in Int /\ n \in Int /\ mark' = n + 1
  BY <1>1, <1>3, <1>5, SyncFacts DEF SentV1
<1>7. st'.received_prefix = st.received_prefix
  BY <1>5 DEF SentOnly
<1>8. /\ IsSeq(Built(msgs)) /\ Len(Built(msgs)) = 1
      /\ v2 => PacketOf(Built(msgs)[1], st.session, Side(st), st.sendN + 1 - 1, m)
      /\ ~v2 => MessageOf(Built(msgs)[1], vN + 1 - 1, m)
  BY <1>3, SyncFacts, BuiltAre
<1>9. held' # <<>>
  <2>1. IsSeq(held') /\ Len(held') \in {2, 3}
    <3>1. CASE v2
      <4>1. PacketOf(held', st.session, Side(st), st.sendN + 1 - 1, m)
        BY <1>1, <1>8, <3>1
      <4> QED BY <4>1, TwoSeq DEF PacketOf
    <3>2. CASE ~v2
      <4>1. MessageOf(held', vN + 1 - 1, m)
        BY <1>1, <1>8, <3>2
      <4> QED BY <4>1, ThreeSeq DEF MessageOf
    <3> QED BY <3>1, <3>2
  <2> QED BY <2>1, EmptyLen
<1>10. TestInv'
  BY <1>1, <1>2, <1>6 DEF TestInv, Sending
<1>11. EndInv'
  BY <1>1, <1>2, <1>6, <1>7 DEF EndInv
<1>12. SyncMeansProcessed'
  BY <1>1 DEF SyncMeansProcessed, Sending
<1>13. ~PingedAt(pc, held)
  BY <1>1 DEF PingedAt, Sending
<1>14. Later(Stage, Stage')
  BY <1>1, <1>2, <1>10, <1>11, <1>13, StageStep
<1>15. Fit("ask", m, n, Stage')
  <2> DEFINE p == PingedAt(pc', held')
  <2>1. p \in BOOLEAN /\ Stage' = StageAt(ping_counter, p, n + 1, node.recvN)
    BY <1>1, <1>6, PingedIs DEF Stage
  <2>2. pc \in {"ping1n", "ping2n"} => p
    BY <1>1, <1>9 DEF PingedAt
  <2>3. ping_counter \in Int /\ ping_counter > 0
    BY <1>2 DEF TestInv
  <2> HIDE DEF p
  <2>4. Stage'.count = ping_counter /\ Stage'.pinged = p /\ Stage'.mark = n + 1
    BY <2>1, StageFields
  <2>5. CASE m = Ping(0)
    BY <2>3, <2>4, <2>5 DEF Fit, Asks, Ping
  <2>6. CASE pc \in {"ping1n", "ping2n"} /\ m = Ping(ping_counter)
    <3>1. m.t = "ping" /\ m.n = ping_counter
      BY <2>6 DEF Ping
    <3> QED BY <1>6, <2>2, <2>3, <2>4, <2>6, <3>1 DEF Fit, Asks
  <2>7. CASE m = Listing("headers", offers) /\ IsSeq(offers)
    BY <2>7 DEF Fit, Asks, Listing
  <2>8. CASE \E b : m = Listing("tx", b) \/ m = Listing("block", b)
    BY <2>8 DEF Fit, Asks, Listing
  <2> QED BY <1>4, <2>5, <2>6, <2>7, <2>8
<1>16. All("ask", held', Stage')
  <2>1. CASE v2
    <3>1. st.sendN + 1 - 1 = n
      BY <2>1, SyncFacts
    <3> QED BY <1>1, <1>8, <1>15, <2>1, <3>1, PacketAll
  <2>2. CASE ~v2
    <3>1. vN + 1 - 1 = n
      BY <2>2, SyncFacts
    <3> QED BY <1>1, <1>8, <1>15, <2>2, <3>1, PacketAll
  <2> QED BY <2>1, <2>2
<1>17. WireInv'
  BY <1>1, <1>2, <1>14, <1>16, WireStep
<1> QED BY <1>10, <1>11, <1>12, <1>17 DEF Synced

LEMMA DisconnectSync ==
  ASSUME SyncInv, Disconnect
  PROVE  Synced'
<1>1. /\ pc = "close" /\ pc' = "done" /\ Lost
      /\ UNCHANGED <<mode, st, reconnect, vN, last, block_store, last_block_hash, ping_counter, offers,
                     held, mark, node>>
  BY DEF Disconnect, appvars
<1>2. TestInv /\ EndInv /\ WireInv
  BY DEF SyncInv, Synced
<1>3. held = <<>> /\ ~reconnect
  BY <1>1, <1>2 DEF TestInv, EndInv, Sending
<1>4. TestInv' /\ SyncMeansProcessed'
  BY <1>1, <1>2, <1>3 DEF TestInv, SyncMeansProcessed
<1>5. EndInv'
  BY <1>1, <1>2, <1>3 DEF EndInv
<1>6. ~PingedAt(pc, held)
  BY <1>1 DEF PingedAt
<1>7. Later(Stage, Stage')
  BY <1>1, <1>2, <1>4, <1>5, <1>6, StageStep
<1>8. WireInv'
  BY <1>1, <1>2, <1>7, LostWire, WireStep
<1> QED BY <1>4, <1>5, <1>8 DEF Synced

(***************************************************************************)
(* Connecting.                                                             *)
(***************************************************************************)
LEMMA GreetingAll ==
  ASSUME mode.same \in 0 .. 2, NEW z \in Nat, NEW g
  PROVE  All("tell", NodeGreeting(z), g)
<1>1. CASE node.v2
  <2>1. NodeGreeting(z) = KeySyms(NodeKey, mode.same) \o [i \in 1 .. z |-> Garbage]
    BY <1>1 DEF NodeGreeting
  <2>2. KeyIs(NodeGreeting(z), NodeKey, mode.same, z)
    BY <2>1, KeyAre
  <2> QED BY <2>2, KeyAll
<1>2. CASE ~node.v2
  <2>1. MessageOf(NodeGreeting(z), 0, Version)
    BY <1>2 DEF NodeGreeting, MessageOf
  <2>2. Version.t \notin {"ping", "headers", "pong", "getdata"}
    BY DEF Version
  <2>3. Fit("tell", Version, 0, g)
    BY <2>2, PlainFit
  <2> QED BY <2>1, <2>3, PacketAll
<1> QED BY <1>1, <1>2

LEMMA ConnectSync ==
  ASSUME SyncInv, ConnectionMade
  PROVE  Synced'
<1>1. /\ pc = "connect" /\ transport' = "open"
      /\ pc' = IF mode.reconnect THEN "reconnect" ELSE "verack"
      /\ UNCHANGED <<mode, recvbuf, reconnect, toNode, last, block_store, last_block_hash,
                     ping_counter, offers, held, mark>>
  BY DEF ConnectionMade
<1>2. PICK z \in 0 .. MAX_GARBAGE_LEN :
        LET made == generate_keypair_and_garbage(st, 1, z) IN
        \/ /\ st' = made.st
           /\ queue' = <<made.bytes>>
           /\ node' = [node EXCEPT !.phase = "key"]
           /\ UNCHANGED <<vN, toPeer>>
        \/ /\ Queued(st, <<Version>>)
           /\ node' = [node EXCEPT !.phase = "ready"]
           /\ UNCHANGED toPeer
        \/ /\ toPeer' = NodeGreeting(z)
           /\ node' = [node EXCEPT !.phase = IF node.v2 THEN "key" ELSE "ready", !.garbage = z,
                                   !.sendN = IF node.v2 THEN 0 ELSE 1, !.hello = ~node.v2]
           /\ UNCHANGED <<st, queue, vN>>
  BY DEF ConnectionMade
<1> DEFINE made == generate_keypair_and_garbage(st, 1, z)
           ph == IF node.v2 THEN "key" ELSE "ready"
           no == IF node.v2 THEN 0 ELSE 1
           hi == ~node.v2
           a == [node EXCEPT !.phase = ph]
           b == [a EXCEPT !.garbage = z]
           c == [b EXCEPT !.sendN = no]
           e == [c EXCEPT !.hello = hi]
<1>3. \/ /\ st' = made.st /\ queue' = <<made.bytes>> /\ node' = [node EXCEPT !.phase = "key"]
         /\ UNCHANGED <<vN, toPeer>>
      \/ /\ Queued(st, <<Version>>) /\ node' = [node EXCEPT !.phase = "ready"] /\ UNCHANGED toPeer
      \/ /\ toPeer' = NodeGreeting(z) /\ node' = e /\ UNCHANGED <<st, queue, vN>>
  BY <1>2
<1>4. TestInv /\ EndInv /\ WireInv /\ z \in Nat /\ IsState(st)
  BY KeyAssumption, SyncFacts DEF SyncInv, Synced
<1>5. IsNode(e) /\ e.recvN = node.recvN
  <2> HIDE DEF ph, no, hi
  <2>0. IsNode(node)
    BY <1>4 DEF EndInv
  <2>1. IsNode(a) /\ a.recvN = node.recvN
    BY <2>0, NodeSet
  <2> HIDE DEF a
  <2>2. IsNode(b) /\ b.recvN = a.recvN
    BY <2>1, NodeSet
  <2> HIDE DEF b
  <2>3. IsNode(c) /\ c.recvN = b.recvN
    BY <2>2, NodeSet
  <2> HIDE DEF c
  <2>4. IsNode(e) /\ e.recvN = c.recvN
    BY <2>3, NodeSet
  <2> QED BY <2>1, <2>2, <2>3, <2>4
<1> HIDE DEF e
<1>6. IsNode(node') /\ node'.recvN = node.recvN
  <2>1. IsNode(node)
    BY <1>4 DEF EndInv
  <2>2. /\ IsNode([node EXCEPT !.phase = "key"]) /\ [node EXCEPT !.phase = "key"].recvN = node.recvN
        /\ IsNode([node EXCEPT !.phase = "ready"]) /\ [node EXCEPT !.phase = "ready"].recvN = node.recvN
    BY <2>1, NodeSet
  <2>3. \/ node' = [node EXCEPT !.phase = "key"] \/ node' = [node EXCEPT !.phase = "ready"] \/ node' = e
    BY <1>3
  <2> QED BY <1>5, <2>2, <2>3
<1>7. GenerateMade(st, made.st, 1, z)
  BY <1>4, GenerateFields
<1> HIDE DEF made
<1>8. HarmlessAll(<<Version>>)
  BY HarmlessOne DEF Harmless, Version
<1>9. /\ st'.sendN \in Int /\ vN' \in Int /\ IsSeq(st'.received_prefix) /\ Len(st'.received_prefix) <= 2
  <2>1. CASE st' = made.st /\ UNCHANGED vN
    BY <1>7, <2>1, SyncFacts DEF GenerateMade
  <2>2. CASE Queued(st, <<Version>>)
    BY <1>4, <1>8, <2>2, QueuedSync
  <2>3. CASE UNCHANGED <<st, vN>>
    BY <2>3, SyncFacts
  <2> QED BY <1>3, <2>1, <2>2, <2>3
<1>10. held = <<>>
  BY <1>1, <1>4 DEF TestInv, Sending
<1>11. TestInv' /\ SyncMeansProcessed'
  BY <1>1, <1>4, <1>10 DEF TestInv, SyncMeansProcessed
<1>12. EndInv'
  BY <1>1, <1>4, <1>6, <1>9 DEF EndInv
<1>13. ~PingedAt(pc, held)
  BY <1>1 DEF PingedAt
<1>14. Later(Stage, Stage')
  BY <1>1, <1>4, <1>11, <1>12, <1>13, StageStep
<1>15. queue' = queue \/ QueueAll(queue', Stage')
  <2>1. CASE queue' = <<made.bytes>>
    <3>1. IsSeq(queue') /\ Len(queue') = 1 /\ queue'[1] = made.bytes
      BY <2>1, OneSeq
    <3>2. All("ask", made.bytes, Stage')
      BY <1>4, GenerateBytes DEF made
    <3> QED BY <3>1, <3>2 DEF QueueAll
  <2>2. CASE Queued(st, <<Version>>)
    <3>1. QueueAll(queue', Stage)
      BY <1>4, <1>8, <2>2, QueuedSync
    <3> QED BY <1>14, <3>1, QueueLater
  <2> QED BY <1>3, <2>1, <2>2
<1>16. toPeer' = toPeer \/ All("tell", toPeer', Stage')
  BY <1>3, <1>4, GreetingAll DEF EndInv
<1>17. WireInv'
  BY <1>1, <1>4, <1>14, <1>15, <1>16, WireStep
<1> QED BY <1>11, <1>12, <1>17 DEF Synced

\* The node starts anew, before anything was sent to it.
LEMMA ReconnectSync ==
  ASSUME SyncInv, Reconnect, ~Over
  PROVE  Synced'
<1> DEFINE a == [NewNode(FALSE) EXCEPT !.phase = "ready"]
           b == [a EXCEPT !.sendN = 1]
           c == [b EXCEPT !.hello = TRUE]
<1>1. /\ transport = "lost" /\ reconnect /\ recvbuf' = <<>> /\ transport' = "open"
      /\ node' = c
      /\ toPeer' = <<Magic, TypeOf(Version), Payload(Version, 0)>>
      /\ UNCHANGED <<mode, st, queue, reconnect, vN, toNode, last, block_store, last_block_hash,
                     ping_counter, pc, offers, held, mark>>
  BY DEF Reconnect, appvars, testvars
<1>2. TestInv /\ EndInv /\ WireInv
  BY DEF SyncInv, Synced
<1>3. pc = "reconnect"
  BY <1>1, <1>2 DEF EndInv, TestInv, Over
<1>4. IsNode(c) /\ c.recvN = 0
  <2>1. IsNode(NewNode(FALSE)) /\ NewNode(FALSE).recvN = 0
    BY DEF IsNode, NewNode
  <2>2. IsNode(a) /\ a.recvN = 0
    BY <2>1, NodeSet
  <2> HIDE DEF a
  <2>3. IsNode(b) /\ b.recvN = a.recvN
    BY <2>2, NodeSet
  <2> HIDE DEF b
  <2>4. IsNode(c) /\ c.recvN = b.recvN
    BY <2>3, NodeSet
  <2> QED BY <2>2, <2>3, <2>4
<1> HIDE DEF c
<1>5. TestInv' /\ SyncMeansProcessed'
  BY <1>1, <1>2, <1>3 DEF TestInv, SyncMeansProcessed
<1>6. EndInv'
  BY <1>1, <1>2, <1>4 DEF EndInv
<1>7. ~PingedAt(pc, held)
  BY <1>3 DEF PingedAt
<1>8. Later(Stage, Stage')
  BY <1>1, <1>2, <1>5, <1>6, <1>7, StageStep
<1>9. All("tell", toPeer', Stage')
  <2>1. MessageOf(toPeer', 0, Version)
    BY <1>1 DEF MessageOf
  <2>2. Version.t \notin {"ping", "headers", "pong", "getdata"}
    BY DEF Version
  <2>3. Fit("tell", Version, 0, Stage')
    BY <2>2, PlainFit
  <2> QED BY <2>1, <2>3, PacketAll
<1>10. All("tell", recvbuf', Stage')
  BY <1>1, NothingAll
<1>11. WireInv'
  BY <1>1, <1>2, <1>8, <1>9, <1>10, WireStep
<1> QED BY <1>5, <1>6, <1>11 DEF Synced

LEMMA ModesAre ==
  ASSUME mode \in Modes
  PROVE  mode.same \in 0 .. 2 /\ (mode.reconnect => ~mode.out)
<1>1. \E x, y, s, o, v, w : /\ mode = Setup(o, v, w, s, x, y)
                            /\ s = 0 \/ s = 1
                            /\ o = TRUE \/ o = FALSE
  BY Zenon DEF Modes
<1>2. PICK x, y, s, o, v, w : /\ mode = Setup(o, v, w, s, x, y)
                              /\ s = 0 \/ s = 1
                              /\ o = TRUE \/ o = FALSE
  BY <1>1
<1> DEFINE r == ~o /\ ~v /\ w
<1>3. mode = [out |-> o, v2 |-> v, nodeV2 |-> w, same |-> s, extra |-> x, offer |-> y, reconnect |-> r]
  BY <1>2 DEF Setup
<1>4. r \in BOOLEAN /\ (r => ~o)
  OBVIOUS
<1> HIDE DEF r
<1>5. mode.same = s /\ mode.out = o /\ mode.reconnect = r
  BY <1>3
<1> QED BY <1>2, <1>4, <1>5

LEMMA SyncInit == Init => SyncInv
<1> SUFFICES ASSUME Init PROVE SyncInv
  OBVIOUS
<1>1. /\ mode \in Modes /\ transport = "none" /\ st = NewState(mode.out) /\ recvbuf = <<>>
      /\ queue = <<>> /\ reconnect = mode.reconnect /\ vN = 0 /\ toNode = <<>> /\ toPeer = <<>>
      /\ last = [version |-> FALSE, verack |-> FALSE, pong |-> -1]
      /\ block_store = Stored /\ last_block_hash = IF Stored = {} THEN 0 ELSE 1
      /\ ping_counter = 1 /\ offers = <<>> /\ pc = "connect" /\ held = <<>> /\ mark = 0
      /\ node = NewNode(mode.nodeV2)
  BY DEF Init, Helper
<1>2. mode.same \in 0 .. 2 /\ (mode.reconnect => ~mode.out)
  BY <1>1, ModesAre
<1>3. IsNode(node) /\ node.recvN = 0
  BY <1>1 DEF IsNode, NewNode
<1>4. st.sendN = 0 /\ st.received_prefix = <<>>
  BY <1>1 DEF NewState
<1>5. IsSeq(st.received_prefix) /\ Len(st.received_prefix) = 0
  BY <1>4, NothingSeq
<1>6. IsLast(last) /\ last.pong = -1 /\ ~last.version
  BY <1>1 DEF IsLast
<1>7. EndInv
  BY <1>1, <1>2, <1>3, <1>4, <1>5, <1>6 DEF EndInv
<1>8. TestInv /\ SyncMeansProcessed
  BY <1>1 DEF TestInv, SyncMeansProcessed, Stored
<1>9. Ponged(last.pong, Stage)
  <2> DEFINE p == PingedAt(pc, held)
  <2>1. p \in BOOLEAN /\ Stage = StageAt(1, p, 0, 0)
    BY <1>1, <1>3, PingedIs DEF Stage
  <2> HIDE DEF p
  <2> QED BY <1>6, <2>1, StageFields DEF Ponged
<1>10. QueueAll(queue, Stage)
  BY <1>1, NothingSeq DEF QueueAll
<1>11. WireInv
  BY <1>1, <1>9, <1>10, NothingAll DEF WireInv
<1> QED BY <1>7, <1>8, <1>11, PeerInit DEF SyncInv, Synced

LEMMA SyncNext == SyncInv /\ [Next]_vars => SyncInv'
<1> SUFFICES ASSUME SyncInv, [Next]_vars PROVE SyncInv'
  OBVIOUS
<1>1. PeerInv'
  BY PeerNext DEF SyncInv
<1>2. CASE UNCHANGED vars
  <2>1. /\ UNCHANGED <<mode, transport, st, recvbuf, queue, reconnect, vN, toNode, toPeer>>
        /\ UNCHANGED <<last, block_store, last_block_hash, ping_counter, pc, offers, held, mark, node>>
    BY <1>2 DEF vars, netvars, appvars, testvars
  <2>2. Stage' = Stage
    BY <2>1 DEF Stage
  <2>3. WireInv'
    BY <2>1, <2>2 DEF SyncInv, Synced, WireInv
  <2>4. TestInv' /\ EndInv' /\ SyncMeansProcessed'
    BY <2>1 DEF SyncInv, Synced, TestInv, EndInv, SyncMeansProcessed
  <2> QED BY <1>1, <2>3, <2>4 DEF SyncInv, Synced
<1>3. CASE Next
  <2> SUFFICES Synced'
    BY <1>1 DEF SyncInv
  <2>1. CASE NetworkThread /\ UNCHANGED <<appvars, testvars, node>>
    BY <2>1, WriteSync, RespondSync, CompleteSync, AuthenticateSync, OnDataSync, DataSync DEF NetworkThread
  <2>2. CASE TestThread
    BY <2>2, WaitSync, WaitReconnectSync, BuildSync, EnqueueSync, StoreSync, MempoolSync, DisconnectSync
       DEF TestThread
  <2>3. CASE NodeStep \/ NodeExtra
    BY <2>3, NodeKeySync, NodeTermSync, NodeReadsSync, NodeExtraSync DEF NodeStep
  <2>4. CASE ConnectionMade \/ Reconnect
    BY <1>3, <2>4, ConnectSync, ReconnectSync DEF Next
  <2>5. CASE OnMessage \/ AfterHandshake
    BY <2>5, MessageSync, AfterSync
  <2>6. CASE ConnectionLost /\ UNCHANGED <<appvars, testvars, node>>
    BY <2>6, LostSync
  <2> QED BY <1>3, <2>1, <2>2, <2>3, <2>4, <2>5, <2>6, Zenon DEF Next, Progress, Network
<1> QED BY <1>2, <1>3

\* sync_with_ping returns only when the node has read every message that either
\* thread sent before the ping, whatever the fragments, the answers under way
\* and the connection that is made anew.
THEOREM PongMeansProcessed == Spec => []SyncMeansProcessed
<1>1. SyncInv => SyncMeansProcessed
  BY DEF SyncInv, Synced
<1> QED BY <1>1, SyncInit, SyncNext, PTL DEF Spec
=============================================================================
