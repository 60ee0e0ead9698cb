---------------------------- MODULE P2PConnection ---------------------------
(***************************************************************************)
(* src/miner_imports/test_framework/p2p.py, class P2PConnection: the       *)
(* callbacks that the network thread's event loop runs for one connection, *)
(* and what send_message leaves for that loop to write.  One turn of a     *)
(* loop in a callback is one step, so that the test thread can run in      *)
(* between; the event loop runs nothing else until the callback returns.   *)
(***************************************************************************)
EXTENDS EncryptedP2PState

VARIABLES
  mode,      \* how this connection is set up
  transport, \* "none", "open", or "lost" once connection_lost has run
  v2,        \* supports_v2_p2p: v2_state is not None
  st,        \* v2_state
  recvbuf,
  callback,  \* what the event loop is in: "idle" or a part of data_received
  queue,     \* maybe_write callbacks that wait in the event loop
  reconnect, \* self.reconnect
  vN, gotN,  \* history: v1 messages sent, messages given to on_message
  toNode, toPeer,     \* the two directions of the socket
  err,       \* history: why data_received raised, or "none"
  quirks     \* history: see the properties

netvars == <<mode, transport, v2, st, recvbuf, callback, queue, reconnect, vN, gotN,
             toNode, toPeer, err, quirks>>

\* How a connection is set up.  out: this side connects (dstport # 0).  v2,
\* nodeV2: what either side speaks.  same: leading symbols of the node's key
\* that look like v1.  extra: what the node says unasked.  offer: what the
\* test sends it.
Setup(out, peerV2, nodeV2, same, extra, offer) ==
  [out |-> out, v2 |-> peerV2, nodeV2 |-> nodeV2, same |-> same, extra |-> extra, offer |-> offer,
   reconnect |-> ~out /\ ~peerV2 /\ nodeV2]

Modes ==
  {Setup(TRUE, FALSE, FALSE, 0, "talk", "stored"), Setup(TRUE, TRUE, TRUE, 0, "talk", "headers"),
   Setup(TRUE, TRUE, TRUE, 0, "decoy", "stored"), Setup(FALSE, FALSE, FALSE, 0, "talk", "txs"),
   Setup(FALSE, TRUE, TRUE, 0, "decoy", "force"), Setup(FALSE, TRUE, TRUE, 1, "decoy", "txs"),
   Setup(FALSE, TRUE, FALSE, 0, "talk", "headers"), Setup(FALSE, FALSE, TRUE, 0, "talk", "headers")}

NodeKey == 9
Keys == {1, 2, NodeKey}
FreshKey == IF st.privkey = NoKey THEN 1 ELSE 2

\* peer_connect_helper
Helper ==
  /\ transport = "none"
  /\ v2 = mode.v2
  /\ st = NewState(mode.out)
  /\ recvbuf = <<>>
  /\ callback = "idle"
  /\ queue = <<>>
  /\ reconnect = mode.reconnect
  /\ vN = 0
  /\ gotN = 0
  /\ toNode = <<>>
  /\ toPeer = <<>>
  /\ err = "none"
  /\ quirks = {}

\* build_message for a sequence of messages: the bytes of each, and the state
\* of the cipher after the last.
Built(msgs) ==
  IF v2 THEN [i \in 1 .. Len(msgs) |->
                v2_enc_packet([st EXCEPT !.sendN = @ + i - 1], msgs[i], 0).bytes]
  ELSE [i \in 1 .. Len(msgs) |-> <<Magic, TypeOf(msgs[i]), Payload(msgs[i], vN + i - 1)>>]

SentState(s, msgs) == IF v2 THEN [s EXCEPT !.sendN = @ + Len(msgs)] ELSE s
SentV1(msgs) == IF v2 THEN vN ELSE vN + Len(msgs)

\* One maybe_write: nothing is written once the transport is gone.
Write ==
  /\ callback = "idle"
  /\ queue # <<>>
  /\ queue' = Tail(queue)
  /\ toNode' = IF transport = "open" THEN toNode \o Head(queue) ELSE toNode
  /\ UNCHANGED <<mode, transport, v2, st, recvbuf, callback, reconnect, vN, gotN, toPeer, err, quirks>>

\* data_received for the first symbol that the socket has, or for all of them.
DataReceived(k) ==
  /\ callback = "idle"
  /\ transport = "open"
  /\ k \in {1, Len(toPeer)} \cap 1 .. Len(toPeer)
  /\ recvbuf' = recvbuf \o SubSeq(toPeer, 1, k)
  /\ toPeer' = Drop(toPeer, k)
  /\ callback' = IF ~v2 \/ st.tried THEN "data"
                 ELSE IF st.session # NoSession THEN "auth"
                 ELSE IF ~st.initiating /\ st.sent_garbage = 0 THEN "respond" ELSE "complete"
  /\ UNCHANGED <<mode, transport, v2, st, queue, reconnect, vN, gotN, toNode, err, quirks>>

\* _on_data_v2_handshake, the responder's first part.  `not sent_garbage` is
\* meant as "not yet answered": after an answer with no garbage it is true again.
Respond ==
  /\ callback = "respond"
  /\ LET r == respond_v2_handshake(st, recvbuf) IN
       /\ recvbuf' = Drop(recvbuf, Lesser(r.length, Len(recvbuf)))
       /\ \E g \in 0 .. MAX_GARBAGE_LEN :
            LET made == generate_keypair_and_garbage(r.st, FreshKey, g) IN
            \/ /\ r.answer = "v2"
               /\ st' = made.st
               /\ queue' = Append(queue, made.bytes)
               /\ callback' = "complete"
               /\ UNCHANGED v2
            \/ /\ r.answer # "v2"
               /\ g = 0
               /\ st' = r.st
               /\ v2' = (r.answer = "wait")
               /\ callback' = "idle"
               /\ UNCHANGED queue
       /\ quirks' = quirks \cup (IF r.lost THEN {"prefix"} ELSE {})
                           \cup (IF r.answer = "v1" THEN {"downgrade"} ELSE {})
                           \cup (IF r.answer = "v2" /\ st.privkey # NoKey THEN {"key"} ELSE {})
  /\ UNCHANGED <<mode, transport, reconnect, vN, gotN, toNode, toPeer, err>>

\* _on_data_v2_handshake: complete_handshake
Complete ==
  /\ callback = "complete"
  /\ \E d \in 0 .. 1 :
       LET r == complete_handshake(st, recvbuf, d, Keys, mode.same) IN
         /\ r.bytes = <<>> => d = 0
         /\ st' = r.st
         /\ recvbuf' = Drop(recvbuf, r.length)
         /\ queue' = IF r.bytes = <<>> THEN queue ELSE Append(queue, r.bytes)
         /\ callback' = IF r.bytes = <<>> THEN "idle" ELSE "auth"
  /\ UNCHANGED <<mode, transport, v2, reconnect, vN, gotN, toNode, toPeer, err, quirks>>

\* connection_lost: the writes that are queued find no transport.
Lost ==
  /\ transport' = "lost"
  /\ recvbuf' = <<>>
  /\ callback' = "idle"
  /\ queue' = <<>>
  /\ toPeer' = <<>>
  /\ toNode' = <<>>

\* An exception in data_received closes the transport.
Raise(why) == err' = why /\ Lost

\* _on_data_v2_handshake: authenticate_handshake, one packet at a time.
Authenticate ==
  /\ callback = "auth"
  /\ LET r == IF st.found THEN AuthPacket(st, recvbuf) ELSE FindTerminator(st, recvbuf)
         again == IF st.found THEN r.more ELSE r.length > 0
     IN /\ st' = r.st
        /\ IF r.ok
           THEN /\ recvbuf' = Drop(recvbuf, r.length)
                /\ callback' = IF again THEN "auth" ELSE IF r.st.tried THEN "tried" ELSE "idle"
                /\ UNCHANGED <<err, transport, queue, toPeer, toNode>>
           ELSE Raise("mac")
  /\ UNCHANGED <<mode, v2, reconnect, vN, gotN, quirks>>

\* The other end is gone: connection_lost.
ConnectionLost ==
  /\ transport = "open"
  /\ callback = "idle"
  /\ Lost
  /\ quirks' = quirks \cup {"cut"}
  /\ UNCHANGED <<mode, v2, st, reconnect, vN, gotN, err>>

\* What one turn of the loop in _on_data finds in the buffer: a message, a
\* decoy, not enough, or something that raises.
Frame ==
  IF v2
  THEN LET r == v2_receive_packet(st, recvbuf, 0) IN
       [st |-> r.st, length |-> IF r.length > 0 THEN r.length ELSE 0, m |-> r.m,
        is |-> IF r.length = -1 THEN "mac" ELSE IF r.length = 0 THEN "more"
               ELSE IF r.m = Decoy THEN "decoy" ELSE "message"]
  ELSE [st |-> st, length |-> 3,
        m |-> IF Len(recvbuf) >= 3 /\ recvbuf[3].k = "payload" THEN recvbuf[3].m ELSE Decoy,
        is |-> IF Len(recvbuf) = 0 THEN "more" ELSE IF recvbuf[1] # Magic THEN "magic"
               ELSE IF Len(recvbuf) < 3 THEN "more" ELSE "message"]

\* The turns of _on_data that leave it.  A decoy also does, whatever is behind
\* it in the buffer.
OnDataEnds ==
  /\ callback = "data"
  /\ Frame.is \in {"more", "decoy", "mac", "magic"}
  /\ st' = Frame.st
  /\ IF Frame.is \in {"more", "decoy"}
     THEN /\ recvbuf' = IF Frame.is = "decoy" THEN Drop(recvbuf, Frame.length) ELSE recvbuf
          /\ callback' = "idle"
          /\ quirks' = IF Frame.is = "decoy" THEN quirks \cup {"decoy"} ELSE quirks
          /\ UNCHANGED <<err, transport, queue, toPeer, toNode>>
     ELSE Raise(Frame.is) /\ UNCHANGED quirks
  /\ UNCHANGED <<mode, v2, reconnect, vN, gotN>>

NetworkThread == Write \/ Respond \/ Complete \/ Authenticate \/ OnDataEnds
                 \/ \E k \in 1 .. Len(toPeer) : DataReceived(k)
=============================================================================
