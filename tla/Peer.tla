-------------------------------- MODULE Peer --------------------------------
(***************************************************************************)
(* The connection of P2PInterface composed with the test thread that uses  *)
(* it and the node at its other end.                                       *)
(***************************************************************************)
EXTENDS P2PInterface

----------------------------------------------------------------------------
(* Connecting. *)

\* What the node writes first when it is the side that connects.
NodeGreeting(g) ==
  IF node.v2 THEN KeySyms(NodeKey, mode.same) \o [i \in 1 .. g |-> Garbage]
  ELSE <<Magic, TypeOf(Version), Payload(Version, 0)>>

\* connection_made.  This side connects (peer_connect), or the node does and
\* NetworkThread.listen's protocol is used (peer_accept_connection).
ConnectionMade ==
  /\ transport = "none"
  /\ pc = "connect"
  /\ transport' = "open"
  /\ pc' = IF mode.reconnect THEN "reconnect" ELSE "verack"
  /\ \E g \in 0 .. MAX_GARBAGE_LEN :
       LET made == generate_keypair_and_garbage(st, 1, g) IN
       \/ /\ mode.out /\ v2
          /\ st' = made.st
          /\ queue' = <<made.bytes>>
          /\ node' = [node EXCEPT !.phase = "key"]
          /\ UNCHANGED <<vN, hello, toPeer>>
       \/ /\ mode.out /\ ~v2 /\ g = 0
          /\ Queued(st, <<Version>>)
          /\ hello' = FALSE
          /\ node' = [node EXCEPT !.phase = "ready"]
          /\ UNCHANGED toPeer
       \/ /\ ~mode.out /\ (node.v2 \/ g = 0)
          /\ toPeer' = NodeGreeting(g)
          /\ node' = [node EXCEPT !.phase = IF node.v2 THEN "key" ELSE "ready", !.garbage = g,
                                  !.sendN = IF node.v2 THEN 0 ELSE 1, !.hello = ~node.v2]
          /\ UNCHANGED <<st, queue, vN, hello>>
  /\ UNCHANGED <<mode, v2, recvbuf, callback, reconnect, gotN, toNode, err, quirks,
                 last, block_store, last_block_hash, getdata_requests, ping_counter, offers, held, mark>>

\* The v2 bytes of the node made the v1 connection raise; the node connects once
\* more with v1, and protos still has the protocol because of `reconnect`.
Reconnect ==
  /\ transport = "lost" /\ reconnect /\ err = "magic"
  /\ node.v2
  /\ transport' = "open"
  /\ err' = "none"
  /\ recvbuf' = <<>>
  /\ node' = [NewNode(FALSE) EXCEPT !.phase = "ready", !.sendN = 1, !.hello = TRUE]
  /\ toPeer' = <<Magic, TypeOf(Version), Payload(Version, 0)>>
  /\ UNCHANGED <<mode, v2, st, callback, queue, reconnect, vN, gotN, toNode, quirks, appvars, testvars>>

----------------------------------------------------------------------------
(* The test thread. *)

Calm == UNCHANGED <<netvars, appvars, node>>

\* The step of the test thread after the one that pc names.
After ==
  CASE pc = "verack" -> "ping1" [] pc = "ping1" -> "ping1n" [] pc = "ping1n" -> "pong1"
    [] pc = "pong1" -> "store"
    [] pc = "headers" -> "getdata" [] pc = "getdata" -> "ping2"
    [] pc = "send" -> IF Len(offers) > 1 THEN "send" ELSE "ping2"
    [] pc = "ping2" -> "ping2n" [] pc = "ping2n" -> "pong2"
    [] pc = "pong2" -> IF mode.offer = "txs" THEN "mempool" ELSE "tip"
    [] pc = "tip" -> "close"

\* A wait_until with check_connected: its assertion fails on a lost
\* connection.  Its deadline only ends the test and is left out.
Waits == {"verack", "pong1", "getdata", "pong2", "tip"}

\* Mutant: any pong ends sync_with_ping.
Holds_AnyPong ==
  CASE pc = "verack" -> last.verack /\ (v2 => st.tried)
    [] pc \in {"pong1", "pong2"} -> last.pong # -1
    [] pc = "getdata" -> Max(Offered) \in getdata_requests
    [] pc = "tip" -> Max(Offered) \in node.blocks

\* Mutant: any block that the node asks for ends the wait for the last.
Holds_AnyBlock ==
  CASE pc = "verack" -> last.verack /\ (v2 => st.tried)
    [] pc \in {"pong1", "pong2"} -> last.pong = ping_counter
    [] pc = "getdata" -> Offered \cap getdata_requests # {}
    [] pc = "tip" -> Max(Offered) \in node.blocks

Holds ==
  CASE pc = "verack" -> last.verack /\ (v2 => st.tried)
    [] pc \in {"pong1", "pong2"} -> last.pong = ping_counter
    [] pc = "getdata" -> Max(Offered) \in getdata_requests
    [] pc = "tip" -> Max(Offered) \in node.blocks

WaitUntil ==
  /\ pc \in Waits
  /\ \/ transport = "open" /\ Holds /\ pc' = After
     \/ transport # "open" /\ pc' = "failed"
  /\ ping_counter' = IF pc \in {"pong1", "pong2"} /\ pc' # "failed" THEN ping_counter + 1 ELSE ping_counter
  /\ Calm
  /\ UNCHANGED <<offers, held, mark>>

\* wait_for_reconnect; when nobody connects again its deadline passes.
WaitForReconnect ==
  /\ pc = "reconnect"
  /\ \/ transport = "open" /\ last.version /\ ~v2 /\ pc' = "verack"
     \/ transport = "lost" /\ err = "none" /\ pc' = "failed"
  /\ Calm
  /\ UNCHANGED <<ping_counter, offers, held, mark>>

\* send_message, first half: takes _send_lock and builds the message.
Build(m) ==
  /\ held = <<>>
  /\ held' = Built(<<m>>)[1]
  /\ st' = SentState(st, <<m>>)
  /\ vN' = SentV1(<<m>>)
  /\ UNCHANGED <<mode, transport, v2, recvbuf, callback, queue, reconnect, gotN, toNode, toPeer, err, quirks, node>>

\* What the test thread sends at each of its steps.
ToSend ==
  CASE pc \in {"ping1", "ping2"} -> Ping(0)
    [] pc \in {"ping1n", "ping2n"} -> Ping(ping_counter)
    [] pc = "headers" -> Listing("headers", offers)
    [] pc = "send" -> Listing(IF mode.offer = "txs" THEN "tx" ELSE "block", <<Head(offers)>>)

SendBuild ==
  /\ pc \in {"ping1", "ping1n", "headers", "send", "ping2", "ping2n"}
  /\ Build(ToSend)
  /\ mark' = IF v2 THEN st'.sendN ELSE vN'
  /\ UNCHANGED <<appvars, ping_counter, pc, offers>>

\* send_raw_message: call_soon_threadsafe, or an IOError on a lost connection.
SendEnqueue ==
  /\ held # <<>>
  /\ held' = <<>>
  /\ \/ transport = "open" /\ queue' = Append(queue, held) /\ pc' = After
     \/ transport # "open" /\ UNCHANGED queue /\ pc' = "failed"
  /\ offers' = IF pc = "send" THEN Tail(offers) ELSE offers
  /\ UNCHANGED <<mode, transport, v2, st, recvbuf, callback, reconnect, vN, gotN, toNode, toPeer,
                 err, quirks, appvars, ping_counter, mark, node>>

\* The stores of send_blocks_and_test and send_txs_and_test, under p2p_lock;
\* then a headers message, or with force_send the blocks themselves.
Store ==
  /\ pc = "store"
  /\ pc' = IF mode.offer \in {"txs", "force"} THEN "send" ELSE "headers"
  /\ offers' = Ascending(Offered)
  /\ IF mode.offer = "txs" THEN UNCHANGED <<block_store, last_block_hash>>
     ELSE block_store' = block_store \cup Offered /\ last_block_hash' = Max(Offered)
  /\ UNCHANGED <<netvars, last, hello, getdata_requests, ping_counter, held, mark, node>>

\* send_txs_and_test: getrawmempool is asked once and has to have them all.
Mempool ==
  /\ pc = "mempool"
  /\ pc' = IF Offered \subseteq node.pool THEN "close" ELSE "failed"
  /\ Calm
  /\ UNCHANGED <<ping_counter, offers, held, mark>>

\* peer_disconnect: abort in the event loop, then wait_for_disconnect.
Disconnect ==
  /\ pc = "close"
  /\ callback = "idle"
  /\ pc' = "done"
  /\ Lost
  /\ UNCHANGED <<mode, v2, st, reconnect, vN, gotN, err, quirks, appvars, ping_counter, offers, held, mark, node>>

TestThread ==
  WaitUntil \/ WaitForReconnect \/ SendBuild \/ SendEnqueue \/ Store \/ Mempool \/ Disconnect
----------------------------------------------------------------------------
(* The node (external). *)

NodeSide == IF mode.out THEN "responder" ELSE "initiator"
PeerSide == IF mode.out THEN "initiator" ELSE "responder"

\* The bytes of messages that the node in state nd sends.
NodeBytes(nd, msgs) ==
  LET num(i) == nd.sendN + i - 1
      packet(i) == <<LenSym(nd.session, NodeSide, num(i)), BodySym(nd.session, NodeSide, num(i), 0, msgs[i])>>
      message(i) == <<Magic, TypeOf(msgs[i]), Payload(msgs[i], num(i))>>
  IN IF nd.v2 THEN Joined(Len(msgs), 2, packet) ELSE Joined(Len(msgs), 3, message)

NodeSends(nd, msgs) ==
  /\ node' = [nd EXCEPT !.sendN = @ + Len(msgs)]
  /\ toPeer' = toPeer \o NodeBytes(nd, msgs)

NodeOnly == UNCHANGED <<mode, transport, v2, st, recvbuf, callback, queue, reconnect, vN, gotN,
                        err, quirks, appvars, testvars>>

\* The key has come: the node answers with what is left of its own opening.
NodeKeyRead ==
  /\ node.phase = "key"
  /\ Len(toNode) >= KEY_LEN
  /\ \E g \in 0 .. MAX_GARBAGE_LEN, d \in 0 .. 1 :
       LET theirs == KeyOf(SubSeq(toNode, 1, KEY_LEN), Keys, 0)
           me == [NewState(~mode.out) EXCEPT !.sent_garbage = IF mode.out THEN g ELSE node.garbage,
                    !.session = IF mode.out THEN <<theirs, NodeKey>> ELSE <<NodeKey, theirs>>]
       IN /\ ~mode.out => g = 0
          /\ toPeer' = toPeer
               \o (IF mode.out THEN KeySyms(NodeKey, 0) \o [i \in 1 .. g |-> Garbage] ELSE <<>>)
               \o Opening(me, d)
          /\ node' = [node EXCEPT !.session = me.session, !.sendN = d + 1, !.phase = "term"]
  /\ toNode' = Drop(toNode, KEY_LEN)
  /\ NodeOnly

NodeTerm ==
  /\ node.phase = "term"
  /\ \E i \in 1 .. Len(toNode) :
       /\ toNode[i] = Term(node.session, PeerSide)
       /\ toNode' = Drop(toNode, i)
       /\ node' = [node EXCEPT !.aad = i - 1, !.phase = "auth"]
  /\ UNCHANGED toPeer
  /\ NodeOnly

\* What the node answers to a message, and what it then knows.
NodeAnswer(m) ==
  CASE m.t = "version" -> (IF node.hello THEN <<>> ELSE <<Version>>) \o <<Msg("verack")>>
    [] m.t = "ping" -> <<Pong(m.n)>>
    [] m.t = "headers" ->
         IF \A i \in 1 .. Len(m.b) : m.b[i] - 1 \in node.headers \cup ToSet(m.b) /\ m.b[1] - 1 \in node.headers
         THEN (IF ToSet(m.b) \subseteq node.headers THEN <<>>
               ELSE <<Listing("getdata", Ascending(ToSet(m.b) \ node.headers))>>)
              \o (IF Len(m.b) = MAX_HEADERS_RESULTS THEN <<Listing("getheaders", <<m.b[Len(m.b)]>>)>> ELSE <<>>)
         ELSE <<Listing("getheaders", <<Max(node.headers)>>)>>
    [] OTHER -> <<>>

NodeKnows(m) ==
  CASE m.t = "version" -> [node EXCEPT !.hello = TRUE]
    [] m.t = "verack" -> [node EXCEPT !.up = TRUE]
    [] m.t = "headers" /\ m.b[1] - 1 \in node.headers -> [node EXCEPT !.headers = @ \cup ToSet(m.b)]
    [] m.t = "block" /\ m.b[1] - 1 \in node.blocks -> [node EXCEPT !.blocks = @ \cup ToSet(m.b)]
    [] m.t = "tx" -> [node EXCEPT !.pool = @ \cup ToSet(m.b)]
    [] OTHER -> node

\* The next whole packet or message; one that is out of place is bad.
NodeReads ==
  /\ node.phase \in {"auth", "ready"}
  /\ ~node.bad
  /\ LET size == IF node.v2 THEN 2 ELSE 3
         body == toNode[size]
         good == IF node.v2
                 THEN /\ toNode[1] = LenSym(node.session, PeerSide, node.recvN)
                      /\ body = BodySym(node.session, PeerSide, node.recvN, node.aad, body.m)
                 ELSE toNode[1] = Magic /\ body = Payload(body.m, node.recvN)
     IN /\ Len(toNode) >= size
        /\ toNode' = Drop(toNode, size)
        /\ IF ~good THEN node' = [node EXCEPT !.bad = TRUE] /\ UNCHANGED toPeer
           ELSE LET nd == [NodeKnows(body.m) EXCEPT !.recvN = @ + 1, !.aad = 0,
                             !.phase = IF body.m = Empty THEN "ready" ELSE @]
                IN IF body.m = Empty /\ ~mode.out
                   THEN NodeSends([nd EXCEPT !.hello = TRUE], <<Version>>)
                   ELSE NodeSends(nd, NodeAnswer(body.m))
  /\ NodeOnly

\* Unasked: a ping and an announcement after the verack, or a decoy packet.
NodeExtra ==
  /\ node.phase = "ready" /\ node.hello /\ ~node.extra
  /\ mode.extra = "talk" => node.up
  /\ NodeSends([node EXCEPT !.extra = TRUE],
       IF mode.extra = "decoy" THEN <<Decoy>> ELSE <<Ping(7), Msg("inv")>>)
  /\ UNCHANGED toNode
  /\ NodeOnly

NodeStep == NodeKeyRead \/ NodeTerm \/ NodeReads

----------------------------------------------------------------------------
Network == \/ NetworkThread /\ UNCHANGED <<appvars, testvars, node>>
           \/ OnMessage \/ AfterHandshake

Progress ==
  \/ ConnectionMade \/ Reconnect
  \/ Network
  \/ TestThread
  \/ transport = "open" /\ NodeStep

Next ==
  /\ ~Over
  /\ \/ Progress
     \/ ConnectionLost /\ UNCHANGED <<appvars, testvars, node>>
     \/ transport = "open" /\ NodeExtra

\* Something that can go on does: the threads run, the node answers and the
\* socket delivers.  No step is taken for ever, so nothing more is needed.
Fairness == WF_vars(~Over /\ Progress)

Spec == Init /\ [][Next]_vars /\ Fairness

----------------------------------------------------------------------------
(* Properties.  Four things go wrong without a wrong byte on the wire, and  *)
(* are recorded in quirks: "prefix", respond_v2_handshake returns the       *)
(* length of all it has ever read as consumed, so the first bytes of the    *)
(* next fragment are cut off unread; "downgrade", the 16 bytes it read are  *)
(* gone when it decides for v1, and the rest is not read then; "key", after an answer without garbage it   *)
(* makes another key pair when the next fragment comes; "decoy", _on_data   *)
(* returns at a decoy and leaves what is behind it for the next fragment.   *)

\* What either end sends, whatever the fragments it comes in and however the
\* two threads' messages interleave, is what the other reads, in order: a
\* connection raises, or the node sees a wrong packet, only after a quirk, or on
\* the first v2 bytes of a node that will connect again with v1.
NoFalseAlarm ==
  ("order" \in quirks \/ err # "none" \/ node.bad) =>
       \/ quirks \cap {"prefix", "downgrade", "key"} # {}
       \/ mode.reconnect /\ reconnect /\ err = "magic" /\ ~node.bad

\* sync_with_ping ("Ensure ProcessMessages and SendMessages is called on this
\* connection"): when it returns, the node has processed every message that was
\* sent before the ping, from either thread.
SyncMeansProcessed ==
  pc \in {"store", "mempool", "tip", "close"} => node.recvN >= mark

\* After the sync, send_blocks_and_test and send_txs_and_test find what they
\* have offered: the node has every block, also the one its headers did not
\* connect to, and every transaction, without another wait.
OfferArrives ==
  /\ pc = "tip" => Offered \cup Stored \subseteq node.blocks
  /\ pc = "mempool" => Offered \subseteq node.pool

\* A whole message does not stay in recvbuf while nothing else is to come,
\* unless a decoy or the decision for v1 was in front of it.
NothingLeftBehind ==
  transport = "open" /\ callback = "idle" /\ toPeer = <<>> /\ (v2 => st.tried)
    => Frame.is \in {"more", "magic"} \/ quirks \cap {"decoy", "downgrade"} # {}

\* A test whose connection is not cut passes, without a wait running into its
\* deadline, unless it meets a quirk.
TestPasses == <>(pc = "done" \/ quirks # {})
=============================================================================
