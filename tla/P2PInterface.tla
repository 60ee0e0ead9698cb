---------------------------- MODULE P2PInterface ----------------------------
(***************************************************************************)
(* src/miner_imports/test_framework/p2p.py: class P2PInterface with its    *)
(* message handlers, class P2PDataStore, and the test thread that opens a  *)
(* connection, waits for it, syncs with a ping, offers blocks with         *)
(* send_blocks_and_test and disconnects.  Handlers run in the network      *)
(* thread under p2p_lock, the test thread's conditions are evaluated under *)
(* it, and both send under _send_lock: the test thread holds that lock     *)
(* from building a message until it is queued.                             *)
(*                                                                         *)
(* The node at the other end (bitcoind) is external.  It speaks v1 or v2,  *)
(* answers messages in the order it gets them, and asks for the headers    *)
(* and the blocks it does not have.                                        *)
(***************************************************************************)
EXTENDS P2PConnection, FiniteSets

CONSTANTS
  Top,                   \* blocks are 1 .. Top; block b is built on b - 1
  MAX_HEADERS_RESULTS

ASSUME TopAssumption == Top \in Nat /\ Top > 1 /\ MAX_HEADERS_RESULTS \in Nat /\ MAX_HEADERS_RESULTS > 1

VARIABLES
  last,       \* last_message: have version and verack come, the nonce of the last pong
  hello,      \* on_connection_send_msg is not sent yet
  block_store, last_block_hash, getdata_requests,
  ping_counter,
  pc,         \* the test thread
  offers,     \* blocks or transactions that it has still to send
  held,       \* bytes it has built under _send_lock and not queued yet
  mark,       \* history: messages sent when the last ping was built, it included
  node        \* external

appvars == <<last, hello, block_store, last_block_hash, getdata_requests>>
testvars == <<ping_counter, pc, offers, held, mark>>
vars == <<netvars, appvars, testvars, node>>

Msg(t) == [t |-> t]
Ping(n) == [t |-> "ping", n |-> n]
Pong(n) == [t |-> "pong", n |-> n]
Listing(t, b) == [t |-> t, b |-> b]      \* headers, getdata, getheaders (locator), block

\* The blocks of send_blocks_and_test, or the transactions of send_txs_and_test;
\* with "stored" block 1 is in the store already.
Stored == IF mode.offer = "stored" THEN {1} ELSE {}
Offered == (1 .. IF mode.offer = "stored" THEN Top ELSE Lesser(Top, MAX_HEADERS_RESULTS)) \ Stored
Ascending(S) == [i \in 1 .. Cardinality(S) |-> CHOOSE x \in S : Cardinality({y \in S : y <= x}) = i]

NewNode(v) ==
  [v2 |-> v, phase |-> "closed", session |-> NoSession, garbage |-> 0, aad |-> 0, sendN |-> 0,
   recvN |-> 0, hello |-> FALSE, up |-> FALSE, extra |-> FALSE, headers |-> {0},
   blocks |-> {0}, pool |-> {}, bad |-> FALSE]

Init ==
  /\ mode \in Modes
  /\ Helper
  /\ last = [version |-> FALSE, verack |-> FALSE, pong |-> -1]
  /\ hello = TRUE
  /\ block_store = Stored
  /\ last_block_hash = IF Stored = {} THEN 0 ELSE 1
  /\ getdata_requests = {}
  /\ ping_counter = 1
  /\ offers = <<>>
  /\ pc = "connect"
  /\ held = <<>>
  /\ mark = 0
  /\ node = NewNode(mode.nodeV2)

Over == pc \in {"done", "failed"}     \* NetworkThread.close stops the event loop

----------------------------------------------------------------------------
(* Handlers. *)

\* on_getheaders: back from the last block to one of the locator, or as far as
\* the store goes (hashstop is 0); then headers_list[:-MAX_HEADERS_RESULTS - 1:-1]
\* of that list, which are the oldest of them.
HeadersFor(locator) ==
  LET stop == Max({b \in 0 .. last_block_hash : b \in locator \/ b - 1 \notin block_store})
  IN [i \in 1 .. Lesser(last_block_hash - stop + 1, MAX_HEADERS_RESULTS) |-> stop + i - 1]

\* Mutant: an accepted connection does not send its version.
VersionReply_NoVersion ==
  <<Msg("wtxidrelay"), Msg("verack")>> \o (IF mode.out THEN <<Msg("getaddr")>> ELSE <<>>)

\* on_version: an accepted connection answers with its own version.
VersionReply ==
  (IF ~mode.out /\ hello THEN <<Version>> ELSE <<>>) \o <<Msg("wtxidrelay"), Msg("verack")>>
  \o (IF mode.out THEN <<Msg("getaddr")>> ELSE <<>>)

\* What the on_... handler of a message sends.
Reply(m) ==
  CASE m.t = "version" -> VersionReply
    [] m.t = "ping" -> <<Pong(m.n)>>
    [] m.t = "inv" -> <<Listing("getdata", <<>>)>>
    [] m.t = "getdata" -> [i \in 1 .. Len(m.b) |-> Listing("block", <<m.b[i]>>)]
    [] m.t = "getheaders" /\ block_store # {} -> <<Listing("headers", HeadersFor(ToSet(m.b)))>>
    [] OTHER -> <<>>

\* Mutant: a handler sends although the test thread holds the lock.
MayReply_NoLock(m) == TRUE

\* A handler that sends waits for _send_lock.
MayReply(m) == Reply(m) # <<>> => held = <<>>

\* send_message of each of msgs, by the thread that holds _send_lock.
Queued(s, msgs) ==
  /\ st' = SentState(s, msgs)
  /\ vN' = SentV1(msgs)
  /\ queue' = queue \o Built(msgs)

\* A turn of _on_data that ends in on_message and the handler.  Blocks that are
\* not in the store are not sent.
OnMessage ==
  /\ callback = "data"
  /\ Frame.is = "message"
  /\ LET m == Frame.m
         known == IF m.t = "getdata" THEN ToSet(m.b) \subseteq block_store ELSE TRUE
     IN /\ MayReply(m)
        /\ Queued(Frame.st, IF known THEN Reply(m) ELSE <<>>)
        /\ recvbuf' = Drop(recvbuf, Frame.length)
        /\ gotN' = gotN + 1
        /\ quirks' = IF ~v2 /\ recvbuf[3].n # gotN THEN quirks \cup {"order"} ELSE quirks
        /\ last' = CASE m.t = "version" -> [last EXCEPT !.version = TRUE]
                     [] m.t = "verack" -> [last EXCEPT !.verack = TRUE]
                     [] m.t = "pong" -> [last EXCEPT !.pong = m.n]
                     [] OTHER -> last
        /\ reconnect' = IF m.t = "version" /\ ~mode.out THEN FALSE ELSE reconnect
        /\ hello' = IF m.t = "version" /\ ~mode.out THEN FALSE ELSE hello
        /\ getdata_requests' = IF m.t = "getdata" THEN getdata_requests \cup ToSet(m.b)
                               ELSE getdata_requests
  /\ UNCHANGED <<mode, transport, v2, callback, toNode, toPeer, err, block_store, last_block_hash, testvars, node>>

\* Mutant: what came with the end of the handshake waits for the next data.
AfterHandshake_LeavesRest ==
  /\ callback = "tried"
  /\ held = <<>>
  /\ IF mode.out /\ hello
     THEN Queued(st, <<Version>>) /\ hello' = FALSE
     ELSE UNCHANGED <<st, vN, queue, hello>>
  /\ callback' = "idle"
  /\ UNCHANGED <<mode, transport, v2, recvbuf, reconnect, gotN, toNode, toPeer, err, quirks,
                 last, block_store, last_block_hash, getdata_requests, testvars, node>>

\* The end of _on_data_v2_handshake: the version is sent by the side that
\* connected, and what is left in the buffer is read.
AfterHandshake ==
  /\ callback = "tried"
  /\ held = <<>>
  /\ IF mode.out /\ hello
     THEN Queued(st, <<Version>>) /\ hello' = FALSE
     ELSE UNCHANGED <<st, vN, queue, hello>>
  /\ callback' = IF recvbuf # <<>> THEN "data" ELSE "idle"
  /\ UNCHANGED <<mode, transport, v2, recvbuf, reconnect, gotN, toNode, toPeer, err, quirks,
                 last, block_store, last_block_hash, getdata_requests, testvars, node>>
=============================================================================
