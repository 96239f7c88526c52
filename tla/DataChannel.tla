----------------------------- MODULE DataChannel -----------------------------
(***************************************************************************)
(* One data channel on the node (handleOffer and bridge in node/main.go):   *)
(* pion's read loop with the OnMessage and OnClose callbacks, the command   *)
(* loop started by OnOpen, and the two copying goroutines of bridge().      *)
(* They share buf, dc and conn and no lock.                                 *)
(*                                                                         *)
(* Messages of the client are numbered as they are sent, and so are the      *)
(* chunks of the service, as the reads of the node return them; the content   *)
(* of a message matters only to the command loop.  Secrets are model values: a Key        *)
(* stands for the client's random and for the hash that commits to it, and  *)
(* the node's random is the number of the challenge it was made for.        *)
(***************************************************************************)
EXTENDS Integers, Sequences, FiniteSets

CONSTANTS Key,       \* the random values of the client
          NoKey,     \* "no challenge in progress"
          BufCap,    \* capacity of buf (256 in the code)
          MaxMsgs,   \* bound: messages the client sends
          MaxChunks  \* bound: chunks the TCP service sends

ASSUME ChannelAssumption ==
    /\ NoKey \notin Key
    /\ BufCap \in Nat \ {0}
    /\ MaxMsgs \in Nat /\ MaxChunks \in Nat

VARIABLES
    next,       \* number of messages the client has sent
    wire,       \* messages on their way to the node
    client,     \* the client's end: "open", "closed" or "vanished"
    dc,         \* the node's end: "open", "closing" (dc.Close) or "closed"
    rl,         \* pion's read loop: "reading", "holding" a message, "ended"
    held,       \* what it holds, blocked in buf <- data
    onClose,    \* the OnClose callback: "no", "due" or "done"
    buf, bufClosed,
    pc,         \* the command loop: "cmd", "dialing" or "gone"
    commitment, \* of the challenge in progress, or NoKey
    rNode,      \* the random made for it
    connectAt,  \* number of the connect command that was obeyed, or 0
    conn,       \* the TCP connection: "none", "open" or "closed"
    service,    \* the service's end: "open", "eof" or "reset"
    chunks,     \* number of chunks the service has sent
    unread,     \* of those, the numbers of the ones not read yet
    toTcp,      \* numbers of the messages written to conn (history)
    down,       \* what the node has sent on dc (history)
    writer,     \* bridge, DC to TCP: "none", "run", "cleanup" or "done"
    reader,     \* bridge, TCP to DC: likewise
    cut         \* what ended the bridge first (history)

chanVars == <<wire, rl, held, onClose, buf, bufClosed>>
loopVars == <<pc, commitment, rNode, connectAt>>
tcpVars  == <<conn, service, chunks, unread, toTcp>>
vars == <<next, client, dc, chanVars, loopVars, tcpVars, down, writer, reader, cut>>

\* What a message is to the command loop.  A malformed challenge or opening, ping,
\* list and an unknown command all get one reply and change nothing.
Command == [cmd : {"plain", "connect", "connectUnknown"}, key : {NoKey}]
           \cup [cmd : {"challenge", "verify"}, key : Key]
NoMsg == [n |-> 0, cmd |-> "plain", key |-> NoKey]
Message == [n : Nat, cmd : {"plain", "connect", "connectUnknown", "challenge", "verify"},
            key : Key \cup {NoKey}]

Replies == [type : {"text", "response", "proof", "ok", "data"}, r : Nat,
            key : Key \cup {NoKey}]
Reply(type, r, k) == [type |-> type, r |-> r, key |-> k]
Text == Reply("text", 0, NoKey)
Ok   == Reply("ok", 0, NoKey)
Data(n) == Reply("data", n, NoKey)

Init ==
    /\ next = 0 /\ wire = <<>>
    /\ client = "open" /\ dc = "open"
    /\ rl = "reading" /\ held = NoMsg /\ onClose = "no"
    /\ buf = <<>> /\ bufClosed = FALSE
    /\ pc = "cmd" /\ commitment = NoKey /\ rNode = 0 /\ connectAt = 0
    /\ conn = "none" /\ service = "open" /\ chunks = 0 /\ unread = <<>>
    /\ toTcp = <<>> /\ down = <<>>
    /\ writer = "none" /\ reader = "none" /\ cut = "none"

------------------------------------------------------------------------------
(* The client and its browser, the TCP service. *)

ClientSend ==
    /\ client = "open"
    /\ next < MaxMsgs
    /\ next' = next + 1
    /\ \E c \in Command :
          wire' = Append(wire, [n |-> next', cmd |-> c.cmd, key |-> c.key])
    /\ UNCHANGED <<client, dc, rl, held, onClose, buf, bufClosed, loopVars, tcpVars,
                   down, writer, reader, cut>>

ClientEnds(how) ==
    /\ client = "open"
    /\ client' = how
    /\ UNCHANGED <<next, dc, chanVars, loopVars, tcpVars, down, writer, reader, cut>>

ClientCloses   == ClientEnds("closed")
ClientVanishes == ClientEnds("vanished")

\* The browser closes its end when the node has closed the channel.
ClientAcks == dc = "closing" /\ ClientEnds("closed")

ServiceSends ==
    /\ conn = "open" /\ service = "open"
    /\ chunks < MaxChunks
    /\ chunks' = chunks + 1
    /\ unread' = Append(unread, chunks')
    /\ UNCHANGED <<next, client, dc, chanVars, loopVars, conn, service, toTcp, down,
                   writer, reader, cut>>

\* The service closes its sending side, or the connection is reset.
ServiceEnds ==
    /\ conn = "open" /\ service = "open"
    /\ service' \in {"eof", "reset"}
    /\ UNCHANGED <<next, client, dc, chanVars, loopVars, conn, chunks, unread, toTcp,
                   down, writer, reader, cut>>

------------------------------------------------------------------------------
(* pion's read loop calls OnMessage for each message, and starts OnClose when *)
(* it ends.                                                                   *)

ReadMessage ==
    /\ rl = "reading"
    /\ wire # <<>>
    /\ held' = Head(wire) /\ wire' = Tail(wire)
    /\ rl' = "holding"
    /\ UNCHANGED <<next, client, dc, onClose, buf, bufClosed, loopVars, tcpVars, down,
                   writer, reader, cut>>

\* OnMessage: buf <- data, which blocks while buf is full.
OnMessage ==
    /\ rl = "holding"
    /\ Len(buf) < BufCap
    /\ buf' = Append(buf, held)
    /\ held' = NoMsg
    /\ rl' = "reading"
    /\ UNCHANGED <<next, wire, client, dc, onClose, bufClosed, loopVars, tcpVars, down,
                   writer, reader, cut>>

\* The client's end is closed and everything it sent has been read.
ReadLoopEnds ==
    /\ rl = "reading"
    /\ wire = <<>> /\ client = "closed"
    /\ rl' = "ended" /\ dc' = "closed" /\ onClose' = "due"
    /\ UNCHANGED <<next, client, wire, held, buf, bufClosed, loopVars, tcpVars, down,
                   writer, reader, cut>>

\* Mutant: OnClose does not close buf.
OnCloseOnlyLogs ==
    /\ onClose = "due"
    /\ onClose' = "done"
    /\ UNCHANGED <<next, client, dc, wire, rl, held, buf, bufClosed, loopVars, tcpVars,
                   down, writer, reader, cut>>

OnClose ==
    /\ onClose = "due"
    /\ onClose' = "done" /\ bufClosed' = TRUE
    /\ UNCHANGED <<next, client, dc, wire, rl, held, buf, loopVars, tcpVars, down,
                   writer, reader, cut>>

------------------------------------------------------------------------------
(* The command loop.  A send on a channel that is not open fails unnoticed. *)

Sent(m) == down' = IF dc = "open" THEN Append(down, m) ELSE down
ClosesDc == dc' = IF dc = "open" THEN "closing" ELSE dc

\* The head of buf is a command cmd; it is taken.
Takes(cmd) ==
    /\ pc = "cmd"
    /\ buf # <<>>
    /\ Head(buf).cmd = cmd
    /\ buf' = Tail(buf)
    /\ UNCHANGED <<next, client, wire, rl, held, onClose, bufClosed, tcpVars, writer,
                   reader, cut>>

LoopEnds ==
    /\ pc = "cmd"
    /\ buf = <<>> /\ bufClosed
    /\ pc' = "gone"
    /\ UNCHANGED <<next, client, dc, chanVars, commitment, rNode, connectAt, tcpVars,
                   down, writer, reader, cut>>

Plain ==
    /\ Takes("plain")
    /\ Sent(Text)
    /\ UNCHANGED <<dc, loopVars>>

\* When rand.Read fails the loop returns, and dc stays open.
Challenge ==
    /\ Takes("challenge")
    /\ commitment' = Head(buf).key
    /\ rNode' = Head(buf).n
    /\ \/ Sent(Reply("response", rNode', commitment')) /\ UNCHANGED pc
       \/ Sent(Text) /\ pc' = "gone"
    /\ UNCHANGED <<dc, connectAt>>

\* Mutant: a challenge can be verified again and again.
VerifyKeeps ==
    /\ Takes("verify")
    /\ Sent(IF commitment # NoKey /\ commitment = Head(buf).key
            THEN Reply("proof", rNode, commitment) ELSE Text)
    /\ UNCHANGED <<dc, loopVars>>

\* A challenge is over after its first opening, right or wrong.
Verify ==
    /\ Takes("verify")
    /\ Sent(IF commitment # NoKey /\ commitment = Head(buf).key
            THEN Reply("proof", rNode, commitment) ELSE Text)
    /\ commitment' = NoKey /\ rNode' = 0
    /\ UNCHANGED <<dc, pc, connectAt>>

ConnectUnknown ==
    /\ Takes("connectUnknown")
    /\ Sent(Text)
    /\ ClosesDc
    /\ pc' = "gone"
    /\ UNCHANGED <<commitment, rNode, connectAt>>

Connect ==
    /\ Takes("connect")
    /\ connectAt' = Head(buf).n
    /\ pc' = "dialing"
    /\ UNCHANGED <<dc, commitment, rNode, down>>

DialFails ==
    /\ pc = "dialing"
    /\ pc' = "gone"
    /\ Sent(Text)
    /\ ClosesDc
    /\ UNCHANGED <<next, client, chanVars, commitment, rNode, connectAt, tcpVars,
                   writer, reader, cut>>

\* Mutant: the bridge starts with an empty buffer.
DialOkDropsBuf ==
    /\ pc = "dialing"
    /\ pc' = "gone"
    /\ conn' = "open"
    /\ Sent(Ok)
    /\ buf' = <<>>
    /\ writer' = "run" /\ reader' = "run"
    /\ UNCHANGED <<next, client, dc, wire, rl, held, onClose, bufClosed, commitment,
                   rNode, connectAt, service, chunks, unread, toTcp, cut>>

\* Mutant: ok is not sent.
DialOkSilent ==
    /\ pc = "dialing"
    /\ pc' = "gone"
    /\ conn' = "open"
    /\ writer' = "run" /\ reader' = "run"
    /\ UNCHANGED <<next, client, dc, chanVars, commitment, rNode, connectAt, service,
                   chunks, unread, toTcp, down, cut>>

\* ok is sent and the bridge starts; it goes on with what is in buf.
DialOk ==
    /\ pc = "dialing"
    /\ pc' = "gone"
    /\ conn' = "open"
    /\ Sent(Ok)
    /\ writer' = "run" /\ reader' = "run"
    /\ UNCHANGED <<next, client, dc, chanVars, commitment, rNode, connectAt, service,
                   chunks, unread, toTcp, cut>>

------------------------------------------------------------------------------
(* bridge.  A write or read on a connection that the other goroutine has closed *)
(* fails.                                                                       *)

Cut(why) == cut' = IF cut = "none" THEN why ELSE cut

WriteTcp ==
    /\ writer = "run"
    /\ buf # <<>>
    /\ conn = "open" /\ service # "reset"
    /\ toTcp' = Append(toTcp, Head(buf).n)
    /\ buf' = Tail(buf)
    /\ UNCHANGED <<next, client, dc, wire, rl, held, onClose, bufClosed, loopVars, conn,
                   service, chunks, unread, down, writer, reader, cut>>

WriteTcpFails ==
    /\ writer = "run"
    /\ buf # <<>>
    /\ conn = "closed" \/ service # "open"
    /\ buf' = Tail(buf)
    /\ writer' = "cleanup"
    /\ Cut("write error")
    /\ UNCHANGED <<next, client, dc, wire, rl, held, onClose, bufClosed, loopVars,
                   tcpVars, down, reader>>

\* Mutant: the writer ends as soon as buf is closed.
WriterEndsAtClose ==
    /\ writer = "run"
    /\ bufClosed
    /\ writer' = "cleanup"
    /\ Cut("client closed")
    /\ UNCHANGED <<next, client, dc, chanVars, loopVars, tcpVars, down, reader>>

\* range buf ends: buf is closed and drained.
WriterEnds ==
    /\ writer = "run"
    /\ buf = <<>> /\ bufClosed
    /\ writer' = "cleanup"
    /\ Cut("client closed")
    /\ UNCHANGED <<next, client, dc, chanVars, loopVars, tcpVars, down, reader>>

ReadTcp ==
    /\ reader = "run"
    /\ conn = "open"
    /\ unread # <<>>
    /\ unread' = Tail(unread)
    /\ Sent(Data(Head(unread)))
    /\ IF dc = "open"
       THEN UNCHANGED <<reader, cut>>
       ELSE reader' = "cleanup" /\ Cut("send error")
    /\ UNCHANGED <<next, client, dc, chanVars, loopVars, conn, service, chunks, toTcp,
                   writer>>

\* Mutant: the error of Read is looked at before its bytes.
ReadTcpEndsEarly ==
    /\ reader = "run"
    /\ conn = "closed" \/ service # "open"
    /\ reader' = "cleanup"
    /\ Cut(IF conn = "open" /\ service = "eof" THEN "service closed" ELSE "read error")
    /\ UNCHANGED <<next, client, dc, chanVars, loopVars, tcpVars, down, writer>>

ReadTcpEnds ==
    /\ reader = "run"
    /\ conn = "closed" \/ service = "reset" \/ (service = "eof" /\ unread = <<>>)
    /\ reader' = "cleanup"
    /\ Cut(IF conn = "open" /\ service = "eof" THEN "service closed" ELSE "read error")
    /\ UNCHANGED <<next, client, dc, chanVars, loopVars, tcpVars, down, writer>>

\* Mutant: cleanup closes buf itself.
CleanupClosesBuf ==
    /\ conn' = "closed"
    /\ ClosesDc
    /\ bufClosed' = TRUE
    /\ UNCHANGED <<next, client, wire, rl, held, onClose, buf, loopVars, service,
                   chunks, unread, toTcp, down, cut>>

\* Mutant: cleanup leaves dc to the client.
CleanupKeepsDc ==
    /\ conn' = "closed"
    /\ UNCHANGED <<next, client, dc, chanVars, loopVars, service, chunks, unread, toTcp,
                   down, cut>>

\* once: the second call finds both closed.
Cleanup ==
    /\ conn' = "closed"
    /\ ClosesDc
    /\ UNCHANGED <<next, client, chanVars, loopVars, service, chunks, unread, toTcp,
                   down, cut>>

WriterCleanup == writer = "cleanup" /\ writer' = "done" /\ Cleanup /\ UNCHANGED reader
ReaderCleanup == reader = "cleanup" /\ reader' = "done" /\ Cleanup /\ UNCHANGED writer

------------------------------------------------------------------------------
PionStep == ReadMessage \/ OnMessage \/ ReadLoopEnds \/ OnClose
LoopStep == LoopEnds \/ Plain \/ Challenge \/ Verify \/ ConnectUnknown \/ Connect
            \/ DialFails \/ DialOk
WriterStep == WriteTcp \/ WriteTcpFails \/ WriterEnds \/ WriterCleanup
ReaderStep == ReadTcp \/ ReadTcpEnds \/ ReaderCleanup

Next ==
    \/ ClientSend \/ ClientCloses \/ ClientVanishes \/ ClientAcks
    \/ ServiceSends \/ ServiceEnds
    \/ PionStep \/ LoopStep \/ WriterStep \/ ReaderStep

Spec == Init /\ [][Next]_vars

\* Goroutines run, a dial ends, the service reads what is written to it, and the
\* browser answers a close.
Fairness ==
    /\ WF_vars(PionStep) /\ WF_vars(LoopStep)
    /\ WF_vars(WriterStep) /\ WF_vars(ReaderStep)
    /\ WF_vars(ClientAcks)

FairSpec == Spec /\ Fairness

------------------------------------------------------------------------------
\* The values each variable takes.
ChanTypes ==
    /\ next \in Nat
    /\ wire \in Seq(Message) /\ buf \in Seq(Message) /\ held \in Message
    /\ client \in {"open", "closed", "vanished"}
    /\ dc \in {"open", "closing", "closed"}
    /\ rl \in {"reading", "holding", "ended"}
    /\ onClose \in {"no", "due", "done"} /\ bufClosed \in BOOLEAN

LoopTypes ==
    /\ pc \in {"cmd", "dialing", "gone"}
    /\ commitment \in Key \cup {NoKey} /\ rNode \in Nat /\ connectAt \in Nat
    /\ down \in Seq(Replies)

TcpTypes ==
    /\ conn \in {"none", "open", "closed"} /\ service \in {"open", "eof", "reset"}
    /\ chunks \in Nat /\ unread \in Seq(Nat)
    /\ toTcp \in Seq(Nat)

BridgeTypes ==
    /\ writer \in {"none", "run", "cleanup", "done"}
    /\ reader \in {"none", "run", "cleanup", "done"}
    /\ cut \in {"none", "client closed", "write error", "service closed", "read error",
                "send error"}

TypeOK == ChanTypes /\ LoopTypes /\ TcpTypes /\ BridgeTypes

\* OnMessage never sends on a closed channel, which would panic and end the node:
\* only pion's read loop sends, and only its end closes buf.
NoSendOnClosed == bufClosed => rl = "ended"

\* The service gets what the client sent after its connect command, in order and
\* without a gap, whatever was in buf when the dial succeeded.
InOrder == \A i \in 1..Len(toTcp) : toTcp[i] = connectAt + i

\* When the bridge ends because the client closed, the service has got everything.
UploadComplete == cut = "client closed" => Len(toTcp) = next - connectAt

\* Both: what the client uploads reaches the service whole.
UploadIntact == InOrder /\ UploadComplete

NumbersAfter(k, replies) == [i \in 1..(Len(replies) - k) |-> replies[k + i].r]

\* The chunks that the client has been sent: what comes after the ok, which is the
\* reply to the connect command.
Heard == IF conn = "none" THEN <<>> ELSE NumbersAfter(connectAt, down)

\* What the client is sent of the service is in order, without a gap or a repetition.
DownloadInOrder == \A i \in 1..Len(Heard) : Heard[i] = i

\* When the bridge ends because the service closed, the client has been sent
\* everything.
DownloadComplete == cut = "service closed" => Len(Heard) = chunks

\* Both: what the service sends before it closes reaches the client whole.
DownloadIntact == DownloadInOrder /\ DownloadComplete

\* The random of a challenge is signed at most once, for the commitment it was
\* sent in response to: no recorded proof can be asked for again.
SignedOnce ==
    \A j \in 1..Len(down) : down[j].type = "proof" =>
        /\ \E i \in 1..(j - 1) :
              down[i] = [down[j] EXCEPT !.type = "response"]
        /\ \A i \in 1..(j - 1) :
              down[i].type = "proof" => down[i].r # down[j].r

\* The client gets replies, then ok, then only bytes of the service.
RepliesThenBytes ==
    \A j \in 1..Len(down) :
        /\ down[j].type = "data" => \E i \in 1..(j - 1) : down[i].type = "ok"
        /\ down[j].type = "ok" => \A i \in (j + 1)..Len(down) : down[i].type = "data"

------------------------------------------------------------------------------
(* The inductive invariant: why the invariants above hold. *)

Holding == IF rl = "holding" THEN 1 ELSE 0

\* How many messages have been taken from buf.
Taken == next - Len(wire) - Holding - Len(buf)

\* wire, held and buf hold the last messages of the client, in order.
Numbered ==
    /\ Taken >= 0
    /\ \A i \in 1..Len(wire) : wire[i].n = next - Len(wire) + i
    /\ rl = "holding" => held.n = next - Len(wire)
    /\ \A i \in 1..Len(buf) : buf[i].n = Taken + i

\* buf is closed after the end of the read loop, which is after the last message.
EndsInOrder ==
    /\ rl = "ended" <=> onClose # "no"
    /\ bufClosed => onClose = "done"
    /\ rl = "ended" => client = "closed" /\ wire = <<>>

\* The bridge starts with the dial, where the command loop left off.
BridgeTakesOver ==
    /\ conn = "none" <=> writer = "none"
    /\ conn = "none" <=> reader = "none"
    /\ IF conn = "none" THEN toTcp = <<>> /\ cut = "none" ELSE pc = "gone"
    /\ pc = "dialing" => connectAt = Taken
    /\ writer = "run" => connectAt + Len(toTcp) = Taken
    /\ cut = "client closed" => writer \in {"cleanup", "done"} /\ client = "closed"

\* The client has been sent the random of a challenge in progress, which is younger
\* than every proof.
ChallengeFresh ==
    /\ \A i \in 1..Len(down) : down[i].type # "data" => down[i].r <= Taken
    /\ commitment # NoKey =>
          /\ rNode <= Taken
          /\ \A i \in 1..Len(down) : down[i].type = "proof" => down[i].r # rNode
          /\ pc = "cmd" /\ dc = "open" =>
                \E i \in 1..Len(down) : down[i] = Reply("response", rNode, commitment)

\* ok is the first word after the replies.
OkSent ==
    /\ conn = "none" => \A i \in 1..Len(down) : down[i].type \notin {"ok", "data"}
    /\ conn # "none" /\ dc = "open" => \E i \in 1..Len(down) : down[i].type = "ok"

\* Message n is answered by reply n, until the dial has succeeded; ok is the reply to
\* the connect command that was obeyed, and the bridge has taken what came after it.
Dialing == IF pc = "dialing" THEN 1 ELSE 0
RepliesCounted ==
    /\ pc # "gone" => dc # "closing"
    /\ dc = "closed" => client = "closed"
    /\ conn = "none" => Len(down) <= Taken - Dialing
    /\ conn = "none" /\ dc = "open" => Len(down) = Taken - Dialing
    /\ conn # "none" => connectAt + Len(toTcp) <= Taken
    /\ conn # "none" /\ dc # "closed" => connectAt <= Len(down)
    /\ \A j \in 1..Len(down) : down[j].type = "ok" <=> conn # "none" /\ j = connectAt

\* unread holds the last chunks of the service, in order, and while the reader runs
\* the client has been sent all the others.
DownloadCounted ==
    /\ conn = "none" => chunks = 0 /\ unread = <<>>
    /\ \A i \in 1..Len(unread) : unread[i] = chunks - Len(unread) + i
    /\ reader = "run" => Len(Heard) = chunks - Len(unread)
    /\ cut = "service closed" => service = "eof" /\ reader # "run"

\* While nothing has cut the bridge, both its goroutines run and nothing is closed.
CutFirst ==
    conn # "none" /\ cut = "none" =>
        conn = "open" /\ dc # "closing" /\ writer = "run" /\ reader = "run"

IInv ==
    /\ TypeOK
    /\ EndsInOrder /\ NoSendOnClosed
    /\ Numbered
    /\ BridgeTakesOver /\ InOrder /\ UploadComplete
    /\ ChallengeFresh /\ SignedOnce
    /\ OkSent /\ RepliesThenBytes /\ RepliesCounted
    /\ DownloadCounted /\ DownloadIntact /\ CutFirst

------------------------------------------------------------------------------
(* What the channel implements. *)

TunnelState ==
    IF conn = "none" THEN "none"
    ELSE IF cut = "none" THEN "up"
    ELSE IF cut \in {"client closed", "service closed"} THEN cut ELSE "broken"

LiveEnds == {end \in {"client", "service"} :
                (IF end = "client" THEN client ELSE service) = "open"}

TunnelStart == IF conn = "none" THEN 0 ELSE connectAt

Bridge == INSTANCE Tunnel WITH
    state <- TunnelState, live <- LiveEnds,
    sent <- next, start <- TunnelStart, toService <- toTcp,
    said <- chunks, heard <- Heard

\* Four threads, a buffer, callbacks and a socket are a tunnel.  Each end gets what
\* the other sends in order, without a gap or a repetition, up to where the tunnel
\* ends; it ends only when an end leaves, and as a clean end only when all that *this*
\* end had sent is through.  What was on its way to the end that left is dropped.
ImplementsTunnel == Bridge!Spec

------------------------------------------------------------------------------
\* A channel closed by the client ends the command loop and closes the TCP
\* connection, even one whose dial was under way.
ChannelEnds == client = "closed" ~> (pc = "gone" /\ conn # "open")

\* When the service ends its connection, the channel is closed too.
ServiceEndReachesClient == (conn = "open" /\ service # "open") ~> dc # "open"

\* buf is full and nobody will take anything from it: OnMessage blocks for good.
Stuck == /\ rl = "holding" /\ Len(buf) = BufCap
         /\ pc = "gone" /\ writer # "run"

\* Once the node has closed the channel, pion's read loop ends and buf is closed,
\* unless the client has vanished or has sent more than buf takes.
ReadLoopLeaves == dc = "closing" ~> (bufClosed \/ Stuck \/ client = "vanished")
==============================================================================
