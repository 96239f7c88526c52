----------------------------- MODULE Coordinator -----------------------------
(***************************************************************************)
(* The coordinator of rtc-bridge (coordinator/main.go): one goroutine per   *)
(* node WebSocket (handleNodeWS), one goroutine per POST /offer             *)
(* (handleOffer) and the prune loop, sharing the registry c.nodes under     *)
(* c.mu and, per connection, the table n.pending under n.mu.                *)
(*                                                                         *)
(* A Conn is one WebSocket connection with the `node` struct made for it;   *)
(* a node that reconnects uses another Conn of the same NodeId.  Time is    *)
(* abstracted: a deadline may fire whenever the code waits on one (the      *)
(* timing of pings and deadlines is the subject of Keepalive.tla).          *)
(***************************************************************************)
EXTENDS Naturals, Sequences, FiniteSets

CONSTANTS NodeId,   \* identities of nodes
          Conn,     \* the connections nodes ever open; each is opened once
          Req,      \* the POST /offer requests clients ever make
          NodeOf,   \* the node that opens a connection
          NoConn,   \* "no such entry" in the registry
          NoReq,    \* "no request": a free n.mu, an empty channel
          MaxPings  \* bound: unread pings of one connection

ASSUME ConstantsAssumption ==
    /\ NodeOf \in [Conn -> NodeId]
    /\ NoConn \notin Conn
    /\ NoReq \notin Req
    /\ MaxPings \in Nat

VARIABLES
    nodes,      \* c.nodes, with NoConn for an absent key
    cmu,        \* who holds c.mu across steps: "free" or "pruner"
    sweep,      \* the entries pruneLoop has yet to visit in this sweep
    sock,       \* state of the TCP/WebSocket connection
    hpc,        \* where handleNodeWS stands on each connection
    got,        \* the message the read loop is handling
    inbox,      \* messages from the node not read yet
    offers,     \* offers delivered to the node and not answered
    answered,   \* every request a node has answered (history)
    mu,         \* the handleOffer that holds n.mu across its WriteMessage
    isWriting,  \* gorilla's flag: a data frame is being flushed
    pending,    \* keys of n.pending
    opc,        \* where handleOffer stands on each request
    want,       \* the nodeId a request asks for
    target,     \* the n that handleOffer looked up
    ch,         \* p.ch, capacity 1: the answer in it, or NoReq
    resp,       \* HTTP status sent to the caller
    reply,      \* the answer sent to the caller
    sdp         \* number of c.sdp.record() calls

connVars == <<sock, inbox, offers, answered>>
regVars  == <<nodes, cmu, sweep>>
offVars  == <<opc, want, target, resp, reply, sdp>>
vars == <<regVars, connVars, hpc, got, mu, isWriting, pending, ch, offVars>>

NoMsg == [type |-> "none", req |-> NoReq]
Ping  == [type |-> "ping", req |-> NoReq]
Close == [type |-> "close", req |-> NoReq]
Answer(r) == [type |-> "answer", req |-> r]
Message == {Ping, Close} \cup {Answer(r) : r \in Req}

HandlerPC == {"idle", "hello", "register", "verified", "reading", "frame",
              "deliver", "closing", "unregister", "closeconn", "done"}
OfferPC == {"idle", "lookup", "insert", "forward", "writing", "unpend",
            "wait", "expire", "panicked", "done"}

Init ==
    /\ nodes = [id \in NodeId |-> NoConn]
    /\ cmu = "free"
    /\ sweep = {}
    /\ sock = [c \in Conn |-> "up"]
    /\ hpc = [c \in Conn |-> "idle"]
    /\ got = [c \in Conn |-> NoMsg]
    /\ inbox = [c \in Conn |-> <<>>]
    /\ offers = [c \in Conn |-> {}]
    /\ answered = {}
    /\ mu = [c \in Conn |-> NoReq]
    /\ isWriting = [c \in Conn |-> FALSE]
    /\ pending = [c \in Conn |-> {}]
    /\ opc = [r \in Req |-> "idle"]
    /\ want \in [Req -> NodeId]
    /\ target = [r \in Req |-> NoConn]
    /\ ch = [r \in Req |-> NoReq]
    /\ resp = [r \in Req |-> "none"]
    /\ reply = [r \in Req |-> NoReq]
    /\ sdp = 0

------------------------------------------------------------------------------
(* The nodes and the network.  A node runs the real node program: it answers *)
(* each offer at most once, on the connection the offer came on.             *)

Dial(c) ==
    /\ hpc[c] = "idle"
    /\ hpc' = [hpc EXCEPT ![c] = "hello"]
    /\ UNCHANGED <<regVars, connVars, got, mu, isWriting, pending, ch, offVars>>

Registered(c) == hpc[c] \in {"reading", "frame", "deliver"}
CloseSent(c) == got[c] = Close \/ \E i \in 1..Len(inbox[c]) : inbox[c][i] = Close

\* Both goroutines that write to the node's connection stop at a close.
Send(c, m) ==
    /\ sock[c] = "up"
    /\ hpc[c] \notin {"idle", "hello", "register"}
    /\ ~CloseSent(c)
    /\ inbox' = [inbox EXCEPT ![c] = Append(@, m)]

PeerAnswer(c, r) ==
    /\ r \in offers[c]
    /\ Send(c, Answer(r))
    /\ offers' = [offers EXCEPT ![c] = @ \ {r}]
    /\ answered' = answered \cup {r}
    /\ UNCHANGED <<regVars, sock, hpc, got, mu, isWriting, pending, ch, offVars>>

PeerPing(c) ==
    /\ Cardinality({i \in 1..Len(inbox[c]) : inbox[c][i] = Ping}) < MaxPings
    /\ Send(c, Ping)
    /\ UNCHANGED <<regVars, sock, offers, answered, hpc, got, mu, isWriting,
                   pending, ch, offVars>>

PeerClose(c) ==
    /\ Send(c, Close)
    /\ UNCHANGED <<regVars, sock, offers, answered, hpc, got, mu, isWriting,
                   pending, ch, offVars>>

\* The node's end is closed or killed, or the machine disappears from the
\* network without a packet.
PeerGone(c, how) ==
    /\ sock[c] = "up"
    /\ hpc[c] # "idle"
    /\ sock' = [sock EXCEPT ![c] = how]
    /\ UNCHANGED <<regVars, inbox, offers, answered, hpc, got, mu, isWriting,
                   pending, ch, offVars>>

PeerReset(c)  == PeerGone(c, "reset")
PeerSilent(c) == PeerGone(c, "silent")

\* The kernel stops retransmitting to a silent peer.
TcpGivesUp(c) ==
    /\ sock[c] = "silent"
    /\ sock' = [sock EXCEPT ![c] = "reset"]
    /\ UNCHANGED <<regVars, inbox, offers, answered, hpc, got, mu, isWriting,
                   pending, ch, offVars>>

------------------------------------------------------------------------------
(* handleNodeWS.  Its deferred calls run in reverse order: unregisterNode,   *)
(* deferred only once the node is registered, and then conn.Close.           *)

Goto(c, pc) == hpc' = [hpc EXCEPT ![c] = pc]

\* A hello that VerifyHello accepts; the challenge is sent back.
ReadHello(c) ==
    /\ hpc[c] = "hello"
    /\ Goto(c, "register")
    /\ UNCHANGED <<regVars, connVars, got, mu, isWriting, pending, ch, offVars>>

\* A registration that VerifyRegistration accepts; the `node` struct is made.
ReadRegister(c) ==
    /\ hpc[c] = "register"
    /\ Goto(c, "verified")
    /\ UNCHANGED <<regVars, connVars, got, mu, isWriting, pending, ch, offVars>>

\* The 15 s deadline, a lost connection, or a message of the wrong kind.
HandshakeFails(c) ==
    /\ hpc[c] \in {"hello", "register"}
    /\ Goto(c, "closeconn")
    /\ UNCHANGED <<regVars, connVars, got, mu, isWriting, pending, ch, offVars>>

RegisterNode(c) ==
    /\ hpc[c] = "verified"
    /\ cmu = "free"
    /\ nodes' = [nodes EXCEPT ![NodeOf[c]] = c]
    /\ Goto(c, "reading")
    /\ UNCHANGED <<cmu, sweep, connVars, got, mu, isWriting, pending, ch, offVars>>

ReadMessage(c) ==
    /\ hpc[c] = "reading"
    /\ inbox[c] # <<>>
    /\ got' = [got EXCEPT ![c] = Head(inbox[c])]
    /\ inbox' = [inbox EXCEPT ![c] = Tail(@)]
    /\ Goto(c, "frame")
    /\ UNCHANGED <<regVars, sock, offers, answered, mu, isWriting, pending, ch,
                   offVars>>

\* Mutant: the pruner's conn.Close does not end the read.
ReadFailsNotOnClose(c) ==
    /\ hpc[c] = "reading"
    /\ \/ sock[c] = "reset"
       \/ sock[c] = "silent" /\ inbox[c] = <<>>
    /\ Goto(c, "unregister")
    /\ UNCHANGED <<regVars, connVars, got, mu, isWriting, pending, ch, offVars>>

\* ReadMessage returns an error: the deadline of a silent connection, or the
\* end of a lost one.
ReadFails(c) ==
    /\ hpc[c] = "reading"
    /\ \/ sock[c] \in {"reset", "closed"}
       \/ sock[c] = "silent" /\ inbox[c] = <<>>
    /\ Goto(c, "unregister")
    /\ UNCHANGED <<regVars, connVars, got, mu, isWriting, pending, ch, offVars>>

\* The ping handler locks n.mu to set lastSeen; sending the pong may fail on a
\* connection that is no longer up, and that ends the read loop.
HandlePing(c) ==
    /\ hpc[c] = "frame" /\ got[c] = Ping
    /\ mu[c] = NoReq
    /\ \/ Goto(c, "reading")
       \/ sock[c] # "up" /\ Goto(c, "unregister")
    /\ got' = [got EXCEPT ![c] = NoMsg]
    /\ UNCHANGED <<regVars, connVars, mu, isWriting, pending, ch, offVars>>

\* Mutant: the waiter is looked up and left in n.pending.
LookupAnswerKeeps(c) ==
    /\ hpc[c] = "frame" /\ got[c].type = "answer"
    /\ mu[c] = NoReq
    /\ IF got[c].req \in pending[c]
       THEN Goto(c, "deliver") /\ UNCHANGED got
       ELSE Goto(c, "reading") /\ got' = [got EXCEPT ![c] = NoMsg]
    /\ UNCHANGED <<regVars, connVars, mu, isWriting, pending, ch, offVars>>

\* Mutant: n.mu is not unlocked when the waiter is gone.
LookupAnswerLocks(c) ==
    /\ hpc[c] = "frame" /\ got[c].type = "answer"
    /\ mu[c] = NoReq
    /\ pending' = [pending EXCEPT ![c] = @ \ {got[c].req}]
    /\ IF got[c].req \in pending[c]
       THEN Goto(c, "deliver") /\ UNCHANGED <<got, mu>>
       ELSE /\ Goto(c, "reading")
            /\ got' = [got EXCEPT ![c] = NoMsg]
            /\ mu' = [mu EXCEPT ![c] = got[c].req]
    /\ UNCHANGED <<regVars, connVars, isWriting, ch, offVars>>

\* MsgAnswer under n.mu: the waiter is looked up and removed from n.pending.
LookupAnswer(c) ==
    /\ hpc[c] = "frame" /\ got[c].type = "answer"
    /\ mu[c] = NoReq
    /\ pending' = [pending EXCEPT ![c] = @ \ {got[c].req}]
    /\ IF got[c].req \in pending[c]
       THEN Goto(c, "deliver") /\ UNCHANGED got
       ELSE Goto(c, "reading") /\ got' = [got EXCEPT ![c] = NoMsg]
    /\ UNCHANGED <<regVars, connVars, mu, isWriting, ch, offVars>>

\* Mutant: p.ch is unbuffered.
CanSendUnbuffered(r) == opc[r] = "wait"

\* p.ch has capacity 1: a send to it proceeds while it is empty.
CanSend(r) == ch[r] = NoReq

\* Mutant: the answer goes to whichever request waits on this connection.
DeliverAnswerToAny(c) ==
    /\ hpc[c] = "deliver"
    /\ \E q \in Req :
          /\ opc[q] = "wait" /\ target[q] = c /\ CanSend(q)
          /\ ch' = [ch EXCEPT ![q] = got[c].req]
    /\ got' = [got EXCEPT ![c] = NoMsg]
    /\ Goto(c, "reading")
    /\ UNCHANGED <<regVars, connVars, mu, isWriting, pending, offVars>>

\* p.ch <- ans, outside n.mu.
DeliverAnswer(c) ==
    /\ hpc[c] = "deliver"
    /\ CanSend(got[c].req)
    /\ ch' = [ch EXCEPT ![got[c].req] = got[c].req]
    /\ got' = [got EXCEPT ![c] = NoMsg]
    /\ Goto(c, "reading")
    /\ UNCHANGED <<regVars, connVars, mu, isWriting, pending, offVars>>

\* MsgClose: WriteMessage is called without n.mu.  gorilla panics when it sees
\* isWriting set; the racy read of the flag may also miss it.  A panic runs the
\* deferred calls.
HandleClose(c) ==
    /\ hpc[c] = "frame" /\ got[c] = Close
    /\ \/ isWriting[c] /\ Goto(c, "unregister") /\ UNCHANGED isWriting
       \/ Goto(c, "closing") /\ isWriting' = [isWriting EXCEPT ![c] = TRUE]
    /\ UNCHANGED <<regVars, connVars, got, mu, pending, ch, offVars>>

\* Mutant: unregisterNode is called after the loop and not deferred.
FinishCloseNoDefer(c) ==
    /\ hpc[c] = "closing"
    /\ sock' = [sock EXCEPT ![c] = IF @ \in {"up", "silent"} THEN "closeSent" ELSE @]
    /\ isWriting' = [isWriting EXCEPT ![c] = FALSE]
    /\ Goto(c, "closeconn")
    /\ UNCHANGED <<regVars, inbox, offers, answered, got, mu, pending, ch, offVars>>

\* The close frame is flushed, or fails; a cleared flag makes gorilla panic here.
\* In every case the handler returns.
FinishClose(c) ==
    /\ hpc[c] = "closing"
    /\ sock' = [sock EXCEPT ![c] = IF @ \in {"up", "silent"} THEN "closeSent" ELSE @]
    /\ isWriting' = [isWriting EXCEPT ![c] = FALSE]
    /\ Goto(c, "unregister")
    /\ UNCHANGED <<regVars, inbox, offers, answered, got, mu, pending, ch, offVars>>

UnregisterNode(c) ==
    /\ hpc[c] = "unregister"
    /\ cmu = "free"
    /\ nodes' = [nodes EXCEPT ![NodeOf[c]] = NoConn]
    /\ Goto(c, "closeconn")
    /\ UNCHANGED <<cmu, sweep, connVars, got, mu, isWriting, pending, ch, offVars>>

CloseConn(c) ==
    /\ hpc[c] = "closeconn"
    /\ sock' = [sock EXCEPT ![c] = "closed"]
    /\ Goto(c, "done")
    /\ UNCHANGED <<regVars, inbox, offers, answered, got, mu, isWriting, pending,
                   ch, offVars>>

------------------------------------------------------------------------------
(* handleOffer. *)

\* Not a POST, an unreadable body, bad JSON, or a missing field.
RejectOffer(r) ==
    /\ opc[r] = "idle"
    /\ opc' = [opc EXCEPT ![r] = "done"]
    /\ resp' = [resp EXCEPT ![r] = "400"]
    /\ UNCHANGED <<regVars, connVars, hpc, got, mu, isWriting, pending, ch, want,
                   target, reply, sdp>>

PostOffer(r) ==
    /\ opc[r] = "idle"
    /\ opc' = [opc EXCEPT ![r] = "lookup"]
    /\ UNCHANGED <<regVars, connVars, hpc, got, mu, isWriting, pending, ch, want,
                   target, resp, reply, sdp>>

LookupNode(r) ==
    /\ opc[r] = "lookup"
    /\ cmu = "free"
    /\ IF nodes[want[r]] = NoConn
       THEN /\ opc' = [opc EXCEPT ![r] = "done"]
            /\ resp' = [resp EXCEPT ![r] = "404"]
            /\ UNCHANGED target
       ELSE /\ opc' = [opc EXCEPT ![r] = "insert"]
            /\ target' = [target EXCEPT ![r] = nodes[want[r]]]
            /\ UNCHANGED resp
    /\ UNCHANGED <<regVars, connVars, hpc, got, mu, isWriting, pending, ch, want,
                   reply, sdp>>

AddPending(r) ==
    /\ opc[r] = "insert"
    /\ mu[target[r]] = NoReq
    /\ pending' = [pending EXCEPT ![target[r]] = @ \cup {r}]
    /\ opc' = [opc EXCEPT ![r] = "forward"]
    /\ UNCHANGED <<regVars, connVars, hpc, got, mu, isWriting, ch, want, target,
                   resp, reply, sdp>>

\* n.mu.Lock and the start of WriteMessage.  A panic leaves the handler through
\* net/http's recover, and n.mu, whose Unlock is not deferred, stays locked.
BeginWrite(r) ==
    /\ opc[r] = "forward"
    /\ mu[target[r]] = NoReq
    /\ mu' = [mu EXCEPT ![target[r]] = r]
    /\ \/ /\ isWriting[target[r]]
          /\ opc' = [opc EXCEPT ![r] = "panicked"]
          /\ UNCHANGED isWriting
       \/ /\ opc' = [opc EXCEPT ![r] = "writing"]
          /\ isWriting' = [isWriting EXCEPT ![target[r]] = TRUE]
    /\ UNCHANGED <<regVars, connVars, hpc, got, pending, ch, want, target, resp,
                   reply, sdp>>

WriteEnds(r, pc) ==
    /\ opc[r] = "writing"
    /\ opc' = [opc EXCEPT ![r] = pc]
    /\ isWriting' = [isWriting EXCEPT ![target[r]] = FALSE]
    /\ UNCHANGED <<regVars, sock, inbox, answered, hpc, got, pending, ch, want,
                   target, resp, reply, sdp>>

\* The write succeeds: the bytes reach an up node, or only the kernel's buffer.
WriteOk(r) ==
    /\ WriteEnds(r, "wait")
    /\ isWriting[target[r]]
    /\ sock[target[r]] \in {"up", "silent", "reset"}
    /\ offers' = IF sock[target[r]] = "up"
                  THEN [offers EXCEPT ![target[r]] = @ \cup {r}]
                  ELSE offers
    /\ mu' = [mu EXCEPT ![target[r]] = NoReq]

\* Mutant: the error path returns with n.mu locked.
WriteFailsLocked(r) ==
    /\ WriteEnds(r, "unpend")
    /\ isWriting[target[r]]
    /\ sock[target[r]] \in {"reset", "closeSent", "closed"}
    /\ UNCHANGED <<offers, mu>>

WriteFails(r) ==
    /\ WriteEnds(r, "unpend")
    /\ isWriting[target[r]]
    /\ sock[target[r]] \in {"reset", "closeSent", "closed"}
    /\ mu' = [mu EXCEPT ![target[r]] = NoReq]
    /\ UNCHANGED offers

\* The close frame's flush cleared isWriting under this write.
WritePanics(r) ==
    /\ WriteEnds(r, "panicked")
    /\ ~isWriting[target[r]]
    /\ UNCHANGED <<offers, mu>>

EndWrite(r) == WriteOk(r) \/ WriteFails(r) \/ WritePanics(r)

\* Mutant: the waiter of a failed request stays in n.pending.
FailAfterUnpendLeaks(r, status) ==
    /\ mu[target[r]] = NoReq
    /\ opc' = [opc EXCEPT ![r] = "done"]
    /\ resp' = [resp EXCEPT ![r] = status]
    /\ UNCHANGED <<regVars, connVars, hpc, got, mu, isWriting, pending, ch, want,
                   target, reply, sdp>>

\* Lock n.mu, delete the waiter, unlock, and answer with an HTTP error.
FailAfterUnpend(r, status) ==
    /\ mu[target[r]] = NoReq
    /\ pending' = [pending EXCEPT ![target[r]] = @ \ {r}]
    /\ opc' = [opc EXCEPT ![r] = "done"]
    /\ resp' = [resp EXCEPT ![r] = status]
    /\ UNCHANGED <<regVars, connVars, hpc, got, mu, isWriting, ch, want, target,
                   reply, sdp>>

BadGateway(r) == opc[r] = "unpend" /\ FailAfterUnpend(r, "502")

\* The select: an answer in p.ch, or the 30 s timer.
TakeAnswer(r) ==
    /\ opc[r] = "wait"
    /\ ch[r] # NoReq
    /\ ch' = [ch EXCEPT ![r] = NoReq]
    /\ reply' = [reply EXCEPT ![r] = ch[r]]
    /\ resp' = [resp EXCEPT ![r] = "200"]
    /\ sdp' = sdp + 1
    /\ opc' = [opc EXCEPT ![r] = "done"]
    /\ UNCHANGED <<regVars, connVars, hpc, got, mu, isWriting, pending, want, target>>

AnswerTimeout(r) ==
    /\ opc[r] = "wait"
    /\ opc' = [opc EXCEPT ![r] = "expire"]
    /\ UNCHANGED <<regVars, connVars, hpc, got, mu, isWriting, pending, ch, want,
                   target, resp, reply, sdp>>

GatewayTimeout(r) == opc[r] = "expire" /\ FailAfterUnpend(r, "504")

------------------------------------------------------------------------------
(* pruneLoop: c.mu is held for the whole sweep, each n.mu for a moment.      *)

PruneStart ==
    /\ cmu = "free"
    /\ cmu' = "pruner"
    /\ sweep' = {nodes[id] : id \in NodeId} \ {NoConn}
    /\ UNCHANGED <<nodes, connVars, hpc, got, mu, isWriting, pending, ch, offVars>>

\* lastSeen is older than nodeDropAfter only on a connection that is not up.
MaybeStale(c) == sock[c] # "up"

\* Mutant: the delete has slipped out of the if.
PruneNodeDeletesAll(c) ==
    /\ cmu = "pruner"
    /\ c \in sweep
    /\ mu[c] = NoReq
    /\ sweep' = sweep \ {c}
    /\ nodes' = [nodes EXCEPT ![NodeOf[c]] = NoConn]
    /\ \/ UNCHANGED sock
       \/ MaybeStale(c) /\ sock' = [sock EXCEPT ![c] = "closed"]
    /\ UNCHANGED <<cmu, inbox, offers, answered, hpc, got, mu, isWriting, pending,
                   ch, offVars>>

PruneNode(c) ==
    /\ cmu = "pruner"
    /\ c \in sweep
    /\ mu[c] = NoReq
    /\ sweep' = sweep \ {c}
    /\ \/ UNCHANGED <<nodes, sock>>
       \/ /\ MaybeStale(c)
          /\ sock' = [sock EXCEPT ![c] = "closed"]
          /\ nodes' = [nodes EXCEPT ![NodeOf[c]] = NoConn]
    /\ UNCHANGED <<cmu, inbox, offers, answered, hpc, got, mu, isWriting, pending,
                   ch, offVars>>

PruneEnd ==
    /\ cmu = "pruner"
    /\ sweep = {}
    /\ cmu' = "free"
    /\ UNCHANGED <<nodes, sweep, connVars, hpc, got, mu, isWriting, pending, ch,
                   offVars>>

------------------------------------------------------------------------------
Environment(c) ==
    \/ Dial(c) \/ ReadHello(c) \/ ReadRegister(c)
    \/ PeerPing(c) \/ PeerClose(c) \/ PeerReset(c) \/ PeerSilent(c)
    \/ \E r \in Req : PeerAnswer(c, r)

HandlerStep(c) ==
    \/ HandshakeFails(c) \/ ReadMessage(c) \/ ReadFails(c) \/ HandlePing(c)
    \/ LookupAnswer(c) \/ DeliverAnswer(c) \/ HandleClose(c) \/ CloseConn(c)

OfferStep(r) ==
    \/ AddPending(r) \/ BeginWrite(r) \/ BadGateway(r)
    \/ TakeAnswer(r) \/ AnswerTimeout(r) \/ GatewayTimeout(r)

PrunerStep == PruneStart \/ PruneEnd \/ \E c \in Conn : PruneNode(c)

Next ==
    \/ \E c \in Conn :
          \/ Environment(c) \/ TcpGivesUp(c) \/ HandlerStep(c) \/ FinishClose(c)
          \/ RegisterNode(c) \/ UnregisterNode(c)
    \/ \E r \in Req :
          \/ RejectOffer(r) \/ PostOffer(r) \/ LookupNode(r) \/ OfferStep(r)
          \/ EndWrite(r)
    \/ PrunerStep

Spec == Init /\ [][Next]_vars

------------------------------------------------------------------------------
(* Fairness: the goroutines run.  Acquiring c.mu is strongly fair, since the  *)
(* pruner frees it again and again and Go's mutexes do not starve a waiter.   *)
(* Weak fairness suffices for n.mu, which only finitely many writes hold.     *)
(* Reads and timers cannot block.  An offer's write can, while the peer is    *)
(* silent, and then so can the small close frame queued behind it.            *)
(* Nothing is assumed of nodes, of clients or of the network.                 *)

ServerFairness ==
    /\ \A c \in Conn :
          /\ WF_vars(HandlerStep(c))
          /\ WF_vars((sock[c] = "silent" => mu[c] = NoReq) /\ FinishClose(c))
          /\ SF_vars(RegisterNode(c))
          /\ SF_vars(UnregisterNode(c))
    /\ \A r \in Req :
          /\ WF_vars(OfferStep(r))
          /\ WF_vars(target[r] # NoConn /\ sock[target[r]] # "silent" /\ EndWrite(r))
          /\ SF_vars(LookupNode(r))
    /\ WF_vars(PrunerStep)

\* The kernel's retransmission limit bounds how long a peer can stay silent.
KernelFairness == \A c \in Conn : WF_vars(TcpGivesUp(c))

ServerSpec == Spec /\ ServerFairness
FairSpec   == ServerSpec /\ KernelFairness

------------------------------------------------------------------------------
(* Invariants. *)

\* The values each variable takes.
TypeOK ==
    /\ nodes \in [NodeId -> Conn \cup {NoConn}]
    /\ cmu \in {"free", "pruner"}
    /\ sweep \subseteq Conn
    /\ sock \in [Conn -> {"up", "silent", "reset", "closeSent", "closed"}]
    /\ hpc \in [Conn -> HandlerPC]
    /\ got \in [Conn -> Message \cup {NoMsg}]
    /\ inbox \in [Conn -> Seq(Message)]
    /\ offers \in [Conn -> SUBSET Req]
    /\ answered \subseteq Req
    /\ mu \in [Conn -> Req \cup {NoReq}]
    /\ isWriting \in [Conn -> BOOLEAN]
    /\ pending \in [Conn -> SUBSET Req]
    /\ opc \in [Req -> OfferPC]
    /\ want \in [Req -> NodeId]
    /\ target \in [Req -> Conn \cup {NoConn}]
    /\ ch \in [Req -> Req \cup {NoReq}]
    /\ resp \in [Req -> {"none", "200", "400", "404", "502", "504"}]
    /\ reply \in [Req -> Req \cup {NoReq}]
    /\ sdp \in Nat

\* The handler of c is between registerNode and the end of unregisterNode.
InRegistry(c) == hpc[c] \in {"reading", "frame", "deliver", "closing", "unregister"}

\* A registry entry never outlives the handler that made it: whoever finds a
\* connection in c.nodes finds one whose read loop can still take an answer or
\* is about to remove it.  (The deferred unregisterNode, pruneLoop's delete.)
NoDeadEntry ==
    \A id \in NodeId : nodes[id] # NoConn =>
        NodeOf[nodes[id]] = id /\ InRegistry(nodes[id])

\* A node that has connected only once is in the registry for as long as its
\* connection is up and its handler serves it: the pruner removes nothing else.
ListedUnlessReconnected ==
    \A c \in Conn :
        /\ InRegistry(c) /\ hpc[c] # "unregister" /\ sock[c] = "up"
        /\ \A d \in Conn : NodeOf[d] = NodeOf[c] => d = c \/ hpc[d] = "idle"
        => nodes[NodeOf[c]] = c

\* A request that has been answered, in whatever way, leaves no waiter behind
\* in n.pending (an entry for it would never be removed).
NoLeakedWaiter ==
    \A r \in Req, c \in Conn : opc[r] = "done" => r \notin pending[c]

\* The read loop never blocks on p.ch, not even when the timer of the request
\* fired between the lookup of the waiter and the send.
ReaderNeverBlocks == \A c \in Conn : hpc[c] = "deliver" => CanSend(got[c].req)

\* n.mu is held across steps only by the request that writes on the connection:
\* two requests never write concurrently, and no finished request holds a lock.
WriterHoldsMutex ==
    /\ \A r \in Req : opc[r] = "writing" => mu[target[r]] = r
    /\ \A c \in Conn : mu[c] # NoReq =>
          target[mu[c]] = c /\ opc[mu[c]] \in {"writing", "panicked"}

------------------------------------------------------------------------------
(* The inductive invariant: why the invariants above hold. *)

\* handleOffer has looked its node up before it touches it.
TargetKnown ==
    \A r \in Req : opc[r] \in OfferPC \ {"idle", "lookup", "done"} => target[r] \in Conn

\* A waiter is in the table of its own node, and only between AddPending and
\* the end of handleOffer.
WaiterOwned ==
    \A r \in Req, c \in Conn : r \in pending[c] =>
        /\ target[r] = c
        /\ opc[r] \in {"forward", "writing", "unpend", "wait", "expire", "panicked"}

PastInsert(r) == opc[r] \notin {"idle", "lookup", "insert"}
Delivering(c, r) == hpc[c] = "deliver" /\ got[c].req = r

\* The answer to a request is in at most one place of the coordinator: still
\* expected in n.pending, in the hands of one read loop, or in p.ch.
AnswerInOnePlace ==
    \A r \in Req :
        /\ ch[r] # NoReq => PastInsert(r) /\ \A c \in Conn : r \notin pending[c]
        /\ \A c \in Conn : Delivering(c, r) =>
              /\ PastInsert(r) /\ ch[r] = NoReq
              /\ \A d \in Conn : r \notin pending[d] /\ (Delivering(d, r) => d = c)

\* The offer reached the node: handleOffer's write returned without an error.
Forwarded(r) == opc[r] \in {"wait", "expire", "done"}

\* Whatever travels back to handleOffer as the answer to r was produced by the
\* node for r, once, after the node got the offer.
AnswersGenuine ==
    /\ \A c \in Conn :
          /\ hpc[c] = "deliver" => got[c].type = "answer"
          /\ got[c].type = "answer" => got[c].req \in answered
          /\ \A i \in 1..Len(inbox[c]) :
                inbox[c][i].type = "answer" => inbox[c][i].req \in answered
          /\ \A r \in offers[c] : target[r] = c /\ r \notin answered /\ Forwarded(r)
    /\ \A r \in Req : ch[r] # NoReq => ch[r] = r /\ r \in answered
    /\ \A r \in answered : Forwarded(r)

\* The pruner visits only connections that were registered.
SweepStarted == \A c \in sweep : hpc[c] # "idle"

IInv ==
    /\ TypeOK
    /\ NoDeadEntry
    /\ SweepStarted
    /\ ListedUnlessReconnected
    /\ TargetKnown
    /\ WriterHoldsMutex
    /\ WaiterOwned
    /\ AnswerInOnePlace
    /\ AnswersGenuine

------------------------------------------------------------------------------
(* The abstract specification. *)

StatusOf(r) ==
    CASE opc[r] = "idle" -> "idle"
      [] opc[r] = "panicked" -> "failed"
      [] opc[r] = "done" /\ resp[r] = "200" -> "answered"
      [] opc[r] = "done" /\ resp[r] # "200" -> "failed"
      [] OTHER -> "open"

Exchange == INSTANCE OfferExchange
    WITH status <- [r \in Req |-> StatusOf(r)], result <- reply

\* Every caller of POST /offer gets at most one response; a 200 carries the
\* answer that the node produced for this request and no other, and comes only
\* after the node produced it.
ImplementsExchange == Exchange!Spec

------------------------------------------------------------------------------
(* Liveness. *)

\* A write that has panicked leaves its n.mu locked for good.
Panicked == \E r \in Req : opc[r] = "panicked"

\* Every offer is answered, one way or another, even when its node vanishes, as
\* long as no write has panicked.
OffersFinish ==
    \A r \in Req : opc[r] = "lookup" ~> (opc[r] = "done" \/ Panicked)

\* The handler of a lost connection ends, and the connection is unlisted.
DropHandled ==
    \A c \in Conn :
        (InRegistry(c) /\ sock[c] # "up")
        ~> ((hpc[c] = "done" /\ nodes[NodeOf[c]] # c) \/ Panicked)

\* GET /nodes, GET /services and the handlers always get c.mu again.
RegistryAvailable == []<>(cmu = "free" \/ Panicked)

------------------------------------------------------------------------------
(* What the documentation says and the code does not do. *)

\* README.md:84, coordinator/landing.go:60: a node whose connection is alive and
\* served is one of the connected nodes.
ListedWhileConnected ==
    \A c \in Conn : Registered(c) /\ sock[c] = "up" => nodes[NodeOf[c]] # NoConn

\* coordinator/main.go:413: an offer waits for its answer for 30 s, no longer.
OfferTimesOut ==
    \A r \in Req : opc[r] = "lookup" ~> opc[r] \in {"done", "panicked"}

==============================================================================
