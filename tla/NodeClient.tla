----------------------------- MODULE NodeClient -----------------------------
(***************************************************************************)
(* The node's side of the coordinator connection (node/coord_client.go):    *)
(* runCoordinator's reconnect loop, the read loop of connectCoordinator,    *)
(* the goroutine that pings and closes, and one handleCoordOffer goroutine  *)
(* per offer.  All of them write to the same connection without a lock.     *)
(*                                                                         *)
(* One coordinator URL; the loops of several URLs share only the context    *)
(* and the fate of the process.  The process ends when the loop returns or  *)
(* when a goroutine panics.                                                 *)
(***************************************************************************)
EXTENDS Naturals, FiniteSets

CONSTANTS Offer,     \* the offers coordinators ever send
          MaxConns   \* bound: number of connections dialled

ASSUME MaxConnsAssumption == MaxConns \in Nat

Conns == 1..MaxConns
NoConn == 0

VARIABLES
    ctx,       \* the context of cmdRun: "live" or "cancelled" by a signal
    pc,        \* where runCoordinator and connectCoordinator stand
    conn,      \* number of the current connection
    sock,      \* state of each connection
    pinger,    \* the ping goroutine of each connection
    isWriting, \* gorilla's flag of each connection
    opc,       \* the handleCoordOffer goroutine of each offer
    oconn,     \* the connection an offer came on
    crashed,   \* a goroutine has panicked: the process is gone
    served,    \* connections that got through the handshake (history)
    lost,      \* connections that broke while in use, or on which two writes
               \* mixed up their frames (history)
    closeSent  \* connections on which MsgClose was sent (history)

vars == <<ctx, pc, conn, sock, pinger, isWriting, opc, oconn, crashed, served,
          lost, closeSent>>

\* The values each variable takes.
TypeOK ==
    /\ ctx \in {"live", "cancelled"}
    /\ pc \in {"dial", "hello", "serving", "failed", "backoff", "returned"}
    /\ conn \in Conns \cup {NoConn}
    /\ sock \in [Conns -> {"none", "open", "silent", "broken", "closed"}]
    /\ pinger \in [Conns -> {"none", "idle", "pinging", "closing", "stopped"}]
    /\ isWriting \in [Conns -> BOOLEAN]
    /\ opc \in [Offer -> {"none", "answering", "writing", "done"}]
    /\ oconn \in [Offer -> Conns \cup {NoConn}]
    /\ crashed \in {"no", "yes"}
    /\ served \subseteq Conns /\ lost \subseteq Conns /\ closeSent \subseteq Conns

Init ==
    /\ ctx = "live"
    /\ pc = "dial"
    /\ conn = NoConn
    /\ sock = [k \in Conns |-> "none"]
    /\ pinger = [k \in Conns |-> "none"]
    /\ isWriting = [k \in Conns |-> FALSE]
    /\ opc = [o \in Offer |-> "none"]
    /\ oconn = [o \in Offer |-> NoConn]
    /\ crashed = "no"
    /\ served = {} /\ lost = {} /\ closeSent = {}

\* Every step of a goroutine needs the process.
Running == crashed = "no" /\ pc # "returned"

------------------------------------------------------------------------------
(* WriteMessage: gorilla panics when it sees another write in progress, at the *)
(* start or at the end; its racy read of the flag may also miss the other one. *)

WriteBegins(k) ==
    \/ /\ isWriting' = [isWriting EXCEPT ![k] = TRUE]
       /\ lost' = IF isWriting[k] THEN lost \cup {k} ELSE lost
       /\ UNCHANGED crashed
    \/ isWriting[k] /\ crashed' = "yes" /\ UNCHANGED <<isWriting, lost>>

WriteEnds(k) ==
    IF isWriting[k]
    THEN isWriting' = [isWriting EXCEPT ![k] = FALSE] /\ UNCHANGED crashed
    ELSE crashed' = "yes" /\ UNCHANGED isWriting

------------------------------------------------------------------------------
(* runCoordinator and connectCoordinator. *)

DialOk ==
    /\ Running
    /\ pc = "dial"
    /\ conn < MaxConns
    /\ conn' = conn + 1
    /\ sock' = [sock EXCEPT ![conn'] = "open"]
    /\ pc' = "hello"
    /\ UNCHANGED <<ctx, pinger, isWriting, opc, oconn, crashed, served, lost, closeSent>>

\* Refused, timed out, or given up because ctx is cancelled.
DialFails ==
    /\ Running
    /\ pc = "dial"
    /\ pc' = "failed"
    /\ UNCHANGED <<ctx, conn, sock, pinger, isWriting, opc, oconn, crashed, served,
                   lost, closeSent>>

\* The challenge is read and the registration sent; the ping goroutine starts.
Register ==
    /\ Running
    /\ pc = "hello"
    /\ sock[conn] = "open"
    /\ pc' = "serving"
    /\ pinger' = [pinger EXCEPT ![conn] = "idle"]
    /\ served' = served \cup {conn}
    /\ UNCHANGED <<ctx, conn, sock, isWriting, opc, oconn, crashed, lost, closeSent>>

\* Mutant: connectCoordinator does not close conn.
ConnectReturnsOpen ==
    /\ Running
    /\ pc' = "failed"
    /\ UNCHANGED <<ctx, conn, sock, pinger, isWriting, opc, oconn, crashed, served,
                   lost, closeSent>>

\* connectCoordinator returns: stopPing is closed, then conn.
ConnectReturns ==
    /\ Running
    /\ pc' = "failed"
    /\ sock' = [sock EXCEPT ![conn] = "closed"]
    /\ UNCHANGED <<ctx, conn, pinger, isWriting, opc, oconn, crashed, served, lost,
                   closeSent>>

\* Nothing but the end of the connection ends these reads: they have no deadline
\* and, before the registration, do not see ctx.
HandshakeFails == pc = "hello" /\ sock[conn] = "broken" /\ ConnectReturns

\* Mutant: the read loop watches ctx itself.
ReadFailsOnCancel ==
    /\ pc = "serving"
    /\ sock[conn] \in {"broken", "closed"} \/ ctx = "cancelled"
    /\ ConnectReturns

ReadFails == pc = "serving" /\ sock[conn] \in {"broken", "closed"} /\ ConnectReturns

ReceiveOffer(o) ==
    /\ Running
    /\ pc = "serving"
    /\ sock[conn] = "open"
    /\ opc[o] = "none"
    /\ opc' = [opc EXCEPT ![o] = "answering"]
    /\ oconn' = [oconn EXCEPT ![o] = conn]
    /\ UNCHANGED <<ctx, pc, conn, sock, pinger, isWriting, crashed, served, lost, closeSent>>

\* Mutant: an error of connectCoordinator ends the loop.
AfterFailureReturns ==
    /\ Running
    /\ pc = "failed"
    /\ pc' = "returned"
    /\ UNCHANGED <<ctx, conn, sock, pinger, isWriting, opc, oconn, crashed, served,
                   lost, closeSent>>

AfterFailure ==
    /\ Running
    /\ pc = "failed"
    /\ pc' = IF ctx = "cancelled" THEN "returned" ELSE "backoff"
    /\ UNCHANGED <<ctx, conn, sock, pinger, isWriting, opc, oconn, crashed, served,
                   lost, closeSent>>

\* The select on the backoff timer and ctx.Done().
BackoffEnds ==
    /\ Running
    /\ pc = "backoff"
    /\ \/ pc' = "dial"
       \/ ctx = "cancelled" /\ pc' = "returned"
    /\ UNCHANGED <<ctx, conn, sock, pinger, isWriting, opc, oconn, crashed, served,
                   lost, closeSent>>

------------------------------------------------------------------------------
(* The ping goroutine. *)

PingStart(k) ==
    /\ Running
    /\ pinger[k] = "idle"
    /\ pinger' = [pinger EXCEPT ![k] = "pinging"]
    /\ WriteBegins(k)
    /\ UNCHANGED <<ctx, pc, conn, sock, opc, oconn, served, closeSent>>

PingEnd(k) ==
    /\ Running
    /\ pinger[k] = "pinging"
    /\ pinger' = [pinger EXCEPT ![k] = "idle"]
    /\ WriteEnds(k)
    /\ UNCHANGED <<ctx, pc, conn, sock, opc, oconn, served, lost, closeSent>>

\* Mutant: stopPing is never closed.
PingerStopsNever(k) ==
    /\ Running
    /\ pinger[k] = "idle" /\ sock[k] = "none"
    /\ UNCHANGED vars

\* stopPing is closed once connectCoordinator has returned.
PingerStops(k) ==
    /\ Running
    /\ pinger[k] = "idle"
    /\ ~(pc = "serving" /\ conn = k)
    /\ pinger' = [pinger EXCEPT ![k] = "stopped"]
    /\ UNCHANGED <<ctx, pc, conn, sock, isWriting, opc, oconn, crashed, served, lost,
                   closeSent>>

CloseStart(k) ==
    /\ Running
    /\ pinger[k] = "idle"
    /\ ctx = "cancelled"
    /\ pinger' = [pinger EXCEPT ![k] = "closing"]
    /\ WriteBegins(k)
    /\ UNCHANGED <<ctx, pc, conn, sock, opc, oconn, served, closeSent>>

\* Mutant: conn.Close() is left to the coordinator.
CloseEndOpen(k) ==
    /\ Running
    /\ pinger[k] = "closing"
    /\ pinger' = [pinger EXCEPT ![k] = "stopped"]
    /\ closeSent' = IF sock[k] = "open" /\ k \notin lost
                     THEN closeSent \cup {k} ELSE closeSent
    /\ WriteEnds(k)
    /\ UNCHANGED <<ctx, pc, conn, sock, opc, oconn, served, lost>>

\* MsgClose has been written, or could not be; conn.Close() and the end.
CloseEnd(k) ==
    /\ Running
    /\ pinger[k] = "closing"
    /\ pinger' = [pinger EXCEPT ![k] = "stopped"]
    /\ closeSent' = IF sock[k] = "open" /\ k \notin lost
                     THEN closeSent \cup {k} ELSE closeSent
    /\ sock' = [sock EXCEPT ![k] = "closed"]
    /\ WriteEnds(k)
    /\ UNCHANGED <<ctx, pc, conn, opc, oconn, served, lost>>

------------------------------------------------------------------------------
(* handleCoordOffer. *)

\* handleOffer or the encoding failed: no answer is sent.
AnswerFails(o) ==
    /\ Running
    /\ opc[o] = "answering"
    /\ opc' = [opc EXCEPT ![o] = "done"]
    /\ UNCHANGED <<ctx, pc, conn, sock, pinger, isWriting, oconn, crashed, served,
                   lost, closeSent>>

AnswerStart(o) ==
    /\ Running
    /\ opc[o] = "answering"
    /\ opc' = [opc EXCEPT ![o] = "writing"]
    /\ WriteBegins(oconn[o])
    /\ UNCHANGED <<ctx, pc, conn, sock, pinger, oconn, served, closeSent>>

AnswerEnd(o) ==
    /\ Running
    /\ opc[o] = "writing"
    /\ opc' = [opc EXCEPT ![o] = "done"]
    /\ WriteEnds(oconn[o])
    /\ UNCHANGED <<ctx, pc, conn, sock, pinger, oconn, served, lost, closeSent>>

------------------------------------------------------------------------------
(* The outside: a signal, the coordinator and the network. *)

Cancel ==
    /\ Running
    /\ ctx = "live"
    /\ ctx' = "cancelled"
    /\ UNCHANGED <<pc, conn, sock, pinger, isWriting, opc, oconn, crashed, served,
                   lost, closeSent>>

Breaks(k, from, to) ==
    /\ Running
    /\ sock[k] \in from
    /\ sock' = [sock EXCEPT ![k] = to]
    /\ lost' = lost \cup {k}
    /\ UNCHANGED <<ctx, pc, conn, pinger, isWriting, opc, oconn, crashed, served,
                   closeSent>>

PeerCloses(k)  == Breaks(k, {"open"}, "broken")
PeerSilent(k)  == Breaks(k, {"open"}, "silent")
TcpGivesUp(k)  == Breaks(k, {"silent"}, "broken")

------------------------------------------------------------------------------
LoopStep == DialFails \/ HandshakeFails \/ ReadFails \/ AfterFailure \/ BackoffEnds
PingerStep(k) == PingEnd(k) \/ PingerStops(k) \/ CloseEnd(k)
AnswerStep(o) == AnswerFails(o) \/ AnswerStart(o) \/ AnswerEnd(o)

Next ==
    \/ LoopStep \/ DialOk \/ Register \/ Cancel
    \/ \E k \in Conns : \/ PingerStep(k) \/ PingStart(k) \/ CloseStart(k)
                        \/ PeerCloses(k) \/ PeerSilent(k) \/ TcpGivesUp(k)
    \/ \E o \in Offer : ReceiveOffer(o) \/ AnswerStep(o)

Spec == Init /\ [][Next]_vars

\* Goroutines run; a select does not forever prefer the ticker; a write ends
\* unless the peer is silent; a peer stays silent only as long as the kernel
\* allows; a coordinator that is there answers a hello or closes (its 15 s read
\* deadline).
Fairness ==
    /\ WF_vars(LoopStep)
    /\ WF_vars(pc = "hello" /\ (Register \/ PeerCloses(conn)))
    /\ \A k \in Conns :
          /\ WF_vars(sock[k] # "silent" /\ (PingEnd(k) \/ CloseEnd(k)))
          /\ SF_vars(PingerStops(k))
          /\ SF_vars(CloseStart(k))
          /\ WF_vars(TcpGivesUp(k))
    /\ \A o \in Offer :
          WF_vars(oconn[o] # NoConn /\ sock[oconn[o]] # "silent" /\ AnswerStep(o))

FairSpec == Spec /\ Fairness

------------------------------------------------------------------------------
(* Safety. *)

\* A node that shuts down tells the coordinator so on every connection it served
\* that has not broken, with no concurrent write to garble it: the coordinator unlists it at once, not by a timeout.
CleanExit == pc = "returned" => served \subseteq closeSent \cup lost

\* The node never has two connections to a coordinator: a new one is dialled only
\* after conn.Close() of the one before, so it cannot be registered twice by
\* its own doing.
OneConnection ==
    \A k \in Conns : sock[k] \in {"open", "silent", "broken"} =>
        k = conn /\ pc \in {"hello", "serving"}

\* Why both hold.
IInv ==
    /\ TypeOK
    /\ OneConnection
    /\ pc \in {"hello", "serving"} => conn \in Conns
    /\ \A k \in Conns : k > conn => sock[k] = "none" /\ pinger[k] = "none"
    /\ \A k \in Conns : sock[k] \in {"silent", "broken"} => k \in lost
    /\ \A k \in served : sock[k] = "open" \/ k \in closeSent \cup lost
    /\ \A o \in Offer : opc[o] # "none" => oconn[o] \in Conns

------------------------------------------------------------------------------
(* Liveness. *)

\* A signal ends the process, whatever the connection is doing.
ShutdownCompletes == ctx = "cancelled" ~> ~Running

\* A connection that is lost, though nothing reads or writes it at that moment, and a
\* dial or a handshake that fails lead to another dial, unless the node is told to stop.
Reconnects ==
    (pc = "failed" \/ \E k \in Conns : sock[k] \in {"silent", "broken"})
        ~> (pc = "dial" \/ ctx = "cancelled" \/ crashed = "yes")

\* The ping goroutine of a finished connection ends.
NoPingerLeak ==
    \A k \in Conns :
        sock[k] = "closed" ~> (pinger[k] \in {"none", "stopped"} \/ ~Running)

------------------------------------------------------------------------------
(* What the documentation says and the code does not do. *)

\* node/coord_client.go:40: the node handles offers until ctx is cancelled.
NeverCrashes == crashed = "no"
==============================================================================
