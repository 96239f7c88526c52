------------------------------ MODULE CliClient ------------------------------
(***************************************************************************)
(* cli-client from its open channel to its exit: the service name, the      *)
(* messages and the replies it waits for, and the echo server behind them.    *)
(* Dial.tla is the way there, and the other client.                          *)
(*                                                                         *)
(* What the echo server has written for message m is the two halves 2m-1 and *)
(* 2m: the node reads a byte stream and sends on whatever a read returned,    *)
(* which DataChannel.tla shows to arrive in order.                           *)
(***************************************************************************)
EXTENDS Dial, Sequences

CONSTANTS MaxMsgs,     \* messages of --messages
          ReceivedCap  \* capacity of received (32 in the code)

ASSUME MessagesAssumption == MaxMsgs \in Nat \ {0} /\ ReceivedCap \in Nat \ {0}

Msg == 1..MaxMsgs
Half == 1..(2 * MaxMsgs)
Reply(m) == <<2 * m - 1, 2 * m>>

\* What the first message is to the node: a service name, as the cli means it, or,
\* if --service says so, the text of a connect command.
Service == {"name", "connect"}

Ok == <<0>>
Err == <<2 * MaxMsgs + 1>>

VARIABLES
    service,  \* what --service holds
    far,      \* the far end: "none", "asked", "bridged" or "refused"
    link,     \* the channel and the TCP connection: "up", "lost" or "closed"
    msg,      \* number of messages sent or skipped
    ok,
    atEcho,   \* messages the echo server has not read
    down,     \* bytes of it on their way to the cli, as halves of replies
    received, \* the channel of the OnMessage callback
    got       \* what the cli took for the reply to each message (history)

talkVars == <<service, far, link, msg, ok, atEcho, down, received, got>>
cliVars == <<dialVars, talkVars>>

CliTypeOK ==
    /\ TypeOK
    /\ service \in Service
    /\ far \in {"none", "asked", "bridged", "refused"}
    /\ link \in {"up", "lost", "closed"}
    /\ msg \in 0..MaxMsgs
    /\ ok \in BOOLEAN
    /\ atEcho \in Seq(Msg)
    /\ down \in Seq(Half)
    /\ received \in Seq(Seq(0..(2 * MaxMsgs + 1))) /\ Len(received) <= ReceivedCap
    /\ got \in [Msg -> Seq(Half)]

Init ==
    /\ DialInit
    /\ service \in Service
    /\ far = "none"
    /\ link = "up"
    /\ msg = 0
    /\ ok = TRUE
    /\ atEcho = <<>>
    /\ down = <<>>
    /\ received = <<>>
    /\ got = [m \in Msg |-> <<>>]

\* The cli moves on, and its connection with it.
Goes(to) ==
    /\ at' = to
    /\ UNCHANGED <<who, try, registry, target, npc, call, left, offerVars>>

Fatal == Goes("exit") /\ cpc' = [cpc EXCEPT ![try] = "closed"]

------------------------------------------------------------------------------
(* The handshake. *)

\* The send fails on a channel that has closed.
SendService ==
    /\ who # "dial" /\ at = "up"
    /\ \/ link = "closed" /\ Fatal /\ UNCHANGED far
       \/ /\ link # "closed" /\ Goes("ack") /\ UNCHANGED cpc
          /\ far' = IF link = "up" THEN "asked" ELSE far
    /\ UNCHANGED <<service, link, msg, ok, atEcho, down, received, got>>

TakeAck ==
    /\ at = "ack" /\ received # <<>>
    /\ \/ Head(received) = Ok /\ Goes("send") /\ UNCHANGED cpc
       \/ Head(received) # Ok /\ Fatal
    /\ received' = Tail(received)
    /\ UNCHANGED <<service, far, link, msg, ok, atEcho, down, got>>

\* 10 s.
AckTimeout ==
    /\ at = "ack"
    /\ Fatal
    /\ UNCHANGED talkVars

------------------------------------------------------------------------------
(* The messages. *)

\* Mutant: a message whose send failed is sent again.
SendMsgRetries ==
    /\ at = "send" /\ msg < MaxMsgs
    /\ \/ link = "closed" /\ ok' = FALSE /\ UNCHANGED <<at, atEcho, msg>>
       \/ /\ link # "closed" /\ at' = "reply" /\ msg' = msg + 1 /\ UNCHANGED ok
          /\ atEcho' = IF link = "up" THEN Append(atEcho, msg') ELSE atEcho
    /\ UNCHANGED <<who, try, registry, target, cpc, npc, call, left, offerVars>>
    /\ UNCHANGED <<service, far, link, down, received, got>>

SendMsg ==
    /\ at = "send" /\ msg < MaxMsgs
    /\ msg' = msg + 1
    /\ \/ link = "closed" /\ ok' = FALSE /\ UNCHANGED <<at, atEcho>>
       \/ /\ link # "closed" /\ at' = "reply" /\ UNCHANGED ok
          /\ atEcho' = IF link = "up" THEN Append(atEcho, msg') ELSE atEcho
    /\ UNCHANGED <<who, try, registry, target, cpc, npc, call, left, offerVars>>
    /\ UNCHANGED <<service, far, link, down, received, got>>

\* Whatever comes first is the reply.
TakeReply ==
    /\ at = "reply" /\ received # <<>>
    /\ got' = [got EXCEPT ![msg] = Head(received)]
    /\ received' = Tail(received)
    /\ Goes("send")
    /\ UNCHANGED <<cpc, service, far, link, msg, ok, atEcho, down>>

\* Mutant: a timeout is reported and not counted.
ReplyTimeoutForgiven ==
    /\ at = "reply"
    /\ Goes("send")
    /\ UNCHANGED <<cpc, talkVars>>

\* 5 s; the answer may still come.
ReplyTimeout ==
    /\ at = "reply"
    /\ ok' = FALSE
    /\ Goes("send")
    /\ UNCHANGED <<cpc, service, far, link, msg, atEcho, down, received, got>>

\* Closes the connection and prints PASS or FAIL.
Finish ==
    /\ at = "send" /\ msg = MaxMsgs
    /\ at' = IF ok THEN "passed" ELSE "exit"
    /\ cpc' = [cpc EXCEPT ![try] = "closed"]
    /\ UNCHANGED <<who, try, registry, target, npc, call, left, offerVars, talkVars>>

------------------------------------------------------------------------------
(* The far end and what is between. *)

Alive == who # "dial" /\ at \notin {"exit", "passed"}
CanReceive == Alive /\ link = "up" /\ Len(received) < ReceivedCap

\* The node's command loop: connect for a service that it knows and can dial is
\* obeyed, all else has an error reply.  The other signalling server may do either.
FarAnswers ==
    /\ far = "asked" /\ CanReceive
    /\ \/ /\ who = "signal" \/ service = "connect"
          /\ far' = "bridged" /\ received' = Append(received, Ok)
       \/ far' = "refused" /\ received' = Append(received, Err)
    /\ UNCHANGED <<dialVars, service, link, msg, ok, atEcho, down, got>>

\* handle of the echo server: a line, and its reply.
EchoHandle ==
    /\ far = "bridged" /\ link = "up" /\ Alive
    /\ atEcho # <<>>
    /\ atEcho' = Tail(atEcho)
    /\ down' = down \o Reply(Head(atEcho))
    /\ UNCHANGED <<dialVars, service, far, link, msg, ok, received, got>>

\* The node's read returns any part of what has come, and it is one message.
Delivers ==
    /\ CanReceive
    /\ \E n \in 1..Len(down) :
        /\ received' = Append(received, SubSeq(down, 1, n))
        /\ down' = SubSeq(down, n + 1, Len(down))
    /\ UNCHANGED <<dialVars, service, far, link, msg, ok, atEcho, got>>

LinkLost ==
    /\ Alive /\ at \in {"up", "ack", "send", "reply"} /\ link = "up"
    /\ link' = "lost"
    /\ UNCHANGED <<dialVars, service, far, msg, ok, atEcho, down, received, got>>

LinkCloses ==
    /\ Alive /\ link = "lost"
    /\ link' = "closed"
    /\ UNCHANGED <<dialVars, service, far, msg, ok, atEcho, down, received, got>>

------------------------------------------------------------------------------
CliStep ==
    \/ SendService \/ TakeAck \/ AckTimeout
    \/ SendMsg \/ TakeReply \/ ReplyTimeout \/ Finish

FarStep == FarAnswers \/ EchoHandle \/ Delivers \/ LinkLost \/ LinkCloses

Next == (DialNext /\ UNCHANGED talkVars) \/ CliStep \/ FarStep

\* cli-client waits for nothing without a timer once it has its answer.
Fairness == DialFairness /\ WF_cliVars(CliStep)

Spec == Init /\ [][Next]_cliVars /\ Fairness

------------------------------------------------------------------------------
(* Safety and liveness. *)

\* The cli does not match replies with messages.  Still, when it says PASS and every
\* message that it took was a whole line of the echo server, each message got its own
\* line: a line taken by another message implies a timeout, which fails the run.
WholeLines == {<<>>} \cup {Reply(m) : m \in Msg}
PassIsPaired ==
    at = "passed" /\ (\A m \in Msg : got[m] \in WholeLines)
        => \A m \in Msg : got[m] = Reply(m)

\* PASS through the coordinator needs --service to hold a connect command: the node
\* refuses the bare name that the cli is meant to send, and that exit is a failure.
PassNeedsConnect == at = "passed" /\ who = "cli" => service = "connect"

\* Whatever the node and the service do, the cli exits, unless the listing or the answer
\* to its offer never comes: its three requests (main.go:87, 171 and 202) are the only
\* waits on another program that have no timer.
CliExits == (who # "dial" /\ at = "start") ~> (at \in {"exit", "passed"} \/ []AwaitsReply)

------------------------------------------------------------------------------
(* What makes PassIsPaired and PassNeedsConnect inductive. *)

Silent == atEcho = <<>> /\ down = <<>> /\ received = <<>>

\* What is left of message m: not read, not delivered, in one piece or in two, or lost.
Outstanding(m) ==
    \/ Silent /\ link # "up"
    \/ atEcho = <<m>> /\ down = <<>> /\ received = <<>>
    \/ /\ atEcho = <<>>
       /\ \/ down = Reply(m) /\ received = <<>>
          \/ down = <<2 * m>> /\ received = <<<<2 * m - 1>>>>
          \/ down = <<>> /\ received = <<Reply(m)>>
          \/ down = <<>> /\ received = <<<<2 * m - 1>>, <<2 * m>>>>

AllWhole == \A m \in Msg : got[m] \in WholeLines
PairedTo(n) == \A m \in Msg : m <= n => got[m] = Reply(m)

HandshakeInv ==
    /\ at \notin {"ack", "send", "reply", "passed", "exit"} => far = "none"
    /\ at \notin {"send", "reply", "passed", "exit"} =>
          /\ atEcho = <<>> /\ down = <<>> /\ msg = 0 /\ ok
          /\ far = "none" => received = <<>>
    /\ at = "ack" => \/ far \in {"none", "asked"} /\ received = <<>>
                     \/ far = "bridged" /\ received = <<Ok>>
                     \/ far = "refused" /\ received = <<Err>>
    /\ at \in {"send", "reply", "passed"} => far = "bridged"
    /\ far = "bridged" => who = "signal" \/ service = "connect"
    /\ at \in {"send", "reply"} => received \in Seq(Seq(Half))

\* While no reply has timed out, nothing is left of an earlier message.
PairInv ==
    /\ \A m \in Msg : m > msg \/ (m = msg /\ at = "reply") => got[m] = <<>>
    /\ at = "reply" => msg \in Msg
    /\ at = "send" /\ ok /\ AllWhole => Silent /\ PairedTo(msg)
    /\ at = "reply" /\ ok /\ AllWhole => Outstanding(msg) /\ PairedTo(msg - 1)
    /\ at = "passed" /\ AllWhole => PairedTo(MaxMsgs)

IInv == CliTypeOK /\ TryInv /\ HandshakeInv /\ PairInv
==============================================================================
