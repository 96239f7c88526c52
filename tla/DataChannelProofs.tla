-------------------------- MODULE DataChannelProofs --------------------------
(***************************************************************************)
(* Proofs about DataChannel, for any secrets, any capacity of buf and any    *)
(* number of messages and chunks.                                           *)
(***************************************************************************)
EXTENDS DataChannel, SequenceTheorems, TLAPS

USE ChannelAssumption DEF vars, chanVars, loopVars, tcpVars

\* Messages of the client: their parts, and what is one.
LEMMA MessageFacts ==
  /\ NoMsg \in Message
  /\ \A m \in Message : m.n \in Nat /\ m.key \in Key \cup {NoKey}
  /\ \A c \in Command, k \in Nat : [n |-> k, cmd |-> c.cmd, key |-> c.key] \in Message
  BY DEF NoMsg, Message, Command

\* Replies of the node: their parts, and what is one.
LEMMA ReplyFacts ==
  /\ Text \in Replies /\ Ok \in Replies
  /\ Text.type = "text" /\ Ok.type = "ok"
  /\ Text.r = 0 /\ Ok.r = 0
  /\ \A n \in Nat : Data(n) \in Replies /\ Data(n).type = "data" /\ Data(n).r = n
  /\ \A r \in Nat, k \in Key \cup {NoKey} :
        Reply("response", r, k) \in Replies /\ Reply("proof", r, k) \in Replies
  /\ \A m \in Replies : m.r \in Nat
  BY DEF Text, Ok, Data, Reply, Replies

\* A sequence with one more element: what its elements are.
LEMMA AppendFacts ==
  ASSUME NEW S, NEW s \in Seq(S), NEW e \in S
  PROVE  /\ Append(s, e) \in Seq(S)
         /\ Len(Append(s, e)) = Len(s) + 1
         /\ Len(s) \in Nat
         /\ \A i \in 1..Len(s) + 1 : Append(s, e)[i] = IF i = Len(s) + 1 THEN e ELSE s[i]
  BY AppendProperties, LenProperties

\* A sequence without its first element: what its elements are.
LEMMA TailFacts ==
  ASSUME NEW S, NEW s \in Seq(S), s # <<>>
  PROVE  /\ Head(s) \in S /\ Head(s) = s[1] /\ Tail(s) \in Seq(S)
         /\ Len(s) \in Nat \ {0}
         /\ Len(Tail(s)) = Len(s) - 1
         /\ \A i \in 1..Len(s) - 1 : Tail(s)[i] = s[i + 1]
  BY HeadTailProperties, EmptySeq

------------------------------------------------------------------------------
(* Type correctness. *)

\* A channel that has just been opened is well typed.
LEMMA TypeOKInit == Init => TypeOK
  <1> SUFFICES ASSUME Init PROVE TypeOK
    OBVIOUS
  <1>1. ChanTypes
    <2>1. wire \in Seq(Message) /\ buf \in Seq(Message) /\ held \in Message
      BY MessageFacts DEF Init
    <2>2. bufClosed \in BOOLEAN
      BY DEF Init
    <2> QED
      BY <2>1, <2>2 DEF Init, ChanTypes
  <1>2. LoopTypes
    BY DEF Init, LoopTypes
  <1>3. TcpTypes
    BY DEF Init, TcpTypes
  <1>4. BridgeTypes
    BY DEF Init, BridgeTypes
  <1> QED
    BY <1>1, <1>2, <1>3, <1>4 DEF TypeOK

\* What the node sends is a reply, or nothing is sent.
LEMMA SentType ==
  ASSUME LoopTypes, NEW m \in Replies, Sent(m)
  PROVE  down' \in Seq(Replies)
  BY AppendFacts DEF LoopTypes, Sent

\* Steps of the client, of pion and of the loop keep the types of the channel.
LEMMA ChanTypesStep ==
  ASSUME TypeOK, [Next]_vars
  PROVE  ChanTypes'
  <1> USE DEF TypeOK, ChanTypes
  <1>1. CASE ClientSend
    <2>1. PICK c \in Command :
             wire' = Append(wire, [n |-> next', cmd |-> c.cmd, key |-> c.key])
      BY <1>1 DEF ClientSend
    <2>2. next' \in Nat /\ [n |-> next', cmd |-> c.cmd, key |-> c.key] \in Message
      BY <1>1, MessageFacts DEF ClientSend
    <2>3. wire' \in Seq(Message)
      BY <2>1, <2>2, AppendFacts
    <2> QED
      BY <1>1, <2>2, <2>3 DEF ClientSend
  <1>2. CASE ClientCloses \/ ClientVanishes \/ ClientAcks
    BY <1>2 DEF ClientCloses, ClientVanishes, ClientAcks, ClientEnds
  <1>3. CASE ServiceSends \/ ServiceEnds \/ UNCHANGED vars
    BY <1>3 DEF ServiceSends, ServiceEnds
  <1>4. CASE PionStep
    <2>1. CASE ReadMessage
      BY <2>1, TailFacts DEF ReadMessage
    <2>2. CASE OnMessage
      BY <2>2, AppendFacts, MessageFacts DEF OnMessage
    <2>3. CASE ReadLoopEnds \/ OnClose
      BY <2>3 DEF ReadLoopEnds, OnClose
    <2> QED
      BY <1>4, <2>1, <2>2, <2>3 DEF PionStep
  <1>5. CASE LoopStep
    <2>1. CASE LoopEnds \/ DialFails \/ DialOk
      BY <2>1 DEF LoopEnds, DialFails, DialOk, ClosesDc
    <2>2. CASE Plain \/ Challenge \/ Verify \/ ConnectUnknown \/ Connect
      <3>1. buf # <<>> /\ buf' = Tail(buf)
        BY <2>2 DEF Plain, Challenge, Verify, ConnectUnknown, Connect, Takes
      <3>2. buf' \in Seq(Message)
        BY <3>1, TailFacts
      <3> QED
        BY <2>2, <3>2 DEF Plain, Challenge, Verify, ConnectUnknown, Connect, Takes,
                          ClosesDc
    <2> QED
      BY <1>5, <2>1, <2>2 DEF LoopStep
  <1>6. CASE WriterStep
    <2>1. CASE WriteTcp \/ WriteTcpFails
      <3>1. buf # <<>> /\ buf' = Tail(buf)
        BY <2>1 DEF WriteTcp, WriteTcpFails
      <3>2. buf' \in Seq(Message)
        BY <3>1, TailFacts
      <3> QED
        BY <2>1, <3>2 DEF WriteTcp, WriteTcpFails
    <2>2. CASE WriterEnds \/ WriterCleanup
      BY <2>2 DEF WriterEnds, WriterCleanup, Cleanup, ClosesDc
    <2> QED
      BY <1>6, <2>1, <2>2 DEF WriterStep
  <1>7. CASE ReaderStep
    BY <1>7 DEF ReaderStep, ReadTcp, ReadTcpEnds, ReaderCleanup, Cleanup, ClosesDc
  <1> QED
    BY <1>1, <1>2, <1>3, <1>4, <1>5, <1>6, <1>7 DEF Next

\* Every step keeps the types of the command loop and of what is sent.
LEMMA LoopTypesStep ==
  ASSUME TypeOK, [Next]_vars
  PROVE  LoopTypes'
  <1> USE DEF TypeOK
  <1>1. CASE \/ ClientSend \/ ClientCloses \/ ClientVanishes \/ ClientAcks
             \/ ServiceSends \/ ServiceEnds \/ UNCHANGED vars \/ PionStep \/ WriterStep
    BY <1>1 DEF LoopTypes, ClientSend, ClientCloses, ClientVanishes, ClientAcks,
                ClientEnds, ServiceSends, ServiceEnds, PionStep, ReadMessage, OnMessage,
                ReadLoopEnds, OnClose, WriterStep, WriteTcp, WriteTcpFails, WriterEnds,
                WriterCleanup, Cleanup
  <1>2. CASE LoopEnds
    BY <1>2 DEF LoopEnds, LoopTypes
  <1>3. CASE Plain \/ ConnectUnknown
    <2>1. down' \in Seq(Replies)
      BY <1>3, SentType, ReplyFacts DEF Plain, ConnectUnknown
    <2> QED
      BY <1>3, <2>1 DEF LoopTypes, Plain, ConnectUnknown
  <1>4. CASE Challenge
    <2>1. Head(buf) \in Message
      BY <1>4, TailFacts DEF Challenge, Takes, ChanTypes
    <2>2. commitment' \in Key \cup {NoKey} /\ rNode' \in Nat
      BY <1>4, <2>1, MessageFacts DEF Challenge
    <2>3. Reply("response", rNode', commitment') \in Replies /\ Text \in Replies
      BY <2>2, ReplyFacts
    <2>4. down' \in Seq(Replies)
      BY <1>4, <2>3, SentType DEF Challenge
    <2> QED
      BY <1>4, <2>2, <2>4 DEF LoopTypes, Challenge
  <1>5. CASE Verify
    <2>1. Reply("proof", rNode, commitment) \in Replies /\ Text \in Replies
      BY ReplyFacts DEF LoopTypes
    <2>2. down' \in Seq(Replies)
      BY <1>5, <2>1, SentType DEF Verify
    <2> QED
      BY <1>5, <2>2 DEF LoopTypes, Verify
  <1>6. CASE Connect
    <2>1. Head(buf).n \in Nat
      BY <1>6, TailFacts, MessageFacts DEF Connect, Takes, ChanTypes
    <2> QED
      BY <1>6, <2>1 DEF LoopTypes, Connect
  <1>7. CASE DialFails \/ DialOk
    <2>1. down' \in Seq(Replies)
      BY <1>7, SentType, ReplyFacts DEF DialFails, DialOk
    <2> QED
      BY <1>7, <2>1 DEF LoopTypes, DialFails, DialOk
  <1>8. CASE ReadTcp
    <2>1. down' \in Seq(Replies)
      BY <1>8, SentType, ReplyFacts, TailFacts DEF ReadTcp, TcpTypes
    <2> QED
      BY <1>8, <2>1 DEF LoopTypes, ReadTcp
  <1>9. CASE ReadTcpEnds \/ ReaderCleanup
    BY <1>9 DEF LoopTypes, ReadTcpEnds, ReaderCleanup, Cleanup
  <1> QED
    BY <1>1, <1>2, <1>3, <1>4, <1>5, <1>6, <1>7, <1>8, <1>9
    DEF Next, LoopStep, ReaderStep

\* Every step keeps the types of the TCP connection.
LEMMA TcpTypesStep ==
  ASSUME TypeOK, [Next]_vars
  PROVE  TcpTypes'
  <1> USE DEF TypeOK
  <1>1. CASE \/ ClientSend \/ ClientCloses \/ ClientVanishes \/ ClientAcks
             \/ UNCHANGED vars \/ PionStep
    BY <1>1 DEF TcpTypes, ClientSend, ClientCloses, ClientVanishes, ClientAcks,
                ClientEnds, PionStep, ReadMessage, OnMessage, ReadLoopEnds, OnClose
  <1>2. CASE ServiceSends
    <2>1. chunks' \in Nat /\ unread \in Seq(Nat) /\ unread' = Append(unread, chunks')
      BY <1>2 DEF TcpTypes, ServiceSends
    <2>2. unread' \in Seq(Nat)
      BY <2>1, AppendFacts
    <2> QED
      BY <1>2, <2>1, <2>2 DEF TcpTypes, ServiceSends
  <1>8. CASE ServiceEnds
    BY <1>8 DEF TcpTypes, ServiceEnds
  <1>3. CASE LoopStep
    BY <1>3 DEF TcpTypes, LoopStep, LoopEnds, Plain, Challenge, Verify, Takes,
                ConnectUnknown, Connect, DialFails, DialOk
  <1>4. CASE WriteTcp
    <2>1. Head(buf).n \in Nat
      BY <1>4, TailFacts, MessageFacts DEF WriteTcp, ChanTypes
    <2>2. toTcp' \in Seq(Nat)
      BY <1>4, <2>1, AppendFacts DEF WriteTcp, TcpTypes
    <2> QED
      BY <1>4, <2>2 DEF WriteTcp, TcpTypes
  <1>5. CASE WriteTcpFails \/ WriterEnds \/ WriterCleanup
    BY <1>5 DEF TcpTypes, WriteTcpFails, WriterEnds, WriterCleanup, Cleanup
  <1>6. CASE ReadTcp
    <2>1. unread \in Seq(Nat) /\ unread # <<>> /\ unread' = Tail(unread)
      BY <1>6 DEF ReadTcp, TcpTypes
    <2>2. unread' \in Seq(Nat)
      BY <2>1, TailFacts
    <2> QED
      BY <1>6, <2>2 DEF ReadTcp, TcpTypes
  <1>7. CASE ReadTcpEnds \/ ReaderCleanup
    BY <1>7 DEF TcpTypes, ReadTcpEnds, ReaderCleanup, Cleanup
  <1> QED
    BY <1>1, <1>2, <1>3, <1>4, <1>5, <1>6, <1>7, <1>8 DEF Next, WriterStep, ReaderStep

\* Every step keeps the types of the goroutines of the bridge.
LEMMA BridgeTypesStep ==
  ASSUME TypeOK, [Next]_vars
  PROVE  BridgeTypes'
  <1> USE DEF TypeOK, BridgeTypes
  <1>1. CASE \/ ClientSend \/ ClientCloses \/ ClientVanishes \/ ClientAcks
             \/ ServiceSends \/ ServiceEnds \/ UNCHANGED vars \/ PionStep
    BY <1>1 DEF ClientSend, ClientCloses, ClientVanishes, ClientAcks,
                ClientEnds, PionStep, ReadMessage, OnMessage, ReadLoopEnds, OnClose,
                ServiceSends, ServiceEnds
  <1>2. CASE LoopStep
    BY <1>2 DEF LoopStep, LoopEnds, Plain, Challenge, Verify, Takes,
                ConnectUnknown, Connect, DialFails, DialOk
  <1>3. CASE WriterStep
    BY <1>3 DEF WriterStep, WriteTcp, WriteTcpFails, WriterEnds, WriterCleanup, Cleanup,
                Cut
  <1>4. CASE ReadTcp
    BY <1>4 DEF ReadTcp, Cut
  <1>5. CASE ReadTcpEnds \/ ReaderCleanup
    BY <1>5 DEF ReadTcpEnds, ReaderCleanup, Cleanup, Cut
  <1> QED
    BY <1>1, <1>2, <1>3, <1>4, <1>5 DEF Next, ReaderStep

\* Every variable keeps its type.
THEOREM TypeCorrect == Spec => []TypeOK
  <1>1. TypeOK /\ [Next]_vars => TypeOK'
    BY ChanTypesStep, LoopTypesStep, TcpTypesStep, BridgeTypesStep DEF TypeOK
  <1> QED
    BY <1>1, TypeOKInit, PTL DEF Spec

------------------------------------------------------------------------------
(* The end of the channel. *)

\* A new channel is open on every side.
LEMMA EndsInit == Init => EndsInOrder
  BY DEF Init, EndsInOrder

\* Only pion's read loop starts OnClose, and only OnClose closes buf.
LEMMA EndsStep ==
  ASSUME TypeOK, EndsInOrder, [Next]_vars
  PROVE  EndsInOrder'
  <1> USE DEF EndsInOrder
  <1>1. CASE ClientSend
    BY <1>1 DEF ClientSend
  <1>2. CASE ClientCloses \/ ClientVanishes \/ ClientAcks
    BY <1>2 DEF ClientCloses, ClientVanishes, ClientAcks, ClientEnds
  <1>3. CASE ServiceSends \/ ServiceEnds \/ UNCHANGED vars
    BY <1>3 DEF ServiceSends, ServiceEnds
  <1>4. CASE ReadMessage \/ OnMessage
    BY <1>4 DEF ReadMessage, OnMessage
  <1>5. CASE ReadLoopEnds
    BY <1>5 DEF ReadLoopEnds
  <1>6. CASE OnClose
    BY <1>6 DEF OnClose
  <1>7. CASE LoopStep \/ WriterStep \/ ReaderStep
    <2>1. UNCHANGED <<rl, onClose, bufClosed, client, wire>>
      <3>1. CASE LoopStep
        BY <3>1 DEF LoopStep, LoopEnds, Plain, Challenge, Verify, Takes, ConnectUnknown,
                    Connect, DialFails, DialOk
      <3>2. CASE WriterStep
        BY <3>2 DEF WriterStep, WriteTcp, WriteTcpFails, WriterEnds, WriterCleanup,
                    Cleanup
      <3>3. CASE ReaderStep
        BY <3>3 DEF ReaderStep, ReadTcp, ReadTcpEnds, ReaderCleanup, Cleanup
      <3> QED
        BY <1>7, <3>1, <3>2, <3>3
    <2> QED
      BY <2>1
  <1> QED
    BY <1>1, <1>2, <1>3, <1>4, <1>5, <1>6, <1>7 DEF Next, PionStep

\* OnMessage never sends on a closed buf.
THEOREM NeverSendsOnClosed == Spec => []NoSendOnClosed
  <1>1. EndsInOrder => NoSendOnClosed
    BY DEF EndsInOrder, NoSendOnClosed
  <1> QED
    BY <1>1, EndsInit, EndsStep, TypeCorrect, PTL DEF Spec

------------------------------------------------------------------------------
(* The messages of the client pass through wire, held and buf in order. *)

\* The next message of buf is taken, by the command loop or by the bridge.
TakesMessage ==
  /\ UNCHANGED <<next, wire, rl, held>>
  /\ buf # <<>> /\ buf' = Tail(buf)

\* Nothing moves in the queues.
LeavesQueues ==
  /\ UNCHANGED <<next, wire, held, buf>>
  /\ (rl = "holding") = (rl' = "holding")

\* What a step may do to the queues.
LEMMA QueueSteps ==
  ASSUME [Next]_vars
  PROVE  ClientSend \/ ReadMessage \/ OnMessage \/ TakesMessage \/ LeavesQueues
  <1>1. CASE \/ ClientCloses \/ ClientVanishes \/ ClientAcks
             \/ ServiceSends \/ ServiceEnds \/ UNCHANGED vars
    BY <1>1 DEF LeavesQueues, ClientCloses, ClientVanishes, ClientAcks, ClientEnds,
                ServiceSends, ServiceEnds
  <1>2. CASE ReadLoopEnds \/ OnClose
    BY <1>2 DEF LeavesQueues, ReadLoopEnds, OnClose
  <1>3. CASE Plain \/ Challenge \/ Verify \/ ConnectUnknown \/ Connect
    BY <1>3 DEF TakesMessage, Plain, Challenge, Verify, ConnectUnknown, Connect, Takes
  <1>4. CASE LoopEnds \/ DialFails \/ DialOk
    BY <1>4 DEF LeavesQueues, LoopEnds, DialFails, DialOk
  <1>5. CASE WriteTcp \/ WriteTcpFails
    BY <1>5 DEF TakesMessage, WriteTcp, WriteTcpFails
  <1>6. CASE WriterEnds \/ WriterCleanup
    BY <1>6 DEF LeavesQueues, WriterEnds, WriterCleanup, Cleanup
  <1>7. CASE ReaderStep
    BY <1>7 DEF LeavesQueues, ReaderStep, ReadTcp, ReadTcpEnds, ReaderCleanup, Cleanup
  <1> QED
    BY <1>1, <1>2, <1>3, <1>4, <1>5, <1>6, <1>7
    DEF Next, PionStep, LoopStep, WriterStep

\* The lengths of the queues and the number of messages taken are integers.
LEMMA QueueLengths ==
  ASSUME TypeOK
  PROVE  next \in Nat /\ Len(wire) \in Nat /\ Len(buf) \in Nat /\ Holding \in {0, 1}
         /\ Taken \in Int
  BY LenProperties DEF TypeOK, ChanTypes, Holding, Taken

\* Taking a message takes the one with the next number.
LEMMA TakeNumbered ==
  ASSUME TypeOK, TypeOK', Numbered, TakesMessage
  PROVE  Numbered' /\ Taken' = Taken + 1 /\ Head(buf).n = Taken + 1
  <1>1. Len(buf) \in Nat \ {0} /\ Len(buf') = Len(buf) - 1 /\ Head(buf) = buf[1]
        /\ \A i \in 1..Len(buf) - 1 : buf'[i] = buf[i + 1]
    BY TailFacts DEF TakesMessage, TypeOK, ChanTypes
  <1>2. Taken' = Taken + 1
    BY <1>1, QueueLengths DEF TakesMessage, Taken, Holding
  <1>3. Head(buf).n = Taken + 1
    BY <1>1 DEF Numbered
  <1>4. Taken' >= 0
    BY <1>2, QueueLengths DEF Numbered
  <1>5. ASSUME NEW i \in 1..Len(buf') PROVE buf'[i].n = Taken' + i
    <2>1. buf'[i] = buf[i + 1] /\ i + 1 \in 1..Len(buf) /\ i \in Nat
      BY <1>1
    <2>2. buf[i + 1].n = Taken + (i + 1)
      BY <2>1 DEF Numbered
    <2> QED
      BY <2>1, <2>2, <1>2, QueueLengths
  <1>6. \A i \in 1..Len(wire') : wire'[i].n = next' - Len(wire') + i
    BY DEF Numbered, TakesMessage
  <1>7. rl' = "holding" => held'.n = next' - Len(wire')
    BY DEF Numbered, TakesMessage
  <1> QED
    BY <1>2, <1>3, <1>4, <1>5, <1>6, <1>7 DEF Numbered

\* A message sent, read or put into buf is not taken yet, and keeps its place.
LEMMA MoveNumbered ==
  ASSUME TypeOK, TypeOK', Numbered, ClientSend \/ ReadMessage \/ OnMessage \/ LeavesQueues
  PROVE  Numbered' /\ Taken' = Taken
  <1>1. CASE LeavesQueues
    <2>1. Holding' = Holding /\ Len(wire') = Len(wire) /\ Len(buf') = Len(buf)
      BY <1>1 DEF LeavesQueues, Holding
    <2>2. Taken' = Taken
      BY <1>1, <2>1 DEF LeavesQueues, Taken
    <2> QED
      BY <1>1, <2>2 DEF LeavesQueues, Numbered
  <1>2. CASE ClientSend
    <2>1. PICK c \in Command :
             wire' = Append(wire, [n |-> next', cmd |-> c.cmd, key |-> c.key])
      BY <1>2 DEF ClientSend
    <2> DEFINE m == [n |-> next', cmd |-> c.cmd, key |-> c.key]
    <2>2. next' = next + 1 /\ m \in Message /\ m.n = next + 1
          /\ UNCHANGED <<rl, held, buf>>
      BY <1>2, MessageFacts DEF ClientSend, TypeOK, ChanTypes
    <2> HIDE DEF m
    <2>3. Len(wire') = Len(wire) + 1
          /\ \A i \in 1..Len(wire) + 1 :
                wire'[i] = IF i = Len(wire) + 1 THEN m ELSE wire[i]
      BY <2>1, <2>2, AppendFacts DEF TypeOK, ChanTypes, m
    <2>4. Taken' = Taken
      BY <2>2, <2>3, QueueLengths DEF Taken, Holding
    <2>5. ASSUME NEW i \in 1..Len(wire') PROVE wire'[i].n = next' - Len(wire') + i
      <3>1. CASE i = Len(wire) + 1
        BY <3>1, <2>2, <2>3, QueueLengths
      <3>2. CASE i # Len(wire) + 1
        <4>1. i \in 1..Len(wire) /\ wire'[i] = wire[i]
          BY <3>2, <2>3, QueueLengths
        <4> QED
          BY <4>1, <2>2, <2>3, QueueLengths DEF Numbered
      <3> QED
        BY <3>1, <3>2
    <2>6. rl' = "holding" => held'.n = next' - Len(wire')
      BY <2>2, <2>3, QueueLengths DEF Numbered
    <2>7. \A i \in 1..Len(buf') : buf'[i].n = Taken' + i
      BY <2>2, <2>4 DEF Numbered
    <2> QED
      BY <2>4, <2>5, <2>6, <2>7 DEF Numbered
  <1>3. CASE ReadMessage
    <2>1. Len(wire) \in Nat \ {0} /\ Len(wire') = Len(wire) - 1 /\ held' = wire[1]
          /\ \A i \in 1..Len(wire) - 1 : wire'[i] = wire[i + 1]
      BY <1>3, TailFacts DEF ReadMessage, TypeOK, ChanTypes
    <2>2. Holding = 0 /\ Holding' = 1 /\ UNCHANGED <<next, buf>>
      BY <1>3 DEF ReadMessage, Holding
    <2>3. Taken' = Taken
      BY <2>1, <2>2, QueueLengths DEF Taken
    <2>4. held'.n = next' - Len(wire')
      BY <2>1, <2>2, QueueLengths DEF Numbered
    <2>5. ASSUME NEW i \in 1..Len(wire') PROVE wire'[i].n = next' - Len(wire') + i
      <3>1. wire'[i] = wire[i + 1] /\ i + 1 \in 1..Len(wire) /\ i \in Nat
        BY <2>1
      <3>2. wire[i + 1].n = next - Len(wire) + (i + 1)
        BY <3>1 DEF Numbered
      <3> QED
        BY <3>1, <3>2, <2>1, <2>2, QueueLengths
    <2>6. \A i \in 1..Len(buf') : buf'[i].n = Taken' + i
      BY <2>2, <2>3 DEF Numbered
    <2> QED
      BY <2>3, <2>4, <2>5, <2>6 DEF Numbered
  <1>4. CASE OnMessage
    <2>1. Len(buf') = Len(buf) + 1
          /\ \A i \in 1..Len(buf) + 1 : buf'[i] = IF i = Len(buf) + 1 THEN held ELSE buf[i]
      BY <1>4, AppendFacts DEF OnMessage, TypeOK, ChanTypes
    <2>2. Holding = 1 /\ Holding' = 0 /\ UNCHANGED <<next, wire>> /\ rl' # "holding"
      BY <1>4 DEF OnMessage, Holding
    <2>3. Taken' = Taken
      BY <2>1, <2>2, QueueLengths DEF Taken
    <2>4. held.n = Taken + Len(buf) + 1
      BY <1>4, <2>2, QueueLengths DEF OnMessage, Numbered, Taken
    <2>5. ASSUME NEW i \in 1..Len(buf') PROVE buf'[i].n = Taken' + i
      <3>1. CASE i = Len(buf) + 1
        BY <3>1, <2>1, <2>3, <2>4, QueueLengths
      <3>2. CASE i # Len(buf) + 1
        <4>1. i \in 1..Len(buf) /\ buf'[i] = buf[i]
          BY <3>2, <2>1, QueueLengths
        <4> QED
          BY <4>1, <2>3 DEF Numbered
      <3> QED
        BY <3>1, <3>2
    <2>6. \A i \in 1..Len(wire') : wire'[i].n = next' - Len(wire') + i
      BY <2>2 DEF Numbered
    <2> QED
      BY <2>2, <2>3, <2>5, <2>6 DEF Numbered
  <1> QED
    BY <1>1, <1>2, <1>3, <1>4

\* A step takes the next message or none.
LEMMA TakenStep ==
  ASSUME TypeOK, TypeOK', Numbered, [Next]_vars
  PROVE  /\ Numbered'
         /\ Taken \in Nat /\ Taken' \in {Taken, Taken + 1}
         /\ TakesMessage => Taken' = Taken + 1 /\ Head(buf).n = Taken + 1
         /\ LeavesQueues => Taken' = Taken
  <1>1. Taken \in Nat
    BY QueueLengths DEF Numbered
  <1>2. CASE TakesMessage
    <2>1. Numbered' /\ Taken' = Taken + 1 /\ Head(buf).n = Taken + 1
      BY <1>2, TakeNumbered
    <2>2. ~LeavesQueues
      <3>1. Len(buf') = Len(buf) - 1 /\ Len(buf) \in Nat
        BY <1>2, TailFacts DEF TakesMessage, TypeOK, ChanTypes
      <3>2. Len(buf') # Len(buf)
        BY ONLY <3>1
      <3> QED
        BY <3>2 DEF LeavesQueues
    <2> QED
      BY <1>1, <2>1, <2>2
  <1>3. CASE ~TakesMessage
    <2>1. Numbered' /\ Taken' = Taken
      BY <1>3, QueueSteps, MoveNumbered
    <2> QED
      BY <1>1, <1>3, <2>1
  <1> QED
    BY <1>2, <1>3

------------------------------------------------------------------------------
(* The bridge writes to TCP what the client sent after its connect command.    *)

\* A new channel has no bridge.
LEMMA BridgeInit == Init => BridgeTakesOver /\ InOrder /\ UploadComplete
  BY DEF Init, BridgeTakesOver, InOrder, UploadComplete

\* Every step keeps the place of the bridge in the messages of the client.
LEMMA BridgeStep ==
  ASSUME TypeOK, TypeOK', EndsInOrder, Numbered, Numbered', [Next]_vars,
         BridgeTakesOver, InOrder, UploadComplete
  PROVE  BridgeTakesOver' /\ InOrder' /\ UploadComplete'
  <1>0. Taken \in Nat /\ Len(toTcp) \in Nat /\ connectAt \in Nat /\ next \in Nat
    BY TakenStep, LenProperties DEF TypeOK, TcpTypes, LoopTypes, ChanTypes
  <1>1. CASE \/ ClientSend \/ ClientCloses \/ ClientVanishes \/ ClientAcks
             \/ ServiceSends \/ ServiceEnds \/ UNCHANGED vars \/ PionStep
    <2>1. UNCHANGED <<writer, reader, toTcp, cut, pc, connectAt, conn>>
      <3>1. CASE ClientSend \/ ClientCloses \/ ClientVanishes \/ ClientAcks
        BY <3>1 DEF ClientSend, ClientCloses, ClientVanishes, ClientAcks, ClientEnds
      <3>2. CASE ServiceSends \/ ServiceEnds \/ UNCHANGED vars
        BY <3>2 DEF ServiceSends, ServiceEnds
      <3>3. CASE PionStep
        BY <3>3 DEF PionStep, ReadMessage, OnMessage, ReadLoopEnds, OnClose
      <3> QED
        BY <1>1, <3>1, <3>2, <3>3
    <2>2. client = "closed" => client' = "closed" /\ next' = next
      BY <1>1 DEF ClientSend, ClientCloses, ClientVanishes, ClientAcks, ClientEnds,
                  ServiceSends, ServiceEnds, PionStep, ReadMessage, OnMessage,
                  ReadLoopEnds, OnClose
    <2>3. ClientSend \/ ReadMessage \/ OnMessage \/ LeavesQueues
      BY <1>1 DEF LeavesQueues, ClientCloses, ClientVanishes, ClientAcks, ClientEnds,
                  ServiceSends, ServiceEnds, PionStep, ReadLoopEnds, OnClose
    <2>4. Taken' = Taken
      BY <2>3, MoveNumbered
    <2> QED
      BY <2>1, <2>2, <2>4 DEF BridgeTakesOver, InOrder, UploadComplete
  <1>2. CASE Plain \/ Challenge \/ Verify \/ ConnectUnknown
    <2>1. pc = "cmd" /\ pc' \in {"cmd", "gone"}
          /\ UNCHANGED <<conn, writer, reader, toTcp, cut, client, next, connectAt>>
      BY <1>2 DEF Plain, Challenge, Verify, ConnectUnknown, Takes
    <2>2. conn = "none" /\ toTcp = <<>> /\ cut = "none"
      BY <2>1 DEF BridgeTakesOver
    <2> QED
      BY <2>1, <2>2 DEF BridgeTakesOver, InOrder, UploadComplete
  <1>3. CASE Connect
    <2>1. pc = "cmd" /\ pc' = "dialing" /\ connectAt' = Head(buf).n /\ TakesMessage
          /\ UNCHANGED <<conn, writer, reader, toTcp, cut, client, next>>
      BY <1>3 DEF Connect, Takes, TakesMessage
    <2>2. conn = "none" /\ toTcp = <<>> /\ cut = "none"
      BY <2>1 DEF BridgeTakesOver
    <2>3. connectAt' = Taken'
      BY <2>1, TakenStep
    <2> QED
      BY <2>1, <2>2, <2>3 DEF BridgeTakesOver, InOrder, UploadComplete
  <1>4. CASE LoopEnds \/ DialFails
    <2>1. pc # "gone" /\ pc' = "gone"
          /\ UNCHANGED <<conn, writer, reader, toTcp, cut, client, next, connectAt>>
      BY <1>4 DEF LoopEnds, DialFails
    <2>2. conn = "none" /\ toTcp = <<>> /\ cut = "none"
      BY <2>1 DEF BridgeTakesOver
    <2> QED
      BY <2>1, <2>2 DEF BridgeTakesOver, InOrder, UploadComplete
  <1>5. CASE DialOk
    <2>1. pc = "dialing" /\ pc' = "gone" /\ conn' = "open" /\ writer' = "run"
          /\ reader' = "run" /\ UNCHANGED <<toTcp, cut, client, next, connectAt>>
          /\ LeavesQueues
      BY <1>5 DEF DialOk, LeavesQueues
    <2>2. toTcp = <<>> /\ cut = "none" /\ connectAt = Taken /\ Taken' = Taken
      BY <2>1, TakenStep DEF BridgeTakesOver
    <2>3. connectAt' + Len(toTcp') = Taken'
      BY <1>0, <2>1, <2>2
    <2> QED
      BY <2>1, <2>2, <2>3 DEF BridgeTakesOver, InOrder, UploadComplete
  <1>6. CASE WriteTcp
    <2>1. writer = "run" /\ TakesMessage /\ toTcp' = Append(toTcp, Head(buf).n)
          /\ UNCHANGED <<conn, writer, reader, cut, client, next, pc, connectAt>>
      BY <1>6 DEF WriteTcp, TakesMessage
    <2>2. cut # "client closed" /\ conn # "none" /\ connectAt + Len(toTcp) = Taken
      BY <2>1 DEF BridgeTakesOver
    <2>3. Head(buf).n = Taken + 1 /\ Taken' = Taken + 1
      BY <2>1, TakenStep
    <2>4. Len(toTcp') = Len(toTcp) + 1
          /\ \A i \in 1..Len(toTcp) + 1 :
                toTcp'[i] = IF i = Len(toTcp) + 1 THEN Taken + 1 ELSE toTcp[i]
      BY <1>0, <2>1, <2>3, AppendFacts DEF TypeOK, TcpTypes
    <2>5. connectAt' + Len(toTcp') = Taken'
      <3>1. connectAt' = connectAt /\ Len(toTcp') = Len(toTcp) + 1 /\ Taken' = Taken + 1
            /\ connectAt + Len(toTcp) = Taken
        BY <2>1, <2>2, <2>3, <2>4
      <3> QED
        BY ONLY <1>0, <3>1
    <2>6. ASSUME NEW i \in 1..Len(toTcp') PROVE toTcp'[i] = connectAt' + i
      <3>1. CASE i = Len(toTcp) + 1
        <4>1. toTcp'[i] = Taken + 1 /\ connectAt' = connectAt
              /\ connectAt + Len(toTcp) = Taken
          BY <3>1, <2>1, <2>2, <2>4
        <4> QED
          BY ONLY <1>0, <3>1, <4>1
      <3>2. CASE i # Len(toTcp) + 1
        <4>1. i \in 1..Len(toTcp) /\ toTcp'[i] = toTcp[i]
          BY <3>2, <1>0, <2>4
        <4> QED
          BY <4>1, <2>1 DEF InOrder
      <3> QED
        BY <3>1, <3>2
    <2> QED
      BY <2>1, <2>2, <2>5, <2>6 DEF BridgeTakesOver, InOrder, UploadComplete
  <1>7. CASE WriteTcpFails
    <2>1. writer = "run" /\ writer' = "cleanup" /\ Cut("write error")
          /\ UNCHANGED <<conn, reader, client, next, pc, connectAt, toTcp>>
      BY <1>7 DEF WriteTcpFails
    <2>2. cut' # "client closed" /\ conn # "none" /\ pc = "gone"
      BY <2>1 DEF BridgeTakesOver, Cut
    <2> QED
      BY <2>1, <2>2 DEF BridgeTakesOver, InOrder, UploadComplete
  <1>8. CASE WriterEnds
    <2>1. writer = "run" /\ writer' = "cleanup" /\ buf = <<>> /\ bufClosed
          /\ UNCHANGED <<conn, reader, client, next, pc, connectAt, toTcp>>
      BY <1>8 DEF WriterEnds
    <2>2. conn # "none" /\ pc = "gone" /\ connectAt + Len(toTcp) = Taken
      BY <2>1 DEF BridgeTakesOver
    <2>3. client = "closed" /\ wire = <<>> /\ rl = "ended"
      BY <2>1 DEF EndsInOrder
    <2>4. Taken = next
      BY <1>0, <2>1, <2>3 DEF Taken, Holding
    <2>5. Len(toTcp) = next - connectAt
      BY <1>0, <2>2, <2>4
    <2> QED
      BY <2>1, <2>2, <2>3, <2>5 DEF BridgeTakesOver, InOrder, UploadComplete
  <1>9. CASE WriterCleanup
    <2>1. writer = "cleanup" /\ writer' = "done" /\ conn' = "closed"
          /\ UNCHANGED <<reader, client, next, pc, connectAt, toTcp, cut>>
      BY <1>9 DEF WriterCleanup, Cleanup
    <2>2. conn # "none" /\ pc = "gone"
      BY <2>1 DEF BridgeTakesOver
    <2> QED
      BY <2>1, <2>2 DEF BridgeTakesOver, InOrder, UploadComplete
  <1>10. CASE ReaderStep
    <2>1. reader # "none" /\ reader' # "none" /\ conn' \in {conn, "closed"}
          /\ UNCHANGED <<writer, client, next, pc, connectAt, toTcp>> /\ LeavesQueues
      <3>1. CASE ReadTcp
        BY <3>1 DEF ReadTcp, LeavesQueues
      <3>2. CASE ReadTcpEnds
        BY <3>2 DEF ReadTcpEnds, LeavesQueues
      <3>3. CASE ReaderCleanup
        BY <3>3 DEF ReaderCleanup, Cleanup, LeavesQueues
      <3> QED
        BY <1>10, <3>1, <3>2, <3>3 DEF ReaderStep
    <2>2. cut' = "client closed" => cut = "client closed"
      <3>1. CASE ReadTcp
        BY <3>1 DEF ReadTcp, Cut
      <3>2. CASE ReadTcpEnds
        BY <3>2 DEF ReadTcpEnds, Cut
      <3>3. CASE ReaderCleanup
        BY <3>3 DEF ReaderCleanup, Cleanup
      <3> QED
        BY <1>10, <3>1, <3>2, <3>3 DEF ReaderStep
    <2>3. conn # "none" /\ pc = "gone" /\ Taken' = Taken
      BY <2>1, TakenStep DEF BridgeTakesOver
    <2> QED
      BY <2>1, <2>2, <2>3 DEF BridgeTakesOver, InOrder, UploadComplete
  <1> QED
    BY <1>1, <1>2, <1>3, <1>4, <1>5, <1>6, <1>7, <1>8, <1>9, <1>10
    DEF Next, LoopStep, WriterStep

------------------------------------------------------------------------------
(* What the node sends on the channel. *)

\* What a send adds to down, if anything.
LEMMA SentFacts ==
  ASSUME TypeOK, NEW m \in Replies, Sent(m)
  PROVE  /\ Len(down) \in Nat
         /\ \/ down' = down /\ dc # "open"
            \/ /\ dc = "open"
               /\ Len(down') = Len(down) + 1
               /\ down'[Len(down) + 1] = m
               /\ \A i \in 1..Len(down) : down'[i] = down[i]
  <1>1. down \in Seq(Replies) /\ Len(down) \in Nat
    BY LenProperties DEF TypeOK, LoopTypes
  <1>2. CASE dc # "open"
    BY <1>1, <1>2 DEF Sent
  <1>3. CASE dc = "open"
    <2>1. Len(down') = Len(down) + 1
          /\ \A i \in 1..Len(down) + 1 :
                down'[i] = IF i = Len(down) + 1 THEN m ELSE down[i]
      BY <1>1, <1>3, AppendFacts DEF Sent
    <2>2. \A i \in 1..Len(down) : i \in 1..Len(down) + 1 /\ i # Len(down) + 1
      BY <1>1
    <2>3. Len(down) + 1 \in 1..Len(down) + 1
      BY <1>1
    <2> QED
      BY <1>1, <1>3, <2>1, <2>2, <2>3
  <1> QED
    BY <1>2, <1>3

\* A step neither opens dc nor brings the command loop back.
LEMMA DcStep ==
  ASSUME [Next]_vars
  PROVE  (dc' = "open" => dc = "open") /\ (pc' = "cmd" => pc = "cmd")
  <1>1. CASE \/ ClientSend \/ ClientCloses \/ ClientVanishes \/ ClientAcks
             \/ ServiceSends \/ ServiceEnds \/ UNCHANGED vars
    BY <1>1 DEF ClientSend, ClientCloses, ClientVanishes, ClientAcks, ClientEnds,
                ServiceSends, ServiceEnds
  <1>2. CASE PionStep
    BY <1>2 DEF PionStep, ReadMessage, OnMessage, ReadLoopEnds, OnClose
  <1>3. CASE LoopStep
    BY <1>3 DEF LoopStep, LoopEnds, Plain, Challenge, Verify, Takes, ConnectUnknown,
                Connect, DialFails, DialOk, ClosesDc
  <1>4. CASE WriterStep
    BY <1>4 DEF WriterStep, WriteTcp, WriteTcpFails, WriterEnds, WriterCleanup, Cleanup,
                ClosesDc
  <1>5. CASE ReaderStep
    BY <1>5 DEF ReaderStep, ReadTcp, ReadTcpEnds, ReaderCleanup, Cleanup, ClosesDc
  <1> QED
    BY <1>1, <1>2, <1>3, <1>4, <1>5 DEF Next

\* What a step sends: nothing, a reply without a random, a random or a proof.
LEMMA SendSteps ==
  ASSUME TypeOK, [Next]_vars
  PROVE  \/ UNCHANGED <<down, commitment, rNode>>
         \/ /\ UNCHANGED <<commitment, rNode>>
            /\ \/ Sent(Text) \/ Sent(Ok)
               \/ \E n \in Nat : Sent(Data(n))
         \/ Challenge
         \/ Verify
  <1>1. CASE \/ ClientSend \/ ClientCloses \/ ClientVanishes \/ ClientAcks
             \/ ServiceSends \/ ServiceEnds \/ UNCHANGED vars
    BY <1>1 DEF ClientSend, ClientCloses, ClientVanishes, ClientAcks, ClientEnds,
                ServiceSends, ServiceEnds
  <1>2. CASE PionStep
    BY <1>2 DEF PionStep, ReadMessage, OnMessage, ReadLoopEnds, OnClose
  <1>3. CASE LoopStep
    BY <1>3 DEF LoopStep, LoopEnds, Plain, ConnectUnknown, Connect, DialFails, DialOk,
                Takes
  <1>4. CASE WriterStep
    BY <1>4 DEF WriterStep, WriteTcp, WriteTcpFails, WriterEnds, WriterCleanup, Cleanup
  <1>5. CASE ReaderStep
    <2>1. CASE ReadTcp
      <3>1. Head(unread) \in Nat
        BY <2>1, TailFacts DEF ReadTcp, TypeOK, TcpTypes
      <3> QED
        BY <2>1, <3>1 DEF ReadTcp
    <2> QED
      BY <1>5, <2>1 DEF ReaderStep, ReadTcpEnds, ReaderCleanup, Cleanup
  <1> QED
    BY <1>1, <1>2, <1>3, <1>4, <1>5 DEF Next

------------------------------------------------------------------------------
(* The random of a challenge is signed once. *)

\* On a new channel nothing has been sent.
LEMMA ChallengeInit == Init => ChallengeFresh /\ SignedOnce
  BY DEF Init, ChallengeFresh, SignedOnce

\* Every step keeps the random of the challenge younger than every proof.
LEMMA ChallengeStep ==
  ASSUME TypeOK, TypeOK', Numbered, [Next]_vars, ChallengeFresh, SignedOnce
  PROVE  ChallengeFresh' /\ SignedOnce'
  <1>0. /\ Taken \in Nat /\ Taken' \in Nat /\ Taken <= Taken' /\ rNode \in Nat
        /\ Len(down) \in Nat /\ Text.r = 0
        /\ \A i \in 1..Len(down) : down[i] \in Replies /\ down[i].r \in Nat
    BY TakenStep, LenProperties, ElementOfSeq, ReplyFacts DEF TypeOK, LoopTypes
  <1>1. CASE UNCHANGED <<down, commitment, rNode>>
    <2>1. SignedOnce'
      BY <1>1 DEF SignedOnce
    <2>2. \A i \in 1..Len(down') : down'[i].type # "data" => down'[i].r <= Taken'
      BY <1>0, <1>1 DEF ChallengeFresh
    <2>3. commitment' # NoKey => rNode' <= Taken'
      BY <1>0, <1>1 DEF ChallengeFresh
    <2> QED
      BY <1>1, <2>1, <2>2, <2>3, DcStep DEF ChallengeFresh
  <1>2. ASSUME NEW m \in Replies, Sent(m), m.type \in {"text", "ok", "data"},
               m.type # "data" => m.r = 0,
               UNCHANGED <<commitment, rNode>>, dc = "open"
        PROVE  ChallengeFresh' /\ SignedOnce'
    <2>1. /\ Len(down') = Len(down) + 1 /\ down'[Len(down) + 1] = m
          /\ \A i \in 1..Len(down) : down'[i] = down[i]
      BY <1>2, SentFacts
    <2>2. \A i \in 1..Len(down') : i \in 1..Len(down) \/ i = Len(down) + 1
      BY <1>0, <2>1
    <2>3. \A i \in 1..Len(down) : i \in 1..Len(down')
      BY <1>0, <2>1
    <2>4. \A i \in 1..Len(down') : down'[i].type # "data" => down'[i].r <= Taken'
      BY <1>0, <1>2, <2>1, <2>2 DEF ChallengeFresh
    <2>5. commitment' # NoKey => rNode' <= Taken'
      BY <1>0, <1>2 DEF ChallengeFresh
    <2>6. ASSUME commitment' # NoKey, NEW i \in 1..Len(down'), down'[i].type = "proof"
          PROVE  down'[i].r # rNode'
      BY <1>2, <2>1, <2>2, <2>6 DEF ChallengeFresh
    <2>7. ASSUME commitment' # NoKey, pc' = "cmd", dc' = "open"
          PROVE  \E i \in 1..Len(down') : down'[i] = Reply("response", rNode', commitment')
      BY <1>2, <2>1, <2>3, <2>7, DcStep DEF ChallengeFresh
    <2>8. ChallengeFresh'
      BY <2>4, <2>5, <2>6, <2>7 DEF ChallengeFresh
    <2>9. SignedOnce'
      <3> SUFFICES ASSUME NEW j \in 1..Len(down'), down'[j].type = "proof"
                   PROVE  /\ \E i \in 1..(j - 1) :
                                down'[i] = [down'[j] EXCEPT !.type = "response"]
                          /\ \A i \in 1..(j - 1) :
                                down'[i].type = "proof" => down'[i].r # down'[j].r
        BY DEF SignedOnce
      <3>1. j \in 1..Len(down) /\ down'[j] = down[j]
        BY <1>2, <2>1, <2>2
      <3>2. \A i \in 1..(j - 1) : i \in 1..Len(down) /\ down'[i] = down[i]
        BY <1>0, <2>1, <3>1
      <3> QED
        BY <3>1, <3>2 DEF SignedOnce
    <2> QED
      BY <2>8, <2>9
  <1>3. CASE Challenge
    <2> DEFINE m == Reply("response", rNode', commitment')
    <2>1. commitment' = Head(buf).key /\ rNode' = Head(buf).n /\ TakesMessage
          /\ (Sent(m) \/ (Sent(Text) /\ pc' = "gone"))
      BY <1>3 DEF Challenge, Takes, TakesMessage
    <2>2. rNode' = Taken + 1 /\ Taken' = Taken + 1
      BY <2>1, TakenStep
    <2>3. m \in Replies /\ m.type = "response" /\ m.r = rNode' /\ Text \in Replies
          /\ Text.type = "text"
      BY ReplyFacts DEF TypeOK, LoopTypes, Reply
    <2> HIDE DEF m
    <2>4. PICK s \in {m, Text} : Sent(s) /\ (s = m \/ pc' = "gone")
      BY <2>1
    <2>5. s \in Replies /\ s.type # "proof" /\ s.r <= Taken'
      BY <1>0, <2>2, <2>3, <2>4
    <2>6. \/ down' = down /\ dc # "open"
          \/ /\ Len(down') = Len(down) + 1 /\ down'[Len(down) + 1] = s
             /\ \A i \in 1..Len(down) : down'[i] = down[i]
      BY <2>4, <2>5, SentFacts
    <2>7. \A i \in 1..Len(down') :
             \/ i \in 1..Len(down) /\ down'[i] = down[i]
             \/ i = Len(down) + 1 /\ down'[i] = s
      BY <1>0, <2>6
    <2>8. \A i \in 1..Len(down') : down'[i].type # "data" => down'[i].r <= Taken'
      BY <1>0, <2>5, <2>7 DEF ChallengeFresh
    <2>9. ASSUME NEW i \in 1..Len(down'), down'[i].type = "proof"
          PROVE  down'[i].r # rNode'
      <3>1. i \in 1..Len(down) /\ down'[i] = down[i]
        BY <2>5, <2>7, <2>9
      <3>2. down[i].r <= Taken /\ down[i].r \in Nat
        BY <1>0, <2>9, <3>1 DEF ChallengeFresh
      <3> QED
        BY <1>0, <2>2, <3>1, <3>2
    <2>10. ASSUME pc' = "cmd", dc' = "open"
           PROVE  \E i \in 1..Len(down') : down'[i] = m
      <3>1. Len(down') = Len(down) + 1 /\ down'[Len(down) + 1] = m
        BY <2>4, <2>6, <2>10, DcStep
      <3>2. Len(down) + 1 \in 1..Len(down')
        BY <1>0, <3>1
      <3> QED
        BY <3>1, <3>2
    <2>11. ChallengeFresh'
      BY <1>0, <2>2, <2>8, <2>9, <2>10 DEF ChallengeFresh, m
    <2>12. SignedOnce'
      <3> SUFFICES ASSUME NEW j \in 1..Len(down'), down'[j].type = "proof"
                   PROVE  /\ \E i \in 1..(j - 1) :
                                down'[i] = [down'[j] EXCEPT !.type = "response"]
                          /\ \A i \in 1..(j - 1) :
                                down'[i].type = "proof" => down'[i].r # down'[j].r
        BY DEF SignedOnce
      <3>1. j \in 1..Len(down) /\ down'[j] = down[j]
        BY <2>5, <2>7
      <3>2. \A i \in 1..(j - 1) : i \in 1..Len(down)
        BY <1>0, <3>1
      <3>3. \A i \in 1..(j - 1) : down'[i] = down[i]
        BY <2>6, <3>2
      <3> QED
        BY <3>1, <3>2, <3>3 DEF SignedOnce
    <2> QED
      BY <2>11, <2>12
  <1>4. CASE Verify
    <2>1. commitment' = NoKey
      BY <1>4 DEF Verify
    <2>2. PICK s \in {Reply("proof", rNode, commitment), Text} :
             Sent(s) /\ pc = "cmd" /\ (s.type = "proof" => commitment # NoKey
                                       /\ s = Reply("proof", rNode, commitment))
      <3>1. Text.type # "proof"
        BY ReplyFacts
      <3> QED
        BY <1>4, <3>1 DEF Verify, Takes
    <2>3. Reply("proof", rNode, commitment).r = rNode
          /\ Reply("response", rNode, commitment)
             = [Reply("proof", rNode, commitment) EXCEPT !.type = "response"]
      BY DEF Reply
    <2>4. s \in Replies
      BY <2>2, ReplyFacts DEF TypeOK, LoopTypes
    <2>5. \/ down' = down /\ dc # "open"
          \/ /\ dc = "open"
             /\ Len(down') = Len(down) + 1 /\ down'[Len(down) + 1] = s
             /\ \A i \in 1..Len(down) : down'[i] = down[i]
      BY <2>2, <2>4, SentFacts
    <2>6. \A i \in 1..Len(down') :
             \/ i \in 1..Len(down) /\ down'[i] = down[i]
             \/ i = Len(down) + 1 /\ down'[i] = s /\ dc = "open"
      BY <1>0, <2>5
    <2>7. s.r <= Taken'
      <3>1. CASE s = Text
        BY <1>0, <3>1
      <3>2. CASE s # Text
        <4>1. s = Reply("proof", rNode, commitment)
          BY <2>2, <3>2
        <4>2. s.type = "proof"
          BY <4>1 DEF Reply
        <4>3. rNode <= Taken
          BY <2>2, <4>2 DEF ChallengeFresh
        <4> QED
          BY <1>0, <2>3, <4>1, <4>3
      <3> QED
        BY <3>1, <3>2
    <2>8. \A i \in 1..Len(down') : down'[i].type # "data" => down'[i].r <= Taken'
      BY <1>0, <2>6, <2>7 DEF ChallengeFresh
    <2>9. ChallengeFresh'
      BY <2>1, <2>8 DEF ChallengeFresh
    <2>10. SignedOnce'
      <3> SUFFICES ASSUME NEW j \in 1..Len(down'), down'[j].type = "proof"
                   PROVE  /\ \E i \in 1..(j - 1) :
                                down'[i] = [down'[j] EXCEPT !.type = "response"]
                          /\ \A i \in 1..(j - 1) :
                                down'[i].type = "proof" => down'[i].r # down'[j].r
        BY DEF SignedOnce
      <3>1. CASE j \in 1..Len(down) /\ down'[j] = down[j]
        <4>1. \A i \in 1..(j - 1) : i \in 1..Len(down)
          BY <1>0, <3>1
        <4>2. \A i \in 1..(j - 1) : down'[i] = down[i]
          BY <2>5, <4>1
        <4> QED
          BY <3>1, <4>1, <4>2 DEF SignedOnce
      <3>2. CASE j = Len(down) + 1 /\ down'[j] = s /\ dc = "open"
        <4>1. commitment # NoKey /\ s = Reply("proof", rNode, commitment) /\ s.r = rNode
          BY <2>2, <2>3, <3>2
        <4>2. PICK i \in 1..Len(down) : down[i] = Reply("response", rNode, commitment)
          BY <2>2, <3>2, <4>1 DEF ChallengeFresh
        <4>3. \A k \in 1..(j - 1) : k \in 1..Len(down)
          BY <1>0, <3>2
        <4>4. \A k \in 1..Len(down) : k \in 1..(j - 1) /\ down'[k] = down[k]
          <5>1. \A k \in 1..Len(down) : k \in 1..(j - 1)
            BY <1>0, <3>2
          <5> QED
            BY <2>5, <5>1
        <4>5. down'[i] = [down'[j] EXCEPT !.type = "response"]
          BY <2>3, <3>2, <4>1, <4>2, <4>4
        <4>6. \A k \in 1..(j - 1) : down'[k].type = "proof" => down'[k].r # down'[j].r
          BY <3>2, <4>1, <4>3, <4>4 DEF ChallengeFresh
        <4> QED
          BY <4>4, <4>5, <4>6
      <3> QED
        BY <2>6, <3>1, <3>2
    <2> QED
      BY <2>9, <2>10
  <1>5. ASSUME NEW m \in {Text, Ok} \cup {Data(n) : n \in Nat}, Sent(m), UNCHANGED <<commitment, rNode>>
        PROVE  ChallengeFresh' /\ SignedOnce'
    <2>1. m \in Replies /\ m.type \in {"text", "ok", "data"}
          /\ (m.type # "data" => m.r = 0)
      BY ReplyFacts
    <2>2. CASE dc = "open"
      BY <1>2, <1>5, <2>1, <2>2
    <2>3. CASE dc # "open"
      BY <1>1, <1>5, <2>3 DEF Sent
    <2> QED
      BY <2>2, <2>3
  <1> QED
    BY <1>1, <1>3, <1>4, <1>5, SendSteps

------------------------------------------------------------------------------
(* Replies, then ok, then bytes of the service. *)

\* On a new channel nothing has been sent and there is no connection.
LEMMA OkInit == Init => OkSent /\ RepliesThenBytes
  BY DEF Init, OkSent, RepliesThenBytes

\* What a step sends, and on which side of ok it does so.
LEMMA OkSteps ==
  ASSUME TypeOK, [Next]_vars, BridgeTakesOver
  PROVE  \/ down' = down /\ (conn = "none" <=> conn' = "none")
         \/ \E m \in Replies : /\ m.type \notin {"ok", "data"} /\ Sent(m)
                               /\ conn = "none" /\ conn' = "none"
         \/ Sent(Ok) /\ conn = "none" /\ conn' # "none"
         \/ (\E n \in Nat : Sent(Data(n))) /\ conn # "none" /\ conn' # "none"
  <1>0. pc # "gone" => conn = "none"
    BY DEF BridgeTakesOver
  <1>1. CASE \/ ClientSend \/ ClientCloses \/ ClientVanishes \/ ClientAcks
             \/ ServiceSends \/ ServiceEnds \/ UNCHANGED vars
    BY <1>1 DEF ClientSend, ClientCloses, ClientVanishes, ClientAcks, ClientEnds,
                ServiceSends, ServiceEnds
  <1>2. CASE PionStep
    BY <1>2 DEF PionStep, ReadMessage, OnMessage, ReadLoopEnds, OnClose
  <1>3. CASE LoopEnds \/ Connect
    BY <1>3 DEF LoopEnds, Connect, Takes
  <1>4. CASE Plain \/ ConnectUnknown \/ DialFails
    <2>1. Sent(Text) /\ conn = "none" /\ conn' = "none"
      BY <1>0, <1>4 DEF Plain, ConnectUnknown, DialFails, Takes
    <2> QED
      BY <2>1, ReplyFacts
  <1>5. CASE Challenge
    <2>1. conn = "none" /\ conn' = "none" /\ Head(buf) \in Message
          /\ commitment' = Head(buf).key /\ rNode' = Head(buf).n
          /\ (Sent(Text) \/ Sent(Reply("response", rNode', commitment')))
      BY <1>0, <1>5, TailFacts DEF Challenge, Takes, TypeOK, ChanTypes
    <2>2. Reply("response", rNode', commitment') \in Replies
      BY <2>1, MessageFacts, ReplyFacts
    <2>3. Reply("response", rNode', commitment').type = "response"
      BY DEF Reply
    <2> QED
      BY <2>1, <2>2, <2>3, ReplyFacts
  <1>6. CASE Verify
    <2>1. conn = "none" /\ conn' = "none"
          /\ (Sent(Text) \/ Sent(Reply("proof", rNode, commitment)))
      BY <1>0, <1>6 DEF Verify, Takes
    <2>2. Reply("proof", rNode, commitment) \in Replies
      BY ReplyFacts DEF TypeOK, LoopTypes
    <2>3. Reply("proof", rNode, commitment).type = "proof"
      BY DEF Reply
    <2> QED
      BY <2>1, <2>2, <2>3, ReplyFacts
  <1>7. CASE DialOk
    BY <1>0, <1>7 DEF DialOk
  <1>8. CASE WriterStep
    <2>1. writer # "none" /\ down' = down /\ conn' \in {conn, "closed"}
      BY <1>8 DEF WriterStep, WriteTcp, WriteTcpFails, WriterEnds, WriterCleanup, Cleanup
    <2> QED
      BY <2>1 DEF BridgeTakesOver
  <1>9. CASE ReadTcpEnds \/ ReaderCleanup
    <2>1. reader # "none" /\ down' = down /\ conn' \in {conn, "closed"}
      BY <1>9 DEF ReadTcpEnds, ReaderCleanup, Cleanup
    <2> QED
      BY <2>1 DEF BridgeTakesOver
  <1>10. CASE ReadTcp
    <2>1. Head(unread) \in Nat
      BY <1>10, TailFacts DEF ReadTcp, TypeOK, TcpTypes
    <2> QED
      BY <1>10, <2>1 DEF ReadTcp
  <1> QED
    BY <1>1, <1>2, <1>3, <1>4, <1>5, <1>6, <1>7, <1>8, <1>9, <1>10
    DEF Next, LoopStep, ReaderStep

\* Every step keeps the order of what is sent.
LEMMA OkStep ==
  ASSUME TypeOK, [Next]_vars, BridgeTakesOver, OkSent, RepliesThenBytes
  PROVE  OkSent' /\ RepliesThenBytes'
  <1>0. Len(down) \in Nat
    BY LenProperties DEF TypeOK, LoopTypes
  <1>1. CASE down' = down /\ dc' # "open" /\ (conn' = "none" => conn = "none")
    BY <1>1 DEF OkSent, RepliesThenBytes
  <1>2. CASE down' = down /\ (conn = "none" <=> conn' = "none")
    BY <1>2, DcStep DEF OkSent, RepliesThenBytes
  <1>3. ASSUME NEW m \in Replies, Sent(m), dc # "open", conn' = "none" => conn = "none"
        PROVE  OkSent' /\ RepliesThenBytes'
    <2>1. down' = down /\ dc' # "open"
      BY <1>3, DcStep DEF Sent
    <2> QED
      BY <1>1, <1>3, <2>1
  <1>4. ASSUME NEW m \in Replies, Sent(m), dc = "open"
        PROVE  /\ Len(down') = Len(down) + 1
               /\ \A i \in 1..Len(down') :
                     \/ i \in 1..Len(down) /\ down'[i] = down[i]
                     \/ i = Len(down) + 1 /\ down'[i] = m
               /\ \A i \in 1..Len(down) : i \in 1..Len(down')
               /\ Len(down) + 1 \in 1..Len(down')
    <2>1. /\ Len(down') = Len(down) + 1 /\ down'[Len(down) + 1] = m
          /\ \A i \in 1..Len(down) : down'[i] = down[i]
      BY <1>4, SentFacts
    <2>2. \A i \in 1..Len(down') : i \in 1..Len(down) \/ i = Len(down) + 1
      BY <1>0, <2>1
    <2>3. \A i \in 1..Len(down) : i \in 1..Len(down')
      BY <1>0, <2>1
    <2>4. Len(down) + 1 \in 1..Len(down')
      BY <1>0, <2>1
    <2> QED
      BY <2>1, <2>2, <2>3, <2>4
  <1>5. ASSUME NEW m \in Replies, Sent(m), m.type \notin {"ok", "data"},
               conn = "none", conn' = "none"
        PROVE  OkSent' /\ RepliesThenBytes'
    <2>1. CASE dc # "open"
      BY <1>3, <1>5, <2>1
    <2>2. CASE dc = "open"
      <3>1. \A i \in 1..Len(down') : down'[i].type \notin {"ok", "data"}
        BY <1>4, <1>5, <2>2 DEF OkSent
      <3> QED
        BY <1>5, <3>1 DEF OkSent, RepliesThenBytes
    <2> QED
      BY <2>1, <2>2
  <1>6. CASE Sent(Ok) /\ conn = "none" /\ conn' # "none"
    <2>1. CASE dc # "open"
      BY <1>3, <1>6, <2>1, ReplyFacts
    <2>2. CASE dc = "open"
      <3>1. Ok \in Replies /\ Ok.type = "ok"
        BY ReplyFacts
      <3>2. /\ Len(down') = Len(down) + 1
            /\ \A i \in 1..Len(down') :
                  \/ i \in 1..Len(down) /\ down'[i] = down[i]
                  \/ i = Len(down) + 1 /\ down'[i] = Ok
            /\ Len(down) + 1 \in 1..Len(down')
        BY <1>4, <1>6, <2>2, <3>1
      <3>3. OkSent'
        <4>1. down'[Len(down) + 1] = Ok
          BY <1>0, <3>2
        <4> QED
          BY <1>6, <3>1, <3>2, <4>1 DEF OkSent
      <3>4. ASSUME NEW j \in 1..Len(down'), down'[j].type \in {"ok", "data"}
            PROVE  down'[j].type = "ok" /\ j = Len(down')
        BY <1>6, <3>1, <3>2, <3>4 DEF OkSent
      <3>5. \A i \in (Len(down') + 1)..Len(down') : FALSE
        BY <1>0, <3>2
      <3>6. RepliesThenBytes'
        BY <3>4, <3>5 DEF RepliesThenBytes
      <3> QED
        BY <3>3, <3>6
    <2> QED
      BY <2>1, <2>2
  <1>7. ASSUME NEW n \in Nat, Sent(Data(n)), conn # "none", conn' # "none"
        PROVE  OkSent' /\ RepliesThenBytes'
    <2>1. CASE dc # "open"
      BY <1>3, <1>7, <2>1, ReplyFacts
    <2>2. CASE dc = "open"
      <3>1. Data(n) \in Replies /\ Data(n).type = "data"
        BY ReplyFacts
      <3>2. /\ Len(down') = Len(down) + 1
            /\ \A i \in 1..Len(down') :
                  \/ i \in 1..Len(down) /\ down'[i] = down[i]
                  \/ i = Len(down) + 1 /\ down'[i] = Data(n)
            /\ \A i \in 1..Len(down) : i \in 1..Len(down')
        BY <1>4, <1>7, <2>2, <3>1
      <3>3. \A i \in 1..Len(down) : down'[i] = down[i]
        BY <1>0, <3>2
      <3>4. PICK k \in 1..Len(down) : down[k].type = "ok"
        BY <1>7, <2>2 DEF OkSent
      <3>5. OkSent'
        BY <1>7, <3>2, <3>3, <3>4 DEF OkSent
      <3>6. ASSUME NEW j \in 1..Len(down'), down'[j].type = "data"
            PROVE  \E i \in 1..(j - 1) : down'[i].type = "ok"
        <4>1. CASE j = Len(down) + 1
          <5>1. k \in 1..(j - 1)
            BY <1>0, <4>1
          <5> QED
            BY <3>3, <3>4, <5>1
        <4>2. CASE j \in 1..Len(down) /\ down'[j] = down[j]
          <5>1. PICK i \in 1..(j - 1) : down[i].type = "ok"
            BY <3>6, <4>2 DEF RepliesThenBytes
          <5>2. i \in 1..Len(down)
            BY <1>0, <4>2
          <5> QED
            BY <3>3, <5>1, <5>2
        <4> QED
          BY <3>2, <4>1, <4>2
      <3>7. ASSUME NEW j \in 1..Len(down'), down'[j].type = "ok",
                   NEW i \in (j + 1)..Len(down')
            PROVE  down'[i].type = "data"
        <4>1. j \in 1..Len(down) /\ down[j].type = "ok"
          BY <3>1, <3>2, <3>7
        <4>2. i \in 1..Len(down')
          BY <1>0, <4>1, <3>2
        <4>3. CASE i \in 1..Len(down) /\ down'[i] = down[i]
          <5>1. i \in (j + 1)..Len(down)
            BY <1>0, <4>1, <4>3
          <5> QED
            BY <4>1, <4>3, <5>1 DEF RepliesThenBytes
        <4> QED
          BY <3>1, <3>2, <4>2, <4>3
      <3>8. RepliesThenBytes'
        BY <3>6, <3>7 DEF RepliesThenBytes
      <3> QED
        BY <3>5, <3>8
    <2> QED
      BY <2>1, <2>2
  <1> QED
    BY <1>2, <1>5, <1>6, <1>7, OkSteps

------------------------------------------------------------------------------
(* Replies are counted: reply n answers message n. *)

\* On a new channel nothing has been taken and nothing has been sent.
LEMMA RepliesInit == Init => RepliesCounted
  <1> SUFFICES ASSUME Init PROVE RepliesCounted
    OBVIOUS
  <1>1. next = 0 /\ Len(wire) = 0 /\ Len(buf) = 0 /\ Holding = 0 /\ Len(down) = 0
    BY DEF Init, Holding
  <1>2. Taken = 0 /\ Dialing = 0
    <2>1. Taken = 0
      BY ONLY <1>1 DEF Taken
    <2>2. Dialing = 0
      BY DEF Dialing, Init
    <2> QED
      BY <2>1, <2>2
  <1> QED
    BY <1>1, <1>2 DEF RepliesCounted, Init

\* While there is no connection: a reply to the message just taken, or to the dial.
LEMMA ReplyCounted ==
  ASSUME TypeOK, TypeOK', NEW m \in Replies, Sent(m), m.type # "ok",
         RepliesCounted, conn = "none", conn' = "none",
         Taken \in Nat, Taken' - Dialing' = Taken - Dialing + 1,
         Taken' \in Nat, Dialing \in {0, 1}, Dialing' \in {0, 1},
         dc' = dc \/ (dc' = "closing" /\ pc' = "gone"),
         dc' = "open" => dc = "open",
         pc' # "gone" => pc # "gone", client' = client
  PROVE  RepliesCounted'
  <1>0. Len(down) \in Nat
    BY LenProperties DEF TypeOK, LoopTypes
  <1>1. \/ down' = down /\ dc # "open"
        \/ dc = "open" /\ Len(down') = Len(down) + 1 /\ down'[Len(down) + 1] = m
           /\ \A i \in 1..Len(down) : down'[i] = down[i]
    BY SentFacts
  <1>2. Len(down) <= Taken - Dialing /\ (dc = "open" => Len(down) = Taken - Dialing)
    BY DEF RepliesCounted
  <1>3. Len(down') <= Taken' - Dialing'
    BY <1>0, <1>1, <1>2
  <1>4. dc' = "open" => Len(down') = Taken' - Dialing'
    BY <1>0, <1>1, <1>2
  <1>5. ASSUME NEW j \in 1..Len(down') PROVE down'[j].type # "ok"
    <2>1. \/ j \in 1..Len(down) /\ down'[j] = down[j]
          \/ down'[j] = m
      BY <1>0, <1>1
    <2> QED
      BY <2>1 DEF RepliesCounted
  <1>6. (pc' # "gone" => dc' # "closing") /\ (dc' = "closed" => client' = "closed")
    BY DEF RepliesCounted
  <1> QED
    BY <1>3, <1>4, <1>5, <1>6 DEF RepliesCounted

\* What the steps of the client, of the service and of pion do to the count: nothing.
LEMMA ElsewhereFacts ==
  ASSUME TypeOK, TypeOK', Numbered, EndsInOrder,
         \/ ClientSend \/ ClientCloses \/ ClientVanishes \/ ClientAcks
         \/ ServiceSends \/ ServiceEnds \/ UNCHANGED vars \/ PionStep
  PROVE  /\ UNCHANGED <<conn, pc, connectAt, toTcp, down>>
         /\ dc' = dc \/ (dc' = "closed" /\ client' = "closed")
         /\ client = "closed" => client' = "closed"
         /\ Taken' = Taken
  <1>1. ClientSend \/ ReadMessage \/ OnMessage \/ LeavesQueues
    <2>1. CASE ClientSend \/ ClientCloses \/ ClientVanishes \/ ClientAcks
      BY <2>1 DEF LeavesQueues, ClientCloses, ClientVanishes, ClientAcks, ClientEnds
    <2>2. CASE ServiceSends \/ ServiceEnds \/ UNCHANGED vars
      BY <2>2 DEF LeavesQueues, ServiceSends, ServiceEnds
    <2>3. CASE PionStep
      BY <2>3 DEF PionStep, LeavesQueues, ReadLoopEnds, OnClose
    <2> QED
      BY <2>1, <2>2, <2>3
  <1>2. Taken' = Taken
    BY <1>1, MoveNumbered
  <1>3. CASE ClientSend \/ ClientCloses \/ ClientVanishes \/ ClientAcks
    BY <1>2, <1>3 DEF ClientSend, ClientCloses, ClientVanishes, ClientAcks, ClientEnds
  <1>4. CASE ServiceSends \/ ServiceEnds \/ UNCHANGED vars
    BY <1>2, <1>4 DEF ServiceSends, ServiceEnds
  <1>5. CASE PionStep
    BY <1>2, <1>5 DEF PionStep, ReadMessage, OnMessage, ReadLoopEnds, OnClose
  <1> QED
    BY <1>3, <1>4, <1>5

\* What a step of the command loop that replies does.
LEMMA LoopReplies ==
  ASSUME TypeOK, Plain \/ Challenge \/ Verify \/ ConnectUnknown
  PROVE  /\ TakesMessage
         /\ UNCHANGED <<conn, connectAt, toTcp, client, writer, reader>>
         /\ pc = "cmd" /\ pc' \in {"cmd", "gone"}
         /\ dc' = dc \/ (dc' = "closing" /\ pc' = "gone")
         /\ dc' = "open" => dc = "open"
         /\ \E m \in Replies : Sent(m) /\ m.type \in {"text", "response", "proof"}
  <1>1. TakesMessage
    BY DEF TakesMessage, Plain, Challenge, Verify, ConnectUnknown, Takes
  <1>2. UNCHANGED <<conn, connectAt, toTcp, client, writer, reader>>
    BY DEF Plain, Challenge, Verify, ConnectUnknown, Takes
  <1>3. /\ pc = "cmd" /\ pc' \in {"cmd", "gone"}
        /\ dc' = dc \/ (dc' = "closing" /\ pc' = "gone")
        /\ dc' = "open" => dc = "open"
    <2>1. CASE Plain \/ Challenge \/ Verify
      BY <2>1 DEF Plain, Challenge, Verify, Takes
    <2>2. CASE ConnectUnknown
      BY <2>2 DEF ConnectUnknown, Takes, ClosesDc
    <2> QED
      BY <2>1, <2>2
  <1>4. Text \in Replies /\ Text.type = "text"
    BY ReplyFacts
  <1>5. \E m \in Replies : Sent(m) /\ m.type \in {"text", "response", "proof"}
    <2>1. CASE Plain \/ ConnectUnknown
      BY <1>4, <2>1 DEF Plain, ConnectUnknown
    <2>2. CASE Challenge
      <3>1. Head(buf) \in Message
            /\ commitment' = Head(buf).key /\ rNode' = Head(buf).n
            /\ (Sent(Text) \/ Sent(Reply("response", rNode', commitment')))
        BY <2>2, TailFacts DEF Challenge, Takes, TypeOK, ChanTypes
      <3>2. Reply("response", rNode', commitment') \in Replies
        BY <3>1, MessageFacts, ReplyFacts
      <3>3. Reply("response", rNode', commitment').type = "response"
        BY DEF Reply
      <3> QED
        BY <1>4, <3>1, <3>2, <3>3
    <2>3. CASE Verify
      <3>1. Sent(Text) \/ Sent(Reply("proof", rNode, commitment))
        BY <2>3 DEF Verify
      <3>2. Reply("proof", rNode, commitment) \in Replies
        BY ReplyFacts DEF TypeOK, LoopTypes
      <3>3. Reply("proof", rNode, commitment).type = "proof"
        BY DEF Reply
      <3> QED
        BY <1>4, <3>1, <3>2, <3>3
    <2> QED
      BY <2>1, <2>2, <2>3
  <1> QED
    BY <1>1, <1>2, <1>3, <1>5

\* Every step keeps the count of the replies.
LEMMA RepliesStep ==
  ASSUME TypeOK, TypeOK', EndsInOrder, Numbered, BridgeTakesOver, RepliesCounted,
         [Next]_vars
  PROVE  RepliesCounted'
  <1>0. /\ Taken \in Nat /\ Taken' \in Nat /\ Len(toTcp) \in Nat /\ connectAt \in Nat
        /\ Len(down) \in Nat /\ Dialing \in {0, 1} /\ Dialing' \in {0, 1}
    BY TakenStep, LenProperties DEF TypeOK, TcpTypes, LoopTypes, Dialing
  <1>1. CASE \/ ClientSend \/ ClientCloses \/ ClientVanishes \/ ClientAcks
             \/ ServiceSends \/ ServiceEnds \/ UNCHANGED vars \/ PionStep
    <2>1. /\ UNCHANGED <<conn, pc, connectAt, toTcp, down>>
          /\ dc' = dc \/ (dc' = "closed" /\ client' = "closed")
          /\ client = "closed" => client' = "closed"
          /\ Taken' = Taken
      BY <1>1, ElsewhereFacts
    <2>2. Dialing' = Dialing
      BY <2>1 DEF Dialing
    <2> QED
      BY <2>1, <2>2 DEF RepliesCounted
  <1>2. CASE LoopEnds
    <2>1. /\ pc = "cmd" /\ pc' = "gone" /\ LeavesQueues
          /\ UNCHANGED <<conn, connectAt, toTcp, down, dc, client>>
      BY <1>2 DEF LoopEnds, LeavesQueues
    <2>2. Taken' = Taken /\ Dialing' = Dialing
      BY <2>1, TakenStep DEF Dialing
    <2> QED
      BY <2>1, <2>2 DEF RepliesCounted
  <1>3. CASE Plain \/ Challenge \/ Verify \/ ConnectUnknown
    <2>1. PICK m \in Replies : Sent(m) /\ m.type \in {"text", "response", "proof"}
      BY <1>3, LoopReplies
    <2>2. /\ TakesMessage /\ UNCHANGED <<conn, connectAt, toTcp, client>>
          /\ pc = "cmd" /\ pc' \in {"cmd", "gone"}
          /\ dc' = dc \/ (dc' = "closing" /\ pc' = "gone")
          /\ dc' = "open" => dc = "open"
      BY <1>3, LoopReplies
    <2>3. conn = "none" /\ conn' = "none" /\ Dialing = 0 /\ Dialing' = 0
      BY <2>2 DEF BridgeTakesOver, Dialing
    <2>4. Taken' = Taken + 1
      BY <2>2, TakenStep
    <2>5. Taken' - Dialing' = Taken - Dialing + 1
      BY <1>0, <2>3, <2>4
    <2> QED
      BY <1>0, <2>1, <2>2, <2>3, <2>5, ReplyCounted
  <1>4. CASE Connect
    <2>1. /\ pc = "cmd" /\ pc' = "dialing" /\ TakesMessage
          /\ UNCHANGED <<conn, toTcp, down, dc, client>>
      BY <1>4 DEF Connect, Takes, TakesMessage
    <2>2. conn = "none" /\ Dialing = 0 /\ Dialing' = 1 /\ Taken' = Taken + 1
      BY <2>1, TakenStep DEF BridgeTakesOver, Dialing
    <2>3. Taken' - Dialing' = Taken - Dialing
      BY <1>0, <2>2
    <2> QED
      BY <2>1, <2>2, <2>3 DEF RepliesCounted
  <1>5. CASE DialFails
    <2>1. /\ pc = "dialing" /\ pc' = "gone" /\ LeavesQueues /\ Sent(Text)
          /\ UNCHANGED <<conn, toTcp, client>>
          /\ dc' = dc \/ dc' = "closing"
          /\ dc' = "open" => dc = "open"
      BY <1>5 DEF DialFails, LeavesQueues, ClosesDc
    <2>2. conn = "none" /\ Dialing = 1 /\ Dialing' = 0 /\ Taken' = Taken
      BY <2>1, TakenStep DEF BridgeTakesOver, Dialing
    <2>3. Taken' - Dialing' = Taken - Dialing + 1
      BY <1>0, <2>2
    <2>4. Text \in Replies /\ Text.type # "ok"
      BY ReplyFacts
    <2> QED
      BY <1>0, <2>1, <2>2, <2>3, <2>4, ReplyCounted
  <1>6. CASE DialOk
    <2>1. /\ pc = "dialing" /\ pc' = "gone" /\ LeavesQueues /\ Sent(Ok) /\ conn' = "open"
          /\ UNCHANGED <<connectAt, toTcp, client, dc>>
      BY <1>6 DEF DialOk, LeavesQueues
    <2>2. conn = "none" /\ Dialing = 1 /\ Dialing' = 0 /\ Taken' = Taken
          /\ connectAt = Taken /\ toTcp = <<>>
      BY <2>1, TakenStep DEF BridgeTakesOver, Dialing
    <2>3. Ok \in Replies /\ Ok.type = "ok"
      BY ReplyFacts
    <2>4. \/ down' = down /\ dc # "open"
          \/ dc = "open" /\ Len(down') = Len(down) + 1 /\ down'[Len(down) + 1] = Ok
             /\ \A i \in 1..Len(down) : down'[i] = down[i]
      BY <2>1, <2>3, SentFacts
    <2>5. Len(down) <= connectAt - 1 /\ (dc = "open" => Len(down) = connectAt - 1)
      BY <2>2 DEF RepliesCounted
    <2>6. dc # "closing" /\ (dc = "closed" => client = "closed")
      BY <2>1 DEF RepliesCounted
    <2>7. connectAt' + Len(toTcp') <= Taken'
      BY <1>0, <2>1, <2>2
    <2>8. dc' # "closed" => connectAt' <= Len(down')
      <3>1. ASSUME dc' # "closed" PROVE dc = "open"
        BY <2>1, <2>6, <3>1 DEF TypeOK, ChanTypes
      <3> QED
        BY <1>0, <2>1, <2>4, <2>5, <3>1
    <2>9. ASSUME NEW j \in 1..Len(down') PROVE down'[j].type = "ok" <=> j = connectAt
      <3>1. \/ j \in 1..Len(down) /\ down'[j] = down[j] /\ j # connectAt
            \/ down'[j] = Ok /\ j = connectAt
        BY <1>0, <2>4, <2>5
      <3> QED
        BY <2>2, <2>3, <3>1 DEF RepliesCounted
    <2> QED
      BY <2>1, <2>6, <2>7, <2>8, <2>9 DEF RepliesCounted
  <1>7. CASE WriteTcp
    <2>1. /\ writer = "run" /\ TakesMessage /\ Len(toTcp') = Len(toTcp) + 1
          /\ UNCHANGED <<conn, pc, connectAt, down, dc, client>>
      <3>1. Head(buf).n \in Nat
        BY <1>7, TailFacts, MessageFacts DEF WriteTcp, TypeOK, ChanTypes
      <3> QED
        BY <1>7, <3>1, AppendFacts DEF WriteTcp, TakesMessage, TypeOK, TcpTypes
    <2>2. conn # "none" /\ Taken' = Taken + 1
      BY <2>1, TakenStep DEF BridgeTakesOver
    <2>3. connectAt + Len(toTcp) <= Taken
      BY <2>2 DEF RepliesCounted
    <2>4. connectAt' + Len(toTcp') <= Taken'
      <3>1. connectAt' = connectAt /\ Len(toTcp') = Len(toTcp) + 1 /\ Taken' = Taken + 1
        BY <2>1, <2>2
      <3> QED
        BY ONLY <1>0, <2>3, <3>1
    <2> QED
      BY <2>1, <2>2, <2>4 DEF RepliesCounted
  <1>8. CASE WriteTcpFails
    <2>1. /\ writer = "run" /\ TakesMessage
          /\ UNCHANGED <<conn, pc, connectAt, toTcp, down, dc, client>>
      BY <1>8 DEF WriteTcpFails, TakesMessage
    <2>2. conn # "none" /\ Taken' = Taken + 1
      BY <2>1, TakenStep DEF BridgeTakesOver
    <2>3. connectAt + Len(toTcp) <= Taken
      BY <2>2 DEF RepliesCounted
    <2>4. connectAt' + Len(toTcp') <= Taken'
      BY <1>0, <2>1, <2>2, <2>3
    <2> QED
      BY <2>1, <2>2, <2>4 DEF RepliesCounted
  <1>9. CASE WriterEnds \/ WriterCleanup \/ ReadTcpEnds \/ ReaderCleanup
    <2>1. /\ LeavesQueues /\ UNCHANGED <<pc, connectAt, toTcp, down, client>>
          /\ writer # "none" \/ reader # "none"
          /\ conn' \in {conn, "closed"}
          /\ dc' = dc \/ (dc = "open" /\ dc' = "closing")
      <3>1. CASE WriterEnds
        BY <3>1 DEF WriterEnds, LeavesQueues
      <3>2. CASE ReadTcpEnds
        BY <3>2 DEF ReadTcpEnds, LeavesQueues
      <3>3. CASE WriterCleanup \/ ReaderCleanup
        <4>1. /\ UNCHANGED <<pc, connectAt, toTcp, down, client>>
              /\ writer # "none" \/ reader # "none"
              /\ LeavesQueues /\ conn' = "closed"
          BY <3>3 DEF WriterCleanup, ReaderCleanup, Cleanup, LeavesQueues
        <4>2. dc' = dc \/ (dc = "open" /\ dc' = "closing")
          BY <3>3 DEF WriterCleanup, ReaderCleanup, Cleanup, ClosesDc
        <4> QED
          BY <4>1, <4>2
      <3> QED
        BY <1>9, <3>1, <3>2, <3>3
    <2>2. conn # "none" /\ conn' # "none" /\ pc = "gone" /\ Taken' = Taken
      BY <2>1, TakenStep DEF BridgeTakesOver
    <2> QED
      BY <2>1, <2>2 DEF RepliesCounted
  <1>10. CASE ReadTcp
    <2> DEFINE m == Data(Head(unread))
    <2>1. /\ reader = "run" /\ LeavesQueues /\ Sent(m)
          /\ UNCHANGED <<conn, pc, connectAt, toTcp, dc, client>>
      BY <1>10 DEF ReadTcp, LeavesQueues
    <2>2. conn # "none" /\ Taken' = Taken
      BY <2>1, TakenStep DEF BridgeTakesOver
    <2>3. m \in Replies /\ m.type # "ok"
      BY <1>10, TailFacts, ReplyFacts DEF ReadTcp, TypeOK, TcpTypes
    <2> HIDE DEF m
    <2>4. \/ down' = down /\ dc # "open"
          \/ dc = "open" /\ Len(down') = Len(down) + 1 /\ down'[Len(down) + 1] = m
             /\ \A i \in 1..Len(down) : down'[i] = down[i]
      BY <2>1, <2>3, SentFacts
    <2>5. dc # "closed" => connectAt <= Len(down)
      BY <2>2 DEF RepliesCounted
    <2>6. dc' # "closed" => connectAt' <= Len(down')
      BY <1>0, <2>1, <2>4, <2>5
    <2>7. ASSUME NEW j \in 1..Len(down') PROVE down'[j].type = "ok" <=> j = connectAt
      <3>1. \/ j \in 1..Len(down) /\ down'[j] = down[j]
            \/ down'[j] = m /\ j # connectAt
        BY <1>0, <2>4, <2>5
      <3> QED
        BY <2>2, <2>3, <3>1 DEF RepliesCounted
    <2> QED
      BY <2>1, <2>2, <2>6, <2>7 DEF RepliesCounted
  <1> QED
    BY <1>1, <1>2, <1>3, <1>4, <1>5, <1>6, <1>7, <1>8, <1>9, <1>10
    DEF Next, LoopStep, WriterStep, ReaderStep

------------------------------------------------------------------------------
(* Chunks of the service are in order and counted. *)

\* What comes after the reply to message k.
LEMMA AfterFacts ==
  ASSUME NEW d \in Seq(Replies), NEW k \in Nat
  PROVE  /\ NumbersAfter(k, d) \in Seq(Nat)
         /\ k <= Len(d) => Len(NumbersAfter(k, d)) = Len(d) - k
         /\ Len(d) <= k => NumbersAfter(k, d) = <<>>
  <1>1. Len(d) \in Nat
    BY LenProperties
  <1>2. CASE k <= Len(d)
    <2> DEFINE n == Len(d) - k
    <2>1. n \in Nat
      BY <1>1, <1>2
    <2>2. \A i \in 1..n : d[k + i].r \in Nat
      <3> SUFFICES ASSUME NEW i \in 1..n PROVE d[k + i].r \in Nat
        OBVIOUS
      <3>1. k + i \in 1..Len(d)
        BY <1>1, <1>2
      <3> QED
        BY <3>1, ElementOfSeq, ReplyFacts
    <2>3. NumbersAfter(k, d) \in [1..n -> Nat]
      BY <2>2 DEF NumbersAfter
    <2> HIDE DEF n
    <2>4. NumbersAfter(k, d) \in Seq(Nat) /\ Len(NumbersAfter(k, d)) = n
      BY <2>1, <2>3
    <2>5. n = 0 => NumbersAfter(k, d) = <<>>
      BY <2>4, EmptySeq
    <2> QED
      BY <1>1, <1>2, <2>4, <2>5 DEF n
  <1>3. CASE Len(d) < k
    <2>1. 1..(Len(d) - k) = {}
      BY <1>1, <1>3
    <2>2. NumbersAfter(k, d) = <<>>
      BY <2>1 DEF NumbersAfter
    <2> QED
      BY <1>1, <1>3, <2>2
  <1> QED
    BY <1>1, <1>2, <1>3

LEMMA AfterAppend ==
  ASSUME NEW d \in Seq(Replies), NEW k \in Nat, k <= Len(d), NEW m \in Replies
  PROVE  NumbersAfter(k, Append(d, m)) = Append(NumbersAfter(k, d), m.r)
  <1> DEFINE h == NumbersAfter(k, d)
             e == NumbersAfter(k, Append(d, m))
  <1>1. /\ Len(d) \in Nat /\ Append(d, m) \in Seq(Replies)
        /\ Len(Append(d, m)) = Len(d) + 1 /\ m.r \in Nat
        /\ \A i \in 1..Len(d) + 1 :
              Append(d, m)[i] = IF i = Len(d) + 1 THEN m ELSE d[i]
    BY AppendFacts, ReplyFacts
  <1>2. h \in Seq(Nat) /\ Len(h) = Len(d) - k
    BY AfterFacts
  <1>3. e \in Seq(Nat) /\ Len(e) = Len(d) + 1 - k
    <2>1. k <= Len(Append(d, m))
      BY <1>1
    <2>2. e \in Seq(Nat) /\ Len(e) = Len(Append(d, m)) - k
      BY ONLY <1>1, <2>1, AfterFacts, k \in Nat
    <2> QED
      BY <1>1, <2>2
  <1>4. /\ Append(h, m.r) \in Seq(Nat) /\ Len(Append(h, m.r)) = Len(h) + 1
        /\ \A i \in 1..Len(h) + 1 :
              Append(h, m.r)[i] = IF i = Len(h) + 1 THEN m.r ELSE h[i]
    <2> HIDE DEF h
    <2>1. m.r \in Nat
      BY <1>1
    <2> QED
      BY ONLY <1>2, <2>1, AppendFacts
  <1>5. ASSUME NEW i \in 1..Len(e) PROVE e[i] = Append(h, m.r)[i]
    <2>1. k + i \in 1..Len(d) + 1 /\ i \in 1..Len(h) + 1
      BY <1>1, <1>2, <1>3
    <2>2. e[i] = Append(d, m)[k + i].r
      BY <1>1, <1>3 DEF NumbersAfter
    <2>3. CASE i = Len(h) + 1
      <3>1. k + i = Len(d) + 1
        BY <1>1, <1>2, <2>3
      <3> QED
        BY <1>1, <1>4, <2>1, <2>2, <2>3, <3>1
    <2>4. CASE i # Len(h) + 1
      <3>1. k + i # Len(d) + 1 /\ i \in 1..(Len(d) - k)
        <4> HIDE DEF h, e
        <4>1. i \in Nat \ {0} /\ i <= Len(d) + 1 - k /\ i # Len(d) - k + 1
          BY <1>1, <1>2, <1>3, <2>4
        <4> QED
          BY <1>1, <4>1
      <3>2. h[i] = d[k + i].r
        BY <3>1 DEF NumbersAfter
      <3> QED
        BY <1>1, <1>4, <2>1, <2>2, <2>4, <3>1, <3>2
    <2> QED
      BY <2>3, <2>4
  <1>6. Len(e) = Len(Append(h, m.r))
    BY <1>1, <1>2, <1>3, <1>4
  <1> HIDE DEF h, e
  <1>7. e = Append(h, m.r)
    BY <1>3, <1>4, <1>5, <1>6, SeqEqual
  <1> QED
    BY <1>7 DEF h, e

\* A step on a connected channel leaves what the client has heard, unless it is a read
\* that is sent on, which adds the first chunk not read.
LEMMA HeardGrows ==
  ASSUME TypeOK, Numbered, BridgeTakesOver, RepliesCounted, [Next]_vars
  PROVE  /\ Heard \in Seq(Nat)
         /\ \/ Heard' = Heard /\ ~(ReadTcp /\ dc = "open")
            \/ ReadTcp /\ dc = "open" /\ Heard' = Append(Heard, Head(unread))
  <1>0. /\ down \in Seq(Replies) /\ Len(down) \in Nat /\ connectAt \in Nat
        /\ Taken \in Int /\ Heard \in Seq(Nat)
    BY LenProperties, AfterFacts, QueueLengths, EmptySeq DEF TypeOK, LoopTypes, Heard
  <1>1. CASE ReadTcp
    <2>1. conn = "open" /\ reader = "run" /\ Sent(Data(Head(unread)))
          /\ UNCHANGED <<conn, connectAt>> /\ Head(unread) \in Nat
      BY <1>1, TailFacts DEF ReadTcp, TypeOK, TcpTypes
    <2>2. CASE dc # "open"
      BY <1>0, <2>1, <2>2 DEF Sent, Heard
    <2>3. CASE dc = "open"
      <3>1. connectAt <= Len(down) /\ down' = Append(down, Data(Head(unread)))
        BY <2>1, <2>3 DEF RepliesCounted, Sent
      <3>2. NumbersAfter(connectAt, down') = Append(NumbersAfter(connectAt, down), Head(unread))
        <4>1. Data(Head(unread)) \in Replies /\ Data(Head(unread)).r = Head(unread)
          BY <2>1, ReplyFacts
        <4> QED
          BY ONLY <1>0, <3>1, <4>1, AfterAppend
      <3> QED
        BY <1>0, <1>1, <2>1, <2>3, <3>2 DEF Heard
    <2> QED
      BY <2>2, <2>3
  <1>2. CASE DialOk
    <2>1. /\ pc = "dialing" /\ conn = "none" /\ conn' = "open" /\ Sent(Ok)
          /\ connectAt' = connectAt /\ ~ReadTcp
      BY <1>2 DEF DialOk, BridgeTakesOver, ReadTcp
    <2>2. Len(down) <= connectAt - 1
      BY <1>0, <2>1 DEF RepliesCounted, BridgeTakesOver, Dialing
    <2>3. down' \in Seq(Replies) /\ Len(down') <= Len(down) + 1 /\ Len(down') \in Nat
      BY <1>0, <2>1, AppendFacts, ReplyFacts DEF Sent
    <2>4. Len(down') <= connectAt
      BY ONLY <1>0, <2>2, <2>3
    <2>5. NumbersAfter(connectAt, down') = <<>>
      BY <1>0, <2>3, <2>4, AfterFacts
    <2> QED
      BY <1>0, <2>1, <2>5 DEF Heard
  <1>3. ASSUME conn = "none", conn' = "none", ~ReadTcp PROVE Heard' = Heard
    BY <1>3 DEF Heard
  <1>4. ASSUME UNCHANGED <<down, connectAt>>, conn = "none" <=> conn' = "none"
        PROVE  Heard' = Heard
    BY <1>4 DEF Heard
  <1>5. reader # "none" \/ writer # "none" => conn # "none" /\ pc = "gone"
    BY DEF BridgeTakesOver
  <1>6. CASE \/ ClientSend \/ ClientCloses \/ ClientVanishes \/ ClientAcks
             \/ ServiceSends \/ ServiceEnds \/ UNCHANGED vars \/ PionStep
    <2>1. UNCHANGED <<conn, connectAt, down>>
      <3>1. CASE ClientSend \/ ClientCloses \/ ClientVanishes \/ ClientAcks
        BY <3>1 DEF ClientSend, ClientCloses, ClientVanishes, ClientAcks, ClientEnds
      <3>2. CASE ServiceSends \/ ServiceEnds \/ UNCHANGED vars
        BY <3>2 DEF ServiceSends, ServiceEnds
      <3>3. CASE PionStep
        BY <3>3 DEF PionStep, ReadMessage, OnMessage, ReadLoopEnds, OnClose
      <3> QED
        BY <1>6, <3>1, <3>2, <3>3
    <2> QED
      BY <1>0, <1>1, <1>4, <2>1
  <1>7. CASE \/ LoopEnds \/ Plain \/ Challenge \/ Verify \/ ConnectUnknown \/ Connect
             \/ DialFails
    <2>1. pc # "gone" /\ conn' = conn
      BY <1>7 DEF LoopEnds, Plain, Challenge, Verify, ConnectUnknown, Connect, DialFails,
                  Takes
    <2>2. conn = "none"
      BY <2>1 DEF BridgeTakesOver
    <2> QED
      BY <1>0, <1>1, <1>3, <2>1, <2>2
  <1>8. CASE WriterStep \/ ReadTcpEnds \/ ReaderCleanup
    <2>1. UNCHANGED <<connectAt, down>> /\ conn' \in {conn, "closed"}
          /\ (reader # "none" \/ writer # "none")
      BY <1>8 DEF WriterStep, WriteTcp, WriteTcpFails, WriterEnds, WriterCleanup, Cleanup,
                  ReadTcpEnds, ReaderCleanup
    <2> QED
      BY <1>0, <1>1, <1>4, <1>5, <2>1
  <1> QED
    BY <1>1, <1>2, <1>6, <1>7, <1>8 DEF Next, LoopStep, ReaderStep

\* On a new channel there are none.
LEMMA DownloadInit == Init => DownloadCounted /\ DownloadIntact
  BY EmptySeq DEF Init, DownloadCounted, DownloadIntact, DownloadInOrder,
                  DownloadComplete, Heard

\* 1, 2, ... and the next number.
LEMMA OrderAppend ==
  ASSUME NEW h \in Seq(Nat), \A i \in 1..Len(h) : h[i] = i
  PROVE  \A i \in 1..Len(Append(h, Len(h) + 1)) : Append(h, Len(h) + 1)[i] = i
  <1>1. Len(h) \in Nat /\ Len(h) + 1 \in Nat
    BY LenProperties
  <1>2. /\ Len(Append(h, Len(h) + 1)) = Len(h) + 1
        /\ \A i \in 1..Len(h) + 1 :
              Append(h, Len(h) + 1)[i] = IF i = Len(h) + 1 THEN Len(h) + 1 ELSE h[i]
    BY <1>1, AppendFacts
  <1>3. \A i \in 1..Len(h) + 1 : i # Len(h) + 1 => i \in 1..Len(h)
    BY <1>1
  <1> QED
    BY <1>2, <1>3

\* Every step keeps the order of the chunks.
LEMMA DownloadOrderStep ==
  ASSUME TypeOK, Numbered, BridgeTakesOver, RepliesCounted, DownloadCounted,
         DownloadInOrder, [Next]_vars
  PROVE  DownloadInOrder'
  <1>1. CASE Heard' = Heard
    BY <1>1 DEF DownloadInOrder
  <1>2. CASE ReadTcp /\ dc = "open" /\ Heard' = Append(Heard, Head(unread))
    <2>1. /\ reader = "run" /\ unread \in Seq(Nat) /\ unread # <<>> /\ chunks \in Nat
          /\ Heard \in Seq(Nat)
      BY <1>2, HeardGrows DEF ReadTcp, TypeOK, TcpTypes
    <2>2. /\ Head(unread) = unread[1] /\ Head(unread) \in Nat /\ Len(unread) \in Nat \ {0}
          /\ Len(Heard) = chunks - Len(unread) /\ Len(Heard) \in Nat
      BY <2>1, TailFacts, LenProperties DEF DownloadCounted
    <2>3. unread[1] = chunks - Len(unread) + 1
      <3>1. 1 \in 1..Len(unread)
        BY <2>2
      <3> QED
        BY <3>1 DEF DownloadCounted
    <2>4. Head(unread) = Len(Heard) + 1
      BY <2>2, <2>3
    <2>5. \A i \in 1..Len(Append(Heard, Head(unread))) : Append(Heard, Head(unread))[i] = i
      BY <2>1, <2>4, OrderAppend DEF DownloadInOrder
    <2> QED
      BY <1>2, <2>5 DEF DownloadInOrder
  <1> QED
    BY <1>1, <1>2, HeardGrows

\* Every step keeps the count of the chunks.
LEMMA DownloadStep ==
  ASSUME TypeOK, TypeOK', Numbered, BridgeTakesOver, RepliesCounted, DownloadCounted,
         DownloadComplete, [Next]_vars
  PROVE  DownloadCounted' /\ DownloadComplete'
  <1>0. /\ Heard \in Seq(Nat) /\ Len(Heard) \in Nat /\ chunks \in Nat
        /\ unread \in Seq(Nat) /\ Len(unread) \in Nat
    BY HeardGrows, LenProperties DEF TypeOK, TcpTypes
  <1>h. ~ReadTcp => Heard' = Heard
    BY HeardGrows
  <1>1. CASE \/ ClientSend \/ ClientCloses \/ ClientVanishes \/ ClientAcks
             \/ UNCHANGED vars \/ PionStep \/ LoopEnds \/ Connect
             \/ Plain \/ Challenge \/ Verify \/ ConnectUnknown \/ DialFails
    <2>1. UNCHANGED <<conn, chunks, unread, service, reader, cut>> /\ Heard' = Heard
      <3>1. CASE ClientSend \/ ClientCloses \/ ClientVanishes \/ ClientAcks
        BY <3>1 DEF ClientSend, ClientCloses, ClientVanishes, ClientAcks, ClientEnds, Heard
      <3>2. CASE UNCHANGED vars \/ PionStep
        BY <3>2 DEF PionStep, ReadMessage, OnMessage, ReadLoopEnds, OnClose, Heard
      <3>3. CASE \/ LoopEnds \/ Connect \/ Plain \/ Challenge \/ Verify \/ ConnectUnknown
                 \/ DialFails
        <4>1. pc # "gone" /\ UNCHANGED <<conn, chunks, unread, service, reader, cut>>
          BY <3>3 DEF LoopEnds, Connect, Plain, Challenge, Verify, ConnectUnknown,
                      DialFails, Takes
        <4> QED
          BY <4>1 DEF BridgeTakesOver, Heard
      <3> QED
        BY <1>1, <3>1, <3>2, <3>3
    <2> QED
      BY <2>1 DEF DownloadCounted, DownloadComplete
  <1>2. CASE ServiceSends
    <2>1. /\ conn = "open" /\ service = "open"
          /\ chunks' = chunks + 1 /\ unread' = Append(unread, chunks + 1)
          /\ UNCHANGED <<conn, service, reader, cut, down>>
      BY <1>2 DEF ServiceSends
    <2>2. cut # "service closed" /\ Heard' = Heard
      BY <1>2, <2>1 DEF Heard, ServiceSends, DownloadCounted
    <2>3. /\ Len(unread') = Len(unread) + 1
          /\ \A i \in 1..Len(unread) + 1 :
                unread'[i] = IF i = Len(unread) + 1 THEN chunks + 1 ELSE unread[i]
      <3>1. chunks + 1 \in Nat
        BY <1>0
      <3> QED
        BY ONLY <1>0, <2>1, <3>1, AppendFacts
    <2>4. ASSUME NEW i \in 1..Len(unread')
          PROVE  unread'[i] = chunks' - Len(unread') + i
      <3>1. CASE i = Len(unread) + 1
        BY ONLY <1>0, <2>1, <2>3, <3>1
      <3>2. CASE i # Len(unread) + 1
        <4>1. i \in 1..Len(unread) /\ unread'[i] = unread[i]
          BY ONLY <1>0, <2>3, <3>2, i \in 1..Len(unread')
        <4>2. unread[i] = chunks - Len(unread) + i
          BY <4>1 DEF DownloadCounted
        <4> QED
          BY ONLY <1>0, <2>1, <2>3, <4>1, <4>2
      <3> QED
        BY <3>1, <3>2
    <2>5. chunks' - Len(unread') = chunks - Len(unread)
      BY ONLY <1>0, <2>1, <2>3
    <2> QED
      BY <2>1, <2>2, <2>4, <2>5 DEF DownloadCounted, DownloadComplete
  <1>3. CASE ServiceEnds
    <2>1. /\ conn = "open" /\ service = "open" /\ Heard' = Heard
          /\ UNCHANGED <<conn, chunks, unread, reader, cut>>
      BY <1>3 DEF ServiceEnds, Heard
    <2> QED
      BY <2>1 DEF DownloadCounted, DownloadComplete
  <1>7. CASE DialOk
    <2>1. /\ pc = "dialing" /\ UNCHANGED <<chunks, unread, service, cut>>
          /\ conn' = "open" /\ ~ReadTcp
      BY <1>7 DEF DialOk, BridgeTakesOver, ReadTcp
    <2>2. conn = "none" /\ cut = "none" /\ chunks = 0 /\ unread = <<>> /\ Heard = <<>>
      BY <2>1 DEF BridgeTakesOver, Heard, DownloadCounted
    <2>3. Heard' = <<>> /\ Len(<<>>) = 0
      BY <1>h, <2>1, <2>2, EmptySeq
    <2>4. reader' = "run" => Len(Heard') = chunks' - Len(unread')
      <3>1. Len(Heard') = 0 /\ Len(unread') = 0 /\ chunks' = 0
        BY ONLY <2>1, <2>2, <2>3
      <3> QED
        BY ONLY <3>1
    <2> QED
      BY <2>1, <2>2, <2>3, <2>4 DEF DownloadCounted, DownloadComplete
  <1>8. CASE WriterStep
    <2>1. /\ UNCHANGED <<chunks, unread, service, reader>>
          /\ conn' \in {conn, "closed"} /\ writer # "none"
          /\ cut' = "service closed" => cut = "service closed"
          /\ down' = down /\ connectAt' = connectAt
      <3>1. CASE WriteTcp
        BY <3>1 DEF WriteTcp
      <3>2. CASE WriteTcpFails \/ WriterEnds
        BY <3>2 DEF WriteTcpFails, WriterEnds, Cut
      <3>3. CASE WriterCleanup
        BY <3>3 DEF WriterCleanup, Cleanup
      <3> QED
        BY <1>8, <3>1, <3>2, <3>3 DEF WriterStep
    <2>3. conn # "none" /\ conn' # "none"
      BY <2>1 DEF BridgeTakesOver
    <2>4. Heard' = Heard
      BY <2>1, <2>3 DEF Heard
    <2> QED
      BY <2>1, <2>3, <2>4 DEF DownloadCounted, DownloadComplete
  <1>9. CASE ReadTcp
    <2>1. /\ reader = "run" /\ conn = "open" /\ unread # <<>> /\ unread' = Tail(unread)
          /\ UNCHANGED <<conn, service, chunks>>
      BY <1>9 DEF ReadTcp
    <2>2. cut # "service closed" /\ Len(Heard) = chunks - Len(unread)
      BY <2>1 DEF DownloadCounted
    <2>3. cut' # "service closed"
      BY <1>9, <2>2 DEF ReadTcp, Cut
    <2>4. /\ Len(unread) \in Nat \ {0} /\ Len(unread') = Len(unread) - 1
          /\ \A i \in 1..Len(unread) - 1 : unread'[i] = unread[i + 1]
      BY <1>0, <2>1, TailFacts
    <2>5. ASSUME NEW i \in 1..Len(unread')
          PROVE  unread'[i] = chunks' - Len(unread') + i
      <3>1. i \in 1..Len(unread) - 1 /\ i + 1 \in 1..Len(unread) /\ i \in Nat
        BY ONLY <2>4, i \in 1..Len(unread')
      <3>2. unread'[i] = unread[i + 1] /\ unread[i + 1] = chunks - Len(unread) + (i + 1)
        BY <2>4, <3>1 DEF DownloadCounted
      <3> QED
        BY ONLY <1>0, <2>1, <2>4, <3>1, <3>2
    <2>6. ASSUME reader' = "run" PROVE Len(Heard') = chunks' - Len(unread')
      <3>1. dc = "open"
        BY <1>9, <2>6 DEF ReadTcp
      <3>2. Heard' = Append(Heard, Head(unread)) /\ Head(unread) \in Nat
        <4>1. Head(unread) \in Nat
          BY <1>0, <2>1, TailFacts
        <4> QED
          BY <1>9, <3>1, <4>1, HeardGrows
      <3>3. Len(Heard') = Len(Heard) + 1
        BY ONLY <1>0, <3>2, AppendFacts
      <3> QED
        <4> DEFINE h == Len(Heard)
                   u == Len(unread)
        <4>1. h + 1 = chunks - (u - 1)
          <5>1. h = chunks - u /\ chunks \in Nat /\ u \in Nat
            BY <1>0, <2>2
          <5> HIDE DEF h, u
          <5> QED
            BY ONLY <5>1
        <4>2. Len(Heard') = h + 1 /\ Len(unread') = u - 1 /\ chunks' = chunks
          BY <2>1, <2>4, <3>3
        <4> HIDE DEF h, u
        <4> QED
          BY ONLY <4>1, <4>2
    <2> QED
      BY <2>1, <2>3, <2>5, <2>6 DEF DownloadCounted, DownloadComplete
  <1>10. CASE ReadTcpEnds
    <2>1. /\ reader = "run" /\ reader' = "cleanup"
          /\ UNCHANGED <<conn, service, chunks, unread, down, connectAt>>
      BY <1>10 DEF ReadTcpEnds
    <2>2. Len(Heard) = chunks - Len(unread) /\ cut # "service closed"
          /\ Heard' = Heard /\ conn # "none"
      BY <2>1 DEF Heard, BridgeTakesOver, DownloadCounted
    <2>3. ASSUME cut' = "service closed" PROVE service = "eof" /\ unread = <<>>
      BY <1>10, <2>2, <2>3 DEF ReadTcpEnds, Cut
    <2>4. cut' = "service closed" => Len(Heard) = chunks
      <3>1. Len(<<>>) = 0
        BY EmptySeq
      <3> QED
        <4> DEFINE h == Len(Heard)
        <4>1. ASSUME unread = <<>> PROVE h = chunks
          <5>1. h = chunks - 0 /\ chunks \in Nat
            BY <1>0, <2>2, <3>1, <4>1
          <5> HIDE DEF h
          <5> QED
            BY ONLY <5>1
        <4> QED
          BY <2>3, <4>1
    <2> QED
      BY <2>1, <2>2, <2>3, <2>4 DEF DownloadCounted, DownloadComplete
  <1>11. CASE ReaderCleanup
    <2>1. /\ reader = "cleanup" /\ reader' = "done" /\ conn' = "closed" /\ ~ReadTcp
          /\ UNCHANGED <<service, chunks, unread, cut>>
      BY <1>11 DEF ReaderCleanup, Cleanup, ReadTcp
    <2> QED
      BY <1>h, <2>1 DEF DownloadCounted, DownloadComplete
  <1> QED
    BY <1>1, <1>2, <1>3, <1>7, <1>8, <1>9, <1>10, <1>11
    DEF Next, LoopStep, ReaderStep

------------------------------------------------------------------------------
(* What cuts the bridge. *)

\* No bridge, nothing to cut.
LEMMA CutInit == Init => CutFirst
  BY DEF Init, CutFirst

\* Every step that ends a goroutine of the bridge or closes something has a cause.
LEMMA CutStep ==
  ASSUME TypeOK, TypeOK', EndsInOrder, Numbered, BridgeTakesOver, RepliesCounted,
         CutFirst, [Next]_vars
  PROVE  CutFirst'
  <1> USE DEF CutFirst
  <1>1. CASE \/ ClientSend \/ ClientCloses \/ ClientVanishes \/ ClientAcks
             \/ ServiceSends \/ ServiceEnds \/ UNCHANGED vars \/ PionStep
    <2>1. conn' = conn /\ dc' \in {dc, "closed"}
      BY <1>1, ElsewhereFacts
    <2>2. UNCHANGED <<writer, reader, cut>>
      <3>1. CASE ClientSend \/ ClientCloses \/ ClientVanishes \/ ClientAcks
        BY <3>1 DEF ClientSend, ClientCloses, ClientVanishes, ClientAcks, ClientEnds
      <3>2. CASE ServiceSends \/ ServiceEnds \/ UNCHANGED vars
        BY <3>2 DEF ServiceSends, ServiceEnds
      <3>3. CASE PionStep
        BY <3>3 DEF PionStep, ReadMessage, OnMessage, ReadLoopEnds, OnClose
      <3> QED
        BY <1>1, <3>1, <3>2, <3>3
    <2> QED
      BY <2>1, <2>2
  <1>2. CASE \/ LoopEnds \/ Plain \/ Challenge \/ Verify \/ ConnectUnknown \/ Connect
             \/ DialFails
    <2>1. pc # "gone" /\ conn' = conn
      BY <1>2 DEF LoopEnds, Plain, Challenge, Verify, ConnectUnknown, Connect, DialFails,
                  Takes
    <2> QED
      BY <2>1 DEF BridgeTakesOver
  <1>3. CASE DialOk
    <2>1. dc # "closing"
      BY <1>3 DEF DialOk, RepliesCounted
    <2> QED
      BY <1>3, <2>1 DEF DialOk
  <1>4. CASE WriteTcp
    BY <1>4 DEF WriteTcp
  <1>5. CASE WriteTcpFails \/ WriterEnds \/ ReadTcpEnds
    BY <1>5 DEF WriteTcpFails, WriterEnds, ReadTcpEnds, Cut
  <1>6. CASE ReadTcp
    BY <1>6 DEF ReadTcp, Cut
  <1>7. CASE WriterCleanup \/ ReaderCleanup
    <2>1. (writer = "cleanup" \/ reader = "cleanup") /\ cut' = cut
      BY <1>7 DEF WriterCleanup, ReaderCleanup, Cleanup
    <2>2. cut # "none"
      BY <2>1 DEF BridgeTakesOver
    <2> QED
      BY <2>1, <2>2
  <1> QED
    BY <1>1, <1>2, <1>3, <1>4, <1>5, <1>6, <1>7 DEF Next, LoopStep, WriterStep, ReaderStep

------------------------------------------------------------------------------
(* The theorems. *)

\* A new data channel satisfies the inductive invariant, ...
LEMMA IInvInit == Init => IInv
  <1>1. Init => Numbered
    BY DEF Init, Numbered, Taken, Holding
  <1>2. EndsInOrder => NoSendOnClosed
    BY DEF EndsInOrder, NoSendOnClosed
  <1> QED
    BY <1>1, <1>2, TypeOKInit, EndsInit, BridgeInit, ChallengeInit, OkInit,
       RepliesInit, DownloadInit, CutInit
    DEF IInv

\* ... and every step keeps it.
LEMMA IInvStep ==
  ASSUME IInv, [Next]_vars
  PROVE  IInv'
  <1> USE DEF IInv
  <1>1. TypeOK'
    BY ChanTypesStep, LoopTypesStep, TcpTypesStep, BridgeTypesStep DEF TypeOK
  <1>2. EndsInOrder'
    BY EndsStep
  <1>3. NoSendOnClosed'
    BY <1>2 DEF EndsInOrder, NoSendOnClosed
  <1>4. Numbered'
    BY <1>1, TakenStep
  <1>5. BridgeTakesOver' /\ InOrder' /\ UploadComplete'
    BY <1>1, <1>4, BridgeStep
  <1>6. ChallengeFresh' /\ SignedOnce'
    BY <1>1, ChallengeStep
  <1>7. OkSent' /\ RepliesThenBytes'
    BY OkStep
  <1>8. RepliesCounted'
    BY <1>1, RepliesStep
  <1>9. DownloadCounted' /\ DownloadIntact'
    BY <1>1, DownloadStep, DownloadOrderStep DEF DownloadIntact
  <1>10. CutFirst'
    BY <1>1, CutStep
  <1> QED
    BY <1>1, <1>2, <1>3, <1>4, <1>5, <1>6, <1>7, <1>8, <1>9, <1>10

\* The inductive invariant of a data channel holds in every state.
THEOREM Invariance == Spec => []IInv
  <1>1. IInv /\ [Next]_vars => IInv'
    BY IInvStep
  <1> QED
    BY <1>1, IInvInit, PTL DEF Spec

\* The service gets the messages after the connect command in order, without a gap,
\* and all of them when the bridge ends because the client closed.
THEOREM UploadCorrect == Spec => []UploadIntact
  <1>1. IInv => UploadIntact
    BY DEF IInv, UploadIntact
  <1> QED
    BY <1>1, Invariance, PTL

\* The client is sent the chunks of the service in order, without a gap, and all of
\* them when the bridge ends because the service closed.
THEOREM DownloadCorrect == Spec => []DownloadIntact
  <1>1. IInv => DownloadIntact
    BY DEF IInv
  <1> QED
    BY <1>1, Invariance, PTL

\* A random of the node is signed at most once, for the commitment it answered.
THEOREM ProofsFresh == Spec => []SignedOnce
  <1>1. IInv => SignedOnce
    BY DEF IInv
  <1> QED
    BY <1>1, Invariance, PTL

\* The client gets replies, then ok, then only bytes of the service.
THEOREM ModesInOrder == Spec => []RepliesThenBytes
  <1>1. IInv => RepliesThenBytes
    BY DEF IInv
  <1> QED
    BY <1>1, Invariance, PTL

------------------------------------------------------------------------------
(* Refinement: every step is a step of Tunnel or changes nothing there. *)

\* A new channel is a tunnel that is not there yet.
LEMMA TunnelInit == Init => Bridge!Init
  <1> SUFFICES ASSUME Init PROVE Bridge!Init
    OBVIOUS
  <1>1. LiveEnds = {"client", "service"}
    BY DEF Init, LiveEnds
  <1>2. Heard = <<>>
    BY DEF Init, Heard
  <1> QED
    BY <1>1, <1>2 DEF Init, Bridge!Init, TunnelState, TunnelStart

\* What the mapping is made of: a step that leaves this leaves the tunnel.
TunnelSame == UNCHANGED <<conn, cut, client, service, next, connectAt, toTcp, chunks,
                          Heard>>

LEMMA SameTunnel == TunnelSame => UNCHANGED Bridge!vars
  BY DEF TunnelSame, Bridge!vars, TunnelState, LiveEnds, TunnelStart

\* The client sends, or an end leaves.
LEMMA EndsRefine ==
  ASSUME IInv, \/ ClientSend \/ ClientCloses \/ ClientVanishes \/ ClientAcks
               \/ ServiceSends \/ ServiceEnds
  PROVE  Bridge!Send \/ Bridge!Say \/ Bridge!Leave("client") \/ Bridge!Leave("service")
  <1> USE DEF TunnelState, TunnelStart
  <1>1. ASSUME UNCHANGED <<down, conn, connectAt>> PROVE Heard' = Heard
    BY <1>1 DEF Heard
  <1>2. ("client" \in LiveEnds <=> client = "open")
        /\ ("service" \in LiveEnds <=> service = "open")
    BY DEF LiveEnds
  <1>3. CASE ClientSend
    <2>1. LiveEnds' = LiveEnds
      BY <1>3 DEF ClientSend, LiveEnds
    <2> QED
      BY <1>1, <1>2, <1>3, <2>1 DEF ClientSend, Bridge!Send
  <1>4. CASE ClientCloses \/ ClientVanishes \/ ClientAcks
    <2>1. client = "open" /\ client' # "open" /\ service' = service /\ down' = down
      BY <1>4 DEF ClientCloses, ClientVanishes, ClientAcks, ClientEnds
    <2>2. LiveEnds' = LiveEnds \ {"client"}
      BY <2>1 DEF LiveEnds
    <2>3. UNCHANGED <<next, conn, cut, connectAt, toTcp, chunks>>
      BY <1>4 DEF ClientCloses, ClientVanishes, ClientAcks, ClientEnds
    <2> QED
      BY <1>1, <1>2, <2>1, <2>2, <2>3 DEF Bridge!Leave
  <1>5. CASE ServiceSends
    <2>1. LiveEnds' = LiveEnds
      BY <1>5 DEF ServiceSends, LiveEnds
    <2>2. TunnelState # "none"
      BY <1>5 DEF ServiceSends
    <2> QED
      BY <1>1, <1>2, <1>5, <2>1, <2>2 DEF ServiceSends, Bridge!Say
  <1>6. CASE ServiceEnds
    <2>1. service = "open" /\ service' # "open" /\ client' = client /\ down' = down
      BY <1>6 DEF ServiceEnds
    <2>2. LiveEnds' = LiveEnds \ {"service"}
      BY <2>1 DEF LiveEnds
    <2>3. TunnelState # "none"
      BY <1>6 DEF ServiceEnds
    <2> QED
      BY <1>1, <1>2, <1>6, <2>1, <2>2, <2>3 DEF ServiceEnds, Bridge!Leave
  <1> QED
    BY <1>3, <1>4, <1>5, <1>6

\* A dial that succeeds opens the tunnel at the connect command it obeyed.
LEMMA OpenRefines ==
  ASSUME IInv, DialOk
  PROVE  Bridge!Open
  <1> USE DEF IInv
  <1>1. /\ pc = "dialing" /\ conn = "none" /\ cut = "none" /\ conn' = "open"
        /\ Sent(Ok) /\ UNCHANGED <<client, service, next, connectAt, toTcp, chunks, cut>>
    BY DEF DialOk, BridgeTakesOver
  <1>2. connectAt \in 1..next
    <2>1. Taken \in Nat /\ next \in Nat /\ Taken <= next /\ Len(down) \in Nat
      BY QueueLengths, LenProperties DEF Numbered, Taken, TypeOK, LoopTypes
    <2>2. connectAt = Taken /\ Len(down) <= Taken - 1
      BY <1>1 DEF BridgeTakesOver, RepliesCounted, Dialing
    <2> QED
      BY ONLY <2>1, <2>2
  <1>3. Heard' = Heard
    BY <1>1, HeardGrows DEF ReadTcp, BridgeTakesOver, Next, LoopStep
  <1>4. LiveEnds' = LiveEnds
    BY <1>1 DEF LiveEnds
  <1>5. TunnelState = "none" /\ TunnelState' = "up" /\ TunnelStart' = connectAt
    BY <1>1 DEF TunnelState, TunnelStart
  <1> QED
    BY <1>1, <1>2, <1>3, <1>4, <1>5 DEF Bridge!Open

\* The writer writes the next message.
LEMMA UploadRefines ==
  ASSUME IInv, WriteTcp
  PROVE  Bridge!Upload
  <1> USE DEF IInv
  <1>1. /\ writer = "run" /\ buf # <<>> /\ conn = "open"
        /\ toTcp' = Append(toTcp, Head(buf).n)
        /\ UNCHANGED <<conn, cut, client, service, next, connectAt, chunks, down>>
    BY DEF WriteTcp
  <1>2. /\ next \in Nat /\ Len(wire) \in Nat /\ Len(buf) \in Nat \ {0} /\ Holding \in {0, 1}
        /\ Head(buf) = buf[1]
    BY <1>1, QueueLengths, TailFacts DEF TypeOK, ChanTypes
  <1>3. Head(buf).n = Taken + 1
    BY <1>2 DEF Numbered
  <1>4. Taken + 1 <= next
    BY ONLY <1>2 DEF Taken
  <1>5. connectAt + Len(toTcp) = Taken
    BY <1>1 DEF BridgeTakesOver
  <1>6. connectAt + Len(toTcp) < next
    <2>1. Taken \in Int
      BY QueueLengths
    <2> QED
      BY ONLY <1>2, <1>4, <1>5, <2>1
  <1>7. Heard' = Heard /\ LiveEnds' = LiveEnds
    BY <1>1 DEF Heard, LiveEnds
  <1>8. TunnelState' = TunnelState /\ TunnelState # "none" /\ TunnelStart = connectAt
        /\ TunnelStart' = TunnelStart
    BY <1>1 DEF TunnelState, TunnelStart
  <1> QED
    BY <1>1, <1>3, <1>5, <1>6, <1>7, <1>8 DEF Bridge!Upload

\* A goroutine of the bridge ends: the tunnel ends, unless it has.
LEMMA CutRefines ==
  ASSUME IInv, NEW why, Cut(why), writer # "none", why # "none",
         UNCHANGED <<conn, client, service, next, connectAt, toTcp, chunks, Heard>>,
         cut = "none" => IF why = "client closed" THEN client # "open" /\
                             connectAt + Len(toTcp) = next
                         ELSE IF why = "service closed" THEN service # "open" /\
                             Len(Heard) = chunks
                         ELSE client # "open" \/ service # "open"
  PROVE  \/ UNCHANGED Bridge!vars
         \/ Bridge!ClientClosed \/ Bridge!ServiceClosed \/ Bridge!Breaks
  <1>1. CASE cut # "none"
    BY <1>1, SameTunnel DEF Cut, TunnelSame
  <1>2. CASE cut = "none"
    <2>1. conn # "none" /\ cut' = why
      BY <1>2 DEF IInv, BridgeTakesOver, Cut
    <2>2. /\ TunnelState = "up" /\ TunnelStart = connectAt
          /\ UNCHANGED <<LiveEnds, TunnelStart, Heard>>
          /\ TunnelState' = IF why \in {"client closed", "service closed"} THEN why
                            ELSE "broken"
      BY <1>2, <2>1 DEF TunnelState, TunnelStart, LiveEnds
    <2>3. ("client" \in LiveEnds <=> client = "open")
          /\ ("service" \in LiveEnds <=> service = "open")
      BY DEF LiveEnds
    <2>4. CASE why = "client closed"
      BY <1>2, <2>2, <2>3, <2>4 DEF Bridge!ClientClosed, Bridge!EndsAs
    <2>5. CASE why = "service closed"
      BY <1>2, <2>2, <2>3, <2>5 DEF Bridge!ServiceClosed, Bridge!EndsAs
    <2>6. CASE why \notin {"client closed", "service closed"}
      <3>1. LiveEnds # {"client", "service"}
        BY <1>2, <2>3, <2>6
      <3> QED
        BY <2>2, <2>6, <3>1 DEF Bridge!Breaks, Bridge!EndsAs
    <2> QED
      BY <2>4, <2>5, <2>6
  <1> QED
    BY <1>1, <1>2

\* Every step maps to a step of the tunnel or to a stutter.
LEMMA TunnelStep ==
  ASSUME IInv, [Next]_vars
  PROVE  [Bridge!Next]_(Bridge!vars)
  <1> USE DEF IInv
  <1> DEFINE Cuts == \/ UNCHANGED Bridge!vars
                     \/ Bridge!ClientClosed \/ Bridge!ServiceClosed \/ Bridge!Breaks
  <1>0. ASSUME TunnelSame PROVE UNCHANGED Bridge!vars
    BY <1>0, SameTunnel
  <1>1. ASSUME UNCHANGED <<down, conn, connectAt>> PROVE Heard' = Heard
    BY <1>1 DEF Heard
  <1>h. /\ Heard \in Seq(Nat)
        /\ \/ Heard' = Heard /\ ~(ReadTcp /\ dc = "open")
           \/ ReadTcp /\ dc = "open" /\ Heard' = Append(Heard, Head(unread))
    BY HeardGrows
  <1>2. CASE PionStep \/ UNCHANGED vars
    <2>1. TunnelSame
      BY <1>1, <1>2 DEF PionStep, ReadMessage, OnMessage, ReadLoopEnds, OnClose, TunnelSame
    <2> QED
      BY <1>0, <2>1
  <1>3. CASE LoopEnds \/ Connect
    <2>1. conn = "none" /\ conn' = "none" /\ Heard' = Heard
      BY <1>3 DEF LoopEnds, Connect, Takes, BridgeTakesOver, Heard
    <2>2. UNCHANGED <<cut, client, service, next, toTcp, chunks>>
      BY <1>3 DEF LoopEnds, Connect, Takes
    <2> QED
      BY <2>1, <2>2 DEF Bridge!vars, TunnelState, LiveEnds, TunnelStart
  <1>4. CASE Plain \/ Challenge \/ Verify \/ ConnectUnknown \/ DialFails
    <2>1. conn = "none" /\ conn' = "none"
      BY <1>4 DEF Plain, Challenge, Verify, ConnectUnknown, DialFails, Takes, BridgeTakesOver
    <2>2. Heard' = Heard
      BY <2>1 DEF Heard
    <2>3. UNCHANGED <<conn, cut, client, service, next, connectAt, toTcp, chunks>>
      BY <1>4 DEF Plain, Challenge, Verify, ConnectUnknown, DialFails, Takes
    <2> QED
      BY <1>0, <2>2, <2>3 DEF TunnelSame
  <1>5. CASE WriterCleanup \/ ReaderCleanup
    <2>1. conn # "none" /\ conn' # "none"
      BY <1>5 DEF WriterCleanup, ReaderCleanup, Cleanup, BridgeTakesOver
    <2>2. UNCHANGED <<cut, client, service, next, connectAt, toTcp, chunks, down>>
      BY <1>5 DEF WriterCleanup, ReaderCleanup, Cleanup
    <2>3. Heard' = Heard
      BY <2>1, <2>2 DEF Heard
    <2> QED
      BY <2>1, <2>2, <2>3 DEF Bridge!vars, TunnelState, LiveEnds, TunnelStart
  <1>6. ASSUME WriteTcpFails PROVE Cuts
    <2>1. /\ writer = "run" /\ (conn = "closed" \/ service # "open")
          /\ Cut("write error")
          /\ UNCHANGED <<conn, client, service, next, connectAt, toTcp, chunks, down>>
      BY <1>6 DEF WriteTcpFails
    <2>2. cut = "none" => service # "open"
      BY <2>1 DEF CutFirst, BridgeTakesOver
    <2> QED
      BY <1>1, <2>1, <2>2, CutRefines
  <1>7. ASSUME WriterEnds PROVE Cuts
    <2>1. /\ writer = "run" /\ buf = <<>> /\ bufClosed
          /\ Cut("client closed")
          /\ UNCHANGED <<conn, client, service, next, connectAt, toTcp, chunks, down>>
      BY <1>7 DEF WriterEnds
    <2>2. rl = "ended" /\ client = "closed" /\ wire = <<>>
      BY <2>1 DEF EndsInOrder
    <2>3. Len(wire) = 0 /\ Len(buf) = 0 /\ Holding = 0 /\ next \in Nat
      BY <2>1, <2>2, QueueLengths DEF Holding
    <2>4. Taken = next
      BY ONLY <2>3 DEF Taken
    <2>5. connectAt + Len(toTcp) = next
      BY <2>1, <2>4 DEF BridgeTakesOver
    <2> QED
      BY <1>1, <2>1, <2>2, <2>5, CutRefines
  <1>8. ASSUME ReadTcpEnds PROVE Cuts
    <2>1. /\ reader = "run" /\ writer # "none"
          /\ UNCHANGED <<conn, client, service, next, connectAt, toTcp, chunks, down>>
      BY <1>8 DEF ReadTcpEnds, BridgeTakesOver
    <2>2. CASE conn = "open" /\ service = "eof"
      <3>1. unread = <<>> /\ Cut("service closed")
        BY <1>8, <2>2 DEF ReadTcpEnds
      <3>2. Len(Heard) = chunks
        <4>1. Len(Heard) = chunks - Len(unread) /\ chunks \in Nat
          BY <2>1 DEF DownloadCounted, TypeOK, TcpTypes
        <4>2. Len(<<>>) = 0
          BY EmptySeq
        <4> DEFINE h == Len(Heard)
        <4>3. h = chunks - 0 /\ chunks \in Nat
          BY <3>1, <4>1, <4>2
        <4>4. h = chunks
          <5> HIDE DEF h
          <5> QED
            BY ONLY <4>3
        <4> QED
          BY <4>4
      <3> QED
        BY <1>1, <2>1, <2>2, <3>1, <3>2, CutRefines
    <2>3. CASE ~(conn = "open" /\ service = "eof")
      <3>1. Cut("read error") /\ (conn = "closed" \/ service = "reset")
        BY <1>8, <2>3 DEF ReadTcpEnds, TypeOK, TcpTypes, BridgeTakesOver
      <3>2. cut = "none" => service # "open"
        BY <2>1, <3>1 DEF CutFirst, BridgeTakesOver
      <3> QED
        BY <1>1, <2>1, <3>1, <3>2, CutRefines
    <2> QED
      BY <2>2, <2>3
  <1>9. ASSUME ReadTcp, dc = "open" PROVE Bridge!Hear
    <2>1. /\ reader = "run" /\ unread \in Seq(Nat) /\ unread # <<>>
          /\ UNCHANGED <<conn, cut, client, service, next, connectAt, toTcp, chunks>>
      BY <1>9 DEF ReadTcp, TypeOK, TcpTypes
    <2>2. /\ Head(unread) = unread[1] /\ Len(unread) \in Nat \ {0}
          /\ Len(Heard) = chunks - Len(unread) /\ chunks \in Nat
          /\ 1 \in 1..Len(unread)
      <3>1. Len(Heard) = chunks - Len(unread) /\ chunks \in Nat
        BY <2>1 DEF DownloadCounted, TypeOK, TcpTypes
      <3>2. Head(unread) = unread[1] /\ Len(unread) \in Nat \ {0}
        BY ONLY <2>1, TailFacts
      <3> QED
        BY <3>1, <3>2
    <2>5. unread[1] = chunks - Len(unread) + 1
      BY <2>2 DEF DownloadCounted
    <2>3. Len(Heard) < chunks /\ Heard' = Append(Heard, Len(Heard) + 1)
      BY <1>9, <1>h, <2>2, <2>5
    <2>4. UNCHANGED <<TunnelState, LiveEnds, TunnelStart>>
      BY <2>1 DEF TunnelState, LiveEnds, TunnelStart
    <2> QED
      BY <2>1, <2>2, <2>3, <2>4 DEF Bridge!Hear
  <1>10. ASSUME ReadTcp, dc # "open" PROVE Cuts
    <2>1. /\ reader = "run" /\ writer # "none" /\ Cut("send error")
          /\ UNCHANGED <<conn, client, service, next, connectAt, toTcp, chunks>>
      BY <1>10 DEF ReadTcp, BridgeTakesOver
    <2>2. cut = "none" => client # "open"
      <3>1. cut = "none" => dc = "closed"
        BY <1>10, <2>1 DEF CutFirst, BridgeTakesOver, TypeOK, ChanTypes
      <3> QED
        BY <3>1 DEF RepliesCounted
    <2>3. Heard' = Heard
      BY <1>10, <1>h
    <2> QED
      BY <2>1, <2>2, <2>3, CutRefines
  <1> HIDE DEF IInv
  <1>11. CASE ReadTcp
    BY <1>9, <1>10, <1>11 DEF Bridge!Next
  <1>12. CASE WriteTcpFails \/ WriterEnds \/ ReadTcpEnds
    BY <1>6, <1>7, <1>8, <1>12 DEF Bridge!Next
  <1>13. CASE \/ ClientSend \/ ClientCloses \/ ClientVanishes \/ ClientAcks
              \/ ServiceSends \/ ServiceEnds
    BY <1>13, EndsRefine DEF Bridge!Next
  <1>14. CASE DialOk
    BY <1>14, OpenRefines DEF Bridge!Next
  <1>15. CASE WriteTcp
    BY <1>15, UploadRefines DEF Bridge!Next
  <1> QED
    BY <1>2, <1>3, <1>4, <1>5, <1>11, <1>12, <1>13, <1>14, <1>15
    DEF Next, LoopStep, WriterStep, ReaderStep

\* The data channel with its four threads implements the tunnel.
THEOREM Refinement == Spec => ImplementsTunnel
  BY Invariance, TunnelInit, TunnelStep, PTL DEF Spec, ImplementsTunnel, Bridge!Spec
==============================================================================
