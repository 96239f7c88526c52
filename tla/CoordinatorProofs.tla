-------------------------- MODULE CoordinatorProofs --------------------------
(***************************************************************************)
(* Proofs about Coordinator, for any sets of nodes, connections and         *)
(* requests.                                                                *)
(***************************************************************************)
EXTENDS Coordinator, SequenceTheorems, TLAPS

USE ConstantsAssumption
    DEF vars, regVars, connVars, offVars, Goto, HandlerPC, OfferPC, Message,
        Ping, Close, Answer, NoMsg

------------------------------------------------------------------------------
(* Type correctness.  One step per action. *)

\* A coordinator that has just started is well typed.
LEMMA TypeOKInit == Init => TypeOK
  BY DEF Init, TypeOK

\* Every step of a goroutine, a node or the network preserves the types.
LEMMA TypeOKStep ==
  ASSUME TypeOK, [Next]_vars
  PROVE  TypeOK'
  <1> USE DEF TypeOK
  <1>1. ASSUME NEW c \in Conn, Dial(c) PROVE TypeOK'
    BY <1>1 DEF Dial
  <1>2. ASSUME NEW c \in Conn, ReadHello(c) PROVE TypeOK'
    BY <1>2 DEF ReadHello
  <1>3. ASSUME NEW c \in Conn, ReadRegister(c) PROVE TypeOK'
    BY <1>3 DEF ReadRegister
  <1>4. ASSUME NEW c \in Conn, PeerPing(c) PROVE TypeOK'
    BY <1>4 DEF PeerPing, Send
  <1>5. ASSUME NEW c \in Conn, PeerClose(c) PROVE TypeOK'
    BY <1>5 DEF PeerClose, Send
  <1>6. ASSUME NEW c \in Conn, PeerReset(c) PROVE TypeOK'
    BY <1>6 DEF PeerReset, PeerGone
  <1>7. ASSUME NEW c \in Conn, PeerSilent(c) PROVE TypeOK'
    BY <1>7 DEF PeerSilent, PeerGone
  <1>8. ASSUME NEW c \in Conn, TcpGivesUp(c) PROVE TypeOK'
    BY <1>8 DEF TcpGivesUp
  <1>9. ASSUME NEW c \in Conn, HandshakeFails(c) PROVE TypeOK'
    BY <1>9 DEF HandshakeFails
  <1>10. ASSUME NEW c \in Conn, ReadMessage(c) PROVE TypeOK'
    BY <1>10 DEF ReadMessage
  <1>11. ASSUME NEW c \in Conn, ReadFails(c) PROVE TypeOK'
    BY <1>11 DEF ReadFails
  <1>12. ASSUME NEW c \in Conn, HandlePing(c) PROVE TypeOK'
    BY <1>12 DEF HandlePing
  <1>13. ASSUME NEW c \in Conn, LookupAnswer(c) PROVE TypeOK'
    BY <1>13 DEF LookupAnswer
  <1>14. ASSUME NEW c \in Conn, DeliverAnswer(c) PROVE TypeOK'
    BY <1>14 DEF DeliverAnswer
  <1>15. ASSUME NEW c \in Conn, HandleClose(c) PROVE TypeOK'
    BY <1>15 DEF HandleClose
  <1>16. ASSUME NEW c \in Conn, CloseConn(c) PROVE TypeOK'
    BY <1>16 DEF CloseConn
  <1>17. ASSUME NEW c \in Conn, FinishClose(c) PROVE TypeOK'
    BY <1>17 DEF FinishClose
  <1>18. ASSUME NEW c \in Conn, RegisterNode(c) PROVE TypeOK'
    BY <1>18 DEF RegisterNode
  <1>19. ASSUME NEW c \in Conn, UnregisterNode(c) PROVE TypeOK'
    BY <1>19 DEF UnregisterNode
  <1>20. ASSUME NEW c \in Conn, PruneNode(c) PROVE TypeOK'
    BY <1>20 DEF PruneNode
  <1>21. ASSUME NEW c \in Conn, NEW r \in Req, PeerAnswer(c, r) PROVE TypeOK'
    BY <1>21 DEF PeerAnswer, Send
  <1>22. ASSUME NEW r \in Req, RejectOffer(r) PROVE TypeOK'
    BY <1>22 DEF RejectOffer
  <1>23. ASSUME NEW r \in Req, PostOffer(r) PROVE TypeOK'
    BY <1>23 DEF PostOffer
  <1>24. ASSUME NEW r \in Req, LookupNode(r) PROVE TypeOK'
    <2>1. nodes[want[r]] \in Conn \cup {NoConn}
      OBVIOUS
    <2>2. CASE nodes[want[r]] = NoConn
      BY <1>24, <2>2 DEF LookupNode
    <2>3. CASE nodes[want[r]] # NoConn
      BY <1>24, <2>1, <2>3 DEF LookupNode
    <2> QED
      BY <2>2, <2>3
  <1>25. ASSUME NEW r \in Req, AddPending(r) PROVE TypeOK'
    BY <1>25 DEF AddPending
  <1>26. ASSUME NEW r \in Req, BeginWrite(r) PROVE TypeOK'
    BY <1>26 DEF BeginWrite
  <1>27. ASSUME NEW r \in Req, BadGateway(r) PROVE TypeOK'
    BY <1>27 DEF BadGateway, FailAfterUnpend
  <1>28. ASSUME NEW r \in Req, TakeAnswer(r) PROVE TypeOK'
    BY <1>28 DEF TakeAnswer
  <1>29. ASSUME NEW r \in Req, AnswerTimeout(r) PROVE TypeOK'
    BY <1>29 DEF AnswerTimeout
  <1>30. ASSUME NEW r \in Req, GatewayTimeout(r) PROVE TypeOK'
    BY <1>30 DEF GatewayTimeout, FailAfterUnpend
  <1>31. ASSUME NEW r \in Req, WriteOk(r) PROVE TypeOK'
    BY <1>31 DEF WriteOk, WriteEnds
  <1>32. ASSUME NEW r \in Req, WriteFails(r) PROVE TypeOK'
    BY <1>32 DEF WriteFails, WriteEnds
  <1>33. ASSUME NEW r \in Req, WritePanics(r) PROVE TypeOK'
    BY <1>33 DEF WritePanics, WriteEnds
  <1>34. CASE PruneStart
    <2>1. {nodes[id] : id \in NodeId} \ {NoConn} \subseteq Conn
      OBVIOUS
    <2> QED
      BY <1>34, <2>1 DEF PruneStart
  <1>35. CASE PruneEnd \/ UNCHANGED vars
    BY <1>35 DEF PruneEnd
  <1> QED
    BY <1>1, <1>2, <1>3, <1>4, <1>5, <1>6, <1>7, <1>8, <1>9, <1>10, <1>11,
       <1>12, <1>13, <1>14, <1>15, <1>16, <1>17, <1>18, <1>19, <1>20, <1>21,
       <1>22, <1>23, <1>24, <1>25, <1>26, <1>27, <1>28, <1>29, <1>30, <1>31,
       <1>32, <1>33, <1>34, <1>35
    DEF Next, Environment, HandlerStep, OfferStep, EndWrite, PrunerStep

\* Every variable keeps the values its Go type allows.
THEOREM TypeCorrect == Spec => []TypeOK
  BY TypeOKInit, TypeOKStep, PTL DEF Spec

------------------------------------------------------------------------------
(* Each conjunct of IInv is preserved, given the conjuncts it depends on. *)

\* Entries are added by a live handler, and leave before or with it.
LEMMA NoDeadEntryStep ==
  ASSUME TypeOK, NoDeadEntry, [Next]_vars
  PROVE  NoDeadEntry'
  <1> USE DEF TypeOK, NoDeadEntry, InRegistry
  <1>1. ASSUME NEW c \in Conn, RegisterNode(c) PROVE NoDeadEntry'
    BY <1>1 DEF RegisterNode
  <1>2. ASSUME NEW c \in Conn, UnregisterNode(c) PROVE NoDeadEntry'
    BY <1>2 DEF UnregisterNode
  <1>3. ASSUME NEW c \in Conn, PruneNode(c) PROVE NoDeadEntry'
    BY <1>3 DEF PruneNode
  <1>4. ASSUME NEW c \in Conn,
            Dial(c) \/ ReadHello(c) \/ ReadRegister(c) \/ PeerPing(c)
            \/ PeerClose(c) \/ PeerReset(c) \/ PeerSilent(c)
       PROVE  NoDeadEntry'
    BY <1>4 DEF Dial, ReadHello, ReadRegister, PeerPing, Send, PeerClose,
          PeerReset, PeerGone, PeerSilent
  <1>5. ASSUME NEW c \in Conn,
            TcpGivesUp(c) \/ HandshakeFails(c) \/ ReadMessage(c)
            \/ ReadFails(c) \/ HandlePing(c) \/ LookupAnswer(c)
            \/ DeliverAnswer(c)
       PROVE  NoDeadEntry'
    BY <1>5 DEF TcpGivesUp, HandshakeFails, ReadMessage, ReadFails,
          HandlePing, LookupAnswer, DeliverAnswer
  <1>6. ASSUME NEW c \in Conn,
            HandleClose(c) \/ CloseConn(c) \/ FinishClose(c)
       PROVE  NoDeadEntry'
    BY <1>6 DEF HandleClose, CloseConn, FinishClose
  <1>7. ASSUME NEW c \in Conn, NEW r \in Req, PeerAnswer(c, r) PROVE NoDeadEntry'
    BY <1>7 DEF PeerAnswer, Send
  <1>8. ASSUME NEW r \in Req,
            RejectOffer(r) \/ PostOffer(r) \/ LookupNode(r) \/ AddPending(r)
            \/ BeginWrite(r) \/ BadGateway(r)
       PROVE  NoDeadEntry'
    BY <1>8 DEF RejectOffer, PostOffer, LookupNode, AddPending, BeginWrite,
          BadGateway, FailAfterUnpend
  <1>9. ASSUME NEW r \in Req,
            TakeAnswer(r) \/ AnswerTimeout(r) \/ GatewayTimeout(r)
            \/ WriteOk(r) \/ WriteFails(r) \/ WritePanics(r)
       PROVE  NoDeadEntry'
    BY <1>9 DEF TakeAnswer, AnswerTimeout, GatewayTimeout, FailAfterUnpend,
          WriteOk, WriteEnds, WriteFails, WritePanics
  <1>10. CASE PruneStart
    BY <1>10 DEF PruneStart
  <1>11. CASE PruneEnd \/ UNCHANGED vars
    BY <1>11 DEF PruneEnd
  <1> QED
    BY <1>1, <1>2, <1>3, <1>4, <1>5, <1>6, <1>7, <1>8, <1>9, <1>10, <1>11
    DEF Next, Environment, HandlerStep, OfferStep, EndWrite, PrunerStep

\* A sweep copies entries of connections that have registered.
LEMMA SweepStartedStep ==
  ASSUME TypeOK, NoDeadEntry, SweepStarted, [Next]_vars
  PROVE  SweepStarted'
  <1> USE DEF TypeOK, NoDeadEntry, SweepStarted, InRegistry
  <1>1. ASSUME NEW c \in Conn, PruneNode(c) PROVE SweepStarted'
    BY <1>1 DEF PruneNode
  <1>2. ASSUME NEW c \in Conn,
            Dial(c) \/ ReadHello(c) \/ ReadRegister(c) \/ PeerPing(c)
            \/ PeerClose(c) \/ PeerReset(c) \/ PeerSilent(c)
       PROVE  SweepStarted'
    BY <1>2 DEF Dial, ReadHello, ReadRegister, PeerPing, Send, PeerClose,
          PeerReset, PeerGone, PeerSilent
  <1>3. ASSUME NEW c \in Conn,
            TcpGivesUp(c) \/ HandshakeFails(c) \/ ReadMessage(c)
            \/ ReadFails(c) \/ HandlePing(c) \/ LookupAnswer(c)
            \/ DeliverAnswer(c)
       PROVE  SweepStarted'
    BY <1>3 DEF TcpGivesUp, HandshakeFails, ReadMessage, ReadFails,
          HandlePing, LookupAnswer, DeliverAnswer
  <1>4. ASSUME NEW c \in Conn,
            HandleClose(c) \/ CloseConn(c) \/ FinishClose(c)
            \/ RegisterNode(c) \/ UnregisterNode(c)
       PROVE  SweepStarted'
    BY <1>4 DEF HandleClose, CloseConn, FinishClose, RegisterNode,
          UnregisterNode
  <1>5. ASSUME NEW c \in Conn, NEW r \in Req, PeerAnswer(c, r) PROVE SweepStarted'
    BY <1>5 DEF PeerAnswer, Send
  <1>6. ASSUME NEW r \in Req,
            RejectOffer(r) \/ PostOffer(r) \/ LookupNode(r) \/ AddPending(r)
            \/ BeginWrite(r) \/ BadGateway(r)
       PROVE  SweepStarted'
    BY <1>6 DEF RejectOffer, PostOffer, LookupNode, AddPending, BeginWrite,
          BadGateway, FailAfterUnpend
  <1>7. ASSUME NEW r \in Req,
            TakeAnswer(r) \/ AnswerTimeout(r) \/ GatewayTimeout(r)
            \/ WriteOk(r) \/ WriteFails(r) \/ WritePanics(r)
       PROVE  SweepStarted'
    BY <1>7 DEF TakeAnswer, AnswerTimeout, GatewayTimeout, FailAfterUnpend,
          WriteOk, WriteEnds, WriteFails, WritePanics
  <1>8. CASE PruneStart
    BY <1>8 DEF PruneStart
  <1>9. CASE PruneEnd \/ UNCHANGED vars
    BY <1>9 DEF PruneEnd
  <1> QED
    BY <1>1, <1>2, <1>3, <1>4, <1>5, <1>6, <1>7, <1>8, <1>9
    DEF Next, Environment, HandlerStep, OfferStep, EndWrite, PrunerStep

\* Only the handler itself, or the pruner on a connection that is not up, removes
\* the entry of a node that has one connection.
LEMMA ListedUnlessReconnectedStep ==
  ASSUME TypeOK, NoDeadEntry, SweepStarted, ListedUnlessReconnected,
         [Next]_vars
  PROVE  ListedUnlessReconnected'
  <1> USE DEF TypeOK, NoDeadEntry, SweepStarted, ListedUnlessReconnected, InRegistry,
              MaybeStale
  <1>1. ASSUME NEW c \in Conn, Dial(c) PROVE ListedUnlessReconnected'
    BY <1>1 DEF Dial
  <1>2. ASSUME NEW c \in Conn, RegisterNode(c) PROVE ListedUnlessReconnected'
    BY <1>2 DEF RegisterNode
  <1>3. ASSUME NEW c \in Conn, UnregisterNode(c) PROVE ListedUnlessReconnected'
    BY <1>3 DEF UnregisterNode
  <1>4. ASSUME NEW c \in Conn, PruneNode(c) PROVE ListedUnlessReconnected'
    BY <1>4 DEF PruneNode
  <1>5. ASSUME NEW c \in Conn,
            ReadHello(c) \/ ReadRegister(c) \/ PeerPing(c) \/ PeerClose(c)
            \/ PeerReset(c) \/ PeerSilent(c) \/ TcpGivesUp(c)
       PROVE  ListedUnlessReconnected'
    BY <1>5 DEF ReadHello, ReadRegister, PeerPing, Send, PeerClose, PeerReset,
          PeerGone, PeerSilent, TcpGivesUp
  <1>6. ASSUME NEW c \in Conn,
            HandshakeFails(c) \/ ReadMessage(c) \/ ReadFails(c)
            \/ HandlePing(c) \/ LookupAnswer(c) \/ DeliverAnswer(c)
            \/ HandleClose(c)
       PROVE  ListedUnlessReconnected'
    BY <1>6 DEF HandshakeFails, ReadMessage, ReadFails, HandlePing,
          LookupAnswer, DeliverAnswer, HandleClose
  <1>7. ASSUME NEW c \in Conn,
            CloseConn(c) \/ FinishClose(c)
       PROVE  ListedUnlessReconnected'
    BY <1>7 DEF CloseConn, FinishClose
  <1>8. ASSUME NEW c \in Conn, NEW r \in Req, PeerAnswer(c, r) PROVE ListedUnlessReconnected'
    BY <1>8 DEF PeerAnswer, Send
  <1>9. ASSUME NEW r \in Req,
            RejectOffer(r) \/ PostOffer(r) \/ LookupNode(r) \/ AddPending(r)
            \/ BeginWrite(r) \/ BadGateway(r)
       PROVE  ListedUnlessReconnected'
    BY <1>9 DEF RejectOffer, PostOffer, LookupNode, AddPending, BeginWrite,
          BadGateway, FailAfterUnpend
  <1>10. ASSUME NEW r \in Req,
            TakeAnswer(r) \/ AnswerTimeout(r) \/ GatewayTimeout(r)
            \/ WriteOk(r) \/ WriteFails(r) \/ WritePanics(r)
       PROVE  ListedUnlessReconnected'
    BY <1>10 DEF TakeAnswer, AnswerTimeout, GatewayTimeout, FailAfterUnpend,
          WriteOk, WriteEnds, WriteFails, WritePanics
  <1>11. CASE PruneStart
    BY <1>11 DEF PruneStart
  <1>12. CASE PruneEnd \/ UNCHANGED vars
    BY <1>12 DEF PruneEnd
  <1> QED
    BY <1>1, <1>2, <1>3, <1>4, <1>5, <1>6, <1>7, <1>8, <1>9, <1>10, <1>11,
       <1>12
    DEF Next, Environment, HandlerStep, OfferStep, EndWrite, PrunerStep

\* handleOffer keeps the node it has looked up.
LEMMA TargetKnownStep ==
  ASSUME TypeOK, TargetKnown, [Next]_vars
  PROVE  TargetKnown'
  <1> USE DEF TypeOK, TargetKnown
  <1>1. ASSUME NEW c \in Conn,
            Dial(c) \/ ReadHello(c) \/ ReadRegister(c) \/ PeerPing(c)
            \/ PeerClose(c) \/ PeerReset(c) \/ PeerSilent(c)
       PROVE  TargetKnown'
    BY <1>1 DEF Dial, ReadHello, ReadRegister, PeerPing, Send, PeerClose,
          PeerReset, PeerGone, PeerSilent
  <1>2. ASSUME NEW c \in Conn,
            TcpGivesUp(c) \/ HandshakeFails(c) \/ ReadMessage(c)
            \/ ReadFails(c) \/ HandlePing(c) \/ LookupAnswer(c)
            \/ DeliverAnswer(c)
       PROVE  TargetKnown'
    BY <1>2 DEF TcpGivesUp, HandshakeFails, ReadMessage, ReadFails,
          HandlePing, LookupAnswer, DeliverAnswer
  <1>3. ASSUME NEW c \in Conn,
            HandleClose(c) \/ CloseConn(c) \/ FinishClose(c)
            \/ RegisterNode(c) \/ UnregisterNode(c) \/ PruneNode(c)
       PROVE  TargetKnown'
    BY <1>3 DEF HandleClose, CloseConn, FinishClose, RegisterNode,
          UnregisterNode, PruneNode
  <1>4. ASSUME NEW c \in Conn, NEW r \in Req, PeerAnswer(c, r) PROVE TargetKnown'
    BY <1>4 DEF PeerAnswer, Send
  <1>5. ASSUME NEW r \in Req, LookupNode(r) PROVE TargetKnown'
    BY <1>5 DEF LookupNode
  <1>6. ASSUME NEW r \in Req, WriteOk(r) PROVE TargetKnown'
    BY <1>6 DEF WriteOk, WriteEnds
  <1>7. ASSUME NEW r \in Req, WriteFails(r) PROVE TargetKnown'
    BY <1>7 DEF WriteFails, WriteEnds
  <1>8. ASSUME NEW r \in Req, WritePanics(r) PROVE TargetKnown'
    BY <1>8 DEF WritePanics, WriteEnds
  <1>9. ASSUME NEW r \in Req,
            RejectOffer(r) \/ PostOffer(r) \/ AddPending(r) \/ BeginWrite(r)
            \/ BadGateway(r) \/ TakeAnswer(r)
       PROVE  TargetKnown'
    BY <1>9 DEF RejectOffer, PostOffer, AddPending, BeginWrite, BadGateway,
          FailAfterUnpend, TakeAnswer
  <1>10. ASSUME NEW r \in Req,
            AnswerTimeout(r) \/ GatewayTimeout(r)
       PROVE  TargetKnown'
    BY <1>10 DEF AnswerTimeout, GatewayTimeout, FailAfterUnpend
  <1>11. CASE PruneStart
    BY <1>11 DEF PruneStart
  <1>12. CASE PruneEnd \/ UNCHANGED vars
    BY <1>12 DEF PruneEnd
  <1> QED
    BY <1>1, <1>2, <1>3, <1>4, <1>5, <1>6, <1>7, <1>8, <1>9, <1>10, <1>11,
       <1>12
    DEF Next, Environment, HandlerStep, OfferStep, EndWrite, PrunerStep

\* n.mu is taken and released by the request that writes.
LEMMA WriterHoldsMutexStep ==
  ASSUME TypeOK, TargetKnown, WriterHoldsMutex, [Next]_vars
  PROVE  WriterHoldsMutex'
  <1> USE DEF TypeOK, TargetKnown, WriterHoldsMutex
  <1>1. ASSUME NEW c \in Conn,
            Dial(c) \/ ReadHello(c) \/ ReadRegister(c) \/ PeerPing(c)
            \/ PeerClose(c) \/ PeerReset(c) \/ PeerSilent(c)
       PROVE  WriterHoldsMutex'
    BY <1>1 DEF Dial, ReadHello, ReadRegister, PeerPing, Send, PeerClose,
          PeerReset, PeerGone, PeerSilent
  <1>2. ASSUME NEW c \in Conn,
            TcpGivesUp(c) \/ HandshakeFails(c) \/ ReadMessage(c)
            \/ ReadFails(c) \/ HandlePing(c) \/ LookupAnswer(c)
            \/ DeliverAnswer(c)
       PROVE  WriterHoldsMutex'
    BY <1>2 DEF TcpGivesUp, HandshakeFails, ReadMessage, ReadFails,
          HandlePing, LookupAnswer, DeliverAnswer
  <1>3. ASSUME NEW c \in Conn,
            HandleClose(c) \/ CloseConn(c) \/ FinishClose(c)
            \/ RegisterNode(c) \/ UnregisterNode(c) \/ PruneNode(c)
       PROVE  WriterHoldsMutex'
    BY <1>3 DEF HandleClose, CloseConn, FinishClose, RegisterNode,
          UnregisterNode, PruneNode
  <1>4. ASSUME NEW c \in Conn, NEW r \in Req, PeerAnswer(c, r) PROVE WriterHoldsMutex'
    BY <1>4 DEF PeerAnswer, Send
  <1>5. ASSUME NEW r \in Req, LookupNode(r) PROVE WriterHoldsMutex'
    <2>1. nodes[want[r]] \in Conn \cup {NoConn}
      OBVIOUS
    <2>2. CASE nodes[want[r]] = NoConn
      BY <1>5, <2>2 DEF LookupNode
    <2>3. CASE nodes[want[r]] # NoConn
      BY <1>5, <2>1, <2>3 DEF LookupNode
    <2> QED
      BY <2>2, <2>3
  <1>6. ASSUME NEW r \in Req, BeginWrite(r) PROVE WriterHoldsMutex'
    BY <1>6 DEF BeginWrite
  <1>7. ASSUME NEW r \in Req, WriteOk(r) PROVE WriterHoldsMutex'
    BY <1>7 DEF WriteOk, WriteEnds
  <1>8. ASSUME NEW r \in Req, WriteFails(r) PROVE WriterHoldsMutex'
    BY <1>8 DEF WriteFails, WriteEnds
  <1>9. ASSUME NEW r \in Req, WritePanics(r) PROVE WriterHoldsMutex'
    BY <1>9 DEF WritePanics, WriteEnds
  <1>10. ASSUME NEW r \in Req,
            RejectOffer(r) \/ PostOffer(r) \/ AddPending(r) \/ BadGateway(r)
            \/ TakeAnswer(r) \/ AnswerTimeout(r)
       PROVE  WriterHoldsMutex'
    BY <1>10 DEF RejectOffer, PostOffer, AddPending, BadGateway,
          FailAfterUnpend, TakeAnswer, AnswerTimeout
  <1>11. ASSUME NEW r \in Req, GatewayTimeout(r) PROVE WriterHoldsMutex'
    BY <1>11 DEF GatewayTimeout, FailAfterUnpend
  <1>12. CASE PruneStart
    BY <1>12 DEF PruneStart
  <1>13. CASE PruneEnd \/ UNCHANGED vars
    BY <1>13 DEF PruneEnd
  <1> QED
    BY <1>1, <1>2, <1>3, <1>4, <1>5, <1>6, <1>7, <1>8, <1>9, <1>10, <1>11,
       <1>12, <1>13
    DEF Next, Environment, HandlerStep, OfferStep, EndWrite, PrunerStep

\* A waiter is added and removed by its own handleOffer or the matching answer.
LEMMA WaiterOwnedStep ==
  ASSUME TypeOK, TargetKnown, AnswerInOnePlace, WaiterOwned, [Next]_vars
  PROVE  WaiterOwned'
  <1> USE DEF TypeOK, TargetKnown, WaiterOwned
  <1>1. ASSUME NEW c \in Conn, LookupAnswer(c) PROVE WaiterOwned'
    BY <1>1 DEF LookupAnswer
  <1>2. ASSUME NEW c \in Conn,
            Dial(c) \/ ReadHello(c) \/ ReadRegister(c) \/ PeerPing(c)
            \/ PeerClose(c) \/ PeerReset(c) \/ PeerSilent(c)
       PROVE  WaiterOwned'
    BY <1>2 DEF Dial, ReadHello, ReadRegister, PeerPing, Send, PeerClose,
          PeerReset, PeerGone, PeerSilent
  <1>3. ASSUME NEW c \in Conn,
            TcpGivesUp(c) \/ HandshakeFails(c) \/ ReadMessage(c)
            \/ ReadFails(c) \/ HandlePing(c) \/ DeliverAnswer(c)
            \/ HandleClose(c)
       PROVE  WaiterOwned'
    BY <1>3 DEF TcpGivesUp, HandshakeFails, ReadMessage, ReadFails,
          HandlePing, DeliverAnswer, HandleClose
  <1>4. ASSUME NEW c \in Conn,
            CloseConn(c) \/ FinishClose(c) \/ RegisterNode(c)
            \/ UnregisterNode(c) \/ PruneNode(c)
       PROVE  WaiterOwned'
    BY <1>4 DEF CloseConn, FinishClose, RegisterNode, UnregisterNode,
          PruneNode
  <1>5. ASSUME NEW c \in Conn, NEW r \in Req, PeerAnswer(c, r) PROVE WaiterOwned'
    BY <1>5 DEF PeerAnswer, Send
  <1>6. ASSUME NEW r \in Req, PostOffer(r) PROVE WaiterOwned'
    BY <1>6 DEF PostOffer
  <1>7. ASSUME NEW r \in Req, LookupNode(r) PROVE WaiterOwned'
    BY <1>7 DEF LookupNode
  <1>8. ASSUME NEW r \in Req, AddPending(r) PROVE WaiterOwned'
    BY <1>8 DEF AddPending
  <1>9. ASSUME NEW r \in Req, BeginWrite(r) PROVE WaiterOwned'
    BY <1>9 DEF BeginWrite
  <1>10. ASSUME NEW r \in Req, BadGateway(r) PROVE WaiterOwned'
    BY <1>10 DEF BadGateway, FailAfterUnpend
  <1>11. ASSUME NEW r \in Req, TakeAnswer(r) PROVE WaiterOwned'
    BY <1>11 DEF TakeAnswer, AnswerInOnePlace
  <1>12. ASSUME NEW r \in Req, GatewayTimeout(r) PROVE WaiterOwned'
    BY <1>12 DEF GatewayTimeout, FailAfterUnpend
  <1>13. ASSUME NEW r \in Req, WriteOk(r) PROVE WaiterOwned'
    BY <1>13 DEF WriteOk, WriteEnds
  <1>14. ASSUME NEW r \in Req, WriteFails(r) PROVE WaiterOwned'
    BY <1>14 DEF WriteFails, WriteEnds
  <1>15. ASSUME NEW r \in Req, WritePanics(r) PROVE WaiterOwned'
    BY <1>15 DEF WritePanics, WriteEnds
  <1>16. ASSUME NEW r \in Req,
            RejectOffer(r) \/ AnswerTimeout(r)
       PROVE  WaiterOwned'
    BY <1>16 DEF RejectOffer, AnswerTimeout
  <1>17. CASE PruneStart
    BY <1>17 DEF PruneStart
  <1>18. CASE PruneEnd \/ UNCHANGED vars
    BY <1>18 DEF PruneEnd
  <1> QED
    BY <1>1, <1>2, <1>3, <1>4, <1>5, <1>6, <1>7, <1>8, <1>9, <1>10, <1>11,
       <1>12, <1>13, <1>14, <1>15, <1>16, <1>17, <1>18
    DEF Next, Environment, HandlerStep, OfferStep, EndWrite, PrunerStep

\* An answer moves from n.pending to the read loop to p.ch, each time leaving
\* where it was.
LEMMA AnswerInOnePlaceStep ==
  ASSUME TypeOK, TargetKnown, WaiterOwned, AnswersGenuine, AnswerInOnePlace,
         [Next]_vars
  PROVE  AnswerInOnePlace'
  <1> USE DEF TypeOK, TargetKnown, WaiterOwned, AnswersGenuine, AnswerInOnePlace,
              PastInsert, Delivering, CanSend
  <1>1. ASSUME NEW c \in Conn, ReadMessage(c) PROVE AnswerInOnePlace'
    BY <1>1 DEF ReadMessage
  <1>2. ASSUME NEW c \in Conn, HandlePing(c) PROVE AnswerInOnePlace'
    BY <1>2 DEF HandlePing
  <1>3. ASSUME NEW c \in Conn, LookupAnswer(c) PROVE AnswerInOnePlace'
    <2> DEFINE q == got[c].req
    <2>1. q \in Req
      BY <1>3 DEF LookupAnswer
    <2>2. CASE q \notin pending[c]
      <3>1. pending[c] \ {q} = pending[c]
        BY <2>2
      <3>2. pending' = pending
        BY <1>3, <3>1 DEF LookupAnswer
      <3>3. \A d \in Conn, r \in Req : Delivering(d, r)' => Delivering(d, r)
        BY <1>3, <2>2 DEF LookupAnswer
      <3>4. opc' = opc /\ ch' = ch
        BY <1>3 DEF LookupAnswer
      <3> HIDE DEF TypeOK, WaiterOwned, AnswersGenuine, Delivering
      <3> QED
        BY <3>2, <3>3, <3>4
    <2>3. CASE q \in pending[c]
      <3>1. PastInsert(q) /\ ch[q] = NoReq
        BY <2>1, <2>3
      <3>2. \A d \in Conn : q \notin pending'[d]
        BY <1>3, <2>1, <2>3 DEF LookupAnswer
      <3>3. \A d \in Conn : ~Delivering(d, q)
        BY <2>1, <2>3
      <3>4. hpc' = [hpc EXCEPT ![c] = "deliver"] /\ got' = got /\ ch' = ch /\ opc' = opc
        BY <1>3, <2>3 DEF LookupAnswer
      <3>5. \A d \in Conn : pending'[d] \subseteq pending[d]
        BY <1>3 DEF LookupAnswer
      <3>6. ASSUME NEW r \in Req, NEW d \in Conn, Delivering(d, r)'
            PROVE  Delivering(d, r) \/ (d = c /\ r = q)
        BY <3>4, <3>6
      <3>7. ASSUME NEW r \in Req
            PROVE  /\ ch'[r] # NoReq => PastInsert(r)' /\ \A d \in Conn : r \notin pending'[d]
                   /\ \A d \in Conn : Delivering(d, r)' =>
                        /\ PastInsert(r)' /\ ch'[r] = NoReq
                        /\ \A e \in Conn : r \notin pending'[e] /\ (Delivering(e, r)' => e = d)
        <4>1. CASE r = q
          BY <4>1, <3>1, <3>2, <3>3, <3>4, <3>6
        <4>2. CASE r # q
          <5>1. \A d \in Conn : Delivering(d, r)' => Delivering(d, r)
            BY <4>2, <3>6
          <5> QED
            BY <5>1, <3>4, <3>5
        <4> QED
          BY <4>1, <4>2
      <3> QED
        BY <3>7
    <2> QED
      BY <2>2, <2>3
  <1>4. ASSUME NEW c \in Conn, DeliverAnswer(c) PROVE AnswerInOnePlace'
    BY <1>4 DEF DeliverAnswer
  <1>5. ASSUME NEW c \in Conn, HandleClose(c) PROVE AnswerInOnePlace'
    BY <1>5 DEF HandleClose
  <1>6. ASSUME NEW c \in Conn,
            Dial(c) \/ ReadHello(c) \/ ReadRegister(c) \/ PeerPing(c)
            \/ PeerClose(c) \/ PeerReset(c) \/ PeerSilent(c)
       PROVE  AnswerInOnePlace'
    BY <1>6 DEF Dial, ReadHello, ReadRegister, PeerPing, Send, PeerClose,
          PeerReset, PeerGone, PeerSilent
  <1>7. ASSUME NEW c \in Conn,
            TcpGivesUp(c) \/ HandshakeFails(c) \/ ReadFails(c) \/ CloseConn(c)
            \/ FinishClose(c) \/ RegisterNode(c) \/ UnregisterNode(c)
       PROVE  AnswerInOnePlace'
    BY <1>7 DEF TcpGivesUp, HandshakeFails, ReadFails, CloseConn, FinishClose,
          RegisterNode, UnregisterNode
  <1>8. ASSUME NEW c \in Conn, PruneNode(c) PROVE AnswerInOnePlace'
    BY <1>8 DEF PruneNode
  <1>9. ASSUME NEW c \in Conn, NEW r \in Req, PeerAnswer(c, r) PROVE AnswerInOnePlace'
    BY <1>9 DEF PeerAnswer, Send
  <1>10. ASSUME NEW r \in Req, LookupNode(r) PROVE AnswerInOnePlace'
    BY <1>10 DEF LookupNode
  <1>11. ASSUME NEW r \in Req, AddPending(r) PROVE AnswerInOnePlace'
    BY <1>11 DEF AddPending
  <1>12. ASSUME NEW r \in Req, BadGateway(r) PROVE AnswerInOnePlace'
    BY <1>12 DEF BadGateway, FailAfterUnpend
  <1>13. ASSUME NEW r \in Req, TakeAnswer(r) PROVE AnswerInOnePlace'
    BY <1>13 DEF TakeAnswer
  <1>14. ASSUME NEW r \in Req, GatewayTimeout(r) PROVE AnswerInOnePlace'
    BY <1>14 DEF GatewayTimeout, FailAfterUnpend
  <1>15. ASSUME NEW r \in Req,
            RejectOffer(r) \/ PostOffer(r) \/ BeginWrite(r)
            \/ AnswerTimeout(r) \/ WriteOk(r) \/ WriteFails(r)
       PROVE  AnswerInOnePlace'
    BY <1>15 DEF RejectOffer, PostOffer, BeginWrite, AnswerTimeout, WriteOk,
          WriteEnds, WriteFails
  <1>16. ASSUME NEW r \in Req, WritePanics(r) PROVE AnswerInOnePlace'
    BY <1>16 DEF WritePanics, WriteEnds
  <1>17. CASE PruneStart
    BY <1>17 DEF PruneStart
  <1>18. CASE PruneEnd \/ UNCHANGED vars
    BY <1>18 DEF PruneEnd
  <1> QED
    BY <1>1, <1>2, <1>3, <1>4, <1>5, <1>6, <1>7, <1>8, <1>9, <1>10, <1>11,
       <1>12, <1>13, <1>14, <1>15, <1>16, <1>17, <1>18
    DEF Next, Environment, HandlerStep, OfferStep, EndWrite, PrunerStep

\* No step invents, redirects or duplicates an answer.
LEMMA AnswersGenuineStep ==
  ASSUME TypeOK, TargetKnown, AnswersGenuine, [Next]_vars
  PROVE  AnswersGenuine'
  <1> USE DEF TypeOK, TargetKnown, AnswersGenuine, Forwarded, CanSend
  <1>1. ASSUME NEW c \in Conn, PeerPing(c) PROVE AnswersGenuine'
    BY <1>1 DEF PeerPing, Send
  <1>2. ASSUME NEW c \in Conn, PeerClose(c) PROVE AnswersGenuine'
    BY <1>2 DEF PeerClose, Send
  <1>3. ASSUME NEW c \in Conn, ReadMessage(c) PROVE AnswersGenuine'
    <2>1. inbox[c] \in Seq(Message) /\ inbox[c] # <<>>
      BY <1>3 DEF ReadMessage
    <2>2. /\ Len(inbox[c]) \in Nat \ {0}
          /\ Head(inbox[c]) = inbox[c][1]
          /\ Len(Tail(inbox[c])) = Len(inbox[c]) - 1
          /\ \A i \in 1..Len(Tail(inbox[c])) : Tail(inbox[c])[i] = inbox[c][i + 1]
      <3> HIDE DEF Message
      <3> QED
        BY <2>1, HeadTailProperties
    <2>3. Head(inbox[c]).type = "answer" => Head(inbox[c]).req \in answered
      BY <2>2
    <2>4. \A i \in 1..Len(Tail(inbox[c])) : Tail(inbox[c])[i].type = "answer" =>
             Tail(inbox[c])[i].req \in answered
      BY <2>2
    <2> QED
      BY <1>3, <2>3, <2>4 DEF ReadMessage
  <1>4. ASSUME NEW c \in Conn, HandlePing(c) PROVE AnswersGenuine'
    BY <1>4 DEF HandlePing
  <1>5. ASSUME NEW c \in Conn, LookupAnswer(c) PROVE AnswersGenuine'
    BY <1>5 DEF LookupAnswer
  <1>6. ASSUME NEW c \in Conn, DeliverAnswer(c) PROVE AnswersGenuine'
    BY <1>6 DEF DeliverAnswer
  <1>7. ASSUME NEW c \in Conn, HandleClose(c) PROVE AnswersGenuine'
    BY <1>7 DEF HandleClose
  <1>8. ASSUME NEW c \in Conn,
            Dial(c) \/ ReadHello(c) \/ ReadRegister(c) \/ PeerReset(c)
            \/ PeerSilent(c) \/ TcpGivesUp(c) \/ HandshakeFails(c)
       PROVE  AnswersGenuine'
    BY <1>8 DEF Dial, ReadHello, ReadRegister, PeerReset, PeerGone,
          PeerSilent, TcpGivesUp, HandshakeFails
  <1>9. ASSUME NEW c \in Conn,
            ReadFails(c) \/ CloseConn(c) \/ FinishClose(c) \/ RegisterNode(c)
            \/ UnregisterNode(c) \/ PruneNode(c)
       PROVE  AnswersGenuine'
    BY <1>9 DEF ReadFails, CloseConn, FinishClose, RegisterNode,
          UnregisterNode, PruneNode
  <1>10. ASSUME NEW c \in Conn, NEW r \in Req, PeerAnswer(c, r) PROVE AnswersGenuine'
    BY <1>10 DEF PeerAnswer, Send
  <1>11. ASSUME NEW r \in Req, RejectOffer(r) PROVE AnswersGenuine'
    BY <1>11 DEF RejectOffer
  <1>12. ASSUME NEW r \in Req, PostOffer(r) PROVE AnswersGenuine'
    BY <1>12 DEF PostOffer
  <1>13. ASSUME NEW r \in Req, LookupNode(r) PROVE AnswersGenuine'
    BY <1>13 DEF LookupNode
  <1>14. ASSUME NEW r \in Req, AddPending(r) PROVE AnswersGenuine'
    BY <1>14 DEF AddPending
  <1>15. ASSUME NEW r \in Req, BeginWrite(r) PROVE AnswersGenuine'
    BY <1>15 DEF BeginWrite
  <1>16. ASSUME NEW r \in Req, BadGateway(r) PROVE AnswersGenuine'
    BY <1>16 DEF BadGateway, FailAfterUnpend
  <1>17. ASSUME NEW r \in Req, TakeAnswer(r) PROVE AnswersGenuine'
    BY <1>17 DEF TakeAnswer
  <1>18. ASSUME NEW r \in Req, AnswerTimeout(r) PROVE AnswersGenuine'
    BY <1>18 DEF AnswerTimeout
  <1>19. ASSUME NEW r \in Req, GatewayTimeout(r) PROVE AnswersGenuine'
    BY <1>19 DEF GatewayTimeout, FailAfterUnpend
  <1>20. ASSUME NEW r \in Req, WriteOk(r) PROVE AnswersGenuine'
    BY <1>20 DEF WriteOk, WriteEnds
  <1>21. ASSUME NEW r \in Req, WriteFails(r) PROVE AnswersGenuine'
    BY <1>21 DEF WriteFails, WriteEnds
  <1>22. ASSUME NEW r \in Req, WritePanics(r) PROVE AnswersGenuine'
    BY <1>22 DEF WritePanics, WriteEnds
  <1>23. CASE PruneStart
    BY <1>23 DEF PruneStart
  <1>24. CASE PruneEnd \/ UNCHANGED vars
    BY <1>24 DEF PruneEnd
  <1> QED
    BY <1>1, <1>2, <1>3, <1>4, <1>5, <1>6, <1>7, <1>8, <1>9, <1>10, <1>11,
       <1>12, <1>13, <1>14, <1>15, <1>16, <1>17, <1>18, <1>19, <1>20, <1>21,
       <1>22, <1>23, <1>24
    DEF Next, Environment, HandlerStep, OfferStep, EndWrite, PrunerStep

------------------------------------------------------------------------------
(* The invariants. *)

\* A coordinator that has just started satisfies the inductive invariant.
LEMMA IInvInit == Init => IInv
  BY DEF Init, IInv, TypeOK, NoDeadEntry, SweepStarted, ListedUnlessReconnected,
         InRegistry, TargetKnown, WriterHoldsMutex, WaiterOwned, AnswerInOnePlace,
         Delivering, AnswersGenuine

\* Every step preserves the inductive invariant.
LEMMA IInvStep == IInv /\ [Next]_vars => IInv'
  BY TypeOKStep, NoDeadEntryStep, SweepStartedStep,
     ListedUnlessReconnectedStep, TargetKnownStep, WriterHoldsMutexStep,
     WaiterOwnedStep, AnswerInOnePlaceStep, AnswersGenuineStep
     DEF IInv

\* The inductive invariant holds in every reachable state.
THEOREM Invariance == Spec => []IInv
  BY IInvInit, IInvStep, PTL DEF Spec

\* A registry entry never outlives its handler, whatever the order in which
\* handlers register and unregister and the pruner sweeps.
THEOREM RegistryLive == Spec => []NoDeadEntry
  BY Invariance, PTL DEF IInv

\* A node that has connected once and is up is in the registry: neither the
\* pruner nor another node's handler removes it.
THEOREM ListedWhileUp == Spec => []ListedUnlessReconnected
  BY Invariance, PTL DEF IInv

\* At most one handleOffer writes on a connection, and it holds n.mu.
THEOREM WritersExclude == Spec => []WriterHoldsMutex
  BY Invariance, PTL DEF IInv

\* A request that has got its response is in no n.pending: the table does not
\* grow with the number of requests served.
THEOREM NoWaiterLeaks == Spec => []NoLeakedWaiter
  <1>1. IInv => NoLeakedWaiter
    BY DEF IInv, WaiterOwned, NoLeakedWaiter
  <1> QED
    BY <1>1, Invariance, PTL

\* The read loop of a connection never waits for an HTTP handler.
THEOREM ReaderRuns == Spec => []ReaderNeverBlocks
  <1>1. IInv => ReaderNeverBlocks
    <2> SUFFICES ASSUME IInv, NEW c \in Conn, hpc[c] = "deliver" PROVE CanSend(got[c].req)
      BY DEF ReaderNeverBlocks
    <2>1. got[c].type = "answer" /\ got[c] \in Message \cup {NoMsg}
      BY DEF IInv, TypeOK, AnswersGenuine
    <2>2. got[c].req \in Req
      BY <2>1
    <2> QED
      BY <2>2 DEF IInv, AnswerInOnePlace, Delivering, CanSend
  <1> QED
    BY <1>1, Invariance, PTL

------------------------------------------------------------------------------
(* Refinement: every step is a step of OfferExchange or changes nothing there. *)

\* The initial states map to initial states of the abstract specification.
LEMMA ExchangeInit == Init => Exchange!Init
  BY DEF Init, Exchange!Init, StatusOf

\* Every step maps to a step of the abstract specification or to a stutter.
LEMMA ExchangeStep ==
  ASSUME IInv, [Next]_vars
  PROVE  [Exchange!Next]_(Exchange!vars)
  <1> USE DEF IInv, TypeOK, StatusOf, Exchange!vars
  <1> DEFINE Stutters == /\ \A r \in Req : StatusOf(r)' = StatusOf(r)
                         /\ answered' = answered /\ reply' = reply
  <1>0. ASSUME Stutters PROVE UNCHANGED Exchange!vars
    BY <1>0
  <1>1. ASSUME NEW c \in Conn,
            Dial(c) \/ ReadHello(c) \/ ReadRegister(c) \/ PeerPing(c)
            \/ PeerClose(c) \/ PeerReset(c) \/ PeerSilent(c)
       PROVE  Stutters
    BY <1>1 DEF Dial, ReadHello, ReadRegister, PeerPing, Send, PeerClose,
          PeerReset, PeerGone, PeerSilent
  <1>2. ASSUME NEW c \in Conn,
            TcpGivesUp(c) \/ HandshakeFails(c) \/ ReadMessage(c)
            \/ ReadFails(c) \/ HandlePing(c) \/ LookupAnswer(c)
            \/ DeliverAnswer(c)
       PROVE  Stutters
    BY <1>2 DEF TcpGivesUp, HandshakeFails, ReadMessage, ReadFails,
          HandlePing, LookupAnswer, DeliverAnswer
  <1>3. ASSUME NEW c \in Conn,
            HandleClose(c) \/ CloseConn(c) \/ FinishClose(c)
            \/ RegisterNode(c) \/ UnregisterNode(c) \/ PruneNode(c)
       PROVE  Stutters
    BY <1>3 DEF HandleClose, CloseConn, FinishClose, RegisterNode,
          UnregisterNode, PruneNode
  <1>4. ASSUME NEW r \in Req,
            AddPending(r) \/ AnswerTimeout(r) \/ WriteOk(r) \/ WriteFails(r)
       PROVE  Stutters
    BY <1>4 DEF AddPending, AnswerTimeout, WriteOk, WriteEnds, WriteFails
  <1>5. ASSUME PruneStart \/ PruneEnd \/ UNCHANGED vars PROVE Stutters
    BY <1>5 DEF PruneStart, PruneEnd
  <1>6. ASSUME NEW c \in Conn, NEW r \in Req, PeerAnswer(c, r) PROVE Exchange!NodeAnswers(r)
    <2>1. /\ r \in offers[c] /\ answered' = answered \cup {r}
          /\ opc' = opc /\ resp' = resp /\ reply' = reply
      BY <1>6 DEF PeerAnswer, Send
    <2>2. r \notin answered /\ Forwarded(r)
      BY <2>1 DEF AnswersGenuine
    <2>3. StatusOf(r) # "idle"
      BY <2>2 DEF Forwarded
    <2>4. \A q \in Req : StatusOf(q)' = StatusOf(q)
      BY <2>1
    <2> HIDE DEF StatusOf
    <2> QED
      BY <2>1, <2>2, <2>3, <2>4 DEF Exchange!NodeAnswers
  <1>7. ASSUME NEW r \in Req, RejectOffer(r) PROVE Exchange!Refuse(r)
    BY <1>7 DEF RejectOffer, Exchange!Refuse
  <1>8. ASSUME NEW r \in Req, PostOffer(r) PROVE Exchange!Open(r)
    BY <1>8 DEF PostOffer, Exchange!Open
  <1>9. ASSUME NEW r \in Req, TakeAnswer(r) PROVE Exchange!Return(r)
    <2>1. ch[r] = r /\ r \in answered
      BY <1>9 DEF TakeAnswer, AnswersGenuine
    <2>2. StatusOf(r) = "open" /\ StatusOf(r)' = "answered"
      BY <1>9 DEF TakeAnswer
    <2>3. \A q \in Req \ {r} : StatusOf(q)' = StatusOf(q)
      BY <1>9 DEF TakeAnswer
    <2>4. reply' = [reply EXCEPT ![r] = r] /\ answered' = answered
      BY <1>9, <2>1 DEF TakeAnswer
    <2> HIDE DEF StatusOf, TypeOK, IInv
    <2>5. [q \in Req |-> StatusOf(q)]' = [[q \in Req |-> StatusOf(q)] EXCEPT ![r] = "answered"]
      BY <2>2, <2>3
    <2> QED
      BY <2>1, <2>2, <2>4, <2>5 DEF Exchange!Return
  <1>10. ASSUME NEW r \in Req, LookupNode(r) PROVE Exchange!Fail(r) \/ Stutters
    <2>1. CASE opc'[r] = "insert"
      <3>1. Stutters
        BY <1>10, <2>1 DEF LookupNode
      <3> QED
        BY <3>1
    <2>2. CASE opc'[r] = "done"
      <3>1. StatusOf(r) = "open" /\ StatusOf(r)' = "failed"
        BY <1>10, <2>2 DEF LookupNode
      <3>2. \A q \in Req \ {r} : StatusOf(q)' = StatusOf(q)
        BY <1>10 DEF LookupNode
      <3>3. answered' = answered /\ reply' = reply
        BY <1>10 DEF LookupNode
      <3> HIDE DEF StatusOf
      <3> QED
        BY <3>1, <3>2, <3>3 DEF Exchange!Fail
    <2> QED
      BY <1>10, <2>1, <2>2 DEF LookupNode
  <1>11. ASSUME NEW r \in Req, BadGateway(r) PROVE Exchange!Fail(r)
    BY <1>11 DEF BadGateway, FailAfterUnpend, Exchange!Fail
  <1>12. ASSUME NEW r \in Req, GatewayTimeout(r) PROVE Exchange!Fail(r)
    BY <1>12 DEF GatewayTimeout, FailAfterUnpend, Exchange!Fail
  <1>13. ASSUME NEW r \in Req, BeginWrite(r) PROVE Exchange!Fail(r) \/ Stutters
    <2>1. CASE opc'[r] = "writing"
      <3>1. Stutters
        BY <1>13, <2>1 DEF BeginWrite
      <3> QED
        BY <3>1
    <2>2. CASE opc'[r] = "panicked"
      <3>1. StatusOf(r) = "open" /\ StatusOf(r)' = "failed"
        BY <1>13, <2>2 DEF BeginWrite
      <3>2. \A q \in Req \ {r} : StatusOf(q)' = StatusOf(q)
        BY <1>13 DEF BeginWrite
      <3>3. answered' = answered /\ reply' = reply
        BY <1>13 DEF BeginWrite
      <3> HIDE DEF StatusOf
      <3> QED
        BY <3>1, <3>2, <3>3 DEF Exchange!Fail
    <2> QED
      BY <1>13, <2>1, <2>2 DEF BeginWrite
  <1>14. ASSUME NEW r \in Req, WritePanics(r) PROVE Exchange!Fail(r)
    BY <1>14 DEF WritePanics, WriteEnds, Exchange!Fail
  <1> QED
    BY <1>0, <1>1, <1>2, <1>3, <1>4, <1>5, <1>6, <1>7, <1>8, <1>9, <1>10,
       <1>11, <1>12, <1>13, <1>14
    DEF Next, Environment, HandlerStep, OfferStep, EndWrite, PrunerStep, Exchange!Next

\* The coordinator implements OfferExchange: one response per request, and a
\* 200 only with the answer its node produced for it.
THEOREM Refinement == Spec => ImplementsExchange
  BY Invariance, ExchangeInit, ExchangeStep, PTL DEF Spec, ImplementsExchange, Exchange!Spec
==============================================================================
