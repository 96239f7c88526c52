--------------------------- MODULE NodeClientProofs ---------------------------
(***************************************************************************)
(* Proofs about NodeClient, for any set of offers and any number of         *)
(* connections.                                                             *)
(***************************************************************************)
EXTENDS NodeClient, TLAPS

USE MaxConnsAssumption

\* A node that has just started satisfies the inductive invariant.
LEMMA IInvInit == Init => IInv
  BY DEF Init, IInv, TypeOK, OneConnection, Conns, NoConn

\* What every step but the ends of a connection leaves alone.
Untouched ==
  /\ UNCHANGED <<pc, conn, sock, served, closeSent>>
  /\ lost \subseteq lost'
  /\ \A k \in Conns : pinger[k] = "none" => pinger'[k] = "none"
  /\ \A o \in Offer : opc'[o] # "none" => oconn'[o] \in Conns

\* Steps of the ping goroutine, of an offer or of the signal that leave the
\* connection alone preserve the invariant.
LEMMA UntouchedKeeps == IInv /\ TypeOK' /\ Untouched => IInv'
  BY DEF IInv, Untouched, OneConnection, TypeOK, Conns

\* A write leaves the flag Boolean, and the process running or crashed.
LEMMA WriteTypes ==
  ASSUME TypeOK, NEW k \in Conns, WriteBegins(k) \/ WriteEnds(k)
  PROVE  /\ isWriting' \in [Conns -> BOOLEAN] /\ crashed' \in {"no", "yes"}
         /\ WriteBegins(k) => lost' \subseteq Conns /\ lost \subseteq lost'
  BY DEF TypeOK, WriteBegins, WriteEnds

\* The steps of runCoordinator and connectCoordinator.
LEMMA LoopStepKeeps ==
  ASSUME IInv, LoopStep \/ DialOk \/ Register
  PROVE  IInv'
  <1> USE DEF IInv, TypeOK, OneConnection, Conns, NoConn
  <1>1. CASE DialOk
    BY <1>1 DEF DialOk
  <1>2. CASE DialFails
    BY <1>2 DEF DialFails
  <1>3. CASE Register
    BY <1>3 DEF Register
  <1>4. CASE HandshakeFails
    BY <1>4 DEF HandshakeFails, ConnectReturns
  <1>5. CASE ReadFails
    BY <1>5 DEF ReadFails, ConnectReturns
  <1>6. CASE AfterFailure
    BY <1>6 DEF AfterFailure
  <1>7. CASE BackoffEnds
    BY <1>7 DEF BackoffEnds
  <1> QED
    BY <1>1, <1>2, <1>3, <1>4, <1>5, <1>6, <1>7 DEF LoopStep

\* The steps of the ping goroutine, which ends by closing the connection.
LEMMA PingerStepKeeps ==
  ASSUME IInv, NEW k \in Conns, PingerStep(k) \/ PingStart(k) \/ CloseStart(k)
  PROVE  IInv'
  <1> TypeOK
    BY DEF IInv
  <1>1. CASE PingStart(k) \/ CloseStart(k)
    <2>1. TypeOK'
      BY <1>1, WriteTypes DEF PingStart, CloseStart, TypeOK
    <2> QED
      BY <1>1, <2>1, WriteTypes, UntouchedKeeps DEF PingStart, CloseStart, Untouched, TypeOK, IInv
  <1>2. CASE PingEnd(k)
    <2>1. TypeOK'
      BY <1>2, WriteTypes DEF PingEnd, TypeOK
    <2> QED
      BY <1>2, <2>1, UntouchedKeeps DEF PingEnd, Untouched, TypeOK, IInv
  <1>3. CASE PingerStops(k)
    <2>1. TypeOK'
      BY <1>3 DEF PingerStops, TypeOK
    <2> QED
      BY <1>3, <2>1, UntouchedKeeps DEF PingerStops, Untouched, TypeOK, IInv
  <1>4. CASE CloseEnd(k)
    <2>1. TypeOK'
      BY <1>4, WriteTypes DEF CloseEnd, TypeOK
    <2>2. OneConnection'
      BY <1>4 DEF CloseEnd, IInv, TypeOK, OneConnection
    <2>3. (\A d \in Conns : d > conn => sock[d] = "none" /\ pinger[d] = "none")'
      BY <1>4 DEF CloseEnd, IInv, TypeOK
    <2>4. (/\ \A d \in Conns : sock[d] \in {"silent", "broken"} => d \in lost
           /\ \A d \in served : sock[d] = "open" \/ d \in closeSent \cup lost)'
      BY <1>4 DEF CloseEnd, IInv, TypeOK
    <2> QED
      BY <1>4, <2>1, <2>2, <2>3, <2>4 DEF CloseEnd, IInv
  <1> QED
    BY <1>1, <1>2, <1>3, <1>4 DEF PingerStep

\* The steps of an offer, of the signal, and of the network.
LEMMA OtherStepKeeps ==
  ASSUME IInv, \/ Cancel
               \/ \E o \in Offer : ReceiveOffer(o) \/ AnswerStep(o)
               \/ \E k \in Conns : PeerCloses(k) \/ PeerSilent(k) \/ TcpGivesUp(k)
  PROVE  IInv'
  <1> TypeOK
    BY DEF IInv
  <1>1. CASE Cancel
    BY <1>1, UntouchedKeeps DEF Cancel, Untouched, TypeOK, IInv
  <1>2. ASSUME NEW o \in Offer, ReceiveOffer(o) \/ AnswerStep(o)
        PROVE  IInv'
    <2>1. CASE ReceiveOffer(o)
      <3>1. conn \in Conns
        BY <2>1 DEF ReceiveOffer, IInv
      <3> QED
        BY <2>1, <3>1, UntouchedKeeps DEF ReceiveOffer, Untouched, TypeOK, IInv
    <2>2. CASE AnswerFails(o)
      BY <2>2, UntouchedKeeps DEF AnswerFails, Untouched, TypeOK, IInv
    <2>3. CASE AnswerStart(o) \/ AnswerEnd(o)
      <3>1. oconn[o] \in Conns
        BY <2>3 DEF AnswerStart, AnswerEnd, IInv
      <3>2. /\ WriteBegins(oconn[o]) \/ WriteEnds(oconn[o])
            /\ WriteBegins(oconn[o]) \/ lost' = lost
        BY <2>3 DEF AnswerStart, AnswerEnd
      <3>3. /\ isWriting' \in [Conns -> BOOLEAN] /\ crashed' \in {"no", "yes"}
            /\ lost' \subseteq Conns /\ lost \subseteq lost'
        BY <3>1, <3>2, WriteTypes DEF TypeOK
      <3>4. TypeOK'
        BY <2>3, <3>3 DEF AnswerStart, AnswerEnd, TypeOK
      <3> QED
        BY <2>3, <3>1, <3>3, <3>4, UntouchedKeeps
           DEF AnswerStart, AnswerEnd, Untouched, TypeOK, IInv
    <2> QED
      BY <1>2, <2>1, <2>2, <2>3 DEF AnswerStep
  <1>3. ASSUME NEW k \in Conns, PeerCloses(k) \/ PeerSilent(k) \/ TcpGivesUp(k)
        PROVE  IInv'
    <2>1. PICK to \in {"silent", "broken"} :
             /\ sock[k] \in {"open", "silent"}
             /\ sock' = [sock EXCEPT ![k] = to] /\ lost' = lost \cup {k}
             /\ UNCHANGED <<ctx, pc, conn, pinger, isWriting, opc, oconn, crashed,
                            served, closeSent>>
      BY <1>3 DEF PeerCloses, PeerSilent, TcpGivesUp, Breaks
    <2>2. k = conn /\ pc \in {"hello", "serving"}
      BY <2>1 DEF IInv, OneConnection
    <2>3. TypeOK'
      BY <2>1 DEF TypeOK
    <2>4. OneConnection'
      BY <2>1, <2>2 DEF IInv, OneConnection, TypeOK
    <2>5. \A d \in Conns : d > conn => sock[d] = "none" /\ pinger[d] = "none"
      BY DEF IInv
    <2>6. (\A d \in Conns : d > conn => sock[d] = "none" /\ pinger[d] = "none")'
      BY <2>1, <2>2, <2>5 DEF TypeOK, Conns
    <2>7. (/\ \A d \in Conns : sock[d] \in {"silent", "broken"} => d \in lost
           /\ \A d \in served : sock[d] = "open" \/ d \in closeSent \cup lost)'
      BY <2>1 DEF IInv, TypeOK
    <2> QED
      BY <2>1, <2>2, <2>3, <2>4, <2>6, <2>7 DEF IInv
  <1> QED
    BY <1>1, <1>2, <1>3

\* Every step preserves the inductive invariant.
LEMMA IInvStep == IInv /\ [Next]_vars => IInv'
  <1> SUFFICES ASSUME IInv, [Next]_vars PROVE IInv'
    OBVIOUS
  <1>1. CASE UNCHANGED vars
    BY <1>1 DEF vars, IInv, TypeOK, OneConnection
  <1>2. CASE Next
    BY <1>2, LoopStepKeeps, PingerStepKeeps, OtherStepKeeps DEF Next
  <1> QED
    BY <1>1, <1>2

\* The inductive invariant holds in every reachable state.
THEOREM Invariance == Spec => []IInv
  BY IInvInit, IInvStep, PTL DEF Spec

\* Whatever fails and in whatever order, at most one connection is not closed,
\* and it is the one the loop is using: a node is never registered twice.
THEOREM AtMostOneConnection == Spec => []OneConnection
  <1>1. IInv => OneConnection
    BY DEF IInv
  <1> QED
    BY <1>1, Invariance, PTL

\* A node that shuts down has sent MsgClose on each connection it served that
\* did not break: runCoordinator returns only after its read loop has ended, and
\* that ends only when the ping goroutine has closed the connection.
THEOREM ShutdownIsClean == Spec => []CleanExit
  <1>1. IInv => CleanExit
    BY DEF IInv, TypeOK, CleanExit, OneConnection
  <1> QED
    BY <1>1, Invariance, PTL
==============================================================================
