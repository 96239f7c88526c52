--------------------------- MODULE KeepaliveProofs ---------------------------
(***************************************************************************)
(* Proofs about Keepalive, for any intervals that TimingAssumption allows.  *)
(***************************************************************************)
EXTENDS Keepalive, TLAPS

USE TimingAssumption

\* Ticks are whole ping intervals apart.
LEMMA Grid ==
  ASSUME NEW P \in Nat \ {0}, NEW k \in Nat
  PROVE  /\ k * P \in Nat
         /\ k >= 1 => (k - 1) * P = k * P - P /\ k * P >= P
         /\ (k + 1) * P = k * P + P
         /\ k <= k * P
  OBVIOUS

\* A connection that has just been registered satisfies the inductive invariant.
LEMMA IInvInit == Init => IInv
  BY DEF Init, IInv, TypeOK

\* Every step preserves it: a live node's pings are handled in time.
LEMMA IInvStep == IInv /\ [Next]_vars => IInv'
  <1> SUFFICES ASSUME IInv, [Next]_vars PROVE IInv'
    OBVIOUS
  <1> USE DEF IInv, TypeOK
  <1>1. CASE Tick
    BY <1>1 DEF Tick
  <1>2. CASE Vanish
    BY <1>2 DEF Vanish
  <1>3. CASE SendPing
    <2>1. PICK k \in 0..nextPing : nextPing = oldest + k * PingInterval
      OBVIOUS
    <2>2. nextPing' = oldest + (k + 1) * PingInterval /\ k + 1 \in 0..nextPing'
      BY <1>3, <2>1, Grid DEF SendPing
    <2> QED
      BY <1>3, <2>2 DEF SendPing
  <1>4. CASE HandlePing
    <2>1. PICK k \in 0..nextPing : nextPing = oldest + k * PingInterval
      OBVIOUS
    <2>2. k >= 1
      BY <1>4, <2>1 DEF HandlePing
    <2>3. /\ nextPing = oldest' + (k - 1) * PingInterval
          /\ k - 1 \in 0..nextPing
          /\ oldest' <= nextPing /\ oldest' \in Nat
      BY <1>4, <2>1, <2>2, Grid DEF HandlePing
    <2>4. oldest <= (IF node = "alive" THEN now ELSE died)
      BY <1>4, <2>3 DEF HandlePing
    <2> QED
      BY <1>4, <2>3, <2>4 DEF HandlePing
  <1>5. CASE ReadMessage
    BY <1>5 DEF ReadMessage
  <1>6. CASE ReadFails
    BY <1>6 DEF ReadFails
  <1>7. CASE Unregister
    BY <1>7 DEF Unregister
  <1>8. CASE Prune
    BY <1>8 DEF Prune, Stale
  <1>9. CASE UNCHANGED vars
    BY <1>9 DEF vars
  <1> QED
    BY <1>1, <1>2, <1>3, <1>4, <1>5, <1>6, <1>7, <1>8, <1>9 DEF Next

\* The inductive invariant holds at every instant.
THEOREM Invariance == Spec => []IInv
  BY IInvInit, IInvStep, PTL DEF Spec

\* With any ping interval and delay whose sum is below nodeDropAfter, a live node
\* stays registered.
THEOREM LiveNodesStay == Spec => []LiveNodeKept
  <1>1. IInv => LiveNodeKept
    BY DEF IInv, LiveNodeKept
  <1> QED
    BY <1>1, Invariance, PTL

\* The read deadline bounds how long a vanished node stays registered.
THEOREM VanishedNodesGo == Spec => []VanishedNodeDropped
  <1>1. IInv => VanishedNodeDropped
    BY DEF IInv, TypeOK, VanishedNodeDropped
  <1> QED
    BY <1>1, Invariance, PTL

\* The prune loop bounds how long an entry is listed without a ping.
THEOREM SilenceIsBounded == Spec => []SilenceBounded
  <1>1. IInv => SilenceBounded
    BY DEF IInv, TypeOK, SilenceBounded
  <1> QED
    BY <1>1, Invariance, PTL
==============================================================================
