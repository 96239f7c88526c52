-------------------------- MODULE RegistrationProofs --------------------------
(***************************************************************************)
(* Proofs about Registration, for any attempts, sessions, keys and bits.    *)
(***************************************************************************)
EXTENDS Registration, TLAPS

USE RegistrationAssumption

\* xor32 with one value fixed is injective: it loses nothing of the other.
LEMMA XorCancels ==
  ASSUME NEW a \in Random, NEW b \in Random, NEW c \in Random, xor32(a, b) = xor32(a, c)
  PROVE  b = c
  <1>1. ASSUME NEW x \in Bit PROVE x \in b <=> x \in c
    BY DEF xor32
  <1> QED
    BY <1>1 DEF Random

\* The ideal hash is injective.
LEMMA HashInjective ==
  ASSUME NEW a, NEW b, Sha256(a) = Sha256(b)
  PROVE  a = b
  BY DEF Sha256

\* A signature names what was signed.
LEMMA ProofNamesJoint ==
  ASSUME NEW key, NEW rn, NEW r, NEW q,
         SignRegistration(key, rn, r) = SignRegistration(key, rn, q)
  PROVE  xor32(rn, r) = xor32(rn, q)
  BY DEF SignRegistration, Sign, signPayload

\* The fields of the two messages a node sends.
LEMMA HelloFields ==
  ASSUME NEW a
  PROVE  /\ HelloOf(a).commitment = Sha256(rNode[a])
         /\ HelloOf(a).publicKey = KeyOf[a]
  BY DEF HelloOf

LEMMA RegisterFields ==
  ASSUME NEW a
  PROVE  /\ RegisterOf(a).nodeId = NodeID(KeyOf[a])
         /\ RegisterOf(a).publicKey = KeyOf[a]
         /\ RegisterOf(a).rNode = rNode[a]
         /\ RegisterOf(a).proof = SignRegistration(KeyOf[a], rNode[a], chal[a])
  BY DEF RegisterOf

\* What has been sent stays sent, and what has been drawn stays as it is.
Stays ==
    /\ \A a \in Started : a \in Started' /\ rNode'[a] = rNode[a] /\ HelloOf(a)' = HelloOf(a)
    /\ \A a \in Serving : a \in Serving' /\ chal'[a] = chal[a] /\ RegisterOf(a)' = RegisterOf(a)
    /\ \A s \in Session : spc[s] # "hello" =>
          spc'[s] # "hello" /\ hello'[s] = hello[s] /\ rCoord'[s] = rCoord[s]
    /\ \A s \in Session : spc[s] \notin {"hello", "register"} =>
          spc'[s] = spc[s] /\ reg'[s] = reg[s]

LEMMA SentStays ==
  ASSUME TypeOK, [Next]_vars
  PROVE  Stays
  <1> USE DEF TypeOK, Stays, Started, Serving, HelloOf, RegisterOf
  <1>1. CASE UNCHANGED vars
    BY <1>1 DEF vars
  <1>2. ASSUME NEW a \in Attempt, SendHello(a) PROVE Stays
    BY <1>2 DEF SendHello
  <1>3. ASSUME NEW a \in Attempt, ReadChallenge(a) PROVE Stays
    BY <1>3 DEF ReadChallenge
  <1>4. ASSUME NEW a \in Attempt, AttemptFails(a) PROVE Stays
    BY <1>4 DEF AttemptFails
  <1>5. ASSUME NEW s \in Session, NEW m, ReadHello(s, m) PROVE Stays
    BY <1>5 DEF ReadHello
  <1>6. ASSUME NEW s \in Session, NEW m, ReadRegister(s, m) PROVE Stays
    BY <1>6 DEF ReadRegister, Refuse
  <1>7. ASSUME NEW s \in Session, BadHello(s) \/ BadRegister(s) \/ SessionEnds(s) PROVE Stays
    BY <1>7 DEF BadHello, BadRegister, SessionEnds, Refuse
  <1> QED
    BY <1>1, <1>2, <1>3, <1>4, <1>5, <1>6, <1>7 DEF Next, AttemptStep, SessionStep

\* Nodes send well-formed messages.
LEMMA Wellformed ==
  ASSUME TypeOK
  PROVE  Hellos \subseteq HelloMsg /\ Registers \subseteq RegisterMsg
  <1>1. ASSUME NEW a \in Started PROVE HelloOf(a) \in HelloMsg
    <2>1. KeyOf[a] \in Key /\ rNode[a] \in Random
      BY DEF TypeOK, Started
    <2> QED
      BY <2>1 DEF HelloOf, HelloMsg
  <1>2. ASSUME NEW a \in Serving PROVE RegisterOf(a) \in RegisterMsg
    <2>1. KeyOf[a] \in Key /\ rNode[a] \in Random /\ chal[a] \in Random
      BY DEF TypeOK, Serving
    <2>2. xor32(rNode[a], chal[a]) \in Random
      BY <2>1 DEF xor32, Random
    <2>3. SignRegistration(KeyOf[a], rNode[a], chal[a]) \in Proofs
      BY <2>1, <2>2 DEF SignRegistration, Sign, Proofs
    <2> QED
      BY <2>1, <2>3 DEF RegisterOf, RegisterMsg
  <1> QED
    BY <1>1, <1>2 DEF Hellos, Registers

LEMMA TypeStep == IInv /\ [Next]_vars => TypeOK'
  <1> SUFFICES ASSUME IInv, [Next]_vars PROVE TypeOK'
    OBVIOUS
  <1> USE DEF TypeOK, IInv, Started, Serving
  <1>1. CASE UNCHANGED vars
    BY <1>1 DEF vars
  <1>2. ASSUME NEW a \in Attempt, SendHello(a) PROVE TypeOK'
    BY <1>2 DEF SendHello
  <1>3. ASSUME NEW a \in Attempt, ReadChallenge(a) PROVE TypeOK'
    <2>1. Challenges \subseteq Random
      BY DEF Challenges, Challenging
    <2> QED
      BY <1>3, <2>1 DEF ReadChallenge
  <1>4. ASSUME NEW a \in Attempt, AttemptFails(a) PROVE TypeOK'
    BY <1>4 DEF AttemptFails
  <1>5. ASSUME NEW s \in Session, NEW m \in Hellos, ReadHello(s, m) PROVE TypeOK'
    BY <1>5, Wellformed DEF ReadHello
  <1>6. ASSUME NEW s \in Session, NEW m \in Registers, ReadRegister(s, m) PROVE TypeOK'
    BY <1>6, Wellformed DEF ReadRegister, Refuse
  <1>7. ASSUME NEW s \in Session, BadHello(s) \/ BadRegister(s) \/ SessionEnds(s) PROVE TypeOK'
    BY <1>7 DEF BadHello, BadRegister, SessionEnds, Refuse
  <1> QED
    BY <1>1, <1>2, <1>3, <1>4, <1>5, <1>6, <1>7 DEF Next, AttemptStep, SessionStep

\* No random value is drawn twice.
LEMMA FreshStep == IInv /\ [Next]_vars => Fresh'
  <1> SUFFICES ASSUME IInv, [Next]_vars PROVE Fresh'
    OBVIOUS
  <1> USE DEF IInv
  <1>0. TypeOK'
    BY TypeStep
  <1>1. CASE UNCHANGED vars
    BY <1>1 DEF vars, Fresh, Started, Challenging
  <1>2. ASSUME NEW a \in Attempt, SendHello(a) PROVE Fresh'
    <2>1. UNCHANGED rCoord /\ Challenging' = Challenging
      BY <1>2 DEF SendHello, Challenging
    <2>2. PICK r \in Random \ {rNode[b] : b \in Started} : rNode' = [rNode EXCEPT ![a] = r]
      BY <1>2 DEF SendHello
    <2>3. Started' = Started \cup {a} /\ a \notin Started
      BY <1>2 DEF SendHello, Started, TypeOK
    <2>4. rNode'[a] = r /\ \A b \in Started : rNode'[b] = rNode[b] /\ rNode[b] # r
      BY <2>2, <2>3 DEF TypeOK, Started
    <2> QED
      BY <2>1, <2>2, <2>3, <2>4 DEF Fresh
  <1>3. ASSUME NEW a \in Attempt, ReadChallenge(a) \/ AttemptFails(a) PROVE Fresh'
    <2>1. UNCHANGED <<rNode, rCoord>> /\ Started' = Started /\ Challenging' = Challenging
      BY <1>3 DEF ReadChallenge, AttemptFails, Started, Challenging, TypeOK
    <2> QED
      BY <2>1 DEF Fresh
  <1>4. ASSUME NEW s \in Session, NEW m, ReadHello(s, m) PROVE Fresh'
    <2>1. UNCHANGED <<rNode, apc>> /\ Started' = Started
      BY <1>4 DEF ReadHello, Started
    <2>2. PICK r \in Random \ Challenges : rCoord' = [rCoord EXCEPT ![s] = r]
      BY <1>4 DEF ReadHello
    <2>3. rCoord[s] = None /\ r # None
      BY <1>4, <2>2 DEF ReadHello, Decided, Random
    <2>4. Challenging' = Challenging \cup {s} /\ s \notin Challenging
      BY <2>2, <2>3 DEF Challenging, TypeOK
    <2>5. rCoord'[s] = r /\ \A t \in Challenging : rCoord'[t] = rCoord[t] /\ rCoord[t] # r
      BY <2>2, <2>4 DEF TypeOK, Challenges, Challenging
    <2> QED
      BY <2>1, <2>4, <2>5 DEF Fresh
  <1>5. ASSUME NEW s \in Session,
               \/ \E m \in Registers : ReadRegister(s, m)
               \/ BadHello(s) \/ BadRegister(s) \/ SessionEnds(s)
        PROVE  Fresh'
    <2>1. UNCHANGED <<rNode, apc, rCoord>> /\ Started' = Started /\ Challenging' = Challenging
      BY <1>5 DEF ReadRegister, BadHello, BadRegister, SessionEnds, Started, Challenging
    <2> QED
      BY <2>1 DEF Fresh
  <1> QED
    BY <1>1, <1>2, <1>3, <1>4, <1>5 DEF Next, AttemptStep, SessionStep

\* Messages are read after they have been sent.
LEMMA SentStep == IInv /\ [Next]_vars => Sent'
  <1> SUFFICES ASSUME IInv, [Next]_vars PROVE Sent'
    OBVIOUS
  <1> USE DEF IInv
  <1>0. Stays /\ TypeOK'
    BY SentStays, TypeStep
  <1>1. Hellos \subseteq Hellos' /\ Registers \subseteq Registers'
    BY <1>0 DEF Stays, Hellos, Registers
  <1>2. Challenging \subseteq Challenging' /\ \A s \in Challenging : rCoord'[s] = rCoord[s]
    BY <1>0 DEF Stays, Challenging, Decided
  <1>3. Challenges \subseteq Challenges'
    BY <1>2 DEF Challenges
  <1>4. \A a \in Serving' : chal'[a] \in Challenges'
    <2> SUFFICES ASSUME NEW a \in Serving', a \notin Serving PROVE chal'[a] \in Challenges'
      BY <1>0, <1>3 DEF Sent, Stays
    <2>1. a \in Attempt /\ apc'[a] = "serving" /\ apc[a] # "serving"
      BY DEF Serving
    <2>2. ReadChallenge(a)
      BY <2>1 DEF TypeOK, Next, vars, AttemptStep, SessionStep, SendHello, ReadChallenge,
                  AttemptFails, ReadHello, ReadRegister, BadHello, BadRegister, SessionEnds
    <2> QED
      BY <2>1, <2>2, <1>3 DEF ReadChallenge, TypeOK
  <1>5. \A s \in Session : spc'[s] \in {"register", "registered"} =>
           hello'[s] \in Hellos' /\ s \in Challenging'
    <2> SUFFICES ASSUME NEW s \in Session, spc'[s] \in {"register", "registered"}
                 PROVE  hello'[s] \in Hellos' /\ s \in Challenging'
      OBVIOUS
    <2>1. CASE spc[s] \in {"register", "registered"}
      BY <2>1, <1>0, <1>1, <1>2 DEF Sent, Stays
    <2>2. CASE spc[s] \notin {"register", "registered"}
      <3>1. \E m \in Hellos : ReadHello(s, m)
        BY <2>2 DEF TypeOK, Next, vars, AttemptStep, SessionStep, SendHello, ReadChallenge,
             AttemptFails, ReadHello, ReadRegister, BadHello, BadRegister, SessionEnds, Refuse
      <3>2. PICK m \in Hellos : ReadHello(s, m)
        BY <3>1
      <3>3. hello'[s] = m
        BY <3>2 DEF ReadHello, TypeOK
      <3> QED
        BY <3>2, <3>3, <1>1 DEF ReadHello, Challenging, Random, TypeOK
    <2> QED
      BY <2>1, <2>2
  <1>6. \A s \in Session : spc'[s] = "registered" => reg'[s] \in Registers'
    <2> SUFFICES ASSUME NEW s \in Session, spc'[s] = "registered" PROVE reg'[s] \in Registers'
      OBVIOUS
    <2>1. CASE spc[s] = "registered"
      BY <2>1, <1>0, <1>1 DEF Sent, Stays
    <2>2. CASE spc[s] # "registered"
      <3>1. \E m \in Registers : ReadRegister(s, m)
        BY <2>2 DEF TypeOK, Next, vars, AttemptStep, SessionStep, SendHello, ReadChallenge,
             AttemptFails, ReadHello, ReadRegister, BadHello, BadRegister, SessionEnds, Refuse
      <3> QED
        BY <3>1, <1>1 DEF ReadRegister, TypeOK
    <2> QED
      BY <2>1, <2>2
  <1> QED
    BY <1>4, <1>5, <1>6 DEF Sent

\* A decision is made from the session's own messages and never revised.
LEMMA DecidedStep == IInv /\ [Next]_vars => Decided'
  <1> SUFFICES ASSUME IInv, [Next]_vars PROVE Decided'
    OBVIOUS
  <1> USE DEF IInv, TypeOK, Decided
  <1>1. CASE UNCHANGED vars
    BY <1>1 DEF vars
  <1>2. ASSUME NEW a \in Attempt, AttemptStep(a) PROVE Decided'
    BY <1>2 DEF AttemptStep, SendHello, ReadChallenge, AttemptFails
  <1>3. ASSUME NEW s \in Session, NEW m \in Hellos, ReadHello(s, m) PROVE Decided'
    BY <1>3 DEF ReadHello
  <1>4. ASSUME NEW s \in Session, NEW m \in Registers, ReadRegister(s, m) PROVE Decided'
    BY <1>4 DEF ReadRegister, Refuse
  <1>5. ASSUME NEW s \in Session, BadHello(s) \/ BadRegister(s) \/ SessionEnds(s)
        PROVE  Decided'
    BY <1>5 DEF BadHello, BadRegister, SessionEnds, Refuse
  <1> QED
    BY <1>1, <1>2, <1>3, <1>4, <1>5 DEF Next, SessionStep

\* The inductive invariant: what is read was sent, random values do not repeat, and
\* a session is registered exactly when its messages verify.
THEOREM Invariance == Spec => []IInv
  <1>1. Init => IInv
    BY DEF Init, IInv, TypeOK, Fresh, Sent, Decided, Started, Serving, Challenging
  <1>2. IInv /\ [Next]_vars => IInv'
    BY TypeStep, FreshStep, SentStep, DecidedStep DEF IInv
  <1> QED
    BY <1>1, <1>2, PTL DEF Spec

\* A register message that verifies in a session is the answer of the attempt whose
\* hello the session has read, to the session's own challenge.
LEMMA VerifiedAgree ==
  ASSUME IInv, NEW s \in Session, spc[s] = "registered"
  PROVE  \E a \in Attempt : Agree(s, a)
  <1> USE DEF IInv
  <1>1. PICK b \in Started : hello[s] = HelloOf(b)
    BY DEF Sent, Hellos
  <1>2. PICK a \in Serving : reg[s] = RegisterOf(a)
    BY DEF Sent, Registers
  <1>3. OpensCommitment(RegisterOf(a), HelloOf(b).commitment) /\ SignsJoint(RegisterOf(a), rCoord[s])
    BY <1>1, <1>2 DEF Decided, VerifyRegistration
  <1>4. a = b
    <2>1. Sha256(rNode[a]) = Sha256(rNode[b])
      BY <1>3, HelloFields, RegisterFields DEF OpensCommitment
    <2>2. a \in Started
      BY DEF TypeOK
    <2> QED
      BY <2>1, <2>2, HashInjective DEF Fresh
  <1>5. chal[a] = rCoord[s]
    <2>1. SignRegistration(KeyOf[a], rNode[a], chal[a]) = SignRegistration(KeyOf[a], rNode[a], rCoord[s])
      BY <1>3, RegisterFields DEF SignsJoint
    <2>2. xor32(rNode[a], chal[a]) = xor32(rNode[a], rCoord[s])
      BY <2>1, ProofNamesJoint
    <2>3. rNode[a] \in Random /\ chal[a] \in Random /\ rCoord[s] \in Random
      BY DEF TypeOK, Sent, Challenging, Serving
    <2> QED
      BY <2>2, <2>3, XorCancels
  <1> QED
    BY <1>1, <1>2, <1>4, <1>5 DEF Agree, Serving

\* Among attempts of the node program, on a network that repeats and misdelivers
\* what they send, a session registers only the attempt that has run one handshake with
\* this very session (VerifyRegistration).  The id it is registered as is not claimed.
THEOREM OneHandshake == Spec => []RegisteredInOneHandshake
  <1>1. IInv => RegisteredInOneHandshake
    BY VerifiedAgree DEF RegisteredInOneHandshake
  <1> QED
    BY <1>1, Invariance, PTL

\* A recorded registration cannot be used for a second connection.
THEOREM ReplayResistant == Spec => []RegistersOnce
  <1>1. IInv => RegistersOnce
    <2> SUFFICES ASSUME IInv, NEW s \in Session, NEW t \in Session,
                        spc[s] = "registered", spc[t] = "registered", reg[s] = reg[t]
                 PROVE  s = t
      BY DEF RegistersOnce
    <2>1. PICK a \in Attempt : Agree(s, a)
      BY VerifiedAgree
    <2>2. PICK b \in Attempt : Agree(t, b)
      BY VerifiedAgree
    <2>3. rNode[a] = rNode[b]
      BY <2>1, <2>2, RegisterFields DEF Agree
    <2>4. a = b
      BY <2>1, <2>2, <2>3 DEF Agree, IInv, Fresh, Started
    <2>5. rCoord[s] = rCoord[t] /\ s \in Challenging /\ t \in Challenging
      BY <2>1, <2>2, <2>4 DEF Agree, IInv, Sent
    <2> QED
      BY <2>5 DEF IInv, Fresh
  <1> QED
    BY <1>1, Invariance, PTL

\* A node that runs the handshake with a session passes its checks.
THEOREM Complete == Spec => []NodeNotRefused
  <1>1. IInv => NodeNotRefused
    <2> SUFFICES ASSUME IInv, NEW s \in Session, NEW a \in Attempt,
                        spc[s] = "refused", reg[s] # None, Agree(s, a)
                 PROVE  FALSE
      BY DEF NodeNotRefused
    <2>1. VerifyRegistration(RegisterOf(a), HelloOf(a).commitment, rCoord[s])
      BY HelloFields, RegisterFields
         DEF Agree, VerifyRegistration, OpensCommitment, SignsJoint
    <2> QED
      BY <2>1 DEF Agree, IInv, Decided
  <1> QED
    BY <1>1, Invariance, PTL
==============================================================================
