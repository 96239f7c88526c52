---------------------------- MODULE Registration ----------------------------
(***************************************************************************)
(* The registration handshake (protocol/protocol.go): a node commits to a   *)
(* random value, the coordinator answers with one of its own, and the node   *)
(* opens its commitment and signs the XOR of both.  An Attempt is one run of *)
(* connectCoordinator, a Session one run of handleNodeWS.                    *)
(*                                                                         *)
(* README.md:83 calls the handshake replay-resistant, so a session may be   *)
(* handed whatever any attempt ever sent, on any connection, late or again,  *)
(* and an attempt any challenge ever sent.  Hashes and signatures are ideal. *)
(*                                                                         *)
(* Every message is one that the node program makes (coord_client.go:81-108), *)
(* which puts the id of its own key into both; handleNodeWS registers the id   *)
(* of the second message, and compares it with neither the key nor the hello.  *)
(***************************************************************************)
EXTENDS FiniteSets

CONSTANTS Attempt, Session, Key,
          KeyOf,     \* the key of the node that makes an attempt
          Bit,       \* the bits of a random value (256 in the code)
          None       \* a value not yet set

ASSUME RegistrationAssumption ==
    /\ KeyOf \in [Attempt -> Key]
    /\ \A r \in SUBSET Bit : r # None

VARIABLES
    apc,     \* where connectCoordinator stands
    rNode,   \* the node's random value
    chal,    \* the challenge it has read
    spc,     \* where handleNodeWS stands
    hello,   \* the hello the session has accepted
    rCoord,  \* the coordinator's random value
    reg      \* the register message the session has read

vars == <<apc, rNode, chal, spc, hello, rCoord, reg>>

------------------------------------------------------------------------------
(* protocol.go.  A random value is the set of its bits that are one. *)

Random == SUBSET Bit

xor32(a, b) == (a \ b) \cup (b \ a)

Sha256(r) == <<"sha256", r>>
NodeID(pub) == <<"node", pub>>
signPayload(joint) == <<"rtc-bridge:register:", joint>>
Sign(key, payload) == [key |-> key, payload |-> payload]

SignRegistration(key, rn, rc) == Sign(key, signPayload(xor32(rn, rc)))

VerifyHello(m) == NodeID(m.publicKey) = m.nodeId

OpensCommitment(m, commitment) == Sha256(m.rNode) = commitment
SignsJoint(m, rc) == m.proof = SignRegistration(m.publicKey, m.rNode, rc)

\* Mutant: the opening is not compared with the commitment.
VerifyRegistrationUncommitted(m, commitment, rc) == SignsJoint(m, rc)

VerifyRegistration(m, commitment, rc) ==
    OpensCommitment(m, commitment) /\ SignsJoint(m, rc)

\* The messages of a node, and no message.
HelloMsg ==
    [type : {"hello"}, nodeId : {NodeID(k) : k \in Key}, publicKey : Key,
     commitment : {Sha256(r) : r \in Random}]

Proofs == [key : Key, payload : {signPayload(r) : r \in Random}]

RegisterMsg ==
    [type : {"register"}, nodeId : {NodeID(k) : k \in Key}, publicKey : Key,
     rNode : Random, proof : Proofs]

------------------------------------------------------------------------------
(* What has been sent so far. *)

HelloOf(a) ==
    [type |-> "hello", nodeId |-> NodeID(KeyOf[a]), publicKey |-> KeyOf[a],
     commitment |-> Sha256(rNode[a])]

RegisterOf(a) ==
    [type |-> "register", nodeId |-> NodeID(KeyOf[a]), publicKey |-> KeyOf[a],
     rNode |-> rNode[a], proof |-> SignRegistration(KeyOf[a], rNode[a], chal[a])]

Started == {a \in Attempt : apc[a] # "idle"}
Serving == {a \in Attempt : apc[a] = "serving"}
Challenging == {s \in Session : rCoord[s] # None}

Hellos == {HelloOf(a) : a \in Started}
Registers == {RegisterOf(a) : a \in Serving}
Challenges == {rCoord[s] : s \in Challenging}

TypeOK ==
    /\ apc \in [Attempt -> {"idle", "challenge", "serving", "failed"}]
    /\ spc \in [Session -> {"hello", "register", "registered", "refused", "closed"}]
    /\ rNode \in [Attempt -> Random \cup {None}]
    /\ chal \in [Attempt -> Random \cup {None}]
    /\ rCoord \in [Session -> Random \cup {None}]
    /\ hello \in [Session -> HelloMsg \cup {None}]
    /\ reg \in [Session -> RegisterMsg \cup {None}]
    /\ \A a \in Started : rNode[a] \in Random
    /\ \A a \in Serving : a \in Started /\ chal[a] \in Random

Init ==
    /\ apc = [a \in Attempt |-> "idle"]
    /\ rNode = [a \in Attempt |-> None]
    /\ chal = [a \in Attempt |-> None]
    /\ spc = [s \in Session |-> "hello"]
    /\ hello = [s \in Session |-> None]
    /\ rCoord = [s \in Session |-> None]
    /\ reg = [s \in Session |-> None]

------------------------------------------------------------------------------
(* connectCoordinator. *)

\* 32 random bytes do not repeat.
SendHello(a) ==
    /\ apc[a] = "idle"
    /\ \E r \in Random \ {rNode[b] : b \in Started} :
          rNode' = [rNode EXCEPT ![a] = r]
    /\ apc' = [apc EXCEPT ![a] = "challenge"]
    /\ UNCHANGED <<chal, spc, hello, rCoord, reg>>

ReadChallenge(a) ==
    /\ apc[a] = "challenge"
    /\ \E r \in Challenges : chal' = [chal EXCEPT ![a] = r]
    /\ apc' = [apc EXCEPT ![a] = "serving"]
    /\ UNCHANGED <<rNode, spc, hello, rCoord, reg>>

\* The connection ends before the challenge is read.
AttemptFails(a) ==
    /\ apc[a] = "challenge"
    /\ apc' = [apc EXCEPT ![a] = "failed"]
    /\ UNCHANGED <<rNode, chal, spc, hello, rCoord, reg>>

------------------------------------------------------------------------------
(* handleNodeWS up to registerNode. *)

Refuse(s) == spc' = [spc EXCEPT ![s] = "refused"]

\* Mutant: the coordinator draws its value once and serves every session with it.
ReadHelloFixed(s, m) ==
    /\ spc[s] = "hello"
    /\ VerifyHello(m)
    /\ hello' = [hello EXCEPT ![s] = m]
    /\ \E r \in Random :
          /\ Challenges # {} => r \in Challenges
          /\ rCoord' = [rCoord EXCEPT ![s] = r]
    /\ spc' = [spc EXCEPT ![s] = "register"]
    /\ UNCHANGED <<apc, rNode, chal, reg>>

ReadHello(s, m) ==
    /\ spc[s] = "hello"
    /\ VerifyHello(m)
    /\ hello' = [hello EXCEPT ![s] = m]
    /\ \E r \in Random \ Challenges : rCoord' = [rCoord EXCEPT ![s] = r]
    /\ spc' = [spc EXCEPT ![s] = "register"]
    /\ UNCHANGED <<apc, rNode, chal, reg>>

\* Something else than a hello.  (Every hello of a node passes VerifyHello.)
BadHello(s) ==
    /\ spc[s] = "hello"
    /\ Registers # {}
    /\ Refuse(s)
    /\ UNCHANGED <<apc, rNode, chal, hello, rCoord, reg>>

\* The node is registered as m.nodeId.
ReadRegister(s, m) ==
    /\ spc[s] = "register"
    /\ reg' = [reg EXCEPT ![s] = m]
    /\ IF VerifyRegistration(m, hello[s].commitment, rCoord[s])
       THEN spc' = [spc EXCEPT ![s] = "registered"]
       ELSE Refuse(s)
    /\ UNCHANGED <<apc, rNode, chal, hello, rCoord>>

\* A second hello where the registration is expected.
BadRegister(s) ==
    /\ spc[s] = "register"
    /\ Hellos # {}
    /\ Refuse(s)
    /\ UNCHANGED <<apc, rNode, chal, hello, rCoord, reg>>

\* The 15 s deadline, which covers both reads, or the end of the connection.
SessionEnds(s) ==
    /\ spc[s] \in {"hello", "register"}
    /\ spc' = [spc EXCEPT ![s] = "closed"]
    /\ UNCHANGED <<apc, rNode, chal, hello, rCoord, reg>>

AttemptStep(a) == SendHello(a) \/ ReadChallenge(a) \/ AttemptFails(a)

SessionStep(s) ==
    \/ \E m \in Hellos : ReadHello(s, m)
    \/ \E m \in Registers : ReadRegister(s, m)
    \/ BadHello(s) \/ BadRegister(s) \/ SessionEnds(s)

Next == (\E a \in Attempt : AttemptStep(a)) \/ (\E s \in Session : SessionStep(s))

Spec == Init /\ [][Next]_vars

------------------------------------------------------------------------------
(* Safety. *)

\* Attempt a and session s have run one handshake with each other.
Agree(s, a) ==
    /\ apc[a] = "serving"
    /\ hello[s] = HelloOf(a)
    /\ chal[a] = rCoord[s]
    /\ reg[s] = RegisterOf(a)

\* Whatever was recorded and delivered again, late or elsewhere, a session registers
\* only the attempt that has run the whole handshake with it: the one whose commitment
\* it accepted has read this session's challenge and opened and signed for it.  Which id
\* the registration names is not part of this: VerifyRegistration does not look at it.
RegisteredInOneHandshake ==
    \A s \in Session : spc[s] = "registered" => \E a \in Attempt : Agree(s, a)

\* One registration message registers one connection: delivered again on another,
\* it is refused.
RegistersOnce ==
    \A s, t \in Session :
        /\ spc[s] = "registered" /\ spc[t] = "registered" /\ reg[s] = reg[t]
        => s = t

\* No session refuses the node it talks to, whatever else goes on at the same time:
\* commitments and challenges of concurrent handshakes are not mixed up.
NodeNotRefused ==
    \A s \in Session, a \in Attempt :
        spc[s] = "refused" /\ reg[s] # None => ~Agree(s, a)

------------------------------------------------------------------------------
(* Why they hold. *)

\* Random values are those of one attempt, of one session.
Fresh ==
    /\ \A a, b \in Started : rNode[a] = rNode[b] => a = b
    /\ \A s, t \in Challenging : rCoord[s] = rCoord[t] => s = t

\* What has been read has been sent.
Sent ==
    /\ \A a \in Serving : chal[a] \in Challenges
    /\ \A s \in Session : spc[s] \in {"register", "registered"} =>
          hello[s] \in Hellos /\ s \in Challenging
    /\ \A s \in Session : spc[s] = "registered" => reg[s] \in Registers

\* A session is registered exactly when its three messages verify.
Decided ==
    \A s \in Session :
        /\ spc[s] = "hello" => rCoord[s] = None
        /\ spc[s] \in {"hello", "register"} => reg[s] = None
        /\ spc[s] = "registered" => VerifyRegistration(reg[s], hello[s].commitment, rCoord[s])
        /\ spc[s] = "refused" /\ reg[s] # None =>
              ~VerifyRegistration(reg[s], hello[s].commitment, rCoord[s])

IInv == TypeOK /\ Fresh /\ Sent /\ Decided
==============================================================================
