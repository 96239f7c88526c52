--------------------------- MODULE CliClientProofs ---------------------------
(***************************************************************************)
(* Proofs about Dial and CliClient: at most one connection of a client is    *)
(* live, and PASS means what it says, for any nodes, any number of messages   *)
(* and any capacity of received.                                             *)
(***************************************************************************)
EXTENDS CliClient, SequenceTheorems, TLAPS

------------------------------------------------------------------------------
(* Types. *)

LEMMA InitType == Init => CliTypeOK
<1> SUFFICES ASSUME Init PROVE CliTypeOK
    OBVIOUS
<1>1. TypeOK
  BY DEF Init, DialInit, TypeOK, Client, Try, NoTry, NoNode, Offer!Init, Offer!Status
<1>2. /\ service \in Service
      /\ far \in {"none", "asked", "bridged", "refused"}
      /\ link \in {"up", "lost", "closed"}
      /\ msg \in 0..MaxMsgs
      /\ ok \in BOOLEAN
      /\ received \in Seq(Seq(0..(2 * MaxMsgs + 1))) /\ Len(received) <= ReceivedCap
  BY MessagesAssumption DEF Init
<1>3. atEcho \in Seq(Msg) /\ down \in Seq(Half) /\ got \in [Msg -> Seq(Half)]
  BY DEF Init
<1> QED
  BY <1>1, <1>2, <1>3 DEF CliTypeOK

\* Types of the variables of Dial, for each of its steps.
LEMMA DialType == TypeOK /\ TryInv /\ DialNext => TypeOK'
<1> SUFFICES ASSUME TypeOK, TryInv, DialNext PROVE TypeOK'
    OBVIOUS
<1> USE NodeAssumption DEF TypeOK, Client
<1>1. CASE StartTry
  BY <1>1 DEF StartTry, TryInv, offerVars, Try, NoTry
<1>2. CASE PickService
  BY <1>2 DEF PickService, IsFirstListed, offerVars
<1>3. CASE PostOffer
  BY <1>3 DEF PostOffer, Offer!Open, Offer!Status
<1>4. CASE ChannelOpens \/ OpenTimeout \/ TryFailed
  BY <1>4 DEF ChannelOpens, OpenTimeout, TryFailed, Exits, offerVars
<1>5. CASE OfferFails \/ TakeAnswer
  BY <1>5 DEF OfferFails, TakeAnswer, Offer!Fail, Offer!Return, Offer!Status
<1>6. CASE CreateChannel \/ CreateOpens \/ AppCloses
  BY <1>6 DEF CreateChannel, CreateOpens, AppCloses, offerVars
<1>7. ASSUME NEW i \in Try, PeerStep(i) \/ NodeIceFails(i)
      PROVE  TypeOK'
  BY <1>7 DEF PeerStep, IceConnects, ClientIceFails, NodeIceFails, offerVars
<1>8. ASSUME NEW i \in Try, NodeReceives(i) \/ NodeAnswers(i) \/ NodeRejects(i)
      PROVE  TypeOK'
  BY <1>8 DEF NodeReceives, NodeAnswers, NodeRejects, offerVars, Offer!NodeAnswers
<1>9. ASSUME NEW n \in Node, NodeRegisters(n) \/ NodeUnlisted(n)
      PROVE  TypeOK'
  BY <1>9 DEF NodeRegisters, NodeUnlisted, offerVars
<1> QED
  BY <1>1, <1>2, <1>3, <1>4, <1>5, <1>6, <1>7, <1>8, <1>9
     DEF DialNext, ClientStep, CoordinatorReplies

LEMMA TalkType == CliTypeOK /\ UNCHANGED talkVars /\ TypeOK' => CliTypeOK'
BY DEF CliTypeOK, talkVars

\* The cli and its far end leave the nodes, the offers and createChannel alone.
LEMMA CliKeeps ==
    ASSUME CliStep \/ FarStep
    PROVE  UNCHANGED <<who, try, registry, target, npc, call, left, offerVars, service>>
BY DEF CliStep, FarStep, SendService, TakeAck, AckTimeout, SendMsg, TakeReply, ReplyTimeout,
       Finish, FarAnswers, EchoHandle, Delivers, LinkLost, LinkCloses, Goes, Fatal,
       dialVars, talkVars, offerVars

\* They may only close the connection, and the cli ends after the handshake.
LEMMA CliMoves ==
    ASSUME CliStep \/ FarStep
    PROVE  /\ UNCHANGED cpc \/ cpc' = [cpc EXCEPT ![try] = "closed"]
           /\ \/ UNCHANGED at
              \/ /\ at \in {"up", "ack", "send", "reply"}
                 /\ at' \in {"ack", "send", "reply", "passed", "exit"}
                 /\ at = "up" => who # "dial"
BY DEF CliStep, FarStep, SendService, TakeAck, AckTimeout, SendMsg, TakeReply, ReplyTimeout,
       Finish, FarAnswers, EchoHandle, Delivers, LinkLost, LinkCloses, Goes, Fatal,
       dialVars, talkVars, offerVars

LEMMA CliDialType == TypeOK /\ TryInv /\ (CliStep \/ FarStep) => TypeOK'
BY CliKeeps, CliMoves DEF TypeOK, TryInv, offerVars

------------------------------------------------------------------------------
(* At most one connection of the client is live. *)

LEMMA InitTry == Init => TryInv
BY DEF Init, DialInit, TryInv, Live, Try, NoTry, Client

LEMMA DialTry == TypeOK /\ TryInv /\ DialNext => TryInv'
<1> SUFFICES ASSUME TypeOK, TryInv, DialNext PROVE TryInv'
    OBVIOUS
<1>0. /\ cpc \in [Try -> {"none", "new", "connecting", "connected", "failed", "closed"}]
      /\ try \in {0, 1, 2} /\ Try = {1, 2} /\ NoTry = 0
  BY DEF TypeOK, Try, NoTry
<1> USE <1>0 DEF Live
<1>1. CASE StartTry
  BY <1>1 DEF StartTry, TryInv
<1>2. CASE PickService \/ PostOffer \/ ChannelOpens
  BY <1>2 DEF PickService, PostOffer, ChannelOpens, TryInv
<1>3. CASE OpenTimeout \/ TryFailed
  BY <1>3 DEF OpenTimeout, TryFailed, Exits, TryInv
<1>4. CASE OfferFails \/ TakeAnswer
  BY <1>4 DEF OfferFails, TakeAnswer, TryInv
<1>5. CASE CreateChannel \/ CreateOpens \/ AppCloses
  BY <1>5 DEF CreateChannel, CreateOpens, AppCloses, TryInv
<1>6. ASSUME NEW i \in Try, IceConnects(i)
      PROVE  TryInv'
  BY <1>6 DEF IceConnects, TryInv
<1>7. ASSUME NEW i \in Try, ClientIceFails(i)
      PROVE  TryInv'
  BY <1>7 DEF ClientIceFails, TryInv
<1>8. ASSUME NEW i \in Try,
             NodeIceFails(i) \/ NodeReceives(i) \/ NodeAnswers(i) \/ NodeRejects(i)
      PROVE  TryInv'
  BY <1>8 DEF NodeIceFails, NodeReceives, NodeAnswers, NodeRejects, TryInv
<1>9. ASSUME NEW n \in Node, NodeRegisters(n) \/ NodeUnlisted(n)
      PROVE  TryInv'
  BY <1>9 DEF NodeRegisters, NodeUnlisted, TryInv
<1> QED
  BY <1>1, <1>2, <1>3, <1>4, <1>5, <1>6, <1>7, <1>8, <1>9
     DEF DialNext, ClientStep, CoordinatorReplies, PeerStep

LEMMA CliTry == TypeOK /\ TryInv /\ (CliStep \/ FarStep) => TryInv'
<1> SUFFICES ASSUME TypeOK, TryInv, CliStep \/ FarStep PROVE TryInv'
    OBVIOUS
<1>0. /\ cpc \in [Try -> {"none", "new", "connecting", "connected", "failed", "closed"}]
      /\ try \in {0, 1, 2} /\ Try = {1, 2} /\ NoTry = 0
  BY DEF TypeOK, Try, NoTry
<1>1. who' = who /\ try' = try
  BY CliKeeps
<1> QED
  BY <1>0, <1>1, CliMoves DEF TryInv, Live

LEMMA TryIsOneLive == TypeOK /\ TryInv => OneLivePeer
BY DEF TypeOK, TryInv, OneLivePeer, Live, Try, NoTry

------------------------------------------------------------------------------
(* Types of the variables of CliClient. *)

LEMMA Halves ==
    /\ \A m \in Msg : Reply(m) \in Seq(Half)
    /\ Seq(Half) \subseteq Seq(0..(2 * MaxMsgs + 1))
    /\ Ok \in Seq(0..(2 * MaxMsgs + 1))
    /\ Err \in Seq(0..(2 * MaxMsgs + 1))
<1> USE MessagesAssumption
<1>1. Half \subseteq 0..(2 * MaxMsgs + 1)
  BY DEF Half
<1>2. Seq(Half) \subseteq Seq(0..(2 * MaxMsgs + 1))
  BY <1>1, SeqMonotonic
<1>3. ASSUME NEW m \in Msg PROVE Reply(m) \in Seq(Half)
  <2>1. 2 * m - 1 \in Half /\ 2 * m \in Half
    BY DEF Msg, Half
  <2> QED
    BY <2>1 DEF Reply
<1>4. 0 \in 0..(2 * MaxMsgs + 1) /\ 2 * MaxMsgs + 1 \in 0..(2 * MaxMsgs + 1)
  OBVIOUS
<1> QED
  BY <1>2, <1>3, <1>4 DEF Ok, Err

\* A part of what is on its way is a message of halves, and so is the rest.
LEMMA Parts ==
    ASSUME NEW s \in Seq(Half), NEW n \in 1..Len(s)
    PROVE  /\ SubSeq(s, 1, n) \in Seq(Half)
           /\ SubSeq(s, n + 1, Len(s)) \in Seq(Half)
OBVIOUS

LEMMA CliType == CliTypeOK /\ HandshakeInv /\ TypeOK' /\ (CliStep \/ FarStep) => CliTypeOK'
<1> SUFFICES ASSUME CliTypeOK, HandshakeInv, TypeOK', CliStep \/ FarStep PROVE CliTypeOK'
    OBVIOUS
<1> DEFINE Any == Seq(0..(2 * MaxMsgs + 1))
<1>0. /\ service \in Service
      /\ far \in {"none", "asked", "bridged", "refused"}
      /\ link \in {"up", "lost", "closed"}
      /\ msg \in 0..MaxMsgs /\ ok \in BOOLEAN
      /\ atEcho \in Seq(Msg) /\ down \in Seq(Half)
      /\ received \in Seq(Any) /\ Len(received) <= ReceivedCap
      /\ got \in [Msg -> Seq(Half)]
      /\ MaxMsgs \in Nat /\ ReceivedCap \in Nat
  BY MessagesAssumption DEF CliTypeOK
<1>h. Seq(Half) \subseteq Any /\ Ok \in Any /\ Err \in Any /\ \A m \in Msg : Reply(m) \in Seq(Half)
  BY Halves
<1> HIDE DEF Any
<1>1. CASE SendService
  BY <1>0, <1>1 DEF SendService, CliTypeOK, Any
<1>2. CASE TakeAck
  <2>1. Tail(received) \in Seq(Any) /\ Len(Tail(received)) <= ReceivedCap
    BY <1>0, <1>2 DEF TakeAck
  <2> QED
    BY <1>0, <1>2, <2>1 DEF TakeAck, CliTypeOK, Any
<1>3. CASE AckTimeout
  BY <1>0, <1>3 DEF AckTimeout, talkVars, CliTypeOK, Any
<1>4. CASE SendMsg
  <2>1. msg' \in 0..MaxMsgs /\ msg' \in Msg
    BY <1>0, <1>4 DEF SendMsg, Msg
  <2>2. Append(atEcho, msg') \in Seq(Msg)
    BY <1>0, <2>1, AppendProperties
  <2>3. atEcho' \in Seq(Msg) /\ ok' \in BOOLEAN
    BY <1>0, <1>4, <2>2 DEF SendMsg
  <2> QED
    BY <1>0, <1>4, <2>1, <2>3 DEF SendMsg, CliTypeOK, Any
<1>5. CASE TakeReply
  <2>1. Tail(received) \in Seq(Any) /\ Len(Tail(received)) <= ReceivedCap
    BY <1>0, <1>5 DEF TakeReply
  <2>2. Head(received) \in Seq(Half)
    <3>1. received \in Seq(Seq(Half)) /\ received # <<>>
      BY <1>5 DEF TakeReply, HandshakeInv
    <3> QED
      BY <3>1
  <2>3. got' \in [Msg -> Seq(Half)]
    BY <1>0, <1>5, <2>2 DEF TakeReply
  <2> QED
    BY <1>0, <1>5, <2>1, <2>3 DEF TakeReply, CliTypeOK, Any
<1>6. CASE ReplyTimeout \/ Finish
  BY <1>0, <1>6 DEF ReplyTimeout, Finish, talkVars, CliTypeOK, Any
<1>7. CASE FarAnswers
  <2>1. received' \in Seq(Any) /\ Len(received') <= ReceivedCap
    <3>1. Len(received) < ReceivedCap /\ \E x \in Any : received' = Append(received, x)
      BY <1>h, <1>7 DEF FarAnswers, CanReceive
    <3> QED
      BY <1>0, <3>1, AppendProperties
  <2> QED
    BY <1>0, <1>7, <2>1 DEF FarAnswers, CliTypeOK, Any
<1>8. CASE EchoHandle
  <2>1. Head(atEcho) \in Msg /\ Tail(atEcho) \in Seq(Msg)
    BY <1>0, <1>8 DEF EchoHandle
  <2>2. down' \in Seq(Half)
    BY <1>0, <1>h, <1>8, <2>1 DEF EchoHandle
  <2> QED
    BY <1>0, <1>8, <2>1, <2>2 DEF EchoHandle, CliTypeOK, Any
<1>9. CASE Delivers
  <2>1. PICK n \in 1..Len(down) :
            /\ received' = Append(received, SubSeq(down, 1, n))
            /\ down' = SubSeq(down, n + 1, Len(down))
    BY <1>9 DEF Delivers
  <2>2. SubSeq(down, 1, n) \in Seq(Half) /\ down' \in Seq(Half)
    BY <1>0, <2>1, Parts
  <2>3. received' \in Seq(Any) /\ Len(received') <= ReceivedCap
    <3>1. Len(received) < ReceivedCap /\ SubSeq(down, 1, n) \in Any
      BY <1>h, <1>9, <2>2 DEF Delivers, CanReceive
    <3> QED
      BY <1>0, <2>1, <3>1, AppendProperties
  <2> QED
    BY <1>0, <1>9, <2>2, <2>3 DEF Delivers, CliTypeOK, Any
<1>10. CASE LinkLost \/ LinkCloses
  BY <1>0, <1>10 DEF LinkLost, LinkCloses, CliTypeOK, Any
<1> QED
  BY <1>1, <1>2, <1>3, <1>4, <1>5, <1>6, <1>7, <1>8, <1>9, <1>10 DEF CliStep, FarStep

------------------------------------------------------------------------------
(* The handshake. *)

\* The steps of Dial stay before the handshake, or end it all.
LEMMA DialMoves ==
    DialNext => /\ who' = who
                /\ \/ at' = at
                   \/ /\ at \in {"start", "gather", "answer", "opening", "failed"}
                      /\ at' \in {"start", "gather", "answer", "opening", "failed", "up", "exit"}
<1> SUFFICES ASSUME DialNext
             PROVE  /\ who' = who
                    /\ \/ at' = at
                       \/ /\ at \in {"start", "gather", "answer", "opening", "failed"}
                          /\ at' \in {"start", "gather", "answer", "opening", "failed", "up", "exit"}
    OBVIOUS
<1>1. CASE ClientStep
  BY <1>1 DEF ClientStep, StartTry, PostOffer, ChannelOpens, OpenTimeout,
              TryFailed, Exits
<1>2. CASE CoordinatorReplies \/ CreateChannel \/ CreateOpens \/ AppCloses
  BY <1>2 DEF CoordinatorReplies, PickService, OfferFails, TakeAnswer, CreateChannel,
              CreateOpens, AppCloses
<1>3. ASSUME NEW i \in Try, PeerStep(i)
      PROVE  /\ who' = who
             /\ at' = at \/ (at = "opening" /\ at' = "failed")
  BY <1>3 DEF PeerStep, IceConnects, ClientIceFails
<1>4. ASSUME NEW i \in Try,
             NodeIceFails(i) \/ NodeReceives(i) \/ NodeAnswers(i) \/ NodeRejects(i)
      PROVE  who' = who /\ at' = at
  BY <1>4 DEF NodeIceFails, NodeReceives, NodeAnswers, NodeRejects
<1>5. ASSUME NEW n \in Node, NodeRegisters(n) \/ NodeUnlisted(n)
      PROVE  who' = who /\ at' = at
  BY <1>5 DEF NodeRegisters, NodeUnlisted
<1> QED
  BY <1>1, <1>2, <1>3, <1>4, <1>5 DEF DialNext

LEMMA InitHandshake == Init => HandshakeInv
BY DEF Init, DialInit, HandshakeInv

LEMMA DialHandshake == HandshakeInv /\ DialNext /\ UNCHANGED talkVars => HandshakeInv'
BY DialMoves DEF HandshakeInv, talkVars

LEMMA CliHandshake == CliTypeOK /\ TryInv /\ HandshakeInv /\ (CliStep \/ FarStep) => HandshakeInv'
<1> SUFFICES ASSUME CliTypeOK, TryInv, HandshakeInv, CliStep \/ FarStep PROVE HandshakeInv'
    OBVIOUS
<1>0. who' = who /\ service' = service
  BY CliKeeps
<1>1. CASE SendService
  BY <1>1 DEF SendService, Goes, Fatal, HandshakeInv
<1>2. CASE TakeAck
  <2>1. ASSUME Head(received) = Ok PROVE far = "bridged" /\ Tail(received) = <<>>
    <3>1. Ok # Err
      BY MessagesAssumption DEF Ok, Err
    <3>2. received = <<Ok>> \/ received = <<Err>>
      BY <1>2 DEF TakeAck, HandshakeInv
    <3>3. received = <<Ok>>
      BY <2>1, <3>1, <3>2
    <3> QED
      BY <1>2, <3>1, <3>2, <3>3 DEF TakeAck, HandshakeInv
  <2>2. CASE at' = "exit"
    BY <1>0, <1>2, <2>2 DEF TakeAck, HandshakeInv
  <2>3. CASE at' = "send"
    <3>1. far = "bridged" /\ received' = <<>>
      BY <1>2, <2>1, <2>3 DEF TakeAck, Fatal, Goes
    <3>2. received' \in Seq(Seq(Half))
      BY <3>1, EmptySeq
    <3> QED
      BY <1>0, <1>2, <2>3, <3>1, <3>2 DEF TakeAck, HandshakeInv
  <2> QED
    BY <1>2, <2>2, <2>3 DEF TakeAck, Goes, Fatal
<1>3. CASE AckTimeout
  BY <1>0, <1>3 DEF AckTimeout, Goes, Fatal, talkVars, HandshakeInv
<1>4. CASE SendMsg
  BY <1>0, <1>4 DEF SendMsg, HandshakeInv
<1>5. CASE TakeReply
  <2>1. Tail(received) \in Seq(Seq(Half))
    BY <1>5, HeadTailProperties DEF TakeReply, HandshakeInv
  <2> QED
    BY <1>0, <1>5, <2>1 DEF TakeReply, Goes, HandshakeInv
<1>6. CASE ReplyTimeout \/ Finish
  BY <1>0, <1>6 DEF ReplyTimeout, Finish, Goes, talkVars, HandshakeInv
<1>7. CASE FarAnswers
  <2>1. at \in {"ack", "exit"}
    BY <1>7 DEF FarAnswers, HandshakeInv
  <2>2. at = "ack" /\ at' = at
    BY <1>7, <2>1 DEF FarAnswers, CanReceive, Alive, dialVars
  <2>3. received = <<>>
    BY <1>7, <2>2 DEF FarAnswers, HandshakeInv
  <2> QED
    BY <1>0, <1>7, <2>2, <2>3 DEF FarAnswers, HandshakeInv
<1>8. CASE EchoHandle
  BY <1>0, <1>8 DEF EchoHandle, Alive, HandshakeInv, dialVars
<1>9. CASE Delivers
  <2>1. PICK n \in 1..Len(down) : received' = Append(received, SubSeq(down, 1, n))
    BY <1>9 DEF Delivers
  <2>2. at' = at /\ at \in {"send", "reply"}
    <3>1. down # <<>>
      BY <2>1
    <3>2. at' = at /\ at \notin {"exit", "passed"}
      BY <1>9 DEF Delivers, CanReceive, Alive, dialVars
    <3> QED
      BY <3>1, <3>2 DEF HandshakeInv
  <2>3. received' \in Seq(Seq(Half))
    <3>1. SubSeq(down, 1, n) \in Seq(Half)
      BY Parts DEF CliTypeOK
    <3> QED
      BY <2>1, <2>2, <3>1, AppendProperties DEF HandshakeInv
  <2> QED
    BY <1>0, <1>9, <2>2, <2>3 DEF Delivers, HandshakeInv
<1>10. CASE LinkLost \/ LinkCloses
  BY <1>0, <1>10 DEF LinkLost, LinkCloses, HandshakeInv, dialVars
<1> QED
  BY <1>1, <1>2, <1>3, <1>4, <1>5, <1>6, <1>7, <1>8, <1>9, <1>10 DEF CliStep, FarStep

------------------------------------------------------------------------------
(* Replies and messages. *)

LEMMA InitPair == Init => PairInv
BY DEF Init, DialInit, PairInv

\* What PairInv speaks of, unless the step is one of those that it is about.
LEMMA PairStays ==
    ASSUME PairInv, got' = got, msg' = msg, ok' = ok,
           \/ at' = at /\ UNCHANGED <<link, atEcho, down, received>>
           \/ at' \notin {"send", "reply", "passed"}
    PROVE  PairInv'
BY DEF PairInv, AllWhole, Silent, Outstanding, PairedTo

LEMMA DialPair == PairInv /\ DialNext /\ UNCHANGED talkVars => PairInv'
BY DialMoves, PairStays DEF talkVars

\* A reply on its way is delivered whole or in two parts.
LEMMA Deliveries ==
    ASSUME NEW a, NEW b, NEW n \in 1..2
    PROVE  \/ SubSeq(<<a, b>>, 1, n) = <<a>> /\ SubSeq(<<a, b>>, n + 1, 2) = <<b>>
           \/ SubSeq(<<a, b>>, 1, n) = <<a, b>> /\ SubSeq(<<a, b>>, n + 1, 2) = <<>>
<1> DEFINE s == <<a, b>>
           S == {a, b}
<1>0. s \in Seq(S) /\ Len(s) = 2 /\ s[1] = a /\ s[2] = b
  OBVIOUS
<1> HIDE DEF s, S
<1>1. CASE n = 1
  <2>1. /\ SubSeq(s, 1, 1) \in Seq(S) /\ Len(SubSeq(s, 1, 1)) = 1
        /\ SubSeq(s, 1, 1)[1] = a
    BY <1>0, SubSeqProperties, ElementOfSeq
  <2>2. /\ SubSeq(s, 2, 2) \in Seq(S) /\ Len(SubSeq(s, 2, 2)) = 1
        /\ SubSeq(s, 2, 2)[1] = b
    BY <1>0, SubSeqProperties, ElementOfSeq
  <2>3. /\ <<a>> \in Seq(S) /\ Len(<<a>>) = 1 /\ <<a>>[1] = a
        /\ <<b>> \in Seq(S) /\ Len(<<b>>) = 1 /\ <<b>>[1] = b
    BY DEF S
  <2>4. SubSeq(s, 1, 1) = <<a>>
    <3>1. \A i \in 1..1 : SubSeq(s, 1, 1)[i] = <<a>>[i]
      BY <2>1, <2>3
    <3> QED
      BY <2>1, <2>3, <3>1, SeqEqual
  <2>5. SubSeq(s, 2, 2) = <<b>>
    <3>1. \A i \in 1..1 : SubSeq(s, 2, 2)[i] = <<b>>[i]
      BY <2>2, <2>3
    <3> QED
      BY <2>2, <2>3, <3>1, SeqEqual
  <2>6. n + 1 = 2
    BY <1>1
  <2> QED
    BY <1>1, <2>4, <2>5, <2>6 DEF s
<1>2. CASE n = 2
  <2>1. SubSeq(s, 1, 2) = s
    BY <1>0, SubSeqFull
  <2>2. SubSeq(s, 3, 2) = <<>>
    BY SubSeqEmpty
  <2>3. n + 1 = 3
    BY <1>2
  <2> QED
    BY <1>2, <2>1, <2>2, <2>3 DEF s
<1> QED
  BY <1>1, <1>2

LEMMA LastDelivery ==
    ASSUME NEW a, NEW n \in 1..1
    PROVE  SubSeq(<<a>>, 1, n) = <<a>> /\ SubSeq(<<a>>, n + 1, 1) = <<>>
<1> DEFINE s == <<a>>
<1>0. s \in Seq({a}) /\ Len(s) = 1 /\ n = 1 /\ n + 1 = 2
  OBVIOUS
<1> HIDE DEF s
<1>1. SubSeq(s, 1, 1) = s
  BY <1>0, SubSeqFull
<1>2. SubSeq(s, 2, 1) = <<>>
  BY SubSeqEmpty
<1> QED
  BY <1>0, <1>1, <1>2 DEF s

LEMMA AppendOne ==
    ASSUME NEW S, NEW s \in Seq(S), NEW b \in S, Len(s) = 1
    PROVE  /\ Append(s, b) \in Seq(S) /\ Len(Append(s, b)) = 2
           /\ Append(s, b)[1] = s[1] /\ Append(s, b)[2] = b
<1>1. Append(s, b) \in Seq(S) /\ Len(Append(s, b)) = Len(s) + 1
  BY AppendProperties
<1>2. Append(s, b)[Len(s) + 1] = b
  BY AppendProperties
<1>3. \A i \in 1..Len(s) : Append(s, b)[i] = s[i]
  BY AppendProperties
<1> QED
  BY <1>1, <1>2, <1>3

LEMMA AppendTwo == \A a, b : Append(<<a>>, b) = <<a, b>>
<1> SUFFICES ASSUME NEW a, NEW b PROVE Append(<<a>>, b) = <<a, b>>
    OBVIOUS
<1> DEFINE S == {a, b}
           s == <<a>>
           t == <<a, b>>
<1>1. s \in Seq(S) /\ Len(s) = 1 /\ s[1] = a /\ b \in S
  OBVIOUS
<1>2. t \in Seq(S) /\ Len(t) = 2 /\ t[1] = a /\ t[2] = b
  OBVIOUS
<1> HIDE DEF S, s, t
<1>3. /\ Append(s, b) \in Seq(S) /\ Len(Append(s, b)) = 2
      /\ Append(s, b)[1] = a /\ Append(s, b)[2] = b
  BY <1>1, AppendOne
<1>4. \A i \in 1..2 : Append(s, b)[i] = t[i]
  <2>1. \A i \in 1..2 : i = 1 \/ i = 2
    OBVIOUS
  <2> QED
    BY <1>2, <1>3, <2>1
<1>5. Append(s, b) = t
  BY <1>2, <1>3, <1>4, SeqEqual
<1> QED
  BY <1>5 DEF s, t

LEMMA HalfIsNotWhole == \A h : <<h>> \notin WholeLines
BY DEF WholeLines, Reply

LEMMA ReplyIsWhole == \A m \in Msg : Reply(m) \in WholeLines
BY DEF WholeLines

LEMMA PairSendMsg == CliTypeOK /\ PairInv /\ SendMsg => PairInv'
<1> SUFFICES ASSUME CliTypeOK, PairInv, SendMsg PROVE PairInv'
    OBVIOUS
<1>0. /\ msg \in Nat /\ msg' = msg + 1 /\ msg' \in Msg /\ at = "send"
      /\ Msg \subseteq Nat
  BY MessagesAssumption DEF SendMsg, CliTypeOK, Msg
<1>1. got' = got /\ down' = down /\ received' = received /\ link' = link
  BY DEF SendMsg
<1>2. \A m \in Msg : m > msg' \/ m = msg' => got'[m] = <<>>
  BY <1>0, <1>1 DEF PairInv
<1>3. AllWhole' = AllWhole /\ (PairedTo(msg) => PairedTo(msg - 1)')
  BY <1>0, <1>1 DEF AllWhole, PairedTo
<1>4. CASE link = "closed"
  BY <1>0, <1>2, <1>4 DEF SendMsg, PairInv
<1>5. CASE link # "closed"
  <2>1. at' = "reply" /\ ok' = ok
    BY <1>5 DEF SendMsg
  <2>2. ASSUME ok, AllWhole PROVE Outstanding(msg)' /\ PairedTo(msg)
    <3>1. Silent /\ PairedTo(msg)
      BY <1>0, <2>2 DEF PairInv
    <3>2. CASE link = "up"
      <4>1. atEcho' = <<msg'>>
        BY <3>1, <3>2, <1>5 DEF SendMsg, Silent
      <4> QED
        BY <1>1, <3>1, <4>1 DEF Outstanding, Silent
    <3>3. CASE link # "up"
      <4>1. atEcho' = atEcho
        BY <3>3, <1>5 DEF SendMsg
      <4> QED
        BY <1>1, <3>1, <3>3, <4>1 DEF Outstanding, Silent
    <3> QED
      BY <3>1, <3>2, <3>3
  <2> QED
    BY <1>0, <1>2, <1>3, <2>1, <2>2 DEF PairInv
<1> QED
  BY <1>4, <1>5

LEMMA PairTakeReply == CliTypeOK /\ PairInv /\ TakeReply => PairInv'
<1> SUFFICES ASSUME CliTypeOK, PairInv, TakeReply PROVE PairInv'
    OBVIOUS
<1>0. /\ msg \in Msg /\ msg' = msg /\ at = "reply" /\ at' = "send" /\ ok' = ok
      /\ atEcho' = atEcho /\ down' = down
      /\ got \in [Msg -> Seq(Half)] /\ Msg \subseteq Nat
      /\ received # <<>> /\ received' = Tail(received)
  BY DEF TakeReply, Goes, PairInv, CliTypeOK, Msg
<1>1. /\ got'[msg] = Head(received)
      /\ \A m \in Msg : m # msg => got'[m] = got[m]
  BY <1>0 DEF TakeReply
<1>2. \A m \in Msg : m > msg => got'[m] = <<>>
  BY <1>0, <1>1 DEF PairInv
<1>3. ASSUME ok, AllWhole' PROVE Silent' /\ PairedTo(msg)'
  <2>1. got[msg] = <<>>
    BY <1>0 DEF PairInv
  <2>2. AllWhole
    BY <1>0, <1>1, <1>3, <2>1 DEF AllWhole, WholeLines
  <2>3. Outstanding(msg) /\ PairedTo(msg - 1)
    BY <1>0, <1>3, <2>2 DEF PairInv
  <2>4. Head(received) \in WholeLines
    BY <1>0, <1>1, <1>3 DEF AllWhole
  <2>5. \/ received = <<Reply(msg)>> /\ atEcho = <<>> /\ down = <<>>
        \/ received = <<<<2 * msg - 1>>>>
        \/ received = <<<<2 * msg - 1>>, <<2 * msg>>>>
    BY <1>0, <2>3 DEF Outstanding, Silent
  <2>6. received = <<Reply(msg)>> /\ atEcho = <<>> /\ down = <<>>
    BY <2>4, <2>5, HalfIsNotWhole
  <2>7. Head(received) = Reply(msg) /\ Tail(received) = <<>>
    BY <2>6
  <2> QED
    BY <1>0, <1>1, <2>3, <2>6, <2>7 DEF Silent, PairedTo
<1> QED
  BY <1>0, <1>2, <1>3 DEF PairInv

LEMMA PairEchoHandle == CliTypeOK /\ HandshakeInv /\ PairInv /\ EchoHandle => PairInv'
<1> SUFFICES ASSUME CliTypeOK, HandshakeInv, PairInv, EchoHandle PROVE PairInv'
    OBVIOUS
<1>0. /\ UNCHANGED <<at, got, msg, ok, link, received>>
      /\ atEcho # <<>> /\ at # "passed"
      /\ atEcho' = Tail(atEcho) /\ down' = down \o Reply(Head(atEcho))
  BY DEF EchoHandle, Alive, dialVars
<1>1. ASSUME at = "reply", ok, AllWhole PROVE Outstanding(msg)'
  <2>1. atEcho = <<msg>> /\ down = <<>> /\ received = <<>>
    BY <1>0, <1>1 DEF PairInv, Outstanding, Silent
  <2>2. atEcho' = <<>> /\ down' = Reply(msg)
    BY <1>0, <2>1 DEF Reply
  <2> QED
    BY <1>0, <2>1, <2>2 DEF Outstanding, Reply
<1>2. ~(at = "send" /\ ok /\ AllWhole)
  BY <1>0 DEF PairInv, Silent
<1> QED
  BY <1>0, <1>1, <1>2 DEF PairInv, AllWhole, PairedTo

LEMMA PairDelivers == CliTypeOK /\ PairInv /\ Delivers => PairInv'
<1> SUFFICES ASSUME CliTypeOK, PairInv, Delivers PROVE PairInv'
    OBVIOUS
<1>0. /\ UNCHANGED <<at, got, msg, ok, link, atEcho>> /\ at # "passed"
  BY DEF Delivers, CanReceive, Alive, dialVars
<1>1. PICK n \in 1..Len(down) : /\ received' = Append(received, SubSeq(down, 1, n))
                                /\ down' = SubSeq(down, n + 1, Len(down))
  BY DEF Delivers
<1>2. down # <<>>
  BY <1>1
<1>3. ASSUME at = "reply", ok, AllWhole PROVE Outstanding(msg)'
  <2>1. atEcho = <<>> /\ \/ down = Reply(msg) /\ received = <<>>
                         \/ down = <<2 * msg>> /\ received = <<<<2 * msg - 1>>>>
    BY <1>2, <1>3 DEF PairInv, Outstanding, Silent
  <2>2. CASE down = Reply(msg) /\ received = <<>>
    <3>1. Len(down) = 2 /\ n \in 1..2
      BY <1>1, <2>2 DEF Reply
    <3>2. \/ SubSeq(down, 1, n) = <<2 * msg - 1>> /\ down' = <<2 * msg>>
          \/ SubSeq(down, 1, n) = Reply(msg) /\ down' = <<>>
      BY <1>1, <2>2, <3>1, Deliveries DEF Reply
    <3>3. received' = <<SubSeq(down, 1, n)>>
      BY <1>1, <2>2
    <3> QED
      BY <1>0, <2>1, <3>2, <3>3 DEF Outstanding
  <2>3. CASE down = <<2 * msg>> /\ received = <<<<2 * msg - 1>>>>
    <3>1. Len(down) = 1 /\ n \in 1..1
      BY <1>1, <2>3
    <3>2. SubSeq(down, 1, n) = <<2 * msg>> /\ down' = <<>>
      BY <1>1, <2>3, <3>1, LastDelivery
    <3>3. received' = Append(<<<<2 * msg - 1>>>>, <<2 * msg>>)
      BY <1>1, <2>3, <3>2
    <3>4. received' = <<<<2 * msg - 1>>, <<2 * msg>>>>
      BY <3>3, AppendTwo
    <3> QED
      BY <1>0, <2>1, <3>2, <3>4 DEF Outstanding
  <2> QED
    BY <2>1, <2>2, <2>3
<1>4. ~(at = "send" /\ ok /\ AllWhole)
  BY <1>2 DEF PairInv, Silent
<1> QED
  BY <1>0, <1>3, <1>4 DEF PairInv, AllWhole, PairedTo

LEMMA CliPair ==
    CliTypeOK /\ TryInv /\ HandshakeInv /\ PairInv /\ (CliStep \/ FarStep) => PairInv'
<1> SUFFICES ASSUME CliTypeOK, HandshakeInv, PairInv, CliStep \/ FarStep PROVE PairInv'
    OBVIOUS
<1>1. CASE SendService \/ AckTimeout
  BY <1>1, PairStays DEF SendService, AckTimeout, Goes, Fatal, talkVars
<1>2. CASE TakeAck
  <2>1. CASE at' = "exit"
    BY <1>2, <2>1, PairStays DEF TakeAck
  <2>2. CASE at' = "send"
    <3>1. received \in {<<Ok>>, <<Err>>} /\ atEcho = <<>> /\ down = <<>> /\ msg = 0
      BY <1>2 DEF TakeAck, HandshakeInv
    <3>2. /\ received' = <<>> /\ atEcho' = <<>> /\ down' = <<>> /\ msg' = 0
          /\ got' = got /\ ok' = ok
      BY <1>2, <3>1 DEF TakeAck
    <3>3. Silent' /\ PairedTo(0)' /\ \A m \in Msg : got'[m] = <<>>
      BY <1>2, <3>1, <3>2 DEF Silent, PairedTo, PairInv, TakeAck, Msg
    <3> QED
      BY <2>2, <3>2, <3>3 DEF PairInv
  <2> QED
    BY <1>2, <2>1, <2>2 DEF TakeAck, Goes, Fatal
<1>3. CASE SendMsg
  BY <1>3, PairSendMsg
<1>4. CASE TakeReply
  BY <1>4, PairTakeReply
<1>5. CASE ReplyTimeout
  BY <1>5 DEF ReplyTimeout, Goes, PairInv
<1>6. CASE Finish
  <2>1. /\ at = "send" /\ msg = MaxMsgs /\ msg' = msg /\ got' = got /\ ok' = ok
        /\ at' = IF ok THEN "passed" ELSE "exit"
    BY <1>6 DEF Finish, talkVars
  <2>2. AllWhole' = AllWhole /\ PairedTo(MaxMsgs)' = PairedTo(MaxMsgs)
    BY <2>1 DEF AllWhole, PairedTo
  <2> QED
    BY <2>1, <2>2 DEF PairInv
<1>7. CASE FarAnswers
  <2>1. at \notin {"send", "reply", "passed"} /\ at' = at
    BY <1>7 DEF FarAnswers, HandshakeInv, dialVars
  <2> QED
    BY <1>7, <2>1, PairStays DEF FarAnswers
<1>8. CASE EchoHandle
  BY <1>8, PairEchoHandle
<1>9. CASE Delivers
  BY <1>9, PairDelivers
<1>10. CASE LinkLost \/ LinkCloses
  <2>1. /\ UNCHANGED <<at, got, msg, ok, atEcho, down, received>>
        /\ link' # "up"
    BY <1>10 DEF LinkLost, LinkCloses, dialVars
  <2> QED
    BY <2>1 DEF PairInv, AllWhole, Silent, Outstanding, PairedTo
<1> QED
  BY <1>1, <1>2, <1>3, <1>4, <1>5, <1>6, <1>7, <1>8, <1>9, <1>10 DEF CliStep, FarStep

------------------------------------------------------------------------------
(* The theorems. *)

\* The inductive invariant: types, the tries, the handshake and the pairing of
\* messages and replies.
THEOREM Invariance == Spec => []IInv
<1>1. Init => IInv
  BY InitType, InitTry, InitHandshake, InitPair DEF IInv
<1>2. IInv /\ [Next]_cliVars => IInv'
  <2> SUFFICES ASSUME IInv, [Next]_cliVars PROVE IInv'
      OBVIOUS
  <2>0. TypeOK /\ CliTypeOK /\ TryInv /\ HandshakeInv /\ PairInv
    BY DEF IInv, CliTypeOK
  <2>1. CASE DialNext /\ UNCHANGED talkVars
    BY <2>0, <2>1, DialType, TalkType, DialTry, DialHandshake, DialPair DEF IInv
  <2>2. CASE CliStep \/ FarStep
    BY <2>0, <2>2, CliDialType, CliType, CliTry, CliHandshake, CliPair DEF IInv
  <2>3. CASE UNCHANGED cliVars
    <3>1. TypeOK'
      BY <2>0, <2>3 DEF TypeOK, cliVars, dialVars, offerVars
    <3>2. CliTypeOK'
      BY <2>0, <2>3, <3>1, TalkType DEF cliVars
    <3>3. TryInv'
      BY <2>0, <2>3 DEF TryInv, cliVars, dialVars
    <3>4. HandshakeInv'
      BY <2>0, <2>3 DEF HandshakeInv, cliVars, dialVars, talkVars
    <3>5. PairInv'
      BY <2>0, <2>3, PairStays DEF cliVars, dialVars, talkVars
    <3> QED
      BY <3>2, <3>3, <3>4, <3>5 DEF IInv
  <2> QED
    BY <2>1, <2>2, <2>3 DEF Next
<1> QED
  BY <1>1, <1>2, PTL DEF Spec

\* dial never holds two live connections at once: the first try is closed before the
\* second begins.
THEOREM OnePeer == Spec => []OneLivePeer
<1>1. IInv => OneLivePeer
  BY TryIsOneLive DEF IInv, CliTypeOK
<1> QED
  BY <1>1, Invariance, PTL

\* When cli-client passes and took only whole lines, it took each message's own reply.
THEOREM PassMeansPaired == Spec => []PassIsPaired
<1>1. IInv => PassIsPaired
  <2> SUFFICES ASSUME IInv, at = "passed", AllWhole
               PROVE  \A m \in Msg : got[m] = Reply(m)
      BY DEF PassIsPaired, AllWhole
  <2>1. PairedTo(MaxMsgs)
    BY DEF IInv, PairInv
  <2> QED
    BY <2>1, MessagesAssumption DEF PairedTo, Msg
<1> QED
  BY <1>1, Invariance, PTL

\* Through the coordinator cli-client passes only with a connect command for a service.
THEOREM PassMeansConnect == Spec => []PassNeedsConnect
<1>1. IInv => PassNeedsConnect
  BY DEF IInv, HandshakeInv, PassNeedsConnect
<1> QED
  BY <1>1, Invariance, PTL
==============================================================================
