---------------------------- MODULE ChannelProofs ----------------------------
(***************************************************************************)
(* Proofs about Channel, for any calls, any capacity of buf and any number   *)
(* of messages and chunks.  What they need of the node is the inductive      *)
(* invariant of DataChannel, which ChannelSpec inherits: the library is one   *)
(* of the clients that DataChannel leaves free.                             *)
(***************************************************************************)
EXTENDS Channel, DataChannelProofs

USE DEF callVars, clientVars

------------------------------------------------------------------------------
(* The library is a client of the node. *)

\* A command that is sent, ...
Sends(c, cmd, key, then) ==
  /\ connected = NoKey /\ client = "open" /\ ClientSend
  /\ wire'[Len(wire')] = [n |-> next', cmd |-> cmd, key |-> key]
  /\ listening' = listening \cup {c}
  /\ at' = [at EXCEPT ![c] = then] /\ sent' = [sent EXCEPT ![c] = next']

\* ... or is not: the library is in pipe mode or the channel is closed.
Refused(c) ==
  /\ connected # NoKey \/ client # "open"
  /\ \/ listening' = listening
     \/ client # "open" /\ listening' = listening \cup {c}
  /\ at' = [at EXCEPT ![c] = "failed"]
  /\ UNCHANGED <<vars, sent>>

\* What sendCmd does is one of the two.
LEMMA SendCmdCases ==
  ASSUME NEW c, NEW cmd, NEW key, NEW then, SendCmd(c, cmd, key, then)
  PROVE  Sends(c, cmd, key, then) \/ Refused(c)
  BY DEF SendCmd, Sends, Refused

\* A step of a call sends a message or leaves the node alone.
LEMMA CallAtNode ==
  ASSUME NEW c \in Key, CallStep(c)
  PROVE  ClientSend \/ UNCHANGED vars
  <1>1. ASSUME NEW cmd, NEW key, NEW then, SendCmd(c, cmd, key, then)
        PROVE  ClientSend \/ UNCHANGED vars
    BY <1>1, SendCmdCases DEF Sends, Refused
  <1>2. CASE CallSimple(c) \/ CallConnect(c) \/ Hashed(c) \/ Opens(c)
    BY <1>1, <1>2 DEF CallSimple, CallConnect, Hashed, Opens
  <1>3. CASE CallVerify(c) \/ Timeout(c)
    BY <1>3 DEF CallVerify, Timeout
  <1>4. CASE SimpleReturns(c) \/ ConnectReturns(c) \/ VerifyReturns(c)
    BY <1>4 DEF SimpleReturns, ConnectReturns, VerifyReturns
  <1> QED
    BY <1>2, <1>3, <1>4 DEF CallStep

\* A step elsewhere is one of DataChannel, and no send.
LEMMA ElseAtNode ==
  ASSUME ElseStep
  PROVE  Next /\ UNCHANGED clientVars /\ next' = next
  <1>1. CASE ClientCloses \/ ClientVanishes \/ ClientAcks \/ ServiceSends \/ ServiceEnds
    BY <1>1 DEF ElseStep, Next, ClientCloses, ClientVanishes, ClientAcks, ClientEnds,
                ServiceSends, ServiceEnds
  <1>2. CASE PionStep
    BY <1>2 DEF ElseStep, Next, PionStep, ReadMessage, OnMessage, ReadLoopEnds, OnClose
  <1>3. CASE LoopStep
    BY <1>3 DEF ElseStep, Next, LoopStep, LoopEnds, Plain, Challenge, Verify, Takes,
                ConnectUnknown, Connect, DialFails, DialOk
  <1>4. CASE WriterStep \/ ReaderStep
    BY <1>4 DEF ElseStep, Next, WriterStep, WriteTcp, WriteTcpFails, WriterEnds,
                WriterCleanup, ReaderStep, ReadTcp, ReadTcpEnds, ReaderCleanup, Cleanup
  <1> QED
    BY <1>1, <1>2, <1>3, <1>4 DEF ElseStep

\* Every step of the library and its node is a step of DataChannel or leaves it alone.
LEMMA AtNode ==
  ASSUME [ChannelNext]_<<vars, clientVars>>
  PROVE  [Next]_vars
  <1>1. ASSUME NEW c \in Key, CallStep(c) PROVE [Next]_vars
    BY <1>1, CallAtNode DEF Next
  <1>2. CASE Event
    BY <1>2 DEF Event
  <1>3. CASE ElseStep
    BY <1>3, ElseAtNode
  <1>4. CASE UNCHANGED <<vars, clientVars>>
    BY <1>4
  <1> QED
    BY <1>1, <1>2, <1>3, <1>4 DEF ChannelNext

\* The library is a client of DataChannel: all that is proved of the node for every
\* client holds for this one.
THEOREM LibraryIsClient == ChannelSpec => Spec
  <1>1. ChannelInit => Init
    BY DEF ChannelInit
  <1>2. [ChannelNext]_<<vars, clientVars>> => [Next]_vars
    BY AtNode
  <1> QED
    BY <1>1, <1>2, PTL DEF ChannelSpec, Spec

------------------------------------------------------------------------------
(* What a step does to the calls. *)

\* NoAnswer is not a reply; an answer that is at hand is one.
LEMMA AnswerFacts ==
  /\ NoAnswer \notin Replies /\ NoAnswer.type = "none"
  /\ \A m \in Replies : m.type \in {"text", "response", "proof", "ok", "data"}
  BY DEF NoAnswer, Reply, Replies

\* The types of the calls are kept by a step of a call, ...
LEMMA CallTypes ==
  ASSUME TypeOK, TypeOK', ClientTypeOK, NEW c \in Key, CallStep(c)
  PROVE  ClientTypeOK'
  <1> USE DEF ClientTypeOK, Active
  <1>1. down' = down /\ next' \in Nat
    BY CallAtNode DEF ClientSend, TypeOK, ChanTypes, vars
  <1>2. got \in 0..Len(down')
    BY <1>1
  <1>3. ASSUME NEW cmd, NEW key, NEW then \in {"waiting", "opened"},
               SendCmd(c, cmd, key, then)
        PROVE  /\ at' \in [Key -> {"idle", "ok", "failed"} \cup Active]
               /\ listening' \subseteq Key
               /\ sent' \in [Key -> Nat]
    BY <1>1, <1>3, SendCmdCases DEF Sends, Refused
  <1>4. ASSUME NEW m \in {"simple", "verify", "connect"}, Calls(c, m)
        PROVE  /\ method' \in [Key -> {"none", "simple", "verify", "connect"}]
               /\ rSeen' \in [Key -> Nat]
               /\ answer' \in [Key -> Replies \cup {NoAnswer}]
               /\ got' = got /\ connected' \in Key \cup {NoKey}
               /\ overlap' \in BOOLEAN /\ late' \in BOOLEAN
    <2>1. (overlap \/ \E d \in Key : at[d] \in Active) \in BOOLEAN
      OBVIOUS
    <2> QED
      BY <1>4, <2>1 DEF Calls
  <1>5. ASSUME NEW m, NEW where, Resumes(c, m, where)
        PROVE  /\ method' \in [Key -> {"none", "simple", "verify", "connect"}]
               /\ answer' \in [Key -> Replies \cup {NoAnswer}]
               /\ got' = got /\ overlap' \in BOOLEAN /\ late' \in BOOLEAN
    BY <1>5 DEF Resumes
  <1>6. CASE CallSimple(c)
    BY <1>2, <1>3, <1>4, <1>6 DEF CallSimple
  <1>7. CASE CallConnect(c)
    BY <1>2, <1>3, <1>4, <1>7 DEF CallConnect
  <1>8. CASE CallVerify(c)
    BY <1>2, <1>4, <1>8 DEF CallVerify
  <1>9. CASE Hashed(c)
    BY <1>2, <1>3, <1>9 DEF Hashed
  <1>10. CASE Timeout(c)
    BY <1>2, <1>10 DEF Timeout
  <1>11. CASE SimpleReturns(c) \/ VerifyReturns(c)
    BY <1>2, <1>5, <1>11 DEF SimpleReturns, VerifyReturns
  <1>12. CASE ConnectReturns(c)
    BY <1>2, <1>5, <1>12 DEF ConnectReturns
  <1>13. CASE Opens(c)
    <2>1. answer[c].type = "response" => answer[c].r \in Nat
      BY AnswerFacts, ReplyFacts
    <2>2. rSeen' \in [Key -> Nat]
      BY <1>13, <2>1 DEF Opens
    <2>3. /\ at' \in [Key -> {"idle", "ok", "failed"} \cup Active]
          /\ listening' \subseteq Key
          /\ sent' \in [Key -> Nat]
      BY <1>3, <1>13 DEF Opens
    <2> QED
      BY <1>2, <1>5, <1>13, <2>2, <2>3 DEF Opens
  <1> QED
    BY <1>6, <1>7, <1>8, <1>9, <1>10, <1>11, <1>12, <1>13 DEF CallStep

\* The node's down only grows, a connection leaves its trace, and what has ended stays so.
LEMMA NodeFrame ==
  ASSUME IInv, [Next]_vars
  PROVE  /\ Len(down) \in Nat /\ Len(down') \in Nat /\ Len(down) <= Len(down')
         /\ \A i \in 1..Len(down) : i \in 1..Len(down') /\ down'[i] = down[i]
         /\ conn # "none" => conn' # "none"
         /\ pc = "gone" => pc' = "gone"
         /\ client' = "open" => client = "open"
         /\ Taken \in Nat /\ Taken' \in Nat /\ Taken <= Taken'
  <1> USE DEF IInv, vars, chanVars, loopVars, tcpVars
  <1>0. TypeOK'
    BY IInvStep
  <1>1. conn # "none" => conn' # "none"
    BY OkSteps
  <1>2. down' = down \/ \E m \in Replies : Sent(m)
    BY OkSteps, ReplyFacts
  <1>3. Len(down) \in Nat /\ Len(down') \in Nat
    BY <1>0, LenProperties DEF TypeOK, LoopTypes
  <1>4. Len(down) <= Len(down') /\ \A i \in 1..Len(down) : down'[i] = down[i]
    <2>1. CASE down' = down
      BY <1>3, <2>1
    <2>2. CASE \E m \in Replies : Sent(m)
      BY <1>3, <2>2, SentFacts
    <2> QED
      BY <1>2, <2>1, <2>2
  <1>5. \A i \in 1..Len(down) : i \in 1..Len(down')
    BY <1>3, <1>4
  <1>6. (pc = "gone" => pc' = "gone") /\ (client' = "open" => client = "open")
    <2>1. CASE \/ ClientSend \/ ClientCloses \/ ClientVanishes \/ ClientAcks
               \/ ServiceSends \/ ServiceEnds \/ UNCHANGED vars
      BY <2>1 DEF ClientSend, ClientCloses, ClientVanishes, ClientAcks, ClientEnds,
                  ServiceSends, ServiceEnds
    <2>2. CASE PionStep
      BY <2>2 DEF PionStep, ReadMessage, OnMessage, ReadLoopEnds, OnClose
    <2>3. CASE LoopStep
      BY <2>3 DEF LoopStep, LoopEnds, Plain, Challenge, Verify, Takes, ConnectUnknown,
                  Connect, DialFails, DialOk
    <2>4. CASE WriterStep \/ ReaderStep
      BY <2>4 DEF WriterStep, WriteTcp, WriteTcpFails, WriterEnds, WriterCleanup,
                  ReaderStep, ReadTcp, ReadTcpEnds, ReaderCleanup, Cleanup
    <2> QED
      BY <2>1, <2>2, <2>3, <2>4 DEF Next
  <1>7. Taken \in Nat /\ Taken' \in Nat /\ Taken <= Taken'
    <2>1. Taken \in Nat /\ Taken' \in {Taken, Taken + 1}
      BY <1>0, TakenStep
    <2> QED
      BY <2>1
  <1> QED
    BY <1>1, <1>3, <1>4, <1>5, <1>6, <1>7

\* ... and by every other step.
LEMMA ClientTypesStep ==
  ASSUME IInv, ClientTypeOK, [ChannelNext]_<<vars, clientVars>>
  PROVE  ClientTypeOK'
  <1>1. [Next]_vars /\ TypeOK /\ TypeOK'
    BY AtNode, IInvStep DEF IInv
  <1>2. ASSUME NEW c \in Key, CallStep(c) PROVE ClientTypeOK'
    BY <1>1, <1>2, CallTypes
  <1>3. CASE Event
    <2>1. got' = got + 1 /\ got' \in 1..Len(down) /\ down' = down
      <3>1. got' = got + 1 /\ got < Len(down) /\ down' = down
        BY <1>3 DEF Event, vars
      <3>2. Len(down) \in Nat
        BY <1>1, LenProperties DEF TypeOK, LoopTypes
      <3> QED
        BY <3>1, <3>2 DEF ClientTypeOK
    <2>2. down[got'] \in Replies
      BY <1>1, <2>1, ElementOfSeq DEF TypeOK, LoopTypes
    <2>3. answer' \in [Key -> Replies \cup {NoAnswer}]
      BY <1>3, <2>2 DEF Event
    <2>4. got' \in 0..Len(down')
      BY <2>1
    <2> QED
      BY <1>3, <2>3, <2>4 DEF Event, ClientTypeOK
  <1>4. CASE ElseStep \/ UNCHANGED <<vars, clientVars>>
    <2>1. UNCHANGED clientVars
      BY <1>4, ElseAtNode
    <2>2. got' \in 0..Len(down')
      BY <1>1, <2>1, NodeFrame DEF ClientTypeOK
    <2> QED
      BY <2>1, <2>2 DEF ClientTypeOK
  <1> QED
    BY <1>2, <1>3, <1>4 DEF ChannelNext

\* A call sends a command: its first, a challenge or the opening of one.
Asks(c) ==
  /\ connected = NoKey /\ client = "open" /\ ClientSend
  /\ UNCHANGED <<connected, late, got>>
  /\ c \in listening' /\ answer'[c] = NoAnswer /\ sent'[c] = next'
  /\ [cmd |-> wire'[Len(wire')].cmd, key |-> wire'[Len(wire')].key] \in CommandOf(c)'
  /\ \/ /\ at[c] = "idle" /\ at'[c] = "waiting"
        /\ method'[c] \in {"simple", "connect"}
        /\ ~overlap' => ~overlap /\ \A d \in Key : at[d] \notin Active
     \/ /\ at[c] = "hashing" /\ at'[c] = "waiting"
        /\ method'[c] = "verify" /\ overlap' = overlap
     \/ /\ at[c] = "waiting" /\ at'[c] = "opened"
        /\ method[c] = "verify" /\ method'[c] = "verify" /\ overlap' = overlap
        /\ answer[c].type = "response" /\ rSeen'[c] = answer[c].r

\* A call returns: it has its answer, it is refused, or it is one of verifyIdentity() in
\* pipe mode.
Returns(c) ==
  /\ UNCHANGED <<vars, late, got>>
  /\ at'[c] \in {"ok", "failed"} /\ answer'[c] = NoAnswer /\ method'[c] # "none"
  /\ sent'[c] = sent[c]
  /\ ~overlap' => ~overlap
  /\ c \in listening' => c \in listening \/ client # "open"
  /\ \/ at[c] \in {"idle", "hashing"} /\ at'[c] = "failed"
     \/ at[c] \in {"waiting", "opened"} /\ answer[c] # NoAnswer
  /\ at[c] \in {"idle", "hashing"} => connected # NoKey \/ client # "open"
  /\ at[c] # "idle" => method'[c] = method[c]
  /\ \/ connected' = connected
     \/ /\ connected' = c
        /\ at[c] = "waiting" /\ method[c] = "connect" /\ answer[c].type = "ok"
  /\ at[c] = "waiting" /\ method[c] = "connect" =>
        connected' = c \/ (connected' = connected /\ answer[c].type # "ok")
  /\ method'[c] = "verify" /\ at'[c] = "failed" =>
        \/ connected # NoKey \/ client # "open"
        \/ at[c] = "waiting" /\ answer[c].type # "response"
        \/ at[c] = "opened" /\ answer[c] # Reply("proof", rSeen[c], c)
  /\ method'[c] = "verify" /\ at'[c] = "ok" =>
        /\ at[c] = "opened" /\ answer[c] = Reply("proof", rSeen[c], c)
        /\ rSeen'[c] = rSeen[c]

\* A verifyIdentity() starts to hash.
Hashes(c) ==
  /\ UNCHANGED <<vars, late, got, connected, listening, sent, answer>>
  /\ at[c] = "idle" /\ at'[c] = "hashing" /\ method'[c] = "verify"
  /\ ~overlap' => ~overlap /\ \A d \in Key : at[d] \notin Active

\* Nothing happens to the other calls.
OthersStay(c) ==
  \A d \in Key \ {c} :
     /\ at'[d] = at[d] /\ method'[d] = method[d] /\ sent'[d] = sent[d]
     /\ rSeen'[d] = rSeen[d] /\ answer'[d] = answer[d]
     /\ d \in listening' <=> d \in listening

\* A step of a call happens to that call only.
LEMMA OneCall ==
  ASSUME ClientTypeOK, NEW c \in Key, CallStep(c)
  PROVE  OthersStay(c)
  <1> USE DEF OthersStay, ClientTypeOK
  <1>1. ASSUME NEW cmd, NEW key, NEW then, SendCmd(c, cmd, key, then)
        PROVE  \A d \in Key \ {c} :
                  at'[d] = at[d] /\ sent'[d] = sent[d] /\ (d \in listening' <=> d \in listening)
    BY <1>1, SendCmdCases DEF Sends, Refused
  <1>2. ASSUME NEW m, Calls(c, m)
        PROVE  \A d \in Key \ {c} :
                  method'[d] = method[d] /\ rSeen'[d] = rSeen[d] /\ answer'[d] = answer[d]
    BY <1>2 DEF Calls
  <1>3. ASSUME NEW m, NEW where, Resumes(c, m, where)
        PROVE  \A d \in Key \ {c} : method'[d] = method[d] /\ answer'[d] = answer[d]
    BY <1>3 DEF Resumes
  <1>4. CASE CallSimple(c)
    BY <1>1, <1>2, <1>4 DEF CallSimple
  <1>5. CASE CallConnect(c)
    BY <1>1, <1>2, <1>5 DEF CallConnect
  <1>6. CASE CallVerify(c)
    BY <1>2, <1>6 DEF CallVerify
  <1>7. CASE Hashed(c)
    BY <1>1, <1>7 DEF Hashed
  <1>8. CASE Timeout(c)
    BY <1>8 DEF Timeout
  <1>9. CASE SimpleReturns(c) \/ VerifyReturns(c)
    BY <1>3, <1>9 DEF SimpleReturns, VerifyReturns
  <1>10. CASE ConnectReturns(c)
    BY <1>3, <1>10 DEF ConnectReturns
  <1>11. CASE Opens(c)
    BY <1>1, <1>3, <1>11 DEF Opens
  <1> QED
    BY <1>4, <1>5, <1>6, <1>7, <1>8, <1>9, <1>10, <1>11 DEF CallStep

\* Calling a method: what it does besides sendCmd.
LEMMA CallsFacts ==
  ASSUME ClientTypeOK, HandlersMatch, NEW c \in Key, NEW m, Calls(c, m)
  PROVE  /\ at[c] = "idle" /\ method'[c] = m /\ answer'[c] = NoAnswer
         /\ UNCHANGED <<got, connected, late, answer>>
         /\ ~overlap' => ~overlap /\ \A d \in Key : at[d] \notin Active
  BY DEF Calls, ClientTypeOK, HandlersMatch, Active

\* A promise goes on: what that does besides the rest of the method.
LEMMA ResumesFacts ==
  ASSUME ClientTypeOK, HandlersMatch, NEW c \in Key, NEW m, NEW where, Resumes(c, m, where),
         m # "none"
  PROVE  /\ method[c] = m /\ method'[c] = m /\ at[c] = where
         /\ answer[c] # NoAnswer /\ answer'[c] = NoAnswer
         /\ UNCHANGED <<got, overlap, late>>
  BY DEF Resumes, ClientTypeOK

\* A step of a call is one of these.
LEMMA CallKinds ==
  ASSUME TypeOK, ClientTypeOK, HandlersMatch, NEW c \in Key, CallStep(c)
  PROVE  Asks(c) \/ Returns(c) \/ Hashes(c) \/ Timeout(c)
  <1>1. ASSUME NEW cmd, NEW key, NEW then, Sends(c, cmd, key, then)
        PROVE  /\ connected = NoKey /\ client = "open" /\ ClientSend
               /\ c \in listening' /\ sent'[c] = next' /\ at'[c] = then
               /\ wire'[Len(wire')].cmd = cmd /\ wire'[Len(wire')].key = key
    BY <1>1 DEF Sends, ClientTypeOK
  <1>2. ASSUME Refused(c)
        PROVE  /\ UNCHANGED vars /\ at'[c] = "failed" /\ sent'[c] = sent[c]
               /\ connected # NoKey \/ client # "open"
               /\ c \in listening' => c \in listening \/ client # "open"
    BY <1>2 DEF Refused, ClientTypeOK
  <1>3. CASE CallSimple(c)
    <2>1. /\ at[c] = "idle" /\ method'[c] = "simple" /\ answer'[c] = NoAnswer
          /\ UNCHANGED <<got, connected, late>>
          /\ ~overlap' => ~overlap /\ \A d \in Key : at[d] \notin Active
      BY <1>3, CallsFacts DEF CallSimple
    <2>2. CASE Sends(c, "plain", NoKey, "waiting")
      <3>1. [cmd |-> wire'[Len(wire')].cmd, key |-> wire'[Len(wire')].key]
            \in CommandOf(c)'
        <4>1. CommandOf(c)' = [cmd : {"plain"}, key : {NoKey}]
          BY <1>1, <2>1, <2>2 DEF CommandOf
        <4> QED
          BY <1>1, <2>2, <4>1
      <3> QED
        BY <1>1, <2>1, <2>2, <3>1 DEF Asks
    <2>3. CASE Refused(c)
      BY <1>2, <2>1, <2>3 DEF Returns
    <2> QED
      BY <1>3, <2>2, <2>3, SendCmdCases DEF CallSimple
  <1>4. CASE CallConnect(c)
    <2>1. /\ at[c] = "idle" /\ method'[c] = "connect" /\ answer'[c] = NoAnswer
          /\ UNCHANGED <<got, connected, late>>
          /\ ~overlap' => ~overlap /\ \A d \in Key : at[d] \notin Active
      BY <1>4, CallsFacts DEF CallConnect
    <2>2. ASSUME NEW cmd \in {"connect", "connectUnknown"},
                 Sends(c, cmd, NoKey, "waiting")
          PROVE  Asks(c)
      <3>1. [cmd |-> wire'[Len(wire')].cmd, key |-> wire'[Len(wire')].key]
            \in CommandOf(c)'
        BY <1>1, <2>1, <2>2 DEF CommandOf
      <3> QED
        BY <1>1, <2>1, <2>2, <3>1 DEF Asks
    <2>3. CASE Refused(c)
      BY <1>2, <2>1, <2>3 DEF Returns
    <2> QED
      BY <1>4, <2>2, <2>3, SendCmdCases DEF CallConnect
  <1>5. CASE CallVerify(c)
    <2>1. /\ at[c] = "idle" /\ method'[c] = "verify" /\ answer'[c] = NoAnswer
          /\ UNCHANGED <<got, connected, late, answer>>
          /\ ~overlap' => ~overlap /\ \A d \in Key : at[d] \notin Active
      BY <1>5, CallsFacts DEF CallVerify
    <2>2. UNCHANGED <<vars, listening, sent>>
          /\ at'[c] = IF connected # NoKey THEN "failed" ELSE "hashing"
      BY <1>5 DEF CallVerify, ClientTypeOK
    <2> QED
      BY <2>1, <2>2 DEF Returns, Hashes
  <1>6. CASE Hashed(c)
    <2>1. /\ at[c] = "hashing" /\ method[c] = "verify" /\ method'[c] = "verify"
          /\ answer'[c] = NoAnswer /\ UNCHANGED <<got, connected, late, overlap>>
      BY <1>6 DEF Hashed, HandlersMatch
    <2>2. CASE Sends(c, "challenge", c, "waiting")
      <3>1. [cmd |-> wire'[Len(wire')].cmd, key |-> wire'[Len(wire')].key]
            \in CommandOf(c)'
        BY <1>1, <2>1, <2>2 DEF CommandOf
      <3> QED
        BY <1>1, <2>1, <2>2, <3>1 DEF Asks
    <2>3. CASE Refused(c)
      BY <1>2, <2>1, <2>3 DEF Returns
    <2> QED
      BY <1>6, <2>2, <2>3, SendCmdCases DEF Hashed
  <1>7. CASE SimpleReturns(c)
    <2>1. /\ method[c] = "simple" /\ method'[c] = "simple" /\ at[c] = "waiting"
          /\ answer[c] # NoAnswer /\ answer'[c] = NoAnswer
          /\ UNCHANGED <<got, overlap, late>>
      BY <1>7, ResumesFacts DEF SimpleReturns
    <2>2. at'[c] \in {"ok", "failed"} /\ UNCHANGED <<vars, listening, sent, connected>>
      BY <1>7 DEF SimpleReturns, ClientTypeOK
    <2> QED
      BY <2>1, <2>2 DEF Returns
  <1>8. CASE ConnectReturns(c)
    <2>1. /\ method[c] = "connect" /\ method'[c] = "connect" /\ at[c] = "waiting"
          /\ answer[c] # NoAnswer /\ answer'[c] = NoAnswer
          /\ UNCHANGED <<got, overlap, late>>
      BY <1>8, ResumesFacts DEF ConnectReturns
    <2>2. /\ at'[c] \in {"ok", "failed"} /\ UNCHANGED <<vars, listening, sent>>
          /\ \/ connected' = c /\ answer[c].type = "ok"
             \/ connected' = connected /\ answer[c].type # "ok"
      BY <1>8 DEF ConnectReturns, ClientTypeOK
    <2> QED
      BY <2>1, <2>2 DEF Returns
  <1>9. CASE Opens(c)
    <2>1. /\ method[c] = "verify" /\ method'[c] = "verify" /\ at[c] = "waiting"
          /\ answer[c] # NoAnswer /\ answer'[c] = NoAnswer
          /\ UNCHANGED <<got, overlap, late, connected>>
      BY <1>9, ResumesFacts DEF Opens
    <2>2. CASE answer[c].type = "response" /\ Sends(c, "verify", c, "opened")
      <3>1. [cmd |-> wire'[Len(wire')].cmd, key |-> wire'[Len(wire')].key]
            \in CommandOf(c)'
        <4>1. CommandOf(c)' = [cmd : {"verify"}, key : {c}]
          BY <1>1, <2>1, <2>2 DEF CommandOf
        <4> QED
          BY <1>1, <2>2, <4>1
      <3>2. rSeen'[c] = answer[c].r
        BY <1>9, <2>2 DEF Opens, ClientTypeOK
      <3> QED
        BY <1>1, <2>1, <2>2, <3>1, <3>2 DEF Asks
    <2>3. CASE Refused(c)
      BY <1>2, <2>1, <2>3 DEF Returns
    <2>4. CASE answer[c].type # "response"
      <3>1. at'[c] = "failed" /\ UNCHANGED <<vars, listening, sent>>
        BY <1>9, <2>4 DEF Opens, ClientTypeOK
      <3> QED
        BY <2>1, <2>4, <3>1 DEF Returns
    <2> QED
      BY <1>9, <2>2, <2>3, <2>4, SendCmdCases DEF Opens
  <1>10. CASE VerifyReturns(c)
    <2>1. /\ method[c] = "verify" /\ method'[c] = "verify" /\ at[c] = "opened"
          /\ answer[c] # NoAnswer /\ answer'[c] = NoAnswer
          /\ UNCHANGED <<got, overlap, late>>
      BY <1>10, ResumesFacts DEF VerifyReturns
    <2>2. /\ at'[c] = IF answer[c] = Reply("proof", rSeen[c], c) THEN "ok" ELSE "failed"
          /\ UNCHANGED <<vars, listening, sent, rSeen, connected>>
      BY <1>10 DEF VerifyReturns, ClientTypeOK
    <2> QED
      BY <2>1, <2>2 DEF Returns
  <1> QED
    BY <1>3, <1>4, <1>5, <1>6, <1>7, <1>8, <1>9, <1>10 DEF CallStep

------------------------------------------------------------------------------
(* Handlers and answers, whatever the application does. *)

\* What a message event does.
LEMMA EventFacts ==
  ASSUME IInv, ClientTypeOK, Event
  PROVE  /\ UNCHANGED vars /\ UNCHANGED <<method, at, sent, rSeen, connected, overlap, late>>
         /\ client = "open" /\ \A c \in Key : answer[c] = NoAnswer
         /\ got' = got + 1 /\ got' \in 1..Len(down) /\ got \in Nat
         /\ listening' = {}
         /\ down[got'] \in Replies /\ down[got'] # NoAnswer
         /\ \A c \in Key : answer'[c] = IF c \in listening THEN down[got'] ELSE NoAnswer
  <1>1. Len(down) \in Nat
    BY LenProperties DEF IInv, TypeOK, LoopTypes
  <1>2. got' = got + 1 /\ got' \in 1..Len(down) /\ got \in Nat
    BY <1>1 DEF Event, ClientTypeOK
  <1>3. down[got'] \in Replies
    BY <1>2, ElementOfSeq DEF IInv, TypeOK, LoopTypes
  <1>4. down[got'] # NoAnswer
    BY <1>3, AnswerFacts
  <1>5. \A c \in Key : answer'[c] = IF c \in listening THEN down[got'] ELSE NoAnswer
    BY DEF Event
  <1> QED
    BY <1>2, <1>3, <1>4, <1>5 DEF Event, Quiet

\* What a time-out does.
LEMMA TimeoutFacts ==
  ASSUME ClientTypeOK, NEW c \in Key, Timeout(c)
  PROVE  /\ UNCHANGED vars /\ UNCHANGED <<method, sent, rSeen, answer, got, connected, overlap>>
         /\ c \in listening /\ c \notin listening'
         /\ answer[c] = NoAnswer
         /\ \/ at[c] \in Active /\ at'[c] = "failed" /\ late'
            \/ at[c] \notin Active /\ at'[c] = at[c] /\ late' = late
  <1>1. /\ UNCHANGED vars /\ UNCHANGED <<method, sent, rSeen, answer, got, connected, overlap>>
        /\ c \in listening /\ c \notin listening' /\ answer[c] = NoAnswer
    BY DEF Timeout, Quiet
  <1>2. CASE at[c] \in Active
    BY <1>1, <1>2 DEF Timeout, ClientTypeOK
  <1>3. CASE at[c] \notin Active
    BY <1>1, <1>3 DEF Timeout
  <1> QED
    BY <1>2, <1>3

\* A step of a call leaves its handler matched with its promise, ...
LEMMA CallHandlers ==
  ASSUME TypeOK, ClientTypeOK, HandlersMatch, NoStrayHandler, NEW c \in Key, CallStep(c)
  PROVE  /\ method'[c] = "none" <=> at'[c] = "idle"
         /\ at'[c] \in {"hashing", "opened"} => method'[c] = "verify"
         /\ at'[c] \in {"waiting", "opened"} => (c \in listening' <=> answer'[c] = NoAnswer)
         /\ answer'[c] # NoAnswer => at'[c] \in {"waiting", "opened"}
         /\ client' = "open" /\ c \in listening' => at'[c] \in {"waiting", "opened"}
  <1>1. CASE Asks(c)
    BY <1>1 DEF Asks, HandlersMatch
  <1>2. CASE Returns(c)
    <2>1. /\ at'[c] \in {"ok", "failed"} /\ answer'[c] = NoAnswer /\ method'[c] # "none"
          /\ client' = client
      BY <1>2 DEF Returns, vars
    <2>2. client = "open" => c \notin listening'
      BY <1>2 DEF Returns, HandlersMatch, NoStrayHandler
    <2> QED
      BY <2>1, <2>2
  <1>3. CASE Hashes(c)
    <2>1. at[c] = "idle" /\ at'[c] = "hashing" /\ method'[c] = "verify" /\ answer'[c] = answer[c]
          /\ listening' = listening /\ client' = client
      BY <1>3 DEF Hashes, vars
    <2> QED
      BY <2>1 DEF HandlersMatch, NoStrayHandler
  <1>4. CASE Timeout(c)
    <2>1. /\ method'[c] = method[c] /\ answer'[c] = NoAnswer /\ c \notin listening'
          /\ \/ at[c] \in Active /\ at'[c] = "failed"
             \/ at[c] \notin Active /\ at'[c] = at[c]
      BY <1>4, TimeoutFacts
    <2> QED
      BY <2>1 DEF HandlersMatch, Active
  <1> QED
    BY <1>1, <1>2, <1>3, <1>4, CallKinds

\* ... and so does every step, for every call.
LEMMA HandlersStep ==
  ASSUME IInv, ClientTypeOK, HandlersMatch, NoStrayHandler,
         [ChannelNext]_<<vars, clientVars>>
  PROVE  HandlersMatch' /\ NoStrayHandler'
  <1>0. client' = "open" => client = "open"
    BY AtNode, NodeFrame
  <1>1. ASSUME NEW c \in Key, CallStep(c) PROVE HandlersMatch' /\ NoStrayHandler'
    <2>1. OthersStay(c)
      BY <1>1, OneCall
    <2>2. listening' \subseteq Key
      BY <1>1, ClientTypesStep DEF ClientTypeOK
    <2>3. /\ method'[c] = "none" <=> at'[c] = "idle"
          /\ at'[c] \in {"hashing", "opened"} => method'[c] = "verify"
          /\ at'[c] \in {"waiting", "opened"} => (c \in listening' <=> answer'[c] = NoAnswer)
          /\ answer'[c] # NoAnswer => at'[c] \in {"waiting", "opened"}
          /\ client' = "open" /\ c \in listening' => at'[c] \in {"waiting", "opened"}
      BY <1>1, CallHandlers DEF IInv
    <2>4. ASSUME NEW d \in Key \ {c}
          PROVE  /\ method'[d] = "none" <=> at'[d] = "idle"
                 /\ at'[d] \in {"hashing", "opened"} => method'[d] = "verify"
                 /\ at'[d] \in {"waiting", "opened"} =>
                       (d \in listening' <=> answer'[d] = NoAnswer)
                 /\ answer'[d] # NoAnswer => at'[d] \in {"waiting", "opened"}
                 /\ client' = "open" /\ d \in listening' => at'[d] \in {"waiting", "opened"}
      <3>1. /\ at'[d] = at[d] /\ method'[d] = method[d] /\ answer'[d] = answer[d]
            /\ d \in listening' <=> d \in listening
        BY <2>1 DEF OthersStay
      <3> QED
        BY <1>0, <3>1 DEF HandlersMatch, NoStrayHandler
    <2> QED
      BY <2>2, <2>3, <2>4 DEF HandlersMatch, NoStrayHandler
  <1>2. CASE Event
    <2>1. /\ UNCHANGED <<method, at>> /\ listening' = {} /\ client = "open"
          /\ \A c \in Key : answer[c] = NoAnswer
          /\ down[got'] # NoAnswer
          /\ \A c \in Key : answer'[c] = IF c \in listening THEN down[got'] ELSE NoAnswer
      BY <1>2, EventFacts
    <2> QED
      BY <2>1 DEF HandlersMatch, NoStrayHandler
  <1>3. CASE ElseStep \/ UNCHANGED <<vars, clientVars>>
    <2>1. UNCHANGED clientVars
      BY <1>3, ElseAtNode
    <2> QED
      BY <1>0, <2>1 DEF HandlersMatch, NoStrayHandler
  <1> QED
    BY <1>1, <1>2, <1>3 DEF ChannelNext

\* Every step leaves an answer at hand the last message that was an event.
LEMMA HeardStep ==
  ASSUME IInv, ClientTypeOK, HandlersMatch, AnswersHeard,
         [ChannelNext]_<<vars, clientVars>>
  PROVE  AnswersHeard'
  <1>0. \A i \in 1..Len(down) : down'[i] = down[i]
    BY AtNode, NodeFrame
  <1>1. got > 0 => got \in 1..Len(down)
    BY DEF ClientTypeOK
  <1>2. ASSUME NEW c \in Key, CallStep(c) PROVE AnswersHeard'
    <2>1. OthersStay(c)
      BY <1>2, OneCall
    <2>2. got' = got /\ (answer'[c] # NoAnswer => answer'[c] = answer[c])
      <3>1. CASE Timeout(c)
        BY <3>1, TimeoutFacts
      <3>2. CASE Asks(c) \/ Returns(c) \/ Hashes(c)
        BY <3>2 DEF Asks, Returns, Hashes
      <3> QED
        BY <1>2, <3>1, <3>2, CallKinds DEF IInv
    <2>3. ASSUME NEW d \in Key, answer'[d] # NoAnswer PROVE answer'[d] = answer[d]
      BY <2>1, <2>2, <2>3 DEF OthersStay
    <2> QED
      BY <1>0, <1>1, <2>2, <2>3 DEF AnswersHeard
  <1>3. CASE Event
    <2>1. /\ down' = down /\ got' > 0
          /\ \A c \in Key : answer'[c] # NoAnswer => answer'[c] = down[got']
      BY <1>3, EventFacts DEF vars
    <2> QED
      BY <2>1 DEF AnswersHeard
  <1>4. CASE ElseStep \/ UNCHANGED <<vars, clientVars>>
    <2>1. UNCHANGED clientVars
      BY <1>4, ElseAtNode
    <2> QED
      BY <1>0, <1>1, <2>1 DEF AnswersHeard
  <1> QED
    BY <1>2, <1>3, <1>4 DEF ChannelNext

\* What becomes of the mode: only a connect() that was answered ok changes it.
LEMMA ModeStep ==
  ASSUME IInv, ClientTypeOK, HandlersMatch, [ChannelNext]_<<vars, clientVars>>
  PROVE  \/ connected' = connected
         \/ \E c \in Key : /\ CallStep(c) /\ Returns(c) /\ connected' = c
                           /\ at[c] = "waiting" /\ method[c] = "connect"
                           /\ answer[c].type = "ok" /\ answer[c] # NoAnswer
                           /\ UNCHANGED vars
  <1>1. ASSUME NEW c \in Key, CallStep(c), ~Returns(c) PROVE connected' = connected
    <2>1. CASE Timeout(c)
      BY <2>1, TimeoutFacts
    <2>2. CASE Asks(c) \/ Hashes(c)
      BY <2>2 DEF Asks, Hashes
    <2> QED
      BY <1>1, <2>1, <2>2, CallKinds DEF IInv
  <1>2. ASSUME NEW c \in Key, CallStep(c), Returns(c), connected' # connected
        PROVE  /\ connected' = c
               /\ at[c] = "waiting" /\ method[c] = "connect"
               /\ answer[c].type = "ok" /\ answer[c] # NoAnswer
               /\ UNCHANGED vars
    BY <1>2 DEF Returns
  <1>3. CASE Event
    BY <1>3 DEF Event
  <1>4. CASE ElseStep \/ UNCHANGED <<vars, clientVars>>
    BY <1>4, ElseAtNode
  <1> QED
    BY <1>1, <1>2, <1>3, <1>4 DEF ChannelNext

\* Every step keeps pipe mode to channels that have, or had, a connection.
LEMMA PipeStep ==
  ASSUME IInv, ClientTypeOK, HandlersMatch, AnswersHeard, PipeOpen,
         [ChannelNext]_<<vars, clientVars>>
  PROVE  PipeOpen'
  <1>1. CASE connected' = connected
    BY <1>1, AtNode, NodeFrame DEF PipeOpen
  <1>2. ASSUME NEW c \in Key, answer[c].type = "ok", answer[c] # NoAnswer, UNCHANGED vars
        PROVE  PipeOpen'
    <2>1. got \in 1..Len(down) /\ down[got].type = "ok"
      BY <1>2 DEF AnswersHeard, ClientTypeOK
    <2>2. conn # "none"
      BY <2>1 DEF IInv, RepliesCounted
    <2> QED
      BY <1>2, <2>2 DEF PipeOpen, vars, tcpVars
  <1> QED
    BY <1>1, <1>2, ModeStep

\* Every step keeps identities verified by proofs of the call's own challenge.
LEMMA OwnProofStep ==
  ASSUME IInv, ClientTypeOK, HandlersMatch, AnswersHeard, VerifiedByOwnProof,
         [ChannelNext]_<<vars, clientVars>>
  PROVE  VerifiedByOwnProof'
  <1> DEFINE Own(c) == \E i, j \in 1..got : /\ i < j
                                            /\ down[i] = Reply("response", rSeen[c], c)
                                            /\ down[j] = Reply("proof", rSeen[c], c)
  <1>0. \A i \in 1..Len(down) : down'[i] = down[i]
    BY AtNode, NodeFrame
  <1>1. /\ got \in Nat /\ \A i \in 1..got : i \in 1..Len(down)
    BY LenProperties DEF ClientTypeOK, IInv, TypeOK, LoopTypes
  <1>2. ASSUME NEW c \in Key, Own(c), rSeen'[c] = rSeen[c], got' \in {got, got + 1}
        PROVE  Own(c)'
    <2>1. PICK i \in 1..got, j \in 1..got : /\ i < j
                           /\ down[i] = Reply("response", rSeen[c], c)
                           /\ down[j] = Reply("proof", rSeen[c], c)
      BY <1>2
    <2>2. i \in 1..got' /\ j \in 1..got'
      BY <1>1, <1>2
    <2>3. down'[i] = Reply("response", rSeen'[c], c) /\ down'[j] = Reply("proof", rSeen'[c], c)
      BY <1>0, <1>1, <1>2, <2>1
    <2> QED
      BY <2>1, <2>2, <2>3
  <1>3. ASSUME NEW c \in Key, CallStep(c) PROVE VerifiedByOwnProof'
    <2>1. OthersStay(c)
      BY <1>3, OneCall
    <2>2. got' = got
      <3>1. CASE Timeout(c)
        BY <3>1, TimeoutFacts
      <3>2. CASE Asks(c) \/ Returns(c) \/ Hashes(c)
        BY <3>2 DEF Asks, Returns, Hashes
      <3> QED
        BY <1>3, <3>1, <3>2, CallKinds DEF IInv
    <2>3. ASSUME NEW d \in Key \ {c}, method'[d] = "verify", at'[d] = "ok" PROVE Own(d)'
      <3>1. method[d] = "verify" /\ at[d] = "ok" /\ rSeen'[d] = rSeen[d]
        BY <2>1, <2>3 DEF OthersStay
      <3>2. Own(d)
        BY <3>1 DEF VerifiedByOwnProof
      <3> QED
        BY <1>2, <2>2, <3>1, <3>2
    <2>4. ASSUME method'[c] = "verify", at'[c] = "ok" PROVE Own(c)'
      <3>1. CASE Timeout(c)
        <4>1. method[c] = "verify" /\ at[c] = "ok" /\ rSeen' = rSeen
          BY <2>4, <3>1, TimeoutFacts
        <4>2. Own(c)
          BY <4>1 DEF VerifiedByOwnProof
        <4> QED
          BY <1>2, <2>2, <4>1, <4>2
      <3>2. CASE Returns(c)
        <4>1. /\ answer[c] = Reply("proof", rSeen[c], c) /\ rSeen'[c] = rSeen[c]
              /\ down' = down /\ at[c] = "opened"
          BY <2>4, <3>2 DEF Returns, vars
        <4>2. answer[c] # NoAnswer
          BY <3>2, <4>1 DEF Returns
        <4>3. got \in 1..got /\ down[got] = Reply("proof", rSeen[c], c)
          BY <1>1, <4>1, <4>2 DEF AnswersHeard
        <4>4. down[got].type = "proof"
              /\ [down[got] EXCEPT !.type = "response"] = Reply("response", rSeen[c], c)
          BY <4>3 DEF Reply
        <4>5. PICK i \in 1..(got - 1) : down[i] = [down[got] EXCEPT !.type = "response"]
          BY <1>1, <4>3, <4>4 DEF IInv, SignedOnce
        <4>6. i \in 1..got /\ i < got
          BY <1>1
        <4>7. Own(c)
          BY <4>3, <4>4, <4>5, <4>6
        <4> QED
          BY <1>2, <2>2, <4>1, <4>7
      <3>3. CASE Asks(c) \/ Hashes(c)
        BY <2>4, <3>3 DEF Asks, Hashes
      <3> QED
        BY <1>3, <3>1, <3>2, <3>3, CallKinds DEF IInv
    <2>5. ASSUME NEW d \in Key, method'[d] = "verify", at'[d] = "ok" PROVE Own(d)'
      BY <2>3, <2>4, <2>5
    <2> QED
      BY <2>5 DEF VerifiedByOwnProof
  <1>4. CASE Event
    <2>1. UNCHANGED <<method, at, rSeen>> /\ got' = got + 1
      BY <1>4, EventFacts
    <2>2. ASSUME NEW d \in Key, method'[d] = "verify", at'[d] = "ok" PROVE Own(d)'
      <3>1. Own(d)
        BY <2>1, <2>2 DEF VerifiedByOwnProof
      <3> QED
        BY <1>2, <2>1, <3>1
    <2> QED
      BY <2>2 DEF VerifiedByOwnProof
  <1>5. CASE ElseStep \/ UNCHANGED <<vars, clientVars>>
    <2>1. UNCHANGED clientVars
      BY <1>5, ElseAtNode
    <2>2. ASSUME NEW d \in Key, method'[d] = "verify", at'[d] = "ok" PROVE Own(d)'
      <3>1. Own(d)
        BY <2>1, <2>2 DEF VerifiedByOwnProof
      <3> QED
        BY <1>2, <2>1, <3>1
    <2> QED
      BY <2>2 DEF VerifiedByOwnProof
  <1> QED
    BY <1>3, <1>4, <1>5 DEF ChannelNext

------------------------------------------------------------------------------
(* An application that awaits each call: the queues. *)

\* What has been sent and not taken is queued; when all is taken nothing is.
LEMMA QueueFacts ==
  ASSUME IInv
  PROVE  /\ next \in Nat /\ Taken \in Nat /\ Taken <= next
         /\ Taken = next => Queued = {} /\ wire = <<>>
         /\ buf # <<>> => Taken < next
  <1>1. next \in Nat /\ Len(wire) \in Nat /\ Len(buf) \in Nat /\ Holding \in {0, 1}
    BY QueueLengths DEF IInv
  <1>2. Taken = next - Len(wire) - Holding - Len(buf) /\ Taken >= 0
    BY DEF IInv, Numbered, Taken
  <1>3. Taken \in Nat /\ Taken <= next
    BY <1>1, <1>2
  <1>4. wire \in Seq(Message) /\ buf \in Seq(Message)
    BY DEF IInv, TypeOK, ChanTypes
  <1>5. buf # <<>> => Len(buf) > 0
    BY <1>1, <1>4, EmptySeq
  <1>6. buf # <<>> => Taken < next
    BY <1>1, <1>2, <1>5
  <1>7. ASSUME Taken = next PROVE Queued = {} /\ wire = <<>>
    <2>1. Len(wire) = 0 /\ Len(buf) = 0 /\ Holding = 0
      BY <1>1, <1>2, <1>7
    <2>2. rl # "holding"
      BY <2>1 DEF Holding
    <2>3. \A i \in 1..Len(wire) : FALSE
      BY <2>1
    <2>4. \A i \in 1..Len(buf) : FALSE
      BY <2>1
    <2>5. Queued = {}
      BY <2>2, <2>3, <2>4 DEF Queued
    <2>6. wire = <<>>
      BY <1>4, <2>1, EmptySeq
    <2> QED
      BY <2>5, <2>6
  <1> QED
    BY <1>1, <1>3, <1>6, <1>7

\* A step that is no send queues nothing.
LEMMA QueuedKept ==
  ASSUME IInv, [Next]_vars, next' = next
  PROVE  Queued' \subseteq Queued
  <1> USE DEF Queued
  <1>1. wire \in Seq(Message) /\ buf \in Seq(Message) /\ held \in Message /\ next \in Nat
    BY DEF IInv, TypeOK, ChanTypes
  <1>2. CASE ReadMessage
    <2>1. /\ held' = wire[1] /\ Len(wire) \in Nat \ {0} /\ Len(wire') = Len(wire) - 1
          /\ \A i \in 1..Len(wire) - 1 : wire'[i] = wire[i + 1]
          /\ buf' = buf
      BY <1>1, <1>2, TailFacts DEF ReadMessage
    <2>2. \A i \in 1..Len(wire') : i + 1 \in 1..Len(wire) /\ wire'[i] = wire[i + 1]
      BY <2>1
    <2>3. 1 \in 1..Len(wire)
      BY <2>1
    <2> QED
      BY <2>1, <2>2, <2>3
  <1>3. CASE OnMessage
    <2>1. /\ rl = "holding" /\ rl' # "holding" /\ wire' = wire
          /\ Len(buf') = Len(buf) + 1
          /\ \A i \in 1..Len(buf) + 1 : buf'[i] = IF i = Len(buf) + 1 THEN held ELSE buf[i]
          /\ Len(buf) \in Nat
      BY <1>1, <1>3, AppendFacts DEF OnMessage
    <2>2. \A i \in 1..Len(buf') : \/ buf'[i] = held
                                  \/ i \in 1..Len(buf) /\ buf'[i] = buf[i]
      BY <2>1
    <2> QED
      BY <2>1, <2>2
  <1>4. CASE TakesMessage
    <2>1. /\ UNCHANGED <<wire, rl, held>>
          /\ Len(buf) \in Nat \ {0} /\ Len(buf') = Len(buf) - 1
          /\ \A i \in 1..Len(buf) - 1 : buf'[i] = buf[i + 1]
      BY <1>1, <1>4, TailFacts DEF TakesMessage
    <2>2. \A i \in 1..Len(buf') : i + 1 \in 1..Len(buf) /\ buf'[i] = buf[i + 1]
      BY <2>1
    <2> QED
      BY <2>1, <2>2
  <1>5. CASE LeavesQueues
    BY <1>5 DEF LeavesQueues
  <1>6. ~ClientSend
    BY <1>1 DEF ClientSend
  <1> QED
    BY <1>2, <1>3, <1>4, <1>5, <1>6, QueueSteps

\* When all is taken, what a send queues is all there is.
LEMMA QueuedSent ==
  ASSUME IInv, ClientSend, Taken = next
  PROVE  \A m \in Queued' : m = wire'[Len(wire')]
  <1>1. wire = <<>> /\ Queued = {}
    BY QueueFacts
  <1>2. PICK c \in Command :
           wire' = Append(wire, [n |-> next', cmd |-> c.cmd, key |-> c.key])
    BY DEF ClientSend
  <1>3. next' \in Nat /\ UNCHANGED <<rl, held, buf>>
    BY DEF ClientSend, IInv, TypeOK, ChanTypes
  <1>4. [n |-> next', cmd |-> c.cmd, key |-> c.key] \in Message /\ wire \in Seq(Message)
    BY <1>3, MessageFacts DEF IInv, TypeOK, ChanTypes
  <1>5. Len(wire') = 1
    BY <1>1, <1>2, <1>4, AppendFacts, EmptySeq
  <1>6. \A m \in Queued' : m \in Queued \/ \E i \in 1..Len(wire') : m = wire'[i]
    BY <1>3 DEF Queued
  <1>7. \A i \in 1..Len(wire') : i = Len(wire')
    BY <1>5
  <1> QED
    BY <1>1, <1>6, <1>7

\* When the last message has its reply all is taken, and no dial is under way.
LEMMA AllAnswered ==
  ASSUME IInv, NothingAfterConnect, Orderly, next <= Len(down)
  PROVE  Taken = next /\ pc # "dialing" /\ Queued = {}
  <1>1. /\ next \in Nat /\ Taken \in Nat /\ Taken <= next /\ Len(down) \in Nat
        /\ Len(toTcp) \in Nat /\ connectAt \in Nat
    BY QueueFacts, LenProperties DEF IInv, TypeOK, LoopTypes, TcpTypes
  <1>2. CASE conn = "none"
    <2>1. Len(down) <= Taken - Dialing /\ Dialing \in {0, 1}
      BY <1>2 DEF IInv, RepliesCounted, Dialing
    <2>2. Dialing = 0 /\ Taken = next
      BY <1>1, <2>1
    <2> QED
      BY <2>2, QueueFacts DEF Dialing
  <1>3. CASE conn # "none"
    <2>1. connectAt = next /\ connectAt + Len(toTcp) <= Taken /\ pc = "gone"
      BY <1>3 DEF NothingAfterConnect, IInv, RepliesCounted, BridgeTakesOver
    <2>2. Taken = next
      BY <1>1, <2>1
    <2> QED
      BY <2>1, <2>2, QueueFacts
  <1> QED
    BY <1>2, <1>3

\* A command that is taken is the last one, and that of the one call that waits.
LEMMA TakenCommand ==
  ASSUME ClientIInv, InStep, NEW cmd, Takes(cmd)
  PROVE  /\ \E c \in listening :
               /\ [cmd |-> cmd, key |-> Head(buf).key] \in CommandOf(c)
               /\ at[c] \in {"waiting", "opened"}
               /\ \A d \in Key \ {c} : at[d] \notin Active
         /\ Taken = next - 1 /\ Taken' = next /\ next' = next
         /\ Head(buf).n = next
  <1>1. IInv /\ ~overlap /\ client = "open" /\ Orderly
    BY DEF ClientIInv, InStep, Orderly
  <1>2. buf # <<>> /\ Head(buf).cmd = cmd /\ next' = next
    BY DEF Takes
  <1>3. buf \in Seq(Message)
    BY <1>1 DEF IInv, TypeOK, ChanTypes
  <1>4. 1 \in 1..Len(buf) /\ Head(buf) = buf[1]
    BY <1>2, <1>3, TailFacts
  <1>5. Head(buf) \in Queued
    BY <1>4 DEF Queued
  <1>6. PICK c \in listening :
           [cmd |-> Head(buf).cmd, key |-> Head(buf).key] \in CommandOf(c)
    BY <1>5 DEF ClientIInv, OrderlyInv, Asked
  <1>7. c \in Key /\ at[c] \in {"waiting", "opened"}
    BY <1>1 DEF ClientIInv, ClientTypeOK, NoStrayHandler
  <1>8. \A d \in Key \ {c} : at[d] \notin Active
    BY <1>1, <1>7 DEF ClientIInv, OrderlyInv, OneAtATime, Active
  <1>9. next \in Nat /\ Taken \in Nat /\ Taken < next /\ next <= Taken + 1
    BY <1>1, <1>2, QueueFacts DEF ClientIInv, OrderlyInv, NothingAfterConnect
  <1>10. Taken = next - 1
    BY <1>9
  <1>11. Head(buf).n = Taken + 1
    BY <1>1, <1>4 DEF IInv, Numbered
  <1>12. Taken' = Taken + 1
    <2>1. TypeOK /\ buf' = Tail(buf) /\ UNCHANGED <<next, wire, rl>>
      BY <1>1 DEF Takes, IInv
    <2>2. Len(buf') = Len(buf) - 1
      BY <1>2, <1>3, <2>1, TailFacts
    <2>3. /\ Holding' = Holding /\ Holding \in {0, 1} /\ next \in Nat
          /\ Len(wire) \in Nat /\ Len(buf) \in Nat
      BY <2>1, QueueLengths DEF Holding
    <2>4. Taken' = next - Len(wire) - Holding - (Len(buf) - 1)
      BY <2>1, <2>2, <2>3 DEF Taken
    <2>5. Taken = next - Len(wire) - Holding - Len(buf)
      BY DEF Taken
    <2> QED
      BY ONLY <2>3, <2>4, <2>5
  <1> QED
    BY <1>2, <1>6, <1>7, <1>8, <1>9, <1>10, <1>11, <1>12

------------------------------------------------------------------------------
(* An application that awaits each call: what its steps meet. *)

\* A call is not NoKey, and the type of a call is one of three kinds.
LEMMA NoKeyIsNoCall == \A c \in Key : c # NoKey
  BY ChannelAssumption

\* Disorder is for good, and so is pipe mode.
LEMMA OrderlyBefore ==
  ASSUME ClientIInv, [ChannelNext]_<<vars, clientVars>>
  PROVE  /\ Orderly' => Orderly
         /\ connected' = NoKey => connected = NoKey
         /\ InStep' => InStep
  <1>0. IInv /\ ClientTypeOK /\ HandlersMatch
    BY DEF ClientIInv
  <1>1. Orderly' => Orderly
    <2>1. ASSUME NEW c \in Key, CallStep(c) PROVE Orderly' => Orderly
      <3>1. CASE Timeout(c)
        BY <1>0, <3>1, TimeoutFacts DEF Orderly
      <3>2. CASE Asks(c) \/ Returns(c) \/ Hashes(c)
        BY <3>2 DEF Asks, Returns, Hashes, Orderly
      <3> QED
        BY <1>0, <2>1, <3>1, <3>2, CallKinds DEF IInv
    <2>2. CASE Event
      BY <2>2 DEF Event, Orderly
    <2>3. CASE ElseStep \/ UNCHANGED <<vars, clientVars>>
      BY <2>3, ElseAtNode DEF Orderly
    <2> QED
      BY <2>1, <2>2, <2>3 DEF ChannelNext
  <1>2. connected' = NoKey => connected = NoKey
    BY <1>0, ModeStep, NoKeyIsNoCall
  <1>3. client' = "open" => client = "open"
    BY <1>0, AtNode, NodeFrame
  <1> QED
    BY <1>1, <1>2, <1>3 DEF InStep

\* When no call listens, all has been taken and answered.
LEMMA NoneListening ==
  ASSUME ClientIInv, InStep, listening = {}
  PROVE  /\ got = next /\ Taken = next /\ Queued = {} /\ pc # "dialing"
         /\ conn # "none" => \E c \in Key : method[c] = "connect" /\ at[c] = "waiting"
  <1>1. got = next /\ Orderly
    BY DEF ClientIInv, OrderlyInv, Answered, InStep
  <1>2. next <= Len(down)
    BY <1>1, LenProperties DEF ClientIInv, ClientTypeOK, IInv, TypeOK, LoopTypes
  <1>3. Taken = next /\ Queued = {} /\ pc # "dialing"
    BY <1>1, <1>2, AllAnswered DEF ClientIInv, OrderlyInv
  <1>4. conn # "none" => \E c \in Key : method[c] = "connect" /\ at[c] = "waiting"
    BY DEF ClientIInv, OrderlyInv, ConnectWaits
  <1> QED
    BY <1>1, <1>3, <1>4

\* A call that sends a command is alone: all before it is answered, and nothing dialed.
LEMMA AskFacts ==
  ASSUME ClientIInv, NEW c \in Key, CallStep(c), Asks(c), Orderly'
  PROVE  /\ InStep /\ listening = {}
         /\ \A d \in Key \ {c} : at[d] \notin Active
         /\ got = next /\ Taken = next /\ Queued = {}
         /\ pc # "dialing" /\ conn = "none"
         /\ next' = next + 1 /\ Taken' = Taken
         /\ UNCHANGED <<client, pc, conn, connectAt, down, commitment, rNode>>
  <1> USE DEF ClientIInv
  <1>1. InStep
    BY OrderlyBefore DEF InStep, Asks, ChannelNext
  <1>2. ~overlap
    BY <1>1 DEF InStep, Orderly
  <1>3. \A d \in Key \ {c} : at[d] \notin Active
    <2>1. CASE at[c] = "idle"
      BY <2>1 DEF Asks, Orderly
    <2>2. CASE at[c] \in {"hashing", "waiting"}
      BY <1>2, <2>2 DEF OrderlyInv, OneAtATime, Active
    <2> QED
      BY <2>1, <2>2 DEF Asks
  <1>4. listening = {}
    <2>1. \A d \in listening : d \in Key /\ at[d] \in {"waiting", "opened"}
      BY <1>1 DEF ClientTypeOK, NoStrayHandler, InStep
    <2>2. \A d \in listening : d = c
      BY <1>3, <2>1 DEF Active
    <2>3. at[c] \in {"waiting", "opened"} => answer[c] # NoAnswer
      BY AnswerFacts DEF Asks
    <2>4. c \notin listening
      BY <2>1, <2>3 DEF HandlersMatch
    <2> QED
      BY <2>2, <2>4
  <1>5. got = next /\ Taken = next /\ Queued = {} /\ pc # "dialing"
    BY <1>1, <1>4, NoneListening
  <1>6. conn = "none"
    <2>1. ASSUME NEW d \in Key, method[d] = "connect", at[d] = "waiting" PROVE FALSE
      <3>1. d = c
        BY <1>3, <2>1 DEF Active
      <3> QED
        BY <2>1, <3>1 DEF Asks
    <2> QED
      BY <1>1, <1>4, <2>1, NoneListening
  <1>7. ClientSend
    BY DEF Asks
  <1>8. next' = next + 1
        /\ UNCHANGED <<client, pc, conn, connectAt, down, commitment, rNode>>
    BY <1>7 DEF ClientSend, loopVars, tcpVars
  <1>9. Taken' = Taken
    <2>1. TypeOK /\ TypeOK' /\ Numbered
      BY IInvStep, CallAtNode DEF IInv, Next
    <2> QED
      BY <1>7, <2>1, MoveNumbered
  <1> QED
    BY <1>1, <1>3, <1>4, <1>5, <1>6, <1>8, <1>9

\* A call that returns with an answer in step is alone, and it is the answer to the
\* last command.
LEMMA ReturnFacts ==
  ASSUME ClientIInv, NEW c \in Key, InStep, at[c] \in {"waiting", "opened"},
         answer[c] # NoAnswer
  PROVE  /\ listening = {}
         /\ \A d \in Key \ {c} : at[d] \notin Active
         /\ got = next /\ Taken = next /\ pc # "dialing"
         /\ answer[c] = down[next] /\ next \in 1..Len(down)
  <1> USE DEF ClientIInv
  <1>1. \A d \in Key \ {c} : at[d] \notin Active
    BY DEF OrderlyInv, OneAtATime, Active, InStep, Orderly
  <1>2. listening = {}
    <2>1. \A d \in listening : d \in Key /\ at[d] \in {"waiting", "opened"}
      BY DEF ClientTypeOK, NoStrayHandler, InStep
    <2>2. \A d \in listening : d = c
      BY <1>1, <2>1 DEF Active
    <2>3. c \notin listening
      BY DEF HandlersMatch
    <2> QED
      BY <2>2, <2>3
  <1>3. got = next /\ Taken = next /\ pc # "dialing"
    BY <1>2, NoneListening
  <1>4. answer[c] = down[got] /\ got > 0
    BY DEF AnswersHeard
  <1>5. got \in 1..Len(down)
    BY <1>4, LenProperties DEF ClientTypeOK, IInv, TypeOK, LoopTypes
  <1> QED
    BY <1>1, <1>2, <1>3, <1>4, <1>5

\* A message event in step is the answer to the last command, which a call awaits.
LEMMA EventInStep ==
  ASSUME ClientIInv, Event, InStep
  PROVE  got' = next /\ Taken = next /\ Queued = {}
  <1> USE DEF ClientIInv
  <1>1. /\ \A c \in Key : answer[c] = NoAnswer
        /\ got' = got + 1 /\ got' \in 1..Len(down) /\ got \in Nat
    BY EventFacts
  <1>2. /\ next \in Nat /\ Taken \in Nat /\ Taken <= next /\ Len(down) \in Nat
    BY QueueFacts, LenProperties DEF IInv, TypeOK, LoopTypes
  <1>3. CASE listening = {}
    <2>1. got = next /\ Taken = next /\ pc # "dialing"
      BY <1>3, NoneListening
    <2>2. conn # "none"
      <3>1. ASSUME conn = "none" PROVE FALSE
        <4>1. Len(down) <= Taken - Dialing /\ Dialing \in {0, 1}
          BY <3>1 DEF IInv, RepliesCounted, Dialing
        <4> QED
          BY <1>1, <1>2, <2>1, <4>1
      <3> QED
        BY <3>1
    <2>3. PICK c \in Key : at[c] = "waiting"
      BY <1>3, <2>2, NoneListening
    <2>4. c \in listening
      BY <1>1, <2>3 DEF HandlersMatch
    <2> QED
      BY <1>3, <2>4
  <1>4. CASE listening # {}
    <2>1. got = next - 1
      BY <1>4 DEF OrderlyInv, Answered
    <2>2. got' = next /\ next <= Len(down)
      BY <1>1, <1>2, <2>1
    <2>3. Taken = next /\ Queued = {}
      BY <2>2, AllAnswered DEF OrderlyInv, InStep
    <2> QED
      BY <2>2, <2>3
  <1> QED
    BY <1>3, <1>4

\* When nothing happens at the node, what is said of it stays true.
LEMMA NodeStill ==
  ASSUME UNCHANGED vars
  PROVE  /\ Taken' = Taken /\ Queued' = Queued
         /\ UNCHANGED <<next, client, pc, conn, connectAt, down, commitment, rNode>>
  BY DEF vars, chanVars, loopVars, tcpVars, Taken, Holding, Queued

------------------------------------------------------------------------------
(* An application that awaits each call: every kind of step keeps the invariant. *)

\* A call that sends a command.
LEMMA AsksKeeps ==
  ASSUME ClientIInv, ClientTypeOK', NEW c \in Key, CallStep(c), Asks(c)
  PROVE  OrderlyInv'
  <1> USE DEF ClientIInv
  <1>0. OthersStay(c) /\ (Orderly' => Orderly) /\ connected' = NoKey
    BY OneCall, OrderlyBefore DEF Asks, ChannelNext
  <1>1. OneAtATime'
    <2> SUFFICES ASSUME ~overlap', NEW d \in Key, at'[d] \in Active, d # c PROVE FALSE
      BY DEF OneAtATime
    <2>1. at[d] \in Active
      BY <1>0 DEF OthersStay
    <2> QED
      BY <2>1 DEF Asks, OrderlyInv, OneAtATime, Active
  <1>2. ASSUME Orderly'
        PROVE  /\ InStep /\ listening = {} /\ next' = next + 1 /\ next \in Nat
               /\ listening' = {c}
               /\ \A d \in Key \ {c} : at'[d] \notin Active
               /\ got' = next /\ Taken' = next /\ pc' # "dialing" /\ conn' = "none"
    <2>1. /\ InStep /\ listening = {} /\ next' = next + 1
          /\ \A d \in Key \ {c} : at[d] \notin Active
          /\ got = next /\ Taken' = next /\ pc' # "dialing" /\ conn' = "none"
      BY <1>2, AskFacts
    <2>2. listening' = {c}
      BY <1>0, <2>1 DEF OthersStay, Asks, ClientTypeOK
    <2>3. got' = got /\ \A d \in Key \ {c} : at'[d] \notin Active
      BY <1>0, <2>1 DEF OthersStay, Asks
    <2> QED
      BY <2>1, <2>2, <2>3, QueueFacts
  <1>3. NothingAfterConnect'
    BY <1>2 DEF NothingAfterConnect
  <1>4. Answered'
    <2> SUFFICES ASSUME InStep'
                 PROVE  /\ got' = IF listening' = {} THEN next' ELSE next' - 1
                        /\ \A d \in Key : at'[d] \in {"waiting", "opened"} => sent'[d] = next'
      BY DEF Answered
    <2>1. Orderly'
      BY DEF InStep
    <2>2. got' = next' - 1 /\ listening' # {}
      <3>1. next' = next + 1 /\ next \in Nat /\ got' = next /\ listening' = {c}
        BY <1>2, <2>1
      <3>2. got' = next' - 1
        BY ONLY <3>1
      <3> QED
        BY <3>1, <3>2
    <2>3. sent'[c] = next'
      BY DEF Asks
    <2>4. \A d \in Key \ {c} : at'[d] \notin {"waiting", "opened"}
      BY <1>2, <2>1 DEF Active
    <2> QED
      BY <2>2, <2>3, <2>4
  <1>5. AnswersOwn'
    <2> SUFFICES ASSUME Orderly', NEW d \in Key, answer'[d] # NoAnswer
                 PROVE  sent'[d] = got'
      BY <1>0 DEF AnswersOwn
    <2>1. d # c /\ got' = got
      BY DEF Asks
    <2> QED
      BY <1>0, <2>1 DEF OthersStay, OrderlyInv, AnswersOwn
  <1>6. Asked'
    <2> SUFFICES ASSUME InStep', NEW m \in Queued'
                 PROVE  \E d \in listening' : [cmd |-> m.cmd, key |-> m.key] \in CommandOf(d)'
      BY DEF Asked
    <2>1. Orderly'
      BY DEF InStep
    <2>2. ClientSend /\ Taken = next
      BY <2>1, AskFacts DEF Asks
    <2>3. m = wire'[Len(wire')]
      BY <2>2, QueuedSent
    <2> QED
      BY <2>3 DEF Asks
  <1>7. ConnectWaits'
    BY <1>2 DEF ConnectWaits, InStep
  <1>8. ProofDue'
    <2> SUFFICES ASSUME InStep', pc' = "cmd", NEW d \in Key, method'[d] = "verify"
                 PROVE  /\ at'[d] = "waiting" /\ Taken' = next' =>
                              /\ down'[next'] = Reply("response", next', d)
                              /\ commitment' = d /\ rNode' = next'
                        /\ at'[d] = "opened" =>
                              IF Taken' = next' THEN down'[next'] = Reply("proof", rSeen'[d], d)
                              ELSE commitment' = d /\ rNode' = rSeen'[d]
      BY DEF ProofDue
    <2>1. Orderly'
      BY DEF InStep
    <2>2. Taken' # next'
      BY <1>2, <2>1
    <2>3. CASE d # c
      BY <1>2, <2>1, <2>3 DEF Active
    <2>4. CASE d = c
      <3>1. ASSUME at'[c] = "opened" PROVE commitment' = c /\ rNode' = rSeen'[c]
        <4>1. /\ at[c] = "waiting" /\ method[c] = "verify"
              /\ answer[c].type = "response" /\ rSeen'[c] = answer[c].r
          BY <3>1 DEF Asks
        <4>2. /\ InStep /\ Taken = next /\ got = next /\ pc = "cmd"
              /\ UNCHANGED <<commitment, rNode>>
          BY <2>1, AskFacts
        <4>3. /\ down[next] = Reply("response", next, c)
              /\ commitment = c /\ rNode = next
          BY <4>1, <4>2 DEF OrderlyInv, ProofDue
        <4>4. answer[c] = down[next]
          BY <4>1, <4>2, AnswerFacts DEF AnswersHeard
        <4>5. answer[c].r = next
          BY <4>3, <4>4 DEF Reply
        <4> QED
          BY <4>1, <4>2, <4>3, <4>5
      <3> QED
        BY <2>2, <2>4, <3>1
    <2> QED
      BY <2>3, <2>4
  <1>9. ModesAgree'
    BY <1>0 DEF ModesAgree
  <1>10. VerifyCompletes'
    <2> SUFFICES ASSUME Orderly', NEW d \in Key, method'[d] = "verify", at'[d] = "failed"
                 PROVE  connected' # NoKey \/ client' # "open" \/ pc' = "gone"
      BY DEF VerifyCompletes
    <2>1. d # c
      BY DEF Asks
    <2>2. UNCHANGED <<client, pc>> /\ connected' = connected
      BY AskFacts DEF Asks
    <2> QED
      BY <1>0, <2>1, <2>2 DEF OthersStay, OrderlyInv, VerifyCompletes
  <1> QED
    BY <1>1, <1>3, <1>4, <1>5, <1>6, <1>7, <1>8, <1>9, <1>10 DEF OrderlyInv

\* A step of a call at which nothing happens at the node, and the call goes on hashing
\* or is over.
LEMMA QuietCallKeeps ==
  ASSUME ClientIInv, ClientTypeOK', NEW c \in Key, CallStep(c), OthersStay(c),
         UNCHANGED vars, got' = got, sent'[c] = sent[c],
         at'[c] \notin {"waiting", "opened"},
         answer'[c] # NoAnswer => answer'[c] = answer[c],
         c \in listening' => c \in listening \/ client # "open",
         InStep' => (c \notin listening)
  PROVE  /\ NothingAfterConnect' /\ Answered' /\ Asked' /\ ProofDue'
         /\ \A d \in Key : answer'[d] # NoAnswer => answer'[d] = answer[d]
         /\ \A d \in Key : sent'[d] = sent[d]
  <1> USE DEF ClientIInv
  <1>0. /\ Taken' = Taken /\ Queued' = Queued
        /\ UNCHANGED <<next, client, pc, conn, connectAt, down, commitment, rNode>>
    BY NodeStill
  <1>1. (Orderly' => Orderly) /\ (InStep' => InStep)
    BY OrderlyBefore DEF ChannelNext
  <1>2. ASSUME InStep'
        PROVE  /\ listening' = listening /\ c \notin listening
               /\ \A d \in Key \ {c} : at'[d] = at[d] /\ method'[d] = method[d]
    <2>1. client = "open" /\ c \notin listening /\ c \notin listening'
      BY <1>2, <1>1 DEF InStep
    <2>2. listening \subseteq Key /\ listening' \subseteq Key
      BY DEF ClientTypeOK
    <2> QED
      BY <2>1, <2>2 DEF OthersStay
  <1>3. NothingAfterConnect'
    BY <1>0, <1>1 DEF OrderlyInv, NothingAfterConnect
  <1>4. Answered'
    <2> SUFFICES ASSUME InStep'
                 PROVE  /\ got' = IF listening' = {} THEN next' ELSE next' - 1
                        /\ \A d \in Key : at'[d] \in {"waiting", "opened"} => sent'[d] = next'
      BY DEF Answered
    <2>1. /\ got = IF listening = {} THEN next ELSE next - 1
          /\ \A d \in Key : at[d] \in {"waiting", "opened"} => sent[d] = next
      BY <1>1 DEF OrderlyInv, Answered
    <2> QED
      BY <1>0, <1>2, <2>1 DEF OthersStay
  <1>5. Asked'
    <2> SUFFICES ASSUME InStep', NEW m \in Queued'
                 PROVE  \E d \in listening' : [cmd |-> m.cmd, key |-> m.key] \in CommandOf(d)'
      BY DEF Asked
    <2>1. PICK d \in listening : [cmd |-> m.cmd, key |-> m.key] \in CommandOf(d)
      BY <1>0, <1>1 DEF OrderlyInv, Asked
    <2>2. d \in listening' /\ at'[d] = at[d] /\ method'[d] = method[d]
      BY <1>2, <2>1 DEF ClientTypeOK
    <2>3. CommandOf(d)' = CommandOf(d)
      BY <2>2 DEF CommandOf
    <2> QED
      BY <2>1, <2>2, <2>3
  <1>6. ProofDue'
    <2> SUFFICES ASSUME InStep', pc' = "cmd", NEW d \in Key, method'[d] = "verify"
                 PROVE  /\ at'[d] = "waiting" /\ Taken' = next' =>
                              /\ down'[next'] = Reply("response", next', d)
                              /\ commitment' = d /\ rNode' = next'
                        /\ at'[d] = "opened" =>
                              IF Taken' = next' THEN down'[next'] = Reply("proof", rSeen'[d], d)
                              ELSE commitment' = d /\ rNode' = rSeen'[d]
      BY DEF ProofDue
    <2>1. CASE d = c
      BY <2>1
    <2>2. CASE d # c
      <3>1. at'[d] = at[d] /\ method'[d] = method[d] /\ rSeen'[d] = rSeen[d]
        BY <2>2 DEF OthersStay
      <3> QED
        BY <1>0, <1>1, <3>1 DEF OrderlyInv, ProofDue
    <2> QED
      BY <2>1, <2>2
  <1>7. \A d \in Key : /\ answer'[d] # NoAnswer => answer'[d] = answer[d]
                       /\ sent'[d] = sent[d]
    BY DEF OthersStay
  <1> QED
    BY <1>3, <1>4, <1>5, <1>6, <1>7

\* A call that returns.
LEMMA ReturnsKeeps ==
  ASSUME ClientIInv, ClientTypeOK', NEW c \in Key, CallStep(c), Returns(c)
  PROVE  OrderlyInv'
  <1> USE DEF ClientIInv
  <1>0. OthersStay(c) /\ (Orderly' => Orderly) /\ (InStep' => InStep)
    BY OneCall, OrderlyBefore DEF ChannelNext
  <1>1. /\ Taken' = Taken /\ Queued' = Queued
        /\ UNCHANGED <<next, client, pc, conn, connectAt, down, commitment, rNode>>
    BY NodeStill DEF Returns
  <1>2. InStep' => c \notin listening
    <2>1. client = "open" /\ at[c] \in {"idle", "hashing"} => c \notin listening
      BY DEF NoStrayHandler
    <2>2. at[c] \in {"waiting", "opened"} /\ answer[c] # NoAnswer => c \notin listening
      BY DEF HandlersMatch
    <2> QED
      BY <1>0, <2>1, <2>2 DEF Returns, InStep
  <1>3. /\ NothingAfterConnect' /\ Answered' /\ Asked' /\ ProofDue'
        /\ \A d \in Key : answer'[d] # NoAnswer => answer'[d] = answer[d]
        /\ \A d \in Key : sent'[d] = sent[d]
    BY <1>0, <1>2, QuietCallKeeps DEF Returns
  <1>4. OneAtATime'
    <2> SUFFICES ASSUME ~overlap', NEW d \in Key, NEW e \in Key,
                        at'[d] \in Active, at'[e] \in Active
                 PROVE  d = e
      BY DEF OneAtATime
    <2>1. d # c /\ e # c /\ ~overlap
      BY DEF Returns, Active
    <2> QED
      BY <1>0, <2>1 DEF OthersStay, OrderlyInv, OneAtATime
  <1>5. AnswersOwn'
    <2> SUFFICES ASSUME Orderly'
                 PROVE  /\ \A d \in Key : answer'[d] # NoAnswer => sent'[d] = got'
                        /\ connected' # NoKey /\ client' = "open" => listening' = {}
      BY DEF AnswersOwn
    <2>1. \A d \in Key : answer'[d] # NoAnswer => sent'[d] = got'
      BY <1>0, <1>3 DEF OrderlyInv, AnswersOwn, Returns
    <2>2. ASSUME connected' # NoKey, client' = "open" PROVE listening' = {}
      <3>1. listening = {}
        <4>1. CASE connected # NoKey
          BY <1>0, <1>1, <2>2, <4>1 DEF OrderlyInv, AnswersOwn
        <4>2. CASE connected = NoKey
          <5>1. InStep
            BY <1>0, <1>1, <2>2, <4>2 DEF InStep
          <5>2. at[c] = "waiting" /\ answer[c] # NoAnswer
            BY <2>2, <4>2 DEF Returns
          <5> QED
            BY <5>1, <5>2, ReturnFacts
        <4> QED
          BY <4>1, <4>2
      <3>2. c \notin listening'
        BY <1>1, <2>2, <3>1 DEF Returns
      <3> QED
        BY <1>0, <3>1, <3>2 DEF OthersStay, ClientTypeOK
    <2> QED
      BY <2>1, <2>2
  <1>6. ConnectWaits'
    <2> SUFFICES ASSUME InStep', pc' = "dialing" \/ conn' # "none"
                 PROVE  \E d \in Key : method'[d] = "connect" /\ at'[d] = "waiting"
      BY DEF ConnectWaits
    <2>1. InStep /\ connected' = NoKey /\ connected = NoKey
      BY <1>0 DEF InStep
    <2>2. PICK d \in Key : method[d] = "connect" /\ at[d] = "waiting"
      BY <1>1, <2>1 DEF OrderlyInv, ConnectWaits
    <2>3. d # c
      <3>1. ASSUME d = c PROVE FALSE
        <4>1. answer[c] # NoAnswer /\ answer[c].type # "ok"
          BY <2>1, <2>2, <3>1, NoKeyIsNoCall DEF Returns
        <4>2. /\ next \in 1..Len(down) /\ answer[c] = down[next] /\ pc # "dialing"
          BY <2>1, <2>2, <3>1, <4>1, ReturnFacts
        <4>3. conn # "none" /\ connectAt = next
          BY <1>1, <2>1, <4>2 DEF OrderlyInv, NothingAfterConnect, InStep
        <4>4. down[next].type = "ok"
          BY <4>2, <4>3 DEF IInv, RepliesCounted
        <4> QED
          BY <4>1, <4>2, <4>4
      <3> QED
        BY <3>1
    <2>4. method'[d] = "connect" /\ at'[d] = "waiting"
      BY <1>0, <2>2, <2>3 DEF OthersStay
    <2> QED
      BY <2>4
  <1>7. ModesAgree'
    <2> SUFFICES ASSUME Orderly', connected' # NoKey PROVE connectAt' = sent'[connected']
      BY DEF ModesAgree
    <2>1. CASE connected' = connected
      <3>1. connected \in Key /\ connectAt = sent[connected]
        BY <1>0, <2>1 DEF OrderlyInv, ModesAgree, ClientTypeOK
      <3> QED
        BY <1>1, <1>3, <2>1, <3>1
    <2>2. CASE connected' # connected
      <3>1. connected' = c /\ answer[c].type = "ok" /\ answer[c] # NoAnswer
        BY <2>2 DEF Returns
      <3>2. sent[c] = got /\ got \in 1..Len(down) /\ down[got].type = "ok"
        BY <1>0, <3>1 DEF OrderlyInv, AnswersOwn, AnswersHeard, ClientTypeOK
      <3>3. got = connectAt
        BY <3>2 DEF IInv, RepliesCounted
      <3> QED
        BY <1>1, <1>3, <3>1, <3>2, <3>3
    <2> QED
      BY <2>1, <2>2
  <1>8. VerifyCompletes'
    <2> SUFFICES ASSUME Orderly', NEW d \in Key, method'[d] = "verify", at'[d] = "failed",
                        connected' = NoKey, client' = "open", pc' # "gone"
                 PROVE  FALSE
      BY DEF VerifyCompletes
    <2>1. connected = NoKey
      BY NoKeyIsNoCall DEF Returns
    <2>2. InStep /\ pc # "gone"
      BY <1>0, <1>1, <2>1 DEF InStep
    <2>3. CASE d # c
      <3>1. method[d] = "verify" /\ at[d] = "failed"
        BY <1>0, <2>3 DEF OthersStay
      <3> QED
        BY <2>2, <3>1 DEF OrderlyInv, VerifyCompletes, InStep
    <2>4. CASE d = c
      <3>1. \/ at[c] = "waiting" /\ answer[c].type # "response"
            \/ at[c] = "opened" /\ answer[c] # Reply("proof", rSeen[c], c)
        BY <2>2, <2>4 DEF Returns, InStep
      <3>2. answer[c] # NoAnswer /\ method[c] = "verify"
        BY <2>4, <3>1 DEF Returns
      <3>3. Taken = next /\ pc # "dialing" /\ answer[c] = down[next]
        BY <2>2, <3>1, <3>2, ReturnFacts
      <3>4. pc = "cmd"
        BY <2>2, <3>3 DEF IInv, TypeOK, LoopTypes
      <3>5. CASE at[c] = "waiting" /\ answer[c].type # "response"
        <4>1. down[next] = Reply("response", next, c)
          BY <2>2, <3>2, <3>3, <3>4, <3>5 DEF OrderlyInv, ProofDue
        <4> QED
          BY <3>3, <3>5, <4>1 DEF Reply
      <3>6. CASE at[c] = "opened" /\ answer[c] # Reply("proof", rSeen[c], c)
        BY <2>2, <3>2, <3>3, <3>4, <3>6 DEF OrderlyInv, ProofDue
      <3> QED
        BY <3>1, <3>5, <3>6
    <2> QED
      BY <2>3, <2>4
  <1> QED
    BY <1>3, <1>4, <1>5, <1>6, <1>7, <1>8 DEF OrderlyInv

\* A verifyIdentity() that starts to hash.
LEMMA HashesKeeps ==
  ASSUME ClientIInv, ClientTypeOK', NEW c \in Key, CallStep(c), Hashes(c)
  PROVE  OrderlyInv'
  <1> USE DEF ClientIInv
  <1>0. OthersStay(c) /\ (Orderly' => Orderly) /\ (InStep' => InStep)
    BY OneCall, OrderlyBefore DEF ChannelNext
  <1>1. /\ Taken' = Taken /\ Queued' = Queued
        /\ UNCHANGED <<next, client, pc, conn, connectAt, down, commitment, rNode>>
        /\ UNCHANGED <<connected, listening, sent, got, answer>>
    BY NodeStill DEF Hashes
  <1>2. InStep' => c \notin listening
    BY <1>0 DEF NoStrayHandler, Hashes, InStep
  <1>3. NothingAfterConnect' /\ Answered' /\ Asked' /\ ProofDue'
    BY <1>0, <1>1, <1>2, QuietCallKeeps DEF Hashes
  <1>4. OneAtATime'
    <2> SUFFICES ASSUME ~overlap', NEW d \in Key, at'[d] \in Active, d # c PROVE FALSE
      BY DEF OneAtATime
    <2> QED
      BY <1>0 DEF OthersStay, Hashes
  <1>5. AnswersOwn'
    BY <1>0, <1>1 DEF OrderlyInv, AnswersOwn
  <1>6. ConnectWaits'
    <2> SUFFICES ASSUME InStep', pc' = "dialing" \/ conn' # "none"
                 PROVE  \E d \in Key : method'[d] = "connect" /\ at'[d] = "waiting"
      BY DEF ConnectWaits
    <2>1. PICK d \in Key : method[d] = "connect" /\ at[d] = "waiting"
      BY <1>0, <1>1 DEF OrderlyInv, ConnectWaits
    <2>2. d # c
      BY <2>1 DEF Hashes
    <2> QED
      BY <1>0, <2>1, <2>2 DEF OthersStay
  <1>7. ModesAgree'
    BY <1>0, <1>1 DEF OrderlyInv, ModesAgree
  <1>8. VerifyCompletes'
    <2> SUFFICES ASSUME Orderly', NEW d \in Key, method'[d] = "verify", at'[d] = "failed"
                 PROVE  connected' # NoKey \/ client' # "open" \/ pc' = "gone"
      BY DEF VerifyCompletes
    <2>1. d # c
      BY DEF Hashes
    <2> QED
      BY <1>0, <1>1, <2>1 DEF OthersStay, OrderlyInv, VerifyCompletes
  <1> QED
    BY <1>3, <1>4, <1>5, <1>6, <1>7, <1>8 DEF OrderlyInv

\* A time-out: of a call in progress it ends the order, and of none it changes nothing
\* while the channel is open.
LEMMA TimeoutKeeps ==
  ASSUME ClientIInv, ClientTypeOK', NEW c \in Key, CallStep(c), Timeout(c)
  PROVE  OrderlyInv'
  <1> USE DEF ClientIInv
  <1>0. OthersStay(c) /\ (Orderly' => Orderly)
    BY OneCall, OrderlyBefore DEF ChannelNext
  <1>1. /\ Taken' = Taken /\ Queued' = Queued
        /\ UNCHANGED <<next, client, pc, conn, connectAt, down, commitment, rNode>>
    BY NodeStill, TimeoutFacts
  <1>2. /\ UNCHANGED <<method, sent, rSeen, answer, got, connected, overlap>>
        /\ c \in listening /\ c \notin listening'
        /\ \/ at[c] \in Active /\ at'[c] = "failed" /\ late'
           \/ at[c] \notin Active /\ at'[c] = at[c] /\ late' = late
    BY TimeoutFacts
  <1>3. ~InStep'
    <2> SUFFICES ASSUME InStep' PROVE FALSE
      OBVIOUS
    <2>1. at[c] \notin Active /\ client = "open"
      BY <1>1, <1>2 DEF InStep, Orderly
    <2> QED
      BY <1>2, <2>1 DEF NoStrayHandler, Active
  <1>4. NothingAfterConnect'
    BY <1>0, <1>1 DEF OrderlyInv, NothingAfterConnect
  <1>5. Answered' /\ Asked' /\ ConnectWaits' /\ ProofDue'
    BY <1>3 DEF Answered, Asked, ConnectWaits, ProofDue
  <1>6. OneAtATime'
    <2> SUFFICES ASSUME ~overlap', NEW d \in Key, NEW e \in Key,
                        at'[d] \in Active, at'[e] \in Active
                 PROVE  d = e
      BY DEF OneAtATime
    <2>1. "failed" \notin Active
      BY DEF Active
    <2>2. at[d] \in Active /\ at[e] \in Active /\ ~overlap
      BY <1>0, <1>2, <2>1 DEF OthersStay
    <2> QED
      BY <2>2 DEF OrderlyInv, OneAtATime
  <1>7. AnswersOwn'
    <2>1. listening' \subseteq listening
      BY <1>0, <1>2 DEF OthersStay, ClientTypeOK
    <2> QED
      BY <1>0, <1>1, <1>2, <2>1 DEF OrderlyInv, AnswersOwn
  <1>8. ModesAgree'
    BY <1>0, <1>1, <1>2 DEF OrderlyInv, ModesAgree
  <1>9. VerifyCompletes'
    <2> SUFFICES ASSUME Orderly', NEW d \in Key, method'[d] = "verify", at'[d] = "failed"
                 PROVE  connected' # NoKey \/ client' # "open" \/ pc' = "gone"
      BY DEF VerifyCompletes
    <2>1. at[d] = "failed"
      BY <1>0, <1>2 DEF OthersStay, Orderly
    <2> QED
      BY <1>0, <1>1, <1>2, <2>1 DEF OrderlyInv, VerifyCompletes
  <1> QED
    BY <1>4, <1>5, <1>6, <1>7, <1>8, <1>9 DEF OrderlyInv

\* A message event.
LEMMA EventKeeps ==
  ASSUME ClientIInv, ClientTypeOK', Event
  PROVE  OrderlyInv'
  <1> USE DEF ClientIInv
  <1>0. (Orderly' => Orderly) /\ (InStep' => InStep)
    BY OrderlyBefore DEF ChannelNext
  <1>1. /\ Taken' = Taken /\ Queued' = Queued
        /\ UNCHANGED <<next, client, pc, conn, connectAt, down, commitment, rNode>>
    BY NodeStill, EventFacts
  <1>2. /\ UNCHANGED <<method, at, sent, rSeen, connected, overlap, late>>
        /\ client = "open" /\ listening' = {}
        /\ \A c \in Key : answer'[c] = IF c \in listening THEN down[got'] ELSE NoAnswer
    BY EventFacts
  <1>3. NothingAfterConnect' /\ OneAtATime' /\ ModesAgree' /\ VerifyCompletes'
    <2>1. NothingAfterConnect'
      BY <1>0, <1>1 DEF OrderlyInv, NothingAfterConnect
    <2>2. OneAtATime'
      BY <1>2 DEF OrderlyInv, OneAtATime
    <2>3. ModesAgree' /\ VerifyCompletes'
      BY <1>0, <1>1, <1>2 DEF OrderlyInv, ModesAgree, VerifyCompletes
    <2> QED
      BY <2>1, <2>2, <2>3
  <1>4. ASSUME InStep' PROVE InStep /\ got' = next /\ Queued = {}
    BY <1>0, <1>4, EventInStep
  <1>5. Answered'
    <2> SUFFICES ASSUME InStep'
                 PROVE  got' = next' /\ \A d \in Key : at'[d] \in {"waiting", "opened"} =>
                                           sent'[d] = next'
      BY <1>2 DEF Answered
    <2> QED
      BY <1>1, <1>2, <1>4 DEF OrderlyInv, Answered
  <1>6. AnswersOwn'
    <2> SUFFICES ASSUME Orderly', NEW d \in Key, answer'[d] # NoAnswer
                 PROVE  sent'[d] = got'
      BY <1>2 DEF AnswersOwn
    <2>1. d \in listening
      BY <1>2
    <2>2. connected = NoKey
      BY <1>0, <1>2, <2>1 DEF OrderlyInv, AnswersOwn
    <2>3. InStep
      BY <1>0, <1>2, <2>2 DEF InStep
    <2>4. at[d] \in {"waiting", "opened"}
      BY <1>2, <2>1 DEF NoStrayHandler
    <2>5. sent[d] = next /\ got' = next
      BY <2>3, <2>4, EventInStep DEF OrderlyInv, Answered
    <2> QED
      BY <1>2, <2>5
  <1>7. Asked'
    BY <1>1, <1>4 DEF Asked
  <1>8. ConnectWaits'
    BY <1>0, <1>1, <1>2 DEF OrderlyInv, ConnectWaits
  <1>9. ProofDue'
    BY <1>0, <1>1, <1>2 DEF OrderlyInv, ProofDue
  <1> QED
    BY <1>3, <1>5, <1>6, <1>7, <1>8, <1>9 DEF OrderlyInv

\* A step of the node that is not Connect opens no connection but that of the dial
\* under way, and obeys no other command.
LEMMA DialFrame ==
  ASSUME IInv, [Next]_vars, ~Connect
  PROVE  /\ connectAt' = connectAt
         /\ pc' = "dialing" \/ conn' # "none" => pc = "dialing" \/ conn # "none"
  <1> USE DEF vars, loopVars, tcpVars
  <1>1. CASE \/ ClientSend \/ ClientCloses \/ ClientVanishes \/ ClientAcks
             \/ ServiceSends \/ ServiceEnds \/ UNCHANGED vars
    BY <1>1 DEF ClientSend, ClientCloses, ClientVanishes, ClientAcks, ClientEnds,
                ServiceSends, ServiceEnds
  <1>2. CASE PionStep
    BY <1>2 DEF PionStep, ReadMessage, OnMessage, ReadLoopEnds, OnClose
  <1>3. CASE LoopStep
    BY <1>3 DEF LoopStep, LoopEnds, Plain, Challenge, Verify, Takes, ConnectUnknown,
                DialFails, DialOk
  <1>4. CASE WriterStep
    <2>1. writer # "none" /\ UNCHANGED <<connectAt, pc>>
      BY <1>4 DEF WriterStep, WriteTcp, WriteTcpFails, WriterEnds, WriterCleanup, Cleanup
    <2> QED
      BY <2>1 DEF IInv, BridgeTakesOver
  <1>5. CASE ReaderStep
    <2>1. reader # "none" /\ UNCHANGED <<connectAt, pc>>
      BY <1>5 DEF ReaderStep, ReadTcp, ReadTcpEnds, ReaderCleanup, Cleanup
    <2> QED
      BY <2>1 DEF IInv, BridgeTakesOver
  <1> QED
    BY <1>1, <1>2, <1>3, <1>4, <1>5 DEF Next

\* While the command loop waits for commands, only a command changes its challenge or
\* the replies.
LEMMA CommandFrame ==
  ASSUME IInv, [Next]_vars, pc = "cmd", pc' = "cmd"
  PROVE  \/ Takes("plain") \/ Challenge \/ Verify
         \/ UNCHANGED <<commitment, rNode, down>> /\ Taken' = Taken
  <1> USE DEF IInv
  <1>0. TypeOK' /\ writer = "none" /\ reader = "none"
    BY IInvStep DEF BridgeTakesOver
  <1>1. CASE \/ ClientSend \/ ClientCloses \/ ClientVanishes \/ ClientAcks
             \/ ServiceSends \/ ServiceEnds \/ UNCHANGED vars \/ PionStep
    <2>1. Taken' = Taken
      BY <1>0, <1>1, ElsewhereFacts
    <2>2. UNCHANGED <<commitment, rNode, down>>
      <3>1. CASE ClientSend \/ ClientCloses \/ ClientVanishes \/ ClientAcks
        BY <3>1 DEF ClientSend, ClientCloses, ClientVanishes, ClientAcks, ClientEnds,
                    loopVars
      <3>2. CASE ServiceSends \/ ServiceEnds \/ UNCHANGED vars
        BY <3>2 DEF ServiceSends, ServiceEnds, vars, loopVars
      <3>3. CASE PionStep
        BY <3>3 DEF PionStep, ReadMessage, OnMessage, ReadLoopEnds, OnClose, loopVars
      <3> QED
        BY <1>1, <3>1, <3>2, <3>3
    <2> QED
      BY <2>1, <2>2
  <1>2. CASE LoopStep
    BY <1>2 DEF LoopStep, LoopEnds, Plain, ConnectUnknown, Connect, DialFails, DialOk
  <1>3. CASE WriterStep \/ ReaderStep
    BY <1>0, <1>3 DEF WriterStep, WriteTcp, WriteTcpFails, WriterEnds, WriterCleanup,
                      ReaderStep, ReadTcp, ReadTcpEnds, ReaderCleanup
  <1> QED
    BY <1>1, <1>2, <1>3 DEF Next

\* A command taken in step gets the next reply.
LEMMA ReplyInStep ==
  ASSUME ClientIInv, InStep, NEW cmd, Takes(cmd), NEW m \in Replies, Sent(m)
  PROVE  down'[next] = m
  <1>0. /\ pc = "cmd" /\ client = "open" /\ Taken = next - 1 /\ next \in Nat
    BY TakenCommand, QueueFacts DEF Takes, InStep, ClientIInv
  <1>1. dc = "open" /\ conn = "none"
    BY <1>0 DEF ClientIInv, IInv, RepliesCounted, BridgeTakesOver, TypeOK, ChanTypes
  <1>2. Dialing = 0
    BY <1>0 DEF Dialing
  <1>3. Len(down) = Taken - Dialing
    BY <1>1 DEF ClientIInv, IInv, RepliesCounted
  <1>4. Len(down) + 1 = next
    BY <1>0, <1>2, <1>3
  <1>5. down'[Len(down) + 1] = m
    BY <1>1, SentFacts DEF ClientIInv, IInv
  <1> QED
    BY <1>4, <1>5

\* What is at most one more than a number is at most one more than a larger one.
LEMMA WithinOne ==
  ASSUME NEW a \in Nat, NEW b \in Nat, NEW c \in Nat, a <= b + 1, b <= c
  PROVE  a <= c + 1
  OBVIOUS

\* A step elsewhere.
LEMMA ElseKeeps ==
  ASSUME ClientIInv, ElseStep
  PROVE  OrderlyInv'
  <1> USE DEF ClientIInv
  <1>0. /\ (Orderly' => Orderly) /\ (InStep' => InStep)
        /\ [Next]_vars /\ next' = next
        /\ UNCHANGED <<method, at, listening, sent, rSeen, answer, got, connected, overlap,
                       late>>
    BY OrderlyBefore, ElseAtNode DEF ChannelNext
  <1>1. /\ conn # "none" => conn' # "none"
        /\ pc = "gone" => pc' = "gone"
        /\ client' = "open" => client = "open"
        /\ Taken \in Nat /\ Taken' \in Nat /\ Taken <= Taken' /\ Taken' <= next
        /\ next \in Nat
    <2>1. wire' \in Seq(Message) /\ buf' \in Seq(Message)
      BY <1>0, IInvStep DEF IInv, TypeOK, ChanTypes
    <2>2. Len(wire') \in Nat /\ Len(buf') \in Nat /\ Holding' \in {0, 1}
      BY <2>1, LenProperties DEF Holding
    <2>3. Taken' = next' - Len(wire') - Holding' - Len(buf')
      BY DEF Taken
    <2>4. next' = next /\ next \in Nat
      BY <1>0, QueueFacts
    <2>5. Taken' <= next
      BY ONLY <2>2, <2>3, <2>4
    <2> QED
      BY <1>0, <2>4, <2>5, NodeFrame
  <1>2. ASSUME Connect, InStep
        PROVE  /\ connectAt' = next
               /\ \E c \in Key : method[c] = "connect" /\ at[c] = "waiting"
    <2>1. PICK c \in listening :
                 /\ [cmd |-> "connect", key |-> Head(buf).key] \in CommandOf(c)
                 /\ at[c] \in {"waiting", "opened"}
      BY <1>2, TakenCommand DEF Connect
    <2>2. connectAt' = next
      BY <1>2, TakenCommand DEF Connect
    <2>3. c \in Key /\ method[c] \in {"simple", "verify", "connect"}
      BY <2>1 DEF ClientTypeOK, HandlersMatch
    <2>4. method[c] = "connect"
      <3>1. CASE method[c] = "simple"
        BY <2>1, <3>1 DEF CommandOf
      <3>2. CASE method[c] = "verify"
        BY <2>1, <3>2 DEF CommandOf
      <3> QED
        BY <2>3, <3>1, <3>2
    <2>5. at[c] = "waiting"
      BY <2>1, <2>3, <2>4 DEF HandlersMatch
    <2> QED
      BY <2>2, <2>3, <2>4, <2>5
  <1>3. NothingAfterConnect'
    <2> SUFFICES ASSUME Orderly'
                 PROVE  /\ next' <= Taken' + 1
                        /\ pc' = "dialing" \/ conn' # "none" => connectAt' = next'
      BY DEF NothingAfterConnect
    <2>1. /\ next <= Taken + 1
          /\ pc = "dialing" \/ conn # "none" => connectAt = next
      BY <1>0 DEF OrderlyInv, NothingAfterConnect
    <2>2. next' <= Taken' + 1
      <3>1. next <= Taken' + 1
        BY <1>1, <2>1, WithinOne
      <3> QED
        BY <1>0, <3>1
    <2>3. CASE Connect
      <3>1. TypeOK /\ TypeOK' /\ Numbered /\ TakesMessage /\ connectAt' = Head(buf).n
        BY <1>0, <2>3, IInvStep DEF IInv, Connect, Takes, TakesMessage
      <3>2. connectAt' = Taken + 1 /\ Taken' = Taken + 1
        BY <3>1, TakeNumbered
      <3>3. connectAt' = next
        BY <1>1, <2>1, <3>2
      <3> QED
        BY <1>0, <2>2, <3>3
    <2>4. CASE ~Connect
      BY <1>0, <2>1, <2>2, <2>4, DialFrame
    <2> QED
      BY <2>3, <2>4
  <1>4. OneAtATime'
    BY <1>0 DEF OrderlyInv, OneAtATime
  <1>5. Answered'
    BY <1>0 DEF OrderlyInv, Answered
  <1>6. AnswersOwn'
    BY <1>0, <1>1 DEF OrderlyInv, AnswersOwn
  <1>7. Asked'
    <2> SUFFICES ASSUME InStep', NEW m \in Queued'
                 PROVE  \E d \in listening' : [cmd |-> m.cmd, key |-> m.key] \in CommandOf(d)'
      BY DEF Asked
    <2>1. m \in Queued
      BY <1>0, QueuedKept
    <2>2. PICK d \in listening : [cmd |-> m.cmd, key |-> m.key] \in CommandOf(d)
      BY <1>0, <2>1 DEF OrderlyInv, Asked
    <2>3. CommandOf(d)' = CommandOf(d)
      BY <1>0 DEF CommandOf
    <2> QED
      BY <1>0, <2>2, <2>3
  <1>8. ConnectWaits'
    <2> SUFFICES ASSUME InStep', pc' = "dialing" \/ conn' # "none"
                 PROVE  \E d \in Key : method'[d] = "connect" /\ at'[d] = "waiting"
      BY DEF ConnectWaits
    <2>1. CASE Connect
      BY <1>0, <1>2, <2>1
    <2>2. CASE ~Connect
      BY <1>0, <2>2, DialFrame DEF OrderlyInv, ConnectWaits
    <2> QED
      BY <2>1, <2>2
  <1>9. ProofDue'
    <2> SUFFICES ASSUME InStep', pc' = "cmd", NEW d \in Key, method'[d] = "verify"
                 PROVE  /\ at'[d] = "waiting" /\ Taken' = next' =>
                              /\ down'[next'] = Reply("response", next', d)
                              /\ commitment' = d /\ rNode' = next'
                        /\ at'[d] = "opened" =>
                              IF Taken' = next' THEN down'[next'] = Reply("proof", rSeen'[d], d)
                              ELSE commitment' = d /\ rNode' = rSeen'[d]
      BY DEF ProofDue
    <2>1. InStep /\ pc = "cmd" /\ method[d] = "verify"
      BY <1>0, DcStep
    <2>2. CASE UNCHANGED <<commitment, rNode, down>> /\ Taken' = Taken
      BY <1>0, <2>1, <2>2 DEF OrderlyInv, ProofDue
    <2>3. ASSUME NEW cmd, Takes(cmd), at[d] \in {"waiting", "opened"}
          PROVE  [cmd |-> cmd, key |-> Head(buf).key] \in CommandOf(d)
      <3>1. PICK c \in listening :
                   /\ [cmd |-> cmd, key |-> Head(buf).key] \in CommandOf(c)
                   /\ \A e \in Key \ {c} : at[e] \notin Active
        BY <2>1, <2>3, TakenCommand
      <3>2. d = c
        BY <2>3, <3>1 DEF Active
      <3> QED
        BY <3>1, <3>2
    <2>4. CASE Takes("plain")
      <3>1. at[d] \notin {"waiting", "opened"}
        BY <2>1, <2>3, <2>4 DEF CommandOf
      <3> QED
        BY <1>0, <3>1
    <2>5. CASE Challenge
      <3>1. Takes("challenge") /\ commitment' = Head(buf).key /\ rNode' = Head(buf).n
            /\ Sent(Reply("response", rNode', commitment'))
        BY <2>1, <2>5 DEF Challenge
      <3>2. Head(buf).n = next /\ Taken' = next
        BY <2>1, <3>1, TakenCommand
      <3>3. at[d] # "opened"
        BY <2>1, <2>3, <3>1 DEF CommandOf
      <3>4. ASSUME at[d] = "waiting"
            PROVE  commitment' = d /\ rNode' = next /\ down'[next] = Reply("response", next, d)
        <4>1. commitment' = d /\ rNode' = next
          BY <2>1, <2>3, <3>1, <3>2, <3>4 DEF CommandOf
        <4>2. Reply("response", next, d) \in Replies
          BY <1>1, ReplyFacts
        <4>3. Sent(Reply("response", next, d))
          BY <3>1, <4>1
        <4> QED
          BY <2>1, <3>1, <4>1, <4>2, <4>3, ReplyInStep
      <3> QED
        BY <1>0, <3>3, <3>4
    <2>6. CASE Verify
      <3>1. Takes("verify")
            /\ Sent(IF commitment # NoKey /\ commitment = Head(buf).key
                    THEN Reply("proof", rNode, commitment) ELSE Text)
        BY <2>6 DEF Verify
      <3>2. Taken = next - 1 /\ Taken' = next
        BY <2>1, <3>1, TakenCommand
      <3>3. at[d] # "waiting"
        BY <2>1, <2>3, <3>1 DEF CommandOf
      <3>4. ASSUME at[d] = "opened"
            PROVE  down'[next] = Reply("proof", rSeen[d], d)
        <4>1. Head(buf).key = d
          BY <2>1, <2>3, <3>1, <3>4 DEF CommandOf
        <4>2. Taken # next
          BY <1>1, <3>2
        <4>3. commitment = d /\ rNode = rSeen[d]
          BY <2>1, <3>4, <4>2 DEF OrderlyInv, ProofDue
        <4>4. Sent(Reply("proof", rSeen[d], d))
          BY <3>1, <4>1, <4>3, NoKeyIsNoCall
        <4>5. Reply("proof", rSeen[d], d) \in Replies
          BY ReplyFacts DEF ClientTypeOK
        <4> QED
          BY <2>1, <3>1, <4>4, <4>5, ReplyInStep
      <3> QED
        BY <1>0, <3>2, <3>3, <3>4
    <2> QED
      BY <1>0, <2>1, <2>2, <2>4, <2>5, <2>6, CommandFrame
  <1>10. ModesAgree'
    <2> SUFFICES ASSUME Orderly', connected # NoKey PROVE connectAt' = sent[connected]
      BY <1>0 DEF ModesAgree
    <2>1. pc = "gone"
      BY DEF PipeOpen, IInv, BridgeTakesOver
    <2>2. ~Connect
      BY <2>1 DEF Connect, Takes
    <2> QED
      BY <1>0, <2>2, DialFrame DEF OrderlyInv, ModesAgree
  <1>11. VerifyCompletes'
    BY <1>0, <1>1 DEF OrderlyInv, VerifyCompletes
  <1> QED
    BY <1>3, <1>4, <1>5, <1>6, <1>7, <1>8, <1>9, <1>10, <1>11 DEF OrderlyInv

------------------------------------------------------------------------------
(* The theorems. *)

\* A new channel satisfies the inductive invariant, ...
LEMMA ClientIInvInit == ChannelInit => ClientIInv
  <1> SUFFICES ASSUME ChannelInit PROVE ClientIInv
    OBVIOUS
  <1> USE DEF ChannelInit, ClientInit
  <1>1. IInv
    BY IInvInit
  <1>2. ClientTypeOK
    <2>1. got \in 0..Len(down)
      BY DEF Init
    <2>2. answer \in [Key -> Replies \cup {NoAnswer}]
      OBVIOUS
    <2> QED
      BY <2>1, <2>2 DEF ClientTypeOK
  <1>3. /\ HandlersMatch /\ NoStrayHandler /\ AnswersHeard
        /\ VerifiedByOwnProof /\ PipeOpen
    BY DEF HandlersMatch, NoStrayHandler, AnswersHeard, VerifiedByOwnProof, PipeOpen
  <1>4. /\ next = 0 /\ Taken = 0 /\ Queued = {} /\ conn = "none" /\ pc = "cmd"
    <2>1. next = 0 /\ Len(wire) = 0 /\ Len(buf) = 0 /\ Holding = 0 /\ rl # "holding"
      BY DEF Init, Holding
    <2>2. Taken = 0
      BY ONLY <2>1 DEF Taken
    <2>3. (\A i \in 1..Len(wire) : FALSE) /\ (\A i \in 1..Len(buf) : FALSE)
      BY <2>1
    <2>4. Queued = {}
      BY <2>1, <2>3 DEF Queued
    <2> QED
      BY <2>1, <2>2, <2>4 DEF Init
  <1>5. OrderlyInv
    BY <1>4 DEF OrderlyInv, OneAtATime, NothingAfterConnect, Answered, AnswersOwn, Asked,
                ConnectWaits, ProofDue, ModesAgree, VerifyCompletes, Active
  <1> QED
    BY <1>1, <1>2, <1>3, <1>5 DEF ClientIInv

\* ... and every step keeps it.
LEMMA ClientIInvStep ==
  ASSUME ClientIInv, [ChannelNext]_<<vars, clientVars>>
  PROVE  ClientIInv'
  <1> USE DEF ClientIInv
  <1>1. IInv' /\ ClientTypeOK'
    BY AtNode, IInvStep, ClientTypesStep
  <1>2. HandlersMatch' /\ NoStrayHandler'
    BY HandlersStep
  <1>3. AnswersHeard' /\ PipeOpen' /\ VerifiedByOwnProof'
    BY HeardStep, PipeStep, OwnProofStep
  <1>4. OrderlyInv'
    <2>1. ASSUME NEW c \in Key, CallStep(c) PROVE OrderlyInv'
      BY <1>1, <2>1, CallKinds, AsksKeeps, ReturnsKeeps, HashesKeeps, TimeoutKeeps DEF IInv
    <2>2. CASE Event
      BY <1>1, <2>2, EventKeeps
    <2>3. CASE ElseStep
      BY <2>3, ElseKeeps
    <2>4. CASE UNCHANGED <<vars, clientVars>>
      <3>1. UNCHANGED <<method, at, listening, sent, rSeen, answer, got, connected, overlap,
                        late>>
        BY <2>4
      <3>2. /\ Taken' = Taken /\ Queued' = Queued
            /\ UNCHANGED <<next, client, pc, conn, connectAt, down, commitment, rNode>>
        BY <2>4, NodeStill
      <3>3. UNCHANGED Orderly /\ UNCHANGED InStep
        BY <3>1, <3>2 DEF Orderly, InStep
      <3>4. Asked'
        <4>1. \A c \in Key : CommandOf(c)' = CommandOf(c)
          BY <3>1 DEF CommandOf
        <4> QED
          BY <3>1, <3>2, <3>3, <4>1 DEF OrderlyInv, Asked, ClientTypeOK
      <3>5. OneAtATime' /\ NothingAfterConnect' /\ Answered' /\ AnswersOwn'
        BY <3>1, <3>2, <3>3 DEF OrderlyInv, OneAtATime, NothingAfterConnect, Answered,
                                AnswersOwn
      <3>6. ConnectWaits' /\ ProofDue'
        BY <3>1, <3>2, <3>3 DEF OrderlyInv, ConnectWaits, ProofDue
      <3>7. ModesAgree' /\ VerifyCompletes'
        BY <3>1, <3>2, <3>3 DEF OrderlyInv, ModesAgree, VerifyCompletes
      <3> QED
        BY <3>4, <3>5, <3>6, <3>7 DEF OrderlyInv
    <2> QED
      BY <2>1, <2>2, <2>3, <2>4 DEF ChannelNext
  <1> QED
    BY <1>1, <1>2, <1>3, <1>4

\* The inductive invariant of the library and its node holds in every state.
THEOREM ClientInvariance == ChannelSpec => []ClientIInv
  <1>1. ClientIInv /\ [ChannelNext]_<<vars, clientVars>> => ClientIInv'
    BY ClientIInvStep
  <1> QED
    BY <1>1, ClientIInvInit, PTL DEF ChannelSpec

\* While an application has awaited each call and none has timed out (Orderly), the
\* library is in pipe mode only over the connection that its connect() asked for.
THEOREM ModesCorrect == ChannelSpec => []ModesAgree
  <1>1. ClientIInv => ModesAgree
    BY DEF ClientIInv, OrderlyInv
  <1> QED
    BY <1>1, ClientInvariance, PTL

\* While an application has awaited each call and none has timed out (Orderly), no
\* command reaches the TCP service.
THEOREM NoCommandInPipe == ChannelSpec => []CommandsStayOut
  <1>1. ASSUME ClientIInv, Orderly PROVE toTcp = <<>>
    <2> USE DEF ClientIInv
    <2>1. /\ next \in Nat /\ Taken \in Nat /\ Taken <= next
          /\ toTcp \in Seq(Nat) /\ Len(toTcp) \in Nat /\ connectAt \in Nat
      BY <1>1, QueueFacts, LenProperties DEF IInv, TypeOK, LoopTypes, TcpTypes
    <2>2. CASE conn = "none"
      BY <1>1, <2>2 DEF IInv, BridgeTakesOver
    <2>3. CASE conn # "none"
      <3>1. connectAt = next /\ connectAt + Len(toTcp) <= Taken
        BY <1>1, <2>3 DEF OrderlyInv, NothingAfterConnect, IInv, RepliesCounted
      <3>2. Len(toTcp) = 0
        BY <2>1, <3>1
      <3> QED
        BY <2>1, <3>2, EmptySeq
    <2> QED
      BY <2>2, <2>3
  <1>2. ClientIInv => CommandsStayOut
    BY <1>1 DEF CommandsStayOut
  <1> QED
    BY <1>2, ClientInvariance, PTL

\* While an application has awaited each call and none has timed out (Orderly),
\* verifyIdentity() succeeds unless the channel is closed or the node's command loop has
\* ended.
THEOREM VerifyCorrect == ChannelSpec => []VerifyCompletes
  <1>1. ClientIInv => VerifyCompletes
    BY DEF ClientIInv, OrderlyInv
  <1> QED
    BY <1>1, ClientInvariance, PTL

\* Whatever the application does, an identity is verified only by a proof made for this
\* call's challenge.
THEOREM IdentityByOwnProof == ChannelSpec => []VerifiedByOwnProof
  <1>1. ClientIInv => VerifiedByOwnProof
    BY DEF ClientIInv
  <1> QED
    BY <1>1, ClientInvariance, PTL

\* In pipe mode the library sends no command.
THEOREM SilentInPipeMode == ChannelSpec => PipeModeSilent
  <1>1. ASSUME ClientIInv, [ChannelNext]_<<vars, clientVars>>, connected # NoKey
        PROVE  next' = next
    <2>1. ASSUME NEW c \in Key, CallStep(c) PROVE next' = next
      <3>1. CASE Timeout(c)
        BY <1>1, <3>1, NodeStill, TimeoutFacts DEF ClientIInv
      <3>2. CASE Asks(c)
        BY <1>1, <3>2 DEF Asks
      <3>3. CASE Returns(c) \/ Hashes(c)
        BY <3>3, NodeStill DEF Returns, Hashes
      <3> QED
        BY <1>1, <2>1, <3>1, <3>2, <3>3, CallKinds DEF ClientIInv, IInv
    <2>2. CASE Event
      BY <2>2, NodeStill DEF Event
    <2>3. CASE ElseStep
      BY <2>3, ElseAtNode
    <2>4. CASE UNCHANGED <<vars, clientVars>>
      BY <2>4, NodeStill
    <2> QED
      BY <1>1, <2>1, <2>2, <2>3, <2>4 DEF ChannelNext
  <1>2. ClientIInv /\ [ChannelNext]_<<vars, clientVars>>
           => [connected # NoKey => next' = next]_<<vars, clientVars>>
    BY <1>1
  <1> QED
    BY <1>2, ClientInvariance, PTL DEF ChannelSpec, PipeModeSilent
==============================================================================
