------------------------------- MODULE Channel -------------------------------
(***************************************************************************)
(* The client library's Channel (client/src/index.ts) at the other end of   *)
(* DataChannel: its method calls are the client that DataChannel leaves      *)
(* free.  JavaScript runs one task at a time: a message event calls the      *)
(* handlers of all listening commands, and the promises they resolve go on   *)
(* before the next event.                                                   *)
(*                                                                         *)
(* A Key is one method call; a verifyIdentity() has its own random.  The     *)
(* application makes calls whenever it likes, also before an earlier one has *)
(* returned, and sends nothing of its own on dc.  Bytes of the service are    *)
(* not taken for replies.                                                   *)
(***************************************************************************)
EXTENDS DataChannel

ASSUME MaxMsgsAssumption == MaxMsgs >= 2 * Cardinality(Key)

VARIABLES
    method,     \* of the call: "none" yet, "simple" (ping, list), "verify", "connect"
    at,         \* where it stands
    listening,  \* calls whose handler and timer are set (sendCmd)
    sent,       \* number of the call's last command (history)
    rSeen,      \* the random a verifyIdentity() has received
    answer,     \* what a handler has resolved the promise with
    got,        \* number of messages of the node that have been events
    connected,  \* _connected: the connect() that set it, or NoKey
    overlap,    \* two calls were in progress at once (history)
    late        \* a command has timed out (history)

callVars == <<method, at, listening, sent, rSeen, answer>>
clientVars == <<callVars, got, connected, overlap, late>>

NoAnswer == Reply("none", 0, NoKey)

\* "hashing" is before the challenge is sent; "waiting" is sendCmd's promise of a
\* simple command, a connect or a challenge, "opened" that of a verify.
Active == {"hashing", "waiting", "opened"}

ClientInit ==
    /\ method = [c \in Key |-> "none"] /\ at = [c \in Key |-> "idle"]
    /\ listening = {} /\ sent = [c \in Key |-> 0]
    /\ rSeen = [c \in Key |-> 0] /\ answer = [c \in Key |-> NoAnswer]
    /\ got = 0 /\ connected = NoKey
    /\ overlap = FALSE /\ late = FALSE

------------------------------------------------------------------------------
\* Mutant: sendCmd does not check the mode.
SendCmdUnchecked(c, cmd, key, then) ==
    /\ listening' = listening \cup {c}
    /\ IF client = "open"
       THEN /\ ClientSend
            /\ wire'[Len(wire')] = [n |-> next', cmd |-> cmd, key |-> key]
            /\ at' = [at EXCEPT ![c] = then]
            /\ sent' = [sent EXCEPT ![c] = next']
       ELSE at' = [at EXCEPT ![c] = "failed"] /\ UNCHANGED <<vars, sent>>

\* sendCmd(cmd): it throws in pipe mode; dc.send throws when dc is not open, and
\* then the handler and its timer stay.
SendCmd(c, cmd, key, then) ==
    IF connected # NoKey
    THEN at' = [at EXCEPT ![c] = "failed"] /\ UNCHANGED <<vars, listening, sent>>
    ELSE /\ listening' = listening \cup {c}
         /\ IF client = "open"
            THEN /\ ClientSend
                 /\ wire'[Len(wire')] = [n |-> next', cmd |-> cmd, key |-> key]
                 /\ at' = [at EXCEPT ![c] = then]
                 /\ sent' = [sent EXCEPT ![c] = next']
            ELSE at' = [at EXCEPT ![c] = "failed"] /\ UNCHANGED <<vars, sent>>

\* The application calls a method.
Calls(c, m) ==
    /\ client # "vanished"
    /\ at[c] = "idle"
    /\ method' = [method EXCEPT ![c] = m]
    /\ overlap' = (overlap \/ \E d \in Key : at[d] \in Active)
    /\ UNCHANGED <<rSeen, answer, got, connected, late>>

CallSimple(c) == Calls(c, "simple") /\ SendCmd(c, "plain", NoKey, "waiting")

CallConnect(c) ==
    /\ Calls(c, "connect")
    /\ \E cmd \in {"connect", "connectUnknown"} : SendCmd(c, cmd, NoKey, "waiting")

\* verifyIdentity() checks the mode and awaits a hash.
CallVerify(c) ==
    /\ Calls(c, "verify")
    /\ at' = [at EXCEPT ![c] = IF connected # NoKey THEN "failed" ELSE "hashing"]
    /\ UNCHANGED <<vars, listening, sent>>

\* Mutant: the mode is checked at the start of verifyIdentity() only.
HashedUnchecked(c) ==
    /\ client # "vanished"
    /\ at[c] = "hashing"
    /\ SendCmdUnchecked(c, "challenge", c, "waiting")
    /\ UNCHANGED <<method, rSeen, answer, got, connected, overlap, late>>

\* The mode is checked again when the challenge is sent.
Hashed(c) ==
    /\ client # "vanished"
    /\ at[c] = "hashing"
    /\ SendCmd(c, "challenge", c, "waiting")
    /\ UNCHANGED <<method, rSeen, answer, got, connected, overlap, late>>

\* No promise is waiting to go on.
Quiet == \A c \in Key : answer[c] = NoAnswer

\* A message event: every handler takes it and is removed.
Event ==
    /\ client = "open" /\ Quiet
    /\ got < Len(down)
    /\ got' = got + 1
    /\ answer' = [c \in Key |-> IF c \in listening THEN down[got'] ELSE NoAnswer]
    /\ listening' = {}
    /\ UNCHANGED <<vars, method, at, sent, rSeen, connected, overlap, late>>

\* Mutant: the time-out leaves the handler behind.
TimeoutLeavesHandler(c) ==
    /\ client # "vanished" /\ Quiet
    /\ c \in listening
    /\ at[c] \in Active
    /\ at' = [at EXCEPT ![c] = "failed"]
    /\ late' = TRUE
    /\ UNCHANGED <<vars, method, listening, sent, rSeen, answer, got, connected, overlap>>

\* Mutant: the timer removes the handler and does not reject.
TimeoutSilent(c) ==
    /\ client # "vanished" /\ Quiet
    /\ c \in listening
    /\ listening' = listening \ {c}
    /\ UNCHANGED <<vars, method, at, sent, rSeen, answer, got, connected, overlap, late>>

\* The timer of sendCmd.
Timeout(c) ==
    /\ client # "vanished" /\ Quiet
    /\ c \in listening
    /\ listening' = listening \ {c}
    /\ IF at[c] \in Active
       THEN at' = [at EXCEPT ![c] = "failed"] /\ late' = TRUE
       ELSE UNCHANGED <<at, late>>
    /\ UNCHANGED <<vars, method, sent, rSeen, answer, got, connected, overlap>>

\* A promise has been resolved and its call goes on.
Resumes(c, m, where) ==
    /\ client # "vanished"
    /\ answer[c] # NoAnswer
    /\ method[c] = m /\ at[c] = where
    /\ answer' = [answer EXCEPT ![c] = NoAnswer]
    /\ UNCHANGED <<method, got, overlap, late>>

SimpleReturns(c) ==
    /\ Resumes(c, "simple", "waiting")
    /\ at' = [at EXCEPT ![c] = IF answer[c].type = "text" THEN "ok" ELSE "failed"]
    /\ UNCHANGED <<vars, listening, sent, rSeen, connected>>

\* Mutant: any reply to a connect is taken for ok.
ConnectReturnsUnchecked(c) ==
    /\ Resumes(c, "connect", "waiting")
    /\ at' = [at EXCEPT ![c] = "ok"] /\ connected' = c
    /\ UNCHANGED <<vars, listening, sent, rSeen>>

ConnectReturns(c) ==
    /\ Resumes(c, "connect", "waiting")
    /\ IF answer[c].type = "ok"
       THEN at' = [at EXCEPT ![c] = "ok"] /\ connected' = c
       ELSE at' = [at EXCEPT ![c] = "failed"] /\ UNCHANGED connected
    /\ UNCHANGED <<vars, listening, sent, rSeen>>

\* Mutant: the random of the node is not kept.
OpensForgets(c) ==
    /\ Resumes(c, "verify", "waiting")
    /\ UNCHANGED <<connected, rSeen>>
    /\ IF answer[c].type = "response"
       THEN SendCmd(c, "verify", c, "opened")
       ELSE /\ at' = [at EXCEPT ![c] = "failed"]
            /\ UNCHANGED <<vars, listening, sent>>

\* verifyIdentity() has the answer to its challenge and opens the commitment.
Opens(c) ==
    /\ Resumes(c, "verify", "waiting")
    /\ UNCHANGED connected
    /\ IF answer[c].type = "response"
       THEN /\ rSeen' = [rSeen EXCEPT ![c] = answer[c].r]
            /\ SendCmd(c, "verify", c, "opened")
       ELSE /\ at' = [at EXCEPT ![c] = "failed"]
            /\ UNCHANGED <<vars, listening, sent, rSeen>>

\* Mutant: the answer to the opening is not verified.
VerifyReturnsUnchecked(c) ==
    /\ Resumes(c, "verify", "opened")
    /\ at' = [at EXCEPT ![c] = "ok"]
    /\ UNCHANGED <<vars, listening, sent, rSeen, connected>>

\* The signature must be one over both randoms.
VerifyReturns(c) ==
    /\ Resumes(c, "verify", "opened")
    /\ at' = [at EXCEPT ![c] =
                 IF answer[c] = Reply("proof", rSeen[c], c) THEN "ok" ELSE "failed"]
    /\ UNCHANGED <<vars, listening, sent, rSeen, connected>>

CallStep(c) ==
    \/ CallSimple(c) \/ CallConnect(c) \/ CallVerify(c)
    \/ Hashed(c) \/ Timeout(c)
    \/ SimpleReturns(c) \/ ConnectReturns(c) \/ Opens(c) \/ VerifyReturns(c)

\* What goes on at the node and between: the steps of DataChannel, less its sends.
ElseStep ==
    /\ \/ ClientCloses \/ ClientVanishes \/ ClientAcks
       \/ ServiceSends \/ ServiceEnds
       \/ PionStep \/ LoopStep \/ WriterStep \/ ReaderStep
    /\ UNCHANGED clientVars

ChannelInit == Init /\ ClientInit
ChannelNext == (\E c \in Key : CallStep(c)) \/ Event \/ ElseStep
ChannelSpec == ChannelInit /\ [][ChannelNext]_<<vars, clientVars>>

\* Timers fire, a hash is computed and a resolved promise goes on, in a tab that is
\* still there.
ClientFairness == \A c \in Key :
    WF_<<vars, clientVars>>(Hashed(c) \/ Timeout(c) \/ SimpleReturns(c)
                            \/ ConnectReturns(c) \/ Opens(c) \/ VerifyReturns(c))

ChannelFairSpec == ChannelSpec /\ ClientFairness

------------------------------------------------------------------------------
\* The values each variable takes.
ClientTypeOK ==
    /\ method \in [Key -> {"none", "simple", "verify", "connect"}]
    /\ at \in [Key -> {"idle", "ok", "failed"} \cup Active]
    /\ listening \subseteq Key
    /\ sent \in [Key -> Nat] /\ rSeen \in [Key -> Nat]
    /\ answer \in [Key -> Replies \cup {NoAnswer}]
    /\ got \in 0..Len(down)
    /\ connected \in Key \cup {NoKey}
    /\ overlap \in BOOLEAN /\ late \in BOOLEAN

\* The application awaits each call before the next, and none has timed out.
Orderly == ~overlap /\ ~late

\* Then the library is in pipe mode only over the connection that its connect()
\* asked for, ...
ModesAgree == Orderly /\ connected # NoKey => connectAt = sent[connected]

\* ... no command of the library reaches the TCP service, ...
CommandsStayOut == Orderly => toTcp = <<>>

\* ... and verifyIdentity() succeeds, unless the channel is closed or the node's
\* command loop has ended.
VerifyCompletes ==
    Orderly => \A c \in Key :
        method[c] = "verify" /\ at[c] = "failed" =>
            connected # NoKey \/ client # "open" \/ pc = "gone"

\* Whatever the application does, an identity is verified only by a proof made for
\* this call's challenge, whose response this call has seen.
VerifiedByOwnProof ==
    \A c \in Key : method[c] = "verify" /\ at[c] = "ok" =>
        \E i, j \in 1..got : /\ i < j
                             /\ down[i] = Reply("response", rSeen[c], c)
                             /\ down[j] = Reply("proof", rSeen[c], c)

\* A call that has returned listens no more, unless its send has failed.
NoStrayHandler ==
    client = "open" => \A c \in listening : at[c] \in {"waiting", "opened"}

\* In pipe mode the library sends no command, not even for a verifyIdentity() that
\* was under way.
PipeModeSilent == [][connected # NoKey => next' = next]_<<vars, clientVars>>

\* Every call returns, whatever the node and the network do.
CallsReturn ==
    \A c \in Key : (at[c] # "idle") ~> (at[c] \in {"ok", "failed"} \/ client = "vanished")

------------------------------------------------------------------------------
(* The inductive invariant: why the invariants above hold.                     *)

\* A call that waits has its handler set or its answer at hand, never both, and no
\* other call has an answer.
HandlersMatch ==
    \A c \in Key :
        /\ method[c] = "none" <=> at[c] = "idle"
        /\ at[c] \in {"hashing", "opened"} => method[c] = "verify"
        /\ at[c] \in {"waiting", "opened"} => (c \in listening <=> answer[c] = NoAnswer)
        /\ answer[c] # NoAnswer => at[c] \in {"waiting", "opened"}

\* An answer at hand is the last message that was an event.
AnswersHeard ==
    \A c \in Key : answer[c] # NoAnswer => got > 0 /\ answer[c] = down[got]

\* The library is in pipe mode only after an ok.
PipeOpen == connected # NoKey => conn # "none"

OneAtATime ==
    ~overlap => \A c, d \in Key : at[c] \in Active /\ at[d] \in Active => c = d

\* What the client has sent and the node has not taken.
Queued == {wire[i] : i \in 1..Len(wire)} \cup {buf[i] : i \in 1..Len(buf)}
          \cup {m \in {held} : rl = "holding"}

\* The bridge's connect command is the last command that was sent.
NothingAfterConnect ==
    Orderly => /\ next <= Taken + 1
               /\ pc = "dialing" \/ conn # "none" => connectAt = next

\* While commands can be sent, every command but the last is answered, ...
InStep == Orderly /\ client = "open" /\ connected = NoKey

Answered ==
    InStep => /\ got = IF listening = {} THEN next ELSE next - 1
              /\ \A c \in Key : at[c] \in {"waiting", "opened"} => sent[c] = next

\* (also once the channel is closed, an answer at hand is that to the call's command,
\* and in pipe mode none is awaited)
AnswersOwn ==
    Orderly => /\ \A c \in Key : answer[c] # NoAnswer => sent[c] = got
               /\ connected # NoKey /\ client = "open" => listening = {}

\* ... the last is that of the call that waits, ...
CommandOf(c) ==
    CASE method[c] = "simple"  -> [cmd : {"plain"}, key : {NoKey}]
      [] method[c] = "connect" -> [cmd : {"connect", "connectUnknown"}, key : {NoKey}]
      [] method[c] = "verify"  ->
            [cmd : {IF at[c] = "opened" THEN "verify" ELSE "challenge"}, key : {c}]

Asked ==
    InStep => \A m \in Queued : \E c \in listening :
                 [cmd |-> m.cmd, key |-> m.key] \in CommandOf(c)

\* ... a connect() waits for the node's dial, ...
ConnectWaits ==
    InStep /\ (pc = "dialing" \/ conn # "none") =>
        \E c \in Key : method[c] = "connect" /\ at[c] = "waiting"

\* ... and a verifyIdentity() for the answer that the node has sent or will send.
ProofDue ==
    InStep /\ pc = "cmd" => \A c \in Key : method[c] = "verify" =>
        /\ at[c] = "waiting" /\ Taken = next =>
              /\ down[next] = Reply("response", next, c)
              /\ commitment = c /\ rNode = next
        /\ at[c] = "opened" =>
              IF Taken = next THEN down[next] = Reply("proof", rSeen[c], c)
                              ELSE commitment = c /\ rNode = rSeen[c]

OrderlyInv ==
    /\ OneAtATime /\ NothingAfterConnect
    /\ Answered /\ AnswersOwn /\ Asked /\ ConnectWaits /\ ProofDue
    /\ ModesAgree /\ VerifyCompletes

ClientIInv ==
    /\ IInv
    /\ ClientTypeOK /\ HandlersMatch /\ NoStrayHandler
    /\ AnswersHeard /\ VerifiedByOwnProof /\ PipeOpen
    /\ OrderlyInv

------------------------------------------------------------------------------
(* What the documentation says and the code does not do. *)

\* client/src/index.ts:199 on connect(): "Connect this channel to a named TCP
\* service."  An application that awaits each call, and calls connect() again after a
\* time-out, has a channel to the service it asked for last.
ConnectsWhatWasAsked == ~overlap /\ connected # NoKey => connectAt = sent[connected]
==============================================================================
