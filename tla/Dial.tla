-------------------------------- MODULE Dial --------------------------------
(***************************************************************************)
(* How a client gets a peer connection to a node: dial and createChannel of *)
(* the client library (client/src/index.ts), the first half of cli-client,   *)
(* the listings of the coordinator and handleOffer of the node.  POST /offer *)
(* is the abstract OfferExchange, which Coordinator implements.              *)
(*                                                                         *)
(* One client: "dial" is the library, "cli" is cli-client --coordinator and *)
(* "signal" cli-client --signal, which posts its offer to a signalling       *)
(* server and far end that are not in this repository.  dial makes two tries, *)
(* the others one; the number of a try is also that of its peer connections   *)
(* and of its request.                                                       *)
(***************************************************************************)
EXTENDS Naturals

CONSTANT Node    \* the nodes that offer the service; ids in the order of the listing

ASSUME NodeAssumption == Node \subseteq Nat \ {0}

Try == 1..2
NoTry == 0
NoNode == 0
Client == {"dial", "cli", "signal"}
Live == {"connecting", "connected"}

VARIABLES
    who,      \* the client program
    at,       \* where it stands
    try,      \* number of the current try
    registry, \* c.nodes of the coordinator
    target,   \* the node that was picked from a listing or given with --node
    cpc,      \* the client's RTCPeerConnection of each try
    npc,      \* the node's PeerConnection for the offer of each try
    call,     \* a createChannel() of the application
    left,     \* the application has called node.close()
    status, answered, result  \* of OfferExchange

offerVars == <<status, answered, result>>
dialVars == <<who, at, try, registry, target, cpc, npc, call, left, offerVars>>

Offer == INSTANCE OfferExchange WITH Req <- Try, NoReq <- NoTry

TypeOK ==
    /\ who \in Client
    /\ at \in {"start", "gather", "answer", "opening", "up", "failed", "exit",
               "ack", "send", "reply", "passed"}
    /\ try \in Try \cup {NoTry}
    /\ registry \subseteq Node
    /\ target \in Node \cup {NoNode}
    /\ cpc \in [Try -> {"none", "new", "connecting", "connected", "failed", "closed"}]
    /\ npc \in [Try -> {"none", "gathering", "connecting", "connected", "failed", "error"}]
    /\ call \in {"none", "waiting", "open", "rejected"}
    /\ left \in BOOLEAN
    /\ status \in [Try -> Offer!Status]

DialInit ==
    /\ who \in Client
    /\ at = "start"
    /\ try = NoTry
    /\ registry \in SUBSET Node
    /\ target \in CASE who = "dial" -> Node [] who = "cli" -> Node \cup {NoNode}
                      [] OTHER -> {NoNode}
    /\ cpc = [i \in Try |-> "none"]
    /\ npc = [i \in Try |-> "none"]
    /\ call = "none"
    /\ left = FALSE
    /\ Offer!Init

------------------------------------------------------------------------------
(* The coordinator's registry. *)

NodeRegisters(n) ==
    /\ n \notin registry
    /\ registry' = registry \cup {n}
    /\ UNCHANGED <<who, at, try, target, cpc, npc, call, left, offerVars>>

NodeUnlisted(n) ==
    /\ n \in registry
    /\ registry' = registry \ {n}
    /\ UNCHANGED <<who, at, try, target, cpc, npc, call, left, offerVars>>

------------------------------------------------------------------------------
(* The client. *)

\* GET /services has the ids of a service in order.
IsFirstListed(n) == n \in registry /\ \A m \in registry : n <= m

\* The connection, its first channel and the local description; creating the offer may fail.
StartTry ==
    /\ at = "start"
    /\ try' = try + 1
    /\ cpc' = [cpc EXCEPT ![try'] = "new"]
    /\ at' \in {"gather", "failed"}
    /\ UNCHANGED <<who, registry, target, npc, call, left, offerVars>>

\* The cli, without --node, takes the first node of its service, or gives up when
\* there is none or no listing.
PickService ==
    /\ who = "cli" /\ at = "gather" /\ target = NoNode
    /\ \/ at' = "failed" /\ UNCHANGED target
       \/ (\E n \in Node : IsFirstListed(n) /\ target' = n) /\ UNCHANGED at
    /\ UNCHANGED <<who, try, registry, cpc, npc, call, left, offerVars>>

\* Candidates are gathered, or, on the first try of dial, 1 s is over.
PostOffer ==
    /\ at = "gather"
    /\ who = "cli" => target # NoNode
    /\ Offer!Open(try)
    /\ at' = "answer"
    /\ UNCHANGED <<who, try, registry, target, cpc, npc, call, left>>

\* 404, 502 or 504, or no connection to the coordinator.
OfferFails ==
    /\ at = "answer"
    /\ Offer!Fail(try)
    /\ at' = "failed"
    /\ UNCHANGED <<who, try, registry, target, cpc, npc, call, left>>

\* The answer is in; setRemoteDescription may reject it.
TakeAnswer ==
    /\ at = "answer"
    /\ Offer!Return(try)
    /\ \/ at' = "opening" /\ cpc' = [cpc EXCEPT ![try] = "connecting"]
       \/ at' = "failed" /\ UNCHANGED cpc
    /\ UNCHANGED <<who, try, registry, target, npc, call, left>>

ChannelOpens ==
    /\ at = "opening"
    /\ cpc[try] = "connected"
    /\ at' = "up"
    /\ UNCHANGED <<who, try, registry, target, cpc, npc, call, left, offerVars>>

\* An exit of cli-client with status 1; its connection goes with the process.
Exits ==
    /\ at' = "exit"
    /\ cpc' = [cpc EXCEPT ![try] = "closed"]

\* The cli waits 15 s for its channel.
OpenTimeout ==
    /\ who # "dial"
    /\ at = "opening"
    /\ Exits
    /\ UNCHANGED <<who, try, registry, target, npc, call, left, offerVars>>

\* dial has a second try; then the caller gets the error.  The cli exits at once.
TryFailed ==
    /\ at = "failed"
    /\ \/ who # "dial" /\ Exits
       \/ who = "dial" /\ at' = (IF try = 1 THEN "start" ELSE "exit") /\ UNCHANGED cpc
    /\ UNCHANGED <<who, try, registry, target, npc, call, left, offerVars>>

------------------------------------------------------------------------------
(* createChannel and node.close of the library, after dial has returned. *)

\* On a closed connection createDataChannel throws.
CreateChannel ==
    /\ who = "dial" /\ at = "up"
    /\ call # "waiting"
    /\ call' = IF cpc[try] = "closed" THEN "rejected" ELSE "waiting"
    /\ UNCHANGED <<who, at, try, registry, target, cpc, npc, left, offerVars>>

CreateOpens ==
    /\ call = "waiting"
    /\ cpc[try] = "connected"
    /\ call' = "open"
    /\ UNCHANGED <<who, at, try, registry, target, cpc, npc, left, offerVars>>

\* pc.close() fires no connectionstatechange: a createChannel that waits is not told.
AppCloses ==
    /\ who = "dial" /\ at = "up"
    /\ ~left
    /\ left' = TRUE
    /\ cpc' = [cpc EXCEPT ![try] = "closed"]
    /\ UNCHANGED <<who, at, try, registry, target, npc, call, offerVars>>

------------------------------------------------------------------------------
(* The node: handleOffer.  Nothing ever closes its peer connection. *)

NodeReceives(i) ==
    /\ status[i] = "open"
    /\ who = "signal" \/ target \in registry
    /\ npc[i] = "none"
    /\ npc' = [npc EXCEPT ![i] = "gathering"]
    /\ UNCHANGED <<who, at, try, registry, target, cpc, call, left, offerVars>>

\* The answer may come after the coordinator has given up.
NodeAnswers(i) ==
    /\ npc[i] = "gathering"
    /\ Offer!NodeAnswers(i)
    /\ npc' = [npc EXCEPT ![i] = "connecting"]
    /\ UNCHANGED <<who, at, try, registry, target, cpc, call, left>>

NodeRejects(i) ==
    /\ npc[i] = "gathering"
    /\ npc' = [npc EXCEPT ![i] = "error"]
    /\ UNCHANGED <<who, at, try, registry, target, cpc, call, left, offerVars>>

------------------------------------------------------------------------------
(* ICE and DTLS between the two ends (external). *)

IceConnects(i) ==
    /\ cpc[i] = "connecting"
    /\ npc[i] = "connecting"
    /\ cpc' = [cpc EXCEPT ![i] = "connected"]
    /\ npc' = [npc EXCEPT ![i] = "connected"]
    /\ UNCHANGED <<who, at, try, registry, target, call, left, offerVars>>

NodeIceFails(i) ==
    /\ npc[i] \in Live
    /\ npc' = [npc EXCEPT ![i] = "failed"]
    /\ UNCHANGED <<who, at, try, registry, target, cpc, call, left, offerVars>>

\* Mutant: dialOnce's listener rejects without closing pc, as on a connection that
\* is "disconnected" and may recover.
ClientIceFailsOpen(i) ==
    /\ cpc[i] \in Live
    /\ at' = IF at = "opening" /\ i = try /\ who = "dial" THEN "failed" ELSE at
    /\ call' = IF call = "waiting" /\ i = try THEN "rejected" ELSE call
    /\ cpc' = [cpc EXCEPT ![i] = IF at = "opening" THEN @ ELSE "failed"]
    /\ UNCHANGED <<who, try, registry, target, npc, left, offerVars>>

\* Mutant: dialOnce does not listen for a failure.
ClientIceFailsUnseen(i) ==
    /\ cpc[i] \in Live
    /\ call' = IF call = "waiting" /\ i = try THEN "rejected" ELSE call
    /\ cpc' = [cpc EXCEPT ![i] = IF who = "dial" THEN "closed" ELSE "failed"]
    /\ UNCHANGED <<who, at, try, registry, target, npc, left, offerVars>>

\* The listener of dialOnce closes pc, then that of createChannel rejects; both
\* outlive the calls that set them.  The cli has no listener.
ClientIceFails(i) ==
    /\ cpc[i] \in Live
    /\ at' = IF at = "opening" /\ i = try /\ who = "dial" THEN "failed" ELSE at
    /\ call' = IF call = "waiting" /\ i = try THEN "rejected" ELSE call
    /\ cpc' = [cpc EXCEPT ![i] = IF who = "dial" THEN "closed" ELSE "failed"]
    /\ UNCHANGED <<who, try, registry, target, npc, left, offerVars>>

------------------------------------------------------------------------------
ClientStep ==
    \/ StartTry \/ PostOffer \/ ChannelOpens \/ OpenTimeout \/ TryFailed
CoordinatorReplies == PickService \/ OfferFails \/ TakeAnswer
PeerStep(i) == IceConnects(i) \/ ClientIceFails(i)

DialNext ==
    \/ ClientStep \/ CoordinatorReplies \/ CreateChannel \/ CreateOpens \/ AppCloses
    \/ \E i \in Try : \/ PeerStep(i) \/ NodeIceFails(i)
                      \/ NodeReceives(i) \/ NodeAnswers(i) \/ NodeRejects(i)
    \/ \E n \in Node : NodeRegisters(n) \/ NodeUnlisted(n)

\* The client runs, its gathering of candidates ends, and ICE ends one way or the
\* other.  The client's own 1 s and 15 s timers are part of its steps.  Nothing is
\* assumed of the coordinator, the signalling server and the node.
DialFairness ==
    /\ WF_dialVars(ClientStep)
    /\ WF_dialVars(CreateOpens)
    /\ \A i \in Try : WF_dialVars(cpc[i] = "connecting" /\ PeerStep(i))

------------------------------------------------------------------------------
(* Safety and liveness. *)

\* A retry never runs beside a first try that still works: at most one connection of
\* the client is up or coming up.
OneLivePeer == \A i, j \in Try : cpc[i] \in Live /\ cpc[j] \in Live => i = j

\* The client has asked for the listing or sent its offer.  Neither fetch nor http.Get
\* and http.Post, as they are called, has a time-out.
AwaitsReply == at = "answer" \/ (at = "gather" /\ who = "cli" /\ target = NoNode)

\* dial settles, with a connection or an error, though its last wait has no timer and
\* it makes two tries: only a reply to one of its offers that never comes, and no error
\* of the connection to the coordinator, keep it waiting for ever.
DialSettles == at = "start" ~> (at \in {"up", "exit"} \/ []AwaitsReply)

\* createChannel settles, also on a connection that has failed before the call, unless
\* the application closes the connection meanwhile.
CreateSettles == call = "waiting" ~> (call # "waiting" \/ left)

------------------------------------------------------------------------------
(* What makes OneLivePeer inductive. *)

\* A try has a connection once it has begun, and a try that is over has lost it.
TryInv ==
    /\ \A i \in Try : i > try => cpc[i] = "none"
    /\ \A i \in Try : i < try => cpc[i] \notin Live
    /\ at \in {"start", "gather", "answer", "failed"} => \A i \in Try : cpc[i] \notin Live
    /\ at = "start" => try < 2
    /\ at # "start" => try \in Try
    /\ who # "dial" => try = IF at = "start" THEN NoTry ELSE 1
    /\ at \in {"ack", "send", "reply", "passed"} => who # "dial"
==============================================================================
