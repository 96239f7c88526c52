--------------------------- MODULE OfferExchange ---------------------------
(***************************************************************************)
(* What POST /offer promises its caller, with no connection, lock, channel *)
(* or table in sight: a request is opened once, the addressed node may      *)
(* answer it once, and the request is then closed either with the answer    *)
(* that the node produced for this very request, or as a failure.  A late   *)
(* answer, produced after the failure, changes nothing for the caller.      *)
(*                                                                         *)
(* Coordinator.tla is shown to implement this module.                       *)
(***************************************************************************)
CONSTANTS Req,      \* the requests clients ever make
          NoReq     \* "no answer"

VARIABLES status,   \* what the caller of each request has seen so far
          answered, \* the requests the addressed node has answered
          result    \* the request whose answer was handed to the caller

vars == <<status, answered, result>>

Status == {"idle", "open", "answered", "failed"}

Init ==
    /\ status = [r \in Req |-> "idle"]
    /\ answered = {}
    /\ result = [r \in Req |-> NoReq]

Open(r) ==
    /\ status[r] = "idle"
    /\ status' = [status EXCEPT ![r] = "open"]
    /\ UNCHANGED <<answered, result>>

\* The coordinator rejects a malformed request outright.
Refuse(r) ==
    /\ status[r] = "idle"
    /\ status' = [status EXCEPT ![r] = "failed"]
    /\ UNCHANGED <<answered, result>>

NodeAnswers(r) ==
    /\ status[r] # "idle"
    /\ r \notin answered
    /\ answered' = answered \cup {r}
    /\ UNCHANGED <<status, result>>

Return(r) ==
    /\ status[r] = "open"
    /\ r \in answered
    /\ status' = [status EXCEPT ![r] = "answered"]
    /\ result' = [result EXCEPT ![r] = r]
    /\ UNCHANGED answered

Fail(r) ==
    /\ status[r] = "open"
    /\ status' = [status EXCEPT ![r] = "failed"]
    /\ UNCHANGED <<answered, result>>

Next == \E r \in Req :
    Open(r) \/ Refuse(r) \/ NodeAnswers(r) \/ Return(r) \/ Fail(r)

Spec == Init /\ [][Next]_vars
============================================================================
