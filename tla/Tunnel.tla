------------------------------- MODULE Tunnel -------------------------------
(***************************************************************************)
(* What a data channel that has connected to a TCP service promises the two *)
(* ends, with no buffer, goroutine, callback or connection in sight: what    *)
(* the client sends after its connect command reaches the service in order,  *)
(* without a gap or a repetition, and what the service says reaches the        *)
(* client in the same way; and the tunnel ends only once an end has left.      *)
(* An end that leaves in an orderly way is waited for: all that it has sent    *)
(* comes through first, unless the tunnel breaks.  Nothing is promised of what  *)
(* is still on its way to the end that has left.                               *)
(*                                                                         *)
(* DataChannel.tla is shown to implement this module.                       *)
(***************************************************************************)
EXTENDS Naturals, Sequences

VARIABLES state,     \* "none", "up", or how it ended
          live,      \* the ends that have not left
          sent,      \* number of messages the client has sent, commands included
          start,     \* number of the connect command
          toService, \* the messages the service has got
          said,      \* number of chunks the service has said, and
          heard      \* those that the client has been sent

vars == <<state, live, sent, start, toService, said, heard>>

Init ==
    /\ state = "none" /\ live = {"client", "service"}
    /\ sent = 0 /\ start = 0 /\ toService = <<>>
    /\ said = 0 /\ heard = <<>>

Send ==
    /\ "client" \in live
    /\ sent' = sent + 1
    /\ UNCHANGED <<state, live, start, toService, said, heard>>

\* The node obeys one of the messages that the client has sent.
Open ==
    /\ state = "none"
    /\ state' = "up"
    /\ start' \in 1..sent
    /\ UNCHANGED <<live, sent, toService, said, heard>>

Upload ==
    /\ state # "none"
    /\ start + Len(toService) < sent
    /\ toService' = Append(toService, start + Len(toService) + 1)
    /\ UNCHANGED <<state, live, sent, start, said, heard>>

Say ==
    /\ state # "none" /\ "service" \in live
    /\ said' = said + 1
    /\ UNCHANGED <<state, live, sent, start, toService, heard>>

Hear ==
    /\ Len(heard) < said
    /\ heard' = Append(heard, Len(heard) + 1)
    /\ UNCHANGED <<state, live, sent, start, toService, said>>

Leave(end) ==
    /\ end \in live
    /\ end = "service" => state # "none"
    /\ live' = live \ {end}
    /\ UNCHANGED <<state, sent, start, toService, said, heard>>

EndsAs(how) ==
    /\ state = "up"
    /\ state' = how
    /\ UNCHANGED <<live, sent, start, toService, said, heard>>

ClientClosed ==
    /\ "client" \notin live /\ start + Len(toService) = sent
    /\ EndsAs("client closed")

ServiceClosed ==
    /\ "service" \notin live /\ Len(heard) = said
    /\ EndsAs("service closed")

Breaks ==
    /\ live # {"client", "service"}
    /\ EndsAs("broken")

Next ==
    \/ Send \/ Open \/ Upload \/ Say \/ Hear
    \/ Leave("client") \/ Leave("service")
    \/ ClientClosed \/ ServiceClosed \/ Breaks

Spec == Init /\ [][Next]_vars
=============================================================================
