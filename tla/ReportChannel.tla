--------------------------- MODULE ReportChannel ---------------------------
(***************************************************************************)
(* What a HID handle promises to the threads that use it: the reports the  *)
(* unit sends arrive once and in order.  Reports are lost in three ways    *)
(* only: the oldest one, when more than Limit are under way; those the     *)
(* unit had not sent when it was unplugged; and all of them at the close.  *)
(***************************************************************************)
EXTENDS Naturals, Sequences

CONSTANTS
    Users,      \* threads that use the handle
    Requests,   \* what they may ask; a report answers one request
    Limit,      \* reports kept for users who do not read
    None,       \* "no result yet"
    Failed      \* the result -1

VARIABLES
    chan,       \* reports on their way, oldest first
    got,        \* result of each user's last read
    phase       \* "up", then "unplugged" and "closed", or "closed" at once

vars == <<chan, got, phase>>

Init ==
    /\ chan = <<>>
    /\ got = [u \in Users |-> None]
    /\ phase = "up"

\* User u sends a request; the unit answers it, or the request is lost.
Ask(u) ==
    /\ got' = [got EXCEPT ![u] = None]
    /\ \/ UNCHANGED chan
       \/ phase = "up" /\ \E r \in Requests : chan' = Append(chan, r)
    /\ UNCHANGED phase

Take(u) ==
    /\ chan # <<>>
    /\ got' = [got EXCEPT ![u] = Head(chan)]
    /\ chan' = Tail(chan)
    /\ UNCHANGED phase

Fail(u) ==
    /\ got' = [got EXCEPT ![u] = Failed]
    /\ UNCHANGED <<chan, phase>>

ShedOldest ==
    /\ Len(chan) > Limit
    /\ chan' = Tail(chan)
    /\ UNCHANGED <<got, phase>>

\* The unit is unplugged or the handle closed: the end of the channel is lost.
Cut ==
    /\ <<phase, phase'>> \in {<<"up", "unplugged">>, <<"up", "closed">>,
                              <<"unplugged", "closed">>}
    /\ \E n \in 0 .. Len(chan) : chan' = SubSeq(chan, 1, n)
    /\ UNCHANGED got

Next ==
    \/ \E u \in Users : Ask(u) \/ Take(u) \/ Fail(u)
    \/ ShedOldest
    \/ Cut

Spec == Init /\ [][Next]_vars

=============================================================================
