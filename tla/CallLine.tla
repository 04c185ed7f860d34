------------------------------- MODULE CallLine -------------------------------
(***************************************************************************)
(* What call control promises, seen from outside: one line, taken by at    *)
(* most one call.  An incoming call gets the line only when it is free and *)
(* keeps it until it is released or an outgoing call that is being set up  *)
(* is answered; a call that is up is never replaced.                       *)
(***************************************************************************)
CONSTANTS Incoming, Outgoing, None

VARIABLES
    line,       \* the call that has the line, or None
    up          \* TRUE while media may flow

Init == line = None /\ up = FALSE

(* An incoming call takes the free line.                                   *)
Take == /\ line = None /\ ~up
        /\ line' \in Incoming
        /\ up' = FALSE

(* An outgoing call is answered; it may fail to come up.                    *)
Answered == /\ ~up
            /\ line' \in Outgoing
            /\ up' \in BOOLEAN

(* The call on the line comes up, or stops being up without being dropped.  *)
Connect == line # None /\ up' = TRUE /\ line' = line
Falter  == up /\ up' = FALSE /\ line' = line

Release == line' = None /\ up' = FALSE

Next == Take \/ Answered \/ Connect \/ Falter \/ Release

Spec == Init /\ [][Next]_<<line, up>>

===============================================================================
