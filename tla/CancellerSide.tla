---------------------------- MODULE CancellerSide -----------------------------
(* What one side of the echo canceller looks like from outside, however many *)
(* threads it has: frames wait in a queue, a size says that there is work,   *)
(* and a pass takes one frame and clears the size. Which thread passes, and  *)
(* which were stopped before it did, does not show.                          *)
EXTENDS Sequences

VARIABLES
    waiting,    \* the frames that wait, oldest first
    ready,      \* is the size set?
    results     \* the results not collected yet, oldest first

Init == waiting = <<>> /\ ready = FALSE /\ results = <<>>

Put ==
    /\ waiting' = Append(waiting, waiting'[Len(waiting')])
    /\ ready' = TRUE
    /\ UNCHANGED results

Pass ==
    /\ ready
    /\ ready' = FALSE
    /\ results' = Append(results, Head(waiting)) /\ waiting' = Tail(waiting)

Collect ==
    /\ results # <<>>
    /\ results' = Tail(results)
    /\ UNCHANGED <<waiting, ready>>

Next == Put \/ Pass \/ Collect

Spec == Init /\ [][Next]_<<waiting, ready, results>>

===============================================================================
