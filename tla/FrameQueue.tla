------------------------------ MODULE FrameQueue ------------------------------
(* What a stage of the audio path promises: the frames put into it, numbered *)
(* in the order they came, leave it in that order, each one once.           *)
EXTENDS Naturals, Sequences

VARIABLES
    put,        \* the number of frames put in
    done        \* the frames that left, oldest first

Init == put = 0 /\ done = <<>>

Put == put' = put + 1 /\ UNCHANGED done

Deliver == /\ Len(done) < put
           /\ done' = Append(done, Len(done) + 1)
           /\ UNCHANGED put

Next == Put \/ Deliver

Spec == Init /\ [][Next]_<<put, done>>

===============================================================================
