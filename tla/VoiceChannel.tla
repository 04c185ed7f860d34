----------------------------- MODULE VoiceChannel -----------------------------
(* What each half of a call promises: what is heard was said before, and     *)
(* until the channel got into disorder never older than what was heard last. *)
(* Frames are numbered in the order they are said; any of them may be lost.  *)
EXTENDS Naturals

VARIABLES
    said,       \* how many frames were said
    heard,      \* the frame heard last
    disordered  \* did the channel get into disorder?

Init == said = 0 /\ heard = 0 /\ disordered = FALSE

Say == said' = said + 1 /\ UNCHANGED <<heard, disordered>>

Hear == /\ heard' \in 1..said
        /\ ~disordered => heard' >= heard
        /\ UNCHANGED <<said, disordered>>

Disorder == disordered' = TRUE /\ UNCHANGED <<said, heard>>

Next == Say \/ Hear \/ Disorder

Spec == Init /\ [][Next]_<<said, heard, disordered>>

===============================================================================
