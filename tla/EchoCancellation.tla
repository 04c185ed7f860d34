--------------------------- MODULE EchoCancellation ---------------------------
(***************************************************************************)
(* The echo canceller's worker (jay.codec.EchoCancellation): the encoder   *)
(* hands it captured frames, the decoder played ones, under one monitor;   *)
(* MediaService stops and starts its thread around every call, and a       *)
(* stopped thread may still be there when the next one works.              *)
(*                                                                         *)
(* A synchronized block is one step; the loop test between two blocks is a *)
(* step of its own.  Frames are numbered in the order they are put.        *)
(***************************************************************************)
EXTENDS Integers, Sequences

CONSTANTS
    Threads,    \* the threads startThread may create (a bound)
    None,       \* Java's null
    MaxFrames   \* frames put in each direction (a bound)

ASSUME EchoAssumption == None \notin Threads /\ MaxFrames \in Nat

VARIABLES
    runner,     \* runner
    pc,         \* where each thread is
    interrupted,\* each thread's interrupt status
    capQ,       \* m_cap_q
    playQ,      \* m_play_q
    capReady,   \* CaptureSize # 0
    playReady,  \* PlaySize # 0
    captured,   \* the number of frames put into m_cap_q
    played,     \* the number of frames put into m_play_q
    out,        \* the frames ever added to m_out_q
    fed         \* the frames ever given to echo_playback

queues == <<capQ, playQ, capReady, playReady, captured, played, out, fed>>
vars   == <<runner, pc, interrupted, capQ, playQ, capReady, playReady,
            captured, played, out, fed>>

(* unstarted: not created yet; loop: at the while test; check: about to     *)
(* take the monitor for the idle test (also after wait() returned);         *)
(* waiting: in wait(); work: between the two synchronized blocks.           *)
Places == {"unstarted", "loop", "check", "waiting", "work", "done"}

(* A thread in wait() has no interrupt pending: interrupt() ends the wait   *)
(* and clears the status.                                                   *)
TypeOK ==
    /\ runner \in Threads \cup {None}
    /\ pc \in [Threads -> Places]
    /\ interrupted \in [Threads -> BOOLEAN]
    /\ \A t \in Threads : interrupted[t] => pc[t] \notin {"unstarted", "waiting"}
    /\ capReady \in BOOLEAN /\ playReady \in BOOLEAN
    /\ captured \in Nat /\ played \in Nat
    /\ capQ \in Seq(Nat) /\ playQ \in Seq(Nat)
    /\ out \in Seq(Nat) /\ fed \in Seq(Nat)

Init ==
    /\ runner = None
    /\ pc = [t \in Threads |-> "unstarted"]
    /\ interrupted = [t \in Threads |-> FALSE]
    /\ capQ = <<>> /\ playQ = <<>>
    /\ capReady = FALSE /\ playReady = FALSE
    /\ captured = 0 /\ played = 0
    /\ out = <<>> /\ fed = <<>>

-------------------------------------------------------------------------------
(* MediaService, on the user interface's thread: startAudio is stopThread   *)
(* (when there is a thread) and startThread, stopAudio is stopThread.       *)
StartThread ==
    /\ runner = None
    /\ \E t \in Threads : /\ pc[t] = "unstarted"
                          /\ runner' = t
                          /\ pc' = [pc EXCEPT ![t] = "loop"]
    /\ UNCHANGED <<interrupted, queues>>

(* (Variant used as a mutant: a flag of its own instead of interrupt().)    *)
Interrupt_FlagOnly(t) ==
    interrupted' = [interrupted EXCEPT ![t] = TRUE] /\ UNCHANGED pc

Interrupt(t) ==
    IF pc[t] = "waiting"
    THEN pc' = [pc EXCEPT ![t] = "check"] /\ UNCHANGED interrupted
    ELSE interrupted' = [interrupted EXCEPT ![t] = TRUE] /\ UNCHANGED pc

StopThread ==
    /\ runner # None
    /\ runner' = None
    /\ Interrupt(runner)
    /\ UNCHANGED queues

-------------------------------------------------------------------------------
(* The worker.                                                              *)
Idle == ~capReady /\ ~playReady

(* (Variant used as a mutant: while (true).)                                *)
Loop_Forever(t) ==
    /\ pc[t] = "loop"
    /\ pc' = [pc EXCEPT ![t] = "check"]
    /\ UNCHANGED <<runner, interrupted, queues>>

Loop(t) ==
    /\ pc[t] = "loop"
    /\ pc' = [pc EXCEPT ![t] = IF t = runner THEN "check" ELSE "done"]
    /\ UNCHANGED <<runner, interrupted, queues>>

(* wait() throws at once when an interrupt is pending; the handler goes     *)
(* round the inner loop, which never looks at runner.                       *)
Await(t) ==
    /\ pc[t] = "check" /\ Idle
    /\ IF interrupted[t]
       THEN interrupted' = [interrupted EXCEPT ![t] = FALSE] /\ UNCHANGED pc
       ELSE pc' = [pc EXCEPT ![t] = "waiting"] /\ UNCHANGED interrupted
    /\ UNCHANGED <<runner, queues>>

Proceed(t) ==
    /\ pc[t] = "check" /\ ~Idle
    /\ pc' = [pc EXCEPT ![t] = "work"]
    /\ UNCHANGED <<runner, interrupted, queues>>

(* (Variant used as a mutant: setIdle forgets PlaySize.)                    *)
SetIdle_CaptureOnly == capReady' = FALSE /\ UNCHANGED playReady
SetIdle == capReady' = FALSE /\ playReady' = FALSE

(* (Variant used as a mutant: the frame is looked at, not removed.)         *)
Cancel_Peeks ==
    IF capReady THEN out' = Append(out, Head(capQ)) /\ UNCHANGED capQ
                ELSE UNCHANGED <<out, capQ>>

(* One frame of each queue whose size is set, however many it holds.        *)
Cancel == IF capReady THEN out' = Append(out, Head(capQ)) /\ capQ' = Tail(capQ)
                      ELSE UNCHANGED <<out, capQ>>

(* (Variant used as a mutant: played frames are taken from the wrong end.)  *)
Feed_Latest ==
    IF playReady
    THEN /\ fed' = Append(fed, playQ[Len(playQ)])
         /\ playQ' = SubSeq(playQ, 1, Len(playQ) - 1)
    ELSE UNCHANGED <<fed, playQ>>

Feed == IF playReady THEN fed' = Append(fed, Head(playQ)) /\ playQ' = Tail(playQ)
                     ELSE UNCHANGED <<fed, playQ>>

Work(t) ==
    /\ pc[t] = "work"
    /\ Cancel /\ Feed /\ SetIdle
    /\ pc' = [pc EXCEPT ![t] = "loop"]
    /\ UNCHANGED <<runner, interrupted, captured, played>>

-------------------------------------------------------------------------------
(* putData, from the encoder (TRUE) and the decoder (FALSE); both get their *)
(* canceller from MediaService once its thread was started.                 *)
Waiting == {t \in Threads : pc[t] = "waiting"}
Started == \E t \in Threads : pc[t] # "unstarted"

(* notify() wakes any one waiting thread, a stopped one as well.            *)
(* (Variant used as a mutant: no notify.)                                   *)
Notify_Missing == UNCHANGED pc
Notify ==
    \/ Waiting = {} /\ UNCHANGED pc
    \/ \E t \in Waiting : pc' = [pc EXCEPT ![t] = "check"]

PutCapture ==
    /\ Started /\ captured < MaxFrames
    /\ captured' = captured + 1
    /\ capQ' = Append(capQ, captured + 1)
    /\ capReady' = TRUE
    /\ Notify
    /\ UNCHANGED <<runner, interrupted, playQ, playReady, played, out, fed>>

PutPlay ==
    /\ Started /\ played < MaxFrames
    /\ played' = played + 1
    /\ playQ' = Append(playQ, played + 1)
    /\ playReady' = TRUE
    /\ Notify
    /\ UNCHANGED <<runner, interrupted, capQ, capReady, captured, out, fed>>

-------------------------------------------------------------------------------
Step(t) == Loop(t) \/ Await(t) \/ Proceed(t) \/ Work(t)

Next == \/ StartThread \/ StopThread \/ PutCapture \/ PutPlay
        \/ \E t \in Threads : Step(t)

Spec == Init /\ [][Next]_vars

(* The scheduler runs every thread that can run.                            *)
FairSpec == Spec /\ \A t \in Threads : WF_vars(Step(t))

-------------------------------------------------------------------------------
(* removeFirst() never meets an empty queue: a size that is set stands for  *)
(* a frame in its queue, also when two threads work and when several frames *)
(* were put before one pass.                                                *)
QueuedWhenReady ==
    /\ capReady => capQ # <<>>
    /\ playReady => playQ # <<>>

(* The current thread is not one that has not begun or has ended.           *)
RunnerAlive == runner # None => pc[runner] \notin {"unstarted", "done"}

(* No lost wake-up: while a thread is meant to run and there is work, some  *)
(* thread is on its way to it, though notify() may have woken a thread      *)
(* stopped long ago and the interrupt of a stop may end any wait.           *)
NoLostWakeup ==
    runner # None /\ ~Idle =>
        \E t \in Threads : \/ pc[t] \in {"check", "work"}
                           \/ t = runner /\ pc[t] = "loop"

(* Captured frames leave the canceller in order and once each; so do played *)
(* frames.                                                                  *)
Capture  == INSTANCE FrameQueue WITH put <- captured, done <- out
Playback == INSTANCE FrameQueue WITH put <- played, done <- fed
InOrder == Capture!Spec /\ Playback!Spec

(* A queue never catches up: the frames beyond the one its size stands for  *)
(* stay behind for good, and each frame that is put before the last one was *)
(* taken delays all later ones by one more.                                 *)
Lag(queue, ready) == Len(queue) - (IF ready THEN 1 ELSE 0)
Late(put, ready) == IF put' # put /\ ready THEN 1 ELSE 0
LagGrows ==
    [][/\ Lag(capQ, capReady)' = Lag(capQ, capReady) + Late(captured, capReady)
       /\ Lag(playQ, playReady)' = Lag(playQ, playReady) + Late(played, playReady)]_vars

(* While it is not stopped, the worker gets to the frames it was given.     *)
Served == (runner # None /\ ~Idle) ~> (runner = None \/ Idle)

(* A stopped thread that was woken makes one last pass and ends: it does    *)
(* not compete with its successor for ever.                                 *)
StoppedEnds ==
    \A t \in Threads : (pc[t] = "work" /\ t # runner) ~> pc[t] = "done"

===============================================================================
