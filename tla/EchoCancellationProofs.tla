------------------------ MODULE EchoCancellationProofs ------------------------
(* Theorems about EchoCancellation, for every number of threads and frames. *)
EXTENDS EchoCancellation, SequenceTheorems, TLAPS

(* notify() moves at most one thread, out of wait().                        *)
LEMMA NotifyType ==
    ASSUME TypeOK, Notify
    PROVE  /\ pc' \in [Threads -> Places]
           /\ \A t \in Threads : \/ pc'[t] = pc[t]
                                 \/ pc[t] = "waiting" /\ pc'[t] = "check"
<1>1. CASE UNCHANGED pc
  BY <1>1 DEF TypeOK
<1>2. ASSUME NEW t \in Threads, pc[t] = "waiting", pc' = [pc EXCEPT ![t] = "check"]
      PROVE  /\ pc' \in [Threads -> Places]
             /\ \A u \in Threads : \/ pc'[u] = pc[u]
                                   \/ pc[u] = "waiting" /\ pc'[u] = "check"
  BY <1>2 DEF TypeOK, Places
<1>3. QED
  BY <1>1, <1>2 DEF Notify, Waiting

(* Moving one thread, which then does not wait, keeps the typing of the     *)
(* threads.                                                                 *)
LEMMA MovedType ==
    ASSUME TypeOK, NEW t \in Threads, NEW p \in Places \ {"unstarted", "waiting"},
           pc' = [pc EXCEPT ![t] = p], UNCHANGED interrupted
    PROVE  /\ pc' \in [Threads -> Places]
           /\ interrupted' \in [Threads -> BOOLEAN]
           /\ \A u \in Threads : interrupted'[u] => pc'[u] \notin {"unstarted", "waiting"}
<1>1. pc' \in [Threads -> Places]
  BY DEF TypeOK
<1>2. interrupted' \in [Threads -> BOOLEAN]
  BY Zenon DEF TypeOK
<1>3. \A u \in Threads : interrupted'[u] => pc'[u] \notin {"unstarted", "waiting"}
  BY DEF TypeOK
<1>4. QED
  BY <1>1, <1>2, <1>3

LEMMA ControlType ==
    ASSUME TypeOK, UNCHANGED queues,
           runner' \in Threads \cup {None},
           pc' \in [Threads -> Places],
           interrupted' \in [Threads -> BOOLEAN],
           \A u \in Threads : interrupted'[u] => pc'[u] \notin {"unstarted", "waiting"}
    PROVE  TypeOK'
<1>1. capReady' \in BOOLEAN /\ playReady' \in BOOLEAN
  BY Zenon DEF TypeOK, queues
<1>2. QED
  BY <1>1 DEF TypeOK, queues

LEMMA StartType ==
    ASSUME TypeOK, StartThread
    PROVE  TypeOK'
<1>1. PICK t \in Threads : pc[t] = "unstarted" /\ runner' = t
                           /\ pc' = [pc EXCEPT ![t] = "loop"]
  BY DEF StartThread
<1>2. "loop" \in Places \ {"unstarted", "waiting"} /\ UNCHANGED <<interrupted, queues>>
  BY DEF Places, StartThread
<1>3. QED
  BY <1>1, <1>2, MovedType, ControlType

LEMMA StopType ==
    ASSUME TypeOK, RunnerAlive, StopThread
    PROVE  TypeOK'
<1>1. runner \in Threads /\ pc[runner] # "unstarted" /\ UNCHANGED queues
  BY DEF StopThread, TypeOK, RunnerAlive
<1>2. CASE pc[runner] = "waiting"
  <2>1. "check" \in Places \ {"unstarted", "waiting"}
    BY DEF Places
  <2>2. QED
    BY <1>1, <1>2, <2>1, MovedType, ControlType DEF StopThread, Interrupt
<1>3. CASE pc[runner] # "waiting"
  <2>1. interrupted' = [interrupted EXCEPT ![runner] = TRUE] /\ UNCHANGED pc
    BY <1>3 DEF StopThread, Interrupt
  <2>2. interrupted' \in [Threads -> BOOLEAN]
    BY <1>1, <2>1, Zenon DEF TypeOK
  <2>3. \A u \in Threads : u # runner => interrupted'[u] = interrupted[u]
    BY <2>1, Zenon DEF TypeOK
  <2>4. \A u \in Threads : interrupted'[u] => pc'[u] \notin {"unstarted", "waiting"}
    BY <1>1, <1>3, <2>1, <2>3 DEF TypeOK
  <2>5. QED
    BY <1>1, <2>1, <2>2, <2>4, ControlType DEF StopThread, TypeOK
<1>4. QED
  BY <1>2, <1>3

LEMMA AwaitType ==
    ASSUME TypeOK, NEW t \in Threads, Await(t)
    PROVE  TypeOK'
<1>1. UNCHANGED <<runner, queues>>
  BY DEF Await
<1>2. CASE interrupted[t]
  <2>1. interrupted' = [interrupted EXCEPT ![t] = FALSE] /\ UNCHANGED pc
    BY <1>2 DEF Await
  <2>2. interrupted' \in [Threads -> BOOLEAN]
    BY <2>1, Zenon DEF TypeOK
  <2>3. \A u \in Threads : interrupted'[u] => interrupted[u]
    BY <2>1, Zenon DEF TypeOK
  <2>4. QED
    BY <1>1, <2>1, <2>2, <2>3, ControlType DEF TypeOK
<1>3. CASE ~interrupted[t]
  <2>1. pc' = [pc EXCEPT ![t] = "waiting"] /\ UNCHANGED interrupted
    BY <1>3 DEF Await
  <2>2. pc' \in [Threads -> Places]
    BY <2>1 DEF TypeOK, Places
  <2>3. interrupted' \in [Threads -> BOOLEAN]
    BY <2>1, Zenon DEF TypeOK
  <2>4. \A u \in Threads : interrupted'[u] => pc'[u] \notin {"unstarted", "waiting"}
    BY <1>3, <2>1 DEF TypeOK
  <2>5. QED
    BY <1>1, <2>2, <2>3, <2>4, ControlType DEF TypeOK
<1>4. QED
  BY <1>2, <1>3

LEMMA WorkType ==
    ASSUME TypeOK, QueuedWhenReady, NEW t \in Threads, Work(t)
    PROVE  TypeOK'
<1>1. capReady' \in BOOLEAN /\ playReady' \in BOOLEAN
  BY Zenon DEF Work, SetIdle
<1>2. out' \in Seq(Nat) /\ capQ' \in Seq(Nat)
  <2>1. CASE capReady
    <3>1. capQ \in Seq(Nat) /\ capQ # <<>> /\ out \in Seq(Nat)
      BY <2>1 DEF TypeOK, QueuedWhenReady
    <3>2. Head(capQ) \in Nat /\ Tail(capQ) \in Seq(Nat)
      BY <3>1, HeadTailProperties
    <3>3. Append(out, Head(capQ)) \in Seq(Nat)
      BY <3>1, <3>2, AppendProperties
    <3>4. out' = Append(out, Head(capQ)) /\ capQ' = Tail(capQ)
      BY <2>1 DEF Work, Cancel
    <3>5. QED
      BY <3>2, <3>3, <3>4
  <2>2. CASE ~capReady
    BY <2>2 DEF Work, Cancel, TypeOK
  <2>3. QED
    BY <2>1, <2>2
<1>3. fed' \in Seq(Nat) /\ playQ' \in Seq(Nat)
  <2>1. CASE playReady
    <3>1. playQ \in Seq(Nat) /\ playQ # <<>> /\ fed \in Seq(Nat)
      BY <2>1 DEF TypeOK, QueuedWhenReady
    <3>2. Head(playQ) \in Nat /\ Tail(playQ) \in Seq(Nat)
      BY <3>1, HeadTailProperties
    <3>3. Append(fed, Head(playQ)) \in Seq(Nat)
      BY <3>1, <3>2, AppendProperties
    <3>4. fed' = Append(fed, Head(playQ)) /\ playQ' = Tail(playQ)
      BY <2>1 DEF Work, Feed
    <3>5. QED
      BY <3>2, <3>3, <3>4
  <2>2. CASE ~playReady
    BY <2>2 DEF Work, Feed, TypeOK
  <2>3. QED
    BY <2>1, <2>2
<1>4. "loop" \in Places \ {"unstarted", "waiting"}
  BY DEF Places
<1>5. /\ pc' \in [Threads -> Places]
      /\ interrupted' \in [Threads -> BOOLEAN]
      /\ \A u \in Threads : interrupted'[u] => pc'[u] \notin {"unstarted", "waiting"}
  BY <1>4, MovedType DEF Work
<1>6. QED
  BY <1>1, <1>2, <1>3, <1>5 DEF Work, TypeOK

LEMMA PutType ==
    ASSUME TypeOK, PutCapture \/ PutPlay
    PROVE  TypeOK'
<1>1. pc' \in [Threads -> Places] /\ UNCHANGED <<runner, interrupted>>
  BY NotifyType DEF PutCapture, PutPlay
<1>2. interrupted' \in [Threads -> BOOLEAN]
  BY <1>1, Zenon DEF TypeOK
<1>3. \A u \in Threads : interrupted'[u] => pc'[u] \notin {"unstarted", "waiting"}
  BY <1>1, NotifyType DEF PutCapture, PutPlay, TypeOK
<1>4. capReady' \in BOOLEAN /\ playReady' \in BOOLEAN
  <2>1. CASE PutCapture
    BY <2>1, Zenon DEF PutCapture, TypeOK
  <2>2. CASE PutPlay
    BY <2>2, Zenon DEF PutPlay, TypeOK
  <2>3. QED
    BY <2>1, <2>2
<1>5. /\ captured' \in Nat /\ played' \in Nat
      /\ capQ' \in Seq(Nat) /\ playQ' \in Seq(Nat)
      /\ out' \in Seq(Nat) /\ fed' \in Seq(Nat)
  <2>1. /\ captured \in Nat /\ played \in Nat
        /\ capQ \in Seq(Nat) /\ playQ \in Seq(Nat)
        /\ out \in Seq(Nat) /\ fed \in Seq(Nat)
    BY DEF TypeOK
  <2>2. captured + 1 \in Nat /\ played + 1 \in Nat
    BY <2>1
  <2>3. CASE PutCapture
    <3>1. Append(capQ, captured + 1) \in Seq(Nat)
      BY <2>1, <2>2, AppendProperties
    <3>2. QED
      BY <2>1, <2>2, <2>3, <3>1 DEF PutCapture
  <2>4. CASE PutPlay
    <3>1. Append(playQ, played + 1) \in Seq(Nat)
      BY <2>1, <2>2, AppendProperties
    <3>2. QED
      BY <2>1, <2>2, <2>4, <3>1 DEF PutPlay
  <2>5. QED
    BY <2>3, <2>4
<1>6. QED
  BY <1>1, <1>2, <1>3, <1>4, <1>5 DEF TypeOK

(* The sizes and the queues.                                                *)
LEMMA StepQueued ==
    ASSUME TypeOK, QueuedWhenReady, [Next]_vars
    PROVE  QueuedWhenReady'
<1>1. CASE UNCHANGED queues
  BY <1>1 DEF queues, QueuedWhenReady
<1>2. ASSUME NEW t \in Threads, Work(t)
      PROVE  QueuedWhenReady'
  BY <1>2 DEF Work, SetIdle, QueuedWhenReady
<1>3. CASE PutCapture
  <2>1. capQ \in Seq(Nat) /\ captured + 1 \in Nat
    BY DEF TypeOK
  <2>2. Append(capQ, captured + 1) # <<>>
    BY ONLY <2>1, AppendProperties
  <2>3. QED
    BY <1>3, <2>2 DEF PutCapture, QueuedWhenReady
<1>4. CASE PutPlay
  <2>1. playQ \in Seq(Nat) /\ played + 1 \in Nat
    BY DEF TypeOK
  <2>2. Append(playQ, played + 1) # <<>>
    BY ONLY <2>1, AppendProperties
  <2>3. QED
    BY <1>4, <2>2 DEF PutPlay, QueuedWhenReady
<1>5. QED
  BY <1>1, <1>2, <1>3, <1>4
     DEF Next, vars, queues, StartThread, StopThread, Step, Loop, Await, Proceed

(* The current thread lives, and somebody is on the way to the work.        *)
LEMMA StepAlive ==
    ASSUME TypeOK, RunnerAlive, NoLostWakeup, [Next]_vars
    PROVE  RunnerAlive' /\ NoLostWakeup'
<1>1. CASE UNCHANGED vars
  BY <1>1 DEF vars, RunnerAlive, NoLostWakeup, Idle
<1>2. CASE StartThread
  <2>1. PICK t \in Threads : runner' = t /\ pc' = [pc EXCEPT ![t] = "loop"]
    BY <1>2 DEF StartThread
  <2>2. pc'[t] = "loop"
    BY <2>1 DEF TypeOK
  <2>3. QED
    BY <2>1, <2>2 DEF RunnerAlive, NoLostWakeup
<1>3. CASE StopThread
  BY <1>3 DEF StopThread, RunnerAlive, NoLostWakeup
<1>4. ASSUME NEW t \in Threads, Loop(t)
      PROVE  RunnerAlive' /\ NoLostWakeup'
  <2>1. /\ pc'[t] = IF t = runner THEN "check" ELSE "done"
        /\ \A u \in Threads : u # t => pc'[u] = pc[u]
        /\ UNCHANGED <<runner, capReady, playReady>>
    BY <1>4 DEF Loop, queues, TypeOK
  <2>2. RunnerAlive'
    BY <2>1 DEF RunnerAlive, TypeOK
  <2>3. NoLostWakeup'
    <3>1. SUFFICES ASSUME runner # None, ~Idle
                   PROVE  \E u \in Threads : \/ pc'[u] \in {"check", "work"}
                                             \/ u = runner /\ pc'[u] = "loop"
      BY <2>1 DEF NoLostWakeup, Idle
    <3>2. PICK u \in Threads : \/ pc[u] \in {"check", "work"}
                               \/ u = runner /\ pc[u] = "loop"
      BY <3>1 DEF NoLostWakeup
    <3>3. QED
      BY <1>4, <2>1, <3>2 DEF Loop
  <2>4. QED
    BY <2>2, <2>3
<1>5. ASSUME NEW t \in Threads, Await(t)
      PROVE  RunnerAlive' /\ NoLostWakeup'
  <2>1. Idle' /\ \A u \in Threads : pc'[u] \in {pc[u], "waiting"}
    BY <1>5 DEF Await, queues, Idle, TypeOK
  <2>2. QED
    BY <1>5, <2>1 DEF Await, RunnerAlive, NoLostWakeup, TypeOK
<1>6. ASSUME NEW t \in Threads, Proceed(t)
      PROVE  RunnerAlive' /\ NoLostWakeup'
  <2>1. pc'[t] = "work" /\ \A u \in Threads : u # t => pc'[u] = pc[u]
    BY <1>6 DEF Proceed, TypeOK
  <2>2. QED
    BY <1>6, <2>1 DEF Proceed, RunnerAlive, NoLostWakeup
<1>7. ASSUME NEW t \in Threads, Work(t)
      PROVE  RunnerAlive' /\ NoLostWakeup'
  <2>1. Idle' /\ \A u \in Threads : pc'[u] \in {pc[u], "loop"}
    BY <1>7 DEF Work, SetIdle, Idle, TypeOK
  <2>2. QED
    BY <1>7, <2>1 DEF Work, RunnerAlive, NoLostWakeup, TypeOK
<1>8. CASE PutCapture \/ PutPlay
  <2>1. Notify /\ UNCHANGED runner
    BY <1>8 DEF PutCapture, PutPlay
  <2>2. RunnerAlive'
    BY <2>1, NotifyType DEF RunnerAlive, TypeOK
  <2>3. CASE Waiting = {}
    (* Nobody waits, so the current thread is at the test or beyond it.     *)
    <3>1. runner # None => runner \in Threads /\ pc[runner] \in {"loop", "check", "work"}
      BY <2>3 DEF Waiting, RunnerAlive, TypeOK, Places
    <3>2. pc' = pc
      BY <2>1, <2>3 DEF Notify
    <3>3. QED
      BY <2>1, <2>2, <3>1, <3>2 DEF NoLostWakeup
  <2>4. CASE Waiting # {}
    <3>1. PICK t \in Threads : pc' = [pc EXCEPT ![t] = "check"]
      BY <2>1, <2>4 DEF Notify, Waiting
    <3>2. pc'[t] = "check"
      BY <3>1 DEF TypeOK
    <3>3. QED
      BY <2>2, <3>2 DEF NoLostWakeup
  <2>5. QED
    BY <2>3, <2>4
<1>9. QED
  BY <1>1, <1>2, <1>3, <1>4, <1>5, <1>6, <1>7, <1>8 DEF Next, Step

EchoInv == TypeOK /\ QueuedWhenReady /\ RunnerAlive /\ NoLostWakeup

LEMMA EchoInvariant == Spec => []EchoInv
<1>1. Init => EchoInv
  <2>1. SUFFICES ASSUME Init
                 PROVE  EchoInv
    OBVIOUS
  <2>2. capReady \in BOOLEAN /\ playReady \in BOOLEAN
    BY <2>1, Zenon DEF Init
  <2>3. /\ interrupted \in [Threads -> BOOLEAN]
        /\ \A t \in Threads : ~interrupted[t]
    BY <2>1, Zenon DEF Init
  <2>4. TypeOK
    BY <2>1, <2>2, <2>3 DEF Init, TypeOK, Places
  <2>5. QED
    BY <2>1, <2>4 DEF Init, EchoInv, QueuedWhenReady, RunnerAlive, NoLostWakeup
<1>2. EchoInv /\ [Next]_vars => EchoInv'
  <2>1. SUFFICES ASSUME EchoInv, [Next]_vars
                 PROVE  EchoInv'
    OBVIOUS
  <2>2. TypeOK'
    <3>1. ASSUME NEW t \in Threads, Step(t)
          PROVE  TypeOK'
      <4>1. CASE Loop(t) \/ Proceed(t)
        <5>1. PICK p \in Places \ {"unstarted", "waiting"} :
                 pc' = [pc EXCEPT ![t] = p]
          BY <4>1 DEF Loop, Proceed, Places
        <5>2. UNCHANGED <<runner, interrupted, queues>>
          BY <4>1 DEF Loop, Proceed
        <5>3. QED
          BY <2>1, <5>1, <5>2, MovedType, ControlType DEF EchoInv, TypeOK
      <4>2. QED
        BY <2>1, <3>1, <4>1, AwaitType, WorkType DEF EchoInv, Step
    <3>2. CASE UNCHANGED vars
      BY <2>1, <3>2, ControlType DEF vars, queues, EchoInv, TypeOK
    <3>3. QED
      BY <2>1, <3>1, <3>2, StartType, StopType, PutType DEF EchoInv, Next
  <2>3. QED
    BY <2>1, <2>2, StepQueued, StepAlive DEF EchoInv
<1>3. QED
  BY <1>1, <1>2, PTL DEF Spec

(* The threads, the monitor and the queues keep their types, and no thread  *)
(* waits with an interrupt pending.                                         *)
THEOREM EchoTypeCorrect == Spec => []TypeOK
  BY EchoInvariant, PTL DEF EchoInv

(* removeFirst() of a pass never meets an empty queue.                      *)
THEOREM EchoQueuesCorrect == Spec => []QueuedWhenReady
  BY EchoInvariant, PTL DEF EchoInv

(* While a thread is meant to run and there is work, some thread is on its  *)
(* way to it, whichever thread notify() picked and whatever was stopped and *)
(* started in between.                                                      *)
THEOREM EchoWakeupsCorrect == Spec => []NoLostWakeup
  BY EchoInvariant, PTL DEF EchoInv

-------------------------------------------------------------------------------
(* The order of the frames.                                                 *)

(* The queue q holds the frames up to the n-th that o does not have yet.    *)
Rest(q, n, o) ==
    /\ Len(o) + Len(q) = n
    /\ \A k \in 1 .. Len(q) : q[k] = Len(o) + k

LEMMA RestAfterPut ==
    ASSUME NEW q \in Seq(Nat), NEW o \in Seq(Nat), NEW n \in Nat, Rest(q, n, o)
    PROVE  Rest(Append(q, n + 1), n + 1, o)
<1>1. Len(q) \in Nat /\ Len(o) \in Nat
  BY LenProperties
<1>2. /\ Len(Append(q, n + 1)) = Len(q) + 1
      /\ \A k \in 1 .. Len(q) : Append(q, n + 1)[k] = q[k]
      /\ Append(q, n + 1)[Len(q) + 1] = n + 1
  <2>1. n + 1 \in Nat
    OBVIOUS
  <2>2. QED
    BY <2>1, AppendProperties
<1>3. ASSUME NEW k \in 1 .. Len(Append(q, n + 1))
      PROVE  Append(q, n + 1)[k] = Len(o) + k
  <2>1. CASE k = Len(q) + 1
    BY <1>1, <1>2, <2>1 DEF Rest
  <2>2. CASE k # Len(q) + 1
    <3>1. k \in 1 .. Len(q)
      BY <1>1, <1>2, <2>2
    <3>2. QED
      BY <1>2, <3>1 DEF Rest
  <2>3. QED
    BY <2>1, <2>2
<1>4. QED
  BY <1>1, <1>2, <1>3 DEF Rest

LEMMA RestAfterTake ==
    ASSUME NEW q \in Seq(Nat), NEW o \in Seq(Nat), NEW n \in Nat, Rest(q, n, o),
           q # <<>>
    PROVE  /\ Rest(Tail(q), n, Append(o, Head(q)))
           /\ Head(q) = Len(o) + 1
           /\ Len(o) < n
<1>1. Len(q) \in Nat \ {0} /\ Len(o) \in Nat
  BY LenProperties, EmptySeq
<1>2. Head(q) = q[1] /\ Head(q) \in Nat
  BY HeadTailProperties
<1>3. /\ Len(Tail(q)) = Len(q) - 1
      /\ \A k \in 1 .. Len(Tail(q)) : Tail(q)[k] = q[k + 1]
  BY HeadTailProperties
<1>4. Len(Append(o, Head(q))) = Len(o) + 1
  BY <1>2, AppendProperties
<1>5. Head(q) = Len(o) + 1 /\ Len(o) < n
  BY <1>1, <1>2 DEF Rest
<1>6. Rest(Tail(q), n, Append(o, Head(q)))
  <2>1. Len(Append(o, Head(q))) + Len(Tail(q)) = n
    BY <1>1, <1>3, <1>4 DEF Rest
  <2>2. ASSUME NEW k \in 1 .. Len(Tail(q))
        PROVE  Tail(q)[k] = Len(Append(o, Head(q))) + k
    <3>1. k + 1 \in 1 .. Len(q) /\ k \in Nat
      BY <1>1, <1>3
    <3>2. q[k + 1] = Len(o) + (k + 1)
      BY <3>1 DEF Rest
    <3>3. QED
      BY <1>1, <1>3, <1>4, <3>1, <3>2
  <2>3. QED
    BY <2>1, <2>2 DEF Rest
<1>7. QED
  BY <1>5, <1>6

LEMMA RestKept ==
    ASSUME TypeOK, QueuedWhenReady, Rest(capQ, captured, out),
           Rest(playQ, played, fed), [Next]_vars
    PROVE  /\ Rest(capQ, captured, out)' /\ Rest(playQ, played, fed)'
           /\ [Capture!Next]_<<captured, out>>
           /\ [Playback!Next]_<<played, fed>>
<1>t. /\ captured \in Nat /\ played \in Nat
      /\ capQ \in Seq(Nat) /\ playQ \in Seq(Nat)
      /\ out \in Seq(Nat) /\ fed \in Seq(Nat)
  BY DEF TypeOK
<1>1. CASE UNCHANGED queues
  BY <1>1 DEF queues, Rest
<1>2. ASSUME NEW t \in Threads, Work(t)
      PROVE  /\ Rest(capQ, captured, out)' /\ Rest(playQ, played, fed)'
             /\ [Capture!Next]_<<captured, out>>
             /\ [Playback!Next]_<<played, fed>>
  <2>1. Rest(capQ, captured, out)' /\ [Capture!Next]_<<captured, out>>
    <3>1. CASE capReady
      BY <1>t, <1>2, <3>1, RestAfterTake
         DEF Work, Cancel, QueuedWhenReady, Capture!Next, Capture!Deliver
    <3>2. CASE ~capReady
      BY <1>2, <3>2 DEF Work, Cancel, Rest
    <3>3. QED
      BY <3>1, <3>2
  <2>2. Rest(playQ, played, fed)' /\ [Playback!Next]_<<played, fed>>
    <3>1. CASE playReady
      BY <1>t, <1>2, <3>1, RestAfterTake
         DEF Work, Feed, QueuedWhenReady, Playback!Next, Playback!Deliver
    <3>2. CASE ~playReady
      BY <1>2, <3>2 DEF Work, Feed, Rest
    <3>3. QED
      BY <3>1, <3>2
  <2>3. QED
    BY <2>1, <2>2
<1>3. CASE PutCapture
  <2>1. Rest(capQ, captured, out)'
    BY <1>t, <1>3, RestAfterPut DEF PutCapture
  <2>2. [Capture!Next]_<<captured, out>>
    BY <1>3 DEF PutCapture, Capture!Next, Capture!Put
  <2>3. QED
    BY <1>3, <2>1, <2>2 DEF PutCapture, Rest
<1>4. CASE PutPlay
  <2>1. Rest(playQ, played, fed)'
    BY <1>t, <1>4, RestAfterPut DEF PutPlay
  <2>2. [Playback!Next]_<<played, fed>>
    BY <1>4 DEF PutPlay, Playback!Next, Playback!Put
  <2>3. QED
    BY <1>4, <2>1, <2>2 DEF PutPlay, Rest
<1>5. QED
  BY <1>1, <1>2, <1>3, <1>4
     DEF Next, vars, queues, StartThread, StopThread, Step, Loop, Await, Proceed

(* Frames leave the canceller in the order they came, each one once, in     *)
(* both directions, also while two threads work on the queues.              *)
THEOREM EchoInOrder == Spec => InOrder
<1>1. Init => /\ Rest(capQ, captured, out) /\ Rest(playQ, played, fed)
              /\ Capture!Init /\ Playback!Init
  BY EmptySeq DEF Init, Rest, Capture!Init, Playback!Init
<1>2. EchoInv => TypeOK /\ QueuedWhenReady
  BY DEF EchoInv
<1>3. QED
  BY <1>1, <1>2, RestKept, EchoInvariant, PTL
     DEF Spec, InOrder, Capture!Spec, Playback!Spec

-------------------------------------------------------------------------------
(* What is put and what is taken, in one direction.                         *)
LEMMA LagAfterPut ==
    ASSUME NEW q \in Seq(Nat), NEW n \in Nat, NEW ready \in BOOLEAN
    PROVE  Lag(Append(q, n), TRUE) = Lag(q, ready) + (IF ready THEN 1 ELSE 0)
<1>1. Len(q) \in Nat /\ Len(Append(q, n)) = Len(q) + 1
  BY LenProperties, AppendProperties
<1>2. QED
  BY <1>1 DEF Lag

LEMMA LagAfterTake ==
    ASSUME NEW q \in Seq(Nat), q # <<>>
    PROVE  Lag(Tail(q), FALSE) = Lag(q, TRUE)
<1>1. Len(q) \in Nat /\ Len(Tail(q)) = Len(q) - 1
  BY LenProperties, HeadTailProperties
<1>2. QED
  BY <1>1 DEF Lag

LEMMA LagAsIs ==
    ASSUME NEW q \in Seq(Nat), NEW ready \in BOOLEAN
    PROVE  Lag(q, ready) \in Int /\ Lag(q, ready) = Lag(q, ready) + 0
<1>1. Len(q) \in Nat
  BY LenProperties
<1>2. QED
  BY <1>1 DEF Lag

LEMMA LagStep ==
    ASSUME TypeOK, QueuedWhenReady, [Next]_vars
    PROVE  /\ Lag(capQ, capReady)' = Lag(capQ, capReady) + Late(captured, capReady)
           /\ Lag(playQ, playReady)' = Lag(playQ, playReady) + Late(played, playReady)
<1>t. /\ captured \in Nat /\ played \in Nat
      /\ capQ \in Seq(Nat) /\ playQ \in Seq(Nat)
      /\ capReady \in BOOLEAN /\ playReady \in BOOLEAN
  BY DEF TypeOK
<1>c. /\ Lag(capQ, capReady) \in Int /\ Lag(playQ, playReady) \in Int
      /\ Lag(capQ, capReady) = Lag(capQ, capReady) + 0
      /\ Lag(playQ, playReady) = Lag(playQ, playReady) + 0
  BY <1>t, LagAsIs
<1>1. UNCHANGED <<capQ, captured>> /\ (capReady' <=> capReady) =>
          Lag(capQ, capReady)' = Lag(capQ, capReady) + Late(captured, capReady)
  BY <1>t, <1>c DEF Lag, Late
<1>2. UNCHANGED <<playQ, played>> /\ (playReady' <=> playReady) =>
          Lag(playQ, playReady)' = Lag(playQ, playReady) + Late(played, playReady)
  BY <1>t, <1>c DEF Lag, Late
<1>3. CASE UNCHANGED queues
  BY <1>1, <1>2, <1>3 DEF queues
<1>4. CASE PutCapture
  <2>1. /\ capQ' = Append(capQ, captured + 1) /\ capReady' = TRUE /\ captured' # captured
        /\ UNCHANGED <<playQ, played>> /\ (playReady' <=> playReady) /\ captured + 1 \in Nat
    BY <1>t, <1>4 DEF PutCapture
  <2>2. Lag(capQ, capReady)' = Lag(Append(capQ, captured + 1), TRUE)
    BY <2>1 DEF Lag
  <2>3. QED
    BY <1>t, <1>2, <2>1, <2>2, LagAfterPut DEF Late
<1>5. CASE PutPlay
  <2>1. /\ playQ' = Append(playQ, played + 1) /\ playReady' = TRUE /\ played' # played
        /\ UNCHANGED <<capQ, captured>> /\ (capReady' <=> capReady) /\ played + 1 \in Nat
    BY <1>t, <1>5 DEF PutPlay
  <2>2. Lag(playQ, playReady)' = Lag(Append(playQ, played + 1), TRUE)
    BY <2>1 DEF Lag
  <2>3. QED
    BY <1>t, <1>1, <2>1, <2>2, LagAfterPut DEF Late
<1>6. ASSUME NEW t \in Threads, Work(t)
      PROVE  /\ Lag(capQ, capReady)' = Lag(capQ, capReady) + Late(captured, capReady)
             /\ Lag(playQ, playReady)' = Lag(playQ, playReady) + Late(played, playReady)
  <2>1. UNCHANGED <<captured, played>> /\ capReady' = FALSE /\ playReady' = FALSE
    BY <1>6 DEF Work, SetIdle
  <2>2. Lag(capQ, capReady)' = Lag(capQ, capReady) + Late(captured, capReady)
    <3>1. CASE capReady
      <4>1. capQ' = Tail(capQ) /\ capQ # <<>>
        BY <1>6, <3>1 DEF Work, Cancel, QueuedWhenReady
      <4>2. Lag(capQ, capReady)' = Lag(Tail(capQ), FALSE)
        BY <2>1, <4>1 DEF Lag
      <4>3. Lag(capQ, capReady) = Lag(capQ, TRUE) /\ Late(captured, capReady) = 0
        BY <2>1, <3>1 DEF Lag, Late
      <4>4. QED
        BY <1>t, <1>c, <4>1, <4>2, <4>3, LagAfterTake
    <3>2. CASE ~capReady
      BY <1>1, <1>6, <2>1, <3>2 DEF Work, Cancel
    <3>3. QED
      BY <3>1, <3>2
  <2>3. Lag(playQ, playReady)' = Lag(playQ, playReady) + Late(played, playReady)
    <3>1. CASE playReady
      <4>1. playQ' = Tail(playQ) /\ playQ # <<>>
        BY <1>6, <3>1 DEF Work, Feed, QueuedWhenReady
      <4>2. Lag(playQ, playReady)' = Lag(Tail(playQ), FALSE)
        BY <2>1, <4>1 DEF Lag
      <4>3. Lag(playQ, playReady) = Lag(playQ, TRUE) /\ Late(played, playReady) = 0
        BY <2>1, <3>1 DEF Lag, Late
      <4>4. QED
        BY <1>t, <1>c, <4>1, <4>2, <4>3, LagAfterTake
    <3>2. CASE ~playReady
      BY <1>2, <1>6, <2>1, <3>2 DEF Work, Feed
    <3>3. QED
      BY <3>1, <3>2
  <2>4. QED
    BY <2>2, <2>3
<1>7. QED
  BY <1>3, <1>4, <1>5, <1>6
     DEF Next, vars, queues, StartThread, StopThread, Step, Loop, Await, Proceed

(* A frame that is put before the last one was taken delays all later ones  *)
(* for good: no pass of any thread ever takes two (EchoCancellation:73).    *)
THEOREM EchoLag == Spec => LagGrows
<1>1. TypeOK /\ QueuedWhenReady /\ [Next]_vars =>
          [/\ Lag(capQ, capReady)' = Lag(capQ, capReady) + Late(captured, capReady)
           /\ Lag(playQ, playReady)' = Lag(playQ, playReady) + Late(played, playReady)]_vars
  BY LagStep
<1>2. EchoInv => TypeOK /\ QueuedWhenReady
  BY DEF EchoInv
<1>3. QED
  BY <1>1, <1>2, EchoInvariant, PTL DEF Spec, LagGrows

-------------------------------------------------------------------------------
CaptureSide == INSTANCE CancellerSide
                   WITH waiting <- capQ, ready <- capReady, results <- out
PlaySide    == INSTANCE CancellerSide
                   WITH waiting <- playQ, ready <- playReady, results <- fed

(* A frame that is put is the last of its queue.                            *)
LEMMA LastPut ==
    ASSUME NEW q \in Seq(Nat), NEW n \in Nat
    PROVE  Append(q, n)[Len(Append(q, n))] = n
  BY AppendProperties, LenProperties

(* What a step of any thread shows on each side.                            *)
LEMMA SideStep ==
    ASSUME TypeOK, [Next]_vars
    PROVE  /\ CaptureSide!Next \/ UNCHANGED <<capQ, capReady, out>>
           /\ PlaySide!Next \/ UNCHANGED <<playQ, playReady, fed>>
<1>t. /\ captured \in Nat /\ played \in Nat
      /\ capQ \in Seq(Nat) /\ playQ \in Seq(Nat)
      /\ capReady \in BOOLEAN /\ playReady \in BOOLEAN
  BY DEF TypeOK
<1>1. CASE UNCHANGED queues
  BY <1>1 DEF queues
<1>2. CASE PutCapture
  <2>1. capQ' = Append(capQ, capQ'[Len(capQ')])
    BY <1>t, <1>2, LastPut DEF PutCapture
  <2>2. QED
    BY <1>2, <2>1 DEF PutCapture, CaptureSide!Next, CaptureSide!Put
<1>3. CASE PutPlay
  <2>1. playQ' = Append(playQ, playQ'[Len(playQ')])
    BY <1>t, <1>3, LastPut DEF PutPlay
  <2>2. QED
    BY <1>3, <2>1 DEF PutPlay, PlaySide!Next, PlaySide!Put
<1>4. ASSUME NEW t \in Threads, Work(t)
      PROVE  /\ CaptureSide!Next \/ UNCHANGED <<capQ, capReady, out>>
             /\ PlaySide!Next \/ UNCHANGED <<playQ, playReady, fed>>
  <2>1. Cancel /\ Feed /\ capReady' = FALSE /\ playReady' = FALSE
    BY <1>4 DEF Work, SetIdle
  <2>2. CaptureSide!Next \/ UNCHANGED <<capQ, capReady, out>>
    <3>1. CASE capReady
      BY <2>1, <3>1 DEF Cancel, CaptureSide!Next, CaptureSide!Pass
    <3>2. CASE ~capReady
      BY <1>t, <2>1, <3>2 DEF Cancel
    <3>3. QED
      BY <3>1, <3>2
  <2>3. PlaySide!Next \/ UNCHANGED <<playQ, playReady, fed>>
    <3>1. CASE playReady
      BY <2>1, <3>1 DEF Feed, PlaySide!Next, PlaySide!Pass
    <3>2. CASE ~playReady
      BY <1>t, <2>1, <3>2 DEF Feed
    <3>3. QED
      BY <3>1, <3>2
  <2>4. QED
    BY <2>2, <2>3
<1>5. QED
  BY <1>1, <1>2, <1>3, <1>4
     DEF Next, vars, queues, StartThread, StopThread, Step, Loop, Await, Proceed

(* Each side of the canceller looks from outside like one queue that is     *)
(* served one frame at a time, whichever threads serve it. This is what the *)
(* Encoder's worker sees of it (Encoder:72-75), and how VoiceSending has it. *)
THEOREM EchoSides == Spec => CaptureSide!Spec /\ PlaySide!Spec
<1>1. Init => CaptureSide!Init /\ PlaySide!Init
  BY DEF Init, CaptureSide!Init, PlaySide!Init
<1>2. TypeOK /\ [Next]_vars =>
          /\ [CaptureSide!Next]_<<capQ, capReady, out>>
          /\ [PlaySide!Next]_<<playQ, playReady, fed>>
  BY SideStep
<1>3. EchoInv => TypeOK
  BY DEF EchoInv
<1>4. QED
  BY <1>1, <1>2, <1>3, EchoInvariant, PTL DEF Spec, CaptureSide!Spec, PlaySide!Spec

-------------------------------------------------------------------------------
(* How far a thread that is no longer the runner is from its end: on its    *)
(* way to a pass, in it, after it, or there.                                *)
StagesLeft(place) ==
    CASE place \in {"check", "waiting"} -> 3
      [] place = "work" -> 2
      [] place = "loop" -> 1
      [] OTHER -> 0

LEMMA StoppedStep ==
    ASSUME TypeOK, [Next]_vars, NEW t \in Threads, pc[t] # "unstarted", t # runner
    PROVE  /\ pc'[t] # "unstarted" /\ t # runner'
           /\ \/ pc'[t] = pc[t] \/ {pc[t], pc'[t]} \subseteq {"check", "waiting"}
              \/ StagesLeft(pc'[t]) < StagesLeft(pc[t])
<1>1. CASE UNCHANGED vars
  BY <1>1 DEF vars
<1>2. CASE StartThread
  BY <1>2 DEF StartThread, TypeOK
<1>3. CASE StopThread
  <2>1. runner' = None /\ pc'[t] = pc[t]
    BY <1>3 DEF StopThread, Interrupt, TypeOK
  <2>2. QED
    BY <2>1, EchoAssumption
<1>4. CASE PutCapture \/ PutPlay
  <2>1. Notify /\ runner' = runner
    BY <1>4 DEF PutCapture, PutPlay
  <2>2. QED
    BY <2>1, NotifyType
<1>5. ASSUME NEW u \in Threads, Step(u)
      PROVE  /\ pc'[t] # "unstarted" /\ t # runner'
             /\ \/ pc'[t] = pc[t] \/ {pc[t], pc'[t]} \subseteq {"check", "waiting"}
                \/ StagesLeft(pc'[t]) < StagesLeft(pc[t])
  <2>1. runner' = runner
    BY <1>5 DEF Step, Loop, Await, Proceed, Work
  <2>2. CASE u # t
    <3>1. pc'[t] = pc[t]
      BY <1>5, <2>2 DEF Step, Loop, Await, Proceed, Work, TypeOK
    <3>2. QED
      BY <2>1, <3>1
  <2>3. CASE u = t
    BY <1>5, <2>1, <2>3 DEF Step, Loop, Await, Proceed, Work, TypeOK, StagesLeft
  <2>4. QED
    BY <2>2, <2>3
<1>6. QED
  BY <1>1, <1>2, <1>3, <1>4, <1>5 DEF Next

(* A stopped thread never becomes the runner again, and it only ever moves  *)
(* on: from waiting, in which notify() may wake it any number of times, to  *)
(* one last pass, and from there to its end (EchoCancellation:62).          *)
THEOREM EchoStopped ==
    Spec => [][\A t \in Threads : pc[t] # "unstarted" /\ t # runner =>
                  /\ pc'[t] # "unstarted" /\ t # runner'
                  /\ \/ pc'[t] = pc[t] \/ {pc[t], pc'[t]} \subseteq {"check", "waiting"}
                     \/ StagesLeft(pc'[t]) < StagesLeft(pc[t])]_vars
<1>1. TypeOK /\ [Next]_vars =>
          [\A t \in Threads : pc[t] # "unstarted" /\ t # runner =>
              /\ pc'[t] # "unstarted" /\ t # runner'
              /\ \/ pc'[t] = pc[t] \/ {pc[t], pc'[t]} \subseteq {"check", "waiting"}
                 \/ StagesLeft(pc'[t]) < StagesLeft(pc[t])]_vars
  BY StoppedStep
<1>2. QED
  BY <1>1, EchoTypeCorrect, PTL DEF Spec

===============================================================================
