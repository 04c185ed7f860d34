------------------------- MODULE StunDiscoveryProofs -------------------------
(***************************************************************************)
(* What the result of StunDiscovery says, for any timeouts.                *)
(*                                                                         *)
(* Learnt says what each test has found out when the next one starts; Held *)
(* that the fixed port is given up only together with the first run.       *)
(***************************************************************************)
EXTENDS StunDiscovery, TLAPS

Learnt ==
    /\ test = "test1" => natted
    /\ test \in {"test2", "test1Redo", "test3"} =>
            nat.udp /\ (natted <=> nat.maps # "own")
    /\ test \in {"test1Redo", "test3"} => natted /\ (nat.lets = "any" => lossy)
    /\ test = "test3" => nat.maps = "one"
    /\ test \in Tests => kind = "unknown"
    /\ Classified

Held ==
    /\ again => port = "any"
    /\ leaked => port = "any"
    /\ tested = "fixed" => port = "fixed"

Timers ==
    /\ since \in 0..(GiveUpAfter + FirstTimeout + MaxTimeout)
    /\ timeout \in 1..(FirstTimeout + MaxTimeout)

IInv == TypeOK /\ Learnt /\ Held

-------------------------------------------------------------------------------
LEMMA ClaimsOf ==
  /\ DOMAIN Claims = {"open", "firewall", "fullCone", "restricted", "portRestricted",
                      "symmetric", "blocked", "unknown"}
  /\ Claims["open"] = {n \in Nats : n.udp /\ n.maps = "own" /\ n.lets = "any"}
  /\ Claims["firewall"] = {n \in Nats : n.udp /\ n.maps = "own"}
  /\ Claims["fullCone"] = {n \in Nats : n.udp /\ n.maps # "own" /\ n.lets = "any"}
  /\ Claims["restricted"] = {n \in Nats : n.udp /\ n.maps = "one" /\ n.lets # "port"}
  /\ Claims["portRestricted"] = {n \in Nats : n.udp /\ n.maps = "one"}
  /\ Claims["symmetric"] = {n \in Nats : n.udp /\ n.maps = "each"}
  /\ Claims["blocked"] = Nats /\ Claims["unknown"] = Nats
BY DEF Claims

LEMMA NatIs ==
  ASSUME NEW n \in Nats
  PROVE  /\ n.udp \in BOOLEAN
         /\ n.maps = "own" \/ n.maps = "one" \/ n.maps = "each"
         /\ n.lets = "any" \/ n.lets = "address" \/ n.lets = "port"
<1>1. n.udp \in BOOLEAN /\ n.maps \in {"own", "one", "each"} /\ n.lets \in {"any", "address", "port"}
  BY DEF Nats
<1> QED
  BY <1>1

LEMMA RealIs ==
  ASSUME NEW n \in Nats
  PROVE  /\ ~n.udp => Real(n) = "blocked"
         /\ n.udp /\ n.maps = "own" /\ n.lets = "any" => Real(n) = "open"
         /\ n.udp /\ n.maps = "own" /\ n.lets # "any" => Real(n) = "firewall"
         /\ n.udp /\ n.maps # "own" /\ n.lets = "any" => Real(n) = "fullCone"
         /\ n.udp /\ n.maps = "each" /\ n.lets # "any" => Real(n) = "symmetric"
         /\ n.udp /\ n.maps = "one" /\ n.lets = "address" => Real(n) = "restricted"
         /\ n.udp /\ n.maps = "one" /\ n.lets = "port" => Real(n) = "portRestricted"
BY NatIs DEF Real

LEMMA NewTimers ==
  ASSUME NEW next, Goes(next)
  PROVE  Timers' /\ test' = next
BY StunAssumption DEF Goes, Timers

-------------------------------------------------------------------------------
LEMMA InitIInv == Init => IInv
<1> SUFFICES ASSUME Init PROVE IInv
  OBVIOUS
<1>0. Timers
  BY StunAssumption DEF Init, Timers
<1>1. TypeOK
  BY <1>0, ClaimsOf DEF Init, TypeOK, Timers, Ports, Tests
<1>2. Learnt /\ Held
  BY DEF Init, Learnt, Held, Classified
<1> QED
  BY <1>1, <1>2 DEF IInv

LEMMA AnswerStep == IInv /\ Answer => IInv'
<1> SUFFICES ASSUME IInv, Answer PROVE IInv'
  OBVIOUS
<1> USE DEF IInv
<1>0. nat \in Nats /\ nat' = nat /\ UNCHANGED <<again, port, leaked, app, lossy>> /\ test \in Tests
  BY DEF Answer, Test1Answer, Test2Answer, RedoAnswer, Test3Answer, ErrorAnswer, Answered,
         network, Tests, TypeOK
<1>1. /\ nat.udp \in BOOLEAN
      /\ nat.maps = "own" \/ nat.maps = "one" \/ nat.maps = "each"
      /\ nat.lets = "any" \/ nat.lets = "address" \/ nat.lets = "port"
  BY <1>0, NatIs
<1>2. nat.udp /\ (test = "test2" => nat.lets = "any")
              /\ (test = "test3" => nat.lets = "any" \/ nat.lets = "address")
  BY DEF Answer, Test1Answer, Test2Answer, RedoAnswer, Test3Answer, ErrorAnswer, Answered, Passes
<1>3. CASE Test1Answer
  <2>1. /\ test = "test1" /\ known' = TRUE /\ tested' = port
        /\ natted' = (nat.maps # "own") /\ kind' = kind /\ error' = error /\ Goes("test2")
    BY <1>3 DEF Test1Answer, Answered
  <2>2. Timers' /\ test' = "test2"
    BY <2>1, NewTimers
  <2>3. TypeOK'
    BY <1>0, <2>1, <2>2 DEF TypeOK, Timers, Tests, Ports
  <2>4. Learnt' /\ Held'
    BY <1>0, <1>2, <2>1, <2>2 DEF Learnt, Held, Classified, Tests
  <2> QED
    BY <2>3, <2>4
<1>4. CASE Test2Answer
  <2>1. /\ test = "test2" /\ kind' = (IF natted THEN "fullCone" ELSE "open") /\ Goes("done")
        /\ UNCHANGED <<natted, error, known, tested>>
    BY <1>4 DEF Test2Answer, Answered
  <2>2. Timers' /\ test' = "done"
    BY <2>1, NewTimers
  <2>3. TypeOK'
    BY <1>0, <2>1, <2>2, ClaimsOf DEF TypeOK, Timers, Tests
  <2>4. Learnt' /\ Held'
    BY <1>0, <1>1, <1>2, <2>1, <2>2, ClaimsOf, RealIs DEF Learnt, Held, Classified, Tests
  <2> QED
    BY <2>3, <2>4
<1>5. CASE RedoAnswer
  <2>1. /\ test = "test1Redo" /\ UNCHANGED <<natted, error, known, tested>>
        /\ \/ nat.maps = "each" /\ kind' = "symmetric" /\ Goes("done")
           \/ nat.maps # "each" /\ kind' = kind /\ Goes("test3")
    BY <1>5 DEF RedoAnswer, Answered
  <2>2. Timers' /\ test' = IF nat.maps = "each" THEN "done" ELSE "test3"
    BY <2>1, NewTimers
  <2>3. TypeOK'
    BY <1>0, <2>1, <2>2, ClaimsOf DEF TypeOK, Timers, Tests
  <2>4. Learnt' /\ Held'
    BY <1>0, <1>1, <1>2, <2>1, <2>2, ClaimsOf, RealIs DEF Learnt, Held, Classified, Tests
  <2> QED
    BY <2>3, <2>4
<1>6. CASE Test3Answer
  <2>0. natted /\ test = "test3"
    BY <1>6 DEF Test3Answer, Answered, Learnt
  <2>1. kind' = "restricted" /\ Goes("done") /\ UNCHANGED <<natted, error, known, tested>>
    BY <1>6, <2>0 DEF Test3Answer
  <2>2. Timers' /\ test' = "done"
    BY <2>1, NewTimers
  <2>3. TypeOK'
    BY <1>0, <2>1, <2>2, ClaimsOf DEF TypeOK, Timers, Tests
  <2>4. Learnt' /\ Held'
    BY <1>0, <1>1, <1>2, <2>0, <2>1, <2>2, ClaimsOf, RealIs DEF Learnt, Held, Classified, Tests
  <2> QED
    BY <2>3, <2>4
<1>7. CASE ErrorAnswer
  <2>1. error' = TRUE /\ Goes("done") /\ UNCHANGED <<natted, kind, known, tested>>
    BY <1>7 DEF ErrorAnswer
  <2>2. Timers' /\ test' = "done"
    BY <2>1, NewTimers
  <2>3. TypeOK'
    BY <1>0, <2>1, <2>2 DEF TypeOK, Timers, Tests
  <2>4. Learnt' /\ Held'
    BY <1>0, <2>1, <2>2, ClaimsOf DEF Learnt, Held, Classified, Tests
  <2> QED
    BY <2>3, <2>4
<1> QED
  BY <1>3, <1>4, <1>5, <1>6, <1>7 DEF Answer

LEMMA ThrownStep == IInv /\ test \in Tests /\ Thrown => IInv'
<1> SUFFICES ASSUME IInv, test \in Tests, Thrown PROVE IInv'
  OBVIOUS
<1> USE DEF IInv
<1>1. /\ leaked' = (leaked \/ port = "fixed") /\ nat' = nat /\ app' = app
  BY DEF Thrown
<1>2. leaked' \in BOOLEAN
  BY <1>1
<1>3. CASE again
  <2>1. Goes("failed") /\ UNCHANGED <<again, port, natted, kind, error, known, tested, lossy>>
    BY <1>3 DEF Thrown, info
  <2>2. Timers' /\ test' = "failed"
    BY <2>1, NewTimers
  <2>3. TypeOK'
    BY <1>1, <1>2, <2>1, <2>2 DEF TypeOK, Timers, Tests
  <2>4. Learnt' /\ Held'
    BY <1>1, <1>3, <2>1, <2>2 DEF Learnt, Held, Classified, Tests
  <2> QED
    BY <2>3, <2>4
<1>4. CASE ~again
  <2>1. /\ again' = TRUE /\ port' = "any" /\ Goes("test1") /\ natted' = TRUE
        /\ kind' = "unknown" /\ error' = FALSE /\ known' = FALSE /\ tested' = "any"
        /\ lossy' = FALSE
    BY <1>4 DEF Thrown
  <2>2. Timers' /\ test' = "test1"
    BY <2>1, NewTimers
  <2>3. TypeOK'
    BY <1>1, <1>2, <2>1, <2>2, ClaimsOf DEF TypeOK, Timers, Tests, Ports
  <2>4. Learnt' /\ Held'
    BY <1>1, <2>1, <2>2 DEF Learnt, Held, Classified, Tests
  <2> QED
    BY <2>3, <2>4
<1> QED
  BY <1>3, <1>4

LEMMA RetryStep == IInv /\ Retry => IInv'
<1> SUFFICES ASSUME IInv, Retry PROVE IInv'
  OBVIOUS
<1> USE DEF IInv
<1>1. test \in Tests /\ since < GiveUpAfter
  BY DEF Retry
<1>2. CASE test = "test1" /\ port = "fixed"
  BY <1>1, <1>2, ThrownStep DEF Retry
<1>3. CASE ~(test = "test1" /\ port = "fixed")
  <2>1. /\ since' = since + timeout /\ test' = test
        /\ timeout' = (IF 2 * since' > MaxTimeout THEN MaxTimeout ELSE 2 * since')
        /\ UNCHANGED <<nat, leaked, app, again, port, natted, kind, error, known, tested, lossy>>
    BY <1>3 DEF Retry, Backoff, network, info
  <2>2. Timers'
    BY <1>1, <2>1, StunAssumption DEF TypeOK, Timers
  <2>3. TypeOK'
    BY <2>1, <2>2 DEF TypeOK, Timers
  <2>4. Learnt' /\ Held'
    BY <2>1 DEF Learnt, Held, Classified
  <2> QED
    BY <2>3, <2>4
<1> QED
  BY <1>2, <1>3

LEMMA GiveUpStep == IInv /\ GiveUp => IInv'
<1> SUFFICES ASSUME IInv, GiveUp PROVE IInv'
  OBVIOUS
<1> USE DEF IInv
<1>0. /\ nat \in Nats /\ nat' = nat /\ test \in Tests
      /\ UNCHANGED <<leaked, app, again, port, natted, error, known, tested>>
      /\ lossy' = (lossy \/ Passes)
  BY DEF GiveUp, network, TypeOK
<1>1. /\ nat.udp \in BOOLEAN
      /\ nat.maps = "own" \/ nat.maps = "one" \/ nat.maps = "each"
      /\ nat.lets = "any" \/ nat.lets = "address" \/ nat.lets = "port"
  BY <1>0, NatIs
<1>2. lossy' \in BOOLEAN /\ (lossy => lossy')
  BY <1>0 DEF Passes
<1>3. CASE test = "test1"
  <2>1. kind' = "blocked" /\ Goes("done")
    BY <1>3 DEF GiveUp
  <2>2. Timers' /\ test' = "done"
    BY <2>1, NewTimers
  <2>3. TypeOK'
    BY <1>0, <1>2, <2>1, <2>2, ClaimsOf DEF TypeOK, Timers, Tests
  <2>4. ~lossy' => ~nat.udp
    BY <1>0, <1>3 DEF Passes
  <2>5. Learnt' /\ Held'
    BY <1>0, <2>1, <2>2, <2>4, ClaimsOf, RealIs DEF Learnt, Held, Classified, Tests
  <2> QED
    BY <2>3, <2>5
<1>4. CASE test = "test2" /\ natted
  <2>1. kind' = kind /\ Goes("test1Redo")
    BY <1>4 DEF GiveUp
  <2>2. Timers' /\ test' = "test1Redo"
    BY <2>1, NewTimers
  <2>3. TypeOK'
    BY <1>0, <1>2, <2>1, <2>2 DEF TypeOK, Timers, Tests
  <2>4. nat.lets = "any" => lossy'
    BY <1>0, <1>4 DEF Passes, Learnt
  <2>5. Learnt' /\ Held'
    BY <1>0, <1>4, <2>1, <2>2, <2>4 DEF Learnt, Held, Classified, Tests
  <2> QED
    BY <2>3, <2>5
<1>5. CASE test = "test2" /\ ~natted
  <2>1. kind' = "firewall" /\ Goes("done")
    BY <1>5 DEF GiveUp
  <2>2. Timers' /\ test' = "done"
    BY <2>1, NewTimers
  <2>3. TypeOK'
    BY <1>0, <1>2, <2>1, <2>2, ClaimsOf DEF TypeOK, Timers, Tests
  <2>4. nat.udp /\ nat.maps = "own" /\ (nat.lets = "any" => lossy')
    BY <1>0, <1>5 DEF Passes, Learnt
  <2>5. Learnt' /\ Held'
    BY <1>0, <2>1, <2>2, <2>4, ClaimsOf, RealIs DEF Learnt, Held, Classified, Tests
  <2> QED
    BY <2>3, <2>5
<1>6. CASE test = "test1Redo"
  <2>1. kind' = kind /\ Goes("done")
    BY <1>6 DEF GiveUp
  <2>2. Timers' /\ test' = "done"
    BY <2>1, NewTimers
  <2>3. TypeOK'
    BY <1>0, <1>2, <2>1, <2>2 DEF TypeOK, Timers, Tests
  <2>4. lossy'
    BY <1>0, <1>6 DEF Passes, Learnt
  <2>5. Learnt' /\ Held'
    BY <1>0, <2>1, <2>2, <2>4, ClaimsOf DEF Learnt, Held, Classified, Tests
  <2> QED
    BY <2>3, <2>5
<1>7. CASE test = "test3"
  <2>1. kind' = "portRestricted" /\ Goes("done")
    BY <1>7 DEF GiveUp
  <2>2. Timers' /\ test' = "done"
    BY <2>1, NewTimers
  <2>3. TypeOK'
    BY <1>0, <1>2, <2>1, <2>2, ClaimsOf DEF TypeOK, Timers, Tests
  <2>4. nat.udp /\ nat.maps = "one" /\ (nat.lets # "port" => lossy')
    BY <1>0, <1>1, <1>7 DEF Passes, Learnt
  <2>5. Learnt' /\ Held'
    BY <1>0, <1>1, <2>1, <2>2, <2>4, ClaimsOf, RealIs DEF Learnt, Held, Classified, Tests
  <2> QED
    BY <2>3, <2>5
<1> QED
  BY <1>0, <1>3, <1>4, <1>5, <1>6, <1>7 DEF Tests

LEMMA ReportStep == IInv /\ Report => IInv'
<1> SUFFICES ASSUME IInv, Report PROVE IInv'
  OBVIOUS
<1> USE DEF IInv
<1>1. UNCHANGED <<nat, again, port, leaked, test, since, timeout, natted, kind, error, known,
                  tested, lossy>>
  BY DEF Report, info
<1>2. app' \in {"registering", "unsupported", "error", "crashed"}
  BY DEF Report
<1> QED
  BY <1>1, <1>2 DEF TypeOK, Learnt, Held, Classified

LEMMA Inductive == IInv /\ [Next]_vars => IInv'
<1>1. ASSUME IInv, UNCHANGED vars PROVE IInv'
  BY <1>1 DEF vars, IInv, TypeOK, Learnt, Held, Classified
<1> QED
  BY <1>1, AnswerStep, ThrownStep, RetryStep, GiveUpStep, ReportStep DEF Next, Fails

LEMMA Invariance == Spec => []IInv
BY InitIInv, Inductive, PTL DEF Spec

-------------------------------------------------------------------------------
(* What is left of the discovery: a whole second run, the tests still to    *)
(* come, the milliseconds that are left for attempts of the running test,   *)
(* and the report.                                                          *)
Whole == GiveUpAfter + 1
ToCome == CASE test = "test1" -> 4 * Whole
            [] test = "test2" -> 3 * Whole
            [] test = "test1Redo" -> 2 * Whole
            [] test = "test3" -> Whole
            [] OTHER -> 0
TimeLeft == IF since < GiveUpAfter THEN GiveUpAfter - since ELSE 0

Remaining ==
    IF test \in Tests
    THEN (IF again THEN 0 ELSE 5 * Whole) + ToCome + TimeLeft + 1
    ELSE IF app = "waiting" THEN 1 ELSE 0

LEMMA RemainingIs ==
  ASSUME TypeOK
  PROVE  /\ Whole \in Nat \ {0} /\ TimeLeft \in Nat /\ TimeLeft < Whole
         /\ test = "test1" => ToCome = 4 * Whole
         /\ test = "test2" => ToCome = 3 * Whole
         /\ test = "test1Redo" => ToCome = 2 * Whole
         /\ test = "test3" => ToCome = Whole
         /\ ToCome \in Nat
         /\ test \in Tests => ToCome >= Whole
BY StunAssumption DEF TypeOK, Whole, ToCome, TimeLeft, Tests

LEMMA TimeLeftNext == TypeOK' => TimeLeft' \in Nat /\ TimeLeft' < Whole /\ Whole' = Whole
BY StunAssumption DEF TypeOK, TimeLeft, Whole

(* A later test, or the end, leaves less to be done than an earlier test.   *)
LEMMA LaterTest ==
  ASSUME IInv, IInv', test \in Tests, again' = again,
         \/ test' = "done" \/ test' = "failed"
         \/ test = "test1" /\ test' = "test2"
         \/ test = "test2" /\ test' = "test1Redo"
         \/ test = "test1Redo" /\ test' = "test3"
  PROVE  Remaining' < Remaining
<1>1. /\ Whole \in Nat \ {0} /\ TimeLeft \in Nat /\ ToCome \in Nat /\ ToCome >= Whole
      /\ test = "test1" => ToCome = 4 * Whole
      /\ test = "test2" => ToCome = 3 * Whole
      /\ test = "test1Redo" => ToCome = 2 * Whole
  BY RemainingIs DEF IInv
<1>2. TimeLeft' \in Nat /\ TimeLeft' < Whole /\ Whole' = Whole
  BY TimeLeftNext DEF IInv
<1>3. /\ test' = "test2" => ToCome' = 3 * Whole
      /\ test' = "test1Redo" => ToCome' = 2 * Whole
      /\ test' = "test3" => ToCome' = Whole
  BY <1>2 DEF ToCome
<1>4. Remaining = (IF again THEN 0 ELSE 5 * Whole) + ToCome + TimeLeft + 1
  BY DEF Remaining
<1>5. CASE test' = "done" \/ test' = "failed"
  <2>1. Remaining' <= 1 /\ Remaining' \in Nat
    BY <1>5 DEF Remaining, Tests
  <2> QED
    BY <1>1, <1>4, <2>1
<1>6. CASE test' \in {"test2", "test1Redo", "test3"}
  <2>1. Remaining' = (IF again THEN 0 ELSE 5 * Whole) + ToCome' + TimeLeft' + 1
    BY <1>2, <1>6 DEF Remaining, Tests
  <2>2. ToCome' \in Nat /\ ToCome' + Whole <= ToCome
    BY <1>1, <1>3, <1>6
  <2>3. PICK w \in Nat, c \in Nat, d \in Nat, t \in Nat, next \in Nat, run \in Nat :
            /\ w = Whole /\ c = ToCome /\ d = ToCome' /\ t = TimeLeft /\ next = TimeLeft'
            /\ run = IF again THEN 0 ELSE 5 * Whole
    BY <1>1, <1>2, <2>2
  <2>4. next < w /\ d + w <= c
    BY <1>2, <2>2, <2>3
  <2>5. run + d + next + 1 < run + c + t + 1
    BY <2>4
  <2>6. Remaining' = run + d + next + 1 /\ Remaining = run + c + t + 1
    BY <1>4, <2>1, <2>3
  <2> QED
    BY <2>5, <2>6
<1> QED
  BY <1>5, <1>6

LEMMA ThrownLess == ASSUME IInv, IInv', test \in Tests, Thrown PROVE Remaining' < Remaining
<1>1. CASE again
  BY <1>1, LaterTest DEF Thrown, Goes
<1>2. CASE ~again
  <2>1. again' = TRUE /\ test' = "test1"
    BY <1>2 DEF Thrown, Goes
  <2>2. /\ Whole \in Nat \ {0} /\ TimeLeft \in Nat /\ ToCome \in Nat /\ ToCome >= Whole
    BY RemainingIs DEF IInv
  <2>3. TimeLeft' \in Nat /\ TimeLeft' < Whole /\ Whole' = Whole
    BY TimeLeftNext DEF IInv
  <2>4. ToCome' = 4 * Whole
    BY <2>1, <2>3 DEF ToCome
  <2>5. Remaining' = 4 * Whole + TimeLeft' + 1
    BY <2>1, <2>2, <2>3, <2>4 DEF Remaining, Tests
  <2>6. Remaining = 5 * Whole + ToCome + TimeLeft + 1
    BY <1>2 DEF Remaining
  <2>7. PICK w \in Nat, c \in Nat, t \in Nat, next \in Nat :
            w = Whole /\ c = ToCome /\ t = TimeLeft /\ next = TimeLeft'
    BY <2>2, <2>3
  <2>8. next < w
    BY <2>3, <2>7
  <2>9. 4 * w + next + 1 < 5 * w + c + t + 1
    BY <2>8
  <2>10. Remaining = 5 * w + c + t + 1 /\ Remaining' = 4 * w + next + 1
    BY <2>5, <2>6, <2>7
  <2> QED
    BY <2>9, <2>10
<1> QED
  BY <1>1, <1>2

(* Every step of the discovery brings it nearer to its end.                 *)
LEMMA Progress == IInv /\ IInv' /\ Next => Remaining' < Remaining
<1> SUFFICES ASSUME IInv, IInv', Next PROVE Remaining' < Remaining
  OBVIOUS
<1>1. CASE Answer
  <2>1. /\ test \in Tests /\ again' = again
        /\ \/ test' = "done"
           \/ test = "test1" /\ test' = "test2"
           \/ test = "test1Redo" /\ test' = "test3"
    <3>1. CASE Test3Answer
      BY <3>1 DEF Test3Answer, Answered, Goes, IInv, Learnt, Tests
    <3>2. CASE Test1Answer \/ Test2Answer \/ RedoAnswer \/ ErrorAnswer
      BY <3>2 DEF Test1Answer, Test2Answer, RedoAnswer, ErrorAnswer, Answered, Goes, Tests
    <3> QED
      BY <1>1, <3>1, <3>2 DEF Answer
  <2> QED
    BY <2>1, LaterTest
<1>2. CASE Fails
  BY <1>2, ThrownLess DEF Fails
<1>3. CASE Retry
  <2>1. CASE test = "test1" /\ port = "fixed"
    BY <1>3, <2>1, ThrownLess DEF Retry
  <2>2. CASE ~(test = "test1" /\ port = "fixed")
    <3>1. test \in Tests /\ UNCHANGED <<test, again>> /\ since < GiveUpAfter
          /\ since' = since + timeout
      BY <1>3, <2>2 DEF Retry, Backoff
    <3>2. TimeLeft' < TimeLeft /\ TimeLeft \in Nat /\ TimeLeft' \in Nat
      BY <3>1, StunAssumption DEF TimeLeft, IInv, TypeOK
    <3>3. ToCome \in Nat /\ Whole \in Nat
      BY RemainingIs DEF IInv
    <3>4. Whole' = Whole /\ ToCome' = ToCome
      BY <3>1 DEF ToCome, Whole
    <3>5. PICK n \in Nat : n = (IF again THEN 0 ELSE 5 * Whole) + ToCome
      BY <3>3
    <3>6. Remaining = n + TimeLeft + 1 /\ Remaining' = n + TimeLeft' + 1
      BY <3>1, <3>4, <3>5 DEF Remaining
    <3> QED
      BY <3>2, <3>5, <3>6
  <2> QED
    BY <2>1, <2>2
<1>4. CASE GiveUp
  <2>1. test \in Tests /\ again' = again
        /\ (test' = "done" \/ (test = "test2" /\ test' = "test1Redo"))
    BY <1>4 DEF GiveUp, Goes
  <2> QED
    BY <2>1, LaterTest
<1>5. CASE Report
  BY <1>5 DEF Report, Remaining, Tests
<1> QED
  BY <1>1, <1>2, <1>3, <1>4, <1>5 DEF Next

-------------------------------------------------------------------------------
(* Every variable keeps its type, and the timers never exceed the limit by  *)
(* more than one timeout.                                                   *)
THEOREM StunTypeCorrect == Spec => []TypeOK
<1>1. IInv => TypeOK
  BY DEF IInv
<1> QED
  BY <1>1, Invariance, PTL

(* The result is never more than what the network allows, and exact when no *)
(* test gave up on an answer that can pass.                                 *)
THEOREM ClassifiedCorrect == Spec => []Classified
<1>1. IInv => Classified
  BY DEF IInv, Learnt
<1> QED
  BY <1>1, Invariance, PTL

(* The port to register from is free again.                                 *)
THEOREM PortFreeCorrect == Spec => []PortFree
<1>1. IInv => PortFree
  BY DEF IInv, Held, PortFree
<1> QED
  BY <1>1, Invariance, PTL

(* The discovery cannot go on for ever, whatever the network does: every    *)
(* attempt, test, second run and report leaves less to be done, and when    *)
(* nothing is left the user has heard of the result.  (In particular the    *)
(* loop of test3 never starts over, DiscoveryTest:360.)                     *)
THEOREM DiscoveryEnds ==
    Spec => /\ [](Remaining \in Nat /\ (Remaining = 0 => app # "waiting"))
            /\ [][Next => Remaining' < Remaining]_vars
<1>1. ASSUME IInv PROVE Remaining \in Nat /\ (Remaining = 0 => app # "waiting")
  <2>1. Whole \in Nat /\ ToCome \in Nat /\ TimeLeft \in Nat
    BY <1>1, RemainingIs DEF IInv
  <2> QED
    BY <2>1 DEF Remaining
<1>2. IInv /\ IInv' /\ [Next]_vars => [Next => Remaining' < Remaining]_vars
  BY Progress
<1> QED
  BY <1>1, <1>2, Invariance, PTL DEF Spec

===============================================================================
