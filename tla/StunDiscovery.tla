---------------------------- MODULE StunDiscovery ----------------------------
(***************************************************************************)
(* STUN discovery: the tests that find out what kind of NAT is in the way  *)
(* (javawi.jstun.test.DiscoveryTest), the background task that runs them,  *)
(* again when the first run fails (de.tinysip.stun.STUNDiscoveryTask), and *)
(* what the activity does with the result (jay.sipdemo.JaySipActivity).    *)
(*                                                                         *)
(* The network may lose any request or answer.  An answer that is late is  *)
(* a lost one: each attempt has a transaction ID of its own.               *)
(***************************************************************************)
EXTENDS Integers

CONSTANTS
    FirstTimeout,   \* timeoutInitValue, in ms
    MaxTimeout,     \* the longest timeout of an attempt
    GiveUpAfter     \* no further attempt after this time

ASSUME StunAssumption ==
    {FirstTimeout, MaxTimeout, GiveUpAfter} \subseteq Nat \ {0}

VARIABLES
    nat,        \* the network: does UDP pass, who is given which address, who may answer
    again,      \* is this the second run of the tests?
    port,       \* the local port of socketTest1
    leaked,     \* is a discarded socket still bound to the fixed port?
    test,       \* which test is running
    since, timeout,     \* timeSinceFirstTransmission, timeout
    natted,     \* nodeNatted
    kind,       \* which flag of di is set
    error,      \* di.error
    known,      \* is di.publicIP known?
    tested,     \* di.localPort
    app,        \* what the activity does with the result
    lossy       \* history: did a test of this run give up on an answer that can pass?

network == <<nat, leaked, app>>
info == <<kind, error, known, tested>>
vars == <<nat, again, port, leaked, test, since, timeout, natted, kind, error, known, tested,
          app, lossy>>

Ports == {"fixed", "any"}
Tests == {"test1", "test2", "test1Redo", "test3"}

(* maps: the address given to the sender is its own, one for all receivers, *)
(* or one for each receiver.  lets: who may answer to it.                   *)
Nats == [udp : BOOLEAN, maps : {"own", "one", "each"}, lets : {"any", "address", "port"}]

(* The networks that each result says the node is in.                       *)
Claims ==
    [open           |-> {n \in Nats : n.udp /\ n.maps = "own" /\ n.lets = "any"},
     firewall       |-> {n \in Nats : n.udp /\ n.maps = "own"},
     fullCone       |-> {n \in Nats : n.udp /\ n.maps # "own" /\ n.lets = "any"},
     restricted     |-> {n \in Nats : n.udp /\ n.maps = "one" /\ n.lets # "port"},
     portRestricted |-> {n \in Nats : n.udp /\ n.maps = "one"},
     symmetric      |-> {n \in Nats : n.udp /\ n.maps = "each"},
     blocked        |-> Nats,
     unknown        |-> Nats]

(* The most that can be said of a network.                                  *)
Real(n) ==
    CASE ~n.udp -> "blocked"
      [] n.udp /\ n.maps = "own" -> IF n.lets = "any" THEN "open" ELSE "firewall"
      [] n.udp /\ n.maps # "own" /\ n.lets = "any" -> "fullCone"
      [] n.udp /\ n.maps = "each" /\ n.lets # "any" -> "symmetric"
      [] n.udp /\ n.maps = "one" /\ n.lets = "address" -> "restricted"
      [] n.udp /\ n.maps = "one" /\ n.lets = "port" -> "portRestricted"

TypeOK ==
    /\ nat \in Nats /\ again \in BOOLEAN /\ port \in Ports /\ leaked \in BOOLEAN
    /\ test \in Tests \cup {"done", "failed"}
    /\ since \in 0..(GiveUpAfter + FirstTimeout + MaxTimeout)
    /\ timeout \in 1..(FirstTimeout + MaxTimeout)
    /\ natted \in BOOLEAN /\ kind \in DOMAIN Claims
    /\ error \in BOOLEAN /\ known \in BOOLEAN /\ tested \in Ports
    /\ app \in {"waiting", "registering", "unsupported", "error", "crashed"}
    /\ lossy \in BOOLEAN

Init ==
    /\ nat \in Nats /\ again = FALSE /\ port \in Ports /\ leaked = FALSE
    /\ test = "test1" /\ since = 0 /\ timeout = FirstTimeout
    /\ natted = TRUE
    /\ kind = "unknown" /\ error = FALSE /\ known = FALSE /\ tested = "any"
    /\ app = "waiting"
    /\ lossy = FALSE

-------------------------------------------------------------------------------
(* (Variant used as a mutant: the timers go on from the test before.)       *)
Goes_On(next) == test' = next /\ since' = since + timeout /\ UNCHANGED timeout

(* Each test has timers of its own.                                         *)
Goes(next) == test' = next /\ since' = 0 /\ timeout' = FirstTimeout

(* Can the answer of the running test pass?  It comes from where it was     *)
(* sent to, from the changed address and port, or from the changed port.    *)
Passes ==
    /\ nat.udp
    /\ test = "test2" => nat.lets = "any"
    /\ test = "test3" => nat.lets \in {"any", "address"}

Answered(of) == test = of /\ Passes /\ UNCHANGED <<network, again, port, lossy>>

(* The mapped address is the own one: the node is not natted.               *)
Test1Answer ==
    /\ Answered("test1")
    /\ known' = TRUE /\ tested' = port
    /\ natted' = (nat.maps # "own")
    /\ Goes("test2")
    /\ UNCHANGED <<kind, error>>

Test2Answer ==
    /\ Answered("test2")
    /\ kind' = IF natted THEN "fullCone" ELSE "open"
    /\ Goes("done")
    /\ UNCHANGED <<natted, error, known, tested>>

(* Another mapped address for another receiver: a symmetric NAT.            *)
RedoAnswer ==
    /\ Answered("test1Redo")
    /\ IF nat.maps = "each"
       THEN kind' = "symmetric" /\ Goes("done")
       ELSE Goes("test3") /\ UNCHANGED kind
    /\ UNCHANGED <<natted, error, known, tested>>

(* Without natted the loop would start over with a new request.             *)
Test3Answer ==
    /\ Answered("test3")
    /\ IF natted
       THEN kind' = "restricted" /\ Goes("done")
       ELSE UNCHANGED <<kind, test, since, timeout>>
    /\ UNCHANGED <<natted, error, known, tested>>

(* The answer has an error code, or lacks an address that is needed.        *)
ErrorAnswer ==
    /\ \E of \in Tests : Answered(of)
    /\ error' = TRUE
    /\ Goes("done")
    /\ UNCHANGED <<natted, kind, known, tested>>

Answer == Test1Answer \/ Test2Answer \/ RedoAnswer \/ Test3Answer \/ ErrorAnswer

-------------------------------------------------------------------------------
(* An exception leaves socketTest1 open.  The task runs the tests once more *)
(* from any port, and gives up when they throw again.                       *)
Thrown ==
    /\ leaked' = (leaked \/ port = "fixed")
    /\ IF again
       THEN Goes("failed") /\ UNCHANGED <<again, port, natted, info, lossy>>
       ELSE /\ again' = TRUE /\ port' = "any"
            /\ Goes("test1")
            /\ natted' = TRUE
            /\ kind' = "unknown" /\ error' = FALSE /\ known' = FALSE /\ tested' = "any"
            /\ lossy' = FALSE
    /\ UNCHANGED <<nat, app>>

(* Port unreachable, no network, an answer that cannot be parsed.           *)
Fails == test \in Tests /\ Thrown

(* (Variant used as a mutant: the time is the last timeout, not the sum.)   *)
Backoff_NoSum ==
    /\ since' = timeout
    /\ timeout' = IF 2 * since' > MaxTimeout THEN MaxTimeout ELSE 2 * since'
    /\ UNCHANGED test

Backoff ==
    /\ since' = since + timeout
    /\ timeout' = IF 2 * since' > MaxTimeout THEN MaxTimeout ELSE 2 * since'
    /\ UNCHANGED test

(* (Variant used as a mutant: setReuseAddress before the socket is bound.)  *)
Retry_Reuse ==
    /\ test \in Tests /\ since < GiveUpAfter
    /\ Backoff
    /\ leaked' = (leaked \/ (test = "test1" /\ port = "fixed"))
    /\ UNCHANGED <<nat, app, again, port, natted, info, lossy>>

(* test1 makes a new socketTest1 while the old one is still bound, which    *)
(* fails when the port is fixed.                                            *)
Retry ==
    /\ test \in Tests /\ since < GiveUpAfter
    /\ IF test = "test1" /\ port = "fixed"
       THEN Thrown
       ELSE Backoff /\ UNCHANGED <<network, again, port, natted, info, lossy>>

(* (Variant used as a mutant: test3 says restricted when it gives up.)      *)
GiveUp_Swapped ==
    /\ test \in Tests /\ since >= GiveUpAfter
    /\ lossy' = (lossy \/ Passes)
    /\ IF test = "test2" /\ natted THEN Goes("test1Redo") ELSE Goes("done")
    /\ kind' = CASE test = "test1" -> "blocked"
                 [] test = "test2" /\ ~natted -> "firewall"
                 [] test = "test3" -> "restricted"
                 [] OTHER -> kind
    /\ UNCHANGED <<network, again, port, natted, error, known, tested>>

(* No answer to the last attempt.                                           *)
GiveUp ==
    /\ test \in Tests /\ since >= GiveUpAfter
    /\ lossy' = (lossy \/ Passes)
    /\ IF test = "test2" /\ natted THEN Goes("test1Redo") ELSE Goes("done")
    /\ kind' = CASE test = "test1" -> "blocked"
                 [] test = "test2" /\ ~natted -> "firewall"
                 [] test = "test3" -> "portRestricted"
                 [] OTHER -> kind
    /\ UNCHANGED <<network, again, port, natted, error, known, tested>>

(* onPostExecute and STUNDiscoveryResultChanged, on the UI thread.  Every   *)
(* flag reads as unset when there is an error, and getPublicIP() is null    *)
(* when test1 had no mapped address.                                        *)
Report ==
    /\ test \in {"done", "failed"} /\ app = "waiting"
    /\ app' = CASE test = "failed" -> "error"
                [] test = "done" /\ ~error /\ kind \in {"blocked", "symmetric", "firewall"}
                        -> "unsupported"
                [] OTHER -> IF known THEN "registering" ELSE "crashed"
    /\ UNCHANGED <<nat, again, port, leaked, test, since, timeout, natted, info, lossy>>

Next == Answer \/ Fails \/ Retry \/ GiveUp \/ Report

Spec == Init /\ [][Next]_vars

(* A test waits no longer than its timeout, and the result is delivered.    *)
FairSpec == Spec /\ WF_vars(Answer \/ Retry \/ GiveUp) /\ WF_vars(Report)

-------------------------------------------------------------------------------
(* The result never says that the node can be reached in a way in which it  *)
(* cannot, whatever is lost, and says all there is to say when each test    *)
(* whose answer can pass got one.                                           *)
Classified ==
    test = "done" =>
        /\ nat \in Claims[kind]
        /\ ~lossy /\ ~error => kind = Real(nat)

(* When the application registers from the port that was tested, the        *)
(* discovery no longer keeps that port bound.                               *)
PortFree == app = "registering" /\ tested = "fixed" => ~leaked

(* The user hears of the discovery in the end.                              *)
Reported == <>(app # "waiting")

===============================================================================
