-------------------------- MODULE VoiceThreadsProofs --------------------------
(***************************************************************************)
(* The safety of VoiceThreads for any number of calls.                     *)
(*                                                                         *)
(* MicOff and LateSend hold however the calls overlap.  OwnObjects and     *)
(* EncodeExclusive hold while no call started over an unfinished one; the  *)
(* inductive form, Solo, says that all but the latest call are then quiet, *)
(* that a worker serves the Encoder of its own call, and which of the      *)
(* shared fields the capture thread has set at each of its places.         *)
(***************************************************************************)
EXTENDS VoiceThreads, FiniteSetTheorems, TLAPS

Looping == {"loop", "read", "test", "put", "fetch", "take"}

Recorders == Looping \cup {"stopRecorder", "dead"}

MicInv == recording => \E k \in Calls : capture[k] \in Recorders

LateInv ==
    \A k \in Calls :
        /\ capture[k] # "none" => k <= calls
        /\ late[k] = 0 \/ /\ late[k] = 1 /\ runner # k
                          /\ capture[k] \in {"loop", "stopRecorder", "stopEncoder", "done"}

SoloCall(k) ==
    /\ k # calls => /\ capture[k] \in {"none", "done"}
                    /\ worker[k] \in {"none", "done", "idle"}
                    /\ worker[k] = "idle" => k \notin frame
    /\ k > calls => encRunner[k] = 0 /\ worker[k] = "none"
    /\ worker[k] # "none" => serves[k] = k
    /\ capture[k] \in {"run", "launch"} => encRunner[k] = 0
    /\ capture[k] = "run" => worker[k] = "none"
    /\ capture[k] \in Looping \cup {"launch", "record", "stopRecorder", "stopEncoder"} =>
           encoder = k
    /\ capture[k] \in Looping \cup {"record", "stopRecorder", "stopEncoder"} =>
           encRunner[k] = k
    /\ capture[k] \in Looping \cup {"stopRecorder"} => recording
    /\ capture[k] = "take" => coded[k] > 0
    /\ capture[k] # "dead" /\ worker[k] # "dead"

Solo == ~hasty => \A k \in Calls : SoloCall(k)

TypeFlags == recording \in BOOLEAN /\ hasty \in BOOLEAN

TypeRest ==
    /\ calls \in 0..MaxCalls /\ runner \in CallOrNull /\ encoder \in CallOrNull
    /\ capture \in [Calls -> CapturePlaces]
    /\ worker \in [Calls -> WorkerPlaces]
    /\ serves \in [Calls -> CallOrNull] /\ encRunner \in [Calls -> CallOrNull]
    /\ frame \subseteq Calls
    /\ coded \in [Calls -> Nat] /\ late \in [Calls -> Nat]
    /\ \A k \in Calls : capture[k] \notin {"none", "run"} => encoder \in Calls

IInv == TypeFlags /\ TypeRest /\ MicInv /\ LateInv /\ Solo

-------------------------------------------------------------------------------
LEMMA InitIInv == Init => IInv
<1> SUFFICES ASSUME Init PROVE IInv
  OBVIOUS
<1>1. TypeFlags
  BY Zenon DEF Init, TypeFlags
<1>2. TypeRest /\ MicInv /\ LateInv
  BY VoiceAssumption DEF Init, TypeRest, CallOrNull, CapturePlaces, WorkerPlaces, MicInv, LateInv
<1>3. Solo
  BY DEF Init, Solo, SoloCall, Looping
<1> QED
  BY <1>1, <1>2, <1>3 DEF IInv

(* The actions of Next, one by one.                                         *)
LEMMA Steps ==
  ASSUME Next
  PROVE  StartAudio \/ StopAudio
         \/ \E k \in Calls : \/ AssignEncoder(k) \/ LaunchEncoder(k) \/ StartRecording(k) \/ CaptureLoop(k)
                              \/ Read(k) \/ TestIdle(k) \/ PutData(k) \/ IsGetData(k)
                              \/ SendCoded(k) \/ StopRecorder(k) \/ StopEncoder(k)
                              \/ WorkerLoop(k) \/ Awake(k) \/ BeginEncode(k) \/ EndEncode(k)
BY Zenon DEF Next, CaptureStep, WorkerStep

LEMMA FlagsStep == IInv /\ Next => TypeFlags'
<1> SUFFICES ASSUME IInv, Next PROVE TypeFlags'
  OBVIOUS
<1> USE DEF IInv, TypeFlags
<1>1. CASE StartAudio
  BY Zenon, <1>1 DEF StartAudio
<1>2. CASE StopAudio
  BY Zenon, <1>2 DEF StopAudio
<1>3. ASSUME NEW k \in Calls, AssignEncoder(k) PROVE TypeFlags'
  BY Zenon, <1>3 DEF AssignEncoder
<1>4. ASSUME NEW k \in Calls, LaunchEncoder(k) PROVE TypeFlags'
  BY Zenon, <1>4 DEF LaunchEncoder
<1>5. ASSUME NEW k \in Calls, StartRecording(k) PROVE TypeFlags'
  BY Zenon, <1>5 DEF StartRecording
<1>6. ASSUME NEW k \in Calls, CaptureLoop(k) PROVE TypeFlags'
  BY Zenon, <1>6 DEF CaptureLoop
<1>7. ASSUME NEW k \in Calls, Read(k) PROVE TypeFlags'
  BY Zenon, <1>7 DEF Read
<1>8. ASSUME NEW k \in Calls, TestIdle(k) PROVE TypeFlags'
  BY Zenon, <1>8 DEF TestIdle
<1>9. ASSUME NEW k \in Calls, PutData(k) PROVE TypeFlags'
  BY Zenon, <1>9 DEF PutData
<1>10. ASSUME NEW k \in Calls, IsGetData(k) PROVE TypeFlags'
  BY Zenon, <1>10 DEF IsGetData
<1>11. ASSUME NEW k \in Calls, SendCoded(k) PROVE TypeFlags'
  BY Zenon, <1>11 DEF SendCoded
<1>12. ASSUME NEW k \in Calls, StopRecorder(k) PROVE TypeFlags'
  BY Zenon, <1>12 DEF StopRecorder
<1>13. ASSUME NEW k \in Calls, StopEncoder(k) PROVE TypeFlags'
  BY Zenon, <1>13 DEF StopEncoder
<1>14. ASSUME NEW k \in Calls, WorkerLoop(k) PROVE TypeFlags'
  BY Zenon, <1>14 DEF WorkerLoop
<1>15. ASSUME NEW k \in Calls, Awake(k) PROVE TypeFlags'
  BY Zenon, <1>15 DEF Awake
<1>16. ASSUME NEW k \in Calls, BeginEncode(k) PROVE TypeFlags'
  BY Zenon, <1>16 DEF BeginEncode
<1>17. ASSUME NEW k \in Calls, EndEncode(k) PROVE TypeFlags'
  BY Zenon, <1>17 DEF EndEncode
<1> QED
  BY Steps, <1>1, <1>2, <1>3, <1>4, <1>5, <1>6, <1>7, <1>8, <1>9,
     <1>10, <1>11, <1>12, <1>13, <1>14, <1>15, <1>16, <1>17

LEMMA RestStep == IInv /\ Next => TypeRest'
<1> SUFFICES ASSUME IInv, Next PROVE TypeRest'
  OBVIOUS
<1> USE DEF IInv, TypeRest, LateInv, CapturePlaces, WorkerPlaces, CallOrNull, At, Works
<1>1. CASE StartAudio
  <2>1. calls + 1 \in Calls /\ calls' \in 0..MaxCalls /\ runner' \in CallOrNull
    BY VoiceAssumption, <1>1 DEF StartAudio, Calls
  <2>2. /\ capture' = [capture EXCEPT ![calls + 1] = "run"]
        /\ UNCHANGED <<encoder, encRunner, worker, serves, frame, coded, late>>
    BY <1>1 DEF StartAudio
  <2> QED
    BY <2>1, <2>2
<1>2. CASE StopAudio
  BY <1>2 DEF StopAudio
<1>3. ASSUME NEW k \in Calls, AssignEncoder(k) PROVE TypeRest'
  BY <1>3 DEF AssignEncoder
<1>4. ASSUME NEW k \in Calls, LaunchEncoder(k) PROVE TypeRest'
  BY <1>4 DEF LaunchEncoder
<1>5. ASSUME NEW k \in Calls, StartRecording(k) PROVE TypeRest'
  BY <1>5 DEF StartRecording
<1>6. ASSUME NEW k \in Calls, CaptureLoop(k) PROVE TypeRest'
  BY <1>6 DEF CaptureLoop
<1>7. ASSUME NEW k \in Calls, Read(k) PROVE TypeRest'
  BY <1>7 DEF Read
<1>8. ASSUME NEW k \in Calls, TestIdle(k) PROVE TypeRest'
  BY <1>8 DEF TestIdle
<1>9. ASSUME NEW k \in Calls, PutData(k) PROVE TypeRest'
  BY <1>9 DEF PutData
<1>10. ASSUME NEW k \in Calls, IsGetData(k) PROVE TypeRest'
  BY <1>10 DEF IsGetData
<1>11. ASSUME NEW k \in Calls, SendCoded(k) PROVE TypeRest'
  BY <1>11 DEF SendCoded
<1>12. ASSUME NEW k \in Calls, StopRecorder(k) PROVE TypeRest'
  BY <1>12 DEF StopRecorder
<1>13. ASSUME NEW k \in Calls, StopEncoder(k) PROVE TypeRest'
  BY <1>13 DEF StopEncoder
<1>14. ASSUME NEW k \in Calls, WorkerLoop(k) PROVE TypeRest'
  BY <1>14 DEF WorkerLoop
<1>15. ASSUME NEW k \in Calls, Awake(k) PROVE TypeRest'
  BY <1>15 DEF Awake
<1>16. ASSUME NEW k \in Calls, BeginEncode(k) PROVE TypeRest'
  BY <1>16 DEF BeginEncode
<1>17. ASSUME NEW k \in Calls, EndEncode(k) PROVE TypeRest'
  <2>1. coded' \in [Calls -> Nat]
    <3>1. CASE serves[k] \in Calls
      BY <1>17, <3>1 DEF EndEncode
    <3>2. CASE serves[k] \notin Calls
      BY <1>17, <3>2 DEF EndEncode
    <3> QED
      BY <3>1, <3>2
  <2> QED
    BY <1>17, <2>1 DEF EndEncode
<1> QED
  BY Steps, <1>1, <1>2, <1>3, <1>4, <1>5, <1>6, <1>7, <1>8, <1>9,
     <1>10, <1>11, <1>12, <1>13, <1>14, <1>15, <1>16, <1>17

LEMMA MicStep == IInv /\ Next => MicInv'
<1> SUFFICES ASSUME IInv, Next PROVE MicInv'
  OBVIOUS
<1> USE DEF IInv, MicInv, TypeRest, CapturePlaces, Recorders, Looping, At, Works
<1>1. CASE StartAudio
  <2>1. calls + 1 \in Calls
    BY VoiceAssumption, <1>1 DEF StartAudio, Calls
  <2>2. /\ capture' = [capture EXCEPT ![calls + 1] = "run"]
        /\ recording' = recording /\ capture[calls + 1] = "none"
    BY <1>1, <2>1 DEF StartAudio, LateInv
  <2> QED
    BY <2>1, <2>2
<1>2. CASE StopAudio
  BY <1>2 DEF StopAudio
<1>3. ASSUME NEW k \in Calls, AssignEncoder(k) PROVE MicInv'
  BY <1>3 DEF AssignEncoder
<1>4. ASSUME NEW k \in Calls, LaunchEncoder(k) PROVE MicInv'
  BY <1>4 DEF LaunchEncoder
<1>5. ASSUME NEW k \in Calls, StartRecording(k) PROVE MicInv'
  BY <1>5 DEF StartRecording
<1>6. ASSUME NEW k \in Calls, CaptureLoop(k) PROVE MicInv'
  BY <1>6 DEF CaptureLoop
<1>7. ASSUME NEW k \in Calls, Read(k) PROVE MicInv'
  BY <1>7 DEF Read
<1>8. ASSUME NEW k \in Calls, TestIdle(k) PROVE MicInv'
  BY <1>8 DEF TestIdle
<1>9. ASSUME NEW k \in Calls, PutData(k) PROVE MicInv'
  BY <1>9 DEF PutData
<1>10. ASSUME NEW k \in Calls, IsGetData(k) PROVE MicInv'
  BY <1>10 DEF IsGetData
<1>11. ASSUME NEW k \in Calls, SendCoded(k) PROVE MicInv'
  BY <1>11 DEF SendCoded
<1>12. ASSUME NEW k \in Calls, StopRecorder(k) PROVE MicInv'
  BY <1>12 DEF StopRecorder
<1>13. ASSUME NEW k \in Calls, StopEncoder(k) PROVE MicInv'
  BY <1>13 DEF StopEncoder
<1>14. ASSUME NEW k \in Calls, WorkerLoop(k) PROVE MicInv'
  BY <1>14 DEF WorkerLoop
<1>15. ASSUME NEW k \in Calls, Awake(k) PROVE MicInv'
  BY <1>15 DEF Awake
<1>16. ASSUME NEW k \in Calls, BeginEncode(k) PROVE MicInv'
  BY <1>16 DEF BeginEncode
<1>17. ASSUME NEW k \in Calls, EndEncode(k) PROVE MicInv'
  BY <1>17 DEF EndEncode
<1> QED
  BY Steps, <1>1, <1>2, <1>3, <1>4, <1>5, <1>6, <1>7, <1>8, <1>9,
     <1>10, <1>11, <1>12, <1>13, <1>14, <1>15, <1>16, <1>17

LEMMA LateStep == IInv /\ Next => LateInv'
<1> SUFFICES ASSUME IInv, Next PROVE LateInv'
  OBVIOUS
<1> USE DEF IInv, LateInv, TypeRest, CapturePlaces, Calls, At, Works
<1>1. CASE StartAudio
  BY <1>1 DEF StartAudio
<1>2. CASE StopAudio
  BY <1>2 DEF StopAudio
<1>3. ASSUME NEW k \in Calls, AssignEncoder(k) PROVE LateInv'
  BY <1>3 DEF AssignEncoder
<1>4. ASSUME NEW k \in Calls, LaunchEncoder(k) PROVE LateInv'
  BY <1>4 DEF LaunchEncoder
<1>5. ASSUME NEW k \in Calls, StartRecording(k) PROVE LateInv'
  BY <1>5 DEF StartRecording
<1>6. ASSUME NEW k \in Calls, CaptureLoop(k) PROVE LateInv'
  BY <1>6 DEF CaptureLoop
<1>7. ASSUME NEW k \in Calls, Read(k) PROVE LateInv'
  BY <1>7 DEF Read
<1>8. ASSUME NEW k \in Calls, TestIdle(k) PROVE LateInv'
  BY <1>8 DEF TestIdle
<1>9. ASSUME NEW k \in Calls, PutData(k) PROVE LateInv'
  BY <1>9 DEF PutData
<1>10. ASSUME NEW k \in Calls, IsGetData(k) PROVE LateInv'
  BY <1>10 DEF IsGetData
<1>11. ASSUME NEW k \in Calls, SendCoded(k) PROVE LateInv'
  <2>1. capture[k] = "take" /\ late[k] = 0
    BY <1>11 DEF SendCoded
  <2>2. late'[k] = 0 \/ (late'[k] = 1 /\ runner # k /\ capture'[k] = "loop")
    <3>1. CASE coded[encoder] > 0
      <4>1. /\ late' = [late EXCEPT ![k] = IF runner = k THEN @ ELSE @ + 1]
            /\ capture' = [capture EXCEPT ![k] = "loop"]
        BY <1>11, <3>1 DEF SendCoded
      <4>2. capture'[k] = "loop" /\ late'[k] = IF runner = k THEN 0 ELSE 1
        BY <2>1, <4>1
      <4> QED
        BY <4>2
    <3>2. CASE coded[encoder] = 0 /\ UNCHANGED late
      BY <2>1, <3>2
    <3> QED
      BY <1>11, <3>1, <3>2 DEF SendCoded
  <2>3. \A j \in Calls : j # k => late'[j] = late[j] /\ capture'[j] = capture[j]
    BY <1>11 DEF SendCoded
  <2>4. runner' = runner /\ calls' = calls /\ k <= calls
    BY <1>11, <2>1 DEF SendCoded
  <2> QED
    BY <2>2, <2>3, <2>4
<1>12. ASSUME NEW k \in Calls, StopRecorder(k) PROVE LateInv'
  BY <1>12 DEF StopRecorder
<1>13. ASSUME NEW k \in Calls, StopEncoder(k) PROVE LateInv'
  BY <1>13 DEF StopEncoder
<1>14. ASSUME NEW k \in Calls, WorkerLoop(k) PROVE LateInv'
  BY <1>14 DEF WorkerLoop
<1>15. ASSUME NEW k \in Calls, Awake(k) PROVE LateInv'
  BY <1>15 DEF Awake
<1>16. ASSUME NEW k \in Calls, BeginEncode(k) PROVE LateInv'
  BY <1>16 DEF BeginEncode
<1>17. ASSUME NEW k \in Calls, EndEncode(k) PROVE LateInv'
  BY <1>17 DEF EndEncode
<1> QED
  BY Steps, <1>1, <1>2, <1>3, <1>4, <1>5, <1>6, <1>7, <1>8, <1>9,
     <1>10, <1>11, <1>12, <1>13, <1>14, <1>15, <1>16, <1>17

LEMMA SoloStep == IInv /\ Next => Solo'
<1> SUFFICES ASSUME IInv, Next PROVE Solo'
  OBVIOUS
<1> USE DEF IInv, Solo, SoloCall, TypeRest, CapturePlaces, WorkerPlaces, CallOrNull, Looping, Quiet, At, Works
<1>1. CASE StartAudio
  <2> SUFFICES ASSUME ~hasty', NEW k \in Calls PROVE SoloCall(k)'
    OBVIOUS
  <2>1. /\ ~hasty /\ \A j \in Calls : Quiet(j)
    BY Zenon, <1>1 DEF StartAudio
  <2>2. /\ calls + 1 \in Calls /\ calls' = calls + 1
        /\ capture' = [capture EXCEPT ![calls + 1] = "run"]
        /\ UNCHANGED <<recording, encoder, encRunner, worker, serves, frame, coded>>
    BY VoiceAssumption, <1>1 DEF StartAudio, Calls
  <2>3. /\ capture[k] \in {"none", "done"}
        /\ worker[k] \in {"none", "done", "idle"}
        /\ worker[k] = "idle" => k \notin frame
    BY <2>1
  <2>4. CASE k = calls + 1
    BY <2>1, <2>2, <2>3, <2>4 DEF Calls
  <2>5. CASE k # calls + 1
    BY <2>1, <2>2, <2>3, <2>5 DEF Calls
  <2> QED
    BY <2>4, <2>5
<1>2. CASE StopAudio
  BY <1>2 DEF StopAudio
<1>3. ASSUME NEW k \in Calls, AssignEncoder(k) PROVE Solo'
  BY <1>3 DEF AssignEncoder
<1>4. ASSUME NEW k \in Calls, LaunchEncoder(k) PROVE Solo'
  BY <1>4 DEF LaunchEncoder
<1>5. ASSUME NEW k \in Calls, StartRecording(k) PROVE Solo'
  BY <1>5 DEF StartRecording
<1>6. ASSUME NEW k \in Calls, CaptureLoop(k) PROVE Solo'
  BY <1>6 DEF CaptureLoop
<1>7. ASSUME NEW k \in Calls, Read(k) PROVE Solo'
  BY <1>7 DEF Read
<1>8. ASSUME NEW k \in Calls, TestIdle(k) PROVE Solo'
  BY <1>8 DEF TestIdle
<1>9. ASSUME NEW k \in Calls, PutData(k) PROVE Solo'
  BY <1>9 DEF PutData
<1>10. ASSUME NEW k \in Calls, IsGetData(k) PROVE Solo'
  BY <1>10 DEF IsGetData
<1>11. ASSUME NEW k \in Calls, SendCoded(k) PROVE Solo'
  BY <1>11 DEF SendCoded
<1>12. ASSUME NEW k \in Calls, StopRecorder(k) PROVE Solo'
  BY <1>12 DEF StopRecorder
<1>13. ASSUME NEW k \in Calls, StopEncoder(k) PROVE Solo'
  BY <1>13 DEF StopEncoder
<1>14. ASSUME NEW k \in Calls, WorkerLoop(k) PROVE Solo'
  BY <1>14 DEF WorkerLoop
<1>15. ASSUME NEW k \in Calls, Awake(k) PROVE Solo'
  BY <1>15 DEF Awake
<1>16. ASSUME NEW k \in Calls, BeginEncode(k) PROVE Solo'
  BY <1>16 DEF BeginEncode
<1>17. ASSUME NEW k \in Calls, EndEncode(k) PROVE Solo'
  BY <1>17 DEF EndEncode
<1> QED
  BY Steps, <1>1, <1>2, <1>3, <1>4, <1>5, <1>6, <1>7, <1>8, <1>9,
     <1>10, <1>11, <1>12, <1>13, <1>14, <1>15, <1>16, <1>17

LEMMA Inductive == IInv /\ [Next]_vars => IInv'
<1>1. CASE Next
  BY <1>1, FlagsStep, RestStep, MicStep, LateStep, SoloStep DEF IInv
<1>2. ASSUME IInv, UNCHANGED vars PROVE IInv'
  <2>1. TypeFlags'
    BY Zenon, <1>2 DEF IInv, TypeFlags, vars
  <2>2. TypeRest' /\ LateInv' /\ MicInv'
    BY <1>2 DEF IInv, TypeRest, LateInv, MicInv, vars
  <2>3. Solo'
    BY <1>2 DEF IInv, Solo, SoloCall, vars
  <2> QED
    BY <2>1, <2>2, <2>3 DEF IInv
<1> QED
  BY <1>1, <1>2

LEMMA Invariance == Spec => []IInv
BY InitIInv, Inductive, PTL DEF Spec

-------------------------------------------------------------------------------
(* How many steps a capture thread is at most away from its end when runner *)
(* no longer is this thread.                                                *)
StepsLeft(place) ==
    CASE place = "none" -> 12        [] place = "run" -> 11
      [] place = "launch" -> 10      [] place = "record" -> 9
      [] place = "read" -> 8         [] place = "test" -> 7
      [] place = "put" -> 6          [] place = "fetch" -> 5
      [] place = "take" -> 4         [] place = "loop" -> 3
      [] place = "stopRecorder" -> 2 [] place = "stopEncoder" -> 1
      [] OTHER -> 0

LEMMA OwnStep ==
  ASSUME TypeRest, NEW k \in Calls, CaptureStep(k), runner # k
  PROVE  StepsLeft(capture'[k]) < StepsLeft(capture[k])
<1> USE DEF TypeRest, At, StepsLeft
<1>1. CASE AssignEncoder(k) \/ LaunchEncoder(k) \/ StartRecording(k)
  BY <1>1 DEF AssignEncoder, LaunchEncoder, StartRecording
<1>2. CASE CaptureLoop(k) \/ Read(k) \/ TestIdle(k)
  BY <1>2 DEF CaptureLoop, Read, TestIdle
<1>3. CASE PutData(k) \/ IsGetData(k) \/ SendCoded(k)
  BY <1>3 DEF PutData, IsGetData, SendCoded
<1>4. CASE StopRecorder(k) \/ StopEncoder(k)
  BY <1>4 DEF StopRecorder, StopEncoder
<1> QED
  BY <1>1, <1>2, <1>3, <1>4, Zenon DEF CaptureStep

LEMMA CaptureFrame ==
  ASSUME TypeRest, NEW j \in Calls, CaptureStep(j)
  PROVE  runner' = runner /\ \A k \in Calls : k # j => capture'[k] = capture[k]
<1> USE DEF TypeRest, At
<1>1. CASE AssignEncoder(j) \/ LaunchEncoder(j) \/ StartRecording(j)
  BY <1>1 DEF AssignEncoder, LaunchEncoder, StartRecording
<1>2. CASE CaptureLoop(j) \/ Read(j) \/ TestIdle(j)
  BY <1>2 DEF CaptureLoop, Read, TestIdle
<1>3. CASE PutData(j) \/ IsGetData(j) \/ SendCoded(j)
  BY <1>3 DEF PutData, IsGetData, SendCoded
<1>4. CASE StopRecorder(j) \/ StopEncoder(j)
  BY <1>4 DEF StopRecorder, StopEncoder
<1> QED
  BY <1>1, <1>2, <1>3, <1>4, Zenon DEF CaptureStep

LEMMA WorkerFrame ==
  ASSUME NEW w \in Calls, WorkerStep(w)
  PROVE  UNCHANGED <<runner, capture>>
BY DEF WorkerStep, WorkerLoop, Awake, BeginEncode, EndEncode

(* The capture threads of the calls so far have begun.                      *)
Started == \A k \in Calls : k <= calls => capture[k] # "none"

LEMMA StartedStep == IInv /\ Started /\ [Next]_vars => Started'
<1> SUFFICES ASSUME IInv, Started, [Next]_vars PROVE Started'
  OBVIOUS
<1> USE DEF Started
<1>1. CASE StartAudio
  BY <1>1 DEF StartAudio, IInv, TypeRest, Calls
<1>2. CASE StopAudio
  BY <1>2 DEF StopAudio
<1>3. ASSUME NEW j \in Calls, CaptureStep(j) PROVE Started'
  <2>1. capture'[j] # "none" /\ calls' = calls
    BY <1>3 DEF CaptureStep, AssignEncoder, LaunchEncoder, StartRecording, CaptureLoop, Read,
                TestIdle, PutData, IsGetData, SendCoded, StopRecorder, StopEncoder, At,
                IInv, TypeRest
  <2> QED
    BY <1>3, <2>1, CaptureFrame DEF IInv
<1>4. ASSUME NEW w \in Calls, WorkerStep(w) PROVE Started'
  BY <1>4 DEF WorkerStep, WorkerLoop, Awake, BeginEncode, EndEncode
<1>5. CASE UNCHANGED vars
  BY <1>5 DEF vars
<1> QED
  BY <1>1, <1>2, <1>3, <1>4, <1>5 DEF Next

LEMMA StartedInvariance == Spec => []Started
<1>1. Init => Started
  BY DEF Init, Started, Calls
<1> QED
  BY <1>1, StartedStep, Invariance, PTL DEF Spec

(* The steps of others neither move a thread nor make it the runner again.  *)
LEMMA Superseded ==
  ASSUME IInv, [Next]_vars, NEW k \in Calls, k <= calls, runner # k
  PROVE  /\ runner' # k
         /\ capture'[k] = capture[k] \/ CaptureStep(k)
<1>1. CASE StartAudio
  <2>1. runner' = calls + 1 /\ capture' = [capture EXCEPT ![calls + 1] = "run"]
    BY <1>1 DEF StartAudio
  <2>2. k # calls + 1
    BY DEF IInv, TypeRest, Calls
  <2> QED
    BY <2>1, <2>2 DEF IInv, TypeRest
<1>2. CASE StopAudio
  BY <1>2 DEF StopAudio, Calls
<1>3. ASSUME NEW j \in Calls, CaptureStep(j)
      PROVE  runner' = runner /\ (capture'[k] = capture[k] \/ CaptureStep(k))
  BY <1>3, CaptureFrame DEF IInv
<1>4. ASSUME NEW w \in Calls, WorkerStep(w) PROVE UNCHANGED <<runner, capture>>
  BY <1>4, WorkerFrame
<1>5. CASE UNCHANGED vars
  BY <1>5 DEF vars
<1> QED
  BY <1>1, <1>2, <1>3, <1>4, <1>5 DEF Next

-------------------------------------------------------------------------------
(* The worker an Encoder calls its runner serves it and has not ended; a    *)
(* worker begins with the launch of its Encoder.                            *)
AtWork == {"loop", "idle", "work", "encode"}

Manned ==
    /\ \A k \in Calls : capture[k] \in {"none", "run", "launch"} => worker[k] = "none"
    /\ \A e \in Calls : encRunner[e] # 0 =>
           serves[encRunner[e]] = e /\ worker[encRunner[e]] \in AtWork \cup {"dead"}

(* What a worker has before it until a frame is coded.                      *)
WorkLeft(place) ==
    CASE place = "loop"   -> 4
      [] place = "idle"   -> 3
      [] place = "work"   -> 2
      [] place = "encode" -> 1
      [] OTHER            -> 0

(* What a step may do to the frame of Encoder e.                            *)
Onward(e) ==
    \/ e \notin frame'
    \/ encRunner'[e] = 0
    \/ Crashed'
    \/ /\ encRunner'[e] = encRunner[e]
       /\ \/ worker'[encRunner[e]] = worker[encRunner[e]]
          \/ WorkLeft(worker'[encRunner[e]]) < WorkLeft(worker[encRunner[e]])

LEMMA LaunchManned ==
  ASSUME IInv, Manned, NEW k \in Calls, LaunchEncoder(k)
  PROVE  /\ Manned'
         /\ \A e \in Calls : encRunner[e] # 0 =>
                encRunner'[e] = encRunner[e]
                /\ worker'[encRunner[e]] = worker[encRunner[e]]
<1> USE DEF IInv, TypeRest
<1>1. capture[k] = "launch" /\ capture' = [capture EXCEPT ![k] = "record"]
  BY DEF LaunchEncoder, At
<1>2. worker[k] = "none" /\ encoder \in Calls
  BY <1>1 DEF Manned
<1>3. \A e \in Calls : encRunner[e] # 0 => encRunner[e] \in Calls /\ encRunner[e] # k
  BY <1>2 DEF Manned, AtWork, CallOrNull
<1>4. CASE encRunner[encoder] = 0
  <2>1. /\ encRunner' = [encRunner EXCEPT ![encoder] = k]
        /\ worker' = [worker EXCEPT ![k] = "loop"]
        /\ serves' = [serves EXCEPT ![k] = encoder]
    BY <1>4 DEF LaunchEncoder
  <2>2. \A e \in Calls : encRunner[e] # 0 =>
            encRunner'[e] = encRunner[e]
            /\ worker'[encRunner[e]] = worker[encRunner[e]]
    BY <1>3, <1>4, <2>1
  <2>3. ASSUME NEW e \in Calls, encRunner'[e] # 0
        PROVE  serves'[encRunner'[e]] = e /\ worker'[encRunner'[e]] \in AtWork \cup {"dead"}
    <3>1. CASE e = encoder
      BY <1>2, <2>1, <3>1 DEF AtWork
    <3>2. CASE e # encoder
      BY <1>3, <2>1, <2>3, <3>2 DEF Manned
    <3> QED
      BY <3>1, <3>2
  <2>4. \A j \in Calls : capture'[j] \in {"none", "run", "launch"} => worker'[j] = "none"
    BY <1>1, <2>1 DEF Manned
  <2> QED
    BY <2>2, <2>3, <2>4 DEF Manned
<1>5. CASE encRunner[encoder] # 0
  BY <1>1, <1>5 DEF LaunchEncoder, Manned
<1> QED
  BY <1>4, <1>5

LEMMA CaptureManned ==
  ASSUME IInv, Manned, NEW k \in Calls, CaptureStep(k)
  PROVE  /\ Manned'
         /\ \A e \in Calls : encRunner[e] # 0 => Onward(e)
<1>1. CASE LaunchEncoder(k)
  BY <1>1, LaunchManned DEF Onward
<1>2. CASE StopEncoder(k)
  <2>1. /\ UNCHANGED <<worker, serves>>
        /\ encRunner' = [encRunner EXCEPT ![encoder] = 0]
        /\ capture' = [capture EXCEPT ![k] = "done"]
    BY <1>2 DEF StopEncoder, At
  <2>2. \A e \in Calls : encRunner'[e] \in {0, encRunner[e]}
    BY <2>1 DEF IInv, TypeRest
  <2> QED
    BY <2>1, <2>2 DEF Manned, Onward, IInv, TypeRest
<1>3. CASE AssignEncoder(k)
  BY <1>3 DEF AssignEncoder, At, Manned, Onward, IInv, TypeRest
<1>4. CASE /\ UNCHANGED <<worker, serves, encRunner>>
           /\ capture'[k] \notin {"none", "run", "launch"}
  <2>1. \A j \in Calls : j # k => capture'[j] = capture[j]
    BY CaptureFrame DEF IInv
  <2> QED
    BY <1>4, <2>1 DEF Manned, Onward
<1>5. CASE StartRecording(k) \/ CaptureLoop(k) \/ Read(k) \/ TestIdle(k)
  BY <1>4, <1>5 DEF StartRecording, CaptureLoop, Read, TestIdle, At, IInv, TypeRest
<1>6. CASE PutData(k) \/ IsGetData(k) \/ SendCoded(k) \/ StopRecorder(k)
  BY <1>4, <1>6 DEF PutData, IsGetData, SendCoded, StopRecorder, At, IInv, TypeRest
<1> QED
  BY <1>1, <1>2, <1>3, <1>5, <1>6, Zenon DEF CaptureStep

LEMMA WorkerManned ==
  ASSUME IInv, Manned, NEW w \in Calls, WorkerStep(w)
  PROVE  /\ Manned'
         /\ \A e \in Calls : encRunner[e] # 0 => Onward(e)
<1>1. UNCHANGED <<capture, encRunner, serves>>
  BY DEF WorkerStep, WorkerLoop, Awake, BeginEncode, EndEncode
<1>2. worker[w] # "none" /\ \A v \in Calls : v # w => worker'[v] = worker[v]
  BY DEF WorkerStep, WorkerLoop, Awake, BeginEncode, EndEncode, Works, IInv, TypeRest
(* Its own Encoder's worker goes on, or has coded the frame.                *)
<1>3. ASSUME NEW e \in Calls, encRunner[e] = w
      PROVE  worker'[w] \in AtWork \cup {"dead"} /\ Onward(e)
  <2>1. serves[w] = e
    BY <1>3 DEF Manned, Calls
  <2>2. CASE WorkerLoop(w)
    <3>1. worker[w] = "loop" /\ worker'[w] = "idle"
      BY <1>3, <2>1, <2>2 DEF WorkerLoop, Works, IInv, TypeRest
    <3> QED
      BY <1>1, <1>3, <3>1 DEF AtWork, Onward, WorkLeft
  <2>3. CASE Awake(w)
    <3>1. worker[w] = "idle" /\ worker'[w] = "work"
      BY <2>3 DEF Awake, Works, IInv, TypeRest
    <3> QED
      BY <1>1, <1>3, <3>1 DEF AtWork, Onward, WorkLeft
  <2>4. CASE BeginEncode(w)
    <3>1. worker[w] = "work" /\ worker'[w] = "encode"
      BY <2>4 DEF BeginEncode, Works, IInv, TypeRest
    <3> QED
      BY <1>1, <1>3, <3>1 DEF AtWork, Onward, WorkLeft
  <2>5. CASE EndEncode(w)
    <3>1. \/ worker'[w] = "loop" /\ e \notin frame'
          \/ worker'[w] = "dead"
      BY <2>1, <2>5 DEF EndEncode, Works, IInv, TypeRest
    <3> QED
      BY <3>1 DEF AtWork, Onward, Crashed
  <2> QED
    BY <2>2, <2>3, <2>4, <2>5 DEF WorkerStep
<1>4. ASSUME NEW e \in Calls, encRunner[e] # 0, encRunner[e] # w
      PROVE  worker'[encRunner[e]] = worker[encRunner[e]]
  BY <1>2, <1>4 DEF IInv, TypeRest, CallOrNull
<1>5. \A e \in Calls : encRunner[e] # 0 => Onward(e)
  BY <1>1, <1>3, <1>4 DEF Onward
<1>6. \A e \in Calls : encRunner[e] # 0 =>
          serves[encRunner[e]] = e /\ worker'[encRunner[e]] \in AtWork \cup {"dead"}
  BY <1>3, <1>4 DEF Manned
<1> QED
  BY <1>1, <1>2, <1>5, <1>6 DEF Manned

LEMMA MannedStep ==
  ASSUME IInv, Manned, [Next]_vars
  PROVE  /\ Manned'
         /\ \A e \in Calls : encRunner[e] # 0 => Onward(e)
<1>1. CASE StartAudio
  <2>1. /\ UNCHANGED <<encRunner, worker, serves>>
        /\ capture' = [capture EXCEPT ![calls + 1] = "run"]
    BY <1>1 DEF StartAudio
  <2>2. capture[calls + 1] = "none"
    <3>1. calls \in Nat /\ calls < MaxCalls
      BY <1>1 DEF StartAudio, IInv, TypeRest
    <3>2. calls + 1 \in Calls /\ ~(calls + 1 <= calls)
      BY <3>1, VoiceAssumption DEF Calls
    <3> QED
      BY <3>2 DEF IInv, LateInv
  <2>3. \A k \in Calls : capture'[k] \in {"none", "run", "launch"} => worker'[k] = "none"
    BY <2>1, <2>2 DEF Manned, IInv, TypeRest
  <2> QED
    BY <2>1, <2>3 DEF Manned, Onward
<1>2. CASE StopAudio \/ UNCHANGED vars
  BY <1>2 DEF StopAudio, vars, Manned, Onward
<1> QED
  BY <1>1, <1>2, CaptureManned, WorkerManned DEF Next

-------------------------------------------------------------------------------
(* The variables keep their types.                                          *)
THEOREM VoiceTypeCorrect == Spec => []TypeOK
<1>1. IInv => TypeOK
  BY Zenon DEF IInv, TypeFlags, TypeRest, TypeOK
<1> QED
  BY <1>1, Invariance, PTL

(* However many calls overlap and in whatever order their threads end, the  *)
(* recorder is off once no capture thread is left (LanAudioRecord:187).     *)
THEOREM MicCorrect == Spec => []MicOff
<1>1. IInv => MicOff
  BY DEF IInv, MicInv, MicOff, Recorders, Looping
<1> QED
  BY <1>1, Invariance, PTL

(* A capture thread that was superseded or stopped sends at most one more   *)
(* packet (LanAudioRecord:111).                                             *)
THEOREM LateCorrect == Spec => []LateSend
<1>1. IInv => LateSend
  BY DEF IInv, LateInv, LateSend
<1> QED
  BY <1>1, Invariance, PTL

(* While every call starts after the last one has ended, the looping        *)
(* capture thread owns the recorder and a working Encoder, and getData      *)
(* never finds the queue empty (LanAudioRecord:123).                        *)
THEOREM ObjectsCorrect == Spec => []OwnObjects
<1>1. IInv => OwnObjects
  BY DEF IInv, Solo, SoloCall, OwnObjects, Looping, Crashed
<1> QED
  BY <1>1, Invariance, PTL

(* Under the same condition one worker encodes at a time (Encoder:80).      *)
THEOREM EncodeCorrect == Spec => []EncodeExclusive
<1>1. IInv => EncodeExclusive
  <2> SUFFICES ASSUME IInv, ~hasty
               PROVE  Cardinality({w \in Calls : worker[w] = "encode"}) <= 1
    BY DEF EncodeExclusive
  <2> DEFINE E == {w \in Calls : worker[w] = "encode"}
  <2>1. E \subseteq {calls}
    BY DEF IInv, Solo, SoloCall
  <2>2. E = {} \/ E = {calls}
    BY <2>1
  <2>3. Cardinality(E) = 0 \/ Cardinality(E) = 1
    BY <2>2, FS_EmptySet, FS_Singleton
  <2> QED
    BY <2>3
<1> QED
  BY <1>1, Invariance, PTL

(* A capture thread that was superseded or stopped never becomes the runner *)
(* again, and each of its steps brings it nearer to its end, which it       *)
(* reaches after eleven at most, whatever the other threads and the next    *)
(* calls do to the objects they share (LanAudioRecord:111).                 *)
THEOREM SupersededEnds ==
    Spec => [][\A k \in Calls : k <= calls /\ runner # k =>
                  /\ runner' # k
                  /\ StepsLeft(capture[k]) \in 0..11
                  /\ \/ capture'[k] = capture[k]
                     \/ StepsLeft(capture'[k]) < StepsLeft(capture[k])]_vars
<1>1. IInv /\ Started /\ [Next]_vars =>
          [\A k \in Calls : k <= calls /\ runner # k =>
              /\ runner' # k
              /\ StepsLeft(capture[k]) \in 0..11
              /\ \/ capture'[k] = capture[k]
                 \/ StepsLeft(capture'[k]) < StepsLeft(capture[k])]_vars
  <2> SUFFICES ASSUME IInv, Started, [Next]_vars, NEW k \in Calls, k <= calls, runner # k
               PROVE  /\ runner' # k
                      /\ StepsLeft(capture[k]) \in 0..11
                      /\ \/ capture'[k] = capture[k]
                         \/ StepsLeft(capture'[k]) < StepsLeft(capture[k])
    OBVIOUS
  <2>1. runner' # k /\ (capture'[k] = capture[k] \/ CaptureStep(k))
    BY Superseded
  <2>2. CaptureStep(k) => StepsLeft(capture'[k]) < StepsLeft(capture[k])
    BY OwnStep DEF IInv
  <2>3. StepsLeft(capture[k]) \in 0..11
    BY DEF Started, StepsLeft
  <2> QED
    BY <2>1, <2>2, <2>3
<1> QED
  BY <1>1, Invariance, StartedInvariance, PTL DEF Spec

(* A frame put into an Encoder that is not stopped has a worker that serves *)
(* it and is nowhere but on its way to code it, at most four steps away: no *)
(* step of any thread or of the user takes that worker off or turns it back *)
(* before the frame is coded, the Encoder stopped or the process ended      *)
(* (Encoder:80).                                                            *)
THEOREM FrameMannedTillCoded ==
    Spec => [][\A e \in Calls : e \in frame /\ encRunner[e] # 0 =>
                  /\ serves[encRunner[e]] = e
                  /\ WorkLeft(worker[encRunner[e]]) \in 1..4
                  /\ Onward(e)]_vars
<1>1. Init => Manned
  BY DEF Init, Manned
<1>2. IInv /\ Manned /\ [Next]_vars => Manned'
  BY MannedStep
<1>3. IInv /\ Manned /\ [Next]_vars =>
          [\A e \in Calls : e \in frame /\ encRunner[e] # 0 =>
              /\ serves[encRunner[e]] = e
              /\ WorkLeft(worker[encRunner[e]]) \in 1..4
              /\ Onward(e)]_vars
  <2> SUFFICES ASSUME IInv, Manned, Next, NEW e \in Calls, encRunner[e] # 0
               PROVE  /\ serves[encRunner[e]] = e
                      /\ WorkLeft(worker[encRunner[e]]) \in 1..4
                      /\ Onward(e)
    OBVIOUS
  <2>0. ~Crashed /\ encRunner[e] \in Calls
    BY DEF Next, CaptureStep, WorkerStep, IInv, TypeRest, CallOrNull
  <2>1. serves[encRunner[e]] = e /\ worker[encRunner[e]] \in AtWork
    BY <2>0 DEF Manned, Crashed
  <2>2. WorkLeft(worker[encRunner[e]]) \in 1..4
    BY <2>1 DEF AtWork, WorkLeft
  <2> QED
    BY <2>1, <2>2, MannedStep
<1> QED
  BY <1>1, <1>2, <1>3, Invariance, PTL DEF Spec

===============================================================================
