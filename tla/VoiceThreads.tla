----------------------------- MODULE VoiceThreads -----------------------------
(***************************************************************************)
(* The sending threads of a call (jay.media.MediaService, LanAudioRecord,  *)
(* jay.dencode.Encoder).  Every startAudio creates a capture thread, which *)
(* makes an Encoder with a worker of its own.  A stop only clears runner:  *)
(* the old thread notices later, and what it cleans up are the fields of   *)
(* the one LanAudioRecord, which may belong to the next call by then.      *)
(*                                                                         *)
(* Threads, Encoders and workers are numbered by the call whose capture    *)
(* thread made them.  0 is Java's null.                                    *)
(***************************************************************************)
EXTENDS Integers, FiniteSets

CONSTANT MaxCalls   \* how often startAudio is called (a bound)

ASSUME VoiceAssumption == MaxCalls \in Nat

Calls == 1..MaxCalls
CallOrNull == Calls \cup {0}

VARIABLES
    calls,      \* how often startAudio was called
    runner,     \* runner of LanAudioRecord
    capture,    \* where each capture thread is
    recording,  \* m_in_rec records
    encoder,    \* LanAudioRecord.encoder
    encRunner,  \* runner of each Encoder: its worker
    worker,     \* where each worker is
    serves,     \* the Encoder each worker runs
    frame,      \* the Encoders with a frame to code: leftSize # 0
    coded,      \* the size of each m_in_q
    late,       \* history: packets each capture thread sent once superseded
    hasty       \* history: was a call started before the last one had ended?

vars == <<calls, runner, capture, recording, encoder, encRunner, worker, serves,
          frame, coded, late, hasty>>

CapturePlaces == {"none", "run", "launch", "record", "loop", "read",
                  "test", "put", "fetch", "take", "stopRecorder", "stopEncoder",
                  "done", "dead"}
WorkerPlaces  == {"none", "loop", "idle", "work", "encode", "done", "dead"}

TypeOK ==
    /\ calls \in 0..MaxCalls /\ runner \in CallOrNull /\ encoder \in CallOrNull
    /\ capture \in [Calls -> CapturePlaces]
    /\ worker \in [Calls -> WorkerPlaces]
    /\ serves \in [Calls -> CallOrNull] /\ encRunner \in [Calls -> CallOrNull]
    /\ recording \in BOOLEAN /\ hasty \in BOOLEAN
    /\ frame \subseteq Calls
    /\ coded \in [Calls -> Nat] /\ late \in [Calls -> Nat]

Init ==
    /\ calls = 0 /\ runner = 0 /\ encoder = 0
    /\ capture = [k \in Calls |-> "none"]
    /\ worker = [k \in Calls |-> "none"]
    /\ serves = [k \in Calls |-> 0] /\ encRunner = [k \in Calls |-> 0]
    /\ recording = FALSE /\ hasty = FALSE
    /\ frame = {}
    /\ coded = [k \in Calls |-> 0] /\ late = [k \in Calls |-> 0]

(* removeFirst() on an empty list throws out of run() and ends the process. *)
Crashed == \E k \in Calls : capture[k] = "dead" \/ worker[k] = "dead"

-------------------------------------------------------------------------------
(* The buttons: startAudio starts a new capture thread, stopAudio clears    *)
(* runner.                                                                  *)
Quiet(k) ==
    /\ capture[k] \in {"none", "done"}
    /\ worker[k] \in {"none", "done"} \/ (worker[k] = "idle" /\ serves[k] \notin frame)

StartAudio ==
    /\ calls < MaxCalls
    /\ calls' = calls + 1
    /\ runner' = calls + 1
    /\ capture' = [capture EXCEPT ![calls + 1] = "run"]
    /\ hasty' = (hasty \/ \E k \in Calls : ~Quiet(k))
    /\ UNCHANGED <<recording, encoder, encRunner, worker, serves, frame, coded, late>>

StopAudio ==
    /\ runner # 0
    /\ runner' = 0
    /\ UNCHANGED <<calls, capture, recording, encoder, encRunner, worker,
                   serves, frame, coded, late, hasty>>

-------------------------------------------------------------------------------
(* A capture thread.                                                        *)
At(k, here, there) == capture[k] = here /\ capture' = [capture EXCEPT ![k] = there]

(* (Variant used as a mutant: an Encoder is made for the first call only.)  *)
AssignEncoder_Once(k) ==
    /\ At(k, "run", "launch")
    /\ encoder' = IF encoder = 0 THEN k ELSE encoder
    /\ UNCHANGED <<calls, runner, recording, encRunner, worker, serves, frame, coded,
                   late, hasty>>

(* encoder = new Encoder(codectype).                                        *)
AssignEncoder(k) ==
    /\ At(k, "run", "launch")
    /\ encoder' = k
    /\ UNCHANGED <<calls, runner, recording, encRunner, worker, serves, frame, coded,
                   late, hasty>>

(* encoder.startThread(), whichever Encoder the field holds by now.         *)
LaunchEncoder(k) ==
    /\ At(k, "launch", "record")
    /\ IF encRunner[encoder] = 0
       THEN /\ encRunner' = [encRunner EXCEPT ![encoder] = k]
            /\ worker' = [worker EXCEPT ![k] = "loop"]
            /\ serves' = [serves EXCEPT ![k] = encoder]
       ELSE UNCHANGED <<encRunner, worker, serves>>
    /\ UNCHANGED <<calls, runner, recording, encoder, frame, coded, late,
                   hasty>>

StartRecording(k) ==
    /\ At(k, "record", "loop")
    /\ recording' = TRUE
    /\ UNCHANGED <<calls, runner, encoder, encRunner, worker, serves, frame,
                   coded, late, hasty>>

(* (Variant used as a mutant: while (true).)                                *)
CaptureLoop_Forever(k) ==
    /\ At(k, "loop", "read")
    /\ UNCHANGED <<calls, runner, recording, encoder, encRunner, worker,
                   serves, frame, coded, late, hasty>>

CaptureLoop(k) ==
    /\ At(k, "loop", IF runner = k THEN "read" ELSE "stopRecorder")
    /\ UNCHANGED <<calls, runner, recording, encoder, encRunner, worker,
                   serves, frame, coded, late, hasty>>

(* A recorder that was stopped gives no samples, and the loop starts over.  *)
Read(k) ==
    /\ \/ recording /\ At(k, "read", "test")
       \/ At(k, "read", "loop")
    /\ UNCHANGED <<calls, runner, recording, encoder, encRunner, worker,
                   serves, frame, coded, late, hasty>>

TestIdle(k) ==
    /\ At(k, "test", IF encoder \in frame THEN "fetch" ELSE "put")
    /\ UNCHANGED <<calls, runner, recording, encoder, encRunner, worker,
                   serves, frame, coded, late, hasty>>

(* The worker holds the mutex while it encodes.                             *)
Encoding(e) == \E w \in Calls : worker[w] = "encode" /\ serves[w] = e

PutData(k) ==
    /\ At(k, "put", "fetch")
    /\ ~Encoding(encoder)
    /\ frame' = frame \cup {encoder}
    /\ UNCHANGED <<calls, runner, recording, encoder, encRunner, worker,
                   serves, coded, late, hasty>>

IsGetData(k) ==
    /\ At(k, "fetch", IF coded[encoder] > 0 THEN "take" ELSE "loop")
    /\ UNCHANGED <<calls, runner, recording, encoder, encRunner, worker,
                   serves, frame, coded, late, hasty>>

(* (Variant used as a mutant: an empty queue is taken from.)                *)
SendCoded_Unchecked(k) ==
    /\ At(k, "take", "loop")
    /\ coded' = [coded EXCEPT ![encoder] = @ - 1]
    /\ late' = [late EXCEPT ![k] = IF runner = k THEN @ ELSE @ + 1]
    /\ UNCHANGED <<calls, runner, recording, encoder, encRunner, worker,
                   serves, frame, hasty>>

(* getData() and send.                                                      *)
SendCoded(k) ==
    /\ \/ /\ At(k, "take", "loop")
          /\ coded[encoder] > 0
          /\ coded' = [coded EXCEPT ![encoder] = @ - 1]
          /\ late' = [late EXCEPT ![k] = IF runner = k THEN @ ELSE @ + 1]
       \/ /\ At(k, "take", "dead")
          /\ coded[encoder] = 0
          /\ UNCHANGED <<coded, late>>
    /\ UNCHANGED <<calls, runner, recording, encoder, encRunner, worker,
                   serves, frame, hasty>>

(* free(): the shared recorder, then whatever Encoder the field holds.      *)
(* (Variant used as a mutant: free() leaves the recorder on.)               *)
StopRecorder_LeftOn(k) ==
    /\ At(k, "stopRecorder", "stopEncoder")
    /\ UNCHANGED <<calls, runner, recording, encoder, encRunner, worker,
                   serves, frame, coded, late, hasty>>

StopRecorder(k) ==
    /\ At(k, "stopRecorder", "stopEncoder")
    /\ recording' = FALSE
    /\ UNCHANGED <<calls, runner, encoder, encRunner, worker, serves, frame,
                   coded, late, hasty>>

StopEncoder(k) ==
    /\ At(k, "stopEncoder", "done")
    /\ encRunner' = [encRunner EXCEPT ![encoder] = 0]
    /\ UNCHANGED <<calls, runner, recording, encoder, worker, serves, frame,
                   coded, late, hasty>>

-------------------------------------------------------------------------------
(* A worker of an Encoder.                                                  *)
Works(w, here, there) == worker[w] = here /\ worker' = [worker EXCEPT ![w] = there]

WorkerLoop(w) ==
    /\ Works(w, "loop", IF encRunner[serves[w]] = w THEN "idle" ELSE "done")
    /\ UNCHANGED <<calls, runner, capture, recording, encoder, encRunner,
                   serves, frame, coded, late, hasty>>

(* (Variant used as a mutant: if (isIdle()) instead of while.)              *)
Awake_If(w) ==
    /\ Works(w, "idle", "work")
    /\ serves[w] \in frame \/ encRunner[serves[w]] = 0
    /\ UNCHANGED <<calls, runner, capture, recording, encoder, encRunner,
                   serves, frame, coded, late, hasty>>

(* The wait ends with a frame only: the interrupt of stopThread is          *)
(* swallowed inside the inner loop.                                         *)
Awake(w) ==
    /\ Works(w, "idle", "work")
    /\ serves[w] \in frame
    /\ UNCHANGED <<calls, runner, capture, recording, encoder, encRunner,
                   serves, frame, coded, late, hasty>>

BeginEncode(w) ==
    /\ Works(w, "work", "encode")
    /\ ~Encoding(serves[w])
    /\ UNCHANGED <<calls, runner, capture, recording, encoder, encRunner,
                   serves, frame, coded, late, hasty>>

(* (Variant used as a mutant: setIdle is forgotten.)                        *)
EndEncode_Busy(w) ==
    /\ Works(w, "encode", "loop")
    /\ coded' = [coded EXCEPT ![serves[w]] = 1]
    /\ UNCHANGED <<calls, runner, capture, recording, encoder, encRunner,
                   serves, frame, late, hasty>>

(* Two workers that encode at once share one canceller: the one may take    *)
(* the result the other has just been promised, whose removeFirst() throws. *)
EndEncode(w) ==
    /\ \/ /\ Works(w, "encode", "loop")
          /\ coded' = [coded EXCEPT ![serves[w]] = @ + 1]
          /\ frame' = frame \ {serves[w]}
       \/ /\ Works(w, "encode", "dead")
          /\ \E v \in Calls \ {w} : worker[v] = "encode"
          /\ UNCHANGED <<coded, frame>>
    /\ UNCHANGED <<calls, runner, capture, recording, encoder, encRunner,
                   serves, late, hasty>>

-------------------------------------------------------------------------------
CaptureStep(k) ==
    /\ ~Crashed
    /\ \/ AssignEncoder(k) \/ LaunchEncoder(k) \/ StartRecording(k)
       \/ CaptureLoop(k) \/ Read(k) \/ TestIdle(k) \/ PutData(k) \/ IsGetData(k)
       \/ SendCoded(k) \/ StopRecorder(k) \/ StopEncoder(k)

WorkerStep(w) ==
    /\ ~Crashed
    /\ \/ WorkerLoop(w) \/ Awake(w) \/ BeginEncode(w) \/ EndEncode(w)

Next ==
    \/ ~Crashed /\ (StartAudio \/ StopAudio)
    \/ \E k \in Calls : CaptureStep(k) \/ WorkerStep(k)

Spec == Init /\ [][Next]_vars

(* The scheduler runs every thread that can run.                            *)
FairSpec ==
    Spec /\ \A k \in Calls : WF_vars(CaptureStep(k)) /\ WF_vars(WorkerStep(k))

-------------------------------------------------------------------------------
(* The microphone is off once no capture thread is left, however the calls  *)
(* overlapped: every thread that turned it on turns it off after.           *)
MicOff ==
    recording => \E k \in Calls : capture[k] \notin {"none", "done"}

(* A superseded capture thread sends at most one more packet, although it   *)
(* may be taking it from the next call's Encoder.                           *)
LateSend == \A k \in Calls : late[k] <= 1

(* Unless a call started over an unfinished one, the running capture thread *)
(* has its own Encoder with a worker, a recorder that records, and the only *)
(* hand on its queue.                                                       *)
OwnObjects ==
    ~hasty =>
        /\ ~Crashed
        /\ \A k \in Calls :
              capture[k] \in {"loop", "read", "test", "put", "fetch", "take"} =>
                  recording /\ encoder = k /\ encRunner[k] = k

(* The shared encoder state is used by one worker at a time, again unless a *)
(* call started over an unfinished one.                                     *)
EncodeExclusive ==
    ~hasty => Cardinality({w \in Calls : worker[w] = "encode"}) <= 1

(* Once the user has stopped the audio for good the microphone goes off.    *)
MicReleased == <>[](runner = 0) => <>(Crashed \/ []~recording)

(* A frame put into an Encoder that is not stopped gets coded, unless the   *)
(* process ends.                                                            *)
FrameCoded ==
    \A e \in Calls : (e \in frame /\ encRunner[e] # 0) ~>
                         (e \notin frame \/ encRunner[e] = 0 \/ Crashed)

===============================================================================
