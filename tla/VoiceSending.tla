----------------------------- MODULE VoiceSending -----------------------------
(***************************************************************************)
(* The sending half of a call: the capture thread with its ring of frames  *)
(* (jay.media.LanAudioRecord), the worker of its Encoder                   *)
(* (jay.dencode.Encoder) and the echo canceller the worker passes frames   *)
(* through (jay.codec.EchoCancellation).                                   *)
(*                                                                         *)
(* Frames are numbered 1, 2, ... in the order the microphone gave them; 0  *)
(* is no frame.  Positions in the ring count frames instead of samples.    *)
(***************************************************************************)
EXTENDS Integers, Sequences

CONSTANTS
    RingFrames, \* mFrameRate + 1
    Warmup,     \* frames that bypass the canceller once a voice was heard
    MaxFrames   \* how many frames the microphone gives (a bound)

ASSUME SendingAssumption ==
    RingFrames \in Nat \ {0} /\ Warmup \in Nat /\ MaxFrames \in Nat

VARIABLES
    captured,   \* how many frames were read
    ring, writepos, readpos,    \* Audio_in
    phase,      \* where the capture thread is
    slot,       \* the Encoder's rawdata: a frame, or 0 when idle
    work,       \* where the Encoder's worker is
    output,     \* the frame the worker is to code
    queue,      \* m_in_q
    hearing,    \* Decoder.num_recv > 0
    num_send,   \* Encoder.num_send
    ec_in, ec_out,  \* the canceller's m_cap_q and m_out_q
    ec_size,    \* CaptureSize # 0
    put, puts,  \* history: the frame put last and how many were put
    misses,     \* history: how often the Encoder was busy
    sent,       \* history: the frame sent last
    behind,     \* history: did a frame ever find another one in m_cap_q?
    coded       \* history: how often each frame was coded

capturing == <<captured, ring, writepos, readpos, phase, put, puts, misses, sent>>
cancelling == <<hearing, num_send, ec_in, ec_out, ec_size, behind>>
vars == <<captured, ring, writepos, readpos, phase, slot, work, output, queue, hearing,
          num_send, ec_in, ec_out, ec_size, put, puts, misses, sent, behind, coded>>

Frames == 1..MaxFrames
Slots  == 0..(RingFrames - 1)

TypeOK ==
    /\ captured \in 0..MaxFrames
    /\ ring \in [Slots -> Frames \cup {0}]
    /\ writepos \in Slots /\ readpos \in Slots
    /\ phase \in {"read", "put", "send"}
    /\ slot \in Frames \cup {0} /\ output \in Frames \cup {0}
    /\ work \in {"wait", "echo", "collect", "encode", "idle"}
    /\ queue \in Seq(Frames) /\ ec_in \in Seq(Frames) /\ ec_out \in Seq(Frames)
    /\ hearing \in BOOLEAN /\ num_send \in 0..Warmup /\ ec_size \in BOOLEAN
    /\ put \in Frames \cup {0} /\ puts \in Nat /\ misses \in Nat
    /\ sent \in Frames \cup {0} /\ behind \in BOOLEAN
    /\ coded \in [Frames -> Nat]

Init ==
    /\ captured = 0
    /\ ring = [s \in Slots |-> 0] /\ writepos = 0 /\ readpos = 0
    /\ phase = "read"
    /\ slot = 0 /\ work = "wait" /\ output = 0 /\ queue = <<>>
    /\ hearing = FALSE /\ num_send = 0
    /\ ec_in = <<>> /\ ec_out = <<>> /\ ec_size = FALSE
    /\ put = 0 /\ puts = 0 /\ misses = 0 /\ sent = 0
    /\ behind = FALSE
    /\ coded = [f \in Frames |-> 0]

-------------------------------------------------------------------------------
(* The capture thread.                                                      *)
(* (Variant used as a mutant: the position is not wrapped.)                 *)
Step_NoWrap(pos) == pos + 1

Step(pos) == (pos + 1) % RingFrames

(* (Variant used as a mutant: the writer wraps one frame early.)            *)
Read_Short ==
    /\ phase = "read" /\ captured < MaxFrames
    /\ captured' = captured + 1
    /\ ring' = [ring EXCEPT ![writepos] = captured + 1]
    /\ writepos' = IF writepos + 2 >= RingFrames THEN 0 ELSE writepos + 1
    /\ phase' = "put"
    /\ UNCHANGED <<readpos, slot, work, output, queue, put, puts, misses, sent, coded,
                   cancelling>>

Read ==
    /\ phase = "read" /\ captured < MaxFrames
    /\ captured' = captured + 1
    /\ ring' = [ring EXCEPT ![writepos] = captured + 1]
    /\ writepos' = Step(writepos)
    /\ phase' = "put"
    /\ UNCHANGED <<readpos, slot, work, output, queue, put, puts, misses, sent, coded,
                   cancelling>>

(* (Variant used as a mutant: the reader moves on although nothing was put.)*)
PutData_Skip ==
    /\ phase = "put"
    /\ IF slot = 0
       THEN slot' = ring[readpos] /\ put' = ring[readpos] /\ puts' = puts + 1
                                  /\ UNCHANGED misses
       ELSE misses' = misses + 1 /\ UNCHANGED <<slot, put, puts>>
    /\ readpos' = Step(readpos)
    /\ phase' = "send"
    /\ UNCHANGED <<captured, ring, writepos, work, output, queue, sent, coded, cancelling>>

(* if (encoder.isIdle()) putData: a busy Encoder leaves the reader behind   *)
(* for good, as the writer moves on every time.                             *)
PutData ==
    /\ phase = "put"
    /\ IF slot = 0
       THEN /\ slot' = ring[readpos]
            /\ readpos' = Step(readpos)
            /\ put' = ring[readpos] /\ puts' = puts + 1
            /\ UNCHANGED misses
       ELSE /\ misses' = misses + 1
            /\ UNCHANGED <<slot, readpos, put, puts>>
    /\ phase' = "send"
    /\ UNCHANGED <<captured, ring, writepos, work, output, queue, sent, coded, cancelling>>

(* (Variant used as a mutant: getFirst() instead of removeFirst().)         *)
Send_Kept ==
    /\ phase = "send"
    /\ sent' = IF queue # <<>> THEN Head(queue) ELSE sent
    /\ phase' = "read"
    /\ UNCHANGED <<captured, ring, writepos, readpos, slot, work, output, queue, put,
                   puts, misses, coded, cancelling>>

(* (Variant used as a mutant: the queue is emptied from the wrong end.)     *)
Send_Last ==
    /\ phase = "send"
    /\ IF queue # <<>>
       THEN queue' = SubSeq(queue, 1, Len(queue) - 1) /\ sent' = queue[Len(queue)]
       ELSE UNCHANGED <<queue, sent>>
    /\ phase' = "read"
    /\ UNCHANGED <<captured, ring, writepos, readpos, slot, work, output, put, puts,
                   misses, coded, cancelling>>

(* if (encoder.isGetData()) getData and send.                               *)
Send ==
    /\ phase = "send"
    /\ IF queue # <<>>
       THEN queue' = Tail(queue) /\ sent' = Head(queue)
       ELSE UNCHANGED <<queue, sent>>
    /\ phase' = "read"
    /\ UNCHANGED <<captured, ring, writepos, readpos, slot, work, output, put, puts,
                   misses, coded, cancelling>>

-------------------------------------------------------------------------------
(* The worker of the Encoder, once it was notified.                         *)
Works(here, there) == work = here /\ work' = there

Awake ==
    /\ Works("wait", "echo")
    /\ slot # 0
    /\ UNCHANGED <<slot, output, queue, coded, capturing, cancelling>>

(* Frames bypass the canceller until a voice was heard, and Warmup more.    *)
Bypass ==
    /\ Works("echo", "encode")
    /\ ~hearing \/ num_send < Warmup
    /\ num_send' = IF hearing THEN num_send + 1 ELSE num_send
    /\ output' = slot
    /\ UNCHANGED <<slot, queue, coded, hearing, ec_in, ec_out, ec_size, behind, capturing>>

(* m_ec.putData(true, output).                                              *)
Cancel ==
    /\ Works("echo", "collect")
    /\ hearing /\ num_send = Warmup
    /\ ec_in' = Append(ec_in, slot) /\ ec_size' = TRUE
    /\ behind' = (behind \/ ec_in # <<>>)
    /\ UNCHANGED <<slot, output, queue, coded, hearing, num_send, ec_out, capturing>>

(* if (m_ec.isGetData()) output = m_ec.getshortData(): what the canceller   *)
(* gave last, or the frame as it is.                                        *)
Collect ==
    /\ Works("collect", "encode")
    /\ IF ec_out # <<>>
       THEN output' = Head(ec_out) /\ ec_out' = Tail(ec_out)
       ELSE output' = slot /\ UNCHANGED ec_out
    /\ UNCHANGED <<slot, queue, coded, hearing, num_send, ec_in, ec_size, behind, capturing>>

(* codec.encode and m_in_q.add.                                             *)
Encode ==
    /\ Works("encode", "idle")
    /\ queue' = Append(queue, output)
    /\ coded' = [coded EXCEPT ![output] = @ + 1]
    /\ UNCHANGED <<slot, output, capturing, cancelling>>

SetIdle ==
    /\ Works("idle", "wait")
    /\ slot' = 0
    /\ UNCHANGED <<output, queue, coded, capturing, cancelling>>

-------------------------------------------------------------------------------
(* The Decoder decodes the first frame of the peer.                         *)
Hear ==
    /\ hearing' = TRUE
    /\ UNCHANGED <<slot, work, output, queue, coded, num_send, ec_in, ec_out, ec_size,
                   behind, capturing>>

(* (Variant used as a mutant: the frame stays in m_cap_q.)                  *)
Pass_Kept ==
    /\ ec_size
    /\ ec_size' = FALSE
    /\ ec_out' = Append(ec_out, Head(ec_in))
    /\ UNCHANGED <<slot, work, output, queue, coded, hearing, num_send, ec_in, behind,
                   capturing>>

(* A pass of the canceller's thread takes one frame, however many wait.     *)
Pass ==
    /\ ec_size
    /\ ec_size' = FALSE
    /\ ec_out' = Append(ec_out, Head(ec_in)) /\ ec_in' = Tail(ec_in)
    /\ UNCHANGED <<slot, work, output, queue, coded, hearing, num_send, behind, capturing>>

Next ==
    \/ Read \/ PutData \/ Send
    \/ Awake \/ Bypass \/ Cancel \/ Collect \/ Encode \/ SetIdle
    \/ Hear \/ Pass

Spec == Init /\ [][Next]_vars

-------------------------------------------------------------------------------
(* The Encoder gets every frame at most once, in the order of the           *)
(* microphone, and none that the ring has given up.                         *)
PutForward ==
    [][puts' # puts => put' > put /\ put' > captured - RingFrames]_vars

(* Until the Encoder was busy as often as the ring has places, no frame is  *)
(* left out.                                                                *)
Unbroken == misses < RingFrames => put = puts

(* When the capture thread waits for the microphone, at most one coded      *)
(* frame is queued or in work.                                              *)
Pending == Len(queue) + (IF slot # 0 /\ work # "idle" THEN 1 ELSE 0)
QueueBound == Pending <= 2 /\ (phase # "send" => Pending <= 1)

(* What is sent came from the microphone, and as long as the canceller had  *)
(* always taken the last frame before the next one came it is never older   *)
(* than what was sent before.                                               *)
Channel == INSTANCE VoiceChannel WITH said <- captured, heard <- sent, disordered <- behind
SentForward == Channel!Spec

(* A frame is coded at most twice: as it is, when the canceller was too     *)
(* slow for it, and again when the canceller was done.                      *)
CodedTwice == \A f \in Frames : coded[f] <= 2

===============================================================================
