-------------------------- MODULE VoiceSendingProofs --------------------------
(***************************************************************************)
(* The ring and the queue of VoiceSending, for any ring, any warm-up and   *)
(* any number of frames.                                                   *)
(*                                                                         *)
(* Ring says which frame is at which place, counted from the writer.  The  *)
(* frame put last is then the one before the reader, or one or more whole  *)
(* rounds older (Round), and the next one is newer in both cases.          *)
(***************************************************************************)
EXTENDS VoiceSending, SequenceTheorems, TLAPS

Types ==
    /\ captured \in Nat /\ put \in Nat /\ puts \in Nat /\ misses \in Nat
    /\ ring \in [Slots -> Nat]
    /\ writepos \in Slots /\ readpos \in Slots
    /\ phase \in {"read", "put", "send"}
    /\ work \in {"wait", "echo", "collect", "encode", "idle"}
    /\ slot \in Nat /\ output \in Nat
    /\ queue \in Seq(Nat) /\ ec_in \in Seq(Nat) /\ ec_out \in Seq(Nat)
    /\ ec_size => ec_in # <<>>

Bounded ==
    /\ work \in {"echo", "collect", "encode", "idle"} => slot # 0
    /\ IF phase = "send" THEN Pending <= 2 ELSE Pending <= 1

Distance(s) == IF s >= writepos THEN s - writepos ELSE s - writepos + RingFrames
Value(s) == captured - RingFrames + 1 + Distance(s)
Prev(s) == IF s = 0 THEN RingFrames - 1 ELSE s - 1

Ring == \A s \in Slots : ring[s] = IF Value(s) > 0 THEN Value(s) ELSE 0

Round ==
    /\ put = Value(Prev(readpos)) \/ put <= Value(Prev(readpos)) - RingFrames
    /\ put <= captured /\ (phase = "put" => put < captured)

Counts ==
    /\ captured = puts + misses + (IF phase = "put" THEN 1 ELSE 0)
    /\ Unbroken

IInv == Types /\ Bounded /\ Ring /\ Round /\ Counts

-------------------------------------------------------------------------------
LEMMA StepIs ==
  ASSUME NEW s \in Slots
  PROVE  Step(s) = IF s + 1 = RingFrames THEN 0 ELSE s + 1
BY SendingAssumption DEF Step, Slots

LEMMA StepType == ASSUME NEW s \in Slots PROVE Step(s) \in Slots /\ Prev(Step(s)) = s
BY StepIs, SendingAssumption DEF Slots, Prev

LEMMA PrevType == ASSUME NEW s \in Slots PROVE Prev(s) \in Slots
BY SendingAssumption DEF Slots, Prev

(* From one place to the next the value grows by one, except from the       *)
(* newest frame to the oldest.                                              *)
LEMMA ValueOrder ==
  ASSUME captured \in Nat, writepos \in Slots, NEW s \in Slots
  PROVE  /\ Value(s) \in Int /\ Value(s) <= captured
         /\ Value(s) > captured - RingFrames
         /\ s = writepos => /\ Value(s) = captured - RingFrames + 1
                            /\ Value(Prev(s)) = captured
         /\ s # writepos => Value(s) = Value(Prev(s)) + 1
BY SendingAssumption DEF Value, Distance, Prev, Slots

LEMMA ReadValue ==
  ASSUME captured \in Nat, writepos \in Slots, NEW s \in Slots,
         captured' = captured + 1, writepos' = Step(writepos)
  PROVE  Value(s)' = IF s = writepos THEN captured + 1 ELSE Value(s)
BY StepIs, SendingAssumption DEF Value, Distance, Slots

LEMMA SameValue ==
  ASSUME UNCHANGED <<captured, writepos>>
  PROVE  \A s : Value(s)' = Value(s)
BY DEF Value, Distance

(* What the next frame is when it is put.                                   *)
LEMMA NextValue ==
  ASSUME IInv, phase = "put"
  PROVE  /\ ring[readpos] = Value(readpos)
         /\ Value(readpos) \in Nat \ {0}
         /\ Value(readpos) > put /\ Value(readpos) <= captured
         /\ Value(readpos) > captured - RingFrames
         /\ misses < RingFrames => Value(readpos) = puts + 1
<1> USE DEF IInv, Types
<1>1. put < captured /\ put \in Nat
  BY DEF Round
<1>2. put = Value(Prev(readpos)) \/ put <= Value(Prev(readpos)) - RingFrames
  BY DEF Round
<1>3. /\ Value(Prev(readpos)) \in Int /\ Value(Prev(readpos)) <= captured
      /\ Value(readpos) \in Int /\ Value(readpos) <= captured
      /\ Value(readpos) > captured - RingFrames
      /\ readpos = writepos => /\ Value(readpos) = captured - RingFrames + 1
                               /\ Value(Prev(readpos)) = captured
      /\ readpos # writepos => Value(readpos) = Value(Prev(readpos)) + 1
  BY ValueOrder, PrevType
<1>4. Value(readpos) > put
  <2>1. CASE put = Value(Prev(readpos))
    BY ONLY <1>1, <1>3, <2>1
  <2>2. CASE put <= Value(Prev(readpos)) - RingFrames
    BY ONLY <1>1, <1>3, <2>2, SendingAssumption
  <2> QED
    BY <1>2, <2>1, <2>2
<1>5. ring[readpos] = Value(readpos)
  BY <1>1, <1>3, <1>4 DEF Ring
<1>6. misses < RingFrames => Value(readpos) = puts + 1
  <2>1. misses \in Nat /\ puts \in Nat /\ captured \in Nat /\ captured = puts + misses + 1
    BY DEF Counts
  <2>2. SUFFICES ASSUME misses < RingFrames, put = puts PROVE Value(readpos) = put + 1
    BY DEF Counts, Unbroken
  <2>3. put >= captured - RingFrames
    BY ONLY <2>1, <2>2, SendingAssumption
  <2>4. CASE put = Value(Prev(readpos))
    BY ONLY <1>1, <1>3, <2>4
  <2>5. CASE put <= Value(Prev(readpos)) - RingFrames
    <3>1. Value(Prev(readpos)) = captured /\ put = captured - RingFrames
      BY ONLY <1>1, <1>3, <2>1, <2>3, <2>5, SendingAssumption
    <3> QED
      BY ONLY <1>3, <2>1, <3>1, SendingAssumption
  <2> QED
    BY <1>2, <2>4, <2>5
<1> QED
  BY <1>1, <1>3, <1>4, <1>5, <1>6

-------------------------------------------------------------------------------
LEMMA InitIInv == Init => IInv
<1> SUFFICES ASSUME Init PROVE IInv
  OBVIOUS
<1>1. Types
  BY SendingAssumption, EmptySeq DEF Init, Types, Slots
<1>2. Ring /\ Round
  BY SendingAssumption DEF Init, Ring, Round, Value, Distance, Prev, Slots
<1>3. Bounded /\ Counts
  BY EmptySeq DEF Init, Bounded, Pending, Counts, Unbroken
<1> QED
  BY <1>1, <1>2, <1>3 DEF IInv

(* The steps of the Encoder's worker and the canceller leave the ring alone.*)
LEMMA RingFrame ==
  ASSUME IInv, UNCHANGED <<captured, ring, writepos, readpos, phase, put, puts, misses>>
  PROVE  (Ring /\ Round /\ Counts)'
<1>1. \A s : Value(s)' = Value(s)
  BY SameValue
<1> QED
  BY <1>1 DEF IInv, Ring, Round, Counts, Unbroken, Prev

LEMMA ReadStep == IInv /\ Read => IInv'
<1> SUFFICES ASSUME IInv, Read PROVE IInv'
  OBVIOUS
<1> USE DEF IInv, Types
<1>1. /\ phase = "read" /\ phase' = "put" /\ captured' = captured + 1
      /\ ring' = [ring EXCEPT ![writepos] = captured + 1] /\ writepos' = Step(writepos)
      /\ UNCHANGED <<readpos, slot, work, output, queue, put, puts, misses>>
      /\ UNCHANGED <<ec_in, ec_out, ec_size>>
  BY DEF Read, cancelling
<1>2. Types'
  BY <1>1, StepType
<1>3. \A s \in Slots : Value(s)' = IF s = writepos THEN captured + 1 ELSE Value(s)
  BY <1>1, ReadValue
<1>4. Ring'
  BY <1>1, <1>3 DEF Ring
<1>5. Round'
  <2> DEFINE older == Prev(readpos)
  <2>1. older \in Slots /\ older' = older
    BY <1>1, PrevType DEF Prev
  <2>2. Value(older)' = IF older = writepos THEN captured + 1 ELSE Value(older)
    BY <1>3, <2>1
  <2>3. older = writepos => Value(older) = captured - RingFrames + 1
    BY <2>1, ValueOrder
  <2>4. put' = put /\ put <= captured /\ (put = Value(older) \/ put <= Value(older) - RingFrames)
    BY <1>1 DEF Round
  <2>5. put' = Value(older)' \/ put' <= Value(older)' - RingFrames
    <3> HIDE DEF older
    <3>1. CASE older = writepos
      <4>1. put <= captured - RingFrames + 1
        BY <2>3, <2>4, <3>1, SendingAssumption
      <4> QED
        BY <2>2, <2>4, <3>1, <4>1, SendingAssumption
    <3>2. CASE older # writepos
      BY <2>2, <2>4, <3>2
    <3> QED
      BY <3>1, <3>2
  <2> QED
    BY <1>1, <2>4, <2>5 DEF Round
<1>6. Bounded' /\ Counts'
  BY <1>1 DEF Bounded, Pending, Counts, Unbroken
<1> QED
  BY <1>2, <1>4, <1>5, <1>6

LEMMA PutStep == IInv /\ PutData => IInv'
<1> SUFFICES ASSUME IInv, PutData PROVE IInv'
  OBVIOUS
<1> USE DEF IInv, Types
<1>1. /\ phase = "put" /\ phase' = "send"
      /\ UNCHANGED <<captured, ring, writepos, work, output, queue>>
      /\ UNCHANGED <<ec_in, ec_out, ec_size>>
  BY DEF PutData, cancelling
<1>2. \A s : Value(s)' = Value(s)
  BY <1>1, SameValue
<1>3. Len(queue) \in Nat
  BY LenProperties
<1>4. CASE slot = 0
  <2>1. /\ slot' = ring[readpos] /\ readpos' = Step(readpos)
        /\ put' = ring[readpos] /\ puts' = puts + 1 /\ misses' = misses
    BY <1>4 DEF PutData
  <2>2. /\ ring[readpos] = Value(readpos)
        /\ Value(readpos) \in Nat \ {0}
        /\ Value(readpos) > put /\ Value(readpos) <= captured
        /\ misses < RingFrames => Value(readpos) = puts + 1
    BY <1>1, NextValue
  <2>3. Types'
    BY <1>1, <2>1, <2>2, StepType
  <2>4. Ring' /\ Bounded' /\ Counts'
    BY <1>1, <1>2, <1>3, <1>4, <2>1, <2>2 DEF Ring, Bounded, Pending, Counts, Unbroken
  <2>5. Prev(readpos') = readpos
    BY <2>1, StepType
  <2>6. Round'
    BY <1>1, <1>2, <2>1, <2>2, <2>5 DEF Round, Prev
  <2> QED
    BY <2>3, <2>4, <2>6
<1>5. CASE slot # 0
  <2>1. misses' = misses + 1 /\ UNCHANGED <<slot, readpos, put, puts>>
    BY <1>5 DEF PutData
  <2>2. Types'
    BY <1>1, <2>1
  <2>3. Ring' /\ Bounded'
    BY <1>1, <1>2, <1>3, <1>5, <2>1 DEF Ring, Bounded, Pending
  <2>5. Counts'
    BY <1>1, <2>1, SendingAssumption DEF Counts, Unbroken
  <2>4. Round'
    BY <1>1, <1>2, <2>1 DEF Round, Prev
  <2> QED
    BY <2>2, <2>3, <2>5, <2>4
<1> QED
  BY <1>4, <1>5

LEMMA SendStep == IInv /\ Send => IInv'
<1> SUFFICES ASSUME IInv, Send PROVE IInv'
  OBVIOUS
<1> USE DEF IInv, Types
<1>1. /\ phase = "send" /\ phase' = "read"
      /\ UNCHANGED <<captured, ring, writepos, readpos, slot, work, output, put, puts, misses>>
      /\ UNCHANGED <<ec_in, ec_out, ec_size>>
  BY DEF Send, cancelling
<1>2. \A s : Value(s)' = Value(s)
  BY <1>1, SameValue
<1>3. CASE queue # <<>>
  <2>1. queue' = Tail(queue)
    BY <1>3 DEF Send
  <2>2. queue' \in Seq(Nat) /\ Len(queue') = Len(queue) - 1 /\ Len(queue) \in Nat
    BY <1>3, <2>1, HeadTailProperties, LenProperties
  <2>3. Bounded'
    BY <1>1, <2>2 DEF Bounded, Pending
  <2>4. Ring' /\ Round' /\ Counts'
    BY <1>1, <1>2 DEF Ring, Round, Counts, Unbroken, Prev
  <2> QED
    BY <1>1, <2>2, <2>3, <2>4
<1>4. CASE queue = <<>>
  <2>1. queue' = queue /\ Len(queue) = 0
    BY <1>4, EmptySeq DEF Send
  <2> QED
    BY <1>1, <1>2, <2>1 DEF Bounded, Pending, Ring, Round, Counts, Unbroken, Prev
<1> QED
  BY <1>3, <1>4

LEMMA WorkStep ==
  IInv /\ (Awake \/ Bypass \/ Cancel \/ Collect \/ Encode \/ SetIdle \/ Hear \/ Pass) => IInv'
<1> SUFFICES ASSUME IInv,
                    Awake \/ Bypass \/ Cancel \/ Collect \/ Encode \/ SetIdle \/ Hear \/ Pass
             PROVE  IInv'
  OBVIOUS
<1> USE DEF IInv, Types
<1>1. UNCHANGED <<captured, ring, writepos, readpos, phase, put, puts, misses>>
  BY DEF Awake, Bypass, Cancel, Collect, Encode, SetIdle, Hear, Pass, capturing
<1>2. (Ring /\ Round /\ Counts)'
  BY <1>1, RingFrame
<1>3. Len(queue) \in Nat
  BY LenProperties
<1>4. CASE Awake \/ Bypass \/ SetIdle \/ Hear
  <2>1. ec_in' = ec_in /\ ec_out' = ec_out /\ queue' = queue /\ (ec_size' <=> ec_size)
    BY <1>4 DEF Awake, Bypass, SetIdle, Hear, cancelling
  <2>2. Types'
    <3>1. CASE Awake
      BY <1>1, <2>1, <3>1 DEF Awake, Works
    <3>2. CASE Bypass
      BY <1>1, <2>1, <3>2 DEF Bypass, Works
    <3>3. CASE SetIdle
      BY <1>1, <2>1, <3>3 DEF SetIdle, Works
    <3>4. CASE Hear
      BY <1>1, <2>1, <3>4 DEF Hear, Works
    <3> QED
      BY <1>4, <3>1, <3>2, <3>3, <3>4
  <2>3. Bounded'
    BY <1>1, <1>4, <2>1, <1>3 DEF Awake, Bypass, SetIdle, Hear, Works, Bounded, Pending
  <2> QED
    BY <1>2, <2>2, <2>3
<1>5. CASE Cancel
  <2>1. ec_in' = Append(ec_in, slot) /\ UNCHANGED <<slot, output, queue, ec_out>>
    BY <1>5 DEF Cancel
  <2>2. ec_in' \in Seq(Nat) /\ ec_in' # <<>>
    <3>1. Len(ec_in') = Len(ec_in) + 1 /\ ec_in' \in Seq(Nat) /\ Len(ec_in) \in Nat
      BY <2>1, AppendProperties, LenProperties
    <3> QED
      BY <3>1, EmptySeq
  <2> QED
    BY <1>1, <1>2, <1>5, <2>1, <2>2 DEF Cancel, Works, Bounded, Pending
<1>6. CASE Collect
  <2>1. UNCHANGED <<slot, queue, ec_in>> /\ (ec_size' <=> ec_size)
    BY <1>6 DEF Collect
  <2>2. ec_out' \in Seq(Nat) /\ output' \in Nat
    BY <1>6, HeadTailProperties DEF Collect
  <2> QED
    BY <1>1, <1>2, <1>6, <2>1, <2>2 DEF Collect, Works, Bounded, Pending
<1>7. CASE Encode
  <2>1. /\ queue' = Append(queue, output) /\ UNCHANGED <<slot, output, ec_in, ec_out>>
        /\ (ec_size' <=> ec_size)
    BY <1>7 DEF Encode, cancelling
  <2>2. queue' \in Seq(Nat) /\ Len(queue') = Len(queue) + 1
    BY <2>1, AppendProperties
  <2> QED
    BY <1>1, <1>2, <1>3, <1>7, <2>1, <2>2 DEF Encode, Works, Bounded, Pending
<1>8. CASE Pass
  <2>1. /\ ec_in # <<>> /\ ec_out' = Append(ec_out, Head(ec_in)) /\ ec_in' = Tail(ec_in)
        /\ ~ec_size' /\ UNCHANGED <<slot, work, output, queue>>
    BY <1>8 DEF Pass
  <2>2. ec_out' \in Seq(Nat) /\ ec_in' \in Seq(Nat)
    BY <2>1, HeadTailProperties, AppendProperties
  <2> QED
    BY <1>1, <1>2, <2>1, <2>2 DEF Bounded, Pending
<1> QED
  BY <1>4, <1>5, <1>6, <1>7, <1>8

LEMMA Inductive == IInv /\ [Next]_vars => IInv'
<1>1. ASSUME IInv, UNCHANGED vars PROVE IInv'
  <2>1. (Ring /\ Round /\ Counts)'
    BY <1>1, RingFrame DEF vars
  <2> QED
    BY <1>1, <2>1 DEF vars, IInv, Types, Bounded, Pending
<1> QED
  BY <1>1, ReadStep, PutStep, SendStep, WorkStep DEF Next

LEMMA Invariance == Spec => []IInv
BY InitIInv, Inductive, PTL DEF Spec

(* The types of the whole state; the worker codes no frame 0.               *)
Typed == TypeOK /\ (work = "encode" => output # 0)

LEMMA TypedInit == Init => Typed
<1> SUFFICES ASSUME Init PROVE Typed
  OBVIOUS
<1>1. captured \in 0..MaxFrames /\ 0 \in Slots /\ num_send \in 0..Warmup
  BY SendingAssumption DEF Init, Slots
<1>2. queue \in Seq(Frames) /\ ec_in \in Seq(Frames) /\ ec_out \in Seq(Frames)
  BY EmptySeq DEF Init
<1>3. coded \in [Frames -> Nat] /\ ring \in [Slots -> Frames \cup {0}]
  BY DEF Init
<1> QED
  BY <1>1, <1>2, <1>3 DEF Init, Typed, TypeOK

LEMMA TypedStep == Typed /\ IInv /\ [Next]_vars => Typed'
<1> SUFFICES ASSUME Typed, IInv, [Next]_vars PROVE Typed'
  OBVIOUS
<1> USE DEF Typed, TypeOK
<1>1. CASE Read
  <2>1. captured + 1 \in Frames /\ Step(writepos) \in Slots
    BY <1>1, StepType, SendingAssumption DEF Read, Frames
  <2> QED
    BY <1>1, <2>1, SendingAssumption DEF Read, cancelling
<1>2. CASE PutData
  <2>1. UNCHANGED <<captured, ring, writepos, work, output, queue, sent, coded>>
        /\ UNCHANGED cancelling /\ phase' = "send"
    BY <1>2 DEF PutData
  <2>2. CASE slot = 0
    <3>1. ring[readpos] \in Frames
      BY <1>2, NextValue DEF PutData
    <3> QED
      BY <1>2, <2>1, <2>2, <3>1, StepType DEF PutData, cancelling
  <2>3. CASE slot # 0
    BY <1>2, <2>1, <2>3 DEF PutData, cancelling
  <2> QED
    BY <2>2, <2>3
<1>3. CASE Send
  <2>1. CASE queue # <<>>
    <3>1. Head(queue) \in Frames /\ Tail(queue) \in Seq(Frames)
      BY <2>1, HeadTailProperties
    <3>2. /\ queue' = Tail(queue) /\ sent' = Head(queue) /\ phase' = "read"
          /\ UNCHANGED <<captured, ring, writepos, readpos, slot, work, output, put,
                         puts, misses, coded, cancelling>>
      BY <1>3, <2>1 DEF Send
    <3>3. UNCHANGED cancelling /\ UNCHANGED <<captured, ring, writepos, readpos, slot, work,
                                              output, put, puts, misses, coded>>
      BY <3>2
    <3>4. queue' \in Seq(Frames) /\ sent' \in Frames /\ phase' = "read"
      BY <3>1, <3>2
    <3> QED
      BY <3>3, <3>4 DEF cancelling
  <2>2. CASE queue = <<>>
    BY <1>3, <2>2 DEF Send, cancelling
  <2> QED
    BY <2>1, <2>2
<1>4. CASE Awake \/ SetIdle
  BY <1>4 DEF Awake, SetIdle, Works, capturing, cancelling
<1>5. CASE Bypass
  <2>1. slot \in Frames
    BY <1>5 DEF Bypass, Works, IInv, Bounded
  <2>2. num_send' \in 0..Warmup
    BY <1>5, SendingAssumption DEF Bypass
  <2>3. 0 \notin Frames
    BY DEF Frames
  <2> QED
    BY <1>5, <2>1, <2>2, <2>3 DEF Bypass, Works, capturing
<1>6. CASE Cancel
  <2>1. slot \in Frames
    BY <1>6 DEF Cancel, Works, IInv, Bounded
  <2>2. ec_in' \in Seq(Frames)
    BY <1>6, <2>1, AppendProperties DEF Cancel
  <2>3. behind' \in BOOLEAN /\ ec_size' \in BOOLEAN
    BY <1>6 DEF Cancel
  <2> QED
    BY <1>6, <2>2, <2>3 DEF Cancel, Works, capturing
<1>7. CASE Collect
  <2>1. slot \in Frames
    BY <1>7 DEF Collect, Works, IInv, Bounded
  <2>2. output' \in Frames /\ ec_out' \in Seq(Frames)
    <3>1. CASE ec_out # <<>>
      <4>1. ec_out \in Seq(Frames)
        OBVIOUS
      <4>2. Head(ec_out) \in Frames /\ Tail(ec_out) \in Seq(Frames)
        BY ONLY <3>1, <4>1, HeadTailProperties
      <4>3. output' = Head(ec_out) /\ ec_out' = Tail(ec_out)
        BY <1>7, <3>1 DEF Collect
      <4> QED
        BY <4>2, <4>3
    <3>2. CASE ec_out = <<>>
      BY <1>7, <2>1, <3>2 DEF Collect
    <3> QED
      BY <3>1, <3>2
  <2>3. 0 \notin Frames
    BY DEF Frames
  <2> QED
    BY <1>7, <2>2, <2>3 DEF Collect, Works, capturing
<1>8. CASE Encode
  <2>1. output \in Frames
    BY <1>8 DEF Encode, Works
  <2>2. queue' \in Seq(Frames)
    BY <1>8, <2>1, AppendProperties DEF Encode
  <2>3. coded' \in [Frames -> Nat]
    BY <1>8, <2>1 DEF Encode
  <2> QED
    BY <1>8, <2>2, <2>3 DEF Encode, Works, capturing, cancelling
<1>9. CASE Hear
  BY <1>9 DEF Hear, capturing
<1>10. CASE Pass
  <2>1. ec_in # <<>>
    BY <1>10 DEF Pass, IInv, Types
  <2>2. ec_out' \in Seq(Frames) /\ ec_in' \in Seq(Frames)
    BY <1>10, <2>1, HeadTailProperties, AppendProperties DEF Pass
  <2>3. ec_size' \in BOOLEAN
    BY <1>10, Zenon DEF Pass
  <2>4. UNCHANGED <<slot, work, output, queue, coded, hearing, num_send, behind, capturing>>
    BY <1>10 DEF Pass
  <2> QED
    BY <2>2, <2>3, <2>4 DEF capturing
<1>11. CASE UNCHANGED vars
  BY <1>11 DEF vars
<1> QED
  BY <1>1, <1>2, <1>3, <1>4, <1>5, <1>6, <1>7, <1>8, <1>9, <1>10, <1>11 DEF Next

-------------------------------------------------------------------------------
(* The frames on their way through the canceller, the next one to leave it  *)
(* first, and the same without their order.                                 *)
Line == ec_out \o ec_in
Waiting == {Line[i] : i \in 1..Len(Line)}

(* What is on its way: a frame waits in the canceller at most once, and is  *)
(* not in it before the worker gave it.                                     *)
Flow ==
    /\ \A i, j \in 1..Len(Line) : i < j => Line[i] < Line[j]
    /\ \A f \in Waiting : f <= put
    /\ slot # 0 => slot = put
    /\ slot # 0 /\ work \in {"wait", "echo"} => slot \notin Waiting
    /\ work = "collect" => slot \in Waiting /\ hearing /\ num_send = Warmup
    /\ work = "encode" => output <= put
    /\ ~hearing \/ num_send < Warmup => Waiting = {}
    /\ \A i \in 1..Len(queue) : queue[i] <= put

(* How often a frame may still be coded.                                    *)
Due(f) ==
    (IF f \in Waiting THEN 1 ELSE 0)
  + (IF slot # f THEN 0 ELSE IF work \in {"wait", "echo"} THEN 2
                        ELSE IF work = "collect" THEN 1 ELSE 0)
  + (IF work = "encode" /\ output = f THEN 1 ELSE 0)

Twice == \A f \in Frames : /\ coded[f] + Due(f) <= 2
                           /\ f > put => coded[f] = 0

(* Everything that is still to be coded is at least as new as n.            *)
Ahead(n) ==
    /\ n <= put
    /\ \A f \in Waiting : n <= f
    /\ work = "encode" => n <= output

Sorted ==
    /\ Len(ec_in) <= 1
    /\ Ahead(sent)
    /\ \A i \in 1..Len(queue) : sent <= queue[i] /\ Ahead(queue[i])
    /\ \A i, j \in 1..Len(queue) : i <= j => queue[i] <= queue[j]
    /\ work = "encode" => \A f \in Waiting : output <= f

Ordered == ~behind => Sorted

OInv == Flow /\ Twice /\ Ordered

-------------------------------------------------------------------------------
LEMMA LineType ==
  ASSUME Types
  PROVE  /\ Line \in Seq(Nat) /\ Len(Line) \in Nat /\ Waiting \subseteq Nat
         /\ Len(Line) = Len(ec_out) + Len(ec_in)
<1>1. Line \in Seq(Nat) /\ Len(Line) = Len(ec_out) + Len(ec_in)
  BY ConcatProperties DEF Types, Line
<1>2. Len(Line) \in Nat /\ \A i \in 1..Len(Line) : Line[i] \in Nat
  BY <1>1, LenProperties, ElementOfSeq
<1> QED
  BY <1>1, <1>2 DEF Waiting

(* Three parts of a line may be put together in either order.               *)
LEMMA Assoc ==
  ASSUME NEW s \in Seq(Nat), NEW t \in Seq(Nat), NEW u \in Seq(Nat)
  PROVE  (s \o t) \o u = s \o (t \o u)
<1> DEFINE front == s \o t
           back  == t \o u
           left  == front \o u
           right == s \o back
<1>1. /\ front \in Seq(Nat) /\ Len(front) = Len(s) + Len(t)
      /\ \A i \in 1..(Len(s) + Len(t)) :
             front[i] = IF i <= Len(s) THEN s[i] ELSE t[i - Len(s)]
  BY ConcatProperties
<1>2. /\ back \in Seq(Nat) /\ Len(back) = Len(t) + Len(u)
      /\ \A i \in 1..(Len(t) + Len(u)) :
             back[i] = IF i <= Len(t) THEN t[i] ELSE u[i - Len(t)]
  BY ConcatProperties
<1>3. /\ left \in Seq(Nat) /\ Len(left) = Len(front) + Len(u)
      /\ \A i \in 1..(Len(front) + Len(u)) :
             left[i] = IF i <= Len(front) THEN front[i] ELSE u[i - Len(front)]
  <2>1. front \in Seq(Nat)
    BY <1>1
  <2> HIDE DEF front
  <2> QED
    BY <2>1, ConcatProperties
<1>4. /\ right \in Seq(Nat) /\ Len(right) = Len(s) + Len(back)
      /\ \A i \in 1..(Len(s) + Len(back)) :
             right[i] = IF i <= Len(s) THEN s[i] ELSE back[i - Len(s)]
  <2>1. back \in Seq(Nat)
    BY <1>2
  <2> HIDE DEF back
  <2> QED
    BY <2>1, ConcatProperties
<1>5. /\ Len(s) \in Nat /\ Len(t) \in Nat /\ Len(u) \in Nat
      /\ Len(left) = Len(right) /\ Len(left) = Len(s) + Len(t) + Len(u)
  BY <1>1, <1>2, <1>3, <1>4, LenProperties
<1>6. ASSUME NEW i \in 1..Len(left) PROVE left[i] = right[i]
  BY <1>1, <1>2, <1>3, <1>4, <1>5
<1> HIDE DEF left, right
<1>7. left = right
  BY <1>3, <1>4, <1>5, <1>6, SeqEqual
<1> QED
  BY <1>7 DEF left, right, front, back

(* A frame that is given to the canceller joins the end of the line.        *)
LEMMA LineJoins ==
  ASSUME Types, ec_in' = Append(ec_in, slot), ec_out' = ec_out
  PROVE  /\ Len(Line') = Len(Line) + 1 /\ Line'[Len(Line) + 1] = slot
         /\ \A i \in 1..Len(Line) : Line'[i] = Line[i]
         /\ Waiting' = Waiting \cup {slot}
<1>1. Line \in Seq(Nat) /\ Len(Line) \in Nat
  BY LineType
<1>2. Append(ec_in, slot) = ec_in \o <<slot>> /\ <<slot>> \in Seq(Nat)
  BY AppendIsConcat DEF Types
<1>3. Line' = Append(Line, slot)
  <2> DEFINE last == <<slot>>
  <2>1. ec_out \in Seq(Nat) /\ ec_in \in Seq(Nat) /\ last \in Seq(Nat) /\ slot \in Nat
    BY <1>2 DEF Types
  <2>2. Append(Line, slot) = Line \o last
    BY <1>1, <2>1, AppendIsConcat
  <2>3. Line' = ec_out \o (ec_in \o last)
    BY <1>2 DEF Line
  <2> HIDE DEF last
  <2>4. ec_out \o (ec_in \o last) = (ec_out \o ec_in) \o last
    BY ONLY <2>1, Assoc
  <2> QED
    BY <2>2, <2>3, <2>4 DEF Line
<1>4. /\ Len(Line') = Len(Line) + 1 /\ Line'[Len(Line) + 1] = slot
      /\ \A i \in 1..Len(Line) : Line'[i] = Line[i]
  <2>1. slot \in Nat
    BY DEF Types
  <2> QED
    BY ONLY <1>1, <1>3, <2>1, AppendProperties
<1>5. Waiting' = {Line'[i] : i \in 1..Len(Line')}
  BY DEF Waiting
<1>6. /\ 1..Len(Line') = 1..Len(Line) \cup {Len(Line) + 1}
      /\ \A i \in 1..Len(Line) : Line'[i] = Line[i]
      /\ Line'[Len(Line) + 1] = slot
  BY ONLY <1>1, <1>4
<1>7. {Line'[i] : i \in 1..Len(Line')} = {Line[i] : i \in 1..Len(Line)} \cup {slot}
  BY ONLY <1>6
<1> QED
  BY ONLY <1>4, <1>5, <1>7 DEF Waiting

(* A pass of the canceller moves no frame in the line.                      *)
LEMMA LineStays ==
  ASSUME Types, ec_in # <<>>, ec_out' = Append(ec_out, Head(ec_in)), ec_in' = Tail(ec_in)
  PROVE  Line' = Line /\ Waiting' = Waiting
<1>1. Head(ec_in) \in Nat /\ Tail(ec_in) \in Seq(Nat) /\ <<Head(ec_in)>> \in Seq(Nat)
  BY HeadTailProperties DEF Types
<1>2. ec_in = <<Head(ec_in)>> \o Tail(ec_in)
  <2>1. Len(<<Head(ec_in)>>) = 1 /\ <<Head(ec_in)>>[1] = ec_in[1]
    BY DEF Types
  <2>2. /\ <<Head(ec_in)>> \o Tail(ec_in) \in Seq(Nat)
        /\ Len(<<Head(ec_in)>> \o Tail(ec_in)) = 1 + Len(Tail(ec_in))
        /\ \A i \in 1..(1 + Len(Tail(ec_in))) : (<<Head(ec_in)>> \o Tail(ec_in))[i] =
               IF i <= 1 THEN <<Head(ec_in)>>[i] ELSE Tail(ec_in)[i - 1]
    BY <1>1, <2>1, ConcatProperties
  <2>3. /\ Len(ec_in) \in Nat /\ Len(Tail(ec_in)) = Len(ec_in) - 1
        /\ \A i \in 1..Len(Tail(ec_in)) : Tail(ec_in)[i] = ec_in[i + 1]
    BY HeadTailProperties, LenProperties DEF Types
  <2>4. \A i \in 1..Len(ec_in) : (<<Head(ec_in)>> \o Tail(ec_in))[i] = ec_in[i]
    BY <2>1, <2>2, <2>3
  <2> QED
    BY <2>2, <2>3, <2>4, SeqEqual DEF Types
<1>3. Append(ec_out, Head(ec_in)) = ec_out \o <<Head(ec_in)>>
  <2>1. ec_out \in Seq(Nat)
    BY DEF Types
  <2> QED
    BY ONLY <1>1, <2>1, AppendIsConcat
<1>4. (ec_out \o <<Head(ec_in)>>) \o Tail(ec_in) = ec_out \o (<<Head(ec_in)>> \o Tail(ec_in))
  <2> DEFINE first == <<Head(ec_in)>>
             rest == Tail(ec_in)
  <2>1. ec_out \in Seq(Nat) /\ first \in Seq(Nat) /\ rest \in Seq(Nat)
    BY <1>1 DEF Types
  <2> HIDE DEF first, rest
  <2>2. (ec_out \o first) \o rest = ec_out \o (first \o rest)
    BY ONLY <2>1, Assoc
  <2> QED
    BY <2>2 DEF first, rest
<1>5. Line' = (ec_out \o <<Head(ec_in)>>) \o Tail(ec_in)
  BY <1>3 DEF Line
<1>6. ec_out \o (<<Head(ec_in)>> \o Tail(ec_in)) = Line
  BY <1>2 DEF Line
<1>7. Line' = Line
  BY <1>4, <1>5, <1>6
<1> QED
  BY <1>7 DEF Waiting

(* The first in the line, which is older than the others, leaves it.        *)
LEMMA LineLeaves ==
  ASSUME Types, Flow, ec_out # <<>>, ec_out' = Tail(ec_out), ec_in' = ec_in
  PROVE  /\ Head(ec_out) \in Waiting
         /\ \A f \in Waiting : Head(ec_out) <= f
         /\ Waiting' = Waiting \ {Head(ec_out)}
         /\ Len(Line') = Len(Line) - 1
         /\ \A i \in 1..Len(Line') : Line'[i] = Line[i + 1]
<1>1. Line \in Seq(Nat) /\ Len(Line) = Len(ec_out) + Len(ec_in) /\ Len(ec_in) \in Nat
      /\ Len(ec_out) \in Nat \ {0}
  BY LineType, LenProperties, EmptySeq DEF Types
<1>2. /\ Tail(ec_out) \in Seq(Nat) /\ Len(Tail(ec_out)) = Len(ec_out) - 1
      /\ \A i \in 1..Len(Tail(ec_out)) : Tail(ec_out)[i] = ec_out[i + 1]
  BY HeadTailProperties DEF Types
<1>3. Len(Line') = Len(Line) - 1
  BY <1>1, <1>2, ConcatProperties DEF Line, Types
<1>4. \A i \in 1..Len(Line) :
        Line[i] = IF i <= Len(ec_out) THEN ec_out[i] ELSE ec_in[i - Len(ec_out)]
  BY <1>1, ConcatProperties DEF Line, Types
<1>5. \A i \in 1..Len(Line') :
        Line'[i] = IF i <= Len(ec_out) - 1 THEN Tail(ec_out)[i]
                                           ELSE ec_in[i - (Len(ec_out) - 1)]
  BY <1>1, <1>2, <1>3, ConcatProperties DEF Line, Types
<1>6. ASSUME NEW i \in 1..Len(Line') PROVE Line'[i] = Line[i + 1]
  <2>1. i \in Nat \ {0} /\ i + 1 \in 1..Len(Line)
    BY <1>1, <1>3
  <2>2. CASE i <= Len(ec_out) - 1
    <3>1. Line'[i] = Tail(ec_out)[i] /\ i \in 1..Len(Tail(ec_out))
      <4>1. i \in 1..Len(Tail(ec_out))
        BY ONLY <1>1, <1>2, <2>1, <2>2
      <4>2. Line'[i] = Tail(ec_out)[i]
        BY ONLY <1>5, <2>2, i \in 1..Len(Line')
      <4> QED
        BY <4>1, <4>2
    <3>2. Line[i + 1] = ec_out[i + 1]
      <4>1. i + 1 <= Len(ec_out)
        BY ONLY <1>1, <2>1, <2>2
      <4> QED
        BY ONLY <1>4, <2>1, <4>1
    <3> QED
      BY <1>2, <3>1, <3>2
  <2>3. CASE i > Len(ec_out) - 1
    <3>1. Line'[i] = ec_in[i - (Len(ec_out) - 1)]
      <4>1. ~(i <= Len(ec_out) - 1)
        BY ONLY <1>1, <2>1, <2>3
      <4> QED
        BY ONLY <1>5, <4>1, i \in 1..Len(Line')
    <3>2. Line[i + 1] = ec_in[(i + 1) - Len(ec_out)]
      <4>1. ~(i + 1 <= Len(ec_out))
        BY ONLY <1>1, <2>1, <2>3
      <4> QED
        BY ONLY <1>4, <2>1, <4>1
    <3>3. (i + 1) - Len(ec_out) = i - (Len(ec_out) - 1)
      BY <1>1, <2>1
    <3> QED
      BY <3>1, <3>2, <3>3
  <2> QED
    BY ONLY <1>1, <2>1, <2>2, <2>3
<1>7. Head(ec_out) = Line[1] /\ \A i \in 1..Len(Line) : Line[i] \in Nat
  <2>1. \A i \in 1..Len(Line) : Line[i] \in Nat
    BY ONLY <1>1, ElementOfSeq
  <2>2. 1 \in 1..Len(Line) /\ 1 <= Len(ec_out)
    BY ONLY <1>1
  <2>3. Line[1] = ec_out[1]
    BY ONLY <1>4, <2>2
  <2>4. Head(ec_out) = ec_out[1]
    BY HeadTailProperties DEF Types
  <2> QED
    BY <2>1, <2>3, <2>4
<1>8. \A i, j \in 1..Len(Line) : i < j => Line[i] < Line[j]
  BY DEF Flow
<1>9. Waiting' = {Line'[i] : i \in 1..Len(Line')}
  BY DEF Waiting
<1>10. ASSUME NEW f \in Waiting, f # Line[1] PROVE f \in Waiting' /\ Line[1] < f
  <2>1. PICK i \in 1..Len(Line) : f = Line[i]
    BY DEF Waiting
  <2>2. i > 1 /\ i - 1 \in 1..Len(Line')
    BY <1>1, <1>3, <1>10, <2>1
  <2>3. Line'[i - 1] = Line[(i - 1) + 1] /\ (i - 1) + 1 = i
    BY <1>6, <2>2
  <2>4. Line[1] < Line[i]
    BY <1>1, <1>8, <2>1, <2>2
  <2> QED
    BY <1>9, <2>1, <2>2, <2>3, <2>4
<1>11. ASSUME NEW f \in Waiting' PROVE f \in Waiting /\ f # Line[1]
  <2>1. PICK i \in 1..Len(Line') : f = Line'[i]
    BY <1>9
  <2>2. i + 1 \in 1..Len(Line) /\ 1 \in 1..Len(Line) /\ 1 < i + 1 /\ f = Line[i + 1]
    BY <1>1, <1>3, <1>6, <2>1
  <2>3. Line[1] < Line[i + 1]
    BY <1>8, <2>2
  <2> QED
    BY <1>7, <2>2, <2>3 DEF Waiting
<1>12. Line[1] \in Waiting /\ Line[1] \in Nat
  BY <1>1, <1>7 DEF Waiting
<1>13. Waiting \subseteq Nat
  BY LineType
<1>14. \A f \in Waiting : Head(ec_out) <= f
  BY <1>7, <1>10, <1>12, <1>13
<1>15. Waiting' = Waiting \ {Head(ec_out)}
  BY <1>7, <1>10, <1>11
<1> QED
  BY <1>3, <1>6, <1>7, <1>12, <1>14, <1>15

-------------------------------------------------------------------------------
LEMMA LineSame == UNCHANGED <<ec_in, ec_out>> => Line' = Line /\ Waiting' = Waiting
BY DEF Line, Waiting

LEMMA InitOInv == Init => OInv
<1> SUFFICES ASSUME Init PROVE OInv
  OBVIOUS
<1>1. Len(Line) = 0 /\ Waiting = {} /\ Len(queue) = 0 /\ Len(ec_in) = 0
  BY DEF Init, Line, Waiting
<1>2. Flow
  BY <1>1 DEF Init, Flow
<1>3. Twice
  BY <1>1 DEF Init, Twice, Due, Frames
<1>4. Ordered
  BY <1>1 DEF Init, Ordered, Sorted, Ahead
<1> QED
  BY <1>2, <1>3, <1>4 DEF OInv

(* A step of which none of the variables above hears.                       *)
LEMMA OFrame ==
  ASSUME OInv, UNCHANGED <<put, slot, work, output, queue, num_send, ec_in, ec_out, sent, coded>>,
         hearing' <=> hearing, behind' <=> behind
  PROVE  OInv'
<1>1. Line' = Line /\ Waiting' = Waiting
  BY LineSame
<1>2. Flow'
  BY <1>1 DEF OInv, Flow
<1>3. Twice'
  BY <1>1 DEF OInv, Twice, Due
<1>4. Ordered'
  BY <1>1 DEF OInv, Ordered, Sorted, Ahead
<1> QED
  BY <1>2, <1>3, <1>4 DEF OInv

(* The frame that is put is newer than all that were put before.            *)
LEMMA PutOrder == IInv /\ Typed /\ OInv /\ PutData => OInv'
<1> SUFFICES ASSUME IInv, Typed, OInv, PutData PROVE OInv'
  OBVIOUS
<1>1. /\ UNCHANGED <<work, output, queue, num_send, ec_in, ec_out, sent, coded>>
      /\ (hearing' <=> hearing) /\ (behind' <=> behind) /\ phase = "put"
  BY DEF PutData, cancelling
<1>2. CASE slot # 0
  BY <1>1, <1>2, OFrame DEF PutData
<1>3. CASE slot = 0
  <2>1. Line' = Line /\ Waiting' = Waiting
    BY <1>1, LineSame
  <2>2. slot' = put' /\ put' \in Nat \ {0} /\ put' > put /\ put \in Nat
    BY <1>1, <1>3, NextValue DEF PutData, IInv, Types
  <2>3. work = "wait" /\ work' = "wait"
    BY <1>1, <1>3 DEF IInv, Types, Bounded
  <2>4. Waiting \subseteq Nat /\ queue \in Seq(Nat)
    BY LineType DEF IInv, Types
  <2>5. slot' \notin Waiting
    BY <2>2, <2>4 DEF OInv, Flow
  <2>6. \A i \in 1..Len(queue) : queue[i] \in Nat
    BY <2>4, ElementOfSeq
  <2>7. Flow'
    BY <1>1, <2>1, <2>2, <2>3, <2>4, <2>5, <2>6 DEF OInv, Flow
  <2>8. Twice'
    <3> SUFFICES ASSUME NEW f \in Frames
                 PROVE  coded[f] + Due(f)' <= 2 /\ (f > put' => coded[f] = 0)
      BY <1>1 DEF Twice, Frames
    <3>1. coded[f] \in Nat /\ coded[f] + Due(f) <= 2 /\ (f > put => coded[f] = 0)
          /\ f \in Nat \ {0}
      <4>1. coded[f] \in Nat /\ f \in Nat \ {0}
        <5>1. coded \in [Frames -> Nat]
          BY Zenon DEF Typed, TypeOK
        <5> QED
          BY ONLY <5>1, f \in Frames DEF Frames
      <4>2. coded[f] + Due(f) <= 2 /\ (f > put => coded[f] = 0)
        BY DEF OInv, Twice
      <4> QED
        BY <4>1, <4>2
    <3>2. CASE f = slot'
      BY <1>1, <2>1, <2>2, <2>3, <2>5, <3>1, <3>2 DEF Due
    <3>3. CASE f # slot'
      BY <1>1, <1>3, <2>1, <2>2, <2>3, <3>1, <3>3 DEF Due
    <3> QED
      BY <3>2, <3>3
  <2>9. Ordered'
    <3> SUFFICES ASSUME ~behind PROVE Sorted'
      BY <1>1 DEF Ordered
    <3>1. Sorted
      BY DEF OInv, Ordered
    <3>2. \A n \in Nat : Ahead(n) => Ahead(n)'
      BY <1>1, <2>1, <2>2 DEF Ahead
    <3>3. sent \in Nat
      BY DEF Typed, TypeOK, Frames
    <3> QED
      BY <1>1, <2>1, <2>3, <2>6, <3>1, <3>2, <3>3 DEF Sorted, Ahead
  <2> QED
    BY <2>7, <2>8, <2>9 DEF OInv
<1> QED
  BY <1>2, <1>3

LEMMA SendOrder == IInv /\ OInv /\ Send => OInv'
<1> SUFFICES ASSUME IInv, OInv, Send PROVE OInv'
  OBVIOUS
<1>1. /\ UNCHANGED <<put, slot, work, output, num_send, ec_in, ec_out, coded>>
      /\ (hearing' <=> hearing) /\ (behind' <=> behind)
  BY DEF Send, cancelling
<1>2. CASE queue = <<>>
  BY <1>1, <1>2, OFrame DEF Send
<1>3. CASE queue # <<>>
  <2>1. Line' = Line /\ Waiting' = Waiting
    BY <1>1, LineSame
  <2>2. queue' = Tail(queue) /\ sent' = queue[1] /\ queue \in Seq(Nat)
    BY <1>3 DEF Send, IInv, Types
  <2>3. /\ Len(queue) \in Nat \ {0} /\ Len(queue') = Len(queue) - 1
        /\ \A i \in 1..Len(queue') : queue'[i] = queue[i + 1]
    BY <1>3, <2>2, HeadTailProperties, LenProperties, EmptySeq
  <2>4. 1 \in 1..Len(queue) /\ \A i \in 1..Len(queue') : i + 1 \in 1..Len(queue)
    BY <2>3
  <2>5. Flow'
    BY <1>1, <2>1, <2>3, <2>4 DEF OInv, Flow
  <2>6. Twice'
    BY <1>1, <2>1 DEF OInv, Twice, Due
  <2>7. Ordered'
    <3> SUFFICES ASSUME ~behind PROVE Sorted'
      BY <1>1 DEF Ordered
    <3>1. Sorted
      BY DEF OInv, Ordered
    <3>2. \A n : Ahead(n)' <=> Ahead(n)
      BY <1>1, <2>1 DEF Ahead
    <3>3. Ahead(sent') /\ \A i \in 1..Len(queue') : sent' <= queue'[i] /\ Ahead(queue'[i])
      BY <2>2, <2>3, <2>4, <3>1 DEF Sorted
    <3>4. \A i, j \in 1..Len(queue') : i <= j => queue'[i] <= queue'[j]
      BY <2>3, <2>4, <3>1 DEF Sorted
    <3>5. Ahead(sent)' /\ \A i \in 1..Len(queue') : Ahead(queue[i])'
      BY <3>2, <3>3
    <3> QED
      BY <1>1, <2>1, <3>1, <3>3, <3>4, <3>5 DEF Sorted
  <2> QED
    BY <2>5, <2>6, <2>7 DEF OInv
<1> QED
  BY <1>2, <1>3

(* The steps in which no frame moves.                                       *)
LEMMA AwakeOrder == IInv /\ Typed /\ OInv /\ (Awake \/ SetIdle \/ Hear) => OInv'
<1> SUFFICES ASSUME IInv, Typed, OInv, Awake \/ SetIdle \/ Hear PROVE OInv'
  OBVIOUS
<1>1. /\ UNCHANGED <<put, output, queue, num_send, ec_in, ec_out, sent, coded>>
      /\ (behind' <=> behind) /\ (hearing => hearing')
      /\ \/ work' = work /\ slot' = slot /\ hearing'
         \/ work = "wait" /\ work' = "echo" /\ slot' = slot /\ (hearing' <=> hearing)
         \/ work = "idle" /\ work' = "wait" /\ slot' = 0 /\ (hearing' <=> hearing)
  BY DEF Awake, SetIdle, Hear, Works, capturing, cancelling
<1>2. Line' = Line /\ Waiting' = Waiting
  BY <1>1, LineSame
<1>3. Flow'
  BY <1>1, <1>2 DEF OInv, Flow
<1>4. Twice'
  <2> SUFFICES ASSUME NEW f \in Frames PROVE Due(f)' <= Due(f)
    <3>1. ASSUME NEW f \in Frames PROVE Due(f)' \in Nat /\ Due(f) \in Nat /\ coded[f] \in Nat
      BY DEF Due, Typed, TypeOK
    <3> QED
      BY <1>1, <3>1 DEF OInv, Twice, Frames
  <2>1. f # 0
    BY DEF Frames
  <2> QED
    BY <1>1, <1>2, <2>1 DEF Due
<1>5. Ordered'
  BY <1>1, <1>2 DEF OInv, Ordered, Sorted, Ahead
<1> QED
  BY <1>3, <1>4, <1>5 DEF OInv

(* Nothing is in the canceller when a frame bypasses it.                    *)
LEMMA BypassOrder == IInv /\ Typed /\ OInv /\ Bypass => OInv'
<1> SUFFICES ASSUME IInv, Typed, OInv, Bypass PROVE OInv'
  OBVIOUS
<1>1. /\ UNCHANGED <<put, slot, queue, ec_in, ec_out, sent, coded>>
      /\ (hearing' <=> hearing) /\ (behind' <=> behind)
      /\ work = "echo" /\ work' = "encode" /\ output' = slot
  BY DEF Bypass, Works, capturing
<1>2. Line' = Line /\ Waiting' = {} /\ Waiting = {}
  BY <1>1, LineSame DEF Bypass, OInv, Flow
<1>3. slot = put /\ put \in Nat \ {0}
  BY <1>1 DEF OInv, Flow, IInv, Bounded, Types
<1>4. Flow'
  BY <1>1, <1>2, <1>3 DEF OInv, Flow
<1>5. Twice'
  <2> SUFFICES ASSUME NEW f \in Frames PROVE Due(f)' <= Due(f)
    <3>1. ASSUME NEW f \in Frames PROVE Due(f)' \in Nat /\ Due(f) \in Nat /\ coded[f] \in Nat
      BY DEF Due, Typed, TypeOK
    <3> QED
      BY <1>1, <3>1 DEF OInv, Twice, Frames
  <2> QED
    BY <1>1, <1>2 DEF Due
<1>6. Ordered'
  BY <1>1, <1>2, <1>3 DEF OInv, Ordered, Sorted, Ahead
<1> QED
  BY <1>4, <1>5, <1>6 DEF OInv

(* The frame the canceller is given joins the line behind older ones.       *)
LEMMA CancelOrder == IInv /\ Typed /\ OInv /\ Cancel => OInv'
<1> SUFFICES ASSUME IInv, Typed, OInv, Cancel PROVE OInv'
  OBVIOUS
<1>1. /\ UNCHANGED <<put, slot, output, queue, num_send, sent, coded>>
      /\ (hearing' <=> hearing) /\ hearing /\ num_send = Warmup
      /\ work = "echo" /\ work' = "collect"
      /\ ec_in' = Append(ec_in, slot) /\ ec_out' = ec_out
      /\ (behind' <=> behind \/ ec_in # <<>>)
  BY DEF Cancel, Works, capturing
<1>2. slot = put /\ put \in Nat \ {0} /\ slot \notin Waiting
  BY <1>1 DEF OInv, Flow, IInv, Bounded, Types
<1>3. Line \in Seq(Nat) /\ Len(Line) \in Nat /\ Waiting \subseteq Nat
  BY LineType DEF IInv
<1>4. /\ Len(Line') = Len(Line) + 1 /\ Line'[Len(Line) + 1] = slot
      /\ \A i \in 1..Len(Line) : Line'[i] = Line[i]
      /\ Waiting' = Waiting \cup {slot}
  BY <1>1, LineJoins DEF IInv
<1>5. \A f \in Waiting : f < slot
  BY <1>2, <1>3 DEF OInv, Flow
<1>6. Flow'
  <2>1. ASSUME NEW i \in 1..Len(Line'), NEW j \in 1..Len(Line'), i < j
        PROVE  Line'[i] < Line'[j]
    <3>1. i \in 1..Len(Line)
      BY <1>3, <1>4, <2>1
    <3>2. CASE j \in 1..Len(Line)
      BY <1>4, <2>1, <3>1, <3>2 DEF OInv, Flow
    <3>3. CASE j = Len(Line) + 1
      BY <1>4, <1>5, <3>1, <3>3 DEF Waiting
    <3> QED
      BY <1>3, <1>4, <3>2, <3>3
  <2>2. \A f \in Waiting' : f <= put'
    BY <1>1, <1>2, <1>4 DEF OInv, Flow
  <2>3. slot \in Waiting' /\ \A i \in 1..Len(queue) : queue[i] <= put
    BY <1>4 DEF OInv, Flow
  <2>4. ~(~hearing \/ num_send < Warmup)
    BY <1>1, SendingAssumption
  <2> QED
    BY <1>1, <1>2, <2>1, <2>2, <2>3, <2>4 DEF Flow
<1>7. Twice'
  <2> SUFFICES ASSUME NEW f \in Frames PROVE Due(f)' <= Due(f)
    <3>1. ASSUME NEW f \in Frames PROVE Due(f)' \in Nat /\ Due(f) \in Nat /\ coded[f] \in Nat
      BY DEF Due, Typed, TypeOK
    <3> QED
      BY <1>1, <3>1 DEF OInv, Twice, Frames
  <2> QED
    BY <1>1, <1>2, <1>4 DEF Due
<1>8. Ordered'
  <2> SUFFICES ASSUME ~behind, ec_in = <<>> PROVE Sorted'
    BY <1>1 DEF Ordered
  <2>1. Sorted
    BY DEF OInv, Ordered
  <2>2. Len(ec_in') = 1
    BY <1>1, AppendProperties, EmptySeq DEF IInv, Types
  <2> QED
    BY <1>1, <1>2, <1>4, <2>1, <2>2 DEF Sorted, Ahead
<1> QED
  BY <1>6, <1>7, <1>8 DEF OInv

(* The worker takes the oldest frame in the line, or the one it just gave   *)
(* when nothing has left the canceller.                                     *)
LEMMA CollectOrder == IInv /\ Typed /\ OInv /\ Collect => OInv'
<1> SUFFICES ASSUME IInv, Typed, OInv, Collect PROVE OInv'
  OBVIOUS
<1>1. /\ UNCHANGED <<put, slot, queue, num_send, ec_in, sent, coded>>
      /\ (hearing' <=> hearing) /\ (behind' <=> behind)
      /\ work = "collect" /\ work' = "encode"
  BY DEF Collect, Works, capturing
<1>2. /\ slot = put /\ put \in Nat \ {0} /\ slot \in Waiting
      /\ hearing /\ num_send = Warmup
  BY <1>1 DEF OInv, Flow, IInv, Bounded, Types
<1>3. Line \in Seq(Nat) /\ Len(Line) \in Nat /\ Waiting \subseteq Nat
      /\ Len(Line) = Len(ec_out) + Len(ec_in)
  BY LineType DEF IInv
<1>4. \A f \in Frames : Due(f)' \in Nat /\ Due(f) \in Nat /\ coded[f] \in Nat
  BY DEF Due, Typed, TypeOK
<1>5. CASE ec_out # <<>>
  <2>1. ec_out' = Tail(ec_out) /\ output' = Head(ec_out)
    BY <1>5 DEF Collect
  <2>2. /\ Head(ec_out) \in Waiting
        /\ \A f \in Waiting : Head(ec_out) <= f
        /\ Waiting' = Waiting \ {Head(ec_out)}
        /\ Len(Line') = Len(Line) - 1
        /\ \A i \in 1..Len(Line') : Line'[i] = Line[i + 1]
    BY <1>1, <1>5, <2>1, LineLeaves DEF IInv, OInv
  <2>3. Flow'
    <3>1. ASSUME NEW i \in 1..Len(Line'), NEW j \in 1..Len(Line'), i < j
          PROVE  Line'[i] < Line'[j]
      <4>1. i + 1 \in 1..Len(Line) /\ j + 1 \in 1..Len(Line) /\ i + 1 < j + 1
        BY <1>3, <2>2, <3>1
      <4> QED
        BY <2>2, <4>1 DEF OInv, Flow
    <3> QED
      BY <1>1, <1>2, <2>1, <2>2, <3>1 DEF OInv, Flow
  <2>4. Twice'
    <3> SUFFICES ASSUME NEW f \in Frames PROVE Due(f)' <= Due(f)
      BY <1>1, <1>4 DEF OInv, Twice, Frames
    <3> QED
      BY <1>1, <2>1, <2>2 DEF Due
  <2>5. Ordered'
    BY <1>1, <2>1, <2>2 DEF OInv, Ordered, Sorted, Ahead
  <2> QED
    BY <2>3, <2>4, <2>5 DEF OInv
<1>6. CASE ec_out = <<>>
  <2>1. ec_out' = ec_out /\ output' = slot
    BY <1>6 DEF Collect
  <2>2. Line' = Line /\ Waiting' = Waiting
    BY <1>1, <2>1, LineSame
  <2>3. Flow'
    BY <1>1, <1>2, <2>1, <2>2 DEF OInv, Flow
  <2>4. Twice'
    <3> SUFFICES ASSUME NEW f \in Frames PROVE Due(f)' <= Due(f)
      BY <1>1, <1>4 DEF OInv, Twice, Frames
    <3> QED
      BY <1>1, <2>1, <2>2 DEF Due
  <2>5. Ordered'
    <3> SUFFICES ASSUME ~behind PROVE Sorted'
      BY <1>1 DEF Ordered
    <3>1. Sorted
      BY DEF OInv, Ordered
    <3>2. Len(Line) <= 1
      BY <1>3, <1>6, <3>1, EmptySeq DEF Sorted
    <3>3. \A f \in Waiting : f = slot
      BY <1>2, <1>3, <3>2 DEF Waiting
    <3> QED
      BY <1>1, <1>2, <2>1, <2>2, <3>1, <3>3 DEF Sorted, Ahead
  <2> QED
    BY <2>3, <2>4, <2>5 DEF OInv
<1> QED
  BY <1>5, <1>6

LEMMA EncodeOrder == IInv /\ Typed /\ OInv /\ Encode => OInv'
<1> SUFFICES ASSUME IInv, Typed, OInv, Encode PROVE OInv'
  OBVIOUS
<1>1. /\ UNCHANGED <<put, slot, output, num_send, ec_in, ec_out, sent>>
      /\ (hearing' <=> hearing) /\ (behind' <=> behind)
      /\ work = "encode" /\ work' = "idle" /\ queue' = Append(queue, output)
  BY DEF Encode, Works, capturing, cancelling
<1>2. Line' = Line /\ Waiting' = Waiting
  BY <1>1, LineSame
<1>3. /\ Len(queue) \in Nat /\ Len(queue') = Len(queue) + 1
      /\ queue'[Len(queue) + 1] = output
      /\ \A i \in 1..Len(queue) : queue'[i] = queue[i]
  BY <1>1, AppendProperties, LenProperties DEF IInv, Types
<1>4. output <= put /\ output \in Frames /\ put \in Nat
  BY <1>1 DEF OInv, Flow, IInv, Types, Typed, TypeOK
<1>5. \A i \in 1..Len(queue') : i \in 1..Len(queue) \/ i = Len(queue) + 1
  BY <1>3
<1>6. Flow'
  BY <1>1, <1>2, <1>3, <1>4, <1>5 DEF OInv, Flow
<1>7. Twice'
  <2> SUFFICES ASSUME NEW f \in Frames
               PROVE  coded'[f] + Due(f)' <= 2 /\ (f > put => coded'[f] = 0)
    BY <1>1 DEF Twice, Frames
  <2>1. /\ coded \in [Frames -> Nat] /\ coded[f] \in Nat
        /\ coded' = [coded EXCEPT ![output] = @ + 1]
    BY DEF Typed, TypeOK, Encode
  <2>2. coded[f] + Due(f) <= 2 /\ (f > put => coded[f] = 0) /\ f \in Nat
    BY DEF OInv, Twice, Frames
  <2>3. CASE f = output
    BY <1>1, <1>2, <1>4, <2>1, <2>2, <2>3 DEF Due
  <2>4. CASE f # output
    BY <1>1, <1>2, <1>4, <2>1, <2>2, <2>4 DEF Due
  <2> QED
    BY <2>3, <2>4
<1>8. Ordered'
  <2> SUFFICES ASSUME ~behind PROVE Sorted'
    BY <1>1 DEF Ordered
  <2>1. Sorted
    BY DEF OInv, Ordered
  <2>2. \A n : Ahead(n) => Ahead(n)' /\ n <= output
    BY <1>1, <1>2 DEF Ahead
  <2>3. Ahead(output)' /\ output <= output
    BY <1>1, <1>2, <1>4, <2>1 DEF Sorted, Ahead, Frames
  <2>4. \A i \in 1..Len(queue') : sent <= queue'[i] /\ Ahead(queue[i])' 
    BY <1>1, <1>3, <1>5, <2>1, <2>2, <2>3 DEF Sorted
  <2>5. \A i, j \in 1..Len(queue') : i <= j => queue'[i] <= queue'[j]
    BY <1>3, <1>5, <2>1, <2>2, <2>3 DEF Sorted
  <2> QED
    BY <1>1, <2>1, <2>2, <2>4, <2>5 DEF Sorted
<1> QED
  BY <1>6, <1>7, <1>8 DEF OInv

LEMMA PassOrder == IInv /\ OInv /\ Pass => OInv'
<1> SUFFICES ASSUME IInv, OInv, Pass PROVE OInv'
  OBVIOUS
<1>1. /\ UNCHANGED <<put, slot, work, output, queue, num_send, sent, coded>>
      /\ (hearing' <=> hearing) /\ (behind' <=> behind)
      /\ ec_out' = Append(ec_out, Head(ec_in)) /\ ec_in' = Tail(ec_in)
      /\ ec_in # <<>> /\ ec_in \in Seq(Nat)
  BY DEF Pass, capturing, IInv, Types
<1>2. Line' = Line /\ Waiting' = Waiting
  BY <1>1, LineStays DEF IInv
<1>3. Len(ec_in) \in Nat /\ Len(ec_in') = Len(ec_in) - 1
  BY <1>1, HeadTailProperties, LenProperties
<1>4. Flow'
  BY <1>1, <1>2 DEF OInv, Flow
<1>5. Twice'
  BY <1>1, <1>2 DEF OInv, Twice, Due
<1>6. Ordered'
  BY <1>1, <1>2, <1>3 DEF OInv, Ordered, Sorted, Ahead
<1> QED
  BY <1>4, <1>5, <1>6 DEF OInv

LEMMA OInductive == IInv /\ Typed /\ OInv /\ [Next]_vars => OInv'
<1>1. ASSUME OInv, Read \/ UNCHANGED vars PROVE OInv'
  <2>1. /\ UNCHANGED <<put, slot, work, output, queue, num_send, ec_in, ec_out, sent, coded>>
        /\ (hearing' <=> hearing) /\ (behind' <=> behind)
    BY <1>1 DEF Read, cancelling, vars
  <2> QED
    BY <1>1, <2>1, OFrame
<1> QED
  BY <1>1, PutOrder, SendOrder, AwakeOrder, BypassOrder, CancelOrder, CollectOrder,
     EncodeOrder, PassOrder DEF Next

LEMMA OInvariance == Spec => [](IInv /\ Typed /\ OInv)
BY InitIInv, Inductive, TypedInit, TypedStep, InitOInv, OInductive, PTL DEF Spec

-------------------------------------------------------------------------------
(* Every variable keeps its type: no place of the ring is off the ring, and *)
(* what is queued, cancelled and sent are frames of the microphone.         *)
THEOREM SendingTypeCorrect == Spec => []TypeOK
<1>1. Typed => TypeOK
  BY DEF Typed
<1> QED
  BY <1>1, TypedInit, TypedStep, Invariance, PTL DEF Spec

(* At most one coded frame is queued or in work when the capture thread     *)
(* waits for the microphone: m_in_q has no bound of its own, the loop gives *)
(* it one.                                                                  *)
THEOREM SendQueueCorrect == Spec => []QueueBound
<1>1. ASSUME IInv PROVE QueueBound
  <2>1. Len(queue) \in Nat
    BY <1>1, LenProperties DEF IInv, Types
  <2> QED
    BY <1>1, <2>1 DEF IInv, Bounded, QueueBound, Pending
<1> QED
  BY <1>1, Invariance, PTL

(* No frame is left out until the Encoder was busy a whole ring of times.   *)
THEOREM UnbrokenCorrect == Spec => []Unbroken
<1>1. IInv => Unbroken
  BY DEF IInv, Counts
<1> QED
  BY <1>1, Invariance, PTL

(* The Encoder gets the frames in order, and none the ring has given up.    *)
THEOREM PutCorrect == Spec => PutForward
<1>1. IInv /\ [Next]_vars => [puts' # puts => put' > put /\ put' > captured - RingFrames]_vars
  <2> SUFFICES ASSUME IInv, Next, puts' # puts
               PROVE  put' > put /\ put' > captured - RingFrames
    BY DEF vars
  <2>1. PutData
    BY DEF Next, Read, Send, Awake, Bypass, Cancel, Collect, Encode, SetIdle, Hear, Pass,
           capturing
  <2>2. phase = "put" /\ put' = ring[readpos]
    BY <2>1 DEF PutData
  <2> QED
    BY <2>2, NextValue
<1> QED
  BY <1>1, Invariance, PTL DEF Spec, PutForward

(* No frame is coded more than twice, whether the canceller was too slow    *)
(* for it or not.                                                           *)
THEOREM CodedTwiceCorrect == Spec => []CodedTwice
<1>1. ASSUME Typed, OInv PROVE CodedTwice
  <2> SUFFICES ASSUME NEW f \in Frames PROVE coded[f] <= 2
    BY DEF CodedTwice
  <2>1. coded[f] \in Nat /\ Due(f) \in Nat
    BY <1>1 DEF Typed, TypeOK, Due
  <2> QED
    BY <1>1, <2>1 DEF OInv, Twice
<1> QED
  BY <1>1, OInvariance, PTL

(* The sending half of a call is a channel from the microphone to the peer: *)
(* every step of the threads is a step of VoiceChannel or changes nothing   *)
(* of it.  Send is Hear, and Cancel is Disorder when the canceller was      *)
(* behind.                                                                  *)
THEOREM SentCorrect == Spec => SentForward
<1>1. Init => Channel!Init
  BY DEF Init, Channel!Init
<1>2. IInv /\ Typed /\ OInv /\ [Next]_vars => [Channel!Next]_<<captured, sent, behind>>
  <2> SUFFICES ASSUME IInv, Typed, OInv, [Next]_vars
               PROVE  Channel!Next \/ UNCHANGED <<captured, sent, behind>>
    OBVIOUS
  <2>1. CASE Read
    <3>1. Channel!Say
      BY <2>1 DEF Read, cancelling, Channel!Say
    <3> QED
      BY <3>1 DEF Channel!Next
  <2>2. CASE Send
    <3>1. CASE queue = <<>>
      BY <2>2, <3>1 DEF Send, cancelling
    <3>2. CASE queue # <<>>
      <4>1. sent' = Head(queue) /\ UNCHANGED <<captured, behind>>
        BY <2>2, <3>2 DEF Send, cancelling
      <4>2. queue \in Seq(Frames) /\ Len(queue) \in Nat \ {0} /\ Head(queue) = queue[1]
        BY <3>2, LenProperties, EmptySeq DEF Typed, TypeOK
      <4>3. 1 \in 1..Len(queue) /\ queue[1] \in Frames
        BY <4>2, ElementOfSeq
      <4>4. queue[1] <= put /\ put <= captured /\ put \in Nat /\ captured \in Nat
        BY <4>3 DEF OInv, Flow, IInv, Round, Types
      <4>5. ~behind => sent <= queue[1] /\ sent \in Nat
        BY <4>3 DEF OInv, Ordered, Sorted, Typed, TypeOK, Frames
      <4>6. Channel!Hear
        BY <4>1, <4>2, <4>3, <4>4, <4>5 DEF Channel!Hear, Frames
      <4> QED
        BY <4>6 DEF Channel!Next
    <3> QED
      BY <3>1, <3>2
  <2>3. CASE Cancel
    <3>1. UNCHANGED <<captured, sent>> /\ behind' = (behind \/ ec_in # <<>>)
      BY <2>3 DEF Cancel, capturing
    <3>2. CASE behind' = TRUE
      BY <3>1, <3>2 DEF Channel!Next, Channel!Disorder
    <3>3. CASE behind' # TRUE
      BY <3>1, <3>3 DEF Typed, TypeOK
    <3> QED
      BY <3>2, <3>3
  <2>4. CASE UNCHANGED vars
    BY <2>4 DEF vars
  <2>5. CASE PutData \/ Awake \/ Bypass \/ Collect \/ Encode \/ SetIdle \/ Hear \/ Pass
    BY <2>5 DEF PutData, Awake, Bypass, Collect, Encode, SetIdle, Hear, Pass, capturing,
                cancelling
  <2> QED
    BY <2>1, <2>2, <2>3, <2>4, <2>5 DEF Next
<1> QED
  BY <1>1, <1>2, OInvariance, PTL DEF Spec, SentForward, Channel!Spec

-------------------------------------------------------------------------------
Side == INSTANCE CancellerSide
            WITH waiting <- ec_in, ready <- ec_size, results <- ec_out

(* The Encoder's worker and the canceller meet in what EchoCancellation is  *)
(* shown to look like from outside: Cancel puts a frame, Collect takes a    *)
(* result away (Encoder:72-75), and nothing else touches the queues.        *)
THEOREM CancelsAside == Spec => Side!Spec
<1>1. Init => Side!Init
  BY DEF Init, Side!Init
<1>2. Typed /\ [Next]_vars => [Side!Next]_<<ec_in, ec_size, ec_out>>
  <2> SUFFICES ASSUME Typed, [Next]_vars
               PROVE  Side!Next \/ UNCHANGED <<ec_in, ec_size, ec_out>>
    OBVIOUS
  <2>1. CASE Cancel
    <3>1. ec_in \in Seq(Frames \cup {0}) /\ slot \in Frames \cup {0}
      BY SeqMonotonic DEF Typed, TypeOK
    <3>2. Append(ec_in, slot)[Len(Append(ec_in, slot))] = slot
      BY <3>1, AppendProperties, LenProperties
    <3>3. ec_in' = Append(ec_in, ec_in'[Len(ec_in')])
      BY <2>1, <3>2 DEF Cancel
    <3> QED
      BY <2>1, <3>3 DEF Cancel, Side!Next, Side!Put
  <2>2. CASE Pass
    BY <2>2 DEF Pass, Side!Next, Side!Pass
  <2>3. CASE Collect
    BY <2>3 DEF Collect, Side!Next, Side!Collect
  <2>4. CASE UNCHANGED vars
    BY <2>4 DEF vars
  <2>5. CASE Read \/ PutData \/ Send \/ Awake \/ Bypass \/ Encode \/ SetIdle \/ Hear
    BY <2>5 DEF Read, PutData, Send, Awake, Bypass, Encode, SetIdle, Hear, cancelling
  <2> QED
    BY <2>1, <2>2, <2>3, <2>4, <2>5 DEF Next
<1> QED
  BY <1>1, <1>2, OInvariance, PTL DEF Spec, Side!Spec

===============================================================================
