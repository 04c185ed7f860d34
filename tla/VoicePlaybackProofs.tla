-------------------------- MODULE VoicePlaybackProofs --------------------------
(***************************************************************************)
(* The order of the frames of VoicePlayback and the bound of its queue,    *)
(* for any number of packets, losses, duplicates and failed receives.      *)
(*                                                                         *)
(* That no frame is put twice rests on the duplicate test, which compares  *)
(* sequence numbers: Forward says that, without reordering, the buffer     *)
(* holds the newest packet, and that its number is the remembered one as   *)
(* long as its frame is the one put last.                                  *)
(***************************************************************************)
EXTENDS VoicePlayback, TLAPS

Frames == Packets \cup {0}

Types ==
    /\ sent \in Nat /\ net \subseteq Packets
    /\ buf.frame \in Frames
    /\ phase \in {"first", "drain", "receive", "put", "take", "done"}
    /\ work \in {"wait", "queue", "idle"}
    /\ slot \in Frames /\ pcm \in Frames /\ given \in Frames /\ played \in Frames
    /\ newest \in Frames /\ queue \in Nat

Bounded ==
    /\ work \in {"queue", "idle"} => slot # 0
    /\ IF phase = "take" THEN Pending <= 2 ELSE Pending <= 1

Forward ==
    ~reordered =>
        /\ newest = buf.frame /\ given <= buf.frame
        /\ buf.frame # 0 => buf.seq = SeqOf(buf.frame)
        /\ phase = "put" => buf.frame = 0 \/ given < buf.frame
        /\ phase \in {"put", "take"} => currentseq = buf.seq
        /\ phase = "receive" /\ given # 0 /\ given = buf.frame => currentseq = buf.seq
        /\ phase \in {"first", "drain"} => given = 0
        /\ slot \in {0, given}
        /\ pcm <= given /\ played <= pcm

IInv == Types /\ Bounded /\ Forward

-------------------------------------------------------------------------------
LEMMA InitIInv == Init => IInv
<1> SUFFICES ASSUME Init PROVE IInv
  OBVIOUS
<1>1. buf.frame = 0
  BY DEF Init
<1> QED
  BY <1>1 DEF Init, IInv, Types, Bounded, Forward, Frames, Packets, Pending

LEMMA SameSeq == start' = start => \A p \in Packets : SeqOf(p)' = SeqOf(p)
BY DEF SeqOf, GetInt, SetInt

(* What a receive does to the buffer.                                       *)
Fresh(p) ==
    /\ p \in net /\ buf'.seq = SeqOf(p) /\ buf'.frame = p
    /\ newest' = (IF p > newest THEN p ELSE newest)
    /\ ~reordered' => ~reordered /\ p >= newest

Kept == buf' = buf /\ newest' = newest /\ reordered' = reordered

LEMMA Received ==
  ASSUME Types, (\E p \in Packets : Receive(p)) \/ ReceiveFails
  PROVE  start' = start /\ sent' = sent /\ net' \subseteq net /\ ((\E p \in Packets : Fresh(p)) \/ Kept)
<1>1. ASSUME NEW p \in Packets, Receive(p)
      PROVE  start' = start /\ sent' = sent /\ net' \subseteq net /\ Fresh(p)
  <2>1. ~reordered' => ~reordered /\ ~(p < newest)
    BY Zenon, <1>1 DEF Receive
  <2>2. ~(p < newest) => p >= newest
    BY DEF Types, Frames, Packets
  <2>3. buf' = [seq |-> SeqOf(p), frame |-> p]
    BY <1>1 DEF Receive
  <2>4. start' = start /\ sent' = sent /\ net' \subseteq net /\ p \in net
    BY <1>1 DEF Receive
  <2>5. newest' = IF p > newest THEN p ELSE newest
    BY <1>1 DEF Receive
  <2> QED
    BY <2>1, <2>2, <2>3, <2>4, <2>5 DEF Fresh
<1>2. ASSUME ReceiveFails PROVE start' = start /\ sent' = sent /\ net' \subseteq net /\ Kept
  BY <1>2 DEF ReceiveFails, Kept
<1> QED
  BY <1>1, <1>2

(* One pass of the loop either skips a known number or accepts a new one.   *)
LEMMA Looped ==
  ASSUME Types, LoopReceive
  PROVE  /\ phase = "receive"
         /\ UNCHANGED <<work, slot, pcm, queue, given, played>>
         /\ \/ buf'.seq = currentseq /\ UNCHANGED <<phase, currentseq>>
            \/ buf'.seq # currentseq /\ phase' = "put" /\ currentseq' = buf'.seq
         /\ start' = start /\ sent' = sent /\ net' \subseteq net /\ ((\E p \in Packets : Fresh(p)) \/ Kept)
<1>1. start' = start /\ sent' = sent /\ net' \subseteq net /\ ((\E p \in Packets : Fresh(p)) \/ Kept)
  BY Received DEF LoopReceive
<1>2. CASE buf'.seq = currentseq
  BY <1>1, <1>2 DEF LoopReceive, counts
<1>3. CASE buf'.seq # currentseq
  BY <1>1, <1>3 DEF LoopReceive, LostAndGood
<1> QED
  BY <1>2, <1>3

(* The network changes nothing that IInv is about except the set itself.    *)
LEMMA NetworkStep == IInv /\ (Send \/ Lose) => IInv'
<1> SUFFICES ASSUME IInv, Send \/ Lose PROVE IInv'
  OBVIOUS
<1>1. /\ net' \subseteq Packets /\ sent' \in Nat
      /\ UNCHANGED <<start, phase, buf, currentseq, work, slot, pcm, queue, given,
                     played, newest, reordered>>
  <2>1. CASE Send
    <3>1. sent + 1 \in Packets /\ sent' \in Nat
      BY <2>1, PlaybackAssumption DEF Send, Packets, IInv, Types
    <3> QED
      BY <2>1, <3>1 DEF Send, IInv, Types, history, counts
  <2>2. CASE Lose
    BY <2>2 DEF Lose, IInv, Types, history, counts
  <2> QED
    BY <2>1, <2>2
<1>2. \A p \in Packets : SeqOf(p)' = SeqOf(p)
  BY <1>1, SameSeq
<1> QED
  BY <1>1, <1>2 DEF IInv, Types, Bounded, Forward, Pending, Frames

LEMMA TypesStep == IInv /\ Next => Types'
<1> SUFFICES ASSUME IInv, Next PROVE Types'
  OBVIOUS
<1> USE DEF IInv, Types
<1>1. CASE Send \/ Lose
  BY <1>1, NetworkStep
<1>2. CASE FirstReceive
  <2>1. sent' = sent /\ net' \subseteq net /\ ((\E p \in Packets : Fresh(p)) \/ Kept)
    BY <1>2, Received DEF FirstReceive
  <2> QED
    BY <1>2, <2>1 DEF FirstReceive, Fresh, Kept, Frames
<1>3. CASE Empty
  <2>1. sent' = sent /\ net' \subseteq net /\ ((\E p \in Packets : Fresh(p)) \/ Kept)
    BY <1>3, Received DEF Empty
  <2> QED
    BY <1>3, <2>1 DEF Empty, Fresh, Kept, Frames
<1>4. CASE LoopReceive
  BY <1>4, Looped DEF Fresh, Kept, Frames
<1>5. CASE PutFrame
  BY <1>5 DEF PutFrame, history
<1>6. CASE PlayFrame
  BY <1>6 DEF PlayFrame, history
<1>7. CASE Stop
  BY <1>7 DEF Stop, history
<1>8. CASE Decode \/ Queue \/ SetIdle
  BY <1>8 DEF Decode, Queue, SetIdle, Works, rest, history, Frames
<1> QED
  BY <1>1, <1>2, <1>3, <1>4, <1>5, <1>6, <1>7, <1>8 DEF Next

LEMMA BoundedStep == IInv /\ Next => Bounded'
<1> SUFFICES ASSUME IInv, Next PROVE Bounded'
  OBVIOUS
<1> USE DEF IInv, Types, Bounded, Pending
<1>1. CASE Send \/ Lose
  BY <1>1, NetworkStep
<1>2. CASE FirstReceive
  BY <1>2 DEF FirstReceive
<1>3. CASE Empty
  BY <1>3 DEF Empty
<1>4. CASE LoopReceive
  BY <1>4, Looped
<1>5. CASE PutFrame
  BY <1>5 DEF PutFrame
<1>6. CASE PlayFrame
  BY <1>6 DEF PlayFrame
<1>7. CASE Stop
  BY <1>7 DEF Stop
<1>8. CASE Decode \/ Queue \/ SetIdle
  BY <1>8 DEF Decode, Queue, SetIdle, Works, rest
<1> QED
  BY <1>1, <1>2, <1>3, <1>4, <1>5, <1>6, <1>7, <1>8 DEF Next

LEMMA ForwardStep == IInv /\ Next => Forward'
<1> SUFFICES ASSUME IInv, Next PROVE Forward'
  OBVIOUS
<1> USE DEF IInv, Types, Forward, Frames, Packets
<1>1. CASE Send \/ Lose
  BY <1>1, NetworkStep
<1>2. CASE FirstReceive \/ Empty
  <2>1. /\ start' = start /\ ((\E p \in Packets : Fresh(p)) \/ Kept)
        /\ phase \in {"first", "drain"} /\ phase' \in {"drain", "receive"}
        /\ UNCHANGED <<slot, pcm, given, played>>
    BY <1>2, Received DEF FirstReceive, Empty
  <2>2. \A p \in Packets : SeqOf(p)' = SeqOf(p)
    BY <2>1, SameSeq
  <2>3. CASE Kept
    BY <2>1, <2>2, <2>3 DEF Kept
  <2>4. ASSUME NEW p \in Packets, Fresh(p) PROVE Forward'
    BY <2>1, <2>2, <2>4 DEF Fresh
  <2> QED
    BY <2>1, <2>3, <2>4
<1>3. CASE LoopReceive
  <2>1. /\ phase = "receive"
        /\ UNCHANGED <<slot, pcm, given, played>>
        /\ \/ buf'.seq = currentseq /\ UNCHANGED <<phase, currentseq>>
           \/ buf'.seq # currentseq /\ phase' = "put" /\ currentseq' = buf'.seq
        /\ start' = start /\ ((\E p \in Packets : Fresh(p)) \/ Kept)
    BY <1>3, Looped
  <2>2. \A p \in Packets : SeqOf(p)' = SeqOf(p)
    BY <2>1, SameSeq
  <2>3. CASE Kept
    BY <2>1, <2>2, <2>3 DEF Kept
  <2>4. ASSUME NEW p \in Packets, Fresh(p), ~reordered' PROVE Forward'
    <3>1. ~reordered /\ p >= buf.frame /\ newest' = p /\ buf'.frame = p /\ buf'.seq = SeqOf(p)
      BY <2>4 DEF Fresh
    <3>2. given = p => buf'.seq = currentseq
      BY <2>1, <3>1
    <3> QED
      BY <2>1, <2>2, <3>1, <3>2
  <2> QED
    BY <2>1, <2>3, <2>4
<1>4. CASE PutFrame
  <2>1. \A p \in Packets : SeqOf(p)' = SeqOf(p)
    BY <1>4, SameSeq DEF PutFrame
  <2> QED
    BY <1>4, <2>1 DEF PutFrame, history, counts
<1>5. CASE PlayFrame
  <2>1. \A p \in Packets : SeqOf(p)' = SeqOf(p)
    BY <1>5, SameSeq DEF PlayFrame
  <2> QED
    BY <1>5, <2>1 DEF PlayFrame, history, counts
<1>6. CASE Stop
  <2>1. \A p \in Packets : SeqOf(p)' = SeqOf(p)
    BY <1>6, SameSeq DEF Stop
  <2> QED
    BY <1>6, <2>1 DEF Stop, history, counts
<1>7. CASE Decode \/ Queue \/ SetIdle
  <2>1. \A p \in Packets : SeqOf(p)' = SeqOf(p)
    BY <1>7, SameSeq DEF Decode, Queue, SetIdle, rest
  <2> QED
    BY <1>7, <2>1 DEF Decode, Queue, SetIdle, Works, rest, history, counts
<1> QED
  BY <1>1, <1>2, <1>3, <1>4, <1>5, <1>6, <1>7 DEF Next

LEMMA Inductive == IInv /\ [Next]_vars => IInv'
<1>1. CASE Next
  BY <1>1, TypesStep, BoundedStep, ForwardStep DEF IInv
<1>2. ASSUME IInv, UNCHANGED vars PROVE IInv'
  <2>1. \A p \in Packets : SeqOf(p)' = SeqOf(p)
    BY <1>2, SameSeq DEF vars
  <2> QED
    BY <1>2, <2>1 DEF vars, IInv, Types, Bounded, Pending, Forward, Frames
<1> QED
  BY <1>1, <1>2

LEMMA Invariance == Spec => []IInv
BY InitIInv, Inductive, PTL DEF Spec

-------------------------------------------------------------------------------
(* Arithmetic: remainders do not see multiples of the divisor.              *)
LEMMA DivMod ==
  ASSUME NEW B \in Nat \ {0}, NEW x \in Int
  PROVE  x \div B \in Int /\ (x % B) \in 0..(B - 1) /\ x = B * (x \div B) + (x % B)
BY SMT

LEMMA ModUnique ==
  ASSUME NEW B \in Nat \ {0}, NEW x \in Int, NEW q \in Int, NEW r \in 0..(B - 1),
         x = B * q + r
  PROVE  x % B = r
BY SMTT(30)

LEMMA ModShift ==
  ASSUME NEW B \in Nat \ {0}, NEW x \in Int, NEW k \in Int
  PROVE  (x + B * k) % B = x % B
<1>1. PICK q \in Int, r \in 0..(B - 1) : x = B * q + r /\ q = x \div B /\ r = x % B
  BY DivMod
<1>2. B * (q + k) = B * q + B * k
  OBVIOUS
<1>3. x + B * k = B * (q + k) + r /\ q + k \in Int /\ x + B * k \in Int
  BY <1>1, <1>2
<1> QED
  BY <1>1, <1>3, ModUnique

LEMMA ModBelow ==
  ASSUME NEW B \in Nat \ {0}, NEW x \in Nat
  PROVE  x % B <= x /\ (x < B => x % B = x)
<1>1. PICK q \in Int, r \in 0..(B - 1) : x = B * q + r /\ q = x \div B /\ r = x % B
  <2>1. x \in Int
    OBVIOUS
  <2> QED
    BY <2>1, DivMod
<1>2. q >= 0
  <2> SUFFICES ASSUME q <= -1 PROVE FALSE
    BY <1>1
  <2>1. B * q <= B * (-1)
    BY SMTT(30)
  <2> QED
    BY <1>1, <2>1
<1>3. B * q >= 0
  BY <1>2, SMTT(30)
<1>4. x < B => x % B = x
  <2>1. x = B * 0 + x
    OBVIOUS
  <2> QED
    BY <2>1, ModUnique
<1> QED
  BY <1>1, <1>3, <1>4

(* The number in a header is the packet's, up to multiples of a byte.       *)
LEMMA SeqOfIs ==
  ASSUME start \in Int, NEW p \in Packets
  PROVE  SeqOf(p) \in Int /\ \E k \in Int : SeqOf(p) = start + p - 1 + ByteMod * k
<1> DEFINE n == start + p - 1
<1>0. ByteMod \in Nat \ {0} /\ n \in Int
  BY PlaybackAssumption DEF Packets
<1> HIDE DEF n
<1>1. PICK q \in Int, r \in 0..(ByteMod - 1) :
          n = ByteMod * q + r /\ q = n \div ByteMod /\ r = n % ByteMod
  BY <1>0, DivMod
<1>2. PICK s \in Int : s = q % ByteMod
  BY <1>0, DivMod
<1>3. ByteMod * (s - q) = ByteMod * s - ByteMod * q
  BY <1>0
<1>4. s * ByteMod + r = n + ByteMod * (s - q)
  BY <1>0, <1>1, <1>2, <1>3
<1>5. SeqOf(p) = s * ByteMod + r
  BY <1>1, <1>2 DEF SeqOf, GetInt, SetInt, n
<1>6. s - q \in Int /\ s * ByteMod + r \in Int
  BY <1>0, <1>1, <1>2
<1>7. SeqOf(p) = start + p - 1 + ByteMod * (s - q)
  BY <1>4, <1>5 DEF n
<1> QED
  BY <1>5, <1>6, <1>7

(* How many packets lostandgood sees between two of them.                   *)
LEMMA GapIs ==
  ASSUME start \in Int, NEW a \in Packets, NEW f \in Packets, f > a, currentseq = SeqOf(a)
  PROVE  /\ Gap(SeqOf(f)) \in Int /\ Gap(SeqOf(f)) <= f - a - 1
         /\ f - a - 1 <= MaxGap => Gap(SeqOf(f)) = f - a - 1
<1>0. ByteMod \in Nat \ {0} /\ MaxGap \in Nat /\ 1 <= MaxGap /\ MaxGap < ByteMod
  BY PlaybackAssumption
<1>1. PICK k \in Int : SeqOf(f) = start + f - 1 + ByteMod * k
  BY SeqOfIs
<1>2. PICK l \in Int : SeqOf(a) = start + a - 1 + ByteMod * l
  BY SeqOfIs
<1>3. PICK d \in Nat, m \in Int : d = f - a - 1 /\ m = k - l
  BY DEF Packets
<1>4. SeqOf(f) - (SeqOf(a) + 1) = d + ByteMod * m
  <2>1. ByteMod * (k - l) = ByteMod * k - ByteMod * l
    BY <1>0
  <2> QED
    BY <1>0, <1>1, <1>2, <1>3, <2>1 DEF Packets
<1>5. d \in Int /\ (d + ByteMod * m) % ByteMod = d % ByteMod
  <2>1. d \in Int
    OBVIOUS
  <2> QED
    BY <1>0, <2>1, ModShift
<1>6. PICK g \in Int : /\ g = (SeqOf(f) - (SeqOf(a) + 1)) % ByteMod /\ g >= 0
                       /\ g <= d /\ (d < ByteMod => g = d)
  <2>1. (d % ByteMod) \in 0..(ByteMod - 1)
    BY <1>0, <1>5, DivMod
  <2>2. d % ByteMod <= d /\ (d < ByteMod => d % ByteMod = d)
    BY <1>0, ModBelow
  <2> QED
    BY <1>0, <1>4, <1>5, <2>1, <2>2
<1>7. Gap(SeqOf(f)) = IF g > MaxGap THEN 1 ELSE g
  BY <1>6 DEF Gap
<1> QED
  BY <1>0, <1>3, <1>6, <1>7

-------------------------------------------------------------------------------
(* What the averaging does to the counts, in whole fractions.               *)
LEMMA Products ==
  ASSUME NEW a \in Int, NEW b \in Int, NEW k \in Nat
  PROVE  /\ a * k \in Int /\ k * a \in Int /\ a * k = k * a
         /\ a >= 0 => a * k >= 0
         /\ a <= b => a * k <= b * k
<1>1. a * k \in Int /\ b * k \in Int /\ k * a \in Int /\ a * k = k * a
  OBVIOUS
<1>2. ASSUME a >= 0 PROVE a * k >= 0
  BY <1>2, SMTT(30)
<1>3. ASSUME a <= b PROVE a * k <= b * k
  <2>1. PICK c \in Nat : b = a + c
    <3>1. b - a \in Nat /\ b = a + (b - a)
      BY <1>3
    <3> QED
      BY <3>1
  <2>2. c * k >= 0 /\ c * k \in Int
    BY SMTT(30)
  <2>3. b * k = a * k + c * k
    BY <2>1
  <2> QED
    BY <1>1, <2>2, <2>3
<1> QED
  BY <1>1, <1>2, <1>3

(* One part taken from Den parts.                                           *)
LEMMA Parts ==
  ASSUME NEW a \in Nat
  PROVE  /\ Den * a \in Nat /\ (Den - 1) * a \in Nat
         /\ (Den - 1) * a <= Den * a
         /\ a > 0 => Den * a > a
         /\ \A b \in Int : a <= b => Den * b \in Int /\ Den * a <= Den * b
         /\ \A b \in Int : a <= b => (Den - 1) * a <= (Den - 1) * b
<1>1. Den \in Nat /\ Den > 1 /\ Den - 1 \in Nat /\ Den - 1 >= 1 /\ Den - 1 \in Int
  BY PlaybackAssumption
<1>2. /\ a * Den \in Int /\ Den * a \in Int /\ a * Den >= 0 /\ a * Den = Den * a
      /\ a * (Den - 1) \in Int /\ (Den - 1) * a \in Int /\ a * (Den - 1) >= 0
      /\ a * (Den - 1) = (Den - 1) * a
  <2>1. a \in Int /\ a >= 0
    OBVIOUS
  <2> QED
    BY <1>1, <2>1, Products
<1>3. 1 * a <= (Den - 1) * a
  BY <1>1, Products
<1>4. Den * a = (Den - 1) * a + a
  BY <1>1
<1>5. ASSUME NEW b \in Int, a <= b
      PROVE  /\ Den * b \in Int /\ Den * a <= Den * b
             /\ (Den - 1) * a <= (Den - 1) * b
  <2>1. a \in Int
    OBVIOUS
  <2>2. a * Den <= b * Den /\ b * Den = Den * b /\ Den * b \in Int
    BY <1>1, <1>5, <2>1, Products
  <2>3. a * (Den - 1) <= b * (Den - 1) /\ b * (Den - 1) = (Den - 1) * b
    BY <1>1, <1>5, <2>1, Products
  <2> QED
    BY <1>2, <2>2, <2>3
<1>6. Den * a \in Nat /\ (Den - 1) * a \in Nat
  BY <1>2
<1>7. (Den - 1) * a <= Den * a /\ (a > 0 => Den * a > a)
  BY <1>2, <1>3, <1>4
<1> QED
  BY <1>5, <1>6, <1>7

LEMMA GapNat ==
  ASSUME TypeOK, NEW seq \in Int
  PROVE  Gap(seq) \in Nat
<1>1. PICK n \in Int : n = seq - (currentseq + 1)
  BY DEF TypeOK
<1>2. n % ByteMod \in Nat
  BY PlaybackAssumption, DivMod
<1> QED
  BY <1>1, <1>2 DEF Gap

(* The counts stay counts, and lost a share of good; the unit only shrinks, *)
(* and strictly when the counts are averaged.                               *)
LEMMA Averaged ==
  ASSUME TypeOK, NEW seq \in Int, NEW frame \in Packets \cup {0}, LostAndGood(seq, frame)
  PROVE  /\ lost' \in Nat /\ good' \in Nat /\ unit' \in Nat \ {0} /\ missing' \in Int
         /\ lost <= good => lost' <= good'
         /\ unit' = unit \/ unit' > unit
<1>1. PICK g \in Nat : g = Gap(seq)
  BY GapNat
<1>2. PICK n \in Nat : n = (IF g > 0 THEN g ELSE 1) /\ g <= n
  OBVIOUS
<1>3. unit \in Nat \ {0} /\ lost \in Nat /\ good \in Nat /\ missing \in Int
  BY DEF TypeOK
<1>4. PICK x \in Nat, y \in Nat : x = g * unit /\ y = n * unit /\ x <= y
  <2>1. g \in Int /\ n \in Int /\ g >= 0 /\ n >= 0 /\ unit \in Nat
    BY <1>3
  <2>2. g * unit \in Int /\ g * unit >= 0 /\ g * unit <= n * unit
    BY <1>2, <2>1, Products
  <2>3. n * unit \in Int /\ n * unit >= 0
    BY <2>1, Products
  <2> QED
    BY <2>2, <2>3
<1>5. PICK z \in Int : z = (frame - accepted - 1) * unit
  <2>1. frame - accepted - 1 \in Int
    BY DEF TypeOK, Packets
  <2> QED
    BY <1>3, <2>1, Products
<1>6. PICK l \in Nat, h \in Nat, m \in Int :
         /\ l = lost + x /\ h = good + y
         /\ lost <= good => l <= h
         /\ m = IF accepted = 0 \/ frame = 0 THEN missing ELSE missing + z
  BY <1>3, <1>4
<1>7. CASE lost' = lost /\ good' = good /\ unit' = unit /\ missing' = m
  BY <1>3, <1>6, <1>7
<1>8. CASE lost' = l /\ good' = h /\ unit' = unit /\ missing' = m
  BY <1>3, <1>6, <1>8
<1>9. CASE /\ lost' = (Den - 1) * l /\ good' = (Den - 1) * h
           /\ unit' = Den * unit /\ missing' = Den * m
  <2>1. /\ (Den - 1) * l \in Nat /\ (Den - 1) * h \in Nat
        /\ l <= h => (Den - 1) * l <= (Den - 1) * h
    BY Parts
  <2>2. Den * unit \in Nat /\ Den * unit > unit
    BY <1>3, Parts
  <2>3. Den * m \in Int
    BY PlaybackAssumption
  <2>4. lost' \in Nat /\ good' \in Nat /\ (l <= h => lost' <= good')
    BY <1>9, <2>1
  <2>5. unit' \in Nat \ {0} /\ unit' > unit /\ missing' \in Int
    BY <1>3, <1>9, <2>2, <2>3
  <2> QED
    BY <1>6, <2>4, <2>5
<1>10. /\ lost + Gap(seq) * unit = l
       /\ good + (IF Gap(seq) > 0 THEN Gap(seq) ELSE 1) * unit = h
       /\ (IF accepted = 0 \/ frame = 0 THEN missing
           ELSE missing + (frame - accepted - 1) * unit) = m
  BY <1>1, <1>2, <1>4, <1>5, <1>6
<1> QED
  BY <1>7, <1>8, <1>9, <1>10, Zenon DEF LostAndGood

(* As long as the gap is no larger than what is missing, so is the count.   *)
LEMMA AveragedMissing ==
  ASSUME TypeOK, NEW seq \in Int, NEW frame \in Packets \cup {0}, LostAndGood(seq, frame),
         accepted # 0, frame # 0, lost <= missing, NEW d \in Nat, d = frame - accepted - 1,
         Gap(seq) <= d
  PROVE  /\ lost' <= missing'
         /\ (/\ lost = missing /\ Gap(seq) = d /\ unit' = unit
             /\ d > 0 => currentseq # 0)
                => lost' = missing'
<1>1. PICK g \in Nat : g = Gap(seq) /\ g <= d
  BY GapNat
<1>2. unit \in Nat \ {0} /\ lost \in Nat /\ missing \in Int
  BY DEF TypeOK
<1>3. PICK x \in Nat, z \in Nat : x = g * unit /\ z = d * unit /\ x <= z
  <2>1. g \in Int /\ d \in Int /\ g >= 0 /\ d >= 0 /\ unit \in Nat
    BY <1>2
  <2>2. g * unit \in Int /\ g * unit >= 0 /\ g * unit <= d * unit
    BY <1>1, <2>1, Products
  <2>3. d * unit \in Int /\ d * unit >= 0
    BY <2>1, Products
  <2> QED
    BY <2>2, <2>3
<1>4. PICK l \in Nat, m \in Nat : l = lost + x /\ m = missing + z /\ l <= m
  BY <1>2, <1>3
<1>5. \/ currentseq = 0 /\ lost' = lost /\ missing' = m
      \/ lost' = l /\ missing' = m
      \/ lost' = (Den - 1) * l /\ missing' = Den * m /\ unit' = Den * unit
  BY <1>1, <1>3, <1>4 DEF LostAndGood
<1>6. Den * unit > unit
  BY <1>2, Parts
<1>7. lost' <= missing'
  <2>1. /\ (Den - 1) * l \in Nat /\ Den * l \in Nat /\ Den * m \in Nat
        /\ (Den - 1) * l <= Den * l /\ Den * l <= Den * m
    BY <1>4, Parts
  <2>2. lost <= m
    BY <1>2, <1>4
  <2> QED
    BY <1>4, <1>5, <2>1, <2>2
<1>8. ASSUME lost = missing, Gap(seq) = d, unit' = unit, d > 0 => currentseq # 0
      PROVE  lost' = missing'
  <2>1. x = z /\ l = m
    BY <1>1, <1>3, <1>4, <1>8
  <2>2. ~(lost' = (Den - 1) * l /\ missing' = Den * m /\ unit' = Den * unit)
    BY <1>2, <1>6, <1>8
  <2>3. currentseq = 0 => m = lost
    <3>1. ASSUME currentseq = 0 PROVE m = lost
      <4>1. d = 0
        <5>1. ~(d > 0)
          BY <1>8, <3>1, Zenon
        <5>2. \A n \in Nat : n > 0 \/ n = 0
          OBVIOUS
        <5> QED
          BY <5>1, <5>2, Zenon
      <4>2. z = 0
        BY <1>2, <1>3, <4>1
      <4> QED
        BY <1>2, <1>4, <1>8, <4>2
    <3> QED
      BY <3>1
  <2> QED
    BY <1>5, <2>1, <2>2, <2>3
<1> QED
  BY <1>7, <1>8

-------------------------------------------------------------------------------
(* The types of the whole state.                                            *)
LEMMA TypeInit == Init => TypeOK
<1> SUFFICES ASSUME Init PROVE TypeOK
  OBVIOUS
<1>1. Starts \subseteq Int
  BY PlaybackAssumption
<1>2. buf \in [seq : Int, frame : Packets \cup {0}]
  BY <1>1 DEF Init
<1>3. sent \in 0..MaxSent /\ net \subseteq Packets
  BY PlaybackAssumption DEF Init
<1>4. reordered \in BOOLEAN /\ blurred \in BOOLEAN /\ phantom \in BOOLEAN
  BY DEF Init
<1>5. start \in Starts /\ dups \in Nat /\ queue \in Nat
  BY DEF Init
<1>6. lost \in Nat /\ good \in Nat /\ unit \in Nat \ {0} /\ missing \in Int
  BY PlaybackAssumption DEF Init
<1> QED
  BY <1>2, <1>3, <1>4, <1>5, <1>6 DEF Init, TypeOK

LEMMA ReceivedTypes ==
  ASSUME TypeOK, (\E p \in Packets : Receive(p)) \/ ReceiveFails
  PROVE  /\ start' = start /\ sent' = sent /\ net' \subseteq Packets /\ dups' \in Nat
         /\ buf' \in [seq : Int, frame : Packets \cup {0}]
         /\ newest' \in Packets \cup {0} /\ reordered' \in BOOLEAN
<1>1. ASSUME NEW p \in Packets, Receive(p)
      PROVE  /\ start' = start /\ sent' = sent /\ net' \subseteq Packets /\ dups' \in Nat
             /\ buf' \in [seq : Int, frame : Packets \cup {0}]
             /\ newest' \in Packets \cup {0} /\ reordered' \in BOOLEAN
  <2>1. SeqOf(p) \in Int
    BY SeqOfIs, PlaybackAssumption DEF TypeOK
  <2>2. reordered' \in BOOLEAN
    BY <1>1 DEF Receive
  <2> QED
    BY <1>1, <2>1, <2>2 DEF Receive, TypeOK
<1> QED
  BY <1>1 DEF ReceiveFails, TypeOK

LEMMA TypeStep == TypeOK /\ [Next]_vars => TypeOK'
<1> SUFFICES ASSUME TypeOK, [Next]_vars PROVE TypeOK'
  OBVIOUS
<1>1. CASE Send
  BY <1>1, PlaybackAssumption DEF Send, TypeOK, Packets, history, counts
<1>2. CASE Lose
  BY <1>2 DEF Lose, TypeOK, history, counts
<1>3. CASE FirstReceive
  BY <1>3, ReceivedTypes DEF FirstReceive, TypeOK, counts
<1>4. CASE Empty
  BY <1>4, ReceivedTypes DEF Empty, TypeOK
<1>5. CASE LoopReceive
  <2>1. /\ phase = "receive" /\ UNCHANGED <<work, slot, pcm, queue, given, played>>
        /\ start' = start /\ sent' = sent /\ net' \subseteq Packets /\ dups' \in Nat
        /\ buf' \in [seq : Int, frame : Packets \cup {0}]
        /\ newest' \in Packets \cup {0} /\ reordered' \in BOOLEAN
    BY <1>5, ReceivedTypes DEF LoopReceive
  <2>2. CASE buf'.seq = currentseq
    BY <1>5, <2>1, <2>2 DEF LoopReceive, TypeOK, counts
  <2>3. CASE buf'.seq # currentseq
    <3>1. phase' = "put" /\ LostAndGood(buf'.seq, buf'.frame)
      BY <1>5, <2>3 DEF LoopReceive
    <3>2. currentseq' \in Int /\ accepted' \in Packets \cup {0}
      BY <2>1, <3>1 DEF LostAndGood
    <3>3. buf'.seq \in Int /\ buf'.frame \in Packets \cup {0}
      BY <2>1
    <3>4. lost' \in Nat /\ good' \in Nat /\ unit' \in Nat \ {0} /\ missing' \in Int
      BY <3>1, <3>3, Averaged
    <3>5. blurred' \in BOOLEAN /\ phantom' \in BOOLEAN
      BY Zenon, <3>1 DEF LostAndGood
    <3> QED
      BY <2>1, <3>1, <3>2, <3>4, <3>5 DEF TypeOK
  <2> QED
    BY <2>2, <2>3
<1>6. CASE PutFrame
  BY <1>6 DEF PutFrame, TypeOK, history, counts
<1>7. CASE PlayFrame
  BY <1>7 DEF PlayFrame, TypeOK, history, counts
<1>8. CASE Stop
  BY <1>8 DEF Stop, TypeOK, history, counts
<1>9. CASE Decode \/ Queue \/ SetIdle
  BY <1>9 DEF Decode, Queue, SetIdle, Works, rest, TypeOK, history, counts
<1>10. CASE UNCHANGED vars
  BY <1>10 DEF vars, TypeOK
<1> QED
  BY <1>1, <1>2, <1>3, <1>4, <1>5, <1>6, <1>7, <1>8, <1>9, <1>10 DEF Next

-------------------------------------------------------------------------------
(* Lost packets are a share of the good ones, and the unit only shrinks.    *)
Shares == lost <= good /\ unit >= Unit

LEMMA SharesStep == TypeOK /\ Shares /\ [Next]_vars => Shares'
<1> SUFFICES ASSUME TypeOK, Shares, [Next]_vars PROVE Shares'
  OBVIOUS
<1>1. CASE UNCHANGED <<lost, good, unit>>
  BY <1>1 DEF Shares
<1>2. ASSUME LoopReceive, LostAndGood(buf'.seq, buf'.frame)
      PROVE  Shares'
  <2>1. buf' \in [seq : Int, frame : Packets \cup {0}]
    BY <1>2, ReceivedTypes DEF LoopReceive
  <2>2. buf'.seq \in Int /\ buf'.frame \in Packets \cup {0}
    BY <2>1
  <2>3. lost' <= good' /\ (unit' = unit \/ unit' > unit) /\ unit' \in Nat
    BY <1>2, <2>2, Averaged DEF Shares
  <2>4. unit \in Nat /\ Unit \in Nat /\ unit >= Unit
    BY PlaybackAssumption DEF TypeOK, Shares
  <2> QED
    BY <2>3, <2>4 DEF Shares
<1>3. CASE LoopReceive
  BY <1>1, <1>2, <1>3 DEF LoopReceive, counts
<1> QED
  BY <1>1, <1>3 DEF Next, Send, Lose, FirstReceive, Empty, PutFrame, PlayFrame, Stop,
                    Decode, Queue, SetIdle, rest, counts, vars

(* The packet accounted for last is the one whose number is remembered, and *)
(* no newer than the newest.                                                *)
Counted ==
    ~reordered /\ ~phantom =>
        /\ accepted <= newest
        /\ accepted = 0 => currentseq = 0
        /\ accepted # 0 => currentseq = SeqOf(accepted) /\ phase \notin {"first", "drain"}
        /\ lost <= missing /\ (~blurred /\ unit = Unit => lost = missing)

LEMMA CountedInit == Init => Counted /\ Shares
<1> SUFFICES ASSUME Init PROVE Counted /\ Shares
  OBVIOUS
<1>1. lost \in Nat /\ good \in Nat /\ lost <= good /\ unit = Unit /\ missing = lost
  BY PlaybackAssumption DEF Init
<1>2. unit >= Unit /\ lost <= missing
  BY <1>1, PlaybackAssumption
<1> QED
  BY <1>1, <1>2 DEF Init, Counted, Shares

LEMMA CountedStep == TypeOK /\ IInv /\ Counted /\ Shares /\ [Next]_vars => Counted'
<1> SUFFICES ASSUME TypeOK, IInv, Counted, Shares, [Next]_vars PROVE Counted'
  OBVIOUS
<1>1. ASSUME UNCHANGED <<start, history, counts>>,
             phase \notin {"first", "drain"} => phase' \notin {"first", "drain"}
      PROVE  Counted'
  <2>1. UNCHANGED <<newest, accepted, missing, reordered, blurred, phantom>>
    BY <1>1 DEF history
  <2>2. SeqOf(accepted)' = SeqOf(accepted)
    BY <1>1, <2>1 DEF SeqOf, GetInt, SetInt
  <2> QED
    BY <1>1, <2>1, <2>2 DEF Counted, counts
<1>2. CASE Send \/ Lose \/ PutFrame \/ PlayFrame \/ Stop \/ Decode \/ Queue \/ SetIdle
  BY <1>1, <1>2 DEF Send, Lose, PutFrame, PlayFrame, Stop, Decode, Queue, SetIdle, rest
<1>3. CASE UNCHANGED vars
  BY <1>1, <1>3 DEF vars, history, counts
<1>4. CASE FirstReceive \/ Empty
  <2>1. /\ phase \in {"first", "drain"} /\ (~reordered' => ~reordered)
        /\ UNCHANGED <<lost, unit, accepted, missing, blurred, phantom>>
        /\ currentseq' = currentseq \/ currentseq' = 0
        /\ newest' \in Packets \cup {0}
    <3>1. ~reordered' => ~reordered
      BY <1>4, Received DEF FirstReceive, Empty, Fresh, Kept, IInv
    <3> QED
      BY <1>4, <3>1, ReceivedTypes DEF FirstReceive, Empty, counts
  <2> QED
    BY <2>1 DEF Counted, TypeOK, Packets
<1>5. CASE LoopReceive
  <2> SUFFICES ASSUME ~reordered', ~phantom' PROVE Counted'
    BY DEF Counted
  <2>1. phase = "receive" /\ start' = start
    BY <1>5, Looped DEF IInv
  <2>2. /\ ~reordered /\ newest' = buf'.frame /\ newest' >= newest
        /\ newest' \in Packets \cup {0} /\ newest \in Packets \cup {0}
        /\ newest' # 0 => buf'.seq = SeqOf(newest')
    <3>1. CASE Kept
      BY <3>1 DEF Kept, IInv, Forward, TypeOK, Packets
    <3>2. ASSUME NEW p \in Packets, Fresh(p)
          PROVE  /\ ~reordered /\ newest' = buf'.frame /\ newest' >= newest
                 /\ newest' \in Packets \cup {0} /\ newest \in Packets \cup {0}
                 /\ newest' # 0 => buf'.seq = SeqOf(newest')
      <4>1. ~reordered /\ p >= newest /\ buf'.seq = SeqOf(p) /\ buf'.frame = p
        BY <3>2 DEF Fresh
      <4>2. newest' = p
        BY <3>2, <4>1 DEF Fresh, TypeOK, Packets
      <4> QED
        BY <4>1, <4>2 DEF TypeOK
    <3> QED
      BY <1>5, <3>1, <3>2, Looped DEF IInv
  <2>3. SeqOf(accepted)' = SeqOf(accepted') /\ \A p : SeqOf(p)' = SeqOf(p)
    BY <2>1 DEF SeqOf, GetInt, SetInt
  <2>4. CASE buf'.seq = currentseq
    <3>1. UNCHANGED <<phase, currentseq, lost, unit, accepted, missing, blurred, phantom>>
      BY <1>5, <2>4 DEF LoopReceive, counts
    <3> QED
      BY <2>1, <2>2, <2>3, <3>1 DEF Counted, TypeOK, Packets
  <2>5. CASE buf'.seq # currentseq
    <3>1. phase' = "put" /\ LostAndGood(buf'.seq, buf'.frame)
      BY <1>5, <2>5 DEF LoopReceive
    <3>2. PICK f \in Packets : f = buf'.frame
      <4>1. buf'.frame # 0
        BY Zenon, <3>1 DEF LostAndGood
      <4> QED
        BY <2>2, <4>1
    <3>3. ~phantom
      BY Zenon, <3>1 DEF LostAndGood
    <3>4. /\ accepted' = f /\ currentseq' = SeqOf(f) /\ newest' = f /\ f # 0
          /\ buf'.seq = SeqOf(f)
      BY <2>2, <3>1, <3>2 DEF LostAndGood, Packets
    <3>5. /\ accepted \in Packets \cup {0} /\ accepted <= f /\ accepted # f
      BY <2>2, <2>5, <3>3, <3>4 DEF Counted, TypeOK, Packets
    <3>6. lost' <= missing' /\ (~blurred' /\ unit' = Unit => lost' = missing')
      <4>1. CASE accepted = 0
        <5>1. lost' = lost /\ missing' = missing /\ unit' = unit
          BY <2>2, <3>1, <3>3, <4>1 DEF LostAndGood, Counted
        <5>2. ~blurred' => ~blurred
          BY Zenon, <3>1 DEF LostAndGood
        <5> QED
          BY <2>2, <3>3, <5>1, <5>2 DEF Counted
      <4>2. CASE accepted # 0
        <5>1. accepted \in Packets /\ f > accepted /\ currentseq = SeqOf(accepted)
          BY <2>2, <3>3, <3>5, <4>2 DEF Counted, Packets
        <5>2. /\ Gap(SeqOf(f)) \in Int /\ Gap(SeqOf(f)) <= f - accepted - 1
              /\ f - accepted - 1 <= MaxGap => Gap(SeqOf(f)) = f - accepted - 1
          BY <5>1, GapIs, PlaybackAssumption DEF TypeOK
        <5>3. PICK d \in Nat : d = f - accepted - 1
          BY <5>1 DEF Packets
        <5>4. LostAndGood(SeqOf(f), f) /\ SeqOf(f) \in Int /\ f \in Packets \cup {0}
          BY <3>1, <3>2, <3>4, SeqOfIs, PlaybackAssumption DEF TypeOK
        <5>5. ~blurred' => ~blurred /\ (d > 0 => ~(d > MaxGap) /\ currentseq # 0)
          <6>1. blurred' = (blurred \/ (accepted # 0 /\ d > 0 /\ (d > MaxGap \/ currentseq = 0)))
            BY <3>1, <3>2, <5>3 DEF LostAndGood
          <6> QED
            BY Zenon, <4>2, <6>1
        <5>6. lost <= missing /\ (~blurred /\ unit = Unit => lost = missing)
          BY <2>2, <3>3 DEF Counted
        <5>7. Gap(SeqOf(f)) <= d /\ (d <= MaxGap => Gap(SeqOf(f)) = d)
          BY <5>2, <5>3
        <5>8. /\ lost' <= missing'
              /\ (/\ lost = missing /\ Gap(SeqOf(f)) = d /\ unit' = unit
                  /\ d > 0 => currentseq # 0)
                     => lost' = missing'
          BY <3>4, <4>2, <5>3, <5>4, <5>6, <5>7, AveragedMissing
        <5>9. ASSUME ~blurred', unit' = Unit
              PROVE  lost' = missing'
          <6>1. unit' = unit
            <7>1. (unit' = unit \/ unit' > unit) /\ unit' \in Nat
              BY <5>4, Averaged
            <7>2. unit \in Nat /\ unit >= Unit /\ Unit \in Nat
              BY PlaybackAssumption DEF TypeOK, Shares
            <7> QED
              BY <5>9, <7>1, <7>2
          <6>2. lost = missing /\ (d > 0 => ~(d > MaxGap) /\ currentseq # 0)
            BY <5>5, <5>6, <5>9, <6>1
          <6>3. d <= MaxGap /\ (d > 0 => currentseq # 0)
            BY <6>2, PlaybackAssumption
          <6> QED
            BY <5>7, <5>8, <6>1, <6>2, <6>3
        <5> QED
          BY <5>8, <5>9
      <4> QED
        BY <4>1, <4>2
    <3> QED
      BY <2>3, <3>1, <3>4, <3>6 DEF Counted, Packets
  <2> QED
    BY <2>4, <2>5
<1> QED
  BY <1>2, <1>3, <1>4, <1>5 DEF Next

LEMMA CountedInvariance == Spec => [](TypeOK /\ Counted /\ Shares)
<1>1. Init => TypeOK /\ Counted /\ Shares
  BY TypeInit, CountedInit
<1>2. TypeOK /\ Counted /\ Shares /\ IInv /\ [Next]_vars => (TypeOK /\ Counted /\ Shares)'
  BY TypeStep, CountedStep, SharesStep
<1> QED
  BY <1>1, <1>2, Invariance, PTL DEF Spec

-------------------------------------------------------------------------------
(* Whatever the threads hold came from the peer, and the shared array has a *)
(* frame in it once the queue has an element.                               *)
Sourced ==
    /\ net \subseteq 1..sent
    /\ buf.frame <= sent /\ slot <= sent /\ pcm <= sent
    /\ work \in {"queue", "idle"} \/ queue > 0 => pcm # 0

Receives == FirstReceive \/ Empty \/ LoopReceive

LEMMA ReceivesIs ==
  ASSUME TypeOK, IInv, Receives
  PROVE  /\ UNCHANGED <<sent, work, slot, pcm, queue, played>>
         /\ net' \subseteq net
         /\ (\E p \in Packets : Fresh(p)) \/ Kept
         /\ reordered' \in BOOLEAN
<1>1. (\E p \in Packets : Receive(p)) \/ ReceiveFails
  BY DEF Receives, FirstReceive, Empty, LoopReceive
<1>2. sent' = sent /\ net' \subseteq net /\ ((\E p \in Packets : Fresh(p)) \/ Kept)
  BY <1>1, Received DEF IInv
<1>3. UNCHANGED <<work, slot, pcm, queue, played>>
  <2>1. CASE LoopReceive
    BY <2>1, Looped DEF IInv
  <2> QED
    BY <2>1 DEF Receives, FirstReceive, Empty
<1>4. reordered' \in BOOLEAN
  BY <1>1 DEF Receive, ReceiveFails, TypeOK
<1> QED
  BY <1>2, <1>3, <1>4

LEMMA SourcedStep == TypeOK /\ IInv /\ Sourced /\ [Next]_vars => Sourced'
<1> SUFFICES ASSUME TypeOK, IInv, Sourced, [Next]_vars PROVE Sourced'
  OBVIOUS
<1> USE DEF TypeOK, Sourced, Packets
<1>1. CASE Send
  <2>1. 1..sent' = (1..sent) \cup {sent + 1} /\ sent' = sent + 1
    BY <1>1, PlaybackAssumption DEF Send
  <2> QED
    BY <1>1, <2>1, PlaybackAssumption DEF Send, history
<1>2. CASE Lose
  BY <1>2 DEF Lose, history
<1>3. CASE Receives
  <2>1. /\ UNCHANGED <<sent, work, slot, pcm, queue>> /\ net' \subseteq net
        /\ (\E p \in Packets : Fresh(p)) \/ Kept
    BY <1>3, ReceivesIs
  <2>2. buf'.frame <= sent
    <3>1. ASSUME NEW p \in Packets, Fresh(p) PROVE buf'.frame <= sent
      BY <3>1 DEF Fresh
    <3> QED
      BY <2>1, <3>1 DEF Kept
  <2> QED
    BY <2>1, <2>2
<1>4. CASE PutFrame \/ PlayFrame \/ Stop
  BY <1>4 DEF PutFrame, PlayFrame, Stop
<1>5. CASE Decode \/ Queue \/ SetIdle
  <2>1. UNCHANGED <<sent, net, buf>> /\ sent \in Nat
    BY <1>5, PlaybackAssumption DEF Decode, Queue, SetIdle, rest
  <2>2. CASE Decode
    BY <2>1, <2>2 DEF Decode
  <2>3. CASE Queue
    BY <2>1, <2>3 DEF Queue, Works
  <2>4. CASE SetIdle
    BY <2>1, <2>4 DEF SetIdle, Works
  <2> QED
    BY <1>5, <2>2, <2>3, <2>4
<1>6. CASE UNCHANGED vars
  BY <1>6 DEF vars
<1> QED
  BY <1>1, <1>2, <1>3, <1>4, <1>5, <1>6 DEF Next, Receives

LEMMA SourcedInvariance == Spec => [](TypeOK /\ IInv /\ Sourced)
<1>1. Init => Sourced
  BY DEF Init, Sourced
<1> QED
  BY <1>1, SourcedStep, CountedInvariance, Invariance, PTL DEF Spec

-------------------------------------------------------------------------------
(* Every variable keeps its type: the queue is never taken from when it is  *)
(* empty (LanAudioPlay:115).                                                *)
THEOREM PlaybackTypeCorrect == Spec => []TypeOK
BY CountedInvariance, PTL

(* What lostandgood counts as lost is always a share of what it counts as   *)
(* good, and never exceeds what earlier calls left and what is missing      *)
(* since; it is exactly that until the averaging starts, unless a gap hid   *)
(* it (LanAudioPlay:138).                                                   *)
THEOREM LostCorrect == Spec => []LostCount
<1>1. Counted /\ Shares => LostCount
  BY DEF Counted, Shares, LostCount
<1> QED
  BY <1>1, CountedInvariance, PTL

(* However the worker and the playing thread interleave, at most two        *)
(* results wait, and at most one while a packet is awaited                  *)
(* (LanAudioPlay:115, Decoder:74).                                          *)
THEOREM QueueCorrect == Spec => []QueueBound
<1>1. IInv => QueueBound
  BY DEF IInv, Types, Bounded, QueueBound, Pending
<1> QED
  BY <1>1, Invariance, PTL

(* Whatever is lost, duplicated or timed out, a frame is put into the       *)
(* Decoder once and after all older ones, as long as the network keeps the  *)
(* order (LanAudioPlay:105).                                                *)
THEOREM GivenCorrect == Spec => GivenForward
<1>1. IInv /\ IInv' /\ [Next]_vars =>
          [slot = 0 /\ slot' # 0 /\ ~reordered' => slot' > given]_vars
  <2> SUFFICES ASSUME IInv, Next, slot = 0, slot' # 0, ~reordered'
               PROVE  slot' > given
    BY DEF vars
  <2>1. PutFrame
    <3>1. CASE LoopReceive
      BY <3>1, Looped DEF IInv
    <3> QED
      BY <3>1 DEF Next, Send, Lose, FirstReceive, Empty, PlayFrame, Stop, Decode,
                  Queue, SetIdle, rest, IInv, Types
  <2>2. slot' = buf.frame /\ buf.frame # 0 /\ phase = "put" /\ ~reordered
    BY <2>1 DEF PutFrame, history
  <2> QED
    BY <2>2 DEF IInv, Types, Forward, Frames, Packets
<1> QED
  BY <1>1, Invariance, PTL DEF Spec, GivenForward

(* The receiving half of a call is a channel from the peer to the           *)
(* loudspeaker: every step is a step of VoiceChannel or changes nothing of  *)
(* it.  PlayFrame is Hear, although all results share one array             *)
(* (Decoder:74, LanAudioPlay:116), and a receive is Disorder when the       *)
(* network had reordered.                                                   *)
THEOREM PlayedCorrect == Spec => PlayedForward
<1>1. Init => Channel!Init
  BY DEF Init, Channel!Init
<1>2. TypeOK /\ IInv /\ Sourced /\ [Next]_vars
        => [Channel!Next]_<<sent, played, reordered>>
  <2> SUFFICES ASSUME TypeOK, IInv, Sourced, [Next]_vars
               PROVE  Channel!Next \/ UNCHANGED <<sent, played, reordered>>
    OBVIOUS
  <2>1. CASE Send
    <3>1. Channel!Say
      BY <2>1 DEF Send, history, Channel!Say
    <3> QED
      BY <3>1 DEF Channel!Next
  <2>2. CASE PlayFrame
    <3>1. CASE queue > 0
      <4>1. played' = pcm /\ UNCHANGED <<sent, reordered>>
        BY <2>2, <3>1 DEF PlayFrame, history
      <4>2. pcm \in 1..sent
        BY <3>1 DEF Sourced, TypeOK, Packets
      <4>3. ~reordered => pcm >= played
        BY DEF IInv, Forward, TypeOK, Packets
      <4>4. Channel!Hear
        BY <4>1, <4>2, <4>3 DEF Channel!Hear
      <4> QED
        BY <4>4 DEF Channel!Next
    <3>2. CASE ~(queue > 0)
      BY <2>2, <3>2 DEF PlayFrame, history
    <3> QED
      BY <3>1, <3>2
  <2>3. CASE Receives
    <3>1. UNCHANGED <<sent, played>> /\ reordered' \in BOOLEAN
      BY <2>3, ReceivesIs
    <3>2. ~reordered' => ~reordered
      BY <2>3, ReceivesIs DEF Fresh, Kept
    <3>3. CASE reordered' = TRUE
      BY <3>1, <3>3 DEF Channel!Next, Channel!Disorder
    <3>4. CASE reordered' = FALSE
      BY <3>1, <3>2, <3>4 DEF TypeOK
    <3> QED
      BY <3>1, <3>3, <3>4
  <2>4. CASE Lose \/ PutFrame \/ Stop \/ Decode \/ Queue \/ SetIdle \/ UNCHANGED vars
    BY <2>4 DEF Lose, PutFrame, Stop, Decode, Queue, SetIdle, rest, history, vars
  <2> QED
    BY <2>1, <2>2, <2>3, <2>4 DEF Next, Receives
<1> QED
  BY <1>1, <1>2, SourcedInvariance, PTL DEF Spec, PlayedForward, Channel!Spec

===============================================================================
