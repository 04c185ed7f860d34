------------------------------ MODULE VoiceCall -------------------------------
(* One direction of a call, put together from what its two halves promise:   *)
(* the way from the microphone to the network, which VoiceSending is shown   *)
(* to keep, and from the network to the speaker, which VoicePlayback is      *)
(* shown to keep. The halves share the packets: handing a frame to the       *)
(* network is the last step of the first half and the first of the second,   *)
(* and packet p carries the frame packets[p].                                *)
EXTENDS Naturals, Sequences, TLAPS

VARIABLES
    captured,   \* how many frames the microphone gave
    frame,      \* the frame that was sent last
    behind,     \* did the canceller once not keep up?
    packets,    \* the frames that were sent, one in each packet
    played,     \* the packet that was played last
    reordered   \* did the network deliver a packet after a later one?

micVars == <<captured, frame, behind>>
netVars == <<packets, played, reordered>>
vars == <<micVars, netVars>>

Mic == INSTANCE VoiceChannel
           WITH said <- captured, heard <- frame, disordered <- behind
Net == INSTANCE VoiceChannel
           WITH said <- Len(packets), heard <- played, disordered <- reordered

Init == Mic!Init /\ packets = <<>> /\ Net!Init

Capture == Mic!Say /\ UNCHANGED netVars

Transmit ==
    /\ Mic!Hear
    /\ packets' = Append(packets, frame')
    /\ UNCHANGED <<played, reordered>>

FallBehind == Mic!Disorder /\ UNCHANGED netVars

Play == UNCHANGED <<micVars, packets>> /\ Net!Hear

Reorder == UNCHANGED <<micVars, packets>> /\ Net!Disorder

Next == Capture \/ Transmit \/ FallBehind \/ Play \/ Reorder

Spec == Init /\ [][Next]_vars

(* What the far end hears of what the near end says: nothing that was not    *)
(* said, and nothing older than what it heard before, until the canceller    *)
(* did not keep up or the network reordered.                                 *)
audible == IF played = 0 THEN 0 ELSE packets[played]
Call == INSTANCE VoiceChannel
           WITH said <- captured, heard <- audible, disordered <- behind \/ reordered

-------------------------------------------------------------------------------
(* Every packet carries a frame that was captured, and until the canceller   *)
(* fell behind the frames in the packets never go back.                      *)
Typed ==
    /\ captured \in Nat /\ frame \in Nat /\ packets \in Seq(Nat)
    /\ behind \in BOOLEAN /\ reordered \in BOOLEAN
    /\ played \in 0..Len(packets)
Carried == \A p \in 1..Len(packets) : packets[p] \in 1..captured
Forward ==
    ~behind => \A p \in 1..Len(packets) :
                   /\ packets[p] <= frame
                   /\ \A q \in p..Len(packets) : packets[p] <= packets[q]
CallInv == Typed /\ Carried /\ Forward

(* In the first state nothing was captured, sent or played.                  *)
LEMMA InitCallInv == Init => CallInv
<1> SUFFICES ASSUME Init PROVE CallInv
  OBVIOUS
<1>1. /\ captured = 0 /\ frame = 0 /\ played = 0
      /\ behind \in BOOLEAN /\ reordered \in BOOLEAN
  BY Zenon DEF Init, Mic!Init, Net!Init
<1>2. packets \in Seq(Nat) /\ Len(packets) = 0
  BY DEF Init
<1>3. Typed
  BY <1>1, <1>2 DEF Typed
<1>4. Carried /\ Forward
  BY <1>2 DEF Carried, Forward
<1> QED
  BY <1>3, <1>4 DEF CallInv

(* No step of either half disturbs what the packets carry.                   *)
LEMMA CallInvNext == CallInv /\ [Next]_vars => CallInv'
<1> SUFFICES ASSUME CallInv, [Next]_vars PROVE CallInv'
  OBVIOUS
<1> USE DEF CallInv, Typed, Carried, Forward
<1>1. CASE Capture
  BY <1>1 DEF Capture, Mic!Say, netVars
<1>2. CASE Transmit
  <2>1. /\ captured' = captured /\ behind' = behind
        /\ played' = played /\ reordered' = reordered
        /\ frame' \in 1..captured /\ (~behind => frame' >= frame)
        /\ packets' = Append(packets, frame')
    BY <1>2 DEF Transmit, Mic!Hear
  <2>2. /\ packets' \in Seq(Nat) /\ Len(packets') = Len(packets) + 1
        /\ \A p \in 1..Len(packets) : packets'[p] = packets[p]
        /\ packets'[Len(packets) + 1] = frame'
    BY <2>1
  <2>3. Typed'
    BY <2>1, <2>2
  <2>4. Carried'
    BY <2>1, <2>2
  <2>5. Forward'
    <3>1. SUFFICES ASSUME ~behind, NEW p \in 1..(Len(packets) + 1)
                   PROVE /\ packets'[p] <= frame'
                         /\ \A q \in p..(Len(packets) + 1) : packets'[p] <= packets'[q]
      BY <2>1, <2>2
    <3>2. CASE p = Len(packets) + 1
      BY <2>1, <2>2, <3>2
    <3>3. CASE p \in 1..Len(packets)
      <4>1. packets'[p] = packets[p] /\ packets[p] <= frame /\ packets[p] \in Nat
        <5>1. packets'[p] = packets[p]
          BY ONLY <2>2, <3>3
        <5>2. packets[p] \in 1..captured
          BY <3>3
        <5>3. packets[p] <= frame
          BY <3>1, <3>3
        <5> QED
          BY <5>1, <5>2, <5>3
      <4>2. packets'[p] <= frame'
        BY <2>1, <3>1, <4>1
      <4>3. ASSUME NEW q \in p..(Len(packets) + 1) PROVE packets'[p] <= packets'[q]
        <5>1. CASE q = Len(packets) + 1
          BY <2>2, <4>2, <5>1
        <5>2. CASE q \in p..Len(packets)
          <6>1. packets[p] <= packets[q]
            <7>1. \A r \in p..Len(packets) : packets[p] <= packets[r]
              <8>1. \A s \in 1..Len(packets) :
                        \A r \in s..Len(packets) : packets[s] <= packets[r]
                BY <3>1, Zenon
              <8> QED
                BY ONLY <3>3, <8>1
            <7> QED
              BY ONLY <5>2, <7>1
          <6>2. Len(packets) \in Nat /\ q \in 1..Len(packets)
            BY <3>3, <5>2
          <6>3. packets'[q] = packets[q]
            BY ONLY <2>2, <6>2
          <6> QED
            BY <4>1, <6>1, <6>3
        <5> QED
          <6>1. Len(packets) \in Nat
            OBVIOUS
          <6> QED
            BY ONLY <3>3, <5>1, <5>2, <6>1, q \in p..(Len(packets) + 1)
      <4> QED
        BY <4>2, <4>3
    <3> QED
      BY <3>2, <3>3
  <2> QED
    BY <2>3, <2>4, <2>5
<1>3. CASE FallBehind
  BY <1>3 DEF FallBehind, Mic!Disorder, netVars
<1>4. CASE Play
  BY <1>4 DEF Play, Net!Hear, micVars
<1>5. CASE Reorder
  BY <1>5 DEF Reorder, Net!Disorder, micVars
<1>6. CASE UNCHANGED vars
  BY <1>6 DEF vars, micVars, netVars
<1> QED
  BY <1>1, <1>2, <1>3, <1>4, <1>5, <1>6 DEF Next

(* Every step of a half is a step of the call or not heard at its end.       *)
LEMMA CallStep ==
  CallInv /\ [Next]_vars => [Call!Next]_<<captured, audible, behind \/ reordered>>
<1> SUFFICES ASSUME CallInv, [Next]_vars
             PROVE [Call!Next]_<<captured, audible, behind \/ reordered>>
  OBVIOUS
<1> USE DEF CallInv, Typed
<1>1. CASE Capture
  BY <1>1 DEF Capture, Mic!Say, netVars, audible, Call!Next, Call!Say
<1>2. CASE Transmit
  <2>1. audible' = audible
    BY <1>2 DEF Transmit, Mic!Hear, audible
  <2> QED
    BY <1>2, <2>1 DEF Transmit, Mic!Hear
<1>3. CASE FallBehind
  BY <1>3 DEF FallBehind, Mic!Disorder, netVars, audible, Call!Next, Call!Disorder
<1>4. CASE Play
  <2>1. /\ played' \in 1..Len(packets) /\ (~reordered => played' >= played)
        /\ UNCHANGED <<captured, behind, reordered, packets>>
    BY <1>4 DEF Play, Net!Hear, micVars
  <2>2. audible' = packets[played'] /\ audible' \in 1..captured
    BY <2>1 DEF audible, Carried
  <2>3. ASSUME ~(behind \/ reordered) PROVE audible' >= audible
    BY <2>1, <2>2, <2>3 DEF audible, Forward
  <2> QED
    BY <2>1, <2>2, <2>3 DEF Call!Next, Call!Hear
<1>5. CASE Reorder
  BY <1>5 DEF Reorder, Net!Disorder, micVars, audible, Call!Next, Call!Disorder
<1>6. CASE UNCHANGED vars
  BY <1>6 DEF vars, micVars, netVars, audible
<1> QED
  BY <1>1, <1>2, <1>3, <1>4, <1>5, <1>6 DEF Next

(* The two halves of a call make one: together they keep from end to end     *)
(* what each of them promises, for any number of frames and packets. What    *)
(* LanAudioRecord sends and LanAudioPlay of the other phone plays is heard   *)
(* in the order it was said, except after one of the two disorders.          *)
THEOREM CallInOrder == Spec => Call!Spec
<1>1. Init => Call!Init
  BY DEF Init, Mic!Init, Net!Init, Call!Init, audible
<1> QED
  BY <1>1, InitCallInv, CallInvNext, CallStep, PTL DEF Spec, Call!Spec
===============================================================================
