---------------------------- MODULE VoicePlayback ----------------------------
(***************************************************************************)
(* The receiving half of a call: the network, the playing thread           *)
(* (jay.media.LanAudioPlay over org.sipdroid.net.RtpSocket and RtpPacket)  *)
(* and the worker of its Decoder (jay.dencode.Decoder).                    *)
(*                                                                         *)
(* Packets are numbered 1, 2, ... in the order the peer sent them, and the *)
(* voice frame of a packet is its number; 0 is no frame.  The network may  *)
(* lose, duplicate and reorder packets.  Bytes have ByteMod values instead *)
(* of 256, and a gap above MaxGap stands for one above 100.                *)
(***************************************************************************)
EXTENDS Integers, FiniteSets

CONSTANTS
    ByteMod,    \* the number of values of a byte
    MaxGap,     \* the largest gap that lostandgood believes
    MaxGood,    \* the packets after which lostandgood averages
    Den,        \* averaging takes away the Den-th part of a count
    Unit,       \* the counts earlier calls have left are in 1/Unit
    MaxCarried, \* and up to this many of them (a bound)
    MaxSent,    \* how many packets the peer sends (a bound)
    Window,     \* how many packets are in flight at most (a bound)
    MaxDups,    \* how many packets the network duplicates (a bound)
    Starts      \* the random sequence numbers to start from

ASSUME PlaybackAssumption ==
    /\ ByteMod \in Nat \ {0} /\ MaxGap \in 1..(ByteMod - 1)
    /\ MaxGood \in Nat /\ Den \in Nat /\ Den > 1
    /\ Unit \in Nat \ {0} /\ MaxCarried \in Nat
    /\ MaxSent \in Nat /\ Window \in Nat /\ MaxDups \in Nat
    /\ Starts \subseteq 0..(ByteMod * ByteMod - 1)

VARIABLES
    start, sent, net, dups,     \* the peer and the network
    phase,      \* where the playing thread is
    buf,        \* rtp_packet: what its buffer holds
    currentseq, \* currentseq
    lost, good, \* the statics lost and good, counted in 1/unit
    unit,       \* the fraction they are counted in
    work,       \* where the Decoder's worker is
    slot,       \* the Decoder's rawdata: a frame, or 0 when idle
    pcm,        \* the frame in the one array processedData
    queue,      \* the size of m_out_q, all of whose elements are that array
    given, played,              \* history: the frames put and played last
    newest,     \* history: the newest packet received
    accepted,   \* history: the packet accounted for last
    missing,    \* history: lost, had it been given every packet skipped
                \* between two of those, and been left alone (in 1/unit)
    reordered,  \* history: did an older packet arrive after a newer one?
    blurred,    \* history: did a gap defeat the count of lost packets?
    phantom     \* history: was a header accounted for that never arrived?

history == <<newest, accepted, missing, reordered, blurred, phantom>>
counts == <<currentseq, lost, good, unit>>
vars == <<start, sent, net, dups, phase, buf, currentseq, lost, good, unit,
          work, slot, pcm, queue, given, played,
          newest, accepted, missing, reordered, blurred, phantom>>

Packets == 1..MaxSent

-------------------------------------------------------------------------------
(* The sequence number in the header: setInt stores the two low bytes and   *)
(* getInt puts them together again.                                         *)
SetInt(n) == <<(n \div ByteMod) % ByteMod, n % ByteMod>>
GetInt(bytes) == bytes[1] * ByteMod + bytes[2]
SeqOf(p) == GetInt(SetInt(start + p - 1))

(* (Variant used as a mutant: the expected number is not advanced.)         *)
Gap_Late(seq) ==
    LET gap == (seq - currentseq) % ByteMod
    IN  IF gap > MaxGap THEN 1 ELSE gap

(* lostandgood compares the low bytes, and takes a large gap for one packet.*)
Gap(seq) ==
    LET gap == (seq - (currentseq + 1)) % ByteMod
    IN  IF gap > MaxGap THEN 1 ELSE gap

-------------------------------------------------------------------------------
TypeOK ==
    /\ start \in Starts /\ sent \in 0..MaxSent /\ net \subseteq Packets /\ dups \in Nat
    /\ phase \in {"first", "drain", "receive", "put", "take", "done"}
    /\ buf \in [seq : Int, frame : Packets \cup {0}]
    /\ currentseq \in Int /\ lost \in Nat /\ good \in Nat /\ unit \in Nat \ {0}
    /\ missing \in Int
    /\ work \in {"wait", "queue", "idle"}
    /\ slot \in Packets \cup {0} /\ pcm \in Packets \cup {0} /\ queue \in Nat
    /\ given \in Packets \cup {0} /\ played \in Packets \cup {0}
    /\ newest \in Packets \cup {0} /\ accepted \in Packets \cup {0}
    /\ reordered \in BOOLEAN /\ blurred \in BOOLEAN /\ phantom \in BOOLEAN

(* A new RtpPacket has a random sequence number and no payload; the static  *)
(* counts are those the earlier calls have left.                            *)
Init ==
    /\ start \in Starts /\ sent = 0 /\ net = {} /\ dups = 0
    /\ phase = "first"
    /\ buf \in [seq : Starts, frame : {0}]
    /\ currentseq = 0 /\ unit = Unit
    /\ good \in 0..MaxCarried /\ lost \in 0..good
    /\ work = "wait" /\ slot = 0 /\ pcm = 0 /\ queue = 0
    /\ given = 0 /\ played = 0
    /\ newest = 0 /\ accepted = 0 /\ missing = lost
    /\ reordered = FALSE /\ blurred = FALSE /\ phantom = FALSE

-------------------------------------------------------------------------------
(* The peer and the network.                                                *)
Send ==
    /\ sent < MaxSent /\ Cardinality(net) < Window
    /\ sent' = sent + 1
    /\ net' = net \cup {sent + 1}
    /\ UNCHANGED <<start, dups, phase, buf, counts, work, slot, pcm, queue,
                   given, played, history>>

Lose ==
    /\ \E p \in net : net' = net \ {p}
    /\ UNCHANGED <<start, sent, dups, phase, buf, counts, work, slot, pcm,
                   queue, given, played, history>>

(* rtp_socket.receive: a packet, of which the network may keep a copy.      *)
Receive(p) ==
    /\ p \in net
    /\ \/ net' = net \ {p} /\ UNCHANGED dups
       \/ dups < MaxDups /\ dups' = dups + 1 /\ UNCHANGED net
    /\ buf' = [seq |-> SeqOf(p), frame |-> p]
    /\ newest' = IF p > newest THEN p ELSE newest
    /\ reordered' = (reordered \/ p < newest)
    /\ UNCHANGED <<start, sent>>

(* rtp_socket.receive: an IOException, such as the timeout that empty() of  *)
(* this or an earlier call left on the socket.  The buffer is as it was.    *)
ReceiveFails == UNCHANGED <<start, sent, net, dups, buf, newest, reordered>>

-------------------------------------------------------------------------------
(* The playing thread: the first packet starts the track and is dropped     *)
(* with all that already arrived.                                           *)
FirstReceive ==
    /\ phase = "first"
    /\ (\E p \in Packets : Receive(p)) \/ ReceiveFails
    /\ phase' = "drain"
    /\ UNCHANGED <<counts, work, slot, pcm, queue, given, played, accepted,
                   missing, blurred, phantom>>

Empty ==
    /\ phase = "drain"
    /\ \/ (\E p \in Packets : Receive(p)) /\ UNCHANGED <<phase, currentseq>>
       \/ ReceiveFails /\ phase' = "receive" /\ currentseq' = 0
    /\ UNCHANGED <<lost, good, unit, work, slot, pcm, queue, given, played, accepted,
                   missing, blurred, phantom>>

(* lostandgood.  The first packet of a call is not counted; above MaxGood   *)
(* both counts lose their Den-th part at every packet.                      *)
LostAndGood(seq, frame) ==
    LET skipped == frame - accepted - 1
        gap     == Gap(seq)
        lost1   == lost + gap * unit
        good1   == good + (IF gap > 0 THEN gap ELSE 1) * unit
        miss1   == IF accepted = 0 \/ frame = 0 THEN missing
                   ELSE missing + skipped * unit
    IN  /\ \/ /\ currentseq = 0
              /\ missing' = miss1
              /\ UNCHANGED <<lost, good, unit>>
           \/ /\ currentseq # 0 /\ good1 <= MaxGood * unit
              /\ lost' = lost1 /\ good' = good1 /\ missing' = miss1
              /\ UNCHANGED unit
           \/ /\ currentseq # 0 /\ good1 > MaxGood * unit
              /\ lost' = (Den - 1) * lost1 /\ good' = (Den - 1) * good1
              /\ missing' = Den * miss1
              /\ unit' = Den * unit
        /\ currentseq' = seq
        /\ accepted' = frame
        /\ blurred' = (blurred \/ (accepted # 0 /\ skipped > 0
                                    /\ (skipped > MaxGap \/ currentseq = 0)))
        /\ phantom' = (phantom \/ frame = 0)

(* (Variant used as a mutant: a repeated number is not skipped.)            *)
LoopReceive_Repeated ==
    /\ phase = "receive"
    /\ (\E p \in Packets : Receive(p)) \/ ReceiveFails
    /\ phase' = "put"
    /\ LostAndGood(buf'.seq, buf'.frame)
    /\ UNCHANGED <<work, slot, pcm, queue, given, played>>

(* A failed receive leaves the previous packet in the buffer, whose number  *)
(* is skipped like that of a duplicate.                                     *)
LoopReceive ==
    /\ phase = "receive"
    /\ (\E p \in Packets : Receive(p)) \/ ReceiveFails
    /\ IF buf'.seq = currentseq
       THEN UNCHANGED <<phase, counts, accepted, missing, blurred, phantom>>
       ELSE phase' = "put" /\ LostAndGood(buf'.seq, buf'.frame)
    /\ UNCHANGED <<work, slot, pcm, queue, given, played>>

(* A frame for a busy Decoder is dropped, and one without payload leaves it *)
(* idle.                                                                    *)
PutFrame ==
    /\ phase = "put"
    /\ phase' = "take"
    /\ IF slot = 0 /\ buf.frame # 0
       THEN slot' = buf.frame /\ given' = buf.frame
       ELSE UNCHANGED <<slot, given>>
    /\ UNCHANGED <<start, sent, net, dups, buf, counts, work, pcm, queue,
                   played, history>>

(* (Variant used as a mutant: getFirst() instead of removeFirst().)         *)
PlayFrame_Kept ==
    /\ phase = "take"
    /\ phase' = "receive"
    /\ played' = IF queue > 0 THEN pcm ELSE played
    /\ UNCHANGED <<start, sent, net, dups, buf, counts, work, slot, pcm,
                   queue, given, history>>

(* (Variant used as a mutant: isGetData() is not asked.)                    *)
PlayFrame_Unasked ==
    /\ phase = "take"
    /\ phase' = "receive"
    /\ queue' = queue - 1 /\ played' = pcm
    /\ UNCHANGED <<start, sent, net, dups, buf, counts, work, slot, pcm,
                   given, history>>

(* getData().clone() and write.  A clone during a decode has parts of two   *)
(* frames and counts as the older one.                                      *)
PlayFrame ==
    /\ phase = "take"
    /\ phase' = "receive"
    /\ IF queue > 0
       THEN queue' = queue - 1 /\ played' = pcm
       ELSE UNCHANGED <<queue, played>>
    /\ UNCHANGED <<start, sent, net, dups, buf, counts, work, slot, pcm,
                   given, history>>

(* while (Thread.currentThread() == runner).                                *)
Stop ==
    /\ phase = "receive"
    /\ phase' = "done"
    /\ UNCHANGED <<start, sent, net, dups, buf, counts, work, slot, pcm,
                   queue, given, played, history>>

-------------------------------------------------------------------------------
(* The Decoder's worker, in its synchronized block: decode into the array,  *)
(* queue the array, setIdle.                                                *)
Works(here, there) == work = here /\ work' = there
rest == <<start, sent, net, dups, phase, buf, counts, given, played, history>>

(* (Variant used as a mutant: a decode that fails clears the array.)        *)
Decode_Cleared ==
    /\ Works("wait", "queue")
    /\ slot # 0
    /\ pcm' \in {slot, 0}
    /\ UNCHANGED <<slot, queue, rest>>

Decode ==
    /\ Works("wait", "queue")
    /\ slot # 0
    /\ pcm' = slot
    /\ UNCHANGED <<slot, queue, rest>>

Queue ==
    /\ Works("queue", "idle")
    /\ queue' = queue + 1
    /\ UNCHANGED <<slot, pcm, rest>>

SetIdle ==
    /\ Works("idle", "wait")
    /\ slot' = 0
    /\ UNCHANGED <<pcm, queue, rest>>

Next ==
    \/ Send \/ Lose
    \/ FirstReceive \/ Empty \/ LoopReceive \/ PutFrame \/ PlayFrame \/ Stop
    \/ Decode \/ Queue \/ SetIdle

Spec == Init /\ [][Next]_vars

-------------------------------------------------------------------------------
(* Unless the network reorders, the Decoder never gets a frame twice or     *)
(* after a newer one, whatever is lost, duplicated or timed out.            *)
GivenForward == [][slot = 0 /\ slot' # 0 /\ ~reordered' => slot' > given]_vars

(* Nor is anything played that is older than what was played before,        *)
(* although all results share one array, and nothing that was not sent.     *)
Channel == INSTANCE VoiceChannel WITH said <- sent, heard <- played, disordered <- reordered
PlayedForward == Channel!Spec

(* When the thread waits for a packet at most one result is queued or in    *)
(* the making.                                                              *)
Pending == queue + (IF slot # 0 /\ work # "idle" THEN 1 ELSE 0)
QueueBound == /\ Pending <= 2
              /\ phase \in {"first", "drain", "receive"} => Pending <= 1

(* The count of lost packets is a share of the good ones, at every packet   *)
(* of every call.  Without reordering it never exceeds what earlier calls   *)
(* left and the packets that are missing since, averaged or not; and it is  *)
(* exactly that until the averaging starts, unless a gap was too large,     *)
(* followed the number 0, or a header was accounted for that no packet      *)
(* brought.                                                                 *)
LostCount ==
    /\ lost <= good
    /\ ~reordered /\ ~phantom => /\ lost <= missing
                                 /\ ~blurred /\ unit = Unit => lost = missing

===============================================================================
