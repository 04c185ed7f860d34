------------------------------- MODULE SpeexJni -------------------------------
(***************************************************************************)
(* The native side of the Speex codec (jni/speex_jni.cpp; g722_jni.cpp     *)
(* counts the same way): one encoder state and one decoder state for the   *)
(* whole process, shared by every Codec object and counted by codec_open.  *)
(* Nothing locks the count: an open or close loads it, stores it, and then *)
(* builds or frees the states, and another Java thread may come between    *)
(* any two of these steps.                                                 *)
(*                                                                         *)
(* A Codec object is used by one thread at a time: its Encoder is          *)
(* constructed by a capture thread and then used by its own worker.        *)
(***************************************************************************)
EXTENDS Integers, FiniteSets

CONSTANTS
    Encoders,       \* Codec objects of Encoders, closed when the worker ends
    Decoders        \* Codec objects of Decoders, which nothing ever closes

ASSUME CodecAssumption ==
    IsFiniteSet(Encoders) /\ IsFiniteSet(Decoders) /\ Encoders \cap Decoders = {}

Codecs == Encoders \cup Decoders

VARIABLES
    codec_open,     \* codec_open
    states,         \* enc_state, dec_state and the two bit buffers
    at,             \* where the user of each Codec object is
    loaded,         \* the count it loaded last
    raced           \* history: did two opens or closes ever overlap?

vars == <<codec_open, states, at, loaded, raced>>

Counting == {"opening", "building", "closing", "freeing"}

TypeOK ==
    /\ codec_open \in Int
    /\ states \in {"none", "live"}
    /\ at \in [Codecs -> {"new", "open", "coding", "silent", "closed"} \cup Counting]
    /\ loaded \in [Codecs -> Int]
    /\ raced \in BOOLEAN

Init ==
    /\ codec_open = 0
    /\ states = "none"
    /\ at = [c \in Codecs |-> "new"]
    /\ loaded = [c \in Codecs |-> 0]
    /\ raced = FALSE

Goes(c, here, there) == at[c] = here /\ at' = [at EXCEPT ![c] = there]

(* codec_open++ and --codec_open begin with a load.                         *)
Load(c) ==
    /\ loaded' = [loaded EXCEPT ![c] = codec_open]
    /\ raced' = (raced \/ \E d \in Codecs \ {c} : at[d] \in Counting)
    /\ UNCHANGED <<codec_open, states>>

Open(c) == Goes(c, "new", "opening") /\ Load(c)

(* (Variant used as a mutant: only the first open is counted.)              *)
OpenStore_FirstOnly(c) ==
    /\ Goes(c, "opening", IF loaded[c] = 0 THEN "building" ELSE "open")
    /\ codec_open' = 1
    /\ UNCHANGED <<states, loaded, raced>>

(* if (codec_open++ != 0) return: only the first open builds the states.    *)
OpenStore(c) ==
    /\ Goes(c, "opening", IF loaded[c] = 0 THEN "building" ELSE "open")
    /\ codec_open' = loaded[c] + 1
    /\ UNCHANGED <<states, loaded, raced>>

OpenBuild(c) ==
    /\ Goes(c, "building", "open")
    /\ states' = "live"
    /\ UNCHANGED <<codec_open, loaded, raced>>

(* encode and decode test the count once and then use the states.           *)
Enter(c) ==
    /\ Goes(c, "open", IF codec_open = 0 THEN "silent" ELSE "coding")
    /\ UNCHANGED <<codec_open, states, loaded, raced>>

Leave(c) ==
    /\ Goes(c, "coding", "open") \/ Goes(c, "silent", "open")
    /\ UNCHANGED <<codec_open, states, loaded, raced>>

Close(c) == c \in Encoders /\ Goes(c, "open", "closing") /\ Load(c)

(* (Variant used as a mutant: the count before the decrement is tested.)    *)
CloseStore_PostDecrement(c) ==
    /\ Goes(c, "closing", IF loaded[c] = 0 THEN "freeing" ELSE "closed")
    /\ codec_open' = loaded[c] - 1
    /\ UNCHANGED <<states, loaded, raced>>

(* if (--codec_open != 0) return: only the last close frees the states.     *)
CloseStore(c) ==
    /\ Goes(c, "closing", IF loaded[c] = 1 THEN "freeing" ELSE "closed")
    /\ codec_open' = loaded[c] - 1
    /\ UNCHANGED <<states, loaded, raced>>

(* (Variant used as a mutant: the freed states stay referenced.)            *)
CloseFree_Dangling(c) ==
    /\ Goes(c, "freeing", "closed")
    /\ states' = "freed"
    /\ UNCHANGED <<codec_open, loaded, raced>>

CloseFree(c) ==
    /\ Goes(c, "freeing", "closed")
    /\ states' = "none"
    /\ UNCHANGED <<codec_open, loaded, raced>>

Next ==
    \E c \in Codecs : \/ Open(c) \/ OpenStore(c) \/ OpenBuild(c) \/ Enter(c) \/ Leave(c)
                      \/ Close(c) \/ CloseStore(c) \/ CloseFree(c)

Spec == Init /\ [][Next]_vars

-------------------------------------------------------------------------------
(* The Codec objects the count stands for.                                  *)
Users == {c \in Codecs : at[c] \in {"building", "open", "coding", "silent", "closing"}}

(* Unless opens or closes overlapped, the count is that of the Codec        *)
(* objects in use, so that encode and decode never find it at zero.         *)
CountExact ==
    ~raced => /\ codec_open = Cardinality(Users)
              /\ \A c \in Codecs : at[c] # "silent"

(* Under the same condition a Codec object in use has states: they are not  *)
(* freed under an encode or decode, nor by one call's end for the next.     *)
StatesLive ==
    ~raced => \A c \in Codecs : at[c] \in {"open", "coding"} => states = "live"

(* Under the same condition no open builds over live states, which would    *)
(* leak them, and no close frees states that are not there.                 *)
NoLeak ==
    ~raced => \A c \in Codecs : /\ at[c] = "building" => states = "none"
                                /\ at[c] = "freeing" => states = "live"

===============================================================================
