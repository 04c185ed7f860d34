---------------------------- MODULE SpeexJniProofs ----------------------------
(***************************************************************************)
(* That the count of SpeexJni is exact and its states live as long as no   *)
(* open or close overlapped another, for any number of Codec objects.      *)
(*                                                                         *)
(* The invariants are not inductive: what is built or freed depends on the *)
(* count an open or close loaded, which is still the count when it is used *)
(* because nobody else was counting.  Exact adds that.                     *)
(***************************************************************************)
EXTENDS SpeexJni, FiniteSetTheorems, TLAPS

Alone == \A c, d \in Codecs : at[c] \in Counting /\ at[d] \in Counting => c = d

Loaded == \A c \in Codecs : at[c] \in {"opening", "closing"} => loaded[c] = codec_open

Building == \A c \in Codecs : at[c] = "building" => Users = {c} /\ states = "none"

Freeing == \A c \in Codecs : at[c] = "freeing" => Users = {} /\ states = "live"

Settled ==
    (\A c \in Codecs : at[c] \notin {"building", "freeing"}) =>
        (states = "live" <=> Users # {})

Exact ==
    ~raced => /\ Alone /\ Loaded /\ Building /\ Freeing /\ Settled
              /\ codec_open = Cardinality(Users)
              /\ \A c \in Codecs : at[c] # "silent"

IInv == TypeOK /\ Exact

-------------------------------------------------------------------------------
LEMMA InitIInv == Init => IInv
<1> SUFFICES ASSUME Init PROVE IInv
  OBVIOUS
<1>1. Users = {}
  BY DEF Init, Users
<1>2. Cardinality(Users) = 0
  BY <1>1, FS_EmptySet
<1>3. TypeOK
  <2>1. raced \in BOOLEAN
    BY Zenon DEF Init
  <2> QED
    BY <2>1 DEF Init, TypeOK
<1>4. Alone /\ Loaded /\ Building /\ Freeing /\ Settled
  BY <1>1 DEF Init, Alone, Loaded, Building, Freeing, Settled, Counting
<1> QED
  BY <1>1, <1>2, <1>3, <1>4 DEF Init, IInv, Exact

LEMMA UsersFinite == IsFiniteSet(Users) /\ Cardinality(Users) \in Nat
<1>1. IsFiniteSet(Codecs)
  BY CodecAssumption, FS_Union DEF Codecs
<1>2. Users \subseteq Codecs
  BY DEF Users
<1> QED
  BY <1>1, <1>2, FS_Subset, FS_CardinalityType

(* A step of one Codec object to or from the places the count stands for.   *)
LEMMA UsersMove ==
  ASSUME TypeOK, NEW c \in Codecs, NEW there, at' = [at EXCEPT ![c] = there]
  PROVE  /\ at'[c] = there
         /\ \A d \in Codecs : d # c => at'[d] = at[d]
         /\ Users' = IF there \in {"building", "open", "coding", "silent", "closing"}
                     THEN Users \cup {c} ELSE Users \ {c}
BY DEF TypeOK, Users

LEMMA TypeStep == TypeOK /\ Next => TypeOK'
<1> SUFFICES ASSUME TypeOK, NEW c \in Codecs,
                    \/ Open(c) \/ OpenStore(c) \/ OpenBuild(c) \/ Enter(c) \/ Leave(c)
                    \/ Close(c) \/ CloseStore(c) \/ CloseFree(c)
             PROVE  TypeOK'
  BY DEF Next
<1> USE DEF TypeOK, Goes, Load, Counting
<1>1. CASE Open(c)
  BY <1>1 DEF Open
<1>2. CASE OpenStore(c)
  BY <1>2 DEF OpenStore
<1>3. CASE OpenBuild(c)
  BY <1>3 DEF OpenBuild
<1>4. CASE Enter(c)
  BY <1>4 DEF Enter
<1>5. CASE Leave(c)
  BY <1>5 DEF Leave
<1>6. CASE Close(c)
  BY <1>6 DEF Close
<1>7. CASE CloseStore(c)
  BY <1>7 DEF CloseStore
<1>8. CASE CloseFree(c)
  BY <1>8 DEF CloseFree
<1> QED
  BY <1>1, <1>2, <1>3, <1>4, <1>5, <1>6, <1>7, <1>8

LEMMA ExactStep == IInv /\ Next => Exact'
<1> SUFFICES ASSUME TypeOK, Exact, ~raced', NEW c \in Codecs,
                    \/ Open(c) \/ OpenStore(c) \/ OpenBuild(c) \/ Enter(c) \/ Leave(c)
                    \/ Close(c) \/ CloseStore(c) \/ CloseFree(c)
             PROVE  /\ (Alone /\ Loaded /\ Building /\ Freeing /\ Settled)'
                    /\ codec_open' = Cardinality(Users')
                    /\ \A d \in Codecs : at'[d] # "silent"
  BY DEF Next, IInv, Exact
<1>0. ~raced
  BY Zenon DEF Open, Load, OpenStore, OpenBuild, Enter, Leave, Close, CloseStore, CloseFree
<1>a. /\ Alone /\ Loaded /\ Building /\ Freeing /\ Settled
      /\ codec_open = Cardinality(Users)
      /\ \A d \in Codecs : at[d] # "silent"
  BY <1>0 DEF Exact
<1>b. IsFiniteSet(Users) /\ Cardinality(Users) \in Nat
  BY UsersFinite
<1>c. Users = {} <=> codec_open = 0
  BY <1>a, <1>b, FS_EmptySet
<1>1. CASE Open(c)
  <2>1. /\ at[c] = "new" /\ at' = [at EXCEPT ![c] = "opening"]
        /\ loaded' = [loaded EXCEPT ![c] = codec_open]
        /\ \A d \in Codecs \ {c} : at[d] \notin Counting
        /\ UNCHANGED <<codec_open, states>>
    BY <1>1 DEF Open, Goes, Load
  <2>2. Users' = Users /\ at'[c] = "opening" /\ \A d \in Codecs : d # c => at'[d] = at[d]
    BY <2>1, UsersMove DEF Users
  <2> QED
    BY <1>a, <2>1, <2>2 DEF TypeOK, Alone, Loaded, Building, Freeing, Settled, Counting
<1>2. CASE OpenStore(c)
  <2>1. /\ at[c] = "opening"
        /\ at' = [at EXCEPT ![c] = IF loaded[c] = 0 THEN "building" ELSE "open"]
        /\ codec_open' = loaded[c] + 1
        /\ UNCHANGED <<states, loaded>>
    BY <1>2 DEF OpenStore, Goes
  <2>2. /\ c \notin Users /\ Users' = Users \cup {c}
        /\ at'[c] = IF loaded[c] = 0 THEN "building" ELSE "open"
        /\ \A d \in Codecs : d # c => at'[d] = at[d]
    BY <2>1, UsersMove DEF Users
  <2>3. loaded[c] = codec_open /\ codec_open' = codec_open + 1
    BY <1>a, <2>1 DEF Loaded
  <2>4. codec_open' = Cardinality(Users')
    BY <1>a, <1>b, <2>2, <2>3, FS_AddElement
  <2>5. \A d \in Codecs : d # c => at[d] \notin Counting
    BY <1>a, <2>1 DEF Alone, Counting
  <2>6. states = "live" <=> Users # {}
    BY <1>a, <2>1, <2>5 DEF Settled, Counting
  <2>7. (Alone /\ Loaded /\ Freeing)'
    BY <2>1, <2>2, <2>5 DEF Alone, Loaded, Freeing, Counting
  <2>8. (Building /\ Settled)'
    <3>1. CASE loaded[c] = 0
      BY <1>c, <2>1, <2>2, <2>3, <2>5, <2>6, <3>1 DEF TypeOK, Building, Settled, Counting
    <3>2. CASE loaded[c] # 0
      BY <1>c, <2>1, <2>2, <2>3, <2>5, <2>6, <3>2 DEF TypeOK, Building, Settled, Counting
    <3> QED
      BY <3>1, <3>2
  <2> QED
    BY <1>a, <2>2, <2>4, <2>7, <2>8
<1>3. CASE OpenBuild(c)
  <2>1. /\ at[c] = "building" /\ at' = [at EXCEPT ![c] = "open"]
        /\ states' = "live"
        /\ UNCHANGED <<codec_open, loaded>>
    BY <1>3 DEF OpenBuild, Goes
  <2>2. Users' = Users /\ at'[c] = "open" /\ \A d \in Codecs : d # c => at'[d] = at[d]
    BY <2>1, UsersMove DEF Users
  <2>3. Users = {c} /\ \A d \in Codecs : d # c => at[d] \notin Counting
    BY <1>a, <2>1 DEF Alone, Building, Counting
  <2> QED
    BY <1>a, <2>1, <2>2, <2>3 DEF TypeOK, Alone, Loaded, Building, Freeing, Settled, Counting
<1>4. CASE Enter(c) \/ Leave(c)
  <2>1. c \in Users
    BY <1>4 DEF Enter, Leave, Goes, Users
  <2>2. PICK there \in {"open", "coding"} : at' = [at EXCEPT ![c] = there]
    BY <1>4, <1>c, <2>1 DEF Enter, Leave, Goes
  <2>3. UNCHANGED <<codec_open, states, loaded>> /\ at[c] \in {"open", "coding", "silent"}
    BY <1>4 DEF Enter, Leave, Goes
  <2>4. Users' = Users /\ at'[c] = there /\ \A d \in Codecs : d # c => at'[d] = at[d]
    BY <2>1, <2>2, UsersMove DEF Users
  <2> QED
    BY <1>a, <2>2, <2>3, <2>4 DEF TypeOK, Alone, Loaded, Building, Freeing, Settled, Counting
<1>5. CASE Close(c)
  <2>1. /\ at[c] = "open" /\ at' = [at EXCEPT ![c] = "closing"]
        /\ loaded' = [loaded EXCEPT ![c] = codec_open]
        /\ \A d \in Codecs \ {c} : at[d] \notin Counting
        /\ UNCHANGED <<codec_open, states>>
    BY <1>5 DEF Close, Goes, Load
  <2>2. Users' = Users /\ at'[c] = "closing" /\ \A d \in Codecs : d # c => at'[d] = at[d]
    BY <2>1, UsersMove DEF Users
  <2> QED
    BY <1>a, <2>1, <2>2 DEF TypeOK, Alone, Loaded, Building, Freeing, Settled, Counting
<1>6. CASE CloseStore(c)
  <2>1. /\ at[c] = "closing"
        /\ at' = [at EXCEPT ![c] = IF loaded[c] = 1 THEN "freeing" ELSE "closed"]
        /\ codec_open' = loaded[c] - 1
        /\ UNCHANGED <<states, loaded>>
    BY <1>6 DEF CloseStore, Goes
  <2>2. /\ c \in Users /\ Users' = Users \ {c}
        /\ at'[c] = IF loaded[c] = 1 THEN "freeing" ELSE "closed"
        /\ \A d \in Codecs : d # c => at'[d] = at[d]
    <3>1. c \in Users
      BY <2>1 DEF Users
    <3>2. CASE loaded[c] = 1
      <4>1. at' = [at EXCEPT ![c] = "freeing"]
        BY <2>1, <3>2
      <4> QED
        BY <3>1, <3>2, <4>1, UsersMove
    <3>3. CASE loaded[c] # 1
      <4>1. at' = [at EXCEPT ![c] = "closed"]
        BY <2>1, <3>3
      <4> QED
        BY <3>1, <3>3, <4>1, UsersMove
    <3> QED
      BY <3>2, <3>3
  <2>3. loaded[c] = codec_open /\ codec_open' = codec_open - 1
    BY <1>a, <2>1 DEF Loaded
  <2>4. codec_open' = Cardinality(Users')
    BY <1>a, <1>b, <2>2, <2>3, FS_RemoveElement
  <2>5. \A d \in Codecs : d # c => at[d] \notin Counting
    BY <1>a, <2>1 DEF Alone, Counting
  <2>6. states = "live"
    BY <1>a, <2>1, <2>2, <2>5 DEF Settled, Counting
  <2>7. (Alone /\ Loaded /\ Building)'
    BY <2>1, <2>2, <2>5 DEF Alone, Loaded, Building, Counting
  <2>8. IsFiniteSet(Users')
    BY <1>b, <2>2, FS_RemoveElement
  <2>9. Users' = {} <=> codec_open' = 0
    BY <2>4, <2>8, FS_EmptySet
  <2>10. (Freeing /\ Settled)'
    <3>1. CASE loaded[c] = 1
      BY <2>1, <2>2, <2>3, <2>5, <2>6, <2>9, <3>1 DEF TypeOK, Freeing, Settled, Counting
    <3>2. CASE loaded[c] # 1
      <4>1. Users' # {}
        BY <2>1, <2>3, <2>9, <3>2 DEF TypeOK
      <4> QED
        BY <2>1, <2>2, <2>5, <2>6, <4>1, <3>2 DEF TypeOK, Freeing, Settled, Counting
    <3> QED
      BY <3>1, <3>2
  <2> QED
    BY <1>a, <2>2, <2>4, <2>7, <2>10
<1>7. CASE CloseFree(c)
  <2>1. /\ at[c] = "freeing" /\ at' = [at EXCEPT ![c] = "closed"]
        /\ states' = "none"
        /\ UNCHANGED <<codec_open, loaded>>
    BY <1>7 DEF CloseFree, Goes
  <2>2. Users' = Users /\ at'[c] = "closed" /\ \A d \in Codecs : d # c => at'[d] = at[d]
    BY <2>1, UsersMove DEF Users
  <2>3. Users = {} /\ \A d \in Codecs : d # c => at[d] \notin Counting
    BY <1>a, <2>1 DEF Alone, Freeing, Counting
  <2> QED
    BY <1>a, <2>1, <2>2, <2>3 DEF TypeOK, Alone, Loaded, Building, Freeing, Settled, Counting
<1> QED
  BY <1>1, <1>2, <1>3, <1>4, <1>5, <1>6, <1>7

LEMMA Inductive == IInv /\ [Next]_vars => IInv'
<1>1. CASE Next
  BY <1>1, TypeStep, ExactStep DEF IInv
<1>2. ASSUME IInv, UNCHANGED vars PROVE IInv'
  BY <1>2 DEF vars, IInv, TypeOK, Exact, Alone, Loaded, Building, Freeing, Settled, Users
<1> QED
  BY <1>1, <1>2

LEMMA Invariance == Spec => []IInv
BY InitIInv, Inductive, PTL DEF Spec

-------------------------------------------------------------------------------
(* The variables keep their types.                                          *)
THEOREM JniTypeCorrect == Spec => []TypeOK
<1>1. IInv => TypeOK
  BY DEF IInv
<1> QED
  BY <1>1, Invariance, PTL

(* However many Codec objects there are, codec_open counts those in use as  *)
(* long as no open or close overlapped another (speex_jni.cpp:35, 114).     *)
THEOREM CountCorrect == Spec => []CountExact
<1>1. IInv => CountExact
  BY DEF IInv, Exact, CountExact
<1> QED
  BY <1>1, Invariance, PTL

(* Under that condition nobody encodes or decodes with states that are not  *)
(* built yet or freed already (speex_jni.cpp:67, 93).                       *)
THEOREM StatesCorrect == Spec => []StatesLive
<1>1. IInv => StatesLive
  <2> SUFFICES ASSUME IInv, ~raced, NEW c \in Codecs, at[c] \in {"open", "coding"}
               PROVE  states = "live"
    BY DEF StatesLive
  <2>1. Building /\ Freeing /\ Settled /\ c \in Users
    BY DEF IInv, Exact, Users
  <2>2. \A d \in Codecs : at[d] \notin {"building", "freeing"}
    BY <2>1 DEF Building, Freeing
  <2> QED
    BY <2>1, <2>2 DEF Settled
<1> QED
  BY <1>1, Invariance, PTL

(* Under that condition states are built once per use of the library and    *)
(* freed once (speex_jni.cpp:41, 119).                                      *)
THEOREM NoLeakCorrect == Spec => []NoLeak
<1>1. IInv => NoLeak
  BY DEF IInv, Exact, Building, Freeing, NoLeak
<1> QED
  BY <1>1, Invariance, PTL

===============================================================================
