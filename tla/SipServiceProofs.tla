--------------------------- MODULE SipServiceProofs ---------------------------
(* Theorems about SipService, for every set of INVITEs and transactions.    *)
EXTENDS SipService, TLAPS

(* SipService keeps its fields, its numbers and the stack's records in the  *)
(* sets TypeOK gives.                                                       *)
LEMMA OpenedType ==
    ASSUME NEW f \in [Txs -> TxRecord], NEW t \in Txs, NEW m \in Methods,
           NEW c \in Txs \cup {None}, NEW n \in Nat, NEW p \in Phases
    PROVE  Opened(f, t, m, c, n, p) \in [Txs -> TxRecord]
  BY DEF Opened, TxRecord

LEMMA MovedType ==
    ASSUME TypeOK, NEW t \in Txs, NEW p \in Phases
    PROVE  Moved(t, p) \in [Txs -> TxRecord]
  BY DEF Moved, TypeOK, TxRecord

LEMMA FreshType == Fresh \subseteq Txs
  BY DEF Fresh

LEMMA ResetType ==
    ASSUME TypeOK, Reset
    PROVE  /\ handler' \in BOOLEAN
           /\ state' \in States
           /\ session' \in Calls \cup {None}
           /\ contact' \in BOOLEAN
           /\ request' \in Invites \cup {None}
           /\ serverTx' \in Invites \cup {None}
           /\ clientTx' \in Txs \cup {None}
           /\ dialog' \in Calls \cup {None}
           /\ callID' \in Txs \cup {None}
           /\ callSeq' \in Nat \ {0}
           /\ stale' \in BOOLEAN
<1>1. handler' \in BOOLEAN /\ contact' \in BOOLEAN /\ stale' \in BOOLEAN
  BY Zenon DEF TypeOK, Reset
<1>2. callSeq' \in Nat \ {0} /\ state' \in States
  BY DEF Reset, States
<1>3. QED
  BY <1>1, <1>2, Zenon DEF Reset

LEMMA RegisterType ==
    ASSUME TypeOK, NEW f \in [Txs -> TxRecord], RegisterSent(f) \/ RegisterFailed(f)
    PROVE  tx' \in [Txs -> TxRecord] /\ clientTx' \in Txs \cup {None}
<1>1. CASE tx' = f /\ UNCHANGED clientTx
  BY <1>1 DEF TypeOK
<1>2. ASSUME NEW t \in Fresh, NEW p \in {"open", "closed"},
             tx' = Opened(f, t, "REGISTER", t, callSeq, p), clientTx' = t
      PROVE  tx' \in [Txs -> TxRecord] /\ clientTx' \in Txs \cup {None}
  <2>1. t \in Txs /\ callSeq \in Nat /\ p \in Phases /\ "REGISTER" \in Methods
    BY FreshType DEF TypeOK, Phases, Methods
  <2>2. Opened(f, t, "REGISTER", t, callSeq, p) \in [Txs -> TxRecord]
    BY <2>1, OpenedType
  <2>3. QED
    BY <1>2, <2>1, <2>2
<1>3. QED
  BY <1>1, <1>2 DEF RegisterSent, RegisterFailed

LEMMA InviteType ==
    ASSUME TypeOK, NEW f \in [Txs -> TxRecord], NEW retry \in BOOLEAN,
           InviteSent(f, retry) \/ InviteFailed(f, retry)
    PROVE  /\ tx' \in [Txs -> TxRecord]
           /\ clientTx' \in Txs \cup {None}
           /\ callID' \in Txs \cup {None}
           /\ dialog' \in Calls \cup {None}
<1>1. CASE tx' = f /\ UNCHANGED <<callID, clientTx, dialog>>
  BY <1>1 DEF TypeOK
<1>2. ASSUME NEW t \in Fresh, NEW p \in {"open", "closed"},
             callID' = callID \/ callID' = t,
             tx' = Opened(f, t, "INVITE", callID', callSeq, p),
             clientTx' \in {clientTx, t},
             dialog' \in {dialog, t}
      PROVE  /\ tx' \in [Txs -> TxRecord]
             /\ clientTx' \in Txs \cup {None}
             /\ callID' \in Txs \cup {None}
             /\ dialog' \in Calls \cup {None}
  <2>1. /\ t \in Txs /\ callSeq \in Nat /\ p \in Phases /\ "INVITE" \in Methods
        /\ callID' \in Txs \cup {None}
    BY <1>2, FreshType DEF TypeOK, Phases, Methods
  <2>2. Opened(f, t, "INVITE", callID', callSeq, p) \in [Txs -> TxRecord]
    BY <2>1, OpenedType
  <2>3. QED
    BY <1>2, <2>1, <2>2 DEF TypeOK, Calls
<1>3. CASE InviteSent(f, retry)
  BY <1>2, <1>3 DEF InviteSent
<1>4. CASE InviteFailed(f, retry)
  BY <1>1, <1>2, <1>4 DEF InviteFailed
<1>5. QED
  BY <1>3, <1>4

LEMMA ReplyType ==
    ASSUME TypeOK, NEW inv \in [Invites -> InviteStatus], NEW i \in Invites,
           NEW answer \in InviteStatus,
           Reply(inv, i, answer) \/ ReplyThrows(inv, i)
    PROVE  invite' \in [Invites -> InviteStatus] /\ serverTx' \in Invites \cup {None}
<1>1. Slot(i) \in Invites
  BY DEF Slot, TypeOK
<1>2. Replied(inv, i, answer) \in [Invites -> InviteStatus]
  BY DEF Replied
<1>3. CASE Reply(inv, i, answer)
  BY <1>2, <1>3 DEF Reply
<1>4. CASE ReplyThrows(inv, i)
  BY <1>1, <1>4 DEF ReplyThrows, TypeOK
<1>5. QED
  BY <1>3, <1>4

LEMMA UserType ==
    ASSUME TypeOK, User
    PROVE  TypeOK'
<1>1. CASE CreateInstance
  BY <1>1 DEF CreateInstance, TypeOK, States, calls
<1>2. CASE RegisterProfile \/ UnregisterProfile
  <2>1. tx' \in [Txs -> TxRecord] /\ clientTx' \in Txs \cup {None}
    BY <1>2, RegisterType DEF RegisterProfile, UnregisterProfile, Registration, TypeOK
  <2>2. QED
    BY <1>2, <2>1
       DEF RegisterProfile, UnregisterProfile, Registration, TypeOK, States
<1>3. CASE SendInvite
  <2>1. /\ tx' \in [Txs -> TxRecord]
        /\ clientTx' \in Txs \cup {None}
        /\ callID' \in Txs \cup {None}
        /\ dialog' \in Calls \cup {None}
    BY <1>3, InviteType DEF SendInvite, TypeOK
  <2>2. QED
    BY <1>3, <2>1 DEF SendInvite, TypeOK, States
<1>4. CASE AcceptCall
  <2>1. invite' \in [Invites -> InviteStatus] /\ serverTx' \in Invites \cup {None}
    BY <1>4, ReplyType DEF AcceptCall, TypeOK, InviteStatus
  <2>2. QED
    BY <1>4, <2>1 DEF AcceptCall, TypeOK, service
<1>5. CASE DeclineCall
  <2>1. CASE /\ invite' = IF request = None THEN invite
                          ELSE Replied(invite, request, "declined")
             /\ Reset
    <3>1. invite' \in [Invites -> InviteStatus]
      BY <2>1 DEF TypeOK, Replied, InviteStatus
    <3>2. QED
      BY <1>5, <2>1, <3>1, ResetType DEF DeclineCall, TypeOK
  <2>2. CASE /\ request # None
             /\ ReplyThrows(invite, request)
             /\ UNCHANGED <<service, clientTx, dialog, callID, callSeq, stale>>
    <3>1. invite' \in [Invites -> InviteStatus] /\ serverTx' \in Invites \cup {None}
      BY <2>2, ReplyType DEF TypeOK, InviteStatus
    <3>2. QED
      BY <1>5, <2>2, <3>1 DEF DeclineCall, TypeOK, service
  <2>3. QED
    BY <1>5, <2>1, <2>2 DEF DeclineCall
<1>6. CASE HangUp
  <2>1. PICK t \in Fresh :
          LET sent == Opened(tx, t, "BYE", None, 0, "open")
          IN  IF dialog \in Txs
              THEN /\ tx' = [sent EXCEPT ![dialog].phase = "ended"]
                   /\ UNCHANGED invite
              ELSE /\ tx' = sent
                   /\ invite' = [invite EXCEPT ![dialog] = "ended"]
    BY <1>6 DEF HangUp
  <2>2. Opened(tx, t, "BYE", None, 0, "open") \in [Txs -> TxRecord]
    BY <2>1, OpenedType, FreshType DEF TypeOK, Methods, Phases
  <2>3. tx' \in [Txs -> TxRecord]
    BY <2>1, <2>2 DEF TxRecord, Phases
  <2>4. invite' \in [Invites -> InviteStatus]
    BY <2>1 DEF TypeOK, InviteStatus
  <2>5. QED
    BY <1>6, <2>3, <2>4, ResetType DEF HangUp, TypeOK
<1>7. CASE Cancel
  <2>1. PICK t \in Fresh :
          \/ /\ tx' = Opened(tx, t, "CANCEL", None, 0, "open")
             /\ Reset
          \/ /\ tx' = Opened(tx, t, "CANCEL", None, 0, "closed")
             /\ clientTx' = t
             /\ UNCHANGED <<service, serverTx, dialog, callID, callSeq, stale>>
    BY <1>7 DEF Cancel
  <2>2. tx' \in [Txs -> TxRecord]
    <3>1. /\ Opened(tx, t, "CANCEL", None, 0, "open") \in [Txs -> TxRecord]
          /\ Opened(tx, t, "CANCEL", None, 0, "closed") \in [Txs -> TxRecord]
      BY OpenedType, FreshType DEF TypeOK, Methods, Phases
    <3>2. QED
      BY <2>1, <3>1
  <2>3. QED
    BY <1>7, <2>1, <2>2, ResetType, FreshType DEF Cancel, TypeOK, service
<1>8. CASE ConfirmStateAndReset
  BY <1>8, ResetType DEF ConfirmStateAndReset, TypeOK
<1>9. QED
  BY <1>1, <1>2, <1>3, <1>4, <1>5, <1>6, <1>7, <1>8 DEF User

LEMMA ArrivedType ==
    ASSUME TypeOK, NEW i \in Invites
    PROVE  Arrived(i) \in [Invites -> InviteStatus]
  BY DEF Arrived, TypeOK, InviteStatus

LEMMA RequestType ==
    ASSUME TypeOK, ProcessRequest
    PROVE  TypeOK'
<1>1. ASSUME NEW i \in Invites, RecvInviteBusy(i)
      PROVE  TypeOK'
  <2>1. invite' \in [Invites -> InviteStatus] /\ serverTx' \in Invites \cup {None}
    BY <1>1, ArrivedType, ReplyType DEF RecvInviteBusy, InviteStatus
  <2>2. QED
    BY <1>1, <2>1 DEF RecvInviteBusy, Keeps, TypeOK, States
<1>2. ASSUME NEW i \in Invites, RecvInviteUnusable(i)
      PROVE  TypeOK'
  BY <1>2 DEF RecvInviteUnusable, Keeps, TypeOK, States, InviteStatus
<1>3. ASSUME NEW i \in Invites, RecvInviteNoCodec(i)
      PROVE  TypeOK'
  <2>1. invite' \in [Invites -> InviteStatus] /\ serverTx' \in Invites \cup {None}
    <3>1. CASE request = None
      BY <1>3, <3>1, ArrivedType DEF RecvInviteNoCodec, TypeOK
    <3>2. CASE request # None
      <4>1. request \in Invites
        BY <3>2 DEF TypeOK
      <4>2. QED
        BY <1>3, <3>2, <4>1, ArrivedType, ReplyType
           DEF RecvInviteNoCodec, InviteStatus
    <3>3. QED
      BY <3>1, <3>2
  <2>2. QED
    BY <1>3, <2>1 DEF RecvInviteNoCodec, Keeps, TypeOK, States
<1>4. ASSUME NEW i \in Invites, RecvInviteForUs(i)
      PROVE  TypeOK'
  <2>1. invite' \in [Invites -> InviteStatus] /\ serverTx' \in Invites \cup {None}
    BY <1>4, ArrivedType, ReplyType DEF RecvInviteForUs, InviteStatus
  <2>2. QED
    BY <1>4, <2>1 DEF RecvInviteForUs, Keeps, TypeOK, States, Calls
<1>5. ASSUME NEW i \in Invites, RecvInviteNotFound(i)
      PROVE  TypeOK'
  <2>1. invite' \in [Invites -> InviteStatus] /\ serverTx' \in Invites \cup {None}
    BY <1>5, ArrivedType, ReplyType DEF RecvInviteNotFound, InviteStatus
  <2>2. QED
    BY <1>5, <2>1 DEF RecvInviteNotFound, Keeps, TypeOK, States, Calls
<1>6. ASSUME NEW i \in Invites, RecvCancel(i)
      PROVE  TypeOK'
  <2>1. invite' \in [Invites -> InviteStatus] /\ tx' \in [Txs -> TxRecord]
    BY <1>6 DEF RecvCancel, TypeOK, InviteStatus
  <2>2. QED
    BY <1>6, <2>1, ResetType DEF RecvCancel, TypeOK
<1>7. ASSUME NEW i \in Invites, RecvAck(i)
      PROVE  TypeOK'
  BY <1>7 DEF RecvAck, TypeOK, InviteStatus, States, Calls
<1>8. CASE RecvBye
  <2>1. invite' \in [Invites -> InviteStatus]
    BY <1>8 DEF RecvBye, TypeOK, InviteStatus
  <2>2. tx' \in [Txs -> TxRecord]
    BY <1>8 DEF RecvBye, TypeOK, TxRecord, Phases
  <2>3. QED
    BY <1>8, <2>1, <2>2, ResetType DEF RecvBye, TypeOK
<1>9. QED
  BY <1>1, <1>2, <1>3, <1>4, <1>5, <1>6, <1>7, <1>8 DEF ProcessRequest

LEMMA ProcessOKType ==
    ASSUME TypeOK, NEW t \in Txs, NEW st \in States, NEW body \in BOOLEAN,
           NEW early \in BOOLEAN, NEW p \in Phases, ProcessOK(t, st, body, early, p)
    PROVE  /\ state' \in States
           /\ session' \in Calls \cup {None}
           /\ dialog' \in Calls \cup {None}
           /\ callSeq' \in Nat \ {0}
           /\ tx' \in [Txs -> TxRecord]
<1>1. CASE Established(t)
  <2>1. callSeq \in Nat /\ callSeq' \in Nat \ {0}
    BY <1>1 DEF Established, TypeOK
  <2>2. tx' \in [Txs -> TxRecord]
    <3>1. tx' = [tx EXCEPT ![t] = [tx[t] EXCEPT !.phase = "acked", !.ack = callSeq]]
      BY <1>1 DEF Established, TypeOK
    <3>2. tx \in [Txs -> TxRecord] /\ tx[t] \in TxRecord
      BY DEF TypeOK
    <3>3. [tx[t] EXCEPT !.phase = "acked", !.ack = callSeq] \in TxRecord
      BY <2>1, <3>2 DEF TxRecord, Phases
    <3>4. QED
      BY <3>1, <3>2, <3>3
  <2>3. QED
    BY <1>1, <2>1, <2>2 DEF Established, States, Calls
<1>2. CASE AckThrows(t, p)
  <2>1. callSeq' \in Nat \ {0}
    BY <1>2 DEF AckThrows, TypeOK
  <2>2. QED
    BY <1>2, <2>1, MovedType DEF AckThrows, States, Calls
<1>3. CASE AnswerUnusable(t, p)
  BY <1>3, MovedType DEF AnswerUnusable, TypeOK, States, Calls
<1>4. CASE /\ state' = AfterOK(st)
           /\ tx' = Moved(t, p)
           /\ UNCHANGED <<session, dialog, callSeq>>
  BY <1>4, MovedType DEF AfterOK, TypeOK, States
<1>5. QED
  BY <1>1, <1>2, <1>3, <1>4 DEF ProcessOK

LEMMA ResponseType ==
    ASSUME TypeOK, ProcessResponse
    PROVE  TypeOK'
<1>1. ASSUME NEW t \in Txs, NEW body \in BOOLEAN, RecvRinging(t, body)
      PROVE  TypeOK'
  <2>1. (IF state = "CALLING" THEN "RINGING" ELSE state) \in States
    BY DEF TypeOK, States
  <2>2. "early" \in Phases
    BY DEF Phases
  <2>3. QED
    BY <1>1, <2>1, <2>2, ProcessOKType DEF RecvRinging, TypeOK
<1>2. ASSUME NEW t \in Txs, NEW body \in BOOLEAN, RecvOK(t, body)
      PROVE  TypeOK'
  <2>1. (IF tx[t].method = "INVITE" THEN "answered" ELSE "closed") \in Phases
    BY DEF Phases
  <2>2. state \in States
    BY DEF TypeOK
  <2>3. QED
    BY <1>2, <2>1, <2>2, ProcessOKType DEF RecvOK, TypeOK
<1>3. ASSUME NEW t \in Txs, RecvUnauthorized(t)
      PROVE  TypeOK'
  <2>1. Moved(t, "closed") \in [Txs -> TxRecord]
    BY MovedType DEF Phases
  <2>2. tx' \in [Txs -> TxRecord] /\ clientTx' \in Txs \cup {None}
    BY <1>3, <2>1, RegisterType DEF RecvUnauthorized, TypeOK
  <2>3. state' \in States
    BY <1>3 DEF RecvUnauthorized, TypeOK, States
  <2>4. QED
    BY <1>3, <2>2, <2>3 DEF RecvUnauthorized, TypeOK
<1>4. ASSUME NEW t \in Txs, RecvProxyAuthRequired(t)
      PROVE  TypeOK'
  <2>1. Moved(t, "closed") \in [Txs -> TxRecord]
    BY MovedType DEF Phases
  <2>2. /\ tx' \in [Txs -> TxRecord]
        /\ clientTx' \in Txs \cup {None}
        /\ callID' \in Txs \cup {None}
        /\ dialog' \in Calls \cup {None}
    BY <1>4, <2>1, InviteType DEF RecvProxyAuthRequired, TypeOK
  <2>3. state' \in States
    BY <1>4 DEF RecvProxyAuthRequired, TypeOK, States
  <2>4. QED
    BY <1>4, <2>2, <2>3 DEF RecvProxyAuthRequired, TypeOK
<1>5. ASSUME NEW t \in Txs, NEW code \in FailureCodes, RecvFailure(t, code)
      PROVE  TypeOK'
  <2>1. tx' \in [Txs -> TxRecord]
    BY <1>5, MovedType DEF RecvFailure, Phases
  <2>2. state' \in States
    BY <1>5 DEF RecvFailure, AfterFailure, TypeOK, States, FailureCodes
  <2>3. QED
    BY <1>5, <2>1, <2>2 DEF RecvFailure, TypeOK, calls
<1>6. ASSUME NEW t \in Txs, Timeout(t)
      PROVE  TypeOK'
  <2>1. tx' \in [Txs -> TxRecord]
    BY <1>6, MovedType DEF Timeout, Phases
  <2>2. QED
    BY <1>6, <2>1 DEF Timeout, TypeOK, calls, service
<1>7. QED
  BY <1>1, <1>2, <1>3, <1>4, <1>5, <1>6 DEF ProcessResponse

(* Every field of SipService and SipMessageHandler, and every record of the *)
(* stack, stays in its type through every button and every event.           *)
THEOREM TypeCorrect == Spec => []TypeOK
<1>1. Init => TypeOK
  <2>1. SUFFICES ASSUME Init
                 PROVE  TypeOK
    OBVIOUS
  <2>2. handler \in BOOLEAN /\ contact \in BOOLEAN /\ stale \in BOOLEAN
    BY <2>1, Zenon DEF Init
  <2>3. tx \in [Txs -> TxRecord]
    BY <2>1 DEF Init, Unused, TxRecord, Methods, Phases
  <2>4. QED
    BY <2>1, <2>2, <2>3 DEF Init, TypeOK, States, InviteStatus
<1>2. TypeOK /\ [Next]_vars => TypeOK'
  <2>1. ASSUME TypeOK, UNCHANGED vars
        PROVE  TypeOK'
    BY <2>1 DEF vars, TypeOK
  <2>2. QED
    BY <2>1, UserType, RequestType, ResponseType DEF Next
<1>3. QED
  BY <1>1, <1>2, PTL DEF Spec

-------------------------------------------------------------------------------
(* After a reset nothing is announced or established.                       *)
LEMMA ResetQuiet ==
    Reset => /\ IncomingAnswerable' /\ EstablishedDialogLive'
             /\ session' = None /\ state' = "READY" /\ callID' = None
  BY DEF Reset, IncomingAnswerable, EstablishedDialogLive

LEMMA UserKeepsIncoming ==
    ASSUME TypeOK, IncomingAnswerable, User
    PROVE  IncomingAnswerable'
<1>1. CASE CreateInstance
  BY <1>1 DEF CreateInstance, IncomingAnswerable
<1>2. CASE RegisterProfile \/ UnregisterProfile
  BY <1>2 DEF RegisterProfile, UnregisterProfile, Registration, IncomingAnswerable
<1>3. CASE SendInvite
  BY <1>3 DEF SendInvite, IncomingAnswerable
<1>4. CASE AcceptCall
  <2>1. SUFFICES ASSUME state = "INCOMING"
                 PROVE  serverTx' = request /\ invite'[request] \in {"ringing", "ok"}
    BY <1>4 DEF AcceptCall, service, IncomingAnswerable
  <2>2. request \in Invites /\ serverTx = request /\ serverTx # None
        /\ invite[request] \in {"ringing", "ok"}
    BY <2>1, SipServiceAssumption DEF IncomingAnswerable
  <2>3. CASE Reply(invite, request, "ok")
    BY <2>2, <2>3 DEF Reply, Replied, TypeOK
  <2>4. CASE ReplyThrows(invite, request)
    BY <2>2, <2>4 DEF ReplyThrows, Slot
  <2>5. QED
    BY <1>4, <2>3, <2>4 DEF AcceptCall
<1>5. CASE DeclineCall
  <2>1. CASE Reset
    BY <2>1, ResetQuiet
  <2>2. CASE /\ request # None
             /\ ReplyThrows(invite, request)
             /\ UNCHANGED <<service, clientTx, dialog, callID, callSeq, stale>>
    BY <2>2 DEF ReplyThrows, Slot, service, IncomingAnswerable
  <2>3. QED
    BY <1>5, <2>1, <2>2 DEF DeclineCall
<1>6. CASE HangUp
  BY <1>6, ResetQuiet DEF HangUp
<1>7. CASE Cancel
  <2>1. CASE Reset
    BY <2>1, ResetQuiet
  <2>2. CASE UNCHANGED <<service, serverTx, dialog, callID, callSeq, stale>>
    BY <1>7, <2>2 DEF Cancel, service, IncomingAnswerable
  <2>3. QED
    BY <1>7, <2>1, <2>2 DEF Cancel
<1>8. CASE ConfirmStateAndReset
  BY <1>8, ResetQuiet DEF ConfirmStateAndReset
<1>9. QED
  BY <1>1, <1>2, <1>3, <1>4, <1>5, <1>6, <1>7, <1>8 DEF User

LEMMA RequestKeepsIncoming ==
    ASSUME TypeOK, IncomingAnswerable, ProcessRequest
    PROVE  IncomingAnswerable'
<1>1. ASSUME NEW i \in Invites, RecvInviteBusy(i)
      PROVE  IncomingAnswerable'
  (* The ringing call holds the slot, so the 486 throws.                    *)
  <2>1. CASE state = "INCOMING"
    <3>1. /\ serverTx = request /\ request \in Invites /\ serverTx # None
          /\ invite[request] \in {"ringing", "ok"}
      BY <2>1, SipServiceAssumption DEF IncomingAnswerable
    <3>2. invite[i] = "new"
      BY <1>1 DEF RecvInviteBusy, RecvInvite
    <3>3. Slot(i) # i
      BY <3>1, <3>2 DEF Slot
    <3>4. state' = "ERROR"
      BY <1>1, <3>3 DEF RecvInviteBusy, Reply, CanReply
    <3>5. QED
      BY <3>4 DEF IncomingAnswerable
  <2>2. CASE state # "INCOMING"
    BY <1>1, <2>2 DEF RecvInviteBusy, IncomingAnswerable
  <2>3. QED
    BY <2>1, <2>2
<1>2. ASSUME NEW i \in Invites, RecvInviteUnusable(i)
      PROVE  IncomingAnswerable'
  BY <1>2 DEF RecvInviteUnusable, IncomingAnswerable
<1>3. ASSUME NEW i \in Invites, RecvInviteNoCodec(i)
      PROVE  IncomingAnswerable'
  <2>1. state # "INCOMING"
    BY <1>3, SipServiceAssumption DEF RecvInviteNoCodec, IncomingAnswerable
  <2>2. QED
    BY <1>3, <2>1 DEF RecvInviteNoCodec, IncomingAnswerable
<1>4. ASSUME NEW i \in Invites, RecvInviteForUs(i)
      PROVE  IncomingAnswerable'
  <2>1. CASE Reply(Arrived(i), i, "ringing") /\ state' = "INCOMING"
    <3>1. serverTx' = i /\ session' = i /\ request' = i
      BY <1>4, <2>1 DEF RecvInviteForUs, Reply
    <3>2. invite'[i] = "ringing"
      BY <2>1 DEF Reply, Replied, Arrived, Pending, TypeOK
    <3>3. QED
      BY <3>1, <3>2 DEF IncomingAnswerable
  <2>2. CASE state' = "ERROR"
    BY <2>2 DEF IncomingAnswerable
  <2>3. QED
    BY <1>4, <2>1, <2>2 DEF RecvInviteForUs
<1>5. ASSUME NEW i \in Invites, RecvInviteNotFound(i)
      PROVE  IncomingAnswerable'
  <2>1. state # "INCOMING"
    BY <1>5, SipServiceAssumption DEF RecvInviteNotFound, IncomingAnswerable
  <2>2. QED
    BY <1>5, <2>1 DEF RecvInviteNotFound, IncomingAnswerable
<1>6. ASSUME NEW i \in Invites, RecvCancel(i)
      PROVE  IncomingAnswerable'
  BY <1>6, ResetQuiet DEF RecvCancel
<1>7. ASSUME NEW i \in Invites, RecvAck(i)
      PROVE  IncomingAnswerable'
  <2>1. CASE session # None
    BY <1>7, <2>1 DEF RecvAck, IncomingAnswerable
  <2>2. CASE session = None
    BY <1>7, <2>2, SipServiceAssumption DEF RecvAck, IncomingAnswerable
  <2>3. QED
    BY <2>1, <2>2
<1>8. CASE RecvBye
  BY <1>8, ResetQuiet DEF RecvBye
<1>9. QED
  BY <1>1, <1>2, <1>3, <1>4, <1>5, <1>6, <1>7, <1>8 DEF ProcessRequest

(* No response changes what acceptCall would use, unless it changes state.  *)
LEMMA ProcessOKKeepsIncoming ==
    ASSUME NEW t \in Txs, NEW st \in States, NEW body, NEW early, NEW p,
           ProcessOK(t, st, body, early, p)
    PROVE  state' = "INCOMING" => st = "INCOMING" /\ session' = session
  BY DEF ProcessOK, Established, AckThrows, AnswerUnusable, AfterOK, States

LEMMA ResponseKeepsIncoming ==
    ASSUME TypeOK, IncomingAnswerable, ProcessResponse
    PROVE  IncomingAnswerable'
<1>1. ASSUME NEW t \in Txs, NEW body \in BOOLEAN, RecvRinging(t, body)
      PROVE  IncomingAnswerable'
  <2>1. (IF state = "CALLING" THEN "RINGING" ELSE state) \in States
    BY DEF TypeOK, States
  <2>2. state' = "INCOMING" => state = "INCOMING" /\ session' = session
    BY <1>1, <2>1, ProcessOKKeepsIncoming DEF RecvRinging
  <2>3. QED
    BY <1>1, <2>2 DEF RecvRinging, IncomingAnswerable
<1>2. ASSUME NEW t \in Txs, NEW body \in BOOLEAN, RecvOK(t, body)
      PROVE  IncomingAnswerable'
  <2>1. state' = "INCOMING" => state = "INCOMING" /\ session' = session
    BY <1>2, ProcessOKKeepsIncoming DEF RecvOK, TypeOK
  <2>2. QED
    BY <1>2, <2>1 DEF RecvOK, IncomingAnswerable
<1>3. ASSUME NEW t \in Txs, RecvUnauthorized(t)
      PROVE  IncomingAnswerable'
  <2>1. state' = "INCOMING" => state = "INCOMING"
    BY <1>3 DEF RecvUnauthorized
  <2>2. QED
    BY <1>3, <2>1 DEF RecvUnauthorized, IncomingAnswerable
<1>4. ASSUME NEW t \in Txs, RecvProxyAuthRequired(t)
      PROVE  IncomingAnswerable'
  <2>1. state' = "INCOMING" => state = "INCOMING"
    BY <1>4 DEF RecvProxyAuthRequired
  <2>2. QED
    BY <1>4, <2>1 DEF RecvProxyAuthRequired, IncomingAnswerable
<1>5. ASSUME NEW t \in Txs, NEW code \in FailureCodes, RecvFailure(t, code)
      PROVE  IncomingAnswerable'
  BY <1>5 DEF RecvFailure, AfterFailure, FailureCodes, calls, IncomingAnswerable
<1>6. ASSUME NEW t \in Txs, Timeout(t)
      PROVE  IncomingAnswerable'
  BY <1>6 DEF Timeout, calls, service, IncomingAnswerable
<1>7. QED
  BY <1>1, <1>2, <1>3, <1>4, <1>5, <1>6 DEF ProcessResponse

(* Accept and Decline of an announced call always reach its caller, through *)
(* the transaction the stack will accept, whatever second calls, responses, *)
(* CANCELs and buttons came in between.                                     *)
THEOREM IncomingCorrect == Spec => []IncomingAnswerable
<1>1. Init => IncomingAnswerable
  BY DEF Init, IncomingAnswerable
<1>2. TypeOK /\ IncomingAnswerable /\ [Next]_vars => IncomingAnswerable'
  <2>1. ASSUME IncomingAnswerable, UNCHANGED vars
        PROVE  IncomingAnswerable'
    BY <2>1 DEF vars, IncomingAnswerable
  <2>2. QED
    BY <2>1, UserKeepsIncoming, RequestKeepsIncoming, ResponseKeepsIncoming DEF Next
<1>3. QED
  BY <1>1, <1>2, TypeCorrect, PTL DEF Spec

-------------------------------------------------------------------------------
(* The dialog of an established call: a step that does not end the call     *)
(* leaves its dialog alone.                                                 *)
Kept ==
    /\ \A i \in Invites : invite[i] = "confirmed" => invite'[i] = "confirmed"
    /\ \A t \in Txs : tx[t].phase = "acked" => tx'[t].phase = "acked"

LEMMA StaysLive ==
    ASSUME EstablishedDialogLive, Kept,
           state' = "ESTABLISHED" =>
               state = "ESTABLISHED" /\ UNCHANGED <<session, dialog>>
    PROVE  EstablishedDialogLive'
  BY DEF EstablishedDialogLive, LiveDialog, Kept

LEMMA NotEstablished ==
    ASSUME state' # "ESTABLISHED"
    PROVE  EstablishedDialogLive'
  BY DEF EstablishedDialogLive

(* A reply only touches an INVITE that is still pending.                    *)
LEMMA ReplyKeeps ==
    ASSUME TypeOK, NEW inv \in [Invites -> InviteStatus], NEW i \in Invites,
           NEW answer, Reply(inv, i, answer) \/ ReplyThrows(inv, i)
    PROVE  \A j \in Invites : inv[j] = "confirmed" => invite'[j] = "confirmed"
  BY DEF Reply, ReplyThrows, Replied, Pending

LEMMA ArrivedKeeps ==
    ASSUME TypeOK, NEW i \in Invites, RecvInvite(i)
    PROVE  \A j \in Invites : invite[j] = "confirmed" => Arrived(i)[j] = "confirmed"
  BY DEF Arrived, RecvInvite, TypeOK

LEMMA UserKeepsLive ==
    ASSUME TypeOK, EstablishedDialogLive, User
    PROVE  EstablishedDialogLive'
<1>1. CASE CreateInstance \/ RegisterProfile \/ UnregisterProfile \/ SendInvite
  BY <1>1, NotEstablished
     DEF CreateInstance, RegisterProfile, UnregisterProfile, Registration, SendInvite
<1>2. CASE AcceptCall
  <2>1. request \in Invites
    BY <1>2 DEF AcceptCall, TypeOK
  <2>2. Kept
    BY <1>2, <2>1, ReplyKeeps DEF AcceptCall, Kept, TypeOK
  <2>3. QED
    BY <1>2, <2>2, StaysLive DEF AcceptCall, service
<1>3. CASE DeclineCall
  <2>1. CASE Reset
    BY <2>1, ResetQuiet
  <2>2. CASE /\ request # None
             /\ ReplyThrows(invite, request)
             /\ UNCHANGED <<service, clientTx, dialog, callID, callSeq, stale>>
    <3>1. Kept
      BY <1>3, <2>2 DEF DeclineCall, ReplyThrows, Kept
    <3>2. QED
      BY <2>2, <3>1, StaysLive DEF service
  <2>3. QED
    BY <1>3, <2>1, <2>2 DEF DeclineCall
<1>4. CASE HangUp \/ ConfirmStateAndReset
  BY <1>4, ResetQuiet DEF HangUp, ConfirmStateAndReset
<1>5. CASE Cancel
  <2>1. CASE Reset
    BY <2>1, ResetQuiet
  <2>2. CASE UNCHANGED <<service, serverTx, dialog, callID, callSeq, stale>>
    BY <1>5, <2>2, NotEstablished DEF Cancel, service
  <2>3. QED
    BY <1>5, <2>1, <2>2 DEF Cancel
<1>6. QED
  BY <1>1, <1>2, <1>3, <1>4, <1>5 DEF User

LEMMA RequestKeepsLive ==
    ASSUME TypeOK, EstablishedDialogLive, ProcessRequest
    PROVE  EstablishedDialogLive'
<1>1. ASSUME NEW i \in Invites, RecvInviteBusy(i)
      PROVE  EstablishedDialogLive'
  <2>1. Kept
    BY <1>1, ArrivedType, ArrivedKeeps, ReplyKeeps
       DEF RecvInviteBusy, Keeps, Kept, InviteStatus
  <2>2. QED
    BY <1>1, <2>1, StaysLive DEF RecvInviteBusy, Keeps
<1>2. ASSUME NEW i \in Invites, RecvInviteUnusable(i)
      PROVE  EstablishedDialogLive'
  BY <1>2, NotEstablished DEF RecvInviteUnusable
<1>3. ASSUME NEW i \in Invites,
             RecvInviteNoCodec(i) \/ RecvInviteForUs(i) \/ RecvInviteNotFound(i)
      PROVE  EstablishedDialogLive'
  (* These find no session, so no call is established.                      *)
  <2>1. state # "ESTABLISHED"
    BY <1>3 DEF RecvInviteNoCodec, RecvInviteForUs, RecvInviteNotFound,
                EstablishedDialogLive
  <2>2. QED
    BY <1>3, <2>1, NotEstablished
       DEF RecvInviteNoCodec, RecvInviteForUs, RecvInviteNotFound
<1>4. ASSUME NEW i \in Invites, RecvCancel(i)
      PROVE  EstablishedDialogLive'
  BY <1>4, ResetQuiet DEF RecvCancel
<1>5. ASSUME NEW i \in Invites, RecvAck(i)
      PROVE  EstablishedDialogLive'
  <2>1. invite'[i] = "confirmed"
    BY <1>5 DEF RecvAck, TypeOK
  <2>2. CASE session # None
    BY <1>5, <2>1, <2>2 DEF RecvAck, EstablishedDialogLive, LiveDialog
  <2>3. CASE session = None
    BY <1>5, <2>3, NotEstablished DEF RecvAck, EstablishedDialogLive
  <2>4. QED
    BY <2>2, <2>3
<1>6. CASE RecvBye
  BY <1>6, ResetQuiet DEF RecvBye
<1>7. QED
  BY <1>1, <1>2, <1>3, <1>4, <1>5, <1>6 DEF ProcessRequest

LEMMA ProcessOKKeepsLive ==
    ASSUME TypeOK, EstablishedDialogLive, NEW t \in Txs, tx[t].phase # "acked",
           NEW st \in States, st = "ESTABLISHED" => state = "ESTABLISHED",
           NEW body, NEW early, NEW p,
           UNCHANGED invite, ProcessOK(t, st, body, early, p)
    PROVE  EstablishedDialogLive'
<1>1. CASE Established(t)
  <2>1. tx'[t].phase = "acked"
    BY <1>1 DEF Established, TypeOK, TxRecord
  <2>2. QED
    BY <1>1, <2>1, SipServiceAssumption
       DEF Established, EstablishedDialogLive, LiveDialog
<1>2. CASE AckThrows(t, p) \/ AnswerUnusable(t, p)
  BY <1>2, NotEstablished DEF AckThrows, AnswerUnusable
<1>3. CASE /\ state' = AfterOK(st)
           /\ tx' = Moved(t, p)
           /\ UNCHANGED <<session, dialog, callSeq>>
  <2>1. Kept
    BY <1>3 DEF Kept, Moved, TypeOK, TxRecord
  <2>2. state' = "ESTABLISHED" => state = "ESTABLISHED"
    BY <1>3 DEF AfterOK, States
  <2>3. QED
    BY <1>3, <2>1, <2>2, StaysLive
<1>4. QED
  BY <1>1, <1>2, <1>3 DEF ProcessOK

LEMMA ResponseKeepsLive ==
    ASSUME TypeOK, EstablishedDialogLive, ProcessResponse
    PROVE  EstablishedDialogLive'
<1>1. ASSUME NEW t \in Txs, NEW body \in BOOLEAN, RecvRinging(t, body)
      PROVE  EstablishedDialogLive'
  <2>1. /\ (IF state = "CALLING" THEN "RINGING" ELSE state) \in States
        /\ tx[t].phase # "acked"
    BY <1>1 DEF TypeOK, States, RecvRinging, Underway
  <2>2. (IF state = "CALLING" THEN "RINGING" ELSE state) = "ESTABLISHED"
           => state = "ESTABLISHED"
    OBVIOUS
  <2>3. QED
    BY <1>1, <2>1, <2>2, ProcessOKKeepsLive DEF RecvRinging
<1>2. ASSUME NEW t \in Txs, NEW body \in BOOLEAN, RecvOK(t, body)
      PROVE  EstablishedDialogLive'
  <2>1. state \in States /\ tx[t].phase # "acked"
    BY <1>2 DEF TypeOK, RecvOK, Underway
  <2>2. QED
    BY <1>2, <2>1, ProcessOKKeepsLive DEF RecvOK
<1>3. ASSUME NEW t \in Txs, RecvUnauthorized(t)
      PROVE  EstablishedDialogLive'
  <2>1. CASE state \in {"REGISTERING", "UNREGISTERING"}
    BY <1>3, <2>1, NotEstablished DEF RecvUnauthorized
  <2>2. CASE state \notin {"REGISTERING", "UNREGISTERING"}
    <3>1. Kept
      BY <1>3, <2>2 DEF RecvUnauthorized, Underway, Kept, Moved, TypeOK, TxRecord
    <3>2. QED
      BY <1>3, <2>2, <3>1, StaysLive DEF RecvUnauthorized
  <2>3. QED
    BY <2>1, <2>2
<1>4. ASSUME NEW t \in Txs, RecvProxyAuthRequired(t)
      PROVE  EstablishedDialogLive'
  <2>1. CASE session = None
    BY <1>4, <2>1, NotEstablished DEF RecvProxyAuthRequired, EstablishedDialogLive
  <2>2. CASE session # None
    <3>1. Kept
      BY <1>4, <2>2
         DEF RecvProxyAuthRequired, Underway, Kept, Moved, TypeOK, TxRecord
    <3>2. QED
      BY <1>4, <2>2, <3>1, StaysLive DEF RecvProxyAuthRequired
  <2>3. QED
    BY <2>1, <2>2
<1>5. ASSUME NEW t \in Txs, NEW code \in FailureCodes, RecvFailure(t, code)
      PROVE  EstablishedDialogLive'
  <2>1. Kept
    BY <1>5 DEF RecvFailure, Underway, Kept, Moved, TypeOK, TxRecord
  <2>2. state' = "ESTABLISHED" => state = "ESTABLISHED"
    BY <1>5 DEF RecvFailure, AfterFailure, FailureCodes
  <2>3. QED
    BY <1>5, <2>1, <2>2, StaysLive DEF RecvFailure, calls
<1>6. ASSUME NEW t \in Txs, Timeout(t)
      PROVE  EstablishedDialogLive'
  <2>1. Kept
    BY <1>6 DEF Timeout, Underway, Kept, Moved, TypeOK, TxRecord
  <2>2. QED
    BY <1>6, <2>1, StaysLive DEF Timeout, calls, service
<1>7. QED
  BY <1>1, <1>2, <1>3, <1>4, <1>5, <1>6 DEF ProcessResponse

(* endCall of an established call always finds a dialog whose handshake is  *)
(* complete and that no BYE has ended.                                      *)
THEOREM EstablishedCorrect == Spec => []EstablishedDialogLive
<1>1. Init => EstablishedDialogLive
  BY DEF Init, EstablishedDialogLive
<1>2. TypeOK /\ EstablishedDialogLive /\ [Next]_vars => EstablishedDialogLive'
  <2>1. ASSUME EstablishedDialogLive, UNCHANGED vars
        PROVE  EstablishedDialogLive'
    BY <2>1 DEF vars, EstablishedDialogLive, LiveDialog
  <2>2. QED
    BY <2>1, UserKeepsLive, RequestKeepsLive, ResponseKeepsLive DEF Next
<1>3. QED
  BY <1>1, <1>2, TypeCorrect, PTL DEF Spec

-------------------------------------------------------------------------------
(* The line.                                                                *)
LineStep == [Line!Next]_<<session, (state = "ESTABLISHED")>>

LEMMA LineKept ==
    ASSUME UNCHANGED <<session, state>>
    PROVE  LineStep
  BY DEF LineStep

LEMMA LineFalters ==
    ASSUME session' = session, state' = "ESTABLISHED" => state = "ESTABLISHED"
    PROVE  LineStep
<1>1. CASE state = "ESTABLISHED" /\ state' # "ESTABLISHED"
  <2>1. Line!Falter
    BY <1>1 DEF Line!Falter
  <2>2. QED
    BY <2>1 DEF LineStep, Line!Next
<1>2. CASE (state = "ESTABLISHED") = (state' = "ESTABLISHED")
  BY <1>2 DEF LineStep
<1>3. QED
  BY <1>1, <1>2

LEMMA LineReleased ==
    ASSUME session' = None, state' # "ESTABLISHED"
    PROVE  LineStep
  BY DEF LineStep, Line!Next, Line!Release

LEMMA LineTaken ==
    ASSUME EstablishedDialogLive, session = None, session' \in Invites,
           state' # "ESTABLISHED"
    PROVE  LineStep
<1>1. state # "ESTABLISHED"
  BY DEF EstablishedDialogLive
<1>2. Line!Take
  BY <1>1 DEF Line!Take
<1>3. QED
  BY <1>2 DEF LineStep, Line!Next

LEMMA LineAnswered ==
    ASSUME state # "ESTABLISHED", session' \in Txs
    PROVE  LineStep
<1>1. (state' = "ESTABLISHED") \in BOOLEAN
  OBVIOUS
<1>2. Line!Answered
  BY <1>1 DEF Line!Answered
<1>3. QED
  BY <1>2 DEF LineStep, Line!Next

LEMMA UserOnLine ==
    ASSUME TypeOK, User
    PROVE  LineStep
<1>1. CASE CreateInstance \/ RegisterProfile \/ UnregisterProfile
  BY <1>1, LineFalters
     DEF CreateInstance, RegisterProfile, UnregisterProfile, Registration
<1>2. CASE SendInvite
  BY <1>2, LineReleased DEF SendInvite
<1>3. CASE AcceptCall
  BY <1>3, LineKept DEF AcceptCall, service
<1>4. CASE DeclineCall \/ HangUp \/ Cancel \/ ConfirmStateAndReset
  <2>1. CASE Reset
    BY <2>1, LineReleased DEF Reset
  <2>2. CASE UNCHANGED service
    BY <2>2, LineKept DEF service
  <2>3. QED
    BY <1>4, <2>1, <2>2 DEF DeclineCall, HangUp, Cancel, ConfirmStateAndReset
<1>5. QED
  BY <1>1, <1>2, <1>3, <1>4 DEF User

LEMMA RequestOnLine ==
    ASSUME TypeOK, EstablishedDialogLive, ProcessRequest
    PROVE  LineStep
<1>1. ASSUME NEW i \in Invites,
             RecvInviteBusy(i) \/ RecvInviteUnusable(i) \/ RecvInviteNoCodec(i)
      PROVE  LineStep
  BY <1>1, LineFalters DEF RecvInviteBusy, RecvInviteUnusable, RecvInviteNoCodec
<1>2. ASSUME NEW i \in Invites, RecvInviteForUs(i) \/ RecvInviteNotFound(i)
      PROVE  LineStep
  <2>1. state # "ESTABLISHED"
    BY <1>2 DEF RecvInviteForUs, RecvInviteNotFound, EstablishedDialogLive
  <2>2. QED
    BY <1>2, <2>1, LineTaken DEF RecvInviteForUs, RecvInviteNotFound
<1>3. ASSUME NEW i \in Invites, RecvAck(i)
      PROVE  LineStep
  <2>1. CASE session # None /\ state' = "ESTABLISHED"
    <3>1. Line!Connect
      BY <1>3, <2>1 DEF RecvAck, Line!Connect
    <3>2. QED
      BY <3>1 DEF LineStep, Line!Next
  <2>2. CASE UNCHANGED state
    BY <1>3, <2>2, LineKept DEF RecvAck
  <2>3. QED
    BY <1>3, <2>1, <2>2 DEF RecvAck
<1>4. CASE RecvBye \/ \E i \in Invites : RecvCancel(i)
  BY <1>4, LineReleased DEF RecvBye, RecvCancel, Reset
<1>5. QED
  BY <1>1, <1>2, <1>3, <1>4 DEF ProcessRequest

LEMMA ProcessOKOnLine ==
    ASSUME NEW t \in Txs, NEW st \in States, NEW body, NEW early, NEW p,
           st = state \/ (st = "RINGING" /\ state = "CALLING"),
           ProcessOK(t, st, body, early, p)
    PROVE  LineStep
<1>1. CASE st \in {"CALLING", "RINGING"} /\ session' = t
  BY <1>1, LineAnswered
<1>2. CASE session' = session /\ state' \in {"ERROR", AfterOK(st)}
  BY <1>2, LineFalters DEF AfterOK, States
<1>3. QED
  BY <1>1, <1>2 DEF ProcessOK, Established, AckThrows, AnswerUnusable

LEMMA ResponseOnLine ==
    ASSUME TypeOK, ProcessResponse
    PROVE  LineStep
<1>1. ASSUME NEW t \in Txs, NEW body \in BOOLEAN, RecvRinging(t, body)
      PROVE  LineStep
  <2>1. (IF state = "CALLING" THEN "RINGING" ELSE state) \in States
    BY DEF TypeOK, States
  <2>2. QED
    BY <1>1, <2>1, ProcessOKOnLine DEF RecvRinging
<1>2. ASSUME NEW t \in Txs, NEW body \in BOOLEAN, RecvOK(t, body)
      PROVE  LineStep
  BY <1>2, ProcessOKOnLine DEF RecvOK, TypeOK
<1>3. ASSUME NEW t \in Txs, RecvUnauthorized(t) \/ RecvProxyAuthRequired(t)
      PROVE  LineStep
  BY <1>3, LineFalters DEF RecvUnauthorized, RecvProxyAuthRequired
<1>4. ASSUME NEW t \in Txs, NEW code \in FailureCodes, RecvFailure(t, code)
      PROVE  LineStep
  BY <1>4, LineFalters DEF RecvFailure, AfterFailure, FailureCodes
<1>5. ASSUME NEW t \in Txs, Timeout(t)
      PROVE  LineStep
  BY <1>5, LineKept DEF Timeout, service
<1>6. QED
  BY <1>1, <1>2, <1>3, <1>4, <1>5 DEF ProcessResponse

(* Call control keeps one line: an incoming call gets it only while it is   *)
(* free, a call that is up is dropped before another one takes its place.   *)
THEOREM OneLine == Spec => LineSpec
<1>1. Init => Line!Init
  BY DEF Init, Line!Init
<1>2. TypeOK /\ EstablishedDialogLive /\ [Next]_vars => LineStep
  <2>1. ASSUME UNCHANGED vars
        PROVE  LineStep
    BY <2>1, LineKept DEF vars
  <2>2. QED
    BY <2>1, UserOnLine, RequestOnLine, ResponseOnLine DEF Next
<1>3. QED
  BY <1>1, <1>2, TypeCorrect, EstablishedCorrect, PTL
     DEF Spec, LineSpec, Line!Spec, LineStep

-------------------------------------------------------------------------------
(* The numbers.                                                             *)

(* A step that opens no INVITE: every record keeps what identifies it, or   *)
(* is a fresh one taken by another method.                                  *)
NoInvite ==
    \A u \in Txs :
       \/ /\ tx'[u].call = tx[u].call
          /\ tx'[u].method = tx[u].method
          /\ tx'[u].cseq = tx[u].cseq
          /\ tx[u].phase # "unused" => tx'[u].phase # "unused"
       \/ /\ u \in Fresh
          /\ tx'[u].call \in {None, u}
          /\ tx'[u].method # "INVITE"
          /\ tx'[u].phase # "unused"

(* A step that leaves the numbers of the call alone, or forgets the call.   *)
SameCall ==
    /\ handler' = handler
    /\ \/ callID' = None /\ state' \notin {"CALLING", "RINGING"}
       \/ /\ callID' = callID
          /\ callSeq' \in {callSeq, callSeq + 1}
          /\ state' \in {"CALLING", "RINGING"} =>
                \/ stale'
                \/ /\ state \in {"CALLING", "RINGING"}
                   /\ stale' = stale
                   /\ callSeq' = callSeq

LEMMA StillNumbered ==
    ASSUME TypeOK, TypeOK', CallNumbering, NoInvite, SameCall
    PROVE  CallNumbering'
<1>1. ASSUME NEW c \in Txs, c \notin Fresh
      PROVE  (c \notin Fresh)'
  BY <1>1 DEF Fresh, NoInvite
<1>2. (callID # None => callID \notin Fresh)' /\ (~handler => callID = None)'
  BY <1>1 DEF CallNumbering, SameCall, TypeOK
<1>3. ASSUME NEW t \in Txs
      PROVE  /\ (tx[t].call # None => tx[t].call \notin Fresh)'
             /\ (tx[t].method = "INVITE" => tx[t].call # None)'
  <2>1. CASE /\ tx'[t].call = tx[t].call
             /\ tx'[t].method = tx[t].method
    <3>1. tx[t].call \in Txs \cup {None}
      BY DEF TypeOK, TxRecord
    <3>2. QED
      BY <1>1, <2>1, <3>1 DEF CallNumbering
  <2>2. CASE /\ tx'[t].call \in {None, t}
             /\ tx'[t].method # "INVITE"
             /\ tx'[t].phase # "unused"
    BY <2>2 DEF Fresh
  <2>3. QED
    BY <2>1, <2>2 DEF NoInvite
<1>4. ASSUME NEW t \in Txs, tx'[t].method = "INVITE", tx'[t].call = callID'
      PROVE  /\ tx'[t].cseq <= callSeq'
             /\ state' \in {"CALLING", "RINGING"} /\ ~stale' => tx'[t].cseq = callSeq'
  <2>1. tx[t].method = "INVITE" /\ tx[t].call = callID' /\ tx'[t].cseq = tx[t].cseq
    BY <1>4 DEF NoInvite
  <2>2. callID' = callID /\ callSeq' \in {callSeq, callSeq + 1}
    BY <2>1 DEF CallNumbering, SameCall
  <2>3. tx[t].cseq <= callSeq /\ tx[t].cseq \in Nat /\ callSeq \in Nat
    BY <2>1, <2>2 DEF CallNumbering, TypeOK, TxRecord
  <2>4. tx'[t].cseq <= callSeq'
    BY <2>1, <2>2, <2>3
  <2>5. ASSUME state' \in {"CALLING", "RINGING"}, ~stale'
        PROVE  tx'[t].cseq = callSeq'
    <3>1. callID' # None
      BY <2>1 DEF CallNumbering
    <3>2. state \in {"CALLING", "RINGING"} /\ ~stale /\ callSeq' = callSeq
      BY <2>5, <3>1 DEF SameCall
    <3>3. QED
      BY <2>1, <2>2, <3>2 DEF CallNumbering
  <2>6. QED
    BY <2>4, <2>5
<1>5. /\ \A t \in Txs : tx'[t].method = "INVITE" /\ tx'[t].call = callID'
                         => tx'[t].cseq <= callSeq'
      /\ state' \in {"CALLING", "RINGING"} /\ ~stale' =>
            \A t \in Txs : tx'[t].method = "INVITE" /\ tx'[t].call = callID'
                              => tx'[t].cseq = callSeq'
  BY <1>4
<1>6. QED
  BY <1>2, <1>3, <1>5 DEF CallNumbering

LEMMA MovedNoInvite ==
    ASSUME TypeOK, NEW t \in Txs, tx[t].phase # "unused", NEW p \in Phases \ {"unused"},
           tx' = Moved(t, p)
    PROVE  NoInvite
  BY DEF NoInvite, Moved, TypeOK, TxRecord

LEMMA OpenedNoInvite ==
    ASSUME TypeOK, NEW f \in [Txs -> TxRecord], NEW t \in Fresh,
           NEW m \in Methods \ {"INVITE"}, NEW c \in {None, t}, NEW n \in Nat,
           NEW p \in Phases \ {"unused"},
           \A u \in Txs : /\ f[u].call = tx[u].call
                          /\ f[u].method = tx[u].method
                          /\ f[u].cseq = tx[u].cseq
                          /\ tx[u].phase # "unused" => f[u].phase # "unused",
           tx' = Opened(f, t, m, c, n, p)
    PROVE  NoInvite
<1>1. t \in Txs
  BY FreshType
<1>2. \A u \in Txs : u # t => tx'[u] = f[u]
  BY <1>1 DEF Opened
<1>3. tx'[t] = [method |-> m, call |-> c, cseq |-> n, ack |-> 0, phase |-> p]
  BY <1>1 DEF Opened
<1>4. QED
  BY <1>2, <1>3 DEF NoInvite

LEMMA RegisterNoInvite ==
    ASSUME TypeOK, NEW f \in [Txs -> TxRecord],
           \A u \in Txs : /\ f[u].call = tx[u].call
                          /\ f[u].method = tx[u].method
                          /\ f[u].cseq = tx[u].cseq
                          /\ tx[u].phase # "unused" => f[u].phase # "unused",
           RegisterSent(f) \/ RegisterFailed(f)
    PROVE  NoInvite
<1>1. CASE tx' = f
  BY <1>1 DEF NoInvite
<1>2. ASSUME NEW t \in Fresh, NEW p \in {"open", "closed"},
             tx' = Opened(f, t, "REGISTER", t, callSeq, p)
      PROVE  NoInvite
  <2>1. /\ callSeq \in Nat /\ p \in Phases \ {"unused"}
        /\ "REGISTER" \in Methods \ {"INVITE"} /\ t \in {None, t}
    BY DEF TypeOK, Phases, Methods
  <2>2. QED
    BY <1>2, <2>1, OpenedNoInvite
<1>3. QED
  BY <1>1, <1>2 DEF RegisterSent, RegisterFailed

(* A step that opens an INVITE, with the number callSequence has, either    *)
(* under a Call-ID of its own or under the current one.                     *)
LEMMA InviteNumbered ==
    ASSUME TypeOK, TypeOK', CallNumbering, NEW f \in [Txs -> TxRecord],
           \A u \in Txs : /\ f[u].call = tx[u].call
                          /\ f[u].method = tx[u].method
                          /\ f[u].cseq = tx[u].cseq
                          /\ tx[u].phase # "unused" => f[u].phase # "unused",
           NEW t \in Fresh, NEW p \in Phases \ {"unused"},
           handler' = handler, handler, callSeq' = callSeq,
           tx' = Opened(f, t, "INVITE", callID', callSeq, p),
           callID' = t \/ (/\ callID # None /\ callID' = callID
                           /\ state \in {"CALLING", "RINGING"}
                           /\ stale' = stale)
    PROVE  CallNumbering'
<1>1. t \in Txs /\ tx[t].phase = "unused"
  BY DEF Fresh
<1>2. \A u \in Txs : u # t => tx'[u] = f[u]
  BY <1>1 DEF Opened
<1>3. tx'[t] = [method |-> "INVITE", call |-> callID', cseq |-> callSeq,
                ack |-> 0, phase |-> p]
  BY <1>1 DEF Opened
<1>4. ASSUME NEW c \in Txs, c \notin Fresh \/ c = t
      PROVE  (c \notin Fresh)'
  BY <1>1, <1>2, <1>3, <1>4 DEF Fresh
<1>5. callID' \in Txs /\ (callID \notin Fresh)'
  BY <1>1, <1>4 DEF CallNumbering, TypeOK
<1>6. (~handler => callID = None)'
  OBVIOUS
<1>7. ASSUME NEW u \in Txs
      PROVE  /\ (tx[u].call # None => tx[u].call \notin Fresh)'
             /\ (tx[u].method = "INVITE" => tx[u].call # None)'
  <2>1. CASE u = t
    BY <1>3, <1>5, <2>1, SipServiceAssumption
  <2>2. CASE u # t
    <3>1. tx[u].call \in Txs \cup {None}
      BY DEF TypeOK, TxRecord
    <3>2. tx'[u].call = tx[u].call /\ tx'[u].method = tx[u].method
      BY <1>2, <2>2
    <3>3. QED
      BY <1>4, <3>1, <3>2 DEF CallNumbering
  <2>3. QED
    BY <2>1, <2>2
<1>8. ASSUME NEW u \in Txs, tx'[u].method = "INVITE", tx'[u].call = callID'
      PROVE  tx'[u].cseq <= callSeq' /\ (~stale' => tx'[u].cseq = callSeq')
  <2>1. CASE u = t
    <3>1. tx'[u].cseq = callSeq' /\ callSeq' \in Nat
      BY <1>3, <2>1 DEF TypeOK
    <3>2. QED
      BY <3>1
  <2>2. CASE u # t
    <3>1. /\ tx[u].method = "INVITE" /\ tx[u].call = callID'
          /\ tx'[u].cseq = tx[u].cseq
      BY <1>2, <1>8, <2>2
    <3>2. callID' # t
      BY <1>5, <3>1, SipServiceAssumption DEF CallNumbering
    <3>3. /\ tx[u].cseq <= callSeq
          /\ ~stale => tx[u].cseq = callSeq
      BY <3>1, <3>2 DEF CallNumbering
    <3>4. QED
      BY <3>1, <3>2, <3>3
  <2>3. QED
    BY <2>1, <2>2
<1>9. /\ \A u \in Txs : tx'[u].method = "INVITE" /\ tx'[u].call = callID'
                         => tx'[u].cseq <= callSeq'
      /\ state' \in {"CALLING", "RINGING"} /\ ~stale' =>
            \A u \in Txs : tx'[u].method = "INVITE" /\ tx'[u].call = callID'
                              => tx'[u].cseq = callSeq'
  BY <1>8
<1>10. QED
  BY <1>5, <1>6, <1>7, <1>9 DEF CallNumbering

LEMMA UserNumbered ==
    ASSUME TypeOK, TypeOK', CallNumbering, User
    PROVE  CallNumbering'
<1>1. CASE CreateInstance
  BY <1>1 DEF CreateInstance, calls, CallNumbering, Fresh
<1>2. CASE RegisterProfile \/ UnregisterProfile
  <2>1. SameCall
    BY <1>2 DEF RegisterProfile, UnregisterProfile, Registration, SameCall
  <2>2. NoInvite
    <3>1. CASE UNCHANGED tx
      BY <3>1 DEF NoInvite
    <3>2. CASE RegisterSent(tx) \/ RegisterFailed(tx)
      BY <3>2, RegisterNoInvite DEF TypeOK
    <3>3. QED
      BY <1>2, <3>1, <3>2 DEF RegisterProfile, UnregisterProfile, Registration
  <2>3. QED
    BY <2>1, <2>2, StillNumbered
<1>3. CASE SendInvite
  <2>1. CASE ~handler
    (* No Call-ID yet, so no INVITE belongs to the current call.            *)
    BY <1>3, <2>1 DEF SendInvite, InviteSent, InviteFailed, CallNumbering, Fresh
  <2>2. CASE handler /\ tx' = tx /\ callID' = callID
    (* No Call-ID was taken: the current call is still the earlier one.     *)
    <3>1. stale'
      BY <1>3, <2>2 DEF SendInvite
    <3>2. handler' = handler /\ callSeq' = callSeq
      BY <1>3 DEF SendInvite
    <3>3. SameCall
      BY <2>2, <3>1, <3>2 DEF SameCall
    <3>4. NoInvite
      BY <2>2 DEF NoInvite
    <3>5. QED
      BY <3>3, <3>4, StillNumbered
  <2>3. ASSUME handler, NEW t \in Fresh, NEW p \in {"open", "closed"},
               callID' = t, tx' = Opened(tx, t, "INVITE", callID', callSeq, p)
        PROVE  CallNumbering'
    <3>1. p \in Phases \ {"unused"} /\ tx \in [Txs -> TxRecord]
      BY DEF Phases, TypeOK
    <3>2. handler' = handler /\ callSeq' = callSeq
      BY <1>3 DEF SendInvite
    <3>3. QED
      BY <2>3, <3>1, <3>2, InviteNumbered
  <2>4. QED
    BY <1>3, <2>1, <2>2, <2>3 DEF SendInvite, InviteSent, InviteFailed
<1>4. CASE AcceptCall
  <2>1. SameCall /\ NoInvite
    BY <1>4 DEF AcceptCall, service, SameCall, NoInvite
  <2>2. QED
    BY <2>1, StillNumbered
<1>5. CASE DeclineCall \/ ConfirmStateAndReset
  <2>1. SameCall /\ NoInvite
    BY <1>5 DEF DeclineCall, ConfirmStateAndReset, Reset, service, SameCall, NoInvite
  <2>2. QED
    BY <2>1, StillNumbered
<1>6. CASE HangUp
  <2>1. SameCall
    BY <1>6 DEF HangUp, Reset, SameCall
  <2>2. PICK t \in Fresh :
           LET sent == Opened(tx, t, "BYE", None, 0, "open")
           IN  tx' = sent \/ (/\ dialog \in Txs
                              /\ tx' = [sent EXCEPT ![dialog].phase = "ended"])
    BY <1>6 DEF HangUp
  <2>3. NoInvite
    <3>1. t \in Txs
      BY FreshType
    <3>2. QED
      BY <2>2, <3>1 DEF NoInvite, Opened, TypeOK, TxRecord
  <2>4. QED
    BY <2>1, <2>3, StillNumbered
<1>7. CASE Cancel
  <2>1. SameCall
    BY <1>7 DEF Cancel, Reset, service, SameCall
  <2>2. PICK t \in Fresh, p \in {"open", "closed"} :
           tx' = Opened(tx, t, "CANCEL", None, 0, p)
    BY <1>7 DEF Cancel
  <2>3. /\ p \in Phases \ {"unused"} /\ "CANCEL" \in Methods \ {"INVITE"}
        /\ tx \in [Txs -> TxRecord]
    BY DEF Phases, Methods, TypeOK
  <2>4. NoInvite
    BY <2>2, <2>3, OpenedNoInvite
  <2>5. QED
    BY <2>1, <2>4, StillNumbered
<1>8. QED
  BY <1>1, <1>2, <1>3, <1>4, <1>5, <1>6, <1>7 DEF User

LEMMA RequestNumbered ==
    ASSUME TypeOK, TypeOK', CallNumbering, ProcessRequest
    PROVE  CallNumbering'
<1>1. SameCall
  <2>1. CASE Reset
    BY <2>1 DEF Reset, SameCall
  <2>2. ASSUME NEW i \in Invites, RecvInvite(i), Keeps,
               state' \in {state, "ERROR", "INCOMING"}
        PROVE  SameCall
    BY <2>2 DEF Keeps, SameCall
  <2>3. ASSUME NEW i \in Invites, RecvAck(i)
        PROVE  SameCall
    BY <2>3 DEF RecvAck, SameCall
  <2>4. QED
    BY <2>1, <2>2, <2>3
       DEF ProcessRequest, RecvInviteBusy, RecvInviteUnusable, RecvInviteNoCodec,
           RecvInviteForUs, RecvInviteNotFound, RecvCancel, RecvBye
<1>2. NoInvite
  <2>1. CASE UNCHANGED tx
    BY <2>1 DEF NoInvite
  <2>2. ASSUME NEW t \in Txs, tx[t].phase \in {"answered", "acked"},
               tx' = [tx EXCEPT ![t].phase = "ended"]
        PROVE  NoInvite
    BY <2>2 DEF NoInvite, TypeOK, TxRecord
  <2>3. QED
    BY <2>1, <2>2
       DEF ProcessRequest, RecvInviteBusy, RecvInviteUnusable, RecvInviteNoCodec,
           RecvInviteForUs, RecvInviteNotFound, RecvCancel, RecvAck, RecvBye, Keeps
<1>3. QED
  BY <1>1, <1>2, StillNumbered

LEMMA ProcessOKNumbered ==
    ASSUME TypeOK, NEW t \in Txs, tx[t].phase # "unused",
           NEW st \in States, st \in {state, "RINGING"},
           st = "RINGING" => state \in {"CALLING", "RINGING"},
           NEW body, NEW early, NEW p \in Phases \ {"unused"},
           UNCHANGED <<handler, callID, stale>>, ProcessOK(t, st, body, early, p)
    PROVE  NoInvite /\ SameCall
<1>1. NoInvite
  <2>1. CASE tx' = Moved(t, p)
    BY <2>1, MovedNoInvite
  <2>2. CASE Established(t)
    BY <2>2 DEF Established, NoInvite, TypeOK, TxRecord
  <2>3. QED
    BY <2>1, <2>2 DEF ProcessOK, AckThrows, AnswerUnusable
<1>2. SameCall
  <2>1. CASE state' \in {"ESTABLISHED", "ERROR"} /\ callSeq' \in {callSeq, callSeq + 1}
    BY <2>1 DEF SameCall
  <2>2. CASE state' = AfterOK(st) /\ UNCHANGED callSeq
    BY <2>2 DEF AfterOK, SameCall, States
  <2>3. QED
    BY <2>1, <2>2 DEF ProcessOK, Established, AckThrows, AnswerUnusable
<1>3. QED
  BY <1>1, <1>2

LEMMA ResponseNumbered ==
    ASSUME TypeOK, TypeOK', CallNumbering, ProcessResponse
    PROVE  CallNumbering'
<1>1. ASSUME NEW t \in Txs, NEW body \in BOOLEAN, RecvRinging(t, body)
      PROVE  CallNumbering'
  <2>1. /\ (IF state = "CALLING" THEN "RINGING" ELSE state) \in States
        /\ "early" \in Phases \ {"unused"}
        /\ tx[t].phase # "unused"
    BY <1>1 DEF TypeOK, States, Phases, RecvRinging, Underway
  <2>2. NoInvite /\ SameCall
    BY <1>1, <2>1, ProcessOKNumbered DEF RecvRinging
  <2>3. QED
    BY <2>2, StillNumbered
<1>2. ASSUME NEW t \in Txs, NEW body \in BOOLEAN, RecvOK(t, body)
      PROVE  CallNumbering'
  <2>1. /\ (IF tx[t].method = "INVITE" THEN "answered" ELSE "closed")
              \in Phases \ {"unused"}
        /\ state \in States
        /\ tx[t].phase # "unused"
    BY <1>2 DEF TypeOK, Phases, RecvOK, Underway
  <2>2. NoInvite /\ SameCall
    BY <1>2, <2>1, ProcessOKNumbered DEF RecvOK
  <2>3. QED
    BY <2>2, StillNumbered
<1>3. ASSUME NEW t \in Txs, Underway(t)
      PROVE  /\ Moved(t, "closed") \in [Txs -> TxRecord]
             /\ \A u \in Txs :
                   /\ Moved(t, "closed")[u].call = tx[u].call
                   /\ Moved(t, "closed")[u].method = tx[u].method
                   /\ Moved(t, "closed")[u].cseq = tx[u].cseq
                   /\ tx[u].phase # "unused" => Moved(t, "closed")[u].phase # "unused"
             /\ tx[t].phase # "unused"
             /\ "closed" \in Phases \ {"unused"}
  <2>1. Moved(t, "closed") \in [Txs -> TxRecord]
    BY MovedType DEF Phases
  <2>2. QED
    BY <1>3, <2>1 DEF Underway, Moved, TypeOK, TxRecord, Phases
<1>4. ASSUME NEW t \in Txs, RecvUnauthorized(t)
      PROVE  CallNumbering'
  <2>1. NoInvite
    <3>1. CASE tx' = Moved(t, "closed")
      BY <1>3, <1>4, <3>1, MovedNoInvite DEF RecvUnauthorized
    <3>2. CASE RegisterSent(Moved(t, "closed")) \/ RegisterFailed(Moved(t, "closed"))
      BY <1>3, <1>4, <3>2, RegisterNoInvite DEF RecvUnauthorized
    <3>3. QED
      BY <1>4, <3>1, <3>2 DEF RecvUnauthorized
  <2>2. SameCall
    BY <1>4 DEF RecvUnauthorized, SameCall
  <2>3. QED
    BY <2>1, <2>2, StillNumbered
<1>5. ASSUME NEW t \in Txs, RecvProxyAuthRequired(t)
      PROVE  CallNumbering'
  <2>1. CASE tx' = Moved(t, "closed") /\ UNCHANGED callID
    <3>1. NoInvite
      BY <1>3, <1>5, <2>1, MovedNoInvite DEF RecvProxyAuthRequired
    <3>2. SameCall
      BY <1>5, <2>1 DEF RecvProxyAuthRequired, SameCall
    <3>3. QED
      BY <3>1, <3>2, StillNumbered
  <2>2. ASSUME NEW u \in Fresh, NEW p \in {"open", "closed"},
               callID # None, callID' = callID, state = "CALLING",
               tx' = Opened(Moved(t, "closed"), u, "INVITE", callID', callSeq, p)
        PROVE  CallNumbering'
    <3>1. p \in Phases \ {"unused"} /\ handler
      BY <1>5 DEF Phases, RecvProxyAuthRequired, Underway
    <3>2. QED
      BY <1>3, <1>5, <2>2, <3>1, InviteNumbered DEF RecvProxyAuthRequired
  <2>3. QED
    BY <1>5, <2>1, <2>2 DEF RecvProxyAuthRequired, InviteSent, InviteFailed
<1>6. ASSUME NEW t \in Txs, NEW code \in FailureCodes,
             RecvFailure(t, code) \/ Timeout(t)
      PROVE  CallNumbering'
  <2>1. NoInvite
    BY <1>3, <1>6, MovedNoInvite DEF RecvFailure, Timeout
  <2>2. SameCall
    BY <1>6 DEF RecvFailure, Timeout, AfterFailure, FailureCodes, calls, service,
                SameCall
  <2>3. QED
    BY <2>1, <2>2, StillNumbered
<1>7. 404 \in FailureCodes
  BY DEF FailureCodes
<1>8. QED
  BY <1>1, <1>2, <1>4, <1>5, <1>6, <1>7 DEF ProcessResponse

LEMMA StepNumbered ==
    TypeOK /\ TypeOK' /\ CallNumbering /\ [Next]_vars => CallNumbering'
<1>1. ASSUME CallNumbering, UNCHANGED vars
      PROVE  CallNumbering'
  BY <1>1 DEF vars, CallNumbering, Fresh
<1>2. QED
  BY <1>1, UserNumbered, RequestNumbered, ResponseNumbered DEF Next

(* callSequence never falls behind the INVITEs of the current call; as long *)
(* as a 200 would be acknowledged it is the number of every one of them,    *)
(* challenged or not, unless the call being set up took no Call-ID.         *)
THEOREM NumberingCorrect == Spec => []CallNumbering
<1>1. Init => CallNumbering
  BY DEF Init, CallNumbering, Unused
<1>2. QED
  BY <1>1, StepNumbered, TypeCorrect, PTL DEF Spec

(* The ACK of a call sends the CSeq of its INVITE back, after any number of *)
(* challenges, resets and calls in between; a later one if the call being   *)
(* set up took no Call-ID.                                                  *)
AckStep ==
    \A t \in Txs : (tx[t].ack = 0 /\ tx'[t].ack # 0 /\ tx[t].call = callID)
                      => /\ tx'[t].ack >= tx[t].cseq
                         /\ ~stale => tx'[t].ack = tx[t].cseq

(* A step that acknowledges nothing.                                        *)
NoAck == \A t \in Txs : tx'[t].ack \in {tx[t].ack, 0}

LEMMA NoAckStep == NoAck => AckStep
  BY DEF NoAck, AckStep

LEMMA OpenedNoAck ==
    ASSUME NEW f \in [Txs -> TxRecord], NEW t \in Fresh, NEW m, NEW c, NEW n, NEW p,
           \A u \in Txs : f[u].ack = tx[u].ack,
           tx' = Opened(f, t, m, c, n, p)
    PROVE  NoAck
<1>1. t \in Txs
  BY FreshType
<1>2. /\ \A u \in Txs : u # t => tx'[u] = f[u]
      /\ tx'[t] = [method |-> m, call |-> c, cseq |-> n, ack |-> 0, phase |-> p]
  BY <1>1 DEF Opened
<1>3. QED
  BY <1>2 DEF NoAck

LEMMA MovedAck ==
    ASSUME TypeOK, NEW t \in Txs, NEW p \in Phases
    PROVE  /\ Moved(t, p) \in [Txs -> TxRecord]
           /\ \A u \in Txs : Moved(t, p)[u].ack = tx[u].ack
<1>1. Moved(t, p) \in [Txs -> TxRecord]
  BY MovedType
<1>2. QED
  BY <1>1 DEF Moved, TypeOK, TxRecord

LEMMA UserAcksNothing ==
    ASSUME TypeOK, User
    PROVE  NoAck
<1>1. CASE UNCHANGED tx
  BY <1>1 DEF NoAck
<1>2. ASSUME NEW t \in Fresh, NEW m, NEW c, NEW n, NEW p,
             tx' = Opened(tx, t, m, c, n, p)
      PROVE  NoAck
  BY <1>2, OpenedNoAck DEF TypeOK
<1>3. CASE HangUp
  <2>1. PICK t \in Fresh :
           LET sent == Opened(tx, t, "BYE", None, 0, "open")
           IN  tx' = sent \/ (/\ dialog \in Txs
                              /\ tx' = [sent EXCEPT ![dialog].phase = "ended"])
    BY <1>3 DEF HangUp
  <2>2. t \in Txs
    BY FreshType
  <2>3. QED
    BY <2>1, <2>2 DEF NoAck, Opened, TypeOK, TxRecord
<1>4. CASE RegisterProfile \/ UnregisterProfile
  BY <1>1, <1>2, <1>4
     DEF RegisterProfile, UnregisterProfile, Registration, RegisterSent, RegisterFailed
<1>5. CASE SendInvite
  BY <1>1, <1>2, <1>5 DEF SendInvite, InviteSent, InviteFailed
<1>6. CASE Cancel
  BY <1>2, <1>6 DEF Cancel
<1>7. QED
  BY <1>1, <1>3, <1>4, <1>5, <1>6
     DEF User, CreateInstance, AcceptCall, DeclineCall, ConfirmStateAndReset

LEMMA RequestAcksNothing ==
    ASSUME TypeOK, ProcessRequest
    PROVE  NoAck
<1>1. CASE UNCHANGED tx
  BY <1>1 DEF NoAck
<1>2. ASSUME NEW t \in Txs, tx' = [tx EXCEPT ![t].phase = "ended"]
      PROVE  NoAck
  BY <1>2 DEF NoAck, TypeOK, TxRecord
<1>3. QED
  BY <1>1, <1>2
     DEF ProcessRequest, RecvInviteBusy, RecvInviteUnusable, RecvInviteNoCodec,
         RecvInviteForUs, RecvInviteNotFound, RecvCancel, RecvAck, RecvBye, Keeps

LEMMA ProcessOKAcks ==
    ASSUME TypeOK, CallNumbering, NEW t \in Txs, tx[t].method = "INVITE",
           NEW st \in States, st \in {state, "RINGING"},
           st = "RINGING" => state \in {"CALLING", "RINGING"},
           NEW body, NEW early, NEW p \in Phases, ProcessOK(t, st, body, early, p)
    PROVE  AckStep
<1>1. CASE tx' = Moved(t, p)
  BY <1>1, MovedAck, NoAckStep DEF NoAck
<1>2. CASE Established(t) /\ state \in {"CALLING", "RINGING"}
  <2>1. tx'[t].ack = callSeq /\ \A u \in Txs : u # t => tx'[u].ack = tx[u].ack
    BY <1>2 DEF Established, TypeOK, TxRecord
  <2>2. tx[t].call = callID => /\ tx[t].cseq <= callSeq
                               /\ ~stale => tx[t].cseq = callSeq
    BY <1>2 DEF CallNumbering
  <2>3. callSeq \in Nat /\ tx[t].cseq \in Nat
    BY DEF TypeOK, TxRecord
  <2>4. tx[t].call = callID => /\ tx'[t].ack >= tx[t].cseq
                               /\ ~stale => tx'[t].ack = tx[t].cseq
    BY <2>1, <2>2, <2>3
  <2>5. QED
    BY <2>1, <2>4 DEF AckStep
<1>3. QED
  BY <1>1, <1>2 DEF ProcessOK, AckThrows, AnswerUnusable

LEMMA ResponseAcks ==
    ASSUME TypeOK, CallNumbering, ProcessResponse
    PROVE  AckStep
<1>1. ASSUME NEW t \in Txs, NEW body \in BOOLEAN, RecvRinging(t, body)
      PROVE  AckStep
  <2>1. /\ (IF state = "CALLING" THEN "RINGING" ELSE state) \in States
        /\ "early" \in Phases
    BY DEF TypeOK, States, Phases
  <2>2. QED
    BY <1>1, <2>1, ProcessOKAcks DEF RecvRinging
<1>2. ASSUME NEW t \in Txs, NEW body \in BOOLEAN, RecvOK(t, body)
      PROVE  AckStep
  <2>1. (IF tx[t].method = "INVITE" THEN "answered" ELSE "closed") \in Phases
    BY DEF Phases
  <2>2. CASE tx[t].method = "INVITE"
    BY <1>2, <2>1, <2>2, ProcessOKAcks DEF RecvOK, TypeOK
  <2>3. CASE tx[t].method # "INVITE"
    BY <1>2, <2>1, <2>3, MovedAck, NoAckStep DEF RecvOK, ProcessOK, NoAck
  <2>4. QED
    BY <2>2, <2>3
<1>3. ASSUME NEW t \in Txs, NEW f \in {tx, Moved(t, "closed")},
             NEW u \in Fresh, NEW m, NEW c, NEW n, NEW p,
             tx' = f \/ tx' = Opened(f, u, m, c, n, p)
      PROVE  AckStep
  <2>1. "closed" \in Phases
    BY DEF Phases
  <2>2. f \in [Txs -> TxRecord] /\ \A v \in Txs : f[v].ack = tx[v].ack
    BY <2>1, MovedAck DEF TypeOK
  <2>3. NoAck
    BY <1>3, <2>2, OpenedNoAck DEF NoAck
  <2>4. QED
    BY <2>3, NoAckStep
<1>4. ASSUME NEW t \in Txs, tx' = Moved(t, "closed")
      PROVE  AckStep
  BY <1>4, MovedAck, NoAckStep DEF Phases, NoAck
<1>5. ASSUME NEW t \in Txs, RecvUnauthorized(t) \/ RecvProxyAuthRequired(t)
      PROVE  AckStep
  BY <1>3, <1>4, <1>5
     DEF RecvUnauthorized, RecvProxyAuthRequired, RegisterSent, RegisterFailed,
         InviteSent, InviteFailed
<1>6. ASSUME NEW t \in Txs, NEW code \in FailureCodes,
             RecvFailure(t, code) \/ Timeout(t)
      PROVE  AckStep
  BY <1>4, <1>6 DEF RecvFailure, Timeout
<1>7. 404 \in FailureCodes
  BY DEF FailureCodes
<1>8. QED
  BY <1>1, <1>2, <1>5, <1>6, <1>7 DEF ProcessResponse

(* The number read when the ACK is built is never below that of the INVITE, *)
(* and it is that number unless the call being set up took no Call-ID, for  *)
(* the whole life of the phone.                                             *)
THEOREM AckSeqCorrect == Spec => AckSeqMatches
<1>1. TypeOK /\ CallNumbering /\ [Next]_vars => [AckStep]_vars
  BY UserAcksNothing, RequestAcksNothing, ResponseAcks, NoAckStep DEF Next
<1>2. QED
  BY <1>1, TypeCorrect, NumberingCorrect, PTL DEF Spec, AckSeqMatches, AckStep

-------------------------------------------------------------------------------
(* The server transaction.                                                  *)

(* Only an INVITE that arrived is remembered or answered.                   *)
OnlyArrived ==
    /\ request # None => invite[request] # "new"
    /\ serverTx # None => invite[serverTx] # "new"

(* No step takes back the arrival of an INVITE.                             *)
LEMMA StaysArrived ==
    ASSUME TypeOK, [Next]_vars
    PROVE  \A i \in Invites : invite[i] # "new" => invite'[i] # "new"
<1>1. CASE UNCHANGED invite
  BY <1>1
<1>2. ASSUME NEW inv \in [Invites -> InviteStatus], NEW i \in Invites,
             NEW answer \in InviteStatus \ {"new"},
             \A j \in Invites : invite[j] # "new" => inv[j] # "new",
             Reply(inv, i, answer) \/ ReplyThrows(inv, i)
      PROVE  \A j \in Invites : invite[j] # "new" => invite'[j] # "new"
  BY <1>2 DEF Reply, ReplyThrows, Replied
<1>3. ASSUME NEW i \in Invites, NEW s \in InviteStatus \ {"new"},
             invite' = [invite EXCEPT ![i] = s]
      PROVE  \A j \in Invites : invite[j] # "new" => invite'[j] # "new"
  BY <1>3 DEF TypeOK
<1>4. {"ok", "declined", "busy", "ringing", "notfound", "unreadable", "cancelled",
       "confirmed", "ended"} \subseteq InviteStatus \ {"new"}
  BY DEF InviteStatus
<1>5. ASSUME NEW i \in Invites
      PROVE  /\ Arrived(i) \in [Invites -> InviteStatus]
             /\ \A j \in Invites : invite[j] # "new" => Arrived(i)[j] # "new"
  BY DEF Arrived, TypeOK, InviteStatus
<1>6. CASE User
  <2>1. CASE AcceptCall
    BY <1>2, <1>4, <2>1 DEF AcceptCall, TypeOK
  <2>2. CASE DeclineCall
    BY <2>2 DEF DeclineCall, ReplyThrows, Replied, TypeOK
  <2>3. CASE HangUp
    BY <1>1, <1>3, <1>4, <2>3 DEF HangUp, LiveDialog
  <2>4. QED
    BY <1>1, <1>6, <2>1, <2>2, <2>3
       DEF User, CreateInstance, RegisterProfile, UnregisterProfile, Registration,
           SendInvite, Cancel, ConfirmStateAndReset
<1>7. CASE ProcessRequest
  <2>1. ASSUME NEW i \in Invites,
               \/ RecvInviteBusy(i)
               \/ RecvInviteForUs(i)
               \/ RecvInviteNotFound(i)
        PROVE  \A j \in Invites : invite[j] # "new" => invite'[j] # "new"
    BY <1>2, <1>4, <1>5, <2>1
       DEF RecvInviteBusy, RecvInviteForUs, RecvInviteNotFound
  <2>2. ASSUME NEW i \in Invites, RecvInviteNoCodec(i)
        PROVE  \A j \in Invites : invite[j] # "new" => invite'[j] # "new"
    BY <1>2, <1>4, <1>5, <2>2 DEF RecvInviteNoCodec, TypeOK
  <2>3. ASSUME NEW i \in Invites,
               RecvInviteUnusable(i) \/ RecvCancel(i) \/ RecvAck(i)
        PROVE  \A j \in Invites : invite[j] # "new" => invite'[j] # "new"
    BY <1>3, <1>4, <2>3 DEF RecvInviteUnusable, RecvCancel, RecvAck
  <2>4. CASE RecvBye
    BY <1>1, <1>3, <1>4, <2>4 DEF RecvBye
  <2>5. QED
    BY <1>7, <2>1, <2>2, <2>3, <2>4 DEF ProcessRequest
<1>8. CASE ProcessResponse
  BY <1>1, <1>8
     DEF ProcessResponse, RecvRinging, RecvOK, RecvUnauthorized,
         RecvProxyAuthRequired, RecvFailure, Timeout, calls
<1>9. QED
  BY <1>1, <1>6, <1>7, <1>8 DEF Next, vars

LEMMA ArrivedOnly ==
    ASSUME TypeOK, TypeOK', OnlyArrived, [Next]_vars
    PROVE  OnlyArrived'
<1>1. \A i \in Invites : invite[i] # "new" => invite'[i] # "new"
  BY StaysArrived
<1>2. ASSUME NEW inv \in [Invites -> InviteStatus], NEW i \in Invites, NEW answer,
             answer # "new", inv[i] # "new",
             Reply(inv, i, answer) \/ ReplyThrows(inv, i)
      PROVE  invite'[i] # "new" /\ serverTx' \in {serverTx, i}
  BY <1>2 DEF Reply, ReplyThrows, Replied, Slot
<1>3. ASSUME NEW i \in Invites, RecvInvite(i)
      PROVE  Arrived(i) \in [Invites -> InviteStatus] /\ Arrived(i)[i] # "new"
  BY DEF Arrived, TypeOK, InviteStatus
<1>4. CASE Reset
  BY <1>4 DEF Reset, OnlyArrived
<1>5. CASE UNCHANGED <<request, serverTx>>
  BY <1>1, <1>5 DEF OnlyArrived, TypeOK
<1>6. CASE AcceptCall \/ DeclineCall
  <2>1. CASE /\ request # None
             /\ Reply(invite, request, "ok") \/ ReplyThrows(invite, request)
             /\ UNCHANGED request
    <3>1. request \in Invites /\ invite[request] # "new"
      BY <2>1 DEF TypeOK, OnlyArrived
    <3>2. invite'[request] # "new" /\ serverTx' \in {serverTx, request}
      BY <1>2, <2>1, <3>1 DEF TypeOK
    <3>3. QED
      BY <1>1, <2>1, <3>1, <3>2 DEF OnlyArrived, TypeOK
  <2>2. QED
    BY <1>4, <1>6, <2>1 DEF AcceptCall, DeclineCall, service
<1>7. ASSUME NEW i \in Invites, NEW answer \in {"busy", "ringing", "notfound"},
             RecvInvite(i), request' \in {request, i},
             Reply(Arrived(i), i, answer) \/ ReplyThrows(Arrived(i), i)
      PROVE  OnlyArrived'
  <2>1. invite'[i] # "new" /\ serverTx' \in {serverTx, i}
    BY <1>2, <1>3, <1>7
  <2>2. QED
    BY <1>1, <1>7, <2>1 DEF OnlyArrived, TypeOK
<1>8. ASSUME NEW i \in Invites, RecvInviteNoCodec(i)
      PROVE  OnlyArrived'
  <2>1. CASE request = None
    BY <1>5, <1>8, <2>1 DEF RecvInviteNoCodec
  <2>2. CASE request # None
    <3>1. request \in Invites /\ Arrived(i)[request] # "new"
      BY <2>2 DEF OnlyArrived, Arrived, TypeOK
    <3>2. invite'[request] # "new" /\ serverTx' \in {serverTx, request}
      BY <1>2, <1>3, <1>8, <2>2, <3>1 DEF RecvInviteNoCodec
    <3>3. QED
      BY <1>1, <1>8, <3>1, <3>2 DEF RecvInviteNoCodec, OnlyArrived, TypeOK
  <2>3. QED
    BY <2>1, <2>2
<1>9. CASE User
  BY <1>4, <1>5, <1>6, <1>9
     DEF User, CreateInstance, RegisterProfile, UnregisterProfile, Registration,
         SendInvite, HangUp, Cancel, ConfirmStateAndReset, calls, service
<1>10. CASE ProcessRequest
  BY <1>4, <1>5, <1>7, <1>8, <1>10
     DEF ProcessRequest, RecvInviteBusy, RecvInviteUnusable, RecvInviteForUs,
         RecvInviteNotFound, RecvCancel, RecvAck, RecvBye
<1>11. CASE ProcessResponse
  BY <1>5, <1>11
     DEF ProcessResponse, RecvRinging, RecvOK, RecvUnauthorized,
         RecvProxyAuthRequired, RecvFailure, Timeout, calls, service
<1>12. QED
  BY <1>5, <1>9, <1>10, <1>11 DEF Next, vars

(* Only an INVITE that arrived is remembered or answered, in every state.   *)
LEMMA ArrivedInv == Spec => []OnlyArrived
<1>1. Init => OnlyArrived
  BY DEF Init, OnlyArrived
<1>2. TypeOK /\ TypeOK' /\ OnlyArrived /\ [Next]_vars => OnlyArrived'
  BY ArrivedOnly
<1>3. QED
  BY <1>1, <1>2, TypeCorrect, PTL DEF Spec

(* A call is announced only through a server transaction of its own: none   *)
(* is left from an earlier INVITE, and no session is.                       *)
THEOREM AnnouncedCorrect == Spec => AnnouncedOncePerReset
<1>1. TypeOK /\ OnlyArrived /\ [Next]_vars =>
         [(state # "INCOMING" /\ state' = "INCOMING")
             => serverTx = None /\ session = None]_vars
  <2>1. SUFFICES ASSUME TypeOK, OnlyArrived, Next,
                        state # "INCOMING", state' = "INCOMING"
                 PROVE  serverTx = None /\ session = None
    BY DEF vars
  <2>2. ~User
    BY <2>1 DEF User, CreateInstance, RegisterProfile, UnregisterProfile,
                Registration, SendInvite, AcceptCall, DeclineCall, HangUp, Cancel,
                ConfirmStateAndReset, Reset, service
  <2>3. ~ProcessResponse
    <3>1. ASSUME NEW t \in Txs, NEW st \in States, NEW body, NEW early, NEW p,
                 ProcessOK(t, st, body, early, p)
          PROVE  st = "INCOMING"
      BY <2>1, <3>1, ProcessOKKeepsIncoming
    <3>2. /\ state \in States
          /\ (IF state = "CALLING" THEN "RINGING" ELSE state) \in States
      BY <2>1 DEF TypeOK, States
    <3>3. \A t \in Txs, body \in BOOLEAN : ~RecvRinging(t, body) /\ ~RecvOK(t, body)
      BY <2>1, <3>1, <3>2 DEF RecvRinging, RecvOK
    <3>4. \A t \in Txs : ~RecvUnauthorized(t) /\ ~RecvProxyAuthRequired(t)
      BY <2>1 DEF RecvUnauthorized, RecvProxyAuthRequired
    <3>5. \A t \in Txs, code \in FailureCodes : ~RecvFailure(t, code)
      BY <2>1 DEF RecvFailure, AfterFailure, FailureCodes
    <3>6. \A t \in Txs : ~Timeout(t)
      BY <2>1 DEF Timeout, service
    <3>7. QED
      BY <3>3, <3>4, <3>5, <3>6 DEF ProcessResponse
  <2>4. PICK i \in Invites : RecvInviteForUs(i)
    BY <2>1, <2>2, <2>3
       DEF Next, ProcessRequest, RecvInviteBusy, RecvInviteUnusable,
           RecvInviteNoCodec, RecvInviteNotFound, RecvCancel, RecvAck, RecvBye, Reset
  <2>5. Slot(i) = i /\ session = None /\ invite[i] = "new"
    BY <2>1, <2>4 DEF RecvInviteForUs, RecvInvite, Reply, CanReply
  <2>6. QED
    BY <2>1, <2>5 DEF Slot, OnlyArrived
<1>2. QED
  BY <1>1, TypeCorrect, ArrivedInv, PTL DEF Spec, AnnouncedOncePerReset

-------------------------------------------------------------------------------
(* Callers that are never answered.  An INVITE has arrived, nothing went    *)
(* out to it, and currentRequest, which acceptCall, declineCall and the 603 *)
(* of processRequest answer, is not that INVITE.                            *)
Unanswered(i) == invite[i] = "trying" /\ request # i

LEMMA UserLeavesUnanswered ==
    ASSUME TypeOK, User, NEW i \in Invites, Unanswered(i)
    PROVE  Unanswered(i)'
<1>1. i # None
  BY SipServiceAssumption
<1>2. CASE request' \in {request, None} /\ invite'[i] = invite[i]
  BY <1>1, <1>2 DEF Unanswered
<1>3. ASSUME NEW answer, request \in Invites,
             \/ Reply(invite, request, answer)
             \/ ReplyThrows(invite, request)
             \/ invite' = Replied(invite, request, answer)
      PROVE  invite'[i] = invite[i]
  BY <1>3 DEF Reply, ReplyThrows, Replied, Unanswered, TypeOK
<1>4. CASE AcceptCall
  <2>1. request \in Invites
    BY <1>4 DEF AcceptCall, TypeOK
  <2>2. QED
    BY <1>2, <1>3, <1>4, <2>1 DEF AcceptCall, service
<1>5. CASE DeclineCall
  <2>1. request' \in {request, None}
    BY <1>5 DEF DeclineCall, Reset, service
  <2>2. CASE request = None
    BY <1>2, <1>5, <2>1, <2>2 DEF DeclineCall
  <2>3. CASE request # None
    <3>1. request \in Invites
      BY <2>3 DEF TypeOK
    <3>2. QED
      BY <1>2, <1>3, <1>5, <2>1, <2>3, <3>1 DEF DeclineCall
  <2>4. QED
    BY <2>2, <2>3
(* The BYE of endCall goes to a dialog that is confirmed.                   *)
<1>6. CASE HangUp
  <2>1. request' = None
    BY <1>6 DEF HangUp, Reset
  <2>2. CASE dialog \in Txs
    BY <1>2, <1>6, <2>1, <2>2 DEF HangUp
  <2>3. CASE dialog \notin Txs
    <3>1. invite' = [invite EXCEPT ![dialog] = "ended"] /\ dialog # i
      BY <1>6, <2>3 DEF HangUp, LiveDialog, Unanswered
    <3>2. QED
      BY <1>2, <2>1, <3>1 DEF TypeOK
  <2>4. QED
    BY <2>2, <2>3
<1>7. CASE CreateInstance \/ RegisterProfile \/ UnregisterProfile \/ SendInvite
  BY <1>2, <1>7
     DEF CreateInstance, RegisterProfile, UnregisterProfile, Registration, SendInvite
<1>8. CASE Cancel \/ ConfirmStateAndReset
  BY <1>2, <1>8 DEF Cancel, ConfirmStateAndReset, Reset, service
<1>9. QED
  BY <1>4, <1>5, <1>6, <1>7, <1>8 DEF User

LEMMA RequestLeavesUnanswered ==
    ASSUME TypeOK, ProcessRequest, NEW i \in Invites, Unanswered(i)
    PROVE  Unanswered(i)'
<1>1. i # None /\ invite[i] = "trying" /\ request # i
  BY SipServiceAssumption DEF Unanswered
<1>2. ASSUME NEW j \in Invites, RecvInvite(j)
      PROVE  j # i /\ Arrived(j)[i] = "trying"
  BY <1>1, <1>2 DEF RecvInvite, Arrived, TypeOK
<1>3. ASSUME NEW j \in Invites, NEW k \in Invites, NEW answer, RecvInvite(j), k # i,
             Reply(Arrived(j), k, answer) \/ ReplyThrows(Arrived(j), k)
      PROVE  invite'[i] = "trying"
  <2>1. Arrived(j)[i] = "trying" /\ Arrived(j) \in [Invites -> InviteStatus]
    BY <1>2, <1>3, ArrivedType
  <2>2. QED
    BY <1>3, <2>1 DEF Reply, ReplyThrows, Replied
<1>4. ASSUME NEW j \in Invites,
             RecvInviteBusy(j) \/ RecvInviteForUs(j) \/ RecvInviteNotFound(j)
      PROVE  Unanswered(i)'
  <2>1. RecvInvite(j) /\ j # i /\ request' \in {request, j}
    BY <1>2, <1>4
       DEF RecvInviteBusy, RecvInviteForUs, RecvInviteNotFound
  <2>2. invite'[i] = "trying"
    BY <1>3, <1>4, <2>1 DEF RecvInviteBusy, RecvInviteForUs, RecvInviteNotFound
  <2>3. QED
    BY <1>1, <2>1, <2>2 DEF Unanswered
<1>5. ASSUME NEW j \in Invites, RecvInviteNoCodec(j)
      PROVE  Unanswered(i)'
  <2>1. RecvInvite(j) /\ request' = request
    BY <1>5 DEF RecvInviteNoCodec
  <2>2. CASE request = None
    BY <1>1, <1>2, <1>5, <2>1, <2>2 DEF RecvInviteNoCodec, Unanswered
  <2>3. CASE request # None
    <3>1. request \in Invites
      BY <2>3 DEF TypeOK
    <3>2. invite'[i] = "trying"
      BY <1>1, <1>3, <1>5, <2>1, <2>3, <3>1 DEF RecvInviteNoCodec
    <3>3. QED
      BY <1>1, <2>1, <3>2 DEF Unanswered
  <2>4. QED
    BY <2>2, <2>3
(* A CANCEL, an ACK or a BYE is for an INVITE this phone answered.          *)
<1>6. ASSUME NEW j \in Invites, NEW s, invite[j] # "trying",
             invite' = [invite EXCEPT ![j] = s], request' \in {request, None}
      PROVE  Unanswered(i)'
  BY <1>1, <1>6 DEF Unanswered, TypeOK
<1>7. ASSUME NEW j \in Invites,
             RecvInviteUnusable(j) \/ RecvCancel(j) \/ RecvAck(j)
      PROVE  Unanswered(i)'
  BY <1>6, <1>7 DEF RecvInviteUnusable, RecvInvite, RecvCancel, RecvAck, Reset
<1>8. CASE RecvBye
  <2>1. request' = None
    BY <1>8 DEF RecvBye, Reset
  <2>2. CASE UNCHANGED invite
    BY <1>1, <2>1, <2>2 DEF Unanswered
  <2>3. QED
    BY <1>6, <1>8, <2>1, <2>2 DEF RecvBye
<1>9. QED
  BY <1>4, <1>5, <1>7, <1>8 DEF ProcessRequest

LEMMA StaysUnanswered ==
    ASSUME TypeOK, [Next]_vars, NEW i \in Invites, Unanswered(i)
    PROVE  Unanswered(i)'
<1>1. CASE UNCHANGED <<request, invite>>
  BY <1>1 DEF Unanswered
<1>2. CASE ProcessResponse
  BY <1>1, <1>2
     DEF ProcessResponse, RecvRinging, RecvOK, RecvUnauthorized,
         RecvProxyAuthRequired, RecvFailure, Timeout, calls, service
<1>3. QED
  BY <1>1, <1>2, UserLeavesUnanswered, RequestLeavesUnanswered DEF Next, vars

(* A caller that is neither answered when the INVITE is handled nor         *)
(* remembered in currentRequest is never answered: no button and no later   *)
(* event reaches it, for the life of the phone.                             *)
THEOREM NeverAnswered ==
    ASSUME NEW i \in Invites
    PROVE  Spec => [](Unanswered(i) => []Unanswered(i))
<1>1. TypeOK /\ [Next]_vars /\ Unanswered(i) => Unanswered(i)'
  BY StaysUnanswered
<1>2. QED
  BY <1>1, TypeCorrect, PTL DEF Spec

(* The branch of processRequest for an INVITE without a common codec, which *)
(* its comment says declines it, leaves every such caller in that state:    *)
(* the 603 is made from currentRequest, which is never this INVITE.         *)
THEOREM NoCodecUnanswered ==
    ASSUME NEW i \in Invites
    PROVE  Spec => [][RecvInviteNoCodec(i) => Unanswered(i)']_vars
<1>1. ASSUME TypeOK, OnlyArrived, RecvInviteNoCodec(i)
      PROVE  Unanswered(i)'
  <2>1. invite[i] = "new" /\ request' = request /\ i # None
    BY <1>1, SipServiceAssumption DEF RecvInviteNoCodec, RecvInvite
  <2>2. Arrived(i)[i] = "trying"
    BY <1>1 DEF Arrived, TypeOK
  <2>3. CASE request = None
    BY <1>1, <2>1, <2>2, <2>3 DEF RecvInviteNoCodec, Unanswered
  <2>4. CASE request # None
    <3>1. request \in Invites /\ request # i
      BY <1>1, <2>1, <2>4 DEF OnlyArrived, TypeOK
    <3>2. Arrived(i) \in [Invites -> InviteStatus]
      BY <1>1, ArrivedType
    <3>3. invite'[i] = "trying"
      BY <1>1, <2>2, <2>4, <3>1, <3>2
         DEF RecvInviteNoCodec, Reply, ReplyThrows, Replied
    <3>4. QED
      BY <2>1, <3>1, <3>3 DEF Unanswered
  <2>5. QED
    BY <2>3, <2>4
<1>2. QED
  BY <1>1, TypeCorrect, ArrivedInv, PTL DEF Spec

(* sendBusyHere reaches the second caller exactly when no INVITE holds the  *)
(* server transaction: then, unless the stack fails, that caller has its    *)
(* 486 and holds it; otherwise the 486 is refused, the state is ERROR and   *)
(* the caller is left in the state NeverAnswered is about.                  *)
THEOREM BusyOncePerReset ==
    ASSUME NEW i \in Invites
    PROVE  Spec =>
             [][RecvInviteBusy(i) =>
                  IF serverTx = None
                  THEN \/ invite'[i] = "busy" /\ serverTx' = i
                       \/ Faults /\ state' = "ERROR" /\ Unanswered(i)'
                  ELSE state' = "ERROR" /\ Unanswered(i)']_vars
<1>1. ASSUME TypeOK, OnlyArrived, RecvInviteBusy(i)
      PROVE  IF serverTx = None
             THEN \/ invite'[i] = "busy" /\ serverTx' = i
                  \/ Faults /\ state' = "ERROR" /\ Unanswered(i)'
             ELSE state' = "ERROR" /\ Unanswered(i)'
  <2>1. invite[i] = "new" /\ request' = request /\ request # i
    BY <1>1, SipServiceAssumption DEF RecvInviteBusy, RecvInvite, OnlyArrived
  <2>2. Arrived(i)[i] = "trying" /\ Arrived(i) \in [Invites -> InviteStatus]
    BY <1>1, ArrivedType DEF Arrived, TypeOK
  <2>3. CASE Reply(Arrived(i), i, "busy")
    <3>1. Slot(i) = i
      BY <2>3 DEF Reply, CanReply
    <3>2. serverTx = None
      BY <1>1, <2>1, <3>1 DEF Slot, OnlyArrived
    <3>3. invite'[i] = "busy" /\ serverTx' = i
      BY <2>2, <2>3 DEF Reply, Replied, Pending
    <3>4. QED
      BY <3>2, <3>3
  <2>4. CASE ReplyThrows(Arrived(i), i) /\ state' = "ERROR"
    <3>1. Unanswered(i)'
      BY <2>1, <2>2, <2>4 DEF ReplyThrows, Unanswered
    <3>2. serverTx = None => Faults
      BY <2>2, <2>4 DEF ReplyThrows, Slot, Pending
    <3>3. QED
      BY <2>4, <3>1, <3>2
  <2>5. QED
    BY <1>1, <2>3, <2>4 DEF RecvInviteBusy
<1>2. QED
  BY <1>1, TypeCorrect, ArrivedInv, PTL DEF Spec

-------------------------------------------------------------------------------
(* Which ACK may establish a call.                                          *)

(* While an incoming call is shown as established, its own ACK has come.    *)
SessionAcked ==
    state = "ESTABLISHED" /\ session \in Invites => invite[session] = "confirmed"

(* The steps that end in ESTABLISHED: an ACK, an answer to an own INVITE,   *)
(* or one that leaves the established call as it is.                        *)
UpStep ==
    \/ \E i \in Invites : RecvAck(i)
    \/ session' \in Txs /\ dialog' = session'
    \/ /\ state = "ESTABLISHED" /\ UNCHANGED <<session, dialog>>
       /\ \A i \in Invites : invite[i] = "confirmed" => invite'[i] = "confirmed"

LEMMA UserUp ==
    ASSUME TypeOK, User, state' = "ESTABLISHED"
    PROVE  UpStep
<1>1. ~Reset
  BY DEF Reset
<1>2. CASE AcceptCall
  <2>1. request \in Invites
    BY <1>2 DEF AcceptCall, TypeOK
  <2>2. \A i \in Invites : invite[i] = "confirmed" => invite'[i] = "confirmed"
    BY <1>2, <2>1, ReplyKeeps DEF AcceptCall, TypeOK
  <2>3. QED
    BY <1>2, <2>2 DEF AcceptCall, service, UpStep
<1>3. CASE DeclineCall
  BY <1>1, <1>3 DEF DeclineCall, ReplyThrows, service, UpStep
<1>4. CASE Cancel
  BY <1>1, <1>4 DEF Cancel, service
<1>5. QED
  BY <1>1, <1>2, <1>3, <1>4
     DEF User, CreateInstance, RegisterProfile, UnregisterProfile, Registration,
         SendInvite, HangUp, ConfirmStateAndReset

LEMMA RequestUp ==
    ASSUME TypeOK, EstablishedDialogLive, ProcessRequest, state' = "ESTABLISHED"
    PROVE  UpStep
<1>1. ASSUME NEW i \in Invites, RecvInviteBusy(i)
      PROVE  UpStep
  <2>1. \A j \in Invites : invite[j] = "confirmed" => invite'[j] = "confirmed"
    BY <1>1, ArrivedType, ArrivedKeeps, ReplyKeeps
       DEF RecvInviteBusy, InviteStatus
  <2>2. QED
    BY <1>1, <2>1 DEF RecvInviteBusy, Keeps, UpStep
<1>2. ASSUME NEW i \in Invites
      PROVE  ~RecvInviteNoCodec(i) /\ ~RecvInviteForUs(i) /\ ~RecvInviteNotFound(i)
  BY DEF RecvInviteNoCodec, RecvInviteForUs, RecvInviteNotFound,
         EstablishedDialogLive
<1>3. ASSUME NEW i \in Invites
      PROVE  ~RecvInviteUnusable(i) /\ ~RecvCancel(i)
  BY DEF RecvInviteUnusable, RecvCancel, Reset
<1>4. ~RecvBye
  BY DEF RecvBye, Reset
<1>5. QED
  BY <1>1, <1>2, <1>3, <1>4 DEF ProcessRequest, UpStep

LEMMA ProcessOKUp ==
    ASSUME NEW t \in Txs, NEW st \in States, NEW body, NEW early, NEW p,
           st = "ESTABLISHED" => state = "ESTABLISHED",
           UNCHANGED invite, ProcessOK(t, st, body, early, p), state' = "ESTABLISHED"
    PROVE  UpStep
<1>1. CASE Established(t)
  BY <1>1 DEF Established, UpStep
<1>2. CASE state' = AfterOK(st) /\ UNCHANGED <<session, dialog>>
  <2>1. st = "ESTABLISHED"
    BY <1>2 DEF AfterOK, States
  <2>2. QED
    BY <1>2, <2>1 DEF UpStep
<1>3. QED
  BY <1>1, <1>2 DEF ProcessOK, AckThrows, AnswerUnusable

LEMMA ResponseUp ==
    ASSUME TypeOK, EstablishedDialogLive, ProcessResponse, state' = "ESTABLISHED"
    PROVE  UpStep
<1>1. ASSUME NEW t \in Txs, NEW body \in BOOLEAN, RecvRinging(t, body)
      PROVE  UpStep
  <2>1. /\ (IF state = "CALLING" THEN "RINGING" ELSE state) \in States
        /\ (IF state = "CALLING" THEN "RINGING" ELSE state) = "ESTABLISHED"
              => state = "ESTABLISHED"
    BY DEF TypeOK, States
  <2>2. QED
    BY <1>1, <2>1, ProcessOKUp DEF RecvRinging
<1>2. ASSUME NEW t \in Txs, NEW body \in BOOLEAN, RecvOK(t, body)
      PROVE  UpStep
  BY <1>2, ProcessOKUp DEF RecvOK, TypeOK
<1>3. CASE state = "ESTABLISHED" /\ UNCHANGED <<session, dialog, invite>>
  BY <1>3 DEF UpStep
<1>4. ASSUME NEW t \in Txs, RecvUnauthorized(t) \/ RecvProxyAuthRequired(t)
      PROVE  UpStep
  <2>1. state = "ESTABLISHED"
    BY <1>4 DEF RecvUnauthorized, RecvProxyAuthRequired
  <2>2. session # None
    BY <2>1 DEF EstablishedDialogLive
  <2>3. QED
    BY <1>3, <1>4, <2>1, <2>2 DEF RecvUnauthorized, RecvProxyAuthRequired
<1>5. ASSUME NEW t \in Txs, NEW code \in FailureCodes, RecvFailure(t, code)
      PROVE  UpStep
  BY <1>3, <1>5 DEF RecvFailure, AfterFailure, FailureCodes, calls
<1>6. ASSUME NEW t \in Txs, Timeout(t)
      PROVE  UpStep
  BY <1>3, <1>6 DEF Timeout, service, calls
<1>7. QED
  BY <1>1, <1>2, <1>4, <1>5, <1>6 DEF ProcessResponse

(* An incoming call is shown as established without having been accepted    *)
(* only because of an ACK that belongs to another INVITE: as long as no     *)
(* such ACK comes while an incoming call is current, ESTABLISHED means what *)
(* its javadoc says.                                                        *)
THEOREM LateAckOnly ==
    /\ Spec
    /\ [][\A i \in Invites : RecvAck(i) /\ session \in Invites => session = i]_vars
    => []EstablishedWasAccepted
<1> DEFINE OnTime == \A i \in Invites : RecvAck(i) /\ session \in Invites
                                           => session = i
<1>1. Init => SessionAcked
  BY DEF Init, SessionAcked
<1>2. TypeOK /\ EstablishedDialogLive /\ SessionAcked /\ [Next]_vars /\ [OnTime]_vars
         => SessionAcked'
  <2>1. SUFFICES ASSUME TypeOK, EstablishedDialogLive, SessionAcked, Next, OnTime,
                        state' = "ESTABLISHED", session' \in Invites
                 PROVE  invite'[session'] = "confirmed"
    BY DEF vars, SessionAcked
  <2>2. UpStep
    BY <2>1, UserUp, RequestUp, ResponseUp DEF Next
  <2>3. ASSUME NEW i \in Invites, RecvAck(i)
        PROVE  invite'[session'] = "confirmed"
    <3>1. session' = session /\ session = i
      BY <2>1, <2>3 DEF RecvAck
    <3>2. QED
      BY <2>1, <2>3, <3>1 DEF RecvAck, TypeOK
  <2>4. session' \notin Txs
    BY <2>1, SipServiceAssumption
  <2>5. CASE /\ state = "ESTABLISHED" /\ UNCHANGED <<session, dialog>>
             /\ \A i \in Invites : invite[i] = "confirmed" => invite'[i] = "confirmed"
    BY <2>1, <2>5 DEF SessionAcked
  <2>6. QED
    BY <2>2, <2>3, <2>4, <2>5 DEF UpStep
<1>3. SessionAcked => EstablishedWasAccepted
  BY DEF SessionAcked, EstablishedWasAccepted
<1>4. QED
  BY <1>1, <1>2, <1>3, TypeCorrect, EstablishedCorrect, PTL DEF Spec

(* The dialog the BYE of endCall would use is that of the call shown.       *)
SessionDialog == state = "ESTABLISHED" => dialog = session

(* endCall of an established call hangs up the call that is shown, as long  *)
(* as an ACK comes only for the current session, or for none.  The ACK of   *)
(* an earlier INVITE would leave its own dialog in currentDialog: the BYE   *)
(* then ends that one and reset() forgets the other.                        *)
THEOREM HangUpEndsShown ==
    /\ Spec
    /\ [][\A i \in Invites : RecvAck(i) => session \in {i, None}]_vars
    => []SessionDialog
<1> DEFINE OnTime == \A i \in Invites : RecvAck(i) => session \in {i, None}
<1>1. Init => SessionDialog
  BY DEF Init, SessionDialog
<1>2. /\ TypeOK /\ EstablishedDialogLive /\ EstablishedDialogLive'
      /\ SessionDialog /\ [Next]_vars /\ [OnTime]_vars
      => SessionDialog'
  <2>1. SUFFICES ASSUME TypeOK, EstablishedDialogLive, EstablishedDialogLive',
                        SessionDialog, Next, OnTime, state' = "ESTABLISHED"
                 PROVE  dialog' = session'
    BY DEF vars, SessionDialog
  <2>2. UpStep
    BY <2>1, UserUp, RequestUp, ResponseUp DEF Next
  <2>3. ASSUME NEW i \in Invites, RecvAck(i)
        PROVE  dialog' = session'
    <3>1. session' = session /\ session # None
      BY <2>1, <2>3 DEF RecvAck, EstablishedDialogLive
    <3>2. session = i
      BY <2>1, <2>3, <3>1
    <3>3. QED
      BY <2>3, <3>1, <3>2 DEF RecvAck
  <2>4. CASE state = "ESTABLISHED" /\ UNCHANGED <<session, dialog>>
    BY <2>1, <2>4 DEF SessionDialog
  <2>5. QED
    BY <2>2, <2>3, <2>4 DEF UpStep
<1>3. QED
  BY <1>1, <1>2, TypeCorrect, EstablishedCorrect, PTL DEF Spec

===============================================================================
