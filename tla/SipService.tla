------------------------------ MODULE SipService ------------------------------
(***************************************************************************)
(* Call control of jay-sip: SipService (the SipListener with the state of  *)
(* the call), SipMessageHandler (the transactions, the dialog and the      *)
(* numbers every message is built from) and the SipManager entry points    *)
(* the user interface calls.                                               *)
(*                                                                         *)
(* One action is one whole handler: a button of the user interface, or     *)
(* one event the SIP stack delivers.  The stack itself (javax.sip) and the *)
(* remote parties are external: they decide which event comes next, and a  *)
(* stack call may throw.  Their part of the state is invite and tx.        *)
(***************************************************************************)
EXTENDS Naturals

CONSTANTS
    Invites,    \* the INVITE requests remote parties send to this phone
    Txs,        \* the client transactions this phone may open (a bound)
    MaxSeq,     \* the highest callSequence (a bound)
    None,       \* Java's null
    Faults      \* TRUE: stack calls may throw, responses be unusable

ASSUME SipServiceAssumption ==
    /\ None \notin Invites \cup Txs
    /\ Invites \cap Txs = {}
    /\ MaxSeq \in Nat
    /\ Faults \in BOOLEAN

VARIABLES
    handler,    \* sipMessageHandler # null: createInstance has run
    state,      \* currentState
    session,    \* currentSession, named by the INVITE that made the call
    contact,    \* currentContact # null (the demo has one contact)
    request,    \* currentRequest
    serverTx,   \* serverTransaction, named by its INVITE
    clientTx,   \* clientTransaction
    dialog,     \* currentDialog, named by the INVITE that created it
    callID,     \* currentCallID, named by the first transaction that used it
    callSeq,    \* callSequence
    stale,      \* history: the INVITE last asked for took no Call-ID
    invite,     \* what each remote INVITE has seen of this phone
    tx          \* what the stack knows of each client transaction

service == <<handler, state, session, contact, request>>
calls   == <<serverTx, clientTx, dialog, callID, callSeq, stale>>
vars    == <<handler, state, session, contact, request,
             serverTx, clientTx, dialog, callID, callSeq, stale, invite, tx>>

-------------------------------------------------------------------------------
(* SipManagerState; "NULL" is the field before createInstance.             *)
States == {"NULL", "IDLE", "REGISTERING", "UNREGISTERING", "READY", "CALLING",
           "RINGING", "ESTABLISHED", "INCOMING", "ERROR", "BUSY", "DECLINED",
           "INVALID"}

Calls == Invites \cup Txs

(* A remote INVITE: not sent yet; delivered and unanswered (unreadable when *)
(* it has no usable description); answered with a 180; with a 200           *)
(* (confirmed once its ACK is here); with a failure; cancelled by the       *)
(* caller; over after a BYE.                                                *)
InviteStatus == {"new", "unreadable", "trying", "ringing", "ok", "confirmed", "declined",
                 "busy", "notfound", "cancelled", "ended"}
Pending == {"trying", "ringing"}

(* A client transaction: cseq is the CSeq of its request (0 when the stack  *)
(* numbers it), call its Call-ID, ack the CSeq of the ACK sent (0 if none). *)
Methods == {"REGISTER", "INVITE", "CANCEL", "BYE"}
Phases  == {"unused", "open", "early", "answered", "acked", "closed", "ended"}
Unused  == [method |-> "REGISTER", call |-> None, cseq |-> 0, ack |-> 0,
            phase |-> "unused"]
TxRecord == [method : Methods, call : Txs \cup {None}, cseq : Nat, ack : Nat,
             phase : Phases]

TypeOK ==
    /\ handler \in BOOLEAN
    /\ state \in States
    /\ session \in Calls \cup {None}
    /\ contact \in BOOLEAN
    /\ request \in Invites \cup {None}
    /\ serverTx \in Invites \cup {None}
    /\ clientTx \in Txs \cup {None}
    /\ dialog \in Calls \cup {None}
    /\ callID \in Txs \cup {None}
    /\ callSeq \in Nat \ {0}
    /\ stale \in BOOLEAN
    /\ invite \in [Invites -> InviteStatus]
    /\ tx \in [Txs -> TxRecord]

Init ==
    /\ handler = FALSE
    /\ state = "NULL"
    /\ session = None
    /\ contact = FALSE
    /\ request = None
    /\ serverTx = None
    /\ clientTx = None
    /\ dialog = None
    /\ callID = None
    /\ callSeq = 1
    /\ stale = FALSE
    /\ invite = [i \in Invites |-> "new"]
    /\ tx = [t \in Txs |-> Unused]

-------------------------------------------------------------------------------
(* Requests this phone sends: one fresh client transaction each.  Where     *)
(* sending fails the transaction is lost ("closed").                        *)
Fresh == {t \in Txs : tx[t].phase = "unused"}

Opened(txs, t, m, c, n, p) ==
    [txs EXCEPT ![t] = [method |-> m, call |-> c, cseq |-> n, ack |-> 0,
                        phase |-> p]]

(* SipMessageHandler.register: each REGISTER has a Call-ID of its own.      *)
RegisterSent(txs) ==
    \E t \in Fresh : /\ tx' = Opened(txs, t, "REGISTER", t, callSeq, "open")
                     /\ clientTx' = t
RegisterFailed(txs) ==
    /\ Faults
    /\ \/ tx' = txs /\ UNCHANGED clientTx
       \/ \E t \in Fresh :
             /\ tx' = Opened(txs, t, "REGISTER", t, callSeq, "closed")
             /\ clientTx' = t

(* (Variant used as a mutant: the Call-ID is taken once per reset.)         *)
InviteSent_KeepsCallID(txs, retry) ==
    \E t \in Fresh :
          /\ callID' = IF callID # None THEN callID ELSE t
          /\ tx' = Opened(txs, t, "INVITE", callID', callSeq, "open")
          /\ clientTx' = t
          /\ dialog' = t

(* SipMessageHandler.sendInvite: a new call takes a new Call-ID, the answer *)
(* to a challenge repeats the current one.  Sending may fail before that,   *)
(* while the headers of the new call are made, or after it: a transaction   *)
(* stands for the Call-ID then, whether or not the stack got to see one.    *)
InviteSent(txs, retry) ==
    /\ retry => callID # None
    /\ \E t \in Fresh :
          /\ callID' = IF retry THEN callID ELSE t
          /\ tx' = Opened(txs, t, "INVITE", callID', callSeq, "open")
          /\ clientTx' = t
          /\ dialog' = t
InviteFailed(txs, retry) ==
    /\ Faults \/ (retry /\ callID = None)
    /\ UNCHANGED dialog
    /\ \/ tx' = txs /\ UNCHANGED <<callID, clientTx>>
       \/ \E t \in Fresh :
             /\ retry => callID # None
             /\ callID' = IF retry THEN callID ELSE t
             /\ tx' = Opened(txs, t, "INVITE", callID', callSeq, "closed")
             /\ clientTx' \in {clientTx, t}

(* A request whose final response has not come.                             *)
Underway(t) == handler /\ tx[t].phase \in {"open", "early"}

-------------------------------------------------------------------------------
(* Responses this phone sends.  They all leave through serverTransaction,   *)
(* which is created from the request only when it is null, and the stack    *)
(* refuses a response that does not belong to the transaction.              *)
(* (Variant used as a mutant: a server transaction for every request.)      *)
Slot_PerRequest(i) == i
Slot(i) == IF serverTx = None THEN i ELSE serverTx

Arrived(i) == [invite EXCEPT ![i] = "trying"]

CanReply(i) == Slot(i) = i
Replied(inv, i, answer) ==
    [inv EXCEPT ![i] = IF @ \in Pending THEN answer ELSE @]

ReplyThrows(inv, i) ==
    /\ Slot(i) # i \/ inv[i] \notin Pending \/ Faults
    /\ invite' = inv
    /\ serverTx' \in {serverTx, Slot(i)}
Reply(inv, i, answer) ==
    /\ CanReply(i)
    /\ invite' = Replied(inv, i, answer)
    /\ serverTx' = i

(* (Variant used as a mutant: the sequence restarts from zero.)             *)
Reset_FromZero ==
    /\ serverTx' = None
    /\ clientTx' = None
    /\ dialog' = None
    /\ callID' = None
    /\ callSeq' = 0
    /\ stale' = FALSE
    /\ contact' = FALSE
    /\ request' = None
    /\ session' = None
    /\ state' = "READY"
    /\ UNCHANGED handler

(* SipService.reset with SipMessageHandler.reset.                           *)
Reset ==
    /\ serverTx' = None
    /\ clientTx' = None
    /\ dialog' = None
    /\ callID' = None
    /\ callSeq' = 1
    /\ stale' = FALSE
    /\ contact' = FALSE
    /\ request' = None
    /\ session' = None
    /\ state' = "READY"
    /\ UNCHANGED handler

-------------------------------------------------------------------------------
(* The user interface.  A handler whose call throws shows nothing and does  *)
(* nothing more: what it had assigned stays, and the reset that SipManager  *)
(* appends to declineCall and endCall is skipped.                           *)

(* SipManager.test -> SipService.createInstance; the button may be pressed  *)
(* again at any time.                                                       *)
CreateInstance ==
    /\ handler' = TRUE
    /\ state' = "IDLE"
    /\ UNCHANGED <<session, contact, request, calls, invite, tx>>

(* registerProfile and unregisterProfile set the state before the message   *)
(* is built, so it stays when the handler is still null or sending throws.  *)
Registration(s) ==
    /\ state' = s
    /\ \/ ~handler /\ UNCHANGED <<tx, clientTx>>
       \/ handler /\ (RegisterSent(tx) \/ RegisterFailed(tx))
    /\ UNCHANGED <<handler, session, contact, request, serverTx, dialog,
                   callID, callSeq, stale, invite>>
RegisterProfile == Registration("REGISTERING")
UnregisterProfile == Registration("UNREGISTERING")

SendInvite ==
    /\ contact' = TRUE
    /\ session' = None
    /\ state' = "CALLING"
    /\ \/ ~handler /\ UNCHANGED <<tx, clientTx, dialog, callID>>
       \/ handler /\ (InviteSent(tx, FALSE) \/ InviteFailed(tx, FALSE))
    /\ stale' = (handler /\ tx' = tx)
    /\ UNCHANGED <<handler, request, serverTx, callSeq, invite>>

AcceptCall ==
    /\ request # None
    /\ Reply(invite, request, "ok") \/ ReplyThrows(invite, request)
    /\ UNCHANGED <<service, clientTx, dialog, callID, callSeq, stale, tx>>

DeclineCall ==
    /\ handler
    /\ \/ /\ request = None \/ CanReply(request)
          /\ invite' = IF request = None THEN invite
                       ELSE Replied(invite, request, "declined")
          /\ Reset
       \/ /\ request # None
          /\ ReplyThrows(invite, request)
          /\ UNCHANGED <<service, clientTx, dialog, callID, callSeq, stale>>
    /\ UNCHANGED tx

(* endCall of an established call: BYE on the current dialog.  When this    *)
(* throws nothing changes at all, so only the success is a step.            *)
LiveDialog(d) ==
    \/ d \in Invites /\ invite[d] = "confirmed"
    \/ d \in Txs /\ tx[d].phase = "acked"
HangUp ==
    /\ handler
    /\ state = "ESTABLISHED"
    /\ LiveDialog(dialog)
    /\ \E t \in Fresh :
          LET sent == Opened(tx, t, "BYE", None, 0, "open")
          IN  IF dialog \in Txs
              THEN /\ tx' = [sent EXCEPT ![dialog].phase = "ended"]
                   /\ UNCHANGED invite
              ELSE /\ tx' = sent
                   /\ invite' = [invite EXCEPT ![dialog] = "ended"]
    /\ Reset

(* endCall in every other state: CANCEL of whatever clientTransaction is.   *)
(* createCancel throws unless that is an INVITE.                            *)
Cancel ==
    /\ handler
    /\ state # "ESTABLISHED"
    /\ clientTx # None
    /\ tx[clientTx].method = "INVITE"
    /\ \E t \in Fresh :
          \/ /\ tx' = Opened(tx, t, "CANCEL", None, 0, "open")
             /\ Reset
          \/ /\ Faults \/ ~Underway(clientTx)
             /\ tx' = Opened(tx, t, "CANCEL", None, 0, "closed")
             /\ clientTx' = t
             /\ UNCHANGED <<service, serverTx, dialog, callID, callSeq, stale>>
    /\ UNCHANGED invite

(* confirmStateAndReset and close.                                          *)
ConfirmStateAndReset == handler /\ Reset /\ UNCHANGED <<invite, tx>>

-------------------------------------------------------------------------------
(* processRequest.  Each INVITE is delivered once: the stack absorbs its    *)
(* retransmissions.                                                         *)
Keeps == UNCHANGED <<handler, contact, clientTx, dialog, callID, callSeq, stale, tx>>

RecvInvite(i) == handler /\ invite[i] = "new"

(* A call is up or being set up: 486 through the one server transaction.    *)
RecvInviteBusy(i) ==
    /\ RecvInvite(i)
    /\ session # None
    /\ \/ Reply(Arrived(i), i, "busy") /\ UNCHANGED state
       \/ ReplyThrows(Arrived(i), i) /\ state' = "ERROR"
    /\ UNCHANGED <<session, request>> /\ Keeps

(* No body, or one that cannot be parsed.                                   *)
RecvInviteUnusable(i) ==
    /\ RecvInvite(i)
    /\ session = None
    /\ state' = "ERROR"
    /\ invite' = [invite EXCEPT ![i] = "unreadable"]
    /\ UNCHANGED <<session, request, serverTx>> /\ Keeps

(* No common audio format: createSDP returns null and the 603 is made from  *)
(* currentRequest, not from this request.                                   *)
RecvInviteNoCodec(i) ==
    /\ RecvInvite(i)
    /\ session = None
    /\ \/ /\ request = None
          /\ state' = "ERROR"
          /\ invite' = Arrived(i)
          /\ UNCHANGED serverTx
       \/ /\ request # None
          /\ \/ Reply(Arrived(i), request, "declined") /\ UNCHANGED state
             \/ ReplyThrows(Arrived(i), request) /\ state' = "ERROR"
    /\ UNCHANGED <<session, request>> /\ Keeps

(* (Variant used as a mutant: the session in progress is not looked at.)    *)
RecvInviteForUs_Anytime(i) ==
    /\ RecvInvite(i)
    /\ session' = i
    /\ request' = i
    /\ \/ Reply(Arrived(i), i, "ringing") /\ state' = "INCOMING"
       \/ ReplyThrows(Arrived(i), i) /\ state' = "ERROR"
    /\ Keeps

(* Addressed to this user, with a common format: 180 and INCOMING.          *)
RecvInviteForUs(i) ==
    /\ RecvInvite(i)
    /\ session = None
    /\ session' = i
    /\ request' = i
    /\ \/ Reply(Arrived(i), i, "ringing") /\ state' = "INCOMING"
       \/ ReplyThrows(Arrived(i), i) /\ state' = "ERROR"
    /\ Keeps

(* Addressed to another user: 404, but the session stays.                   *)
RecvInviteNotFound(i) ==
    /\ RecvInvite(i)
    /\ session = None
    /\ session' = i
    /\ \/ Reply(Arrived(i), i, "notfound") /\ UNCHANGED state
       \/ ReplyThrows(Arrived(i), i) /\ state' = "ERROR"
    /\ UNCHANGED request /\ Keeps

(* The caller of a ringing call gives up: whatever the phone is doing is    *)
(* reset, and neither the CANCEL nor the INVITE is answered.                *)
RecvCancel(i) ==
    /\ handler
    /\ invite[i] = "ringing"
    /\ invite' = [invite EXCEPT ![i] = "cancelled"]
    /\ Reset
    /\ UNCHANGED tx

(* (Variant used as a mutant: the dialog of the ACK is not kept.)           *)
RecvAck_NoDialog(i) ==
    /\ handler
    /\ invite[i] = "ok"
    /\ invite' = [invite EXCEPT ![i] = "confirmed"]
    /\ state' = IF session # None THEN "ESTABLISHED" ELSE state
    /\ UNCHANGED <<handler, session, contact, request, serverTx, clientTx,
                   dialog, callID, callSeq, stale, tx>>

(* The ACK of any 200 this phone sent, for whatever session is current.     *)
RecvAck(i) ==
    /\ handler
    /\ invite[i] = "ok"
    /\ invite' = [invite EXCEPT ![i] = "confirmed"]
    /\ \/ session # None /\ dialog' = i /\ state' = "ESTABLISHED"
       \/ session = None /\ UNCHANGED <<dialog, state>>
    /\ UNCHANGED <<handler, session, contact, request, serverTx, clientTx,
                   callID, callSeq, stale, tx>>

(* BYE within any dialog a 200 has opened, also one this phone has          *)
(* forgotten.  The states ERROR (the 200 to the BYE failed) and BYE are     *)
(* passed on the way to READY.                                              *)
RecvBye ==
    /\ handler
    /\ \/ \E i \in Invites : /\ invite[i] \in {"ok", "confirmed"}
                             /\ invite' = [invite EXCEPT ![i] = "ended"]
                             /\ UNCHANGED tx
       \/ \E t \in Txs : /\ tx[t].phase \in {"answered", "acked"}
                         /\ tx' = [tx EXCEPT ![t].phase = "ended"]
                         /\ UNCHANGED invite
    /\ Reset

-------------------------------------------------------------------------------
(* processResponse.  The response is matched on currentState alone.         *)
Moved(t, p) == [tx EXCEPT ![t].phase = p]

(* The 200 branch, also reached from the 180 branch, which has no break:    *)
(* st is the state it finds, body whether the response has a description    *)
(* and a dialog, early whether that dialog is not confirmed yet (the stack  *)
(* refuses an ACK then).                                                    *)
(* (Variant used as a mutant: createAck(++callSequence).)                   *)
Established_PreIncrement(t) ==
    /\ callSeq < MaxSeq
    /\ session' = t
    /\ dialog' = t
    /\ callSeq' = callSeq + 1
    /\ tx' = [tx EXCEPT ![t].phase = "acked", ![t].ack = callSeq + 1]
    /\ state' = "ESTABLISHED"

Established(t) ==
    /\ callSeq < MaxSeq
    /\ session' = t
    /\ dialog' = t
    /\ callSeq' = callSeq + 1
    /\ tx' = [tx EXCEPT ![t].phase = "acked", ![t].ack = callSeq]
    /\ state' = "ESTABLISHED"
AckThrows(t, p) ==
    /\ callSeq < MaxSeq
    /\ session' = t
    /\ dialog' = t
    /\ callSeq' = callSeq + 1
    /\ tx' = Moved(t, p)
    /\ state' = "ERROR"
AnswerUnusable(t, p) ==
    /\ Faults
    /\ session' \in {session, t}
    /\ UNCHANGED <<dialog, callSeq>>
    /\ tx' = Moved(t, p)
    /\ state' = "ERROR"
AfterOK(st) == CASE st = "REGISTERING"   -> "READY"
                 [] st = "UNREGISTERING" -> "IDLE"
                 [] OTHER                -> st
ProcessOK(t, st, body, early, p) ==
    IF st \in {"CALLING", "RINGING"} /\ body
    THEN \/ ~early /\ Established(t)
         \/ (early \/ Faults) /\ AckThrows(t, p)
         \/ AnswerUnusable(t, p)
    ELSE /\ state' = AfterOK(st)
         /\ tx' = Moved(t, p)
         /\ UNCHANGED <<session, dialog, callSeq>>

RecvRinging(t, body) ==
    /\ Underway(t)
    /\ tx[t].method = "INVITE"
    /\ ProcessOK(t, IF state = "CALLING" THEN "RINGING" ELSE state, body,
                 TRUE, "early")
    /\ UNCHANGED <<handler, contact, request, serverTx, clientTx, callID, stale,
                   invite>>

(* The 200 to an INVITE is repeated until it is acknowledged.               *)
RecvOK(t, body) ==
    /\ Underway(t) \/ (handler /\ tx[t].phase = "answered")
    /\ body => tx[t].method = "INVITE"
    /\ ProcessOK(t, state, body, FALSE,
                 IF tx[t].method = "INVITE" THEN "answered" ELSE "closed")
    /\ UNCHANGED <<handler, contact, request, serverTx, clientTx, callID, stale,
                   invite>>

(* 401: the challenge is answered in the two registration states.           *)
RecvUnauthorized(t) ==
    /\ Underway(t)
    /\ \/ /\ state \in {"REGISTERING", "UNREGISTERING"}
          /\ \/ RegisterSent(Moved(t, "closed")) /\ UNCHANGED state
             \/ RegisterFailed(Moved(t, "closed")) /\ state' = "ERROR"
       \/ /\ state \notin {"REGISTERING", "UNREGISTERING"}
          /\ tx' = Moved(t, "closed")
          /\ state' \in {state} \cup (IF Faults THEN {"ERROR"} ELSE {})
          /\ UNCHANGED clientTx
    /\ UNCHANGED <<handler, session, contact, request, serverTx, dialog,
                   callID, callSeq, stale, invite>>

(* 407: answered by a second INVITE of the same call while CALLING.         *)
RecvProxyAuthRequired(t) ==
    /\ Underway(t)
    /\ LET closed == Moved(t, "closed")
       IN  \/ /\ session = None /\ contact /\ state = "CALLING"
              /\ \/ InviteSent(closed, TRUE) /\ UNCHANGED state
                 \/ InviteFailed(closed, TRUE) /\ state' = "ERROR"
           \/ /\ ~(session = None /\ contact /\ state = "CALLING")
              /\ tx' = closed
              /\ state' \in {state} \cup
                    (IF Faults /\ session = None /\ contact THEN {"ERROR"} ELSE {})
              /\ UNCHANGED <<clientTx, dialog, callID>>
    /\ UNCHANGED <<handler, session, contact, request, serverTx, callSeq, stale,
                   invite>>

(* The other failures, in whatever state they come; 487 stands for every    *)
(* status the switch has no case for.                                       *)
FailureCodes == {404, 480, 486, 487, 500, 603}
AfterFailure(code) == CASE code = 404          -> "INVALID"
                        [] code \in {480, 603} -> "DECLINED"
                        [] code = 486          -> "BUSY"
                        [] code = 500          -> "ERROR"
                        [] OTHER               -> state
RecvFailure(t, code) ==
    /\ Underway(t)
    /\ tx' = Moved(t, "closed")
    /\ state' = AfterFailure(code)
    /\ UNCHANGED <<handler, session, contact, request, calls, invite>>

(* No answer at all: processTimeout is empty.                               *)
Timeout(t) ==
    /\ Underway(t)
    /\ tx' = Moved(t, "closed")
    /\ UNCHANGED <<service, calls, invite>>

-------------------------------------------------------------------------------
User ==
    \/ CreateInstance
    \/ RegisterProfile
    \/ UnregisterProfile
    \/ SendInvite
    \/ AcceptCall
    \/ DeclineCall
    \/ HangUp
    \/ Cancel
    \/ ConfirmStateAndReset

ProcessRequest ==
    \/ \E i \in Invites : \/ RecvInviteBusy(i)
                          \/ RecvInviteUnusable(i)
                          \/ RecvInviteNoCodec(i)
                          \/ RecvInviteForUs(i)
                          \/ RecvInviteNotFound(i)
                          \/ RecvCancel(i)
                          \/ RecvAck(i)
    \/ RecvBye

ProcessResponse ==
    \E t \in Txs : \/ \E body \in BOOLEAN : RecvRinging(t, body) \/ RecvOK(t, body)
                   \/ RecvUnauthorized(t)
                   \/ RecvProxyAuthRequired(t)
                   \/ \E code \in FailureCodes : RecvFailure(t, code)
                   \/ Timeout(t)

Next == User \/ ProcessRequest \/ ProcessResponse

Spec == Init /\ [][Next]_vars

-------------------------------------------------------------------------------
(* Safety.                                                                  *)

(* While an incoming call is announced to the user (INCOMING), the session, *)
(* the request acceptCall and declineCall answer, and the transaction the   *)
(* answer leaves through are all those of that call, and its caller still   *)
(* waits or has just been answered: Accept and Decline reach the right      *)
(* party whatever else was received since.                                  *)
IncomingAnswerable ==
    state = "INCOMING" =>
        /\ request \in Invites
        /\ session = request
        /\ serverTx = request
        /\ invite[request] \in {"ringing", "ok"}

(* While a call is shown as ESTABLISHED there is a session, and the dialog  *)
(* the BYE of endCall would use has been confirmed by an ACK, in one        *)
(* direction or the other, and not been ended since: hanging up never meets *)
(* a null, early or terminated dialog.                                      *)
EstablishedDialogLive ==
    state = "ESTABLISHED" => session # None /\ LiveDialog(dialog)

(* The ACK of a call carries the CSeq of the INVITE it acknowledges, unless *)
(* that INVITE belongs to an earlier call: callSequence is read when the    *)
(* INVITE is built (once more after a 407) and again, with an increment,    *)
(* when the ACK is, and reset() sets it back in between.  A sendInvite that *)
(* throws before it has a Call-ID leaves the earlier call's behind in the   *)
(* state CALLING: an ACK of that call may then carry a later number, but    *)
(* never an earlier one.                                                    *)
AckSeqMatches ==
    [][\A t \in Txs :
          (tx[t].ack = 0 /\ tx'[t].ack # 0 /\ tx[t].call = callID)
              => /\ tx'[t].ack >= tx[t].cseq
                 /\ ~stale => tx'[t].ack = tx[t].cseq]_vars

(* Why AckSeqMatches holds: a Call-ID in use is that of a transaction that   *)
(* exists, an INVITE always has one, callSequence never falls behind the     *)
(* INVITEs of the current call, and as long as a 200 would be acknowledged   *)
(* every one of them has the number callSequence still has, unless the call  *)
(* being set up has no Call-ID of its own.                                   *)
CallNumbering ==
    /\ ~handler => callID = None
    /\ callID # None => callID \notin Fresh
    /\ \A t \in Txs : /\ tx[t].call # None => tx[t].call \notin Fresh
                      /\ tx[t].method = "INVITE" => tx[t].call # None
    /\ \A t \in Txs : tx[t].method = "INVITE" /\ tx[t].call = callID
                         => tx[t].cseq <= callSeq
    /\ state \in {"CALLING", "RINGING"} /\ ~stale =>
          \A t \in Txs : tx[t].method = "INVITE" /\ tx[t].call = callID
                            => tx[t].cseq = callSeq

(* An incoming call is announced only when no INVITE holds the server       *)
(* transaction and no session exists: since the last reset() nothing has    *)
(* been answered through it.                                                *)
AnnouncedOncePerReset ==
    [][(state # "INCOMING" /\ state' = "INCOMING")
          => serverTx = None /\ session = None]_vars

(* The call on the line, as the abstract specification sees it: taken by a  *)
(* call, released, and up while ESTABLISHED.                                *)
Line == INSTANCE CallLine WITH
            Incoming <- Invites, Outgoing <- Txs,
            line <- session, up <- (state = "ESTABLISHED")
LineSpec == Line!Spec

-------------------------------------------------------------------------------
(* What comments and javadoc of the code say and the code does not do.      *)

(* SipService.java:191: when no codec matches, the INVITE is declined.      *)
NoCodecDeclined ==
    [][\A i \in Invites : RecvInviteNoCodec(i) => invite'[i] = "declined"]_vars

(* sendBusyHere's javadoc: an INVITE during a call is answered by 486.      *)
SecondCallBusy ==
    [][\A i \in Invites : RecvInviteBusy(i) => invite'[i] = "busy"]_vars

(* SipManagerState.RINGING: while the contact's phone signals the call, the *)
(* state is RINGING, also when the 180 carries a description.               *)
RingingShown ==
    [][\A t \in Txs, body \in BOOLEAN :
          RecvRinging(t, body) /\ state = "CALLING" => state' = "RINGING"]_vars

(* SipManagerState.ESTABLISHED: the call is established; an incoming call   *)
(* that the user has not accepted is not.                                   *)
EstablishedWasAccepted ==
    state = "ESTABLISHED" /\ session \in Invites =>
        invite[session] \in {"ok", "confirmed"}

===============================================================================
