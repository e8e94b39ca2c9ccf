--------------------------- MODULE HubRelayProofs ---------------------------
(***************************************************************************)
(* Proofs about HubRelay: the types of its variables, and that the encoder *)
(* loop never waits for a session that is gone, for any number of sessions.*)
(***************************************************************************)
EXTENDS HubRelay, TLAPS

LiveTypeOK ==
    /\ socket \in [Session -> {"none", "open", "closed"}]
    /\ handler \in [Session -> {"none", "subscribe", "select", "respond", "unsubscribe", "ended"}]
    /\ commandListener \in [Session -> {"none", "receive", "send", "ended"}]
    /\ responding \subseteq Session
    /\ exportDataListeners \subseteq Session
    /\ listenerLock \in {Nobody, "E"}
    /\ receivers \subseteq exportDataListeners

LoopTypeOK ==
    /\ encoderLoop \in {"select", "lock", "callbacks", "update", "listeners", "sending"}
    /\ transmitLoop \in {"select", "lock", "callbacks", "parse"}
    /\ FrameData \in 0..1
    /\ updatesLeft \in 0..MaxUpdates
    /\ luaLock \in {Nobody, "E", "T"}
    /\ simCommands \in 0..SimCommandCapacity

\* T is parsing exactly when it has ends of updates left.
ParsingOK == transmitLoop = "parse" => updatesLeft > 0

\* A session is registered only while its handler will still deregister it, and
\* channels are left to send to only while the lock is held.
RegisteredAlive ==
    \A s \in exportDataListeners : handler[s] \in {"select", "respond", "unsubscribe"}

SendingLocked == receivers # {} => listenerLock = "E"

IInv == LiveTypeOK /\ LoopTypeOK /\ ParsingOK /\ RegisteredAlive /\ SendingLocked

LEMMA InitIsIInv ==
    ASSUME Init
    PROVE  IInv
BY HubRelayAssumption
   DEF Init, LiveInit, IInv, LiveTypeOK, LoopTypeOK, ParsingOK, RegisteredAlive, SendingLocked

\* The steps of clients and of the goroutines of sessions.
LEMMA SessionKeeps ==
    ASSUME IInv, NEW s \in Session, UNCHANGED loopVars,
           \/ OpenSession(s) \/ CloseSession(s) \/ SendCommand(s) \/ TakeCommand(s)
           \/ CommandsEnd(s) \/ Handler(s) \/ Write(s)
    PROVE  IInv'
<1>1. LoopTypeOK' /\ ParsingOK'
  BY DEF IInv, loopVars, LoopTypeOK, ParsingOK
<1> USE DEF IInv, LiveTypeOK, RegisteredAlive, SendingLocked
<1>2. CASE OpenSession(s)
  BY <1>1, <1>2 DEF OpenSession
<1>3. CASE CloseSession(s) \/ SendCommand(s) \/ TakeCommand(s) \/ CommandsEnd(s)
  BY <1>1, <1>3 DEF CloseSession, SendCommand, TakeCommand, CommandsEnd
<1>4. CASE Subscribe(s)
  BY <1>1, <1>4 DEF Subscribe
<1>5. CASE Respond(s) \/ SeeClosed(s)
  BY <1>1, <1>5 DEF Respond, SeeClosed
<1>6. CASE Unsubscribe(s)
  <2>1. receivers = {}
    BY <1>6, HubRelayAssumption DEF Unsubscribe
  <2> QED
    BY <1>1, <1>6, <2>1 DEF Unsubscribe
<1>7. CASE Write(s)
  BY <1>1, <1>7 DEF Write
<1> QED
  BY <1>2, <1>3, <1>4, <1>5, <1>6, <1>7 DEF Handler

\* WriteExportData.
LEMMA WriteExportDataKeeps ==
    ASSUME IInv, BeginWriteExportData \/ SendExportData \/ EndWriteExportData
    PROVE  IInv'
<1>1. LoopTypeOK' /\ ParsingOK'
  BY DEF IInv, LoopTypeOK, ParsingOK, loopVars, BeginWriteExportData, SendExportData,
         EndWriteExportData
<1> USE DEF IInv, LiveTypeOK, RegisteredAlive, SendingLocked
<1>2. CASE BeginWriteExportData
  BY <1>1, <1>2 DEF BeginWriteExportData, BeginWrite
<1>3. CASE SendExportData
  BY <1>1, <1>3 DEF SendExportData, SendTo
<1>4. CASE EndWriteExportData
  BY <1>1, <1>4 DEF EndWriteExportData, EndWrite
<1> QED
  BY <1>2, <1>3, <1>4

\* The other steps of the two loops.
LEMMA LoopsKeep ==
    ASSUME IInv,
           \/ ReceiveFrame \/ EnterOutputCallbacks \/ OutputCallbacks \/ IdleUpdate
           \/ WriteToPanels \/ TransmitLoop \/ TakeSimCommand \/ TakePortCommand
           \/ TakeExportData \/ UNCHANGED vars
    PROVE  IInv'
<1> USE HubRelayAssumption
        DEF IInv, LoopTypeOK, ParsingOK, EnterLua, LeaveLua, RunCallbacks
<1>1. LiveTypeOK' /\ RegisteredAlive' /\ SendingLocked'
  BY DEF LiveTypeOK, RegisteredAlive, SendingLocked, liveVars, vars, ReceiveFrame,
         EnterOutputCallbacks, OutputCallbacks, IdleUpdate, WriteToPanels, TransmitLoop,
         EnterInputCallbacks, InputCallbacks, Notify, TakeSimCommand, TakePortCommand,
         TakeExportData
<1>2. CASE ReceiveFrame \/ IdleUpdate \/ WriteToPanels
  BY <1>1, <1>2 DEF ReceiveFrame, IdleUpdate, WriteToPanels
<1>3. CASE EnterOutputCallbacks \/ OutputCallbacks
  BY <1>1, <1>3 DEF EnterOutputCallbacks, OutputCallbacks
<1>4. CASE EnterInputCallbacks \/ InputCallbacks
  BY <1>1, <1>4 DEF EnterInputCallbacks, InputCallbacks
<1>5. CASE Notify
  BY <1>1, <1>5 DEF Notify
<1>6. CASE TakeSimCommand \/ TakePortCommand \/ TakeExportData
  BY <1>1, <1>6 DEF TakeSimCommand, TakePortCommand, TakeExportData
<1>7. CASE UNCHANGED vars
  BY <1>1, <1>7 DEF vars, loopVars
<1> QED
  BY <1>2, <1>3, <1>4, <1>5, <1>6, <1>7 DEF TransmitLoop

LEMMA NextKeepsIInv ==
    ASSUME IInv, [Next]_vars
    PROVE  IInv'
<1>1. ASSUME NEW s \in Session, TakeLiveCommand(s) PROVE IInv'
  BY <1>1, SessionKeeps DEF TakeLiveCommand
<1>2. ASSUME NEW s \in Session, UNCHANGED loopVars,
             \/ OpenSession(s) \/ CloseSession(s) \/ SendCommand(s)
             \/ CommandsEnd(s) \/ Handler(s) \/ Write(s)
      PROVE  IInv'
  BY <1>2, SessionKeeps
<1>3. CASE BeginWriteExportData \/ SendExportData \/ EndWriteExportData
  BY <1>3, WriteExportDataKeeps
<1>4. CASE \/ ReceiveFrame \/ EnterOutputCallbacks \/ OutputCallbacks \/ IdleUpdate
           \/ WriteToPanels \/ TransmitLoop \/ TakeSimCommand \/ TakePortCommand
           \/ TakeExportData \/ UNCHANGED vars
  BY <1>4, LoopsKeep
<1> QED
  BY <1>1, <1>2, <1>3, <1>4 DEF Next, EncoderLoop

LEMMA IInvAlways == Spec => []IInv
<1>1. Init => IInv
  BY InitIsIInv
<1>2. IInv /\ [Next]_vars => IInv'
  BY NextKeepsIInv
<1> QED
  BY <1>1, <1>2, PTL DEF Spec

(***************************************************************************)
(* For any sessions and bounds every variable has its type: in particular  *)
(* FrameData and SimCommandChannel never hold more than they have room     *)
(* for, and a channel to be sent to is a registered one.                   *)
(***************************************************************************)
THEOREM TypeCorrect == Spec => []TypeOK
<1>1. IInv => TypeOK
  BY DEF IInv, LiveTypeOK, LoopTypeOK, TypeOK
<1> QED
  BY <1>1, IInvAlways, PTL

(***************************************************************************)
(* However many sessions come and go, WriteExportData never waits to send  *)
(* to a session whose handler has ended.                                   *)
(***************************************************************************)
THEOREM ReceiversAliveAlways == Spec => []ReceiversAlive
<1>1. IInv => ReceiversAlive
  BY DEF IInv, LiveTypeOK, RegisteredAlive, ReceiversAlive
<1> QED
  BY <1>1, IInvAlways, PTL
=============================================================================
