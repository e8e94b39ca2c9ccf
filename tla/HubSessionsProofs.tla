-------------------------- MODULE HubSessionsProofs --------------------------
(***************************************************************************)
(* Proofs about HubSessions, for any number of sessions, senders and       *)
(* changes: sessions show the status there is, the status is true, no list *)
(* is lost to a session, and lists of scripts arrive in order.             *)
(***************************************************************************)
EXTENDS HubSessions, TLAPS

StatusTypeOK ==
    /\ currentStatus \in [Field -> BOOLEAN]
    /\ statusLock \in {Nobody, "Run", "menu", "console"}
    /\ unsent \subseteq statusChannels /\ statusChannels \subseteq Session
    /\ session \in [Session -> {"none", "select", "leaving"}]
    /\ shown \in [Session -> [Field -> BOOLEAN]]

ConnTypeOK ==
    /\ dcs \in BOOLEAN
    /\ run \in {"dial", "status connected", "connected", "read", "status connecting", "connecting"}
    /\ conn \in {"none", "open", "ended"}
    /\ state \in {"Connecting", "Connected"}
    /\ mutex \in {Nobody, "Run"}
    /\ sender \in [Sender -> {"none", "lock"}]
    /\ luaConsoleEnabled \in BOOLEAN
    /\ menu \in {"wait", "tell", "told"} /\ console \in {"wait", "told"}

\* Sessions that the status need not be sent to any more show it, and none is
\* left to be sent to when the lock is free.
SentOK ==
    /\ \A s \in statusChannels \ unsent : shown[s] = currentStatus
    /\ statusLock = Nobody => unsent = {}

\* Where Run is says what it has done so far.
RunOK ==
    /\ mutex = Nobody <=> run \in {"dial", "read"}
    /\ state = "Connected" <=> run \in {"status connected", "connected", "read"}
    /\ conn = "none" <=> run = "dial"
    /\ run \in {"connected", "read"} => currentStatus["dcs"]
    /\ run \in {"connecting", "dial"} => ~currentStatus["dcs"]

MenuOK == menu # "tell" => currentStatus["enabled"] = luaConsoleEnabled

IStatus == StatusTypeOK /\ ConnTypeOK /\ SentOK /\ RunOK /\ MenuOK

-----------------------------------------------------------------------------
(***************************************************************************)
(* The status.                                                             *)
(***************************************************************************)
LEMMA InitStatus ==
    ASSUME StatusInit, ConnInit, luaConsoleEnabled = FALSE, menu = "wait", console = "wait"
    PROVE  IStatus
BY HubSessionsAssumption
   DEF StatusInit, ConnInit, Field, IStatus, StatusTypeOK, ConnTypeOK, SentOK, RunOK, MenuOK

\* What a mutation, by whomever, leaves right.
LEMMA MutationKeeps ==
    ASSUME StatusTypeOK, NEW me \in {"Run", "menu", "console"}, NEW f \in Field,
           NEW v \in BOOLEAN, BeginMutation(me, f, v)
    PROVE  /\ StatusTypeOK' /\ SentOK'
           /\ currentStatus'[f] = v
           /\ \A g \in Field \ {f} : currentStatus'[g] = currentStatus[g]
BY HubSessionsAssumption DEF BeginMutation, StatusTypeOK, SentOK

LEMMA EndMutationKeeps ==
    ASSUME StatusTypeOK, SentOK, EndMutation
    PROVE  StatusTypeOK' /\ SentOK' /\ currentStatus' = currentStatus
BY DEF EndMutation, StatusTypeOK, SentOK

LEMMA SessionKeeps ==
    ASSUME StatusTypeOK, SentOK, NEW s \in Session,
           SendStatus(s) \/ Subscribe(s) \/ Leave(s) \/ Unsubscribe(s)
    PROVE  StatusTypeOK' /\ SentOK' /\ currentStatus' = currentStatus
<1> USE DEF StatusTypeOK, SentOK
<1>1. CASE SendStatus(s)
  BY <1>1 DEF SendStatus
<1>2. CASE Subscribe(s)
  BY <1>2 DEF Subscribe
<1>3. CASE Leave(s)
  BY <1>3 DEF Leave
<1>4. CASE Unsubscribe(s)
  BY <1>4 DEF Unsubscribe
<1> QED
  BY <1>1, <1>2, <1>3, <1>4

LEMMA RunKeeps ==
    ASSUME IStatus, Run, UNCHANGED menuVars
    PROVE  IStatus'
<1> USE DEF IStatus, ConnTypeOK, RunOK, MenuOK, menuVars
<1>1. "Run" # Nobody
  BY HubSessionsAssumption
<1>2. CASE Dial
  <2>1. StatusTypeOK' /\ SentOK' /\ currentStatus' = currentStatus
    BY <1>2 DEF Dial, statusVars, StatusTypeOK, SentOK
  <2> QED
    BY <1>1, <1>2, <2>1 DEF Dial
<1>3. CASE TellConnected
  <2>1. /\ StatusTypeOK' /\ SentOK'
        /\ currentStatus'["dcs"] /\ currentStatus'["enabled"] = currentStatus["enabled"]
    BY <1>3, MutationKeeps DEF TellConnected, Field
  <2> QED
    BY <1>3, <2>1 DEF TellConnected
<1>4. CASE StartReading
  <2>1. StatusTypeOK' /\ SentOK' /\ currentStatus' = currentStatus
    BY <1>4, EndMutationKeeps DEF StartReading
  <2> QED
    BY <1>1, <1>4, <2>1 DEF StartReading
<1>5. CASE ReadEnds
  <2>1. StatusTypeOK' /\ SentOK' /\ currentStatus' = currentStatus
    BY <1>5 DEF ReadEnds, statusVars, StatusTypeOK, SentOK
  <2> QED
    BY <1>1, <1>5, <2>1 DEF ReadEnds
<1>6. CASE TellConnecting
  <2>1. /\ StatusTypeOK' /\ SentOK'
        /\ ~currentStatus'["dcs"] /\ currentStatus'["enabled"] = currentStatus["enabled"]
    BY <1>6, MutationKeeps DEF TellConnecting, Field
  <2> QED
    BY <1>6, <2>1 DEF TellConnecting
<1>7. CASE CloseConn
  <2>1. StatusTypeOK' /\ SentOK' /\ currentStatus' = currentStatus
    BY <1>7, EndMutationKeeps DEF CloseConn
  <2> QED
    BY <1>1, <1>7, <2>1 DEF CloseConn
<1> QED
  BY <1>2, <1>3, <1>4, <1>5, <1>6, <1>7 DEF Run

LEMMA TellersKeep ==
    ASSUME IStatus,
           \/ StartDcs \/ StopDcs \/ Click \/ TellEnabled \/ ToldEnabled
           \/ \E connected \in BOOLEAN : TellConsole(connected)
           \/ ToldConsole
    PROVE  IStatus'
<1> USE DEF IStatus, ConnTypeOK, RunOK, MenuOK, connVars
<1>1. CASE StartDcs \/ StopDcs \/ Click
  <2>1. StatusTypeOK' /\ SentOK' /\ currentStatus' = currentStatus
    BY <1>1 DEF StartDcs, StopDcs, Click, statusVars, StatusTypeOK, SentOK
  <2> QED
    BY <1>1, <2>1 DEF StartDcs, StopDcs, Click, menuVars
<1>2. CASE TellEnabled
  <2>1. /\ StatusTypeOK' /\ SentOK'
        /\ currentStatus'["enabled"] = luaConsoleEnabled /\ currentStatus'["dcs"] = currentStatus["dcs"]
    BY <1>2, MutationKeeps DEF TellEnabled, Field
  <2> QED
    BY <1>2, <2>1 DEF TellEnabled
<1>3. CASE ToldEnabled \/ ToldConsole
  <2>1. StatusTypeOK' /\ SentOK' /\ currentStatus' = currentStatus
    BY <1>3, EndMutationKeeps DEF ToldEnabled, ToldConsole
  <2> QED
    BY <1>3, <2>1 DEF ToldEnabled, ToldConsole
<1>4. ASSUME NEW connected \in BOOLEAN, TellConsole(connected)
      PROVE  IStatus'
  <2>1. /\ StatusTypeOK' /\ SentOK'
        /\ currentStatus'["enabled"] = currentStatus["enabled"]
        /\ currentStatus'["dcs"] = currentStatus["dcs"]
    BY <1>4, MutationKeeps DEF TellConsole, Field
  <2> QED
    BY <1>4, <2>1 DEF TellConsole
<1> QED
  BY <1>1, <1>2, <1>3, <1>4

LEMMA StatusKeeps ==
    ASSUME IStatus, StatusNext
    PROVE  IStatus'
<1>1. CASE ConnStep(Run)
  BY <1>1, RunKeeps DEF ConnStep
<1>2. ASSUME NEW t \in Sender, BeginTrySend(t) \/ TrySend(t), UNCHANGED menuVars
      PROVE  IStatus'
  <2>1. /\ sender' \in [Sender -> {"none", "lock"}]
        /\ UNCHANGED <<statusVars, dcs, run, conn, state, mutex, menuVars>>
    BY <1>2 DEF BeginTrySend, TrySend, IStatus, ConnTypeOK
  <2>2. StatusTypeOK' /\ SentOK' /\ currentStatus' = currentStatus
    BY <2>1 DEF statusVars, IStatus, StatusTypeOK, SentOK
  <2>3. ConnTypeOK'
    BY <2>1 DEF menuVars, IStatus, ConnTypeOK
  <2>4. RunOK' /\ MenuOK'
    BY <2>1, <2>2 DEF menuVars, IStatus, RunOK, MenuOK
  <2> QED
    BY <2>2, <2>3, <2>4 DEF IStatus
<1>3. ASSUME NEW s \in Session, SendStatus(s) \/ Subscribe(s) \/ Leave(s) \/ Unsubscribe(s),
             UNCHANGED <<dcs, connVars, menuVars>>
      PROVE  IStatus'
  <2>1. StatusTypeOK' /\ SentOK' /\ currentStatus' = currentStatus
    BY <1>3, SessionKeeps DEF IStatus
  <2> QED
    BY <1>3, <2>1 DEF connVars, menuVars, IStatus, ConnTypeOK, RunOK, MenuOK
<1> QED
  BY <1>1, <1>2, <1>3, TellersKeep DEF StatusNext, ConnStep, SessionStep, TellerStep

\* A list changes nothing that the status depends on.
LEMMA StatusStays ==
    ASSUME IStatus, UNCHANGED <<statusVars, dcs, connVars, menuVars>>
    PROVE  IStatus'
<1>1. StatusTypeOK' /\ SentOK' /\ currentStatus' = currentStatus
  BY DEF statusVars, IStatus, StatusTypeOK, SentOK
<1>2. ConnTypeOK'
  BY DEF connVars, menuVars, IStatus, ConnTypeOK
<1>3. RunOK' /\ MenuOK'
  BY <1>1 DEF connVars, menuVars, IStatus, RunOK, MenuOK
<1> QED
  BY <1>1, <1>2, <1>3 DEF IStatus

-----------------------------------------------------------------------------
(***************************************************************************)
(* The lists.                                                              *)
(***************************************************************************)
WaitingOK ==
    /\ ~locked => waiting = {}
    /\ \A s \in Watcher : s \in subscribers <=> watcher[s] \in {"receive", "respond", "unsubscribe"}

\* No session has a list that does not exist yet.
BoundsOK ==
    \A s \in Watcher :
        newest[s] <= version /\ held[s] <= version /\ copies[s] \subseteq 0..version

\* A session that is not among those a list has yet to be sent to, or that it
\* could not be sent to, has been shown the list there is or is about to be.
Current(s) ==
    /\ watcher[s] \in {"receive", "respond"} /\ socket[s] = "open"
    /\ s \notin missed /\ s \notin waiting
    => \/ newest[s] = version
       \/ version \in copies[s]
       \/ watcher[s] = "respond" /\ held[s] = version

\* Lists of scripts come one at a time.
Ordered(s) ==
    /\ latest[s] = newest[s]
    /\ copies[s] = {}
    /\ watcher[s] = "respond" => newest[s] <= held[s]

IMonitor ==
    /\ MonitorTypeOK /\ WaitingOK /\ BoundsOK
    /\ \A s \in Watcher : Current(s)
    /\ topic = "scripts" => \A s \in Watcher : Ordered(s)

LEMMA InitMonitor ==
    ASSUME MonitorInit
    PROVE  IMonitor
<1> USE DEF MonitorInit
<1>1. MonitorTypeOK
  <2>1. 0 \in 0..MaxVersion
    BY MonitorsAssumption
  <2>2. {held, newest, latest} \subseteq [Watcher -> 0..MaxVersion]
    BY <2>1
  <2>3. copies \in [Watcher -> SUBSET (0..MaxVersion)]
    OBVIOUS
  <2>4. /\ watcher \in [Watcher -> {"none", "subscribe", "receive", "respond", "unsubscribe"}]
        /\ socket \in [Watcher -> {"open", "closed"}]
    OBVIOUS
  <2>5. /\ locked \in BOOLEAN
        /\ waiting \subseteq subscribers /\ subscribers \subseteq Watcher /\ missed \subseteq Watcher
    OBVIOUS
  <2> QED
    BY <2>1, <2>2, <2>3, <2>4, <2>5 DEF MonitorTypeOK
<1>2. WaitingOK
  BY DEF WaitingOK
<1>3. BoundsOK
  BY DEF BoundsOK
<1>4. \A s \in Watcher : Current(s) /\ Ordered(s)
  BY DEF Current, Ordered
<1> QED
  BY <1>1, <1>2, <1>3, <1>4 DEF IMonitor

LEMMA MonitorStays ==
    ASSUME IMonitor, UNCHANGED monitorVars
    PROVE  IMonitor'
BY DEF monitorVars, IMonitor, MonitorTypeOK, WaitingOK, BoundsOK, Current, Ordered

LEMMA SessionStepKeeps ==
    ASSUME IMonitor, NEW s \in Watcher, Watching(s) \/ Open(s) \/ Drop(s) \/ CloseSocket(s)
    PROVE  IMonitor'
<1> USE MonitorsAssumption DEF IMonitor, MonitorTypeOK, WaitingOK, BoundsOK, Current, Ordered
<1>1. CASE Watch(s)
  BY <1>1 DEF Watch
<1>2. CASE ReceiveCopy(s)
  <2>1. PICK v \in copies[s] : /\ held' = [held EXCEPT ![s] = v]
                               /\ copies' = [copies EXCEPT ![s] = copies[s] \ {v}]
    BY <1>2 DEF ReceiveCopy
  <2>2. v \in 0..MaxVersion /\ v <= version
    OBVIOUS
  <2>3. MonitorTypeOK' /\ WaitingOK' /\ BoundsOK'
    BY <1>2, <2>1, <2>2 DEF ReceiveCopy
  <2>4. \A r \in Watcher : Current(r)'
    BY <1>2, <2>1, <2>2 DEF ReceiveCopy
  <2>5. topic # "scripts"
    BY <2>1
  <2> QED
    BY <1>2, <2>3, <2>4, <2>5 DEF ReceiveCopy
<1>3. CASE Respond(s)
  BY <1>3 DEF Respond
<1>4. CASE SeeClosed(s)
  BY <1>4 DEF SeeClosed
<1>5. CASE Unwatch(s)
  BY <1>5 DEF Unwatch
<1>6. CASE Open(s)
  BY <1>6 DEF Open
<1>7. CASE Drop(s)
  BY <1>7 DEF Drop
<1>8. CASE CloseSocket(s)
  BY <1>8 DEF CloseSocket
<1> QED
  BY <1>1, <1>2, <1>3, <1>4, <1>5, <1>6, <1>7, <1>8 DEF Watching

LEMMA ChangeStepKeeps ==
    ASSUME IMonitor, Publishing \/ Change \/ Reread \/ ChangePluginUntold
    PROVE  IMonitor'
<1> USE MonitorsAssumption DEF IMonitor, MonitorTypeOK, WaitingOK, BoundsOK, Current, Ordered
<1>1. CASE Change
  <2> USE <1>1 DEF Change
  <2>1. version' = version + 1 /\ version' \in 0..MaxVersion
    OBVIOUS
  <2>2. CASE topic = "ports"
    <3>1. MonitorTypeOK' /\ WaitingOK'
      BY <2>1, <2>2
    <3>2. BoundsOK'
      BY <2>1, <2>2
    <3>3. \A s \in Watcher : Current(s)'
      BY <2>1, <2>2
    <3> QED
      BY <2>2, <3>1, <3>2, <3>3
  <2>3. CASE topic # "ports"
    <3>1. MonitorTypeOK' /\ WaitingOK'
      BY <2>1, <2>3
    <3>2. BoundsOK'
      BY <2>1, <2>3
    <3>3. \A s \in Watcher : Current(s)'
      BY <2>1, <2>3
    <3> QED
      BY <2>1, <2>3, <3>1, <3>2, <3>3
  <2> QED
    BY <2>2, <2>3
<1>2. CASE Reread \/ ChangePluginUntold
  BY <1>2 DEF Reread, ChangePluginUntold, ChangeUntold
<1>3. ASSUME NEW s \in Watcher, SendTo(s)
      PROVE  IMonitor'
  BY <1>3 DEF SendTo
<1>4. ASSUME NEW s \in Watcher, GiveUp(s)
      PROVE  IMonitor'
  BY <1>4 DEF GiveUp
<1>5. CASE Unlock
  BY <1>5 DEF Unlock
<1> QED
  BY <1>1, <1>2, <1>3, <1>4, <1>5 DEF Publishing

-----------------------------------------------------------------------------
(***************************************************************************)
(* The theorems.                                                           *)
(***************************************************************************)
IInv == IStatus /\ IMonitor

\* The inductive invariant holds for every instance.
LEMMA InvAlways == Spec => []IInv
<1>1. Init => IInv
  BY InitStatus, InitMonitor DEF Init, IInv
<1>2. IInv /\ [Next]_vars => IInv'
  <2> SUFFICES ASSUME IInv, [Next]_vars
               PROVE  IInv'
    OBVIOUS
  <2>1. CASE StatusNext
    <3>1. UNCHANGED monitorVars
      BY <2>1 DEF StatusNext, ConnStep, SessionStep, TellerStep
    <3> QED
      BY <2>1, <3>1, StatusKeeps, MonitorStays DEF IInv
  <2>2. CASE MonitorNext /\ UNCHANGED <<statusVars, dcs, connVars, menuVars>>
    BY <2>2, StatusStays, SessionStepKeeps, ChangeStepKeeps DEF IInv, MonitorNext
  <2>3. CASE UNCHANGED vars
    BY <2>3, StatusStays, MonitorStays DEF IInv, vars
  <2> QED
    BY <2>1, <2>2, <2>3 DEF Next
<1> QED
  BY <1>1, <1>2, PTL DEF Spec

\* Every variable keeps its type.
THEOREM SessionsTypeCorrect == Spec => []TypeOK
<1>1. IInv => TypeOK
  BY DEF IInv, IStatus, IMonitor, StatusTypeOK, ConnTypeOK, TypeOK
<1> QED
  BY <1>1, InvAlways, PTL

\* A session that has subscribed to the status (HandleGetStatusUpdatesRequest)
\* shows it whenever nobody is sending it.
THEOREM SessionsCurrentAlways == Spec => []SessionsCurrent
<1>1. IInv => SessionsCurrent
  BY DEF IInv, IStatus, SentOK, SessionsCurrent
<1> QED
  BY <1>1, InvAlways, PTL

\* What DcsConnection.Run and the tray menu tell the status agrees with what
\* they keep themselves.
THEOREM StatusTrueAlways == Spec => []StatusTrue
<1>1. IInv => StatusTrue
  BY DEF IInv, IStatus, StatusTypeOK, ConnTypeOK, RunOK, MenuOK, StatusTrue, Field
<1> QED
  BY <1>1, InvAlways, PTL

\* No list of scripts, plugins or ports falls between the one a session gets when it
\* subscribes and those it is sent later; but for the changes nobody is told of (Reset,
\* startWorkOnPlugin, the entry an update replaces), until the next list.
THEOREM NoListLostAlways == Spec => []NoListLost
<1>1. IInv => NoListLost
  BY DEF IInv, IMonitor, WaitingOK, Current, NoListLost
<1> QED
  BY <1>1, InvAlways, PTL

\* Lists of scripts, all sent under luaLock, are shown in order.
THEOREM ScriptsInOrderAlways == Spec => []ScriptsInOrder
<1>1. IInv => ScriptsInOrder
  <2> SUFFICES ASSUME IInv, topic = "scripts"
               PROVE  latest = newest
    BY DEF ScriptsInOrder
  <2>1. latest \in [Watcher -> 0..MaxVersion] /\ newest \in [Watcher -> 0..MaxVersion]
    BY DEF IInv, IMonitor, MonitorTypeOK
  <2>2. \A s \in Watcher : latest[s] = newest[s]
    BY DEF IInv, IMonitor, Ordered
  <2> QED
    BY <2>1, <2>2
<1> QED
  BY <1>1, InvAlways, PTL
=============================================================================
