------------------------------ MODULE HubRelay ------------------------------
(***************************************************************************)
(* The two loops of dcs-bios-hub.go that connect the parts of the hub: the *)
(* encoder loop E, which turns a frame of sim data into an update packet   *)
(* for the panels and the live data sessions, and the transmit loop T,     *)
(* which parses the data of DCS and takes the commands for it.  They meet  *)
(* in the channel FrameData, the Lua state and the live data API.          *)
(*                                                                         *)
(* Left out: the contents of frames and commands (see SimStream), panels,  *)
(* and TrySend, which changes nothing here.                                *)
(***************************************************************************)
EXTENDS LiveDataApi, Integers

CONSTANTS
    MaxUpdates,         \* bound: ends of updates in one chunk of export data
    SimCommandCapacity, \* of SimCommandChannel; 10 in the code
    EnableIdleUpdates   \* the flag enable-idle-updates

ASSUME HubRelayAssumption ==
    /\ MaxUpdates \in Nat
    /\ SimCommandCapacity \in Nat
    /\ EnableIdleUpdates \in BOOLEAN
    /\ Nobody \notin {"E", "T"}

VARIABLES
    encoderLoop,    \* where E is
    transmitLoop,   \* where T is
    FrameData,      \* frames in the channel, which has room for one
    updatesLeft,    \* ends of updates in the chunk that T has yet to process
    luaLock,        \* who executes Lua code
    simCommands     \* commands in SimCommandChannel

loopVars == <<encoderLoop, transmitLoop, FrameData, updatesLeft, luaLock, simCommands>>
vars == <<liveVars, loopVars>>

Init ==
    /\ LiveInit
    /\ encoderLoop = "select"
    /\ transmitLoop = "select"
    /\ FrameData = 0
    /\ updatesLeft = 0
    /\ luaLock = Nobody
    /\ simCommands = 0

-----------------------------------------------------------------------------
(***************************************************************************)
(* Lua callbacks, executed by E (output) or T (input) under luaLock.  They *)
(* may send commands; those that do not fit in the channel are dropped.    *)
(***************************************************************************)
EnterLua(me) == luaLock = Nobody /\ luaLock' = me

LeaveLua == luaLock' = Nobody

RunCallbacks == simCommands' \in simCommands..SimCommandCapacity

-----------------------------------------------------------------------------
(***************************************************************************)
(* The encoder loop.                                                       *)
(***************************************************************************)
ReceiveFrame ==
    /\ encoderLoop = "select" /\ FrameData = 1
    /\ FrameData' = 0
    /\ encoderLoop' = "lock"
    /\ UNCHANGED <<liveVars, transmitLoop, updatesLeft, luaLock, simCommands>>

EnterOutputCallbacks ==
    /\ encoderLoop = "lock"
    /\ EnterLua("E")
    /\ encoderLoop' = "callbacks"
    /\ UNCHANGED <<liveVars, transmitLoop, FrameData, updatesLeft, simCommands>>

OutputCallbacks ==
    /\ encoderLoop = "callbacks"
    /\ RunCallbacks
    /\ LeaveLua
    /\ encoderLoop' = "update"
    /\ UNCHANGED <<liveVars, transmitLoop, FrameData, updatesLeft>>

\* Nothing came for 60 ms.
IdleUpdate ==
    /\ EnableIdleUpdates
    /\ encoderLoop = "select" /\ FrameData = 0
    /\ encoderLoop' = "update"
    /\ UNCHANGED <<liveVars, transmitLoop, FrameData, updatesLeft, luaLock, simCommands>>

\* enc.Update and portManager.Write.
WriteToPanels ==
    /\ encoderLoop = "update"
    /\ encoderLoop' = "listeners"
    /\ UNCHANGED <<liveVars, transmitLoop, FrameData, updatesLeft, luaLock, simCommands>>

\* lda.WriteExportData.
BeginWriteExportData ==
    /\ encoderLoop = "listeners"
    /\ BeginWrite("E")
    /\ encoderLoop' = "sending"
    /\ UNCHANGED <<transmitLoop, FrameData, updatesLeft, luaLock, simCommands>>

SendExportData ==
    /\ encoderLoop = "sending"
    /\ \E s \in Session : SendTo(s)
    /\ UNCHANGED loopVars

EndWriteExportData ==
    /\ encoderLoop = "sending"
    /\ EndWrite
    /\ encoderLoop' = "select"
    /\ UNCHANGED <<transmitLoop, FrameData, updatesLeft, luaLock, simCommands>>

EncoderLoop ==
    \/ ReceiveFrame \/ EnterOutputCallbacks \/ OutputCallbacks
    \/ WriteToPanels \/ BeginWriteExportData \/ SendExportData \/ EndWriteExportData

-----------------------------------------------------------------------------
(***************************************************************************)
(* The transmit loop.                                                      *)
(***************************************************************************)
TakeLiveCommand(s) ==
    /\ transmitLoop = "select"
    /\ TakeCommand(s)
    /\ UNCHANGED loopVars

TakeSimCommand ==
    /\ transmitLoop = "select" /\ simCommands > 0
    /\ simCommands' = simCommands - 1
    /\ UNCHANGED <<liveVars, encoderLoop, transmitLoop, FrameData, updatesLeft, luaLock>>

\* A command from a panel is offered to the input callbacks first.  (One that is
\* not two words goes straight to DCS, which changes nothing here.)
TakePortCommand ==
    /\ transmitLoop = "select"
    /\ transmitLoop' = "lock"
    /\ UNCHANGED <<liveVars, encoderLoop, FrameData, updatesLeft, luaLock, simCommands>>

EnterInputCallbacks ==
    /\ transmitLoop = "lock"
    /\ EnterLua("T")
    /\ transmitLoop' = "callbacks"
    /\ UNCHANGED <<liveVars, encoderLoop, FrameData, updatesLeft, simCommands>>

InputCallbacks ==
    /\ transmitLoop = "callbacks"
    /\ RunCallbacks
    /\ LeaveLua
    /\ transmitLoop' = "select"
    /\ UNCHANGED <<liveVars, encoderLoop, FrameData, updatesLeft>>

TakeExportData ==
    /\ transmitLoop = "select"
    /\ updatesLeft' \in 1..MaxUpdates
    /\ transmitLoop' = "parse"
    /\ UNCHANGED <<liveVars, encoderLoop, FrameData, luaLock, simCommands>>

\* Faulty variant: the end of the chunk is noticed one update too late.
NotifyPastEnd ==
    /\ transmitLoop = "parse"
    /\ FrameData = 0
    /\ FrameData' = 1
    /\ updatesLeft' = updatesLeft - 1
    /\ transmitLoop' = IF updatesLeft = 0 THEN "select" ELSE "parse"
    /\ UNCHANGED <<liveVars, encoderLoop, luaLock, simCommands>>

\* ProcessByte at the end of an update: notify blocks while FrameData is full.
Notify ==
    /\ transmitLoop = "parse"
    /\ FrameData = 0
    /\ FrameData' = 1
    /\ updatesLeft' = updatesLeft - 1
    /\ transmitLoop' = IF updatesLeft = 1 THEN "select" ELSE "parse"
    /\ UNCHANGED <<liveVars, encoderLoop, luaLock, simCommands>>

TransmitLoop == EnterInputCallbacks \/ InputCallbacks \/ Notify

Next ==
    \/ EncoderLoop \/ IdleUpdate
    \/ TransmitLoop \/ TakeSimCommand \/ TakePortCommand \/ TakeExportData
    \/ \E s \in Session : TakeLiveCommand(s)
    \/ \E s \in Session :
          /\ \/ OpenSession(s) \/ CloseSession(s) \/ SendCommand(s)
             \/ CommandsEnd(s) \/ Handler(s) \/ Write(s)
          /\ UNCHANGED loopVars

Spec == Init /\ [][Next]_vars

(***************************************************************************)
(* Goroutines that can go on do, scripts return, clients read what they    *)
(* are sent until they close.  The select statement of Go chooses among    *)
(* the ready cases at random, so none of them is passed over for ever, and *)
(* a mutex goes to everyone who waits for it.  Clients, panels and DCS     *)
(* need do nothing.                                                        *)
(***************************************************************************)
Fairness ==
    /\ SF_vars(EncoderLoop)
    /\ SF_vars(TransmitLoop)
    /\ \A s \in Session :
          /\ SF_vars(TakeLiveCommand(s))
          /\ SF_vars(Handler(s) /\ UNCHANGED loopVars)
          /\ WF_vars((Write(s) \/ CommandsEnd(s)) /\ UNCHANGED loopVars)

FairSpec == Spec /\ Fairness

-----------------------------------------------------------------------------
(***************************************************************************)
(* A type invariant.                                                       *)
(***************************************************************************)
TypeOK ==
    /\ socket \in [Session -> {"none", "open", "closed"}]
    /\ handler \in [Session -> {"none", "subscribe", "select", "respond", "unsubscribe", "ended"}]
    /\ commandListener \in [Session -> {"none", "receive", "send", "ended"}]
    /\ responding \subseteq Session
    /\ exportDataListeners \subseteq Session
    /\ listenerLock \in {Nobody, "E"}
    /\ receivers \subseteq exportDataListeners
    /\ encoderLoop \in {"select", "lock", "callbacks", "update", "listeners", "sending"}
    /\ transmitLoop \in {"select", "lock", "callbacks", "parse"}
    /\ FrameData \in 0..1
    /\ updatesLeft \in 0..MaxUpdates
    /\ luaLock \in {Nobody, "E", "T"}
    /\ simCommands \in 0..SimCommandCapacity

(***************************************************************************)
(* The encoder loop never waits to send to a session whose handler has     *)
(* ended and will not receive: it would wait for ever.                     *)
(***************************************************************************)
ReceiversAlive ==
    \A s \in receivers : handler[s] \in {"select", "respond", "unsubscribe"}

(***************************************************************************)
(* A frame that the parser has put into FrameData is received by the       *)
(* encoder loop, which then sends its update to the panels.                *)
(***************************************************************************)
FramesReachPanels ==
    /\ FrameData = 1 ~> FrameData = 0
    /\ encoderLoop = "lock" ~> encoderLoop = "listeners"

(***************************************************************************)
(* A command of a live data session is taken to DCS, however busy the hub  *)
(* is with export data and with other commands.                            *)
(***************************************************************************)
LiveCommandsTaken ==
    \A s \in Session : commandListener[s] = "send" ~> commandListener[s] # "send"

(***************************************************************************)
(* A session that ends is all that can stop the two loops: unless the      *)
(* encoder loop, which has the lock, sends to a handler that waits for it, *)
(* frames reach the panels and commands are taken, though the loops wait   *)
(* for each other's channels and locks and sessions come and go.           *)
(***************************************************************************)
WaitForEachOther == \E s \in receivers : handler[s] = "unsubscribe"

OnlyClosingBlocks == []~WaitForEachOther => FramesReachPanels /\ LiveCommandsTaken
=============================================================================
