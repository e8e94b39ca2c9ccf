----------------------------- MODULE HubSessions -----------------------------
(***************************************************************************)
(* The sessions of the user interface that follow the state of the hub:    *)
(* the status, which the connection to DCS, the Lua console and the tray   *)
(* menu tell, or one of the lists of Monitors.                             *)
(***************************************************************************)
EXTENDS DcsConnection, Monitors

ASSUME HubSessionsAssumption == Nobody \notin {"Run", "menu", "console"}

VARIABLES
    luaConsoleEnabled,
    menu,        \* the event loop of the tray menu: "wait", "tell" or "told"
    console      \* a goroutine of the Lua console: "wait" or "told"

menuVars == <<luaConsoleEnabled, menu, console>>
vars == <<statusVars, dcs, connVars, menuVars, monitorVars>>

Init ==
    /\ StatusInit /\ ConnInit /\ MonitorInit
    /\ luaConsoleEnabled = FALSE
    /\ menu = "wait"
    /\ console = "wait"

-----------------------------------------------------------------------------
StartDcs ==
    /\ ~dcs
    /\ dcs' = TRUE
    /\ UNCHANGED <<statusVars, connVars, menuVars>>

StopDcs ==
    /\ dcs
    /\ dcs' = FALSE
    /\ conn' = IF conn = "open" THEN "ended" ELSE conn
    /\ UNCHANGED <<statusVars, run, state, mutex, sender, menuVars>>

\* The user enables or disables the Lua console.  (The item for access from the
\* network works alike.)
Click ==
    /\ menu = "wait"
    /\ luaConsoleEnabled' = ~luaConsoleEnabled
    /\ menu' = "tell"
    /\ UNCHANGED <<statusVars, dcs, connVars, console>>

TellEnabled ==
    /\ menu = "tell"
    /\ BeginMutation("menu", "enabled", luaConsoleEnabled)
    /\ menu' = "told"
    /\ UNCHANGED <<dcs, connVars, luaConsoleEnabled, console>>

ToldEnabled ==
    /\ menu = "told"
    /\ EndMutation
    /\ menu' = "wait"
    /\ UNCHANGED <<dcs, connVars, luaConsoleEnabled, console>>

\* See LuaConsole.
TellConsole(connected) ==
    /\ console = "wait"
    /\ BeginMutation("console", "console", connected)
    /\ console' = "told"
    /\ UNCHANGED <<dcs, connVars, luaConsoleEnabled, menu>>

ToldConsole ==
    /\ console = "told"
    /\ EndMutation
    /\ console' = "wait"
    /\ UNCHANGED <<dcs, connVars, luaConsoleEnabled, menu>>

ConnStep(A) == A /\ UNCHANGED <<menuVars, monitorVars>>
SessionStep(A) == A /\ UNCHANGED <<dcs, connVars, menuVars, monitorVars>>
TellerStep(A) == A /\ UNCHANGED monitorVars

StatusNext ==
    \/ ConnStep(Run \/ \E t \in Sender : BeginTrySend(t) \/ TrySend(t))
    \/ SessionStep(\E s \in Session : SendStatus(s) \/ Subscribe(s) \/ Leave(s) \/ Unsubscribe(s))
    \/ TellerStep(\/ StartDcs \/ StopDcs
                  \/ Click \/ TellEnabled \/ ToldEnabled
                  \/ \E connected \in BOOLEAN : TellConsole(connected)
                  \/ ToldConsole)

Next ==
    \/ topic = "status" /\ StatusNext
    \/ MonitorNext /\ UNCHANGED <<statusVars, dcs, connVars, menuVars>>

Spec == Init /\ [][Next]_vars

\* Goroutines that can go on do, and a mutex goes to everyone who waits for it.
FairSpec ==
    /\ Spec
    /\ SF_vars(topic = "status" /\ ConnStep(Run))
    /\ \A t \in Sender : SF_vars(topic = "status" /\ ConnStep(TrySend(t)))
    /\ WF_vars(topic = "status" /\ SessionStep(\E s \in Session : SendStatus(s)))
    /\ WF_vars(topic = "status" /\ TellerStep(ToldEnabled \/ ToldConsole))
    /\ WF_vars(topic # "status" /\ Publishing /\ UNCHANGED <<statusVars, dcs, connVars, menuVars>>)

-----------------------------------------------------------------------------
(***************************************************************************)
(* A type invariant.                                                       *)
(***************************************************************************)
TypeOK ==
    /\ currentStatus \in [Field -> BOOLEAN]
    /\ statusLock \in {Nobody, "Run", "menu", "console"}
    /\ unsent \subseteq statusChannels /\ statusChannels \subseteq Session
    /\ session \in [Session -> {"none", "select", "leaving"}]
    /\ shown \in [Session -> [Field -> BOOLEAN]]
    /\ dcs \in BOOLEAN
    /\ run \in {"dial", "status connected", "connected", "read", "status connecting", "connecting"}
    /\ conn \in {"none", "open", "ended"}
    /\ state \in {"Connecting", "Connected"}
    /\ mutex \in {Nobody, "Run"}
    /\ sender \in [Sender -> {"none", "lock"}]
    /\ luaConsoleEnabled \in BOOLEAN
    /\ menu \in {"wait", "tell", "told"} /\ console \in {"wait", "told"}
    /\ MonitorTypeOK

(***************************************************************************)
(* Whenever nobody holds statusLock, every session that has subscribed     *)
(* shows the status there is: the first one it is sent cannot be older     *)
(* than a change that it is not sent.                                      *)
(***************************************************************************)
SessionsCurrent ==
    statusLock = Nobody => \A s \in statusChannels : shown[s] = currentStatus

(***************************************************************************)
(* When the mutex of DcsConnection is free, DCS is shown as connected      *)
(* exactly if TrySend would send, and then there is a connection to send   *)
(* on; and the menu item is shown as it is, unless it is about to be.      *)
(***************************************************************************)
StatusTrue ==
    /\ mutex = Nobody => /\ currentStatus["dcs"] <=> state = "Connected"
                         /\ state = "Connected" <=> conn # "none"
    /\ menu # "tell" => currentStatus["enabled"] = luaConsoleEnabled

(***************************************************************************)
(* TrySend returns, unless a session leaves while it is sent a status: Run *)
(* tells the status while it holds the mutex, and the loop that takes the  *)
(* commands of panels to DCS calls TrySend.                                *)
(***************************************************************************)
TrySendReturns ==
    []~LeftWhileSent => \A t \in Sender : sender[t] = "lock" ~> sender[t] = "none"
=============================================================================
