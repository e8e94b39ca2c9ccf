----------------------------- MODULE PortManager -----------------------------
(***************************************************************************)
(* serialconnection.PortManager with its SerialConnections, the COM ports  *)
(* that come and go, and comports.json, which outlives the hub.            *)
(*                                                                         *)
(* Every operation of the PortManager runs under portStateLock, but for    *)
(* the loading of the configuration, and updatePortState reads the state   *)
(* of a connection once; each is one action.  The snapshots for the user   *)
(* interface (portStateDirtyFlag, notifyPortState) are in Monitors; the    *)
(* writing of export data changes nothing here and is left out.            *)
(***************************************************************************)
EXTENDS SerialConnection, Functions

CONSTANTS
    NoEntry,        \* the port is not in the map portState
    NoConnection,   \* nil
    Active,         \* bound: the ports that are plugged in and out and that users configure
    Preferences,    \* bound: the pairs <<AutoConnect, ShouldBeConnected>> users set
    EarlyPreferences, \* users may set preferences before they are loaded
    MaxStops        \* bound: times the hub is stopped and started again

ASSUME PortManagerAssumption ==
    /\ NoConnection \notin Connection
    /\ NoEntry \notin [AutoConnect : BOOLEAN, ShouldBeConnected : BOOLEAN,
                       IsConnected : BOOLEAN, IsPresent : BOOLEAN,
                       serialConnection : Connection \cup {NoConnection}]
    /\ Active \subseteq Port
    /\ Preferences \subseteq BOOLEAN \X BOOLEAN
    /\ EarlyPreferences \in BOOLEAN
    /\ MaxStops \in Nat

VARIABLES
    portState,      \* [Port -> PortState \cup {NoEntry}]
    loaded,         \* Run has read comports.json
    initialPrefs,   \* the ports Run found there and has not entered yet
    autoConnect,    \* the ports in comports.json
    stops           \* how often the hub has been stopped

managerVars == <<portState, loaded, initialPrefs, autoConnect, stops>>
vars == <<connectionVars, managerVars>>

PortState == [AutoConnect : BOOLEAN, ShouldBeConnected : BOOLEAN,
              IsConnected : BOOLEAN, IsPresent : BOOLEAN,
              serialConnection : Connection \cup {NoConnection}]

NewPortState == [AutoConnect |-> FALSE, ShouldBeConnected |-> FALSE,
                 IsConnected |-> FALSE, IsPresent |-> FALSE,
                 serialConnection |-> NoConnection]

\* What getPortState returns.
GetPortState(ps, p) == IF ps[p] = NoEntry THEN NewPortState ELSE ps[p]

Init ==
    /\ connection = [c \in Connection |-> Garbage]
    /\ \E present \in SUBSET Active : plugged = present \cup (Port \ Active)
    /\ panicked = FALSE
    /\ portState = [p \in Port |-> NoEntry]
    /\ loaded = FALSE
    /\ initialPrefs = {}
    /\ autoConnect \in SUBSET Port
    /\ stops = 0

-----------------------------------------------------------------------------
\* What persistConfig writes.
Persisted(ps) == {p \in Port : ps[p] # NoEntry /\ ps[p].AutoConnect}

\* Run has loaded the configuration and loops.
Looping == loaded /\ initialPrefs = {}

\* The user sets the preferences of a port.
SetPortPreference(p, pref) ==
    /\ EarlyPreferences \/ Looping
    /\ portState' = [portState EXCEPT ![p] =
            [GetPortState(portState, p) EXCEPT !.AutoConnect = pref[1], !.ShouldBeConnected = pref[2]]]
    /\ autoConnect' = Persisted(portState')
    /\ UNCHANGED <<connectionVars, loaded, initialPrefs, stops>>

\* Run, up to its loop: the file is read ...
LoadConfiguration ==
    /\ ~loaded
    /\ loaded' = TRUE
    /\ initialPrefs' = autoConnect
    /\ UNCHANGED <<connectionVars, portState, autoConnect, stops>>

\* ... and its ports are entered, one by one and without the lock.
EnterInitialPref(p) ==
    /\ p \in initialPrefs
    /\ initialPrefs' = initialPrefs \ {p}
    /\ portState' = [portState EXCEPT ![p] =
            [GetPortState(portState, p) EXCEPT !.AutoConnect = TRUE, !.ShouldBeConnected = TRUE]]
    /\ UNCHANGED <<connectionVars, loaded, autoConnect, stops>>

Load == LoadConfiguration \/ \E p \in Port : EnterInitialPref(p)

-----------------------------------------------------------------------------
(***************************************************************************)
(* updatePortState, entry by entry: s stands for an entry of portState.    *)
(***************************************************************************)
StateOf(s) == connection[s.serialConnection].state

\* Faulty variant: the connection is dropped and the flag is not reset.
CleanUpKeepingFlag(s) ==
    IF s # NoEntry /\ s.IsConnected /\ StateOf(s) = "Closed"
    THEN [s EXCEPT !.serialConnection = NoConnection]
    ELSE s

CleanUp(s) ==
    IF s # NoEntry /\ s.IsConnected /\ StateOf(s) = "Closed"
    THEN [s EXCEPT !.serialConnection = NoConnection, !.IsConnected = FALSE]
    ELSE s

DetectConnected(s) ==
    IF s # NoEntry /\ s.serialConnection # NoConnection /\ ~s.IsConnected /\ StateOf(s) = "Open"
    THEN [s EXCEPT !.IsConnected = TRUE]
    ELSE s

\* Faulty variant: the entry of a removed port goes whatever its preference.
DropRemovedAll(s) == NoEntry

DropRemoved(s) ==
    IF s # NoEntry /\ s.AutoConnect THEN [s EXCEPT !.IsPresent = FALSE] ELSE NoEntry

DetectNew(s) ==
    LET t == IF s = NoEntry THEN NewPortState ELSE s
    IN  IF t.IsPresent THEN t
        ELSE [t EXCEPT !.IsPresent = TRUE, !.ShouldBeConnected = t.AutoConnect]

\* The entries when it comes to connecting and disconnecting.
Refreshed(available) ==
    [p \in Port |->
        LET s == DetectConnected(CleanUp(portState[p]))
        IN  IF p \in available THEN DetectNew(s) ELSE DropRemoved(s)]

\* Faulty variant: nothing is ever disconnected.
ToDisconnectNone(ps, available) == {}

ToDisconnect(ps, available) ==
    {p \in available : ~ps[p].ShouldBeConnected /\ ps[p].IsConnected}

\* Faulty variant: only a port that has just appeared is connected.
ToConnectNew(ps, available) ==
    {p \in available : /\ ps[p].ShouldBeConnected /\ ps[p].serialConnection = NoConnection
                       /\ portState[p] = NoEntry \/ ~portState[p].IsPresent}

ToConnect(ps, available) ==
    {p \in available : ps[p].ShouldBeConnected /\ ps[p].serialConnection = NoConnection}

\* Objects that no goroutine and no entry uses any more can be allocated anew.
\* Connection bounds how many are in use at a time.
Free(ps) == {c \in Connection :
                /\ HasEnded(c)
                /\ connection[c].forwarder # "forwarding"
                /\ \A p \in Port : ps[p] # NoEntry => ps[p].serialConnection # c}

\* Faulty variant: the connections of one update share the loop's variable.
OpenedForAny(new, c) == CHOOSE p \in DOMAIN new : TRUE

\* The port that a new connection is for.
OpenedFor(new, c) == CHOOSE p \in DOMAIN new : new[p] = c

UpdatePortState(available, vanished) ==
    LET ps         == Refreshed(available)
        disconnect == {ps[p].serialConnection : p \in ToDisconnect(ps, available)}
        connect    == ToConnect(ps, available)
        new        == CHOOSE f \in Injection(connect, Free(ps)) : TRUE
    IN  /\ Looping
        /\ Injection(connect, Free(ps)) # {}
        /\ portState' = [p \in Port |->
                IF p \in connect
                THEN [ps[p] EXCEPT !.serialConnection = new[p], !.IsConnected = FALSE]
                ELSE ps[p]]
        /\ connection' = [c \in Connection |->
                IF \E p \in connect : new[p] = c
                THEN NewSerialConnection(OpenedFor(new, c))
                ELSE IF c \in Free(ps) THEN Garbage
                ELSE [connection[c] EXCEPT !.done = @ \/ c \in disconnect,
                                           !.broken = @ \/ c \in OpenOn(vanished)]]
        /\ plugged' = plugged \ vanished
        /\ UNCHANGED <<panicked, loaded, initialPrefs, autoConnect, stops>>

\* GetSerialPortList returns the ports that are plugged in, ...
UpdateNormally == UpdatePortState(plugged, {})

\* ... or an error, when the registry cannot be read, or when a port vanishes after
\* its name has been read and before its value is: the list is taken to be empty then.
UpdateAfterListError ==
    \E vanished \in {{}} \cup {{p} : p \in plugged \cap Active} : UpdatePortState({}, vanished)

-----------------------------------------------------------------------------
\* The hub is stopped, or has panicked, and is started again.  Store truncates
\* comports.json before it writes, so a stop while a preference is being set
\* leaves it empty.
StopAndStart ==
    /\ stops < MaxStops
    /\ stops' = stops + 1
    /\ connection' = [c \in Connection |-> Garbage]
    /\ panicked' = FALSE
    /\ portState' = [p \in Port |-> NoEntry]
    /\ loaded' = FALSE
    /\ initialPrefs' = {}
    /\ autoConnect' \in {autoConnect, {}}
    /\ UNCHANGED plugged

Running ==
    \/ \E p \in Active, pref \in Preferences : SetPortPreference(p, pref)
    \/ Load
    \/ UpdateNormally
    \/ UpdateAfterListError
    \/ \E c \in Connection : (Run(c) \/ Reader(c) \/ Read(c) \/ Forwarder(c)) /\ UNCHANGED managerVars

Next ==
    \/ ~panicked /\ Running
    \/ \E p \in Active : (Plug(p) \/ Unplug(p)) /\ UNCHANGED managerVars
    \/ StopAndStart

Spec == Init /\ [][Next]_vars

(***************************************************************************)
(* Run loops for ever, goroutines that can go on do, and the transmit loop *)
(* takes the commands.  Nothing is assumed of users, devices and ports.    *)
(***************************************************************************)
Fairness ==
    /\ WF_vars(~panicked /\ Load)
    /\ WF_vars(~panicked /\ UpdateNormally)
    /\ \A c \in Connection :
          /\ WF_vars(~panicked /\ Run(c) /\ UNCHANGED managerVars)
          /\ WF_vars(~panicked /\ Reader(c) /\ UNCHANGED managerVars)
          /\ WF_vars(~panicked /\ Forwarder(c) /\ UNCHANGED managerVars)

FairSpec == Spec /\ Fairness

-----------------------------------------------------------------------------
(***************************************************************************)
(* A type invariant.                                                       *)
(***************************************************************************)
TypeOK ==
    /\ connection \in [Connection -> Object]
    /\ plugged \subseteq Port
    /\ panicked \in BOOLEAN
    /\ portState \in [Port -> PortState \cup {NoEntry}]
    /\ loaded \in BOOLEAN
    /\ initialPrefs \subseteq Port
    /\ autoConnect \subseteq Port
    /\ stops \in 0..MaxStops

(***************************************************************************)
(* updatePortState dereferences serialConnection of every entry that       *)
(* IsConnected (to ask for its state, to close it): it is never nil there. *)
(***************************************************************************)
ConnectedHasConnection ==
    \A p \in Port :
        portState[p] # NoEntry /\ portState[p].IsConnected
            => portState[p].serialConnection # NoConnection

(***************************************************************************)
(* The setting AutoConnect is persisted: once the file has been loaded, it *)
(* holds the ports that have the setting, and no port gets into it or lost *)
(* from it by appearing, disappearing or connecting.                       *)
(***************************************************************************)
PreferencesPersisted == Looping => autoConnect = Persisted(portState)

(***************************************************************************)
(* Two entries never share a connection, and a connection that an entry    *)
(* takes to be connected has been opened for that entry's port.            *)
(***************************************************************************)
ConnectionOfPort ==
    \A p \in Port :
        LET c == portState[p].serialConnection
        IN  portState[p] # NoEntry /\ c # NoConnection
                => /\ connection[c].portName = p
                   /\ portState[p].IsConnected => connection[c].state # "Connecting"

IsConnected(p) == portState[p] # NoEntry /\ portState[p].IsConnected
ShouldBe(p) == portState[p] # NoEntry /\ portState[p].ShouldBeConnected

OpenTo(p) == \E c \in Connection : PortIsOpen(c) /\ connection[c].portName = p

\* The port is open on a connection that no entry has: updatePortState has deleted
\* the entry, when the port was not in the list, and kept no trace of the connection.
LeftOpen(p) ==
    \E c \in Connection :
        /\ PortIsOpen(c) /\ connection[c].portName = p
        /\ \A q \in Port : portState[q] # NoEntry => portState[q].serialConnection # c

(***************************************************************************)
(* "If Connect=false, it will be closed if it is currently open"           *)
(* (portmanager.go:24): a port that should not be connected and stays      *)
(* available is shown as disconnected in the end, and the hub does not     *)
(* have it open, unless on a connection whose entry was deleted (line 208) *)
(* and which nobody closes any more.                                       *)
(***************************************************************************)
Disconnects ==
    \A p \in Port :
        <>[](~ShouldBe(p) /\ p \in plugged /\ ~panicked)
            => <>[]~IsConnected(p) /\ (<>[]~OpenTo(p) \/ <>[]LeftOpen(p))

\* The connection ended before an update saw it open: the port could not be opened,
\* or was gone again at once.  The entry keeps it, and no other attempt is made.
GivenUp(p) ==
    LET c == portState[p].serialConnection
    IN  /\ portState[p] # NoEntry /\ c # NoConnection
        /\ ~portState[p].IsConnected /\ connection[c].state = "Closed"

(***************************************************************************)
(* If a port should be connected and stays available, it is connected in   *)
(* the end, also after it has been lost, unless a connection ends before   *)
(* it was ever seen open (which, by the documentation, is no reason), or   *)
(* one whose entry was deleted still has the port open.                    *)
(***************************************************************************)
ConnectsUnlessGivenUp ==
    \A p \in Port :
        <>[](ShouldBe(p) /\ p \in plugged /\ ~panicked)
            => <>[](IsConnected(p) \/ GivenUp(p) \/ LeftOpen(p))
=============================================================================
