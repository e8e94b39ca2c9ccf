-------------------------- MODULE PortManagerProofs --------------------------
(***************************************************************************)
(* Proofs about PortManager: no entry of portState that counts as          *)
(* connected is without a connection, no two entries share one, and        *)
(* comports.json holds what the user sees, for any number of ports and     *)
(* connections; and about SerialConnection, which PortManager extends:     *)
(* only a Close from outside leads to a panic.                             *)
(***************************************************************************)
EXTENDS PortManager, TLAPS

Entry == PortState \cup {NoEntry}

\* What the two theorems say of a single entry.
HasConnection(s) == s # NoEntry /\ s.IsConnected => s.serialConnection # NoConnection
HasAutoConnect(s) == s # NoEntry /\ s.AutoConnect

LEMMA NoEntryIsNone == NoEntry \notin PortState
BY PortManagerAssumption DEF PortState

LEMMA NewPortStateIsOne == NewPortState \in PortState /\ ~NewPortState.AutoConnect
                           /\ ~NewPortState.IsConnected
BY DEF NewPortState, PortState

LEMMA CleanUpKeeps ==
    ASSUME NEW s \in Entry
    PROVE  /\ CleanUp(s) \in Entry
           /\ HasConnection(s) => HasConnection(CleanUp(s))
           /\ HasAutoConnect(CleanUp(s)) <=> HasAutoConnect(s)
BY NoEntryIsNone DEF CleanUp, Entry, HasConnection, HasAutoConnect, PortState

LEMMA DetectConnectedKeeps ==
    ASSUME NEW s \in Entry
    PROVE  /\ DetectConnected(s) \in Entry
           /\ HasConnection(s) => HasConnection(DetectConnected(s))
           /\ HasAutoConnect(DetectConnected(s)) <=> HasAutoConnect(s)
BY NoEntryIsNone DEF DetectConnected, Entry, HasConnection, HasAutoConnect, PortState

\* The entry of a removed port goes only if it has no autoconnect.
LEMMA DropRemovedKeeps ==
    ASSUME NEW s \in Entry
    PROVE  /\ DropRemoved(s) \in Entry
           /\ HasConnection(s) => HasConnection(DropRemoved(s))
           /\ HasAutoConnect(DropRemoved(s)) <=> HasAutoConnect(s)
BY NoEntryIsNone DEF DropRemoved, Entry, HasConnection, HasAutoConnect, PortState

LEMMA DetectNewKeeps ==
    ASSUME NEW s \in Entry
    PROVE  /\ DetectNew(s) \in PortState
           /\ HasConnection(s) => HasConnection(DetectNew(s))
           /\ HasAutoConnect(DetectNew(s)) <=> HasAutoConnect(s)
<1> DEFINE t == IF s = NoEntry THEN NewPortState ELSE s
<1>1. /\ t \in PortState
      /\ HasConnection(s) => HasConnection(t)
      /\ HasAutoConnect(t) <=> HasAutoConnect(s)
  BY NoEntryIsNone, NewPortStateIsOne DEF Entry, HasConnection, HasAutoConnect
<1>2. DetectNew(s) = IF t.IsPresent THEN t
                     ELSE [t EXCEPT !.IsPresent = TRUE, !.ShouldBeConnected = t.AutoConnect]
  BY DEF DetectNew
<1> HIDE DEF t
<1> QED
  BY <1>1, <1>2, NoEntryIsNone DEF HasConnection, HasAutoConnect, PortState

LEMMA GetPortStateKeeps ==
    ASSUME NEW ps \in [Port -> Entry], NEW p \in Port
    PROVE  /\ GetPortState(ps, p) \in PortState
           /\ HasConnection(ps[p]) => HasConnection(GetPortState(ps, p))
BY NoEntryIsNone, NewPortStateIsOne DEF GetPortState, Entry, HasConnection

-----------------------------------------------------------------------------
(***************************************************************************)
(* The inductive invariant.  When nobody sets a preference before they are *)
(* loaded, no entry has AutoConnect until Run has read the file, and then  *)
(* the file holds the entries that have it and those yet to be entered.    *)
(***************************************************************************)
EntriesOK ==
    /\ portState \in [Port -> Entry]
    /\ \A p \in Port : HasConnection(portState[p])

FileOK ==
    /\ autoConnect \subseteq Port
    /\ ~EarlyPreferences =>
            IF loaded THEN autoConnect = Persisted(portState) \cup initialPrefs
                      ELSE Persisted(portState) = {}
    /\ ~loaded => initialPrefs = {}

IInv == EntriesOK /\ FileOK

LEMMA PersistedMeans ==
    Persisted(portState) = {p \in Port : HasAutoConnect(portState[p])}
BY DEF Persisted, HasAutoConnect

LEMMA InitEstablishes == Init => IInv
BY NoEntryIsNone
DEF Init, IInv, EntriesOK, FileOK, Entry, HasConnection, Persisted

LEMMA RefreshedKeeps ==
    ASSUME EntriesOK, NEW available
    PROVE  /\ Refreshed(available) \in [Port -> Entry]
           /\ \A p \in Port : /\ HasConnection(Refreshed(available)[p])
                              /\ HasAutoConnect(Refreshed(available)[p])
                                    <=> HasAutoConnect(portState[p])
                              /\ p \in available => Refreshed(available)[p] \in PortState
<1>1. ASSUME NEW p \in Port
      PROVE  /\ Refreshed(available)[p] \in Entry
             /\ HasConnection(Refreshed(available)[p])
             /\ HasAutoConnect(Refreshed(available)[p]) <=> HasAutoConnect(portState[p])
             /\ p \in available => Refreshed(available)[p] \in PortState
  <2> DEFINE s == DetectConnected(CleanUp(portState[p]))
  <2>1. /\ CleanUp(portState[p]) \in Entry
        /\ HasConnection(CleanUp(portState[p]))
        /\ HasAutoConnect(CleanUp(portState[p])) <=> HasAutoConnect(portState[p])
    BY CleanUpKeeps DEF EntriesOK
  <2>2. /\ s \in Entry
        /\ HasConnection(s)
        /\ HasAutoConnect(s) <=> HasAutoConnect(portState[p])
    BY <2>1, DetectConnectedKeeps
  <2>3. Refreshed(available)[p] = IF p \in available THEN DetectNew(s) ELSE DropRemoved(s)
    BY DEF Refreshed
  <2> HIDE DEF s
  <2>4. CASE p \in available
    BY <2>2, <2>3, <2>4, DetectNewKeeps DEF Entry
  <2>5. CASE p \notin available
    BY <2>2, <2>3, <2>5, DropRemovedKeeps
  <2> QED
    BY <2>4, <2>5
<1>2. Refreshed(available) \in [Port -> Entry]
  BY <1>1 DEF Refreshed
<1> QED
  BY <1>1, <1>2

LEMMA UpdatePortStateKeeps ==
    ASSUME IInv, NEW available, NEW vanished, UpdatePortState(available, vanished)
    PROVE  IInv'
<1> DEFINE ps == Refreshed(available)
           connect == ToConnect(ps, available) \cap Port
           new == CHOOSE f \in Injection(ToConnect(ps, available), Free(ps)) : TRUE
<1>1. PICK n \in [connect -> Connection] :
        portState' = [p \in Port |->
            IF p \in connect
            THEN [ps[p] EXCEPT !.serialConnection = n[p], !.IsConnected = FALSE]
            ELSE ps[p]]
  <2>1. new \in Injection(ToConnect(ps, available), Free(ps))
    BY DEF UpdatePortState
  <2>2. new \in [ToConnect(ps, available) -> Connection]
    BY <2>1 DEF Injection, IsInjective, Free
  <2>3. [p \in connect |-> new[p]] \in [connect -> Connection]
    BY <2>2
  <2>4. portState' = [p \in Port |->
            IF p \in connect
            THEN [ps[p] EXCEPT !.serialConnection = [q \in connect |-> new[q]][p],
                               !.IsConnected = FALSE]
            ELSE ps[p]]
    BY DEF UpdatePortState
  <2> QED
    BY <2>3, <2>4
<1>2. /\ ps \in [Port -> Entry]
      /\ \A p \in Port : /\ HasConnection(ps[p])
                         /\ HasAutoConnect(ps[p]) <=> HasAutoConnect(portState[p])
                         /\ p \in available => ps[p] \in PortState
  BY RefreshedKeeps DEF IInv
<1>3. \A p \in connect : p \in Port /\ ps[p] \in PortState
  BY <1>2 DEF ToConnect
<1> HIDE DEF ps, connect, new
<1>4. ASSUME NEW p \in Port
      PROVE  /\ portState'[p] \in Entry
             /\ HasConnection(portState'[p])
             /\ HasAutoConnect(portState'[p]) <=> HasAutoConnect(portState[p])
  <2>1. CASE p \in connect
    <3> DEFINE e == [ps[p] EXCEPT !.serialConnection = n[p], !.IsConnected = FALSE]
    <3>1. portState'[p] = e
      BY <1>1, <2>1
    <3>2. ps[p] \in PortState /\ n[p] \in Connection
      BY <1>3, <2>1
    <3>3. e \in PortState /\ ~e.IsConnected /\ e.AutoConnect = ps[p].AutoConnect
      BY <3>2 DEF PortState
    <3> HIDE DEF e
    <3> QED
      BY <1>2, <3>1, <3>2, <3>3, NoEntryIsNone DEF Entry, HasConnection, HasAutoConnect
  <2>2. CASE p \notin connect
    BY <1>1, <1>2, <2>2
  <2> QED
    BY <2>1, <2>2
<1>5. EntriesOK'
  BY <1>1, <1>4 DEF EntriesOK
<1>6. FileOK'
  <2>1. Persisted(portState)' = Persisted(portState)
    BY <1>4 DEF Persisted, HasAutoConnect
  <2> QED
    BY <2>1 DEF UpdatePortState, IInv, FileOK
<1> QED
  BY <1>5, <1>6 DEF IInv

LEMMA SetPortPreferenceKeeps ==
    ASSUME IInv, NEW p \in Port, NEW pref \in Preferences, SetPortPreference(p, pref)
    PROVE  IInv'
<1> DEFINE s == GetPortState(portState, p)
           e == [s EXCEPT !.AutoConnect = pref[1], !.ShouldBeConnected = pref[2]]
<1>1. pref[1] \in BOOLEAN /\ pref[2] \in BOOLEAN
  BY PortManagerAssumption
<1>2. s \in PortState /\ HasConnection(s)
  BY GetPortStateKeeps DEF IInv, EntriesOK
<1> HIDE DEF s
<1>3. e \in PortState /\ HasConnection(e)
  BY <1>1, <1>2, NoEntryIsNone DEF PortState, HasConnection
<1> HIDE DEF e
<1>4. portState' = [portState EXCEPT ![p] = e]
  BY DEF SetPortPreference, e, s
<1>5. EntriesOK'
  BY <1>3, <1>4 DEF IInv, EntriesOK, Entry
<1>6. FileOK'
  BY DEF SetPortPreference, Looping, IInv, FileOK, Persisted
<1> QED
  BY <1>5, <1>6 DEF IInv

LEMMA LoadConfigurationKeeps ==
    ASSUME IInv, LoadConfiguration
    PROVE  IInv'
BY DEF IInv, EntriesOK, FileOK, LoadConfiguration, Persisted, HasConnection

LEMMA EnterInitialPrefKeeps ==
    ASSUME IInv, NEW p \in Port, EnterInitialPref(p)
    PROVE  IInv'
<1> DEFINE s == GetPortState(portState, p)
           e == [s EXCEPT !.AutoConnect = TRUE, !.ShouldBeConnected = TRUE]
<1>1. s \in PortState /\ HasConnection(s)
  BY GetPortStateKeeps DEF IInv, EntriesOK
<1> HIDE DEF s
<1>2. e \in PortState /\ HasConnection(e) /\ HasAutoConnect(e)
  BY <1>1, NoEntryIsNone DEF PortState, HasConnection, HasAutoConnect
<1> HIDE DEF e
<1>3. portState' = [portState EXCEPT ![p] = e]
  BY DEF EnterInitialPref, e, s
<1>4. EntriesOK'
  BY <1>2, <1>3 DEF IInv, EntriesOK, Entry
<1>5. Persisted(portState)' = Persisted(portState) \cup {p}
  BY <1>2, <1>3 DEF Persisted, HasAutoConnect, IInv, EntriesOK
<1>6. FileOK'
  BY <1>5 DEF EnterInitialPref, IInv, FileOK
<1> QED
  BY <1>4, <1>6 DEF IInv

LEMMA StopAndStartKeeps ==
    ASSUME IInv, StopAndStart
    PROVE  IInv'
BY NoEntryIsNone
DEF IInv, EntriesOK, FileOK, StopAndStart, Entry, HasConnection, Persisted

LEMMA OthersKeep ==
    ASSUME IInv, UNCHANGED managerVars
    PROVE  IInv'
BY DEF managerVars, IInv, EntriesOK, FileOK, HasConnection, Persisted

LEMMA NextKeeps == IInv /\ [Next]_vars => IInv'
<1> SUFFICES ASSUME IInv, [Next]_vars
             PROVE  IInv'
  OBVIOUS
<1>1. CASE Running
  <2>1. ASSUME NEW p \in Port, NEW pref \in Preferences, SetPortPreference(p, pref)
        PROVE  IInv'
    BY <2>1, SetPortPreferenceKeeps
  <2>2. CASE Load
    BY <2>2, LoadConfigurationKeeps, EnterInitialPrefKeeps DEF Load
  <2>3. CASE UpdateNormally
    BY <2>3, UpdatePortStateKeeps DEF UpdateNormally
  <2>4. CASE UpdateAfterListError
    BY <2>4, UpdatePortStateKeeps DEF UpdateAfterListError
  <2>5. CASE UNCHANGED managerVars
    BY <2>5, OthersKeep
  <2> QED
    BY <1>1, <2>1, <2>2, <2>3, <2>4, <2>5, PortManagerAssumption DEF Running
<1>2. CASE StopAndStart
  BY <1>2, StopAndStartKeeps
<1>3. CASE UNCHANGED managerVars
  BY <1>3, OthersKeep
<1>4. CASE UNCHANGED vars
  BY <1>4, OthersKeep DEF vars
<1> QED
  BY <1>1, <1>2, <1>3, <1>4 DEF Next

-----------------------------------------------------------------------------
LEMMA Invariance == Spec => []IInv
BY InitEstablishes, NextKeeps, PTL DEF Spec

\* updatePortState never dereferences a nil serialConnection.
THEOREM ConnectedHasConnectionAlways == Spec => []ConnectedHasConnection
<1>1. IInv => ConnectedHasConnection
  BY DEF IInv, EntriesOK, HasConnection, ConnectedHasConnection
<1> QED
  BY <1>1, Invariance, PTL

\* Unless a preference is set before they are loaded, comports.json holds the ports
\* whose entry has AutoConnect, and no others, from the end of loading on.
THEOREM PreferencesPersistedAlways ==
    ASSUME ~EarlyPreferences
    PROVE  Spec => []PreferencesPersisted
<1>1. IInv => PreferencesPersisted
  BY DEF IInv, FileOK, PreferencesPersisted, Looping
<1> QED
  BY <1>1, Invariance, PTL

-----------------------------------------------------------------------------
(***************************************************************************)
(* The second invariant: the entry of a port has a connection to that port,*)
(* which has been opened if the entry is connected.  An object is only     *)
(* allocated anew when no entry has it, and between allocations its port   *)
(* stays the same and its state never goes back to "Connecting".           *)
(***************************************************************************)
OthersOK ==
    /\ plugged \subseteq Port
    /\ panicked \in BOOLEAN
    /\ loaded \in BOOLEAN
    /\ initialPrefs \subseteq Port
    /\ stops \in 0..MaxStops

Fits(s, p, conn) ==
    s # NoEntry /\ s.serialConnection # NoConnection
        => /\ conn[s.serialConnection].portName = p
           /\ s.IsConnected => conn[s.serialConnection].state # "Connecting"

ConnectionsOK ==
    /\ connection \in [Connection -> Object]
    /\ \A p \in Port : Fits(portState[p], p, connection)

CInv == IInv /\ OthersOK /\ ConnectionsOK

\* run only closes what is done.
ClosedIsDone(o) == o.run \in {"portClosed", "stateClosed"} \/ o.inputClosed => o.done

\* What every step but an update makes of an object.
GoesOn(o, n) ==
    /\ n \in Object
    /\ n.portName = o.portName
    /\ o.state # "Connecting" => n.state # "Connecting"
    /\ ClosedIsDone(o) => ClosedIsDone(n)

LEMMA NewIsObject ==
    ASSUME NEW p \in Port
    PROVE  /\ NewSerialConnection(p) \in Object
           /\ NewSerialConnection(p).portName = p
BY SerialConnectionAssumption DEF NewSerialConnection, Object

LEMMA GarbageIsObject == Garbage \in Object
<1> DEFINE q == CHOOSE p \in Port : TRUE
<1>1. q \in Port
  BY SerialConnectionAssumption
<1> HIDE DEF q
<1>2. NewSerialConnection(q) \in Object
  BY <1>1, NewIsObject
<1>3. Garbage = [NewSerialConnection(q) EXCEPT !.state = "Closed", !.run = "ended"]
  BY DEF Garbage, q
<1> QED
  BY <1>2, <1>3 DEF Object

LEMMA RunGoesOn ==
    ASSUME connection \in [Connection -> Object], NEW c \in Connection, Run(c)
    PROVE  /\ connection' \in [Connection -> Object]
           /\ \A d \in Connection : GoesOn(connection[d], connection'[d])
<1>1. connection[c] \in Object
  OBVIOUS
<1>2. CASE OpenPort(c)
  <2> DEFINE opened == [connection[c] EXCEPT !.state = "Open", !.run = "waiting",
                                             !.reader = "scanning"]
  <2>1. connection' = [connection EXCEPT ![c] = opened] /\ connection[c].run = "opening"
    BY <1>2 DEF OpenPort
  <2>2. GoesOn(connection[c], opened)
    BY <1>1, <2>1 DEF GoesOn, ClosedIsDone, Object
  <2>3. \A d \in Connection : GoesOn(connection[d], connection[d])
    BY DEF GoesOn
  <2>4. opened \in Object
    BY <2>2 DEF GoesOn
  <2> HIDE DEF opened
  <2> QED
    BY <2>1, <2>2, <2>3, <2>4
<1>3. CASE OpenFails(c)
  BY <1>1, <1>3 DEF OpenFails, GoesOn, ClosedIsDone, Object
<1>4. CASE ClosePort(c)
  BY <1>1, <1>4 DEF ClosePort, GoesOn, ClosedIsDone, Object
<1>5. CASE SetStateClosed(c)
  BY <1>1, <1>5 DEF SetStateClosed, GoesOn, ClosedIsDone, Object
<1>6. CASE CloseInputCommands(c)
  BY <1>1, <1>6 DEF CloseInputCommands, GoesOn, ClosedIsDone, Object
<1> QED
  BY <1>2, <1>3, <1>4, <1>5, <1>6 DEF Run

LEMMA ReaderGoesOn ==
    ASSUME connection \in [Connection -> Object], NEW c \in Connection,
           Reader(c) \/ Read(c) \/ Forwarder(c)
    PROVE  /\ connection' \in [Connection -> Object]
           /\ \A d \in Connection : GoesOn(connection[d], connection'[d])
<1>1. connection[c] \in Object /\ MaxLines \in Nat
  BY SerialConnectionAssumption
<1>2. CASE Read(c)
  <2>1. ASSUME NEW n \in 1..MaxLines, connection' = [connection EXCEPT ![c].buffered = n]
        PROVE  /\ connection' \in [Connection -> Object]
               /\ \A d \in Connection : GoesOn(connection[d], connection'[d])
    BY <1>1, <2>1 DEF GoesOn, ClosedIsDone, Object
  <2>2. ASSUME connection' = [connection EXCEPT ![c] = [@ EXCEPT !.reader = "ended", !.done = TRUE]]
        PROVE  /\ connection' \in [Connection -> Object]
               /\ \A d \in Connection : GoesOn(connection[d], connection'[d])
    BY <1>1, <2>2 DEF GoesOn, ClosedIsDone, Object
  <2> QED
    BY <1>2, <2>1, <2>2 DEF Read
<1>3. CASE ScanLine(c)
  <2>1. connection[c].buffered - 1 \in 0..MaxLines
    BY <1>1, <1>3 DEF ScanLine, Object
  <2> QED
    BY <1>1, <1>3, <2>1 DEF ScanLine, GoesOn, ClosedIsDone, Object
<1>4. CASE ScanEnds(c)
  BY <1>1, <1>4 DEF ScanEnds, GoesOn, ClosedIsDone, Object
<1>5. CASE SendLine(c)
  BY <1>1, <1>5 DEF SendLine, GoesOn, ClosedIsDone, Object
<1>6. CASE SendPanics(c)
  BY <1>1, <1>6 DEF SendPanics, GoesOn, ClosedIsDone, Object
<1>7. CASE Forward(c)
  BY <1>1, <1>7 DEF Forward, GoesOn, ClosedIsDone, Object
<1>8. CASE ForwarderEnds(c)
  BY <1>1, <1>8 DEF ForwarderEnds, GoesOn, ClosedIsDone, Object
<1> QED
  BY <1>2, <1>3, <1>4, <1>5, <1>6, <1>7, <1>8 DEF Reader, Forwarder

LEMMA UnplugGoesOn ==
    ASSUME connection \in [Connection -> Object], NEW p \in Port, Unplug(p)
    PROVE  /\ connection' \in [Connection -> Object]
           /\ \A d \in Connection : GoesOn(connection[d], connection'[d])
<1>1. ASSUME NEW c \in Connection
      PROVE  /\ connection'[c] \in Object
             /\ GoesOn(connection[c], connection'[c])
  <2>1. connection[c] \in Object
    OBVIOUS
  <2>2. connection'[c] = [connection[c] EXCEPT !.broken = @ \/ c \in OpenOn({p})]
    BY DEF Unplug
  <2>3. (connection[c].broken \/ c \in OpenOn({p})) \in BOOLEAN
    OBVIOUS
  <2> QED
    BY <2>1, <2>2, <2>3 DEF GoesOn, ClosedIsDone, Object
<1> QED
  BY <1>1 DEF Unplug

\* Steps that leave the entries alone keep the invariant.
LEMMA GoingOnKeeps ==
    ASSUME CInv, UNCHANGED portState, connection' \in [Connection -> Object],
           \A d \in Connection : GoesOn(connection[d], connection'[d])
    PROVE  ConnectionsOK'
<1>1. ASSUME NEW p \in Port
      PROVE  Fits(portState'[p], p, connection')
  <2>1. portState[p] # NoEntry /\ portState[p].serialConnection # NoConnection
            => portState[p].serialConnection \in Connection
    BY DEF CInv, IInv, EntriesOK, Entry, PortState
  <2>2. Fits(portState[p], p, connection)
    BY DEF CInv, ConnectionsOK
  <2> QED
    BY <2>1, <2>2 DEF Fits, GoesOn
<1> QED
  BY <1>1 DEF ConnectionsOK

LEMMA RefreshedFits ==
    ASSUME CInv, NEW available, NEW p \in Port
    PROVE  Fits(Refreshed(available)[p], p, connection)
<1> DEFINE r == CleanUp(portState[p])
           s == DetectConnected(r)
<1>1. portState[p] \in Entry /\ Fits(portState[p], p, connection)
  BY DEF CInv, IInv, EntriesOK, ConnectionsOK
<1>2. r \in Entry /\ Fits(r, p, connection)
  BY <1>1, CleanUpKeeps, NoEntryIsNone DEF CleanUp, Fits, Entry, PortState
<1> HIDE DEF r
<1>3. s \in Entry /\ Fits(s, p, connection)
  BY <1>2, DetectConnectedKeeps, NoEntryIsNone
  DEF DetectConnected, StateOf, Fits, Entry, PortState
<1>4. Refreshed(available)[p] = IF p \in available THEN DetectNew(s) ELSE DropRemoved(s)
  BY DEF Refreshed, r
<1> HIDE DEF s
<1>5. Fits(DropRemoved(s), p, connection)
  BY <1>3, NoEntryIsNone DEF DropRemoved, Fits, Entry, PortState
<1>6. Fits(DetectNew(s), p, connection)
  <2> DEFINE t == IF s = NoEntry THEN NewPortState ELSE s
  <2>1. t \in PortState /\ Fits(t, p, connection)
    BY <1>3, NoEntryIsNone, NewPortStateIsOne DEF Fits, Entry, NewPortState
  <2>2. DetectNew(s) = IF t.IsPresent THEN t
                       ELSE [t EXCEPT !.IsPresent = TRUE, !.ShouldBeConnected = t.AutoConnect]
    BY DEF DetectNew
  <2> HIDE DEF t
  <2> QED
    BY <2>1, <2>2, NoEntryIsNone DEF Fits, PortState
<1> QED
  BY <1>4, <1>5, <1>6

LEMMA UpdateFits ==
    ASSUME CInv, NEW available \in SUBSET Port, NEW vanished \in SUBSET Port,
           UpdatePortState(available, vanished)
    PROVE  ConnectionsOK'
<1> DEFINE ps == Refreshed(available)
           connect == ToConnect(ps, available)
           disconnect == {ps[p].serialConnection : p \in ToDisconnect(ps, available)}
           free == Free(ps)
           new == CHOOSE f \in Injection(connect, free) : TRUE
           kept(c) == [connection[c] EXCEPT !.done = @ \/ c \in disconnect,
                                            !.broken = @ \/ c \in OpenOn(vanished)]
<1>1. /\ new \in [connect -> free]
      /\ \A p, q \in connect : new[p] = new[q] => p = q
  <2>1. new \in Injection(connect, free)
    BY DEF UpdatePortState
  <2> QED
    BY <2>1 DEF Injection, IsInjective
<1>2. free \subseteq Connection /\ connect \subseteq Port
  BY DEF Free, ToConnect
<1>3. /\ portState' = [p \in Port |->
              IF p \in connect
              THEN [ps[p] EXCEPT !.serialConnection = new[p], !.IsConnected = FALSE]
              ELSE ps[p]]
      /\ connection' = [c \in Connection |->
              IF \E p \in connect : new[p] = c
              THEN NewSerialConnection(OpenedFor(new, c))
              ELSE IF c \in free THEN Garbage
              ELSE kept(c)]
  BY DEF UpdatePortState
<1>4. /\ ps \in [Port -> Entry]
      /\ \A p \in available : ps[p] \in PortState
      /\ \A p \in Port : Fits(ps[p], p, connection)
  BY RefreshedKeeps, RefreshedFits DEF CInv, IInv
<1>5. \A p \in Port : ps[p] # NoEntry => ps[p].serialConnection \notin free
  BY DEF Free
<1>6. ASSUME NEW c \in Connection
      PROVE  /\ kept(c) \in Object
             /\ kept(c).portName = connection[c].portName
             /\ kept(c).state = connection[c].state
  <2>1. connection[c] \in Object
    BY DEF CInv, ConnectionsOK
  <2>2. /\ (connection[c].done \/ c \in disconnect) \in BOOLEAN
        /\ (connection[c].broken \/ c \in OpenOn(vanished)) \in BOOLEAN
    OBVIOUS
  <2> HIDE DEF disconnect
  <2> QED
    BY <2>1, <2>2 DEF Object
<1>7. connect \subseteq available
  BY DEF ToConnect
<1> HIDE DEF ps, connect, disconnect, free, new, kept
<1>8. ASSUME NEW c \in Connection
      PROVE  connection'[c] \in Object
  <2> DEFINE q == OpenedFor(new, c)
  <2>1. CASE \E p \in connect : new[p] = c
    <3>1. q \in connect
      BY <1>1, <2>1 DEF OpenedFor
    <3>2. connection'[c] = NewSerialConnection(q)
      BY <1>3, <2>1
    <3> HIDE DEF q
    <3> QED
      BY <1>2, <3>1, <3>2, NewIsObject
  <2>2. CASE ~\E p \in connect : new[p] = c
    BY <1>3, <1>6, <2>2, GarbageIsObject
  <2> QED
    BY <2>1, <2>2
<1>9. ASSUME NEW p \in Port
      PROVE  Fits(portState'[p], p, connection')
  <2>1. CASE p \in connect
    <3> DEFINE q == OpenedFor(new, new[p])
               e == [ps[p] EXCEPT !.serialConnection = new[p], !.IsConnected = FALSE]
    <3>1. q \in connect /\ new[q] = new[p]
      BY <1>1, <2>1 DEF OpenedFor
    <3>2. q = p
      BY <1>1, <2>1, <3>1
    <3>3. new[p] \in Connection
      BY <1>1, <1>2, <2>1
    <3>4. connection'[new[p]] = NewSerialConnection(q)
      BY <1>3, <2>1, <3>3
    <3>5. portState'[p] = e
      BY <1>3, <2>1
    <3>6. e.serialConnection = new[p] /\ ~e.IsConnected
      BY <1>4, <1>7, <2>1 DEF PortState
    <3> HIDE DEF q, e
    <3> QED
      BY <3>2, <3>4, <3>5, <3>6, NewIsObject DEF Fits
  <2>2. CASE p \notin connect
    <3>1. portState'[p] = ps[p]
      BY <1>3, <2>2
    <3>2. ASSUME ps[p] # NoEntry, ps[p].serialConnection # NoConnection
          PROVE  connection'[ps[p].serialConnection] = kept(ps[p].serialConnection)
      <4> DEFINE c == ps[p].serialConnection
      <4>1. c \in Connection
        BY <1>4, <3>2 DEF Entry, PortState
      <4>2. c \notin free
        BY <1>5, <3>2
      <4>3. ~\E q \in connect : new[q] = c
        BY <1>1, <4>2
      <4> HIDE DEF c
      <4>4. connection'[c] = kept(c)
        BY <1>3, <4>1, <4>2, <4>3
      <4> QED
        BY <4>4 DEF c
    <3>3. ps[p] # NoEntry /\ ps[p].serialConnection # NoConnection
              => ps[p].serialConnection \in Connection
      BY <1>4 DEF Entry, PortState
    <3> QED
      BY <1>4, <1>6, <3>1, <3>2, <3>3 DEF Fits
  <2> QED
    BY <2>1, <2>2
<1>10. connection' \in [Connection -> Object]
  BY <1>3, <1>8
<1> QED
  BY <1>9, <1>10 DEF ConnectionsOK

\* Setting and loading preferences leave the connections of the entries alone.
LEMMA PreferencesFit ==
    ASSUME CInv, NEW p \in Port, NEW a \in BOOLEAN, NEW b \in BOOLEAN,
           portState' = [portState EXCEPT ![p] =
               [GetPortState(portState, p) EXCEPT !.AutoConnect = a, !.ShouldBeConnected = b]],
           UNCHANGED connection
    PROVE  ConnectionsOK'
<1> DEFINE s == GetPortState(portState, p)
           e == [s EXCEPT !.AutoConnect = a, !.ShouldBeConnected = b]
<1>1. s \in PortState /\ Fits(s, p, connection)
  <2>1. portState[p] \in Entry /\ Fits(portState[p], p, connection)
    BY DEF CInv, IInv, EntriesOK, ConnectionsOK
  <2>2. Fits(NewPortState, p, connection)
    BY DEF Fits, NewPortState
  <2> QED
    BY <2>1, <2>2, NewPortStateIsOne DEF GetPortState, Entry
<1> HIDE DEF s
<1>2. Fits(e, p, connection)
  BY <1>1, NoEntryIsNone DEF Fits, PortState
<1> HIDE DEF e
<1>3. portState' = [portState EXCEPT ![p] = e] /\ portState \in [Port -> Entry]
  BY DEF e, s, CInv, IInv, EntriesOK
<1>4. \A q \in Port : Fits(portState'[q], q, connection')
  BY <1>2, <1>3 DEF CInv, ConnectionsOK
<1> QED
  BY <1>4 DEF CInv, ConnectionsOK

LEMMA InitFits == Init => CInv
<1> SUFFICES ASSUME Init PROVE CInv
  OBVIOUS
<1>1. IInv
  BY InitEstablishes
<1>2. OthersOK
  <2>1. MaxStops \in Nat
    BY PortManagerAssumption
  <2>2. stops \in 0..MaxStops
    BY <2>1 DEF Init
  <2>3. plugged \subseteq Port
    BY PortManagerAssumption DEF Init
  <2> QED
    BY <2>2, <2>3 DEF Init, OthersOK
<1>3. ConnectionsOK
  BY GarbageIsObject DEF Init, ConnectionsOK, Fits
<1> QED
  BY <1>1, <1>2, <1>3 DEF CInv

LEMMA UpdateKeepsC ==
    ASSUME CInv, UpdateNormally \/ UpdateAfterListError
    PROVE  OthersOK' /\ ConnectionsOK'
<1>1. PICK available \in SUBSET Port, vanished \in SUBSET Port :
            UpdatePortState(available, vanished)
  BY DEF UpdateNormally, UpdateAfterListError, CInv, OthersOK
<1>2. ConnectionsOK'
  BY <1>1, UpdateFits
<1>3. OthersOK'
  BY <1>1 DEF UpdatePortState, CInv, OthersOK
<1> QED
  BY <1>2, <1>3

LEMMA CNextKeeps == CInv /\ [Next]_vars => CInv'
<1> SUFFICES ASSUME CInv, [Next]_vars
             PROVE  CInv'
  OBVIOUS
<1>1. IInv'
  BY NextKeeps DEF CInv
<1>2. OthersOK' /\ ConnectionsOK'
  <2>1. ASSUME NEW p \in Port, NEW pref \in Preferences, SetPortPreference(p, pref)
        PROVE  OthersOK' /\ ConnectionsOK'
    <3>1. pref[1] \in BOOLEAN /\ pref[2] \in BOOLEAN
      BY PortManagerAssumption
    <3>2. ConnectionsOK'
      BY <2>1, <3>1, PreferencesFit DEF SetPortPreference, connectionVars
    <3> QED
      BY <2>1, <3>2 DEF SetPortPreference, connectionVars, CInv, OthersOK
  <2>2. CASE LoadConfiguration
    BY <2>2 DEF LoadConfiguration, connectionVars, CInv, OthersOK, ConnectionsOK, IInv, FileOK
  <2>3. ASSUME NEW p \in Port, EnterInitialPref(p)
        PROVE  OthersOK' /\ ConnectionsOK'
    <3>1. ConnectionsOK'
      BY <2>3, PreferencesFit DEF EnterInitialPref, connectionVars
    <3> QED
      BY <2>3, <3>1 DEF EnterInitialPref, connectionVars, CInv, OthersOK
  <2>4. CASE UpdateNormally \/ UpdateAfterListError
    BY <2>4, UpdateKeepsC
  <2>5. ASSUME NEW c \in Connection, UNCHANGED managerVars,
               Run(c) \/ Reader(c) \/ Read(c) \/ Forwarder(c)
        PROVE  OthersOK' /\ ConnectionsOK'
    <3>1. ConnectionsOK'
      BY <2>5, RunGoesOn, ReaderGoesOn, GoingOnKeeps DEF managerVars, CInv, ConnectionsOK
    <3>2. plugged' = plugged /\ panicked' \in BOOLEAN
      BY <2>5 DEF Run, Reader, Read, Forwarder, OpenPort, OpenFails, ClosePort,
                  SetStateClosed, CloseInputCommands, ScanLine, ScanEnds, SendLine,
                  SendPanics, Forward, ForwarderEnds, CInv, OthersOK
    <3> QED
      BY <2>5, <3>1, <3>2 DEF managerVars, CInv, OthersOK
  <2>6. ASSUME NEW p \in Port, UNCHANGED managerVars, Plug(p)
        PROVE  OthersOK' /\ ConnectionsOK'
    BY <2>6 DEF Plug, managerVars, CInv, OthersOK, ConnectionsOK
  <2>7. ASSUME NEW p \in Port, UNCHANGED managerVars, Unplug(p)
        PROVE  OthersOK' /\ ConnectionsOK'
    <3>1. ConnectionsOK'
      BY <2>7, UnplugGoesOn, GoingOnKeeps DEF managerVars, CInv, ConnectionsOK
    <3> QED
      BY <2>7, <3>1 DEF Unplug, managerVars, CInv, OthersOK
  <2>8. CASE StopAndStart
    <3>1. ConnectionsOK'
      BY <2>8, GarbageIsObject DEF StopAndStart, Fits, ConnectionsOK
    <3>2. stops' \in 0..MaxStops
      BY <2>8, PortManagerAssumption DEF StopAndStart, CInv, OthersOK
    <3> QED
      BY <2>8, <3>1, <3>2 DEF StopAndStart, CInv, OthersOK
  <2>9. CASE UNCHANGED vars
    BY <2>9 DEF vars, connectionVars, managerVars, CInv, OthersOK, ConnectionsOK
  <2> QED
    BY <2>1, <2>2, <2>3, <2>4, <2>5, <2>6, <2>7, <2>8, <2>9, PortManagerAssumption
    DEF Next, Running, Load
<1> QED
  BY <1>1, <1>2 DEF CInv

LEMMA ConnectionsInvariance == Spec => []CInv
BY InitFits, CNextKeeps, PTL DEF Spec

\* For every port, an entry's connection is one to that port, which no other entry
\* has, and has been opened if the entry is taken to be connected.
THEOREM ConnectionOfPortAlways == Spec => []ConnectionOfPort
<1>1. CInv => ConnectionOfPort
  BY DEF CInv, ConnectionsOK, Fits, ConnectionOfPort
<1> QED
  BY <1>1, ConnectionsInvariance, PTL

\* Every variable of the PortManager and every field of a connection keeps its type.
THEOREM PortManagerTypeCorrect == Spec => []TypeOK
<1>1. CInv => TypeOK
  BY DEF CInv, IInv, EntriesOK, FileOK, OthersOK, ConnectionsOK, Entry, TypeOK
<1> QED
  BY <1>1, ConnectionsInvariance, PTL

-----------------------------------------------------------------------------
(***************************************************************************)
(* The connections on their own (ConnectionSpec).  InputCommands is closed *)
(* only when the connection is done, and no reader takes a step once one   *)
(* has panicked.                                                           *)
(***************************************************************************)
LInv ==
    /\ connection \in [Connection -> Object]
    /\ \A c \in Connection : ClosedIsDone(connection[c])
    /\ OnlyClosePanics

LEMMA CloseGoesOn ==
    ASSUME connection \in [Connection -> Object], NEW c \in Connection, Close(c)
    PROVE  /\ connection' \in [Connection -> Object]
           /\ \A d \in Connection : GoesOn(connection[d], connection'[d])
<1>1. connection[c] \in Object
  OBVIOUS
<1> QED
  BY <1>1 DEF Close, GoesOn, ClosedIsDone, Object

LEMMA ConnectionStepKeeps ==
    ASSUME LInv, [ConnectionNext]_connectionVars
    PROVE  LInv'
<1>1. ASSUME NEW c \in Connection, ~panicked,
             Run(c) \/ Reader(c) \/ Read(c) \/ Forwarder(c) \/ Close(c)
      PROVE  LInv'
  <2>1. /\ connection' \in [Connection -> Object]
        /\ \A d \in Connection : GoesOn(connection[d], connection'[d])
    BY <1>1, RunGoesOn, ReaderGoesOn, CloseGoesOn DEF LInv
  <2>2. \A d \in Connection : ClosedIsDone(connection'[d])
    BY <2>1 DEF LInv, GoesOn
  <2>3. panicked' => SendPanics(c)
    BY <1>1 DEF Run, Reader, Read, Forwarder, Close, OpenPort, OpenFails, ClosePort,
                SetStateClosed, CloseInputCommands, ScanLine, ScanEnds, SendLine,
                Forward, ForwarderEnds
  <2>4. SendPanics(c) => connection'[c].done /\ connection'[c].reader = "sending"
    BY DEF SendPanics, LInv, ClosedIsDone
  <2> QED
    BY <2>1, <2>2, <2>3, <2>4 DEF LInv, OnlyClosePanics
<1>2. ASSUME NEW p \in Port, Unplug(p)
      PROVE  LInv'
  <2>1. /\ connection' \in [Connection -> Object]
        /\ \A d \in Connection : GoesOn(connection[d], connection'[d])
    BY <1>2, UnplugGoesOn DEF LInv
  <2>2. ASSUME NEW c \in Connection
        PROVE  /\ connection'[c].done = connection[c].done
               /\ connection'[c].reader = connection[c].reader
    <3>1. connection[c] \in Object
      BY DEF LInv
    <3>2. connection'[c] = [connection[c] EXCEPT !.broken = @ \/ c \in OpenOn({p})]
      BY <1>2 DEF Unplug
    <3> QED
      BY <3>1, <3>2 DEF Object
  <2>3. OnlyClosePanics'
    BY <1>2, <2>2 DEF Unplug, LInv, OnlyClosePanics
  <2> QED
    BY <2>1, <2>3 DEF LInv, GoesOn
<1>3. ASSUME NEW p \in Port, Plug(p)
      PROVE  LInv'
  BY <1>3 DEF Plug, LInv, OnlyClosePanics
<1>4. CASE UNCHANGED connectionVars
  BY <1>4 DEF connectionVars, LInv, OnlyClosePanics
<1> QED
  BY <1>1, <1>2, <1>3, <1>4 DEF ConnectionNext

\* The hub panics only when a connection was closed while its reader had a line to
\* send, for any number of connections, however often they are closed and unplugged.
THEOREM OnlyClosePanicsAlways == ConnectionSpec => []OnlyClosePanics
<1>1. ConnectionInit => LInv
  <2> SUFFICES ASSUME ConnectionInit
               PROVE  LInv
    OBVIOUS
  <2>1. PICK port \in [Connection -> Port] :
          connection = [c \in Connection |-> NewSerialConnection(port[c])]
    BY DEF ConnectionInit
  <2>2. \A c \in Connection : NewSerialConnection(port[c]) \in Object
    BY NewIsObject
  <2>3. \A c \in Connection : ClosedIsDone(NewSerialConnection(port[c]))
    BY DEF ClosedIsDone, NewSerialConnection
  <2> QED
    BY <2>1, <2>2, <2>3 DEF LInv, ConnectionInit, OnlyClosePanics
<1>2. LInv => OnlyClosePanics
  BY DEF LInv
<1> QED
  BY <1>1, <1>2, ConnectionStepKeeps, PTL DEF ConnectionSpec
=============================================================================
