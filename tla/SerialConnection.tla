-------------------------- MODULE SerialConnection --------------------------
(***************************************************************************)
(* serialconnection.SerialConnection: one connection to a COM port.  Three *)
(* goroutines work on it: run opens the port, waits until the connection   *)
(* is to be closed and closes it; the reader scans lines and sends them to *)
(* InputCommands; the forwarder (started by the PortManager) receives them *)
(* there and hands them to the transmit loop of the hub.                   *)
(*                                                                         *)
(* The objects are the elements of Connection; one that nobody refers to   *)
(* any more may stand for a new object.  The data of a line is left out.   *)
(***************************************************************************)
EXTENDS Integers, FiniteSets

CONSTANTS
    Port,           \* names of COM ports
    Connection,     \* SerialConnection objects
    MaxLines,       \* bound: lines the scanner gets out of one read
    Occupied,       \* the ports that another program has open all the time
    OpenMayFail     \* another program may have a port open at times

ASSUME SerialConnectionAssumption ==
    /\ IsFiniteSet(Port) /\ Port # {}
    /\ IsFiniteSet(Connection)
    /\ MaxLines \in Nat
    /\ Occupied \subseteq Port
    /\ OpenMayFail \in BOOLEAN

VARIABLES
    connection,     \* [Connection -> Object]
    plugged,        \* the ports whose device is plugged in
    panicked        \* a panic has ended the hub

connectionVars == <<connection, plugged, panicked>>

Object == [portName    : Port,
           state       : {"Connecting", "Open", "Closed"},
           done        : BOOLEAN,              \* the channel done is closed
           inputClosed : BOOLEAN,              \* the channel InputCommands is closed
           broken      : BOOLEAN,              \* the device was unplugged while open
           run         : {"opening", "waiting", "portClosed", "stateClosed", "ended"},
           reader      : {"none", "scanning", "sending", "ended"},
           buffered    : 0..MaxLines,          \* lines read and not yet scanned
           forwarder   : {"receiving", "forwarding", "ended"}]

NewSerialConnection(p) ==
    [portName |-> p, state |-> "Connecting", done |-> FALSE, inputClosed |-> FALSE,
     broken |-> FALSE, run |-> "opening", reader |-> "none", buffered |-> 0, forwarder |-> "receiving"]

\* An object that stands for none: no goroutine of it can take another step.
Garbage == [NewSerialConnection(CHOOSE p \in Port : TRUE) EXCEPT !.state = "Closed", !.run = "ended"]

PortIsOpen(c) == connection[c].run = "waiting"
OthersOpen(c) == {d \in Connection \ {c} : /\ PortIsOpen(d)
                                           /\ connection[d].portName = connection[c].portName}

OpenOn(ports) == {c \in Connection : PortIsOpen(c) /\ connection[c].portName \in ports}

ConnectionInit ==
    /\ \E port \in [Connection -> Port] :
            connection = [c \in Connection |-> NewSerialConnection(port[c])]
    /\ plugged \in SUBSET Port
    /\ panicked = FALSE

-----------------------------------------------------------------------------
(***************************************************************************)
(* The goroutine run.                                                      *)
(***************************************************************************)
OpenPort(c) ==
    /\ connection[c].run = "opening"
    /\ connection[c].portName \in plugged \ Occupied
    /\ \A d \in OthersOpen(c) : connection[d].broken
    /\ connection' = [connection EXCEPT ![c] =
            [@ EXCEPT !.state = "Open", !.run = "waiting", !.reader = "scanning"]]
    /\ UNCHANGED <<plugged, panicked>>

\* The goroutine returns; InputCommands is not closed.
OpenFails(c) ==
    /\ connection[c].run = "opening"
    /\ OpenMayFail \/ connection[c].portName \notin plugged \ Occupied \/ OthersOpen(c) # {}
    /\ connection' = [connection EXCEPT ![c] = [@ EXCEPT !.state = "Closed", !.run = "ended"]]
    /\ UNCHANGED <<plugged, panicked>>

\* Faulty variant: the port is only closed once the reader has ended.
ClosePortAfterReader(c) ==
    /\ connection[c].run = "waiting" /\ connection[c].done
    /\ connection[c].reader = "ended"
    /\ connection' = [connection EXCEPT ![c].run = "portClosed"]
    /\ UNCHANGED <<plugged, panicked>>

\* Faulty variant: the port is also closed when its device is gone.
ClosePortIfBroken(c) ==
    /\ connection[c].run = "waiting" /\ (connection[c].done \/ connection[c].broken)
    /\ connection' = [connection EXCEPT ![c].run = "portClosed"]
    /\ UNCHANGED <<plugged, panicked>>

ClosePort(c) ==
    /\ connection[c].run = "waiting" /\ connection[c].done
    /\ connection' = [connection EXCEPT ![c].run = "portClosed"]
    /\ UNCHANGED <<plugged, panicked>>

SetStateClosed(c) ==
    /\ connection[c].run = "portClosed"
    /\ connection' = [connection EXCEPT ![c] = [@ EXCEPT !.state = "Closed", !.run = "stateClosed"]]
    /\ UNCHANGED <<plugged, panicked>>

CloseInputCommands(c) ==
    /\ connection[c].run = "stateClosed"
    /\ connection' = [connection EXCEPT ![c] = [@ EXCEPT !.inputClosed = TRUE, !.run = "ended"]]
    /\ UNCHANGED <<plugged, panicked>>

-----------------------------------------------------------------------------
(***************************************************************************)
(* The reader.  What a read returns may hold several lines; they are       *)
(* scanned whether or not the port has been closed meanwhile.  A line that *)
(* is too long for the Scanner makes Scan return false, and Close.         *)
(***************************************************************************)
Read(c) ==
    /\ connection[c].reader = "scanning" /\ connection[c].buffered = 0
    /\ PortIsOpen(c) /\ ~connection[c].broken
    /\ \/ \E n \in 1..MaxLines : connection' = [connection EXCEPT ![c].buffered = n]
       \/ /\ MaxLines > 0
          /\ connection' = [connection EXCEPT ![c] = [@ EXCEPT !.reader = "ended", !.done = TRUE]]
    /\ UNCHANGED <<plugged, panicked>>

\* Faulty variant: a line is taken from an empty buffer.
ScanLineAlways(c) ==
    /\ connection[c].reader = "scanning"
    /\ connection' = [connection EXCEPT ![c] =
            [@ EXCEPT !.reader = "sending", !.buffered = connection[c].buffered - 1]]
    /\ UNCHANGED <<plugged, panicked>>

ScanLine(c) ==
    /\ connection[c].reader = "scanning" /\ connection[c].buffered > 0
    /\ connection' = [connection EXCEPT ![c] =
            [@ EXCEPT !.reader = "sending", !.buffered = connection[c].buffered - 1]]
    /\ UNCHANGED <<plugged, panicked>>

\* The port is closed or its device is gone: Scan returns false, and Close.
ScanEnds(c) ==
    /\ connection[c].reader = "scanning" /\ connection[c].buffered = 0
    /\ ~PortIsOpen(c) \/ connection[c].broken
    /\ connection' = [connection EXCEPT ![c] = [@ EXCEPT !.reader = "ended", !.done = TRUE]]
    /\ UNCHANGED <<plugged, panicked>>

\* The channel is not buffered: the forwarder receives as the reader sends.
SendLine(c) ==
    /\ connection[c].reader = "sending" /\ ~connection[c].inputClosed
    /\ connection[c].forwarder = "receiving"
    /\ connection' = [connection EXCEPT ![c] =
            [@ EXCEPT !.reader = "scanning", !.forwarder = "forwarding"]]
    /\ UNCHANGED <<plugged, panicked>>

\* Sending on a closed channel, or waiting to while it is closed, is a panic.
SendPanics(c) ==
    /\ connection[c].reader = "sending" /\ connection[c].inputClosed
    /\ panicked' = TRUE
    /\ UNCHANGED <<connection, plugged>>

-----------------------------------------------------------------------------
(***************************************************************************)
(* The forwarder.                                                          *)
(***************************************************************************)
Forward(c) ==
    /\ connection[c].forwarder = "forwarding"
    /\ connection' = [connection EXCEPT ![c].forwarder = "receiving"]
    /\ UNCHANGED <<plugged, panicked>>

ForwarderEnds(c) ==
    /\ connection[c].forwarder = "receiving" /\ connection[c].inputClosed
    /\ connection' = [connection EXCEPT ![c].forwarder = "ended"]
    /\ UNCHANGED <<plugged, panicked>>

Run(c) == OpenPort(c) \/ OpenFails(c) \/ ClosePort(c) \/ SetStateClosed(c) \/ CloseInputCommands(c)
Reader(c) == ScanLine(c) \/ ScanEnds(c) \/ SendLine(c) \/ SendPanics(c)
Forwarder(c) == Forward(c) \/ ForwarderEnds(c)

-----------------------------------------------------------------------------
\* Devices come and go; unplugging one breaks the connections that have its port
\* open for good.
Plug(p) ==
    /\ p \notin plugged
    /\ plugged' = plugged \cup {p}
    /\ UNCHANGED <<connection, panicked>>

Unplug(p) ==
    /\ p \in plugged
    /\ plugged' = plugged \ {p}
    /\ connection' = [c \in Connection |->
            [connection[c] EXCEPT !.broken = @ \/ c \in OpenOn({p})]]
    /\ UNCHANGED panicked

\* Close, called from outside (the reader calls it when Scan returns false).
Close(c) ==
    /\ connection' = [connection EXCEPT ![c].done = TRUE]
    /\ UNCHANGED <<plugged, panicked>>

(***************************************************************************)
(* The connections on their own, closed at any time.  Goroutines that can  *)
(* go on do, until a panic ends the hub.                                   *)
(***************************************************************************)
ConnectionNext ==
    \/ \E c \in Connection :
          ~panicked /\ (Run(c) \/ Reader(c) \/ Read(c) \/ Forwarder(c) \/ Close(c))
    \/ \E p \in Port : Plug(p) \/ Unplug(p)

ConnectionSpec ==
    /\ ConnectionInit
    /\ [][ConnectionNext]_connectionVars
    /\ \A c \in Connection :
          /\ WF_connectionVars(~panicked /\ Run(c))
          /\ WF_connectionVars(~panicked /\ Reader(c))
          /\ WF_connectionVars(~panicked /\ Forwarder(c))

-----------------------------------------------------------------------------
\* The goroutine run and the reader have come to their ends.
HasEnded(c) == connection[c].run = "ended" /\ connection[c].reader \in {"none", "ended"}

(***************************************************************************)
(* Close gets all three goroutines of a connection to their ends: the      *)
(* port is closed, which ends the reader, and InputCommands, which ends    *)
(* the forwarder; only a connection whose port could not be opened keeps   *)
(* its forwarder.                                                          *)
(***************************************************************************)
ClosingEnds ==
    \A c \in Connection :
        connection[c].done /\ connection[c].state # "Connecting"
            ~> \/ panicked
               \/ HasEnded(c) /\ (connection[c].inputClosed => connection[c].forwarder = "ended")

(***************************************************************************)
(* A connection that ends by itself, because its device is gone, never     *)
(* panics: when the hub does, some connection was closed from outside      *)
(* while its reader had a line to send.  (That this can happen is a bug.)  *)
(***************************************************************************)
OnlyClosePanics ==
    panicked => \E c \in Connection : connection[c].done /\ connection[c].reader = "sending"
=============================================================================
