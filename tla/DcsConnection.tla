---------------------------- MODULE DcsConnection ----------------------------
(***************************************************************************)
(* dcsconnection.DcsConnection: the connection to the export script of DCS *)
(* on port 7778, and TrySend, which others send their commands by.  The    *)
(* data that comes in is left out, and so is Close, which nobody calls.    *)
(***************************************************************************)
EXTENDS StatusApi

CONSTANT Sender      \* goroutines that call TrySend, one at a time each

VARIABLES
    dcs,         \* DCS runs, and its script accepts a connection
    run,         \* where Run is
    conn,        \* "none", "open" or "ended" (by DCS)
    state,       \* "Connecting" or "Connected"
    mutex,       \* who holds it: Run for longer than a step, or Nobody
    sender       \* where TrySend is

connVars == <<run, conn, state, mutex, sender>>

ConnInit ==
    /\ dcs = FALSE
    /\ run = "dial"
    /\ conn = "none"
    /\ state = "Connecting"
    /\ mutex = Nobody
    /\ sender = [t \in Sender |-> "none"]

-----------------------------------------------------------------------------
(***************************************************************************)
(* Run.  It dials once a second.                                           *)
(***************************************************************************)
\* Faulty variant: the mutex is not kept until the status has been told.
DialUnlocked ==
    /\ run = "dial" /\ dcs /\ mutex = Nobody
    /\ conn' = "open"
    /\ state' = "Connected"
    /\ run' = "status connected"
    /\ UNCHANGED <<statusVars, dcs, mutex, sender>>

Dial ==
    /\ run = "dial" /\ dcs /\ mutex = Nobody
    /\ mutex' = "Run"
    /\ conn' = "open"
    /\ state' = "Connected"
    /\ run' = "status connected"
    /\ UNCHANGED <<statusVars, dcs, sender>>

\* The connection may have ended since it was made.
TellConnected ==
    /\ run = "status connected"
    /\ BeginMutation("Run", "dcs", TRUE)
    /\ run' = "connected"
    /\ UNCHANGED <<dcs, conn, state, mutex, sender>>

StartReading ==
    /\ run = "connected" /\ statusLock = "Run"
    /\ EndMutation
    /\ mutex' = Nobody
    /\ run' = "read"
    /\ UNCHANGED <<dcs, conn, state, sender>>

\* io.Copy has returned.
ReadEnds ==
    /\ run = "read" /\ conn = "ended" /\ mutex = Nobody
    /\ mutex' = "Run"
    /\ state' = "Connecting"
    /\ run' = "status connecting"
    /\ UNCHANGED <<statusVars, dcs, conn, sender>>

TellConnecting ==
    /\ run = "status connecting"
    /\ BeginMutation("Run", "dcs", FALSE)
    /\ run' = "connecting"
    /\ UNCHANGED <<dcs, conn, state, mutex, sender>>

\* Faulty variant: the mutex is not released.
CloseConnLocked ==
    /\ run = "connecting" /\ statusLock = "Run"
    /\ EndMutation
    /\ conn' = "none"
    /\ run' = "dial"
    /\ UNCHANGED <<dcs, state, mutex, sender>>

CloseConn ==
    /\ run = "connecting" /\ statusLock = "Run"
    /\ EndMutation
    /\ conn' = "none"
    /\ mutex' = Nobody
    /\ run' = "dial"
    /\ UNCHANGED <<dcs, state, sender>>

Run == Dial \/ TellConnected \/ StartReading \/ ReadEnds \/ TellConnecting \/ CloseConn

-----------------------------------------------------------------------------
\* TrySend reads the connection under the mutex and writes to it without, which
\* has no effect here; if it has been closed by then, the message is lost.
BeginTrySend(t) ==
    /\ sender[t] = "none"
    /\ sender' = [sender EXCEPT ![t] = "lock"]
    /\ UNCHANGED <<statusVars, dcs, run, conn, state, mutex>>

TrySend(t) ==
    /\ sender[t] = "lock" /\ mutex = Nobody
    /\ sender' = [sender EXCEPT ![t] = "none"]
    /\ UNCHANGED <<statusVars, dcs, run, conn, state, mutex>>
=============================================================================
