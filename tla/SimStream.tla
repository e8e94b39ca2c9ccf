------------------------------ MODULE SimStream ------------------------------
(***************************************************************************)
(* Export data on its way from DCS: World to the sim data buffer of the    *)
(* hub: LuaExporter, the TCP connection on port 7778 and ExportDataParser. *)
(*                                                                         *)
(* tcp holds the bytes DCS has sent that the hub has not processed yet;    *)
(* the hub's read loop (dcsConnection.Run, the transmit loop) is the       *)
(* action Receive, one byte at a time.  Left out: that ChanWriter hands    *)
(* the transmit loop the very slice that io.Copy then reads the next bytes *)
(* into; here every byte is processed as it was sent.                      *)
(***************************************************************************)
EXTENDS LuaExporter, ExportDataParser

CONSTANTS
    MaxFaults,       \* bound: times DCS or the hub is started anew, and
                     \* sends that only get part of the data out
    MaxSkips         \* bound: frames the rate limit skips

ASSUME SimStreamAssumption ==
    /\ MaxFaults \in Nat
    /\ MaxSkips \in Nat

VARIABLES
    connected,  \* the hub has a TCP connection to the script
    tcp,        \* bytes the script has sent and the hub has not processed
    faults      \* restarts and timed out sends so far

streamVars == <<exporterVars, parserVars, connected, tcp, faults>>

StreamInit ==
    /\ ExporterInit
    /\ ParserInit
    /\ connected = FALSE
    /\ tcp = <<>>
    /\ faults = 0

-----------------------------------------------------------------------------
(***************************************************************************)
(* LuaExportAfterNextFrame: step, then flush.  The exporter never reads    *)
(* the connection, so letting it run only when the hub has caught up hides *)
(* no behaviour of the parser; it bounds the bytes in tcp.                 *)
(***************************************************************************)
CaughtUp == tcp = <<>> /\ FrameData = <<>>

\* flush when no send fails: everything queued goes out, to nobody when there
\* is no connection.
FlushSucceeds(queued) ==
    /\ msg_buf' = <<>>
    /\ tcp' = IF connected THEN queued ELSE <<>>
    /\ UNCHANGED faults

(***************************************************************************)
(* flush when the connection takes only part of the data before the send   *)
(* times out (the socket's timeout is 0): socket.try raises an error out   *)
(* of flush, msg_buf is not cleared and goes out again from its beginning. *)
(***************************************************************************)
FlushTimesOut(queued) ==
    /\ connected
    /\ faults < MaxFaults
    /\ \E n \in 0..Len(queued) - 1 : tcp' = SubSeq(queued, 1, n)
    /\ msg_buf' = queued
    /\ faults' = faults + 1

Flush(queued) == FlushSucceeds(queued) \/ FlushTimesOut(queued)

AfterNextFrame(acft) ==
    /\ CaughtUp
    /\ \/ \E hooks \in HookResults(acft) :
            /\ ExportFrame(acft, hooks)
            /\ Flush(msg_buf \o Frame(acft, hooks))
       \/ NotDue(acft) /\ Flush(msg_buf)
       \/ (updateSkipCounter - InitialSkips) % Base < MaxSkips /\ SkipFrame(acft) /\ Flush(msg_buf)
    /\ UNCHANGED <<parserVars, connected>>

\* dcsConnection.Run dials, and the script accepts before its next frame.
Connect ==
    /\ ~connected
    /\ tcp = <<>>
    /\ connected' = TRUE
    /\ UNCHANGED <<exporterVars, parserVars, tcp, faults>>

\* The transmit loop processes the next byte.
Receive ==
    /\ tcp # <<>>
    /\ ProcessByte(Head(tcp))
    /\ tcp' = Tail(tcp)
    /\ UNCHANGED <<exporterVars, connected, faults>>

\* The encoder loop receives the frame.
Deliver ==
    /\ ReceiveFrame
    /\ UNCHANGED <<exporterVars, connected, tcp, faults>>

\* A mission ends, or DCS dies, and another begins with a new Lua state.  Some
\* or all of what had been sent still arrives.
RestartDcs ==
    /\ faults < MaxFaults
    /\ faults' = faults + 1
    /\ value' = [a \in Addresses |-> Unset]
    /\ dirty' = {}
    /\ autosyncPosition' = [m \in DOMAIN MapAddresses |-> Min(MapAddresses[m])]
    /\ lastAcftName' = ""
    /\ updateCounter' = 0
    /\ updateSkipCounter' = InitialSkips
    /\ msg_buf' = <<>>
    /\ connected' = FALSE
    /\ \E n \in 0..Len(tcp) : tcp' = SubSeq(tcp, 1, n)
    /\ UNCHANGED parserVars

\* The hub is closed and started again while DCS goes on.
RestartHub ==
    /\ faults < MaxFaults
    /\ faults' = faults + 1
    /\ state' = "WaitForSync"
    /\ protocolSyncByteCount' = 0
    /\ protocolAddressBuffer' = 0
    /\ protocolCountBuffer' = 0
    /\ protocolDataBuffer' = 0
    /\ dataBuffer' = Empty
    /\ FrameData' = <<>>
    /\ connected' = FALSE
    /\ tcp' = <<>>
    /\ UNCHANGED exporterVars

StreamNext ==
    \/ \E acft \in Aircraft : AfterNextFrame(acft)
    \/ Connect
    \/ Receive
    \/ Deliver
    \/ RestartDcs
    \/ RestartHub

StreamSpec == StreamInit /\ [][StreamNext]_streamVars

(***************************************************************************)
(* DCS goes on calling the script and the rate limit lets a frame through  *)
(* once model time has passed: weak fairness of exporting a frame, written *)
(* out because ExportFrame is enabled exactly when CaughtUp holds.  The    *)
(* hub goes on dialling, reading and receiving frames.                     *)
(***************************************************************************)
FrameExported ==
    /\ updateCounter' # updateCounter
    /\ UNCHANGED updateSkipCounter

StreamFairness ==
    /\ []<>~CaughtUp \/ []<><<FrameExported>>_streamVars
    /\ WF_streamVars(Connect)
    /\ WF_streamVars(Receive)
    /\ WF_streamVars(Deliver)

StreamFairSpec == StreamSpec /\ StreamFairness

-----------------------------------------------------------------------------
\* The frame was built from the values the exporter has now: its update
\* counter is the one of the last frame exported.
IsLatest(frame) == Lo(GetValueAtAddress(frame, EndOfUpdate)) = updateCounter

\* The words DCS is exporting.
Exported == {a \in StartAddresses \cup Active(lastAcftName) : value[a] # Unset}

\* Every word the frame has a value for has the exporter's value.
Agrees(frame) ==
    \A i \in DOMAIN frame :
        frame[i].Address \in Exported => frame[i].Data = value[frame[i].Address]

(***************************************************************************)
(* What MetadataEnd.lua promises to a client: when the write to 0xFFFE of  *)
(* an update arrives, every word received so far has the value it had when *)
(* the update was made, whenever the client connected and however often it *)
(* was started anew.  A frame that is cut, by a restart of DCS or a send   *)
(* that times out, ends the promise until autosync has come round.         *)
(***************************************************************************)
FrameConsistent == \A i \in DOMAIN FrameData : IsLatest(FrameData[i]) => Agrees(FrameData[i])

(***************************************************************************)
(* Autosync repairs whatever a restart of either side or a connection made *)
(* in between has left wrong in the hub: from some time on the frame the   *)
(* encoder loop works with is right, and has every exported word.          *)
(***************************************************************************)
Knows(frame) == \A a \in Exported : \E i \in DOMAIN frame : frame[i].Address = a

Repaired == <>[](FrameData # <<>> => Agrees(FrameData[1]) /\ Knows(FrameData[1]))

\* The write to 0xFFFE is the signal that an update is complete: the hub goes on
\* seeing it.
FramesKeepComing == []<>(FrameData # <<>>)
=============================================================================
