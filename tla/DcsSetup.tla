------------------------------ MODULE DcsSetup ------------------------------
(***************************************************************************)
(* dcssetup: requests of the user interface that add the setup line of     *)
(* DCS-BIOS to the user's Export.lua or remove it (SetupExportLua), and    *)
(* install or remove a hook file.  Each runs in a goroutine of its own and *)
(* there is no lock: the file is read, truncated and written in steps that *)
(* another request can come between.                                       *)
(*                                                                         *)
(* A file is a sequence of lines of a few kinds, all of one length.  The   *)
(* file system is external: a step may fail, and the hub may stop between  *)
(* two of them.                                                            *)
(***************************************************************************)
EXTENDS Naturals, FiniteSets, SequencesExt

CONSTANTS
    Request,     \* bound: requests at a time
    UserLine,    \* lines of the user's own
    MaxLines     \* bound: lines of a file the user leaves

ASSUME DcsSetupAssumption ==
    /\ MaxLines \in Nat
    /\ UserLine \cap {"setup", "marked", "old", "long"} = {}

\* "setup" is the setup line, "marked" another line that ends in its comment
\* (of a hub in another place, or disabled by the user), "old" calls the script
\* of earlier versions, and "long" has more bytes than a Scanner takes.
Line == UserLine \cup {"setup", "marked", "old", "long"}

Files == UNION {[1..n -> Line] : n \in 0..MaxLines}

VARIABLES
    exportLua,   \* the file, <<>> if there is none
    hook,        \* the hook file: "none", "installed" or "other"
    step,        \* [Request -> where it is]
    install,     \* [Request -> BOOLEAN], shouldBeInstalled
    new,         \* [Request -> the contents it is to write]
    alone,       \* [Request -> BOOLEAN], no other has been at work with it
    userLines,   \* what the user has put into Export.lua
    lost,        \* something has happened that may have lost lines of it
    asked,       \* "installed", "removed" or "unknown": what the setup line must be
    hookAsked    \* and the hook

vars == <<exportLua, hook, step, install, new, alone, userLines, lost, asked, hookAsked>>

-----------------------------------------------------------------------------
\* What a Scanner returns: it stops at a line that is too long, and nobody asks
\* for its error.
Scanned(file) ==
    LET long == {i \in DOMAIN file : file[i] = "long"}
    IN  IF long = {} THEN file ELSE SubSeq(file, 1, Min(long) - 1)

\* The loop over the lines: what has been kept of the first n of them.
KeptUpTo(file, lines) ==
    LET kept[n \in 0..Len(file)] ==
            IF n = 0 THEN <<>>
            ELSE IF file[n] \in lines THEN Append(kept[n - 1], file[n])
            ELSE kept[n - 1]
    IN  kept

Keep(file, lines) == KeptUpTo(file, lines)[Len(file)]

\* Faulty variant: lines that are not exactly the setup line are kept.
GetModifiedExportLuaExactly(file, shouldBeInstalled, pathKnown) ==
    IF ~pathKnown THEN <<>>
    ELSE Keep(Scanned(file), Line \ {"setup", "old"})
            \o (IF shouldBeInstalled THEN <<"setup">> ELSE <<>>)

\* There is no setup line, and nil is returned, if os.Executable fails.
GetModifiedExportLua(file, shouldBeInstalled, pathKnown) ==
    IF ~pathKnown THEN <<>>
    ELSE Keep(Scanned(file), Line \ {"setup", "marked", "old"})
            \o (IF shouldBeInstalled THEN <<"setup">> ELSE <<>>)

\* As shown, unless the file or the path cannot be had at that time.
IsExportLuaSetup(file) == Contains(Scanned(file), "setup")

\* What writing from the start leaves of a file that is longer.
Written(text, file) == text \o SubSeq(file, Len(text) + 1, Len(file))

OwnLines(file) == Keep(file, UserLine \cup {"long"})

AtWork == {r \in Request : step[r] # "idle"}

-----------------------------------------------------------------------------
Init ==
    /\ exportLua \in Files
    /\ hook \in {"none", "other"}
    /\ step = [r \in Request |-> "idle"]
    /\ install = [r \in Request |-> FALSE]
    /\ new = [r \in Request |-> <<>>]
    /\ alone = [r \in Request |-> TRUE]
    /\ userLines = OwnLines(exportLua)
    /\ lost = FALSE
    /\ asked = "unknown"
    /\ hookAsked = "unknown"

\* The user edits the file, and knows what DCS-BIOS has added.
Edit(file) ==
    /\ AtWork = {} /\ file # exportLua
    /\ exportLua' = file
    /\ userLines' = OwnLines(file)
    /\ lost' = FALSE
    /\ asked' = "unknown"
    /\ UNCHANGED <<hook, step, install, new, alone, hookAsked>>

\* HandleModifyExportLuaRequest or HandleModifyHookRequest.
Begin(r, first, shouldBeInstalled) ==
    /\ step[r] = "idle"
    /\ step' = [step EXCEPT ![r] = first]
    /\ install' = [install EXCEPT ![r] = shouldBeInstalled]
    /\ alone' = [q \in Request |-> IF q = r THEN AtWork = {} ELSE FALSE]
    /\ UNCHANGED <<exportLua, hook, new, userLines, lost, asked, hookAsked>>

GoOn(r, next) == step' = [step EXCEPT ![r] = next]

\* There is no directory, a file is in use, ...: the errors that are reported.
Fail(r) ==
    /\ step[r] \in {"read", "create", "remove hook", "create hook"}
    /\ GoOn(r, "idle") /\ new' = [new EXCEPT ![r] = <<>>]
    /\ UNCHANGED <<exportLua, hook, install, alone, userLines, lost, asked, hookAsked>>

-----------------------------------------------------------------------------
(***************************************************************************)
(* SetupExportLua.                                                         *)
(***************************************************************************)
\* An error of Stat is taken for a file that does not exist, and one of reading
\* for the end of the file (a line it cuts counts as not read): what is had of it
\* is its first n lines. The request goes on, also with the nil of above.
Read(r) ==
    /\ step[r] = "read"
    /\ \E n \in 0..Len(exportLua), pathKnown \in BOOLEAN :
          /\ new' = [new EXCEPT ![r] =
                GetModifiedExportLua(SubSeq(exportLua, 1, n), install[r], pathKnown)]
          /\ lost' = (lost \/ n # Len(exportLua) \/ ~pathKnown \/ Contains(exportLua, "long"))
    /\ GoOn(r, "create")
    /\ UNCHANGED <<exportLua, hook, install, alone, userLines, asked, hookAsked>>

\* Faulty variant: the file is opened for writing, and what it holds stays.
CreateKeeping(r) ==
    /\ step[r] = "create"
    /\ asked' = "unknown"
    /\ GoOn(r, "write")
    /\ UNCHANGED <<exportLua, hook, install, new, alone, userLines, lost, hookAsked>>

\* os.Create truncates the file.
Create(r) ==
    /\ step[r] = "create"
    /\ exportLua' = <<>>
    /\ asked' = "unknown"
    /\ GoOn(r, "write")
    /\ UNCHANGED <<hook, install, new, alone, userLines, lost, hookAsked>>

\* The result of Write is not looked at: part of the text may be missing. A nil
\* is written like any text, when there should be at least a setup line.
Write(r) ==
    /\ step[r] = "write"
    /\ \E n \in 0..Len(new[r]) :
          LET whole == n = Len(new[r]) /\ alone[r]
          IN  /\ exportLua' = Written(SubSeq(new[r], 1, n), exportLua)
              /\ lost' = (lost \/ ~whole)
              /\ asked' = IF ~whole \/ (install[r] /\ new[r] = <<>>) THEN "unknown"
                          ELSE IF install[r] THEN "installed" ELSE "removed"
    /\ GoOn(r, "idle") /\ new' = [new EXCEPT ![r] = <<>>]
    /\ UNCHANGED <<hook, install, alone, userLines, hookAsked>>

-----------------------------------------------------------------------------
(***************************************************************************)
(* installHook and uninstallHook.                                          *)
(***************************************************************************)
\* A file that cannot be removed, as when it is open, is written over, and an
\* error of Stat is taken for a file that does not exist, and has been removed.
RemoveHook(r) ==
    /\ step[r] = "remove hook"
    /\ \/ /\ hook' = "none" /\ \A q \in Request : step[q] # "write hook"
          /\ hookAsked' = IF install[r] \/ ~alone[r] THEN "unknown" ELSE "removed"
       \/ UNCHANGED hook /\ hookAsked' = "unknown"
    /\ GoOn(r, IF install[r] THEN "create hook" ELSE "idle")
    /\ UNCHANGED <<exportLua, install, new, alone, userLines, lost, asked>>

CreateHook(r) ==
    /\ step[r] = "create hook"
    /\ hook' = "other"
    /\ hookAsked' = "unknown"
    /\ GoOn(r, "write hook")
    /\ UNCHANGED <<exportLua, install, new, alone, userLines, lost, asked>>

\* Faulty variant: the file is left as it is if there is one.
WriteHookOnce(r) ==
    /\ step[r] = "write hook"
    /\ UNCHANGED hook
    /\ hookAsked' = IF alone[r] THEN "installed" ELSE "unknown"
    /\ GoOn(r, "idle")
    /\ UNCHANGED <<exportLua, install, new, alone, userLines, lost, asked>>

WriteHook(r) ==
    /\ step[r] = "write hook"
    /\ \/ hook' = "installed" /\ hookAsked' = IF alone[r] THEN "installed" ELSE "unknown"
       \/ hook' = "other" /\ hookAsked' = "unknown"
    /\ GoOn(r, "idle")
    /\ UNCHANGED <<exportLua, install, new, alone, userLines, lost, asked>>

\* The hub ends, and is started again.
Stop ==
    /\ AtWork # {}
    /\ step' = [r \in Request |-> "idle"]
    /\ new' = [r \in Request |-> <<>>]
    /\ lost' = (lost \/ \E r \in Request : step[r] = "write")
    /\ UNCHANGED <<exportLua, hook, install, alone, userLines, asked, hookAsked>>

Next ==
    \/ \E file \in Files : Edit(file)
    \/ \E r \in Request :
          \/ \E shouldBeInstalled \in BOOLEAN, first \in {"read", "remove hook"} :
                Begin(r, first, shouldBeInstalled)
          \/ Fail(r)
          \/ Read(r) \/ Create(r) \/ Write(r)
          \/ RemoveHook(r) \/ CreateHook(r) \/ WriteHook(r)
    \/ Stop

Spec == Init /\ [][Next]_vars

-----------------------------------------------------------------------------
(***************************************************************************)
(* Whatever is installed and removed, and in whatever order, the user's    *)
(* lines stay in Export.lua in their order. Excepted is what follows       *)
(* (lost): a request that went on though Stat or reading had failed, though *)
(* the path of the hub could not be had, or though a line was too long for *)
(* a Scanner; a write that failed or a hub that stopped after truncating;  *)
(* and two requests at work at a time.                                     *)
(***************************************************************************)
UserLinesKept ==
    ~lost /\ (\A r \in Request : step[r] # "write") => OwnLines(exportLua) = userLines

(***************************************************************************)
(* After a request that was at work alone and wrote the whole file, DCS    *)
(* executes DCS-BIOS once, or not at all, and the user interface shows the *)
(* scripts as installed, or not, whatever was in the file, has been read   *)
(* of it and has gone wrong before. Excepted is an install that writes nil *)
(* because it does not know the path of the hub, and reports success.      *)
(***************************************************************************)
SetupAsAsked ==
    /\ asked = "installed" => /\ IsExportLuaSetup(exportLua)
                              /\ Cardinality({i \in DOMAIN exportLua :
                                        exportLua[i] \in {"setup", "marked", "old"}}) = 1
    /\ asked = "removed" => \A i \in DOMAIN exportLua :
                                exportLua[i] \notin {"setup", "marked", "old"}

(***************************************************************************)
(* A hook is shown as installed after it has been installed, and its file  *)
(* is not there after it has been removed, by a request that was at work   *)
(* alone, wrote the whole file, and was not told by mistake that there is  *)
(* none to remove.                                                         *)
(***************************************************************************)
HookAsAsked ==
    hookAsked # "unknown" => hook = IF hookAsked = "installed" THEN "installed" ELSE "none"
=============================================================================
