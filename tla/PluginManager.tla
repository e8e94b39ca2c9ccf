---------------------------- MODULE PluginManager ----------------------------
(***************************************************************************)
(* pluginmanager.pluginManager: plugins (module definitions) are git       *)
(* repositories in directories of their own, which requests of the user    *)
(* interface install, update and remove.  Each request runs in a goroutine *)
(* of its own, an operation here; it takes stateLock for a part at a time, *)
(* so a step is a critical section or what happens between two of them.    *)
(*                                                                         *)
(* The plugins reach DCS by way of dcs-lua-index.json and the rest of the  *)
(* hub by way of the control reference store.  git and the file system are *)
(* external: a call may fail wherever there is one, and may have done part *)
(* of its work.  Left out: tags and branches, progress messages, requests  *)
(* that are refused, and subscribers (see Monitors).                       *)
(***************************************************************************)
EXTENDS Naturals, FiniteSets, Functions

CONSTANTS
    Name,        \* directories of plugins
    URL,         \* of repositories
    NoURL,       \* no remote of the plugin manager
    BaseName,    \* [URL -> Name], localNameFromRemoteURL
    Module,      \* names of module definitions
    NoModule,    \* ""
    NoEntry,     \* not in the map state
    NoRepo,      \* no such directory
    Op,          \* bound: operations at a time
    Idle,        \* one that is not running
    Manifests,   \* what a repository, or one kept manually in a directory, can define
    MaxRestarts  \* bound: starts of the hub

Repo == [url : URL \cup {NoURL}, module : Module \cup {NoModule}, behind : BOOLEAN, readable : BOOLEAN]

PluginState == [RemoteURL : URL \cup {NoURL}, IsManagedManually : BOOLEAN,
                ModuleDefinitionName : Module \cup {NoModule},
                ProgressState : {"", "working", "error", "success"}]

Step == {"clone", "enter", "fail", "finish",                     \* install
         "delete", "forget",                                     \* remove
         "unload", "index", "apply", "error", "read", "reread",  \* apply updates
         "replace", "rereplace", "succeed",
         "wait", "fetch"}                                        \* check for updates

Operation == [step : Step, name : Name, url : URL \cup {NoURL},
              entry : PluginState \cup {NoEntry}, index : SUBSET (Name \X Module)]

ASSUME PluginManagerAssumption ==
    /\ BaseName \in [URL -> Name]
    /\ MaxRestarts \in Nat
    /\ NoURL \notin URL
    /\ Name \cap URL = {}
    /\ NoModule \notin Module
    /\ NoEntry \notin PluginState
    /\ NoRepo \notin Repo
    /\ Idle \notin Operation
    /\ Manifests \in [Name \cup URL -> SUBSET (Module \cup {NoModule})]

VARIABLES
    disk,        \* [Name -> Repo \cup {NoRepo}], the directories in CheckoutPath
    state,       \* [Name -> PluginState \cup {NoEntry}]
    index,       \* the plugins and their modules in dcs-lua-index.json
    modules,     \* the modules in the control reference store
    op,          \* [Op -> Operation \cup {Idle}]
    hub,         \* "running", "spinning" (an install, holding stateLock) or
                 \* "ended" (nil was dereferenced)
    mishaps,     \* "overtaken": an operation began while another, which had given
                 \* its plugin up too early, was still at work on it; "reread": a
                 \* check for updates read a plugin again that is managed manually
                 \* and was being worked on, which takes its "working" away
    stale,       \* the index need not be that of the state: writing it failed, it
                 \* was written from an earlier state, or a check for updates has
                 \* entered a module without writing it
    unloaded,    \* modules of plugins that the code has left out: LoadFile failed,
                 \* another plugin with the same module was unloaded, or a check
                 \* for updates has entered a plugin without loading it
    restarts     \* starts of the hub after the first

vars == <<disk, state, index, modules, op, hub, mishaps, stale, unloaded, restarts>>

-----------------------------------------------------------------------------
\* What updateDcsLuaIndex writes.
IndexOf(st) ==
    {<<n, st[n].ModuleDefinitionName>> :
        n \in {p \in Name : st[p] # NoEntry /\ st[p].ModuleDefinitionName # NoModule}}

\* ReadSinglePluginStateFromDisk, or NoEntry for an error.
EntryOf(repo) ==
    IF repo = NoRepo \/ ~repo.readable THEN NoEntry
    ELSE [RemoteURL |-> repo.url, IsManagedManually |-> repo.url = NoURL,
          ModuleDefinitionName |-> repo.module, ProgressState |-> ""]

Read(n) == EntryOf(disk[n])

Readable == {n \in Name : Read(n) # NoEntry}

\* The modules in some directories, and of some entries.
ModulesOf(names) == {disk[n].module : n \in names} \ {NoModule}
ModulesShown(names) == {i[2] : i \in {j \in IndexOf(state) : j[1] \in names}}

With(n, entry) == [state EXCEPT ![n] = entry]
WithProgress(n, progress) == With(n, [state[n] EXCEPT !.ProgressState = progress])

\* The errors of Create and Encode are not looked at. What the file holds after one,
\* the index that was there or a part of the new one, is left out: no plugins.
WriteIndex(st) ==
    \/ index' = IndexOf(st) /\ stale' = FALSE
    \/ index' = {} /\ stale' = TRUE

\* Nor is that of LoadFile. A module that is loaded already is refused, which
\* comes to the same here.
LoadFile(m) ==
    \/ modules' = modules \cup {m} /\ unloaded' = unloaded \ {m}
    \/ m \notin modules /\ modules' = modules /\ unloaded' = unloaded \cup {m}

\* Faulty variant: the module definition is not read.
LoadNot(n, entry) ==
    /\ state' = With(n, entry)
    /\ WriteIndex(state')
    /\ UNCHANGED <<modules, unloaded>>

\* pm.state[n] = entry and loadPlugin.
Load(n, entry) ==
    /\ state' = With(n, entry)
    /\ IF entry.ModuleDefinitionName = NoModule
       THEN UNCHANGED <<index, stale, modules, unloaded>>
       ELSE LoadFile(entry.ModuleDefinitionName) /\ WriteIndex(state')

Continue(o, step) == op' = [op EXCEPT ![o] = [@ EXCEPT !.step = step, !.entry = NoEntry, !.index = {}]]
End(o) == op' = [op EXCEPT ![o] = Idle]
At(o, step) == op[o] # Idle /\ op[o].step = step

Begin(step, n, url, entry) == [step |-> step, name |-> n, url |-> url, entry |-> entry, index |-> {}]

\* Operations at work on a plugin, and those that have given it up: the state
\* no longer says "working", but they will write it once more.
AtWork(n) == {o \in Op : op[o] # Idle /\ op[o].name = n}
GivenUp(n) == {o \in AtWork(n) : op[o].step \in {"finish", "reread", "rereplace", "succeed"}}

If(happened, kind) == IF happened THEN {kind} ELSE {}
Overtaking(names) == If(\E n \in names : GivenUp(n) # {}, "overtaken")

Running == {o \in Op : op[o] # Idle}

\* Whoever wants stateLock gets it.
CanLock == hub = "running"

-----------------------------------------------------------------------------
(***************************************************************************)
(* HandleInstallPluginRequest.                                             *)
(***************************************************************************)
\* The entry has no RemoteURL until the repository has been cloned.
Installing == [RemoteURL |-> NoURL, IsManagedManually |-> FALSE,
               ModuleDefinitionName |-> NoModule, ProgressState |-> "working"]

IsInstalled(url) == \E n \in Name : state[n] # NoEntry /\ state[n].RemoteURL = url

\* The loop that is to find a free name looks up the first one only.
Install(o, url) ==
    /\ CanLock /\ op[o] = Idle /\ ~IsInstalled(url)
    /\ IF state[BaseName[url]] # NoEntry
       THEN hub' = "spinning" /\ UNCHANGED <<state, op>>
       ELSE /\ state' = With(BaseName[url], Installing)
            /\ op' = [op EXCEPT ![o] = Begin("clone", BaseName[url], url, NoEntry)]
            /\ UNCHANGED hub
    /\ mishaps' = mishaps \cup Overtaking({BaseName[url]})
    /\ UNCHANGED <<disk, index, modules, stale, unloaded, restarts>>

\* InstallModuleDefinition, up to the lock. It may fail at the clone, or after it
\* as it reads the directory, and leaves that as it is.
Clone(o) ==
    /\ At(o, "clone") /\ hub # "ended"
    /\ \/ UNCHANGED disk /\ Continue(o, "finish")
       \/ /\ disk[op[o].name] = NoRepo
          /\ \E m \in Manifests[op[o].url], readable \in BOOLEAN :
                LET repo == [url |-> op[o].url, module |-> m, behind |-> FALSE, readable |-> readable]
                IN  /\ disk' = [disk EXCEPT ![op[o].name] = repo]
                    /\ \/ Continue(o, "finish")
                       \/ readable /\ op' = [op EXCEPT ![o].step = "enter",
                                                       ![o].entry = EntryOf(repo)]
    /\ UNCHANGED <<state, index, modules, hub, mishaps, stale, unloaded, restarts>>

Enter(o) ==
    /\ At(o, "enter") /\ CanLock
    /\ Load(op[o].name, op[o].entry)
    /\ Continue(o, "finish")
    /\ UNCHANGED <<disk, hub, mishaps, restarts>>

\* An error is overwritten at once.
FinishInstall(o) ==
    /\ At(o, "finish") /\ CanLock
    /\ IF state[op[o].name] = NoEntry
       THEN hub' = "ended" /\ UNCHANGED state
       ELSE state' = WithProgress(op[o].name, "success") /\ UNCHANGED hub
    /\ End(o)
    /\ UNCHANGED <<disk, index, modules, mishaps, stale, unloaded, restarts>>

-----------------------------------------------------------------------------
(***************************************************************************)
(* HandleRemovePluginRequest.                                              *)
(***************************************************************************)
\* Faulty variant: without the test whether another operation is at work.
MayStartAtOnce(n) == state[n] # NoEntry

MayStart(n) == state[n] # NoEntry /\ state[n].ProgressState # "working"

\* Whatever other plugin has the same module.
Unload(n, entry) ==
    /\ modules' = modules \ {entry.ModuleDefinitionName}
    /\ unloaded' = unloaded \cup ({entry.ModuleDefinitionName} \cap ModulesShown(Name \ {n}))

Remove(o, n) ==
    /\ CanLock /\ op[o] = Idle
    /\ MayStart(n) /\ ~state[n].IsManagedManually
    /\ state' = WithProgress(n, "working")
    /\ Unload(n, state[n]) /\ WriteIndex(state')
    /\ op' = [op EXCEPT ![o] = Begin("delete", n, NoURL, NoEntry)]
    /\ mishaps' = mishaps \cup Overtaking({n})
    /\ UNCHANGED <<disk, hub, restarts>>

\* RemoveAll may leave some of the files, or all: what is left may still be a
\* repository, and the manifest may still be in it.
Left(repo) == {[repo EXCEPT !.module = m, !.readable = readable] :
                  m \in {repo.module, NoModule}, readable \in {repo.readable, FALSE}}

Delete(o) ==
    /\ At(o, "delete") /\ hub # "ended"
    /\ LET n == op[o].name
       IN  \/ disk' = [disk EXCEPT ![n] = NoRepo]
           \/ disk[n] # NoRepo /\ \E left \in Left(disk[n]) : disk' = [disk EXCEPT ![n] = left]
    /\ Continue(o, "forget")
    /\ UNCHANGED <<state, index, modules, hub, mishaps, stale, unloaded, restarts>>

\* Faulty variant: the index keeps the plugin, as unloadPlugin has left it.
ForgetOnly(o) ==
    /\ At(o, "forget") /\ CanLock
    /\ state' = With(op[o].name, NoEntry)
    /\ End(o)
    /\ UNCHANGED <<disk, index, modules, hub, mishaps, stale, unloaded, restarts>>

\* Faulty variant: the entry stays, marked as removed.
ForgetNot(o) ==
    /\ At(o, "forget") /\ CanLock
    /\ state' = WithProgress(op[o].name, "success")
    /\ WriteIndex(state')
    /\ End(o)
    /\ UNCHANGED <<disk, modules, hub, mishaps, unloaded, restarts>>

Forget(o) ==
    /\ At(o, "forget") /\ CanLock
    /\ state' = With(op[o].name, NoEntry)
    /\ WriteIndex(state')
    /\ End(o)
    /\ UNCHANGED <<disk, modules, hub, mishaps, unloaded, restarts>>

-----------------------------------------------------------------------------
(***************************************************************************)
(* HandleApplyPluginUpdateRequest.  unloadPlugin is called without         *)
(* stateLock, so the index it writes may be that of an earlier state.      *)
(***************************************************************************)
ApplyUpdates(o, n) ==
    /\ CanLock /\ op[o] = Idle /\ MayStart(n)
    /\ state' = WithProgress(n, "working")
    /\ op' = [op EXCEPT ![o] = Begin("unload", n, NoURL, state[n])]
    /\ mishaps' = mishaps \cup Overtaking({n})
    /\ UNCHANGED <<disk, index, modules, hub, stale, unloaded, restarts>>

UnloadUnlocked(o) ==
    /\ At(o, "unload") /\ hub # "ended"
    /\ Unload(op[o].name, op[o].entry)
    /\ op' = [op EXCEPT ![o] = [@ EXCEPT !.step = "index", !.entry = NoEntry, !.index = IndexOf(state)]]
    /\ UNCHANGED <<disk, state, index, hub, mishaps, stale, restarts>>

WriteIndexUnlocked(o) ==
    /\ At(o, "index") /\ hub # "ended"
    /\ \/ index' = op[o].index /\ stale' = (op[o].index # IndexOf(state))
       \/ index' = {} /\ stale' = TRUE
    /\ Continue(o, "apply")
    /\ UNCHANGED <<disk, state, modules, hub, mishaps, unloaded, restarts>>

\* Only a branch that is behind its remote can be reset to it, and that may
\* fail after part of it.
Reset(o) ==
    /\ At(o, "apply") /\ hub # "ended"
    /\ LET n == op[o].name
       IN  \/ UNCHANGED disk /\ Continue(o, "error")
           \/ /\ disk[n] # NoRepo /\ disk[n].readable /\ disk[n].behind
              /\ \E m \in Manifests[disk[n].url], readable, failed \in BOOLEAN :
                    /\ readable \/ failed
                    /\ disk' = [disk EXCEPT ![n] = [url |-> disk[n].url, module |-> m,
                                                    behind |-> FALSE, readable |-> readable]]
                    /\ Continue(o, IF failed THEN "error" ELSE "read")
    /\ UNCHANGED <<state, index, modules, hub, mishaps, stale, unloaded, restarts>>

\* Faulty variant: finishWorkOnPlugin forgets the state it is to set.
FinishWorkNot(n, progress) == state' = state

FinishWork(n, progress) ==
    state' = IF state[n] = NoEntry THEN state ELSE WithProgress(n, progress)

\* After an error the handler reports it and goes on.
ReportError(o) ==
    /\ At(o, "error") /\ CanLock
    /\ FinishWork(op[o].name, "error")
    /\ Continue(o, "reread")
    /\ UNCHANGED <<disk, index, modules, hub, mishaps, stale, unloaded, restarts>>

ReadAgain(o) ==
    /\ At(o, "read") \/ At(o, "reread")
    /\ hub # "ended"
    /\ \E entry \in {Read(op[o].name), NoEntry} :
          op' = [op EXCEPT ![o].entry = entry,
                           ![o].step = IF @ = "read" THEN "replace" ELSE "rereplace"]
    /\ UNCHANGED <<disk, state, index, modules, hub, mishaps, stale, unloaded, restarts>>

Replace(o) ==
    /\ At(o, "replace") \/ At(o, "rereplace")
    /\ CanLock
    /\ IF op[o].entry = NoEntry
       THEN /\ FinishWork(op[o].name, "error") /\ End(o)
            /\ UNCHANGED <<index, modules, stale, unloaded>>
       ELSE Load(op[o].name, op[o].entry) /\ Continue(o, "succeed")
    /\ UNCHANGED <<disk, hub, mishaps, restarts>>

Succeed(o) ==
    /\ At(o, "succeed") /\ CanLock
    /\ FinishWork(op[o].name, "success")
    /\ End(o)
    /\ UNCHANGED <<disk, index, modules, hub, mishaps, stale, unloaded, restarts>>

-----------------------------------------------------------------------------
(***************************************************************************)
(* HandleCheckForPluginUpdatesRequest: plugins that are managed manually   *)
(* are read again at once, whatever is going on with them; one operation   *)
(* for each of the others stands for the goroutines that fetch them.       *)
(* (The handler itself waits for ever: nobody calls wg.Done.)              *)
(***************************************************************************)
Manual == {n \in Name : state[n] # NoEntry /\ state[n].IsManagedManually}
ToCheck == {n \in Name \ Manual : MayStart(n)}

\* A manual plugin that is not read keeps its entry.
ReRead(names, read) ==
    [n \in Name |->
        IF n \notin names THEN state[n]
        ELSE IF n \in read THEN Read(n)
        ELSE [state[n] EXCEPT !.ProgressState = "error"]]

\* The index is written last for some manual plugin, before its entry is replaced
\* unless it has a module then.
IndexAfterReRead(read) ==
    {IndexOf(ReRead(IF n \in read /\ disk[n].module # NoModule
                    THEN Manual ELSE Manual \ {n}, read)) : n \in Manual}

\* One after the other they are unloaded and loaded, so that which of them have
\* their module in the end is up to LoadFile and, if two have the same, to the
\* order. Others may have lost theirs.
ReLoad(read) ==
    \E loaded \in SUBSET ModulesOf(read) :
        /\ modules' = (modules \ ModulesShown(Manual)) \cup loaded
        /\ unloaded' = (unloaded \cup ModulesOf(read)
                           \cup (ModulesShown(Manual) \cap ModulesShown(Name \ Manual)))
                       \ modules'

Check ==
    /\ CanLock
    /\ \E slot \in Injection(ToCheck, {o \in Op : op[o] = Idle}) :
          op' = [o \in Op |-> IF o \in Range(slot)
                              THEN Begin("wait", CHOOSE n \in ToCheck : slot[n] = o, NoURL, NoEntry)
                              ELSE op[o]]
    /\ \E read \in SUBSET (Manual \cap Readable) :
          /\ state' = [n \in Name |-> IF n \in ToCheck
                                      THEN [state[n] EXCEPT !.ProgressState = "working"]
                                      ELSE ReRead(Manual, read)[n]]
          /\ ReLoad(read)
          /\ \/ Manual = {} /\ UNCHANGED <<index, stale>>
             \/ index' \in IndexAfterReRead(read) /\ stale' = FALSE
             \/ Manual # {} /\ index' = {} /\ stale' = TRUE
    /\ mishaps' = mishaps \cup Overtaking(ToCheck)
                           \cup If(\E n \in Manual : AtWork(n) # {}, "reread")
    /\ UNCHANGED <<disk, hub, restarts>>

BeginFetch(o) ==
    /\ At(o, "wait") /\ CanLock
    /\ IF state[op[o].name] = NoEntry
       THEN hub' = "ended" /\ End(o)
       ELSE Continue(o, "fetch") /\ UNCHANGED hub
    /\ UNCHANGED <<disk, state, index, modules, mishaps, stale, unloaded, restarts>>

\* CheckForUpdates, which may find that the branch is behind now, and the rest.
\* Nothing can be fetched without the remote of the plugin manager.
CanFetch(n) == n \in Readable /\ disk[n].url # NoURL

\* The entry is what has been read, but nothing is loaded or written: that is
\* right if the entry it replaces had the same module, and that is loaded.
Fetch(o) ==
    /\ At(o, "fetch") /\ CanLock
    /\ LET n == op[o].name
       IN  /\ \/ UNCHANGED disk
              \/ CanFetch(n) /\ disk' = [disk EXCEPT ![n].behind = TRUE]
           /\ \/ /\ CanFetch(n)
                 /\ state' = With(n, [Read(n) EXCEPT !.ProgressState = "success"])
                 /\ stale' = (stale \/ ~(IndexOf(state') \subseteq IndexOf(state)))
                 /\ unloaded' = unloaded \cup (ModulesOf({n}) \ modules)
                 /\ UNCHANGED hub
              \/ /\ IF state[n] = NoEntry
                    THEN hub' = "ended" /\ UNCHANGED state
                    ELSE state' = WithProgress(n, "error") /\ UNCHANGED hub
                 /\ UNCHANGED <<stale, unloaded>>
    /\ End(o)
    /\ UNCHANGED <<index, modules, mishaps, restarts>>

-----------------------------------------------------------------------------
(***************************************************************************)
(* NewPluginManager reads the directories, and forgets all of them if one  *)
(* is not read; those that come before it in the directory have been       *)
(* loaded then.                                                            *)
(***************************************************************************)
Start(st, mods, left) ==
    \E read \in SUBSET Readable :
        LET all == \A n \in Name \ read : disk[n] = NoRepo
        IN  /\ st = [n \in Name |-> IF all THEN Read(n) ELSE NoEntry]
            /\ mods \in SUBSET ModulesOf(read)
            /\ left = ModulesOf(read) \ mods

ManualRepo(m) == [url |-> NoURL, module |-> m, behind |-> FALSE, readable |-> TRUE]

Init ==
    /\ disk \in [Name -> {NoRepo} \cup {ManualRepo(m) : m \in Module \cup {NoModule}}]
    /\ \A n \in Name : disk[n] # NoRepo => disk[n].module \in Manifests[n]
    /\ Start(state, modules, unloaded)
    /\ \/ index = IndexOf(state) /\ stale = FALSE
       \/ index = {} /\ stale = TRUE
    /\ op = [o \in Op |-> Idle]
    /\ hub = "running"
    /\ mishaps = {}
    /\ restarts = 0

\* The hub ends, in the middle of whatever it does, and is started again.
Restart ==
    /\ restarts < MaxRestarts
    /\ restarts' = restarts + 1
    /\ Start(state', modules', unloaded')
    /\ WriteIndex(state')
    /\ op' = [o \in Op |-> Idle]
    /\ hub' = "running"
    /\ mishaps' = {}
    /\ UNCHANGED disk

\* The user changes the manifest of a plugin that is managed manually.
EditManually(n) ==
    /\ disk[n] # NoRepo /\ disk[n].url = NoURL
    /\ \E m \in Manifests[n] : disk' = [disk EXCEPT ![n] = ManualRepo(m)]
    /\ UNCHANGED <<state, index, modules, op, hub, mishaps, stale, unloaded, restarts>>

GoOn(o) ==
    \/ Clone(o) \/ Enter(o) \/ FinishInstall(o)
    \/ Delete(o) \/ Forget(o)
    \/ UnloadUnlocked(o) \/ WriteIndexUnlocked(o) \/ Reset(o) \/ ReportError(o)
    \/ ReadAgain(o) \/ Replace(o) \/ Succeed(o)
    \/ BeginFetch(o) \/ Fetch(o)

Next ==
    \/ \E o \in Op : \/ GoOn(o)
                     \/ \E url \in URL : Install(o, url)
                     \/ \E n \in Name : Remove(o, n) \/ ApplyUpdates(o, n)
    \/ Check
    \/ \E n \in Name : EditManually(n)
    \/ Restart

Spec == Init /\ [][Next]_vars

\* Goroutines that can go on do, git and the file system answer, and the mutex
\* goes to everyone who waits for it.
FairSpec == Spec /\ \A o \in Op : WF_vars(GoOn(o))

-----------------------------------------------------------------------------
(***************************************************************************)
(* A type invariant.                                                       *)
(***************************************************************************)
TypeOK ==
    /\ disk \in [Name -> Repo \cup {NoRepo}]
    /\ state \in [Name -> PluginState \cup {NoEntry}]
    /\ index \subseteq Name \X Module
    /\ modules \subseteq Module
    /\ op \in [Op -> Operation \cup {Idle}]
    /\ hub \in {"running", "spinning", "ended"} /\ mishaps \subseteq {"overtaken", "reread"}
    /\ stale \in BOOLEAN /\ unloaded \subseteq Module
    /\ restarts \in 0..MaxRestarts

\* No property says anything of what follows such a race: TLC need not go on.
NoRace == mishaps = {}

(***************************************************************************)
(* stateLock and ProgressState "ensure only one operation starts           *)
(* concurrently per repository": no two work on the same plugin, and no    *)
(* handler finds the entry it works on gone, which would end the hub.      *)
(* Excepted are the three gaps in this, until the hub is started anew: an  *)
(* operation has begun on a plugin that another had given up too early     *)
(* (between the two critical sections that end an install or an update, or *)
(* after an update has reported its error: "overtaken"), or a check for    *)
(* updates has replaced the entry of a plugin that is managed manually     *)
(* while an update was at work on it ("reread").                           *)
(***************************************************************************)
OneAtATime ==
    NoRace => hub # "ended" /\ \A n \in Name : Cardinality(AtWork(n)) <= 1

\* Nothing is going on, and nothing has gone wrong as above.
AtRest == Running = {} /\ NoRace

(***************************************************************************)
(* DCS loads the plugins in dcs-lua-index.json when it starts, at any      *)
(* time.  Every plugin with a module definition is there, though an update *)
(* writes the index without the lock, and no plugin is there that has been *)
(* removed.  Excepted, until the index is written the next time, are       *)
(* writing that failed, an index from a state that has changed meanwhile,  *)
(* and a module that a check for updates has found in the directory of a   *)
(* plugin whose entry had none, or another one (stale).                    *)
(***************************************************************************)
IndexServes == ~stale =>
    /\ IndexOf(state) \subseteq index
    /\ \A i \in index : state[i[1]] # NoEntry

(***************************************************************************)
(* At rest the hub knows the controls of every plugin with a module        *)
(* definition that it does not show an error for.  Excepted, until it is   *)
(* loaded the next time, is a module that LoadFile could not load, that    *)
(* was unloaded on behalf of another plugin which has the same, or whose   *)
(* plugin has been shown as ready by a check for updates, which loads      *)
(* nothing (unloaded).                                                     *)
(***************************************************************************)
ModulesLoaded == AtRest =>
    \A i \in IndexOf(state) :
        state[i[1]].ProgressState # "error" => i[2] \in modules \cup unloaded

(***************************************************************************)
(* An entry that names a remote repository, for which another installation *)
(* of that repository is refused, has its directory, with a clone of it.   *)
(***************************************************************************)
EntriesOnDisk ==
    \A n \in Name : AtRest /\ state[n] # NoEntry /\ state[n].RemoteURL # NoURL
                        => disk[n] # NoRepo /\ disk[n].url = state[n].RemoteURL

(***************************************************************************)
(* Every operation ends and no plugin is locked by it for ever, unless an  *)
(* install spins, the hub has ended or there was a race.                   *)
(***************************************************************************)
OperationsEnd ==
    [](CanLock /\ NoRace) =>
                 /\ \A o \in Op : []<>(op[o] = Idle)
                 /\ \A n \in Name : []<>(state[n] = NoEntry \/ state[n].ProgressState # "working")
=============================================================================
