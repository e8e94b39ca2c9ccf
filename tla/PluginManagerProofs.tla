------------------------- MODULE PluginManagerProofs -------------------------
(***************************************************************************)
(* Proofs about PluginManager, for any number of plugins, repositories,    *)
(* modules and operations at a time: its variables keep their types, one   *)
(* operation at a time works on a plugin, and what the user interface      *)
(* shows agrees with the directories, the index and the loaded modules.    *)
(***************************************************************************)
EXTENDS PluginManager, FiniteSetTheorems, TLAPS

\* What the operations rely on that the types do not say: a repository to clone,
\* a module definition that has been read, a remote branch to reset to.
OperationOK(o) == op[o] # Idle =>
    /\ op[o].step = "clone" => op[o].url \in URL
    /\ op[o].step = "enter" => op[o].entry # NoEntry

RepoOK(n) == disk[n] # NoRepo /\ disk[n].behind => disk[n].url \in URL

IType ==
    /\ TypeOK
    /\ \A o \in Op : OperationOK(o)
    /\ \A n \in Name : RepoOK(n)

Entry == PluginState \cup {NoEntry}
Progress == {"", "working", "error", "success"}

-----------------------------------------------------------------------------
(***************************************************************************)
(* The types of what the operators return.                                 *)
(***************************************************************************)
LEMMA IndexOfType ==
    ASSUME NEW st \in [Name -> Entry]
    PROVE  IndexOf(st) \subseteq Name \X Module
<1> SUFFICES ASSUME NEW n \in Name, st[n] # NoEntry, st[n].ModuleDefinitionName # NoModule
             PROVE  st[n].ModuleDefinitionName \in Module
  BY DEF IndexOf
<1>1. st[n] \in PluginState
  BY DEF Entry
<1> QED
  BY <1>1 DEF PluginState

LEMMA ModulesShownType ==
    ASSUME TypeOK, NEW names
    PROVE  ModulesShown(names) \subseteq Module
<1>1. IndexOf(state) \subseteq Name \X Module
  BY IndexOfType DEF TypeOK, Entry
<1> QED
  BY <1>1 DEF ModulesShown

LEMMA WriteIndexType ==
    ASSUME NEW st \in [Name -> Entry], WriteIndex(st)
    PROVE  index' \subseteq Name \X Module /\ stale' \in BOOLEAN
BY IndexOfType DEF WriteIndex

LEMMA RepoType ==
    ASSUME NEW url \in URL \cup {NoURL}, NEW m \in Module \cup {NoModule}, NEW readable \in BOOLEAN
    PROVE  /\ [url |-> url, module |-> m, behind |-> FALSE, readable |-> readable] \in Repo
           /\ [url |-> url, module |-> m, behind |-> FALSE, readable |-> readable] # NoRepo
<1>1. [url |-> url, module |-> m, behind |-> FALSE, readable |-> readable] \in Repo
  BY DEF Repo
<1> QED
  BY <1>1, PluginManagerAssumption

LEMMA EntryType ==
    ASSUME NEW url \in URL \cup {NoURL}, NEW manual \in BOOLEAN,
           NEW module \in Module \cup {NoModule},
           NEW progress \in Progress
    PROVE  [RemoteURL |-> url, IsManagedManually |-> manual,
            ModuleDefinitionName |-> module, ProgressState |-> progress] \in PluginState
BY DEF PluginState, Progress

LEMMA EntryOfType ==
    ASSUME NEW repo \in Repo \cup {NoRepo}
    PROVE  /\ EntryOf(repo) \in Entry
           /\ EntryOf(repo) # NoEntry <=> repo # NoRepo /\ repo.readable
<1>1. CASE repo = NoRepo \/ ~repo.readable
  BY <1>1 DEF EntryOf, Entry
<1>2. CASE repo # NoRepo /\ repo.readable
  <2>1. repo \in Repo
    BY <1>2
  <2> DEFINE manual == repo.url = NoURL
  <2>2. EntryOf(repo) = [RemoteURL |-> repo.url, IsManagedManually |-> manual,
                         ModuleDefinitionName |-> repo.module, ProgressState |-> ""]
    BY <1>2 DEF EntryOf
  <2>3. /\ repo.url \in URL \cup {NoURL} /\ repo.module \in Module \cup {NoModule}
        /\ manual \in BOOLEAN
    BY <2>1 DEF Repo
  <2> HIDE DEF manual
  <2>4. EntryOf(repo) \in PluginState
    BY <2>2, <2>3, EntryType, "" \in Progress, Zenon DEF Progress
  <2> QED
    BY <1>2, <2>4, PluginManagerAssumption DEF Entry
<1> QED
  BY <1>1, <1>2

LEMMA ModulesOfType ==
    ASSUME disk \in [Name -> Repo \cup {NoRepo}], NEW names \in SUBSET Readable
    PROVE  ModulesOf(names) \subseteq Module
<1> SUFFICES ASSUME NEW n \in names
             PROVE  disk[n].module \in Module \cup {NoModule}
  BY DEF ModulesOf
<1>1. n \in Name /\ Read(n) # NoEntry
  BY DEF Readable
<1>2. disk[n] \in Repo
  BY <1>1, EntryOfType DEF Read
<1> QED
  BY <1>2 DEF Repo

LEMMA ProgressType ==
    ASSUME NEW entry \in PluginState, NEW progress \in Progress
    PROVE  /\ [entry EXCEPT !.ProgressState = progress] \in PluginState
           /\ [entry EXCEPT !.ProgressState = progress] # NoEntry
           /\ [entry EXCEPT !.ProgressState = progress].ProgressState = progress
<1>1. [entry EXCEPT !.ProgressState = progress] \in PluginState
  BY DEF PluginState, Progress
<1> QED
  BY <1>1, PluginManagerAssumption DEF PluginState

\* What WithProgress makes of an entry that is there.
LEMMA WithProgressType ==
    ASSUME TypeOK, NEW n \in Name, state[n] # NoEntry, NEW progress \in Progress,
           state' = WithProgress(n, progress)
    PROVE  /\ state' \in [Name -> Entry]
           /\ state'[n] # NoEntry /\ state'[n].ProgressState = progress
           /\ \A m \in Name \ {n} : state'[m] = state[m]
<1>1. state \in [Name -> Entry] /\ state[n] \in PluginState
  BY DEF TypeOK, Entry
<1> DEFINE e == [state[n] EXCEPT !.ProgressState = progress]
<1>2. e \in PluginState /\ e # NoEntry /\ e.ProgressState = progress
  BY <1>1, ProgressType
<1>3. state' = [state EXCEPT ![n] = e]
  BY DEF WithProgress, With
<1> HIDE DEF e
<1> QED
  BY <1>1, <1>2, <1>3 DEF Entry

LEMMA LoadType ==
    ASSUME TypeOK, NEW n \in Name, NEW entry \in PluginState, Load(n, entry)
    PROVE  /\ state' \in [Name -> Entry]
           /\ modules' \subseteq Module /\ unloaded' \subseteq Module
           /\ index' \subseteq Name \X Module /\ stale' \in BOOLEAN
           /\ state'[n] = entry
           /\ \A m \in Name \ {n} : state'[m] = state[m]
<1>1. state \in [Name -> Entry]
  BY DEF TypeOK, Entry
<1>2. state' = [state EXCEPT ![n] = entry] /\ state' \in [Name -> Entry]
  BY <1>1 DEF Load, With, Entry
<1>3. modules' \subseteq Module /\ unloaded' \subseteq Module
  BY DEF Load, LoadFile, TypeOK, PluginState
<1>4. index' \subseteq Name \X Module /\ stale' \in BOOLEAN
  BY <1>2, WriteIndexType DEF Load, TypeOK
<1> QED
  BY <1>1, <1>2, <1>3, <1>4

LEMMA BeginType ==
    ASSUME NEW step \in Step, NEW n \in Name, NEW url \in URL \cup {NoURL}, NEW entry \in Entry
    PROVE  /\ Begin(step, n, url, entry) \in Operation
           /\ Begin(step, n, url, entry) # Idle
<1>1. Begin(step, n, url, entry) \in Operation
  BY DEF Begin, Operation, Entry
<1> QED
  BY <1>1, PluginManagerAssumption

\* What Continue makes of an operation.
LEMMA ContinueType ==
    ASSUME TypeOK, NEW o \in Op, op[o] # Idle, NEW step \in Step, Continue(o, step)
    PROVE  /\ op' \in [Op -> Operation \cup {Idle}]
           /\ op'[o] # Idle /\ op'[o].name = op[o].name
           /\ op'[o].step = step /\ op'[o].entry = NoEntry
           /\ \A p \in Op \ {o} : op'[p] = op[p]
<1> DEFINE x == [op[o] EXCEPT !.step = step, !.entry = NoEntry, !.index = {}]
<1>1. op[o] \in Operation
  BY DEF TypeOK
<1>2. x \in Operation /\ x.name = op[o].name /\ x.step = step /\ x.entry = NoEntry
  BY <1>1 DEF Operation
<1>3. op' = [op EXCEPT ![o] = x]
  BY DEF Continue
<1>4. x # Idle
  BY <1>2, PluginManagerAssumption
<1> HIDE DEF x
<1> QED
  BY <1>2, <1>3, <1>4 DEF TypeOK

\* The same when the operation takes an entry along (Clone and ReadAgain).
LEMMA TakeType ==
    ASSUME TypeOK, NEW o \in Op, op[o] # Idle, NEW step \in Step, NEW entry \in Entry,
           op' = [op EXCEPT ![o].step = step, ![o].entry = entry]
    PROVE  /\ op' \in [Op -> Operation \cup {Idle}]
           /\ op'[o] # Idle /\ op'[o].name = op[o].name
           /\ op'[o].step = step /\ op'[o].entry = entry
           /\ \A p \in Op \ {o} : op'[p] = op[p]
<1> DEFINE x == [op[o] EXCEPT !.step = step, !.entry = entry]
<1>1. op[o] \in Operation
  BY DEF TypeOK
<1>2. x \in Operation /\ x.name = op[o].name /\ x.step = step /\ x.entry = entry
  BY <1>1 DEF Operation, Entry
<1>3. op' = [op EXCEPT ![o] = x]
  BY DEF TypeOK
<1>4. x # Idle
  BY <1>2, PluginManagerAssumption
<1> HIDE DEF x
<1> QED
  BY <1>2, <1>3, <1>4 DEF TypeOK

-----------------------------------------------------------------------------
(***************************************************************************)
(* What a step of an operation may do.                                     *)
(***************************************************************************)
Ending == {"finish", "reread", "rereplace", "succeed"}

\* An operation works on a plugin that has an entry, which says so until the end.
EntryOK(o) == op[o] # Idle =>
    /\ state[op[o].name] # NoEntry
    /\ op[o].step \notin Ending => state[op[o].name].ProgressState = "working"

\* It stays with its plugin, touches no other entry, and keeps its own as above.
Own(o) ==
    /\ op[o] # Idle
    /\ op'[o] # Idle => op'[o].name = op[o].name
    /\ \A p \in Op \ {o} : op'[p] = op[p]
    /\ \A n \in Name \ {op[o].name} : state'[n] = state[n]
    /\ EntryOK(o) => EntryOK(o)'
    /\ EntryOK(o) /\ hub # "ended" => hub' # "ended"
    /\ mishaps \subseteq mishaps'

\* When only the step of an operation changes, or its end.
LEMMA OperationsType ==
    ASSUME IType, NEW o \in Op,
           op' \in [Op -> Operation \cup {Idle}],
           \A p \in Op \ {o} : op'[p] = op[p],
           OperationOK(o)'
    PROVE  \A p \in Op : OperationOK(p)'
BY DEF IType, OperationOK

LEMMA CloneKeeps ==
    ASSUME IType, NEW o \in Op, Clone(o)
    PROVE  IType' /\ Own(o)
<1>1. /\ op[o] # Idle /\ op[o] \in Operation /\ op[o].step = "clone"
      /\ op[o].url \in URL /\ op[o].name \in Name
  BY DEF Clone, At, IType, TypeOK, OperationOK, Operation
<1>2. CASE UNCHANGED disk /\ Continue(o, "finish")
  <2>1. "finish" \in Step
    BY DEF Step
  <2>2. /\ op' \in [Op -> Operation \cup {Idle}]
        /\ op'[o] # Idle /\ op'[o].name = op[o].name /\ op'[o].step = "finish"
        /\ \A p \in Op \ {o} : op'[p] = op[p]
    BY <1>1, <1>2, <2>1, ContinueType DEF IType
  <2>3. OperationOK(o)'
    BY <2>2 DEF OperationOK
  <2>4. \A p \in Op : OperationOK(p)'
    BY <2>2, <2>3, OperationsType
  <2> QED
    BY <1>1, <1>2, <2>2, <2>4 DEF Clone, IType, TypeOK, RepoOK, Own, EntryOK, Ending
<1>3. ASSUME NEW m \in Manifests[op[o].url], NEW readable \in BOOLEAN, NEW repo,
             repo = [url |-> op[o].url, module |-> m, behind |-> FALSE, readable |-> readable],
             disk' = [disk EXCEPT ![op[o].name] = repo],
             \/ Continue(o, "finish")
             \/ readable /\ op' = [op EXCEPT ![o].step = "enter", ![o].entry = EntryOf(repo)]
      PROVE  IType' /\ Own(o)
  <2>1. m \in Module \cup {NoModule}
    BY <1>1, <1>3, PluginManagerAssumption
  <2>2. /\ repo \in Repo /\ repo.behind = FALSE /\ repo.readable = readable /\ repo # NoRepo
        /\ repo.url = op[o].url /\ repo.module = m
    BY <1>1, <1>3, <2>1, RepoType
  <2>3. EntryOf(repo) \in Entry /\ (readable => EntryOf(repo) # NoEntry)
    BY <2>2, EntryOfType
  <2>4. "enter" \in Step /\ "finish" \in Step
    BY DEF Step
  <2>5. /\ op' \in [Op -> Operation \cup {Idle}]
        /\ op'[o] # Idle /\ op'[o].name = op[o].name
        /\ \/ op'[o].step = "finish"
           \/ op'[o].step = "enter" /\ op'[o].entry # NoEntry
        /\ \A p \in Op \ {o} : op'[p] = op[p]
    <3>1. TypeOK /\ op[o] # Idle /\ EntryOf(repo) \in Entry
      BY <1>1, <2>3 DEF IType
    <3>2. CASE Continue(o, "finish")
      BY <2>4, <3>1, <3>2, ContinueType
    <3>3. CASE readable /\ op' = [op EXCEPT ![o].step = "enter", ![o].entry = EntryOf(repo)]
      <4> DEFINE entry == EntryOf(repo)
      <4>1. /\ "enter" \in Step /\ entry \in Entry /\ entry # NoEntry
            /\ op' = [op EXCEPT ![o].step = "enter", ![o].entry = entry]
        BY <2>3, <2>4, <3>3
      <4> HIDE DEF entry
      <4>2. /\ op' \in [Op -> Operation \cup {Idle}]
            /\ op'[o] # Idle /\ op'[o].name = op[o].name
            /\ op'[o].step = "enter" /\ op'[o].entry = entry
            /\ \A p \in Op \ {o} : op'[p] = op[p]
        BY <3>1, <4>1, TakeType
      <4> QED
        BY <4>1, <4>2
    <3> QED
      BY <1>3, <3>2, <3>3
  <2>6. \A p \in Op : OperationOK(p)'
    <3>1. OperationOK(o)'
      BY <2>3, <2>5 DEF OperationOK
    <3> QED
      BY <2>5, <3>1, OperationsType
  <2>7. disk' \in [Name -> Repo \cup {NoRepo}] /\ \A n \in Name : RepoOK(n)'
    BY <1>1, <1>3, <2>2 DEF IType, TypeOK, RepoOK
  <2>8. IType'
    BY <2>5, <2>6, <2>7 DEF Clone, IType, TypeOK
  <2> QED
    BY <1>1, <2>5, <2>8 DEF Clone, Own, EntryOK, Ending
<1> QED
  BY <1>2, <1>3 DEF Clone

LEMMA EnterKeeps ==
    ASSUME IType, NEW o \in Op, Enter(o)
    PROVE  IType' /\ Own(o)
<1>1. /\ op[o] # Idle /\ op[o] \in Operation /\ op[o].step = "enter"
      /\ op[o].name \in Name /\ op[o].entry \in PluginState
  BY DEF Enter, At, IType, TypeOK, OperationOK, Operation
<1>2. /\ state' \in [Name -> Entry]
      /\ modules' \subseteq Module /\ unloaded' \subseteq Module
      /\ index' \subseteq Name \X Module /\ stale' \in BOOLEAN
      /\ state'[op[o].name] = op[o].entry
      /\ \A n \in Name \ {op[o].name} : state'[n] = state[n]
  BY <1>1, LoadType DEF Enter, IType
<1>3. "finish" \in Step
  BY DEF Step
<1>4. /\ op' \in [Op -> Operation \cup {Idle}]
      /\ op'[o] # Idle /\ op'[o].name = op[o].name /\ op'[o].step = "finish"
      /\ \A p \in Op \ {o} : op'[p] = op[p]
  BY <1>1, <1>3, ContinueType DEF Enter, IType
<1>5. \A p \in Op : OperationOK(p)'
  <2>1. OperationOK(o)'
    BY <1>4 DEF OperationOK
  <2> QED
    BY <1>4, <2>1, OperationsType
<1>6. IType'
  BY <1>2, <1>4, <1>5 DEF Enter, IType, TypeOK, RepoOK, Entry
<1>7. op[o].entry # NoEntry
  BY <1>1, PluginManagerAssumption
<1> QED
  BY <1>1, <1>2, <1>4, <1>6, <1>7 DEF Enter, Own, EntryOK, Ending

\* A step that goes on to another one, or ends the operation, changes nothing
\* else about operations.
Goes(o, step) ==
    /\ op' \in [Op -> Operation \cup {Idle}]
    /\ op'[o] # Idle /\ op'[o].name = op[o].name /\ op'[o].step = step
    /\ \A p \in Op \ {o} : op'[p] = op[p]
    /\ \A p \in Op : OperationOK(p)'

Ends(o) ==
    /\ op' \in [Op -> Operation \cup {Idle}]
    /\ op'[o] = Idle
    /\ \A p \in Op \ {o} : op'[p] = op[p]
    /\ \A p \in Op : OperationOK(p)'

LEMMA ContinueGoes ==
    ASSUME IType, NEW o \in Op, op[o] # Idle, NEW step \in Step \ {"clone", "enter"},
           Continue(o, step)
    PROVE  Goes(o, step)
<1>1. /\ op' \in [Op -> Operation \cup {Idle}]
      /\ op'[o] # Idle /\ op'[o].name = op[o].name /\ op'[o].step = step
      /\ \A p \in Op \ {o} : op'[p] = op[p]
  BY ContinueType DEF IType
<1>2. OperationOK(o)'
  BY <1>1 DEF OperationOK
<1> QED
  BY <1>1, <1>2, OperationsType DEF Goes

LEMMA EndEnds ==
    ASSUME IType, NEW o \in Op, op[o] # Idle, End(o)
    PROVE  Ends(o)
<1>1. /\ op' \in [Op -> Operation \cup {Idle}]
      /\ op'[o] = Idle
      /\ \A p \in Op \ {o} : op'[p] = op[p]
  BY DEF End, IType, TypeOK
<1>2. OperationOK(o)'
  BY <1>1 DEF OperationOK
<1> QED
  BY <1>1, <1>2, OperationsType DEF Ends

\* What FinishWork leaves of the entries.
LEMMA FinishWorkType ==
    ASSUME IType, NEW n \in Name, NEW progress \in {"error", "success"}, FinishWork(n, progress)
    PROVE  /\ state' \in [Name -> Entry]
           /\ state[n] # NoEntry => state'[n] # NoEntry
           /\ \A m \in Name \ {n} : state'[m] = state[m]
<1>1. state \in [Name -> Entry]
  BY DEF IType, TypeOK, Entry
<1>2. CASE state[n] = NoEntry
  BY <1>1, <1>2 DEF FinishWork
<1>3. CASE state[n] # NoEntry
  <2>1. state' = WithProgress(n, progress) /\ progress \in Progress
    BY <1>3 DEF FinishWork, Progress
  <2> QED
    BY <1>3, <2>1, WithProgressType DEF IType
<1> QED
  BY <1>2, <1>3

LEMMA FinishInstallKeeps ==
    ASSUME IType, NEW o \in Op, FinishInstall(o)
    PROVE  IType' /\ Own(o)
<1>1. op[o] # Idle /\ op[o].name \in Name
  BY DEF FinishInstall, At, IType, TypeOK, Operation
<1>2. Ends(o)
  BY <1>1, EndEnds DEF FinishInstall
<1>3. /\ state' \in [Name -> Entry]
      /\ \A m \in Name \ {op[o].name} : state'[m] = state[m]
  <2>1. state \in [Name -> Entry]
    BY DEF IType, TypeOK, Entry
  <2>2. CASE state[op[o].name] = NoEntry
    BY <2>1, <2>2 DEF FinishInstall
  <2>3. CASE state[op[o].name] # NoEntry
    <3>1. state' = WithProgress(op[o].name, "success") /\ "success" \in Progress
      BY <2>3 DEF FinishInstall, Progress
    <3> QED
      BY <1>1, <2>3, <3>1, WithProgressType DEF IType
  <2> QED
    BY <2>2, <2>3
<1>4. /\ hub' \in {"running", "ended"}
      /\ state[op[o].name] # NoEntry => hub' = "running"
  BY DEF FinishInstall, CanLock
<1>5. IType'
  BY <1>2, <1>3, <1>4 DEF FinishInstall, IType, TypeOK, RepoOK, Entry, Ends
<1> QED
  BY <1>1, <1>2, <1>3, <1>4, <1>5 DEF FinishInstall, Ends, Own, EntryOK

LEMMA LeftType ==
    ASSUME NEW d \in Repo, NEW left \in Left(d)
    PROVE  left \in Repo /\ left.url = d.url /\ left.behind = d.behind
<1>1. PICK m \in {d.module, NoModule}, readable \in {d.readable, FALSE} :
        left = [d EXCEPT !.module = m, !.readable = readable]
  BY DEF Left
<1>2. m \in Module \cup {NoModule} /\ readable \in BOOLEAN
  BY DEF Repo
<1> QED
  BY <1>1, <1>2 DEF Repo

LEMMA DeleteKeeps ==
    ASSUME IType, NEW o \in Op, Delete(o)
    PROVE  IType' /\ Own(o)
<1>1. op[o] # Idle /\ op[o].name \in Name /\ op[o].step = "delete"
  BY DEF Delete, At, IType, TypeOK, Operation
<1>2. Goes(o, "forget")
  BY <1>1, ContinueGoes DEF Delete, Step
<1>3. disk' \in [Name -> Repo \cup {NoRepo}] /\ \A n \in Name : RepoOK(n)'
  <2>1. CASE disk' = [disk EXCEPT ![op[o].name] = NoRepo]
    BY <1>1, <2>1 DEF IType, TypeOK, RepoOK
  <2>2. ASSUME NEW left \in Left(disk[op[o].name]), disk[op[o].name] # NoRepo,
               disk' = [disk EXCEPT ![op[o].name] = left]
        PROVE  disk' \in [Name -> Repo \cup {NoRepo}] /\ \A n \in Name : RepoOK(n)'
    <3>1. disk[op[o].name] \in Repo
      BY <1>1, <2>2 DEF IType, TypeOK
    <3>2. left \in Repo /\ left.url = disk[op[o].name].url /\ left.behind = disk[op[o].name].behind
      BY <3>1, LeftType
    <3> QED
      BY <1>1, <2>2, <3>2 DEF IType, TypeOK, RepoOK
  <2> QED
    BY <2>1, <2>2 DEF Delete
<1>4. IType'
  BY <1>2, <1>3 DEF Delete, IType, TypeOK, Goes
<1> QED
  BY <1>1, <1>2, <1>4 DEF Delete, Own, EntryOK, Ending, Goes

LEMMA ForgetKeeps ==
    ASSUME IType, NEW o \in Op, Forget(o)
    PROVE  IType' /\ Own(o)
<1>1. op[o] # Idle /\ op[o].name \in Name
  BY DEF Forget, At, IType, TypeOK, Operation
<1>2. Ends(o)
  BY <1>1, EndEnds DEF Forget
<1>3. /\ state' \in [Name -> Entry]
      /\ \A m \in Name \ {op[o].name} : state'[m] = state[m]
  BY <1>1 DEF Forget, With, IType, TypeOK, Entry
<1>4. index' \subseteq Name \X Module /\ stale' \in BOOLEAN
  BY <1>3, WriteIndexType DEF Forget
<1>5. IType'
  BY <1>2, <1>3, <1>4 DEF Forget, IType, TypeOK, RepoOK, Entry, Ends
<1> QED
  BY <1>1, <1>2, <1>3, <1>5 DEF Forget, Ends, Own, EntryOK

LEMMA UnloadKeeps ==
    ASSUME IType, NEW o \in Op, UnloadUnlocked(o)
    PROVE  IType' /\ Own(o)
<1>1. op[o] # Idle /\ op[o] \in Operation /\ op[o].name \in Name /\ op[o].step = "unload"
  BY DEF UnloadUnlocked, At, IType, TypeOK, Operation
<1> DEFINE idx == IndexOf(state)
           x == [op[o] EXCEPT !.step = "index", !.entry = NoEntry, !.index = idx]
<1>2. idx \in SUBSET (Name \X Module)
  BY IndexOfType DEF IType, TypeOK, Entry
<1>3. op' = [op EXCEPT ![o] = x]
  BY DEF UnloadUnlocked
<1> HIDE DEF idx
<1>4. x \in Operation /\ x.name = op[o].name /\ x.step = "index"
  BY <1>1, <1>2 DEF Operation, Step
<1>5. x # Idle
  BY <1>4, PluginManagerAssumption
<1> HIDE DEF x
<1>6. Goes(o, "index")
  <2>1. /\ op' \in [Op -> Operation \cup {Idle}]
        /\ op'[o] # Idle /\ op'[o].name = op[o].name /\ op'[o].step = "index"
        /\ \A p \in Op \ {o} : op'[p] = op[p]
    BY <1>3, <1>4, <1>5 DEF IType, TypeOK
  <2>2. OperationOK(o)'
    BY <2>1 DEF OperationOK
  <2> QED
    BY <2>1, <2>2, OperationsType DEF Goes
<1>7. modules' \subseteq Module /\ unloaded' \subseteq Module
  BY ModulesShownType DEF UnloadUnlocked, Unload, IType, TypeOK
<1>8. IType'
  BY <1>6, <1>7 DEF UnloadUnlocked, IType, TypeOK, RepoOK, Goes
<1> QED
  BY <1>1, <1>6, <1>8 DEF UnloadUnlocked, Own, EntryOK, Ending, Goes

LEMMA WriteIndexKeeps ==
    ASSUME IType, NEW o \in Op, WriteIndexUnlocked(o)
    PROVE  IType' /\ Own(o)
<1>1. op[o] # Idle /\ op[o].name \in Name /\ op[o].step = "index" /\ op[o].index \subseteq Name \X Module
  BY DEF WriteIndexUnlocked, At, IType, TypeOK, Operation
<1>2. Goes(o, "apply")
  BY <1>1, ContinueGoes DEF WriteIndexUnlocked, Step
<1>3. index' \subseteq Name \X Module /\ stale' \in BOOLEAN
  BY <1>1 DEF WriteIndexUnlocked, IType, TypeOK
<1>4. IType'
  BY <1>1, <1>2, <1>3 DEF WriteIndexUnlocked, IType, TypeOK, RepoOK, Goes
<1> QED
  BY <1>1, <1>2, <1>3, <1>4 DEF WriteIndexUnlocked, Own, EntryOK, Ending, Goes

LEMMA ResetKeeps ==
    ASSUME IType, NEW o \in Op, Reset(o)
    PROVE  IType' /\ Own(o)
<1>1. op[o] # Idle /\ op[o].name \in Name /\ op[o].step = "apply"
  BY DEF Reset, At, IType, TypeOK, Operation
<1>2. Goes(o, "error") \/ Goes(o, "read")
  BY <1>1, ContinueGoes DEF Reset, Step
<1>3. disk' \in [Name -> Repo \cup {NoRepo}] /\ \A n \in Name : RepoOK(n)'
  <2>1. CASE UNCHANGED disk
    BY <2>1 DEF IType, TypeOK, RepoOK
  <2>2. ASSUME NEW n \in Name, disk[n] # NoRepo, disk[n].behind,
               NEW m \in Manifests[disk[n].url], NEW readable \in BOOLEAN, NEW repo,
               repo = [url |-> disk[n].url, module |-> m, behind |-> FALSE, readable |-> readable],
               disk' = [disk EXCEPT ![n] = repo]
        PROVE  disk' \in [Name -> Repo \cup {NoRepo}] /\ \A p \in Name : RepoOK(p)'
    <3>1. disk[n].url \in URL
      BY <2>2 DEF IType, RepoOK
    <3>2. m \in Module \cup {NoModule}
      BY <2>2, <3>1, PluginManagerAssumption
    <3>3. repo \in Repo /\ repo.behind = FALSE /\ repo.url = disk[n].url /\ repo.module = m
      BY <2>2, <3>1, <3>2, RepoType
    <3> QED
      BY <2>2, <3>1, <3>2, <3>3 DEF IType, TypeOK, RepoOK
  <2> QED
    BY <1>1, <2>1, <2>2 DEF Reset
<1>4. IType'
  BY <1>2, <1>3 DEF Reset, IType, TypeOK, Goes
<1> QED
  BY <1>1, <1>2, <1>4 DEF Reset, Own, EntryOK, Ending, Goes

LEMMA ReportErrorKeeps ==
    ASSUME IType, NEW o \in Op, ReportError(o)
    PROVE  IType' /\ Own(o)
<1>1. op[o] # Idle /\ op[o].name \in Name
  BY DEF ReportError, At, IType, TypeOK, Operation
<1>2. Goes(o, "reread")
  BY <1>1, ContinueGoes DEF ReportError, Step
<1>3. /\ state' \in [Name -> Entry]
      /\ state[op[o].name] # NoEntry => state'[op[o].name] # NoEntry
      /\ \A m \in Name \ {op[o].name} : state'[m] = state[m]
  BY <1>1, FinishWorkType DEF ReportError
<1>4. IType'
  BY <1>2, <1>3 DEF ReportError, IType, TypeOK, RepoOK, Entry, Goes
<1> QED
  BY <1>1, <1>2, <1>3, <1>4 DEF ReportError, Own, EntryOK, Ending, Goes

LEMMA ReadAgainKeeps ==
    ASSUME IType, NEW o \in Op, ReadAgain(o)
    PROVE  IType' /\ Own(o)
<1>1. op[o] # Idle /\ op[o] \in Operation /\ op[o].name \in Name /\ op[o].step \in {"read", "reread"}
  BY DEF ReadAgain, At, IType, TypeOK, Operation
<1> DEFINE step == IF op[o].step = "read" THEN "replace" ELSE "rereplace"
<1>2. step \in Step
  BY DEF Step
<1>8. PICK entry \in {Read(op[o].name), NoEntry} :
        op' = [op EXCEPT ![o].entry = entry,
                         ![o].step = IF @ = "read" THEN "replace" ELSE "rereplace"]
  BY DEF ReadAgain
<1>3. entry \in Entry
  BY <1>1, EntryOfType DEF Read, IType, TypeOK, Entry
<1>4. op' = [op EXCEPT ![o].step = step, ![o].entry = entry]
  <2>1. op' = [op EXCEPT ![o] = [op[o] EXCEPT !.entry = entry, !.step = step]]
    BY <1>1, <1>8 DEF IType, TypeOK, Operation
  <2>2. [op[o] EXCEPT !.entry = entry, !.step = step] = [op[o] EXCEPT !.step = step, !.entry = entry]
    BY <1>1 DEF Operation
  <2> QED
    BY <2>1, <2>2 DEF IType, TypeOK
<1> HIDE DEF step
<1>5. /\ op' \in [Op -> Operation \cup {Idle}]
      /\ op'[o] # Idle /\ op'[o].name = op[o].name
      /\ op'[o].step = step /\ op'[o].entry = entry
      /\ \A p \in Op \ {o} : op'[p] = op[p]
  BY <1>1, <1>2, <1>3, <1>4, TakeType DEF IType
<1>6. \A p \in Op : OperationOK(p)'
  <2>1. OperationOK(o)'
    BY <1>5 DEF OperationOK, step
  <2> QED
    BY <1>5, <2>1, OperationsType
<1>7. IType'
  BY <1>5, <1>6 DEF ReadAgain, IType, TypeOK, RepoOK
<1> QED
  BY <1>1, <1>5, <1>7 DEF ReadAgain, Own, EntryOK, Ending, step

LEMMA ReplaceKeeps ==
    ASSUME IType, NEW o \in Op, Replace(o)
    PROVE  IType' /\ Own(o)
<1>1. /\ op[o] # Idle /\ op[o].name \in Name /\ op[o].entry \in Entry
      /\ op[o].step \in {"replace", "rereplace"}
  BY DEF Replace, At, IType, TypeOK, Operation, Entry
<1>2. CASE op[o].entry = NoEntry
  <2>1. Ends(o)
    BY <1>1, <1>2, EndEnds DEF Replace
  <2>2. /\ state' \in [Name -> Entry]
        /\ \A m \in Name \ {op[o].name} : state'[m] = state[m]
    BY <1>1, <1>2, FinishWorkType DEF Replace
  <2>3. IType'
    BY <1>2, <2>1, <2>2 DEF Replace, IType, TypeOK, RepoOK, Entry, Ends
  <2> QED
    BY <1>1, <1>2, <2>1, <2>2, <2>3 DEF Replace, Own, EntryOK, Ends
<1>3. CASE op[o].entry # NoEntry
  <2>1. op[o].entry \in PluginState
    BY <1>1, <1>3 DEF Entry
  <2>2. Goes(o, "succeed")
    BY <1>1, <1>3, ContinueGoes DEF Replace, Step
  <2>3. /\ state' \in [Name -> Entry]
        /\ modules' \subseteq Module /\ unloaded' \subseteq Module
        /\ index' \subseteq Name \X Module /\ stale' \in BOOLEAN
        /\ state'[op[o].name] = op[o].entry
        /\ \A m \in Name \ {op[o].name} : state'[m] = state[m]
    BY <1>1, <1>3, <2>1, LoadType DEF Replace, IType
  <2>4. IType'
    BY <2>2, <2>3 DEF Replace, IType, TypeOK, RepoOK, Entry, Goes
  <2> QED
    BY <1>1, <1>3, <2>2, <2>3, <2>4 DEF Replace, Own, EntryOK, Ending, Goes
<1> QED
  BY <1>2, <1>3

LEMMA SucceedKeeps ==
    ASSUME IType, NEW o \in Op, Succeed(o)
    PROVE  IType' /\ Own(o)
<1>1. op[o] # Idle /\ op[o].name \in Name
  BY DEF Succeed, At, IType, TypeOK, Operation
<1>2. Ends(o)
  BY <1>1, EndEnds DEF Succeed
<1>3. /\ state' \in [Name -> Entry]
      /\ \A m \in Name \ {op[o].name} : state'[m] = state[m]
  BY <1>1, FinishWorkType DEF Succeed
<1>4. IType'
  BY <1>2, <1>3 DEF Succeed, IType, TypeOK, RepoOK, Entry, Ends
<1> QED
  BY <1>1, <1>2, <1>3, <1>4 DEF Succeed, Own, EntryOK, Ends

LEMMA BeginFetchKeeps ==
    ASSUME IType, NEW o \in Op, BeginFetch(o)
    PROVE  IType' /\ Own(o)
<1>1. op[o] # Idle /\ op[o].name \in Name /\ op[o].step = "wait"
  BY DEF BeginFetch, At, IType, TypeOK, Operation
<1>2. CASE state[op[o].name] = NoEntry
  <2>1. Ends(o)
    BY <1>1, <1>2, EndEnds DEF BeginFetch
  <2>2. IType'
    BY <1>2, <2>1 DEF BeginFetch, IType, TypeOK, RepoOK, Ends
  <2> QED
    BY <1>1, <1>2, <2>1, <2>2 DEF BeginFetch, Own, EntryOK, Ends
<1>3. CASE state[op[o].name] # NoEntry
  <2>1. Goes(o, "fetch")
    BY <1>1, <1>3, ContinueGoes DEF BeginFetch, Step
  <2>2. IType'
    BY <1>3, <2>1 DEF BeginFetch, IType, TypeOK, RepoOK, Goes
  <2> QED
    BY <1>1, <1>3, <2>1, <2>2 DEF BeginFetch, Own, EntryOK, Ending, Goes
<1> QED
  BY <1>2, <1>3

LEMMA FetchKeeps ==
    ASSUME IType, NEW o \in Op, Fetch(o)
    PROVE  IType' /\ Own(o)
<1>1. op[o] # Idle /\ op[o].name \in Name
  BY DEF Fetch, At, IType, TypeOK, Operation
<1>2. Ends(o)
  BY <1>1, EndEnds DEF Fetch
<1> DEFINE n == op[o].name
<1>5. disk' \in [Name -> Repo \cup {NoRepo}] /\ \A p \in Name : RepoOK(p)'
  <2>1. CASE UNCHANGED disk
    BY <2>1 DEF IType, TypeOK, RepoOK
  <2>2. CASE CanFetch(n) /\ disk' = [disk EXCEPT ![n].behind = TRUE]
    <3> DEFINE repo == [disk[n] EXCEPT !.behind = TRUE]
    <3>1. disk[n] \in Repo
      BY <1>1, <2>2, EntryOfType DEF CanFetch, Readable, Read, IType, TypeOK
    <3>2. repo \in Repo /\ repo.url \in URL
      BY <2>2, <3>1 DEF CanFetch, Repo
    <3>3. disk' = [disk EXCEPT ![n] = repo]
      BY <2>2
    <3> HIDE DEF repo
    <3> QED
      BY <1>1, <3>2, <3>3 DEF IType, TypeOK, RepoOK
  <2> QED
    BY <2>1, <2>2 DEF Fetch
<1>6. stale' \in BOOLEAN /\ unloaded' \subseteq Module
  <2>1. CanFetch(n) => ModulesOf({n}) \subseteq Module
    BY <1>1, ModulesOfType DEF CanFetch, IType, TypeOK
  <2> QED
    BY <2>1 DEF Fetch, IType, TypeOK
<1>3. CASE /\ CanFetch(n)
           /\ state' = With(n, [Read(n) EXCEPT !.ProgressState = "success"])
           /\ UNCHANGED hub
  <2>1. Read(n) \in PluginState
    BY <1>1, <1>3, EntryOfType DEF CanFetch, Readable, Read, Entry, IType, TypeOK
  <2> DEFINE entry == [Read(n) EXCEPT !.ProgressState = "success"]
  <2>6. entry \in PluginState
    BY <2>1, ProgressType, "success" \in Progress DEF Progress
  <2>7. state' = [state EXCEPT ![n] = entry]
    BY <1>3 DEF With
  <2> HIDE DEF entry
  <2>9. state' \in [Name -> Entry] /\ \A m \in Name \ {n} : state'[m] = state[m]
    BY <1>1, <2>6, <2>7 DEF IType, TypeOK, Entry
  <2>10. IType'
    BY <1>2, <1>3, <1>5, <1>6, <2>9 DEF Fetch, IType, TypeOK, Entry, Ends
  <2> QED
    BY <1>1, <1>2, <1>3, <2>9, <2>10 DEF Fetch, Own, EntryOK, Ends
<1>4. CASE IF state[n] = NoEntry
           THEN hub' = "ended" /\ UNCHANGED state
           ELSE state' = WithProgress(n, "error") /\ UNCHANGED hub
  <2>1. /\ state' \in [Name -> Entry]
        /\ \A m \in Name \ {n} : state'[m] = state[m]
    <3>1. CASE state[n] = NoEntry
      BY <1>4, <3>1 DEF IType, TypeOK, Entry
    <3>2. CASE state[n] # NoEntry
      BY <1>1, <1>4, <3>2, WithProgressType, "error" \in Progress DEF IType, Progress
    <3> QED
      BY <3>1, <3>2
  <2>2. IType'
    BY <1>2, <1>4, <1>5, <1>6, <2>1 DEF Fetch, IType, TypeOK, Entry, Ends
  <2> QED
    BY <1>1, <1>2, <1>4, <2>1, <2>2 DEF Fetch, Own, EntryOK, Ends
<1> QED
  BY <1>3, <1>4 DEF Fetch

LEMMA GoOnKeeps ==
    ASSUME IType, NEW o \in Op, GoOn(o)
    PROVE  IType' /\ Own(o)
BY CloneKeeps, EnterKeeps, FinishInstallKeeps, DeleteKeeps, ForgetKeeps, UnloadKeeps,
   WriteIndexKeeps, ResetKeeps, ReportErrorKeeps, ReadAgainKeeps, ReplaceKeeps, SucceedKeeps,
   BeginFetchKeeps, FetchKeeps
   DEF GoOn

-----------------------------------------------------------------------------
(***************************************************************************)
(* Beginning an operation.                                                 *)
(***************************************************************************)
\* The plugin is not being worked on, or a race is noted.
Begins(o, n) ==
    /\ op[o] = Idle /\ op'[o] # Idle /\ op'[o].name = n
    /\ \A p \in Op \ {o} : op'[p] = op[p]
    /\ \A m \in Name \ {n} : state'[m] = state[m]
    /\ EntryOK(o)'
    /\ state[n] # NoEntry => state[n].ProgressState # "working"
    /\ NoRace' => NoRace /\ GivenUp(n) = {}
    /\ hub = "running" /\ hub' = "running"

LEMMA OvertakingNotes ==
    ASSUME mishaps \subseteq {"overtaken", "reread"}, NEW n \in Name,
           mishaps' = mishaps \cup Overtaking({n})
    PROVE  /\ mishaps' \subseteq {"overtaken", "reread"}
           /\ NoRace' => NoRace /\ GivenUp(n) = {}
BY DEF Overtaking, If, NoRace

LEMMA InstallKeeps ==
    ASSUME IType, NEW o \in Op, NEW url \in URL, Install(o, url)
    PROVE  /\ IType'
           /\ \/ Begins(o, BaseName[url])
              \/ hub' = "spinning" /\ UNCHANGED <<state, op>> /\ (NoRace' => NoRace)
<1> DEFINE n == BaseName[url]
           x == Begin("clone", n, url, NoEntry)
<1>1. n \in Name
  BY PluginManagerAssumption
<1>2. mishaps' \subseteq {"overtaken", "reread"} /\ (NoRace' => NoRace /\ GivenUp(n) = {})
  BY <1>1, OvertakingNotes DEF Install, IType, TypeOK
<1>3. CASE state[n] # NoEntry
  <2>1. hub' = "spinning" /\ UNCHANGED <<state, op>>
    BY <1>3 DEF Install
  <2>2. IType'
    BY <1>2, <2>1 DEF Install, IType, TypeOK, OperationOK, RepoOK
  <2> QED
    BY <1>2, <2>1, <2>2
<1>4. CASE state[n] = NoEntry
  <2>1. /\ state' = [state EXCEPT ![n] = Installing]
        /\ op' = [op EXCEPT ![o] = x]
        /\ hub' = "running" /\ hub = "running" /\ op[o] = Idle
    BY <1>4 DEF Install, CanLock, With
  <2>2. Installing \in PluginState /\ Installing # NoEntry /\ Installing.ProgressState = "working"
    <3>1. Installing \in PluginState
      BY DEF Installing, PluginState
    <3> QED
      BY <3>1, PluginManagerAssumption DEF Installing
  <2>3. x \in Operation /\ x # Idle /\ x.name = n /\ x.step = "clone" /\ x.url = url
    <3>1. "clone" \in Step /\ NoEntry \in Entry
      BY DEF Step, Entry
    <3>2. x \in Operation /\ x # Idle
      BY <1>1, <3>1, BeginType
    <3> QED
      BY <3>2 DEF Begin
  <2> HIDE DEF x
  <2>4. /\ op' \in [Op -> Operation \cup {Idle}]
        /\ op'[o] = x /\ \A p \in Op \ {o} : op'[p] = op[p]
    BY <2>1, <2>3 DEF IType, TypeOK
  <2>5. /\ state' \in [Name -> Entry]
        /\ state'[n] = Installing /\ \A m \in Name \ {n} : state'[m] = state[m]
    BY <1>1, <2>1, <2>2 DEF IType, TypeOK, Entry
  <2>6. \A p \in Op : OperationOK(p)'
    BY <2>3, <2>4 DEF IType, OperationOK
  <2>7. IType'
    BY <1>2, <2>1, <2>4, <2>5, <2>6 DEF Install, IType, TypeOK, RepoOK, Entry
  <2>8. EntryOK(o)'
    BY <2>2, <2>3, <2>4, <2>5 DEF EntryOK
  <2>9. Begins(o, n)
    BY <1>2, <1>4, <2>1, <2>3, <2>4, <2>5, <2>8 DEF Begins
  <2> QED
    BY <2>7, <2>9
<1> QED
  BY <1>3, <1>4

\* Removing and updating begin alike.
LEMMA StartWorkKeeps ==
    ASSUME IType, NEW o \in Op, NEW n \in Name, NEW step \in Step \ {"clone", "enter"},
           NEW entry \in Entry,
           CanLock, op[o] = Idle, MayStart(n),
           state' = WithProgress(n, "working"),
           op' = [op EXCEPT ![o] = Begin(step, n, NoURL, entry)],
           mishaps' = mishaps \cup Overtaking({n}),
           modules' \subseteq Module, unloaded' \subseteq Module, UNCHANGED <<disk, hub, restarts>>,
           WriteIndex(state') \/ UNCHANGED <<index, stale>>
    PROVE  IType' /\ Begins(o, n)
<1> DEFINE x == Begin(step, n, NoURL, entry)
<1>1. x \in Operation /\ x # Idle /\ x.name = n /\ x.step = step
  <2>1. x \in Operation /\ x # Idle
    BY BeginType
  <2> QED
    BY <2>1 DEF Begin
<1>2. op' = [op EXCEPT ![o] = x]
  OBVIOUS
<1> HIDE DEF x
<1>3. /\ op' \in [Op -> Operation \cup {Idle}]
      /\ op'[o] = x /\ \A p \in Op \ {o} : op'[p] = op[p]
  BY <1>1, <1>2 DEF IType, TypeOK
<1>4. state[n] # NoEntry /\ state[n].ProgressState # "working"
  BY DEF MayStart
<1>5. /\ state' \in [Name -> Entry]
      /\ state'[n] # NoEntry /\ state'[n].ProgressState = "working"
      /\ \A m \in Name \ {n} : state'[m] = state[m]
  BY <1>4, WithProgressType, "working" \in Progress DEF IType, Progress
<1>6. mishaps' \subseteq {"overtaken", "reread"} /\ (NoRace' => NoRace /\ GivenUp(n) = {})
  BY OvertakingNotes DEF IType, TypeOK
<1>7. index' \subseteq Name \X Module /\ stale' \in BOOLEAN
  BY <1>5, WriteIndexType DEF IType, TypeOK
<1>8. \A p \in Op : OperationOK(p)'
  BY <1>1, <1>3 DEF IType, OperationOK
<1>9. IType'
  BY <1>3, <1>5, <1>6, <1>7, <1>8 DEF IType, TypeOK, RepoOK, Entry
<1>10. EntryOK(o)'
  BY <1>1, <1>3, <1>5 DEF EntryOK
<1> QED
  BY <1>1, <1>3, <1>4, <1>5, <1>6, <1>9, <1>10 DEF Begins, CanLock

LEMMA RemoveKeeps ==
    ASSUME IType, NEW o \in Op, NEW n \in Name, Remove(o, n)
    PROVE  IType' /\ Begins(o, n)
<1>1. "delete" \in Step \ {"clone", "enter"} /\ NoEntry \in Entry
  BY DEF Step, Entry
<1>2. modules' \subseteq Module /\ unloaded' \subseteq Module
  BY ModulesShownType DEF Remove, Unload, IType, TypeOK
<1> QED
  BY <1>1, <1>2, StartWorkKeeps DEF Remove

LEMMA ApplyUpdatesKeeps ==
    ASSUME IType, NEW o \in Op, NEW n \in Name, ApplyUpdates(o, n)
    PROVE  IType' /\ Begins(o, n)
<1>1. "unload" \in Step \ {"clone", "enter"} /\ state[n] \in Entry
  BY DEF Step, IType, TypeOK, Entry
<1>2. modules' \subseteq Module /\ unloaded' \subseteq Module
  BY DEF ApplyUpdates, IType, TypeOK
<1> QED
  BY <1>1, <1>2, StartWorkKeeps DEF ApplyUpdates

-----------------------------------------------------------------------------
(***************************************************************************)
(* Checking for updates.                                                   *)
(***************************************************************************)
LEMMA ReReadType ==
    ASSUME IType, NEW names \in SUBSET Manual, NEW read \in SUBSET Readable
    PROVE  /\ ReRead(names, read) \in [Name -> Entry]
           /\ \A n \in Name \ names : ReRead(names, read)[n] = state[n]
           /\ \A n \in names : ReRead(names, read)[n] # NoEntry
<1>1. state \in [Name -> Entry] /\ disk \in [Name -> Repo \cup {NoRepo}] /\ names \subseteq Name
  BY DEF IType, TypeOK, Entry, Manual
<1>2. ASSUME NEW n \in names
      PROVE  /\ [state[n] EXCEPT !.ProgressState = "error"] \in PluginState
             /\ [state[n] EXCEPT !.ProgressState = "error"] # NoEntry
  <2>1. state[n] \in PluginState
    BY <1>1 DEF Manual, Entry
  <2> QED
    BY <2>1, ProgressType, "error" \in Progress DEF Progress
<1>3. ASSUME NEW n \in read
      PROVE  Read(n) \in Entry /\ Read(n) # NoEntry
  BY <1>1, EntryOfType DEF Read, Readable
<1>4. ASSUME NEW n \in Name
      PROVE  /\ ReRead(names, read)[n] \in Entry
             /\ n \notin names => ReRead(names, read)[n] = state[n]
             /\ n \in names => ReRead(names, read)[n] # NoEntry
  <2>1. CASE n \in names /\ n \notin read
    <3>1. ReRead(names, read)[n] = [state[n] EXCEPT !.ProgressState = "error"]
      BY <2>1 DEF ReRead
    <3> QED
      BY <1>2, <2>1, <3>1 DEF Entry
  <2>2. CASE n \in names /\ n \in read
    <3>1. ReRead(names, read)[n] = Read(n)
      BY <2>2 DEF ReRead
    <3> QED
      BY <1>3, <2>2, <3>1
  <2>3. CASE n \notin names
    <3>1. ReRead(names, read)[n] = state[n]
      BY <2>3 DEF ReRead
    <3> QED
      BY <1>1, <2>3, <3>1
  <2> QED
    BY <2>1, <2>2, <2>3
<1>5. ReRead(names, read) = [n \in Name |-> ReRead(names, read)[n]]
  BY DEF ReRead
<1> QED
  BY <1>1, <1>4, <1>5

\* What a check does to entries and operations.
Checks ==
    /\ \A n \in Name \ (ToCheck \cup Manual) : state'[n] = state[n]
    /\ \A n \in Manual : state'[n] # NoEntry
    /\ \A n \in ToCheck : state'[n] # NoEntry /\ state'[n].ProgressState = "working"
    /\ \A o \in Op : \/ op'[o] = op[o]
                     \/ /\ op[o] = Idle /\ op'[o] # Idle /\ op'[o].name \in ToCheck
                        /\ op'[o].step = "wait" /\ op'[o].entry = NoEntry
    /\ \A n \in ToCheck : \E o \in Op : op'[o] # Idle /\ op'[o].name = n
    /\ \A o, p \in Op : /\ op[o] = Idle /\ op'[o] # Idle
                        /\ op[p] = Idle /\ op'[p] # Idle
                        /\ op'[o].name = op'[p].name
                        => o = p
    /\ NoRace' => /\ NoRace
                  /\ \A n \in ToCheck : GivenUp(n) = {}
                  /\ \A n \in Manual : AtWork(n) = {}
    /\ hub = "running" /\ hub' = "running"

LEMMA CheckKeeps ==
    ASSUME IType, Check
    PROVE  IType' /\ Checks
<1>1. state \in [Name -> Entry] /\ disk \in [Name -> Repo \cup {NoRepo}]
  BY DEF IType, TypeOK, Entry
<1>2. /\ Manual \subseteq Name /\ ToCheck \subseteq Name /\ Manual \cap ToCheck = {}
      /\ \A n \in ToCheck : state[n] # NoEntry
  BY DEF Manual, ToCheck, MayStart
<1>3. PICK slot \in Injection(ToCheck, {o \in Op : op[o] = Idle}) :
        op' = [o \in Op |-> IF o \in Range(slot)
                            THEN Begin("wait", CHOOSE n \in ToCheck : slot[n] = o, NoURL, NoEntry)
                            ELSE op[o]]
  BY DEF Check
<1>21. PICK read \in SUBSET (Manual \cap Readable) :
         /\ state' = [n \in Name |-> IF n \in ToCheck
                                     THEN [state[n] EXCEPT !.ProgressState = "working"]
                                     ELSE ReRead(Manual, read)[n]]
         /\ ReLoad(read)
         /\ \/ Manual = {} /\ UNCHANGED <<index, stale>>
            \/ index' \in IndexAfterReRead(read) /\ stale' = FALSE
            \/ Manual # {} /\ index' = {} /\ stale' = TRUE
  BY DEF Check
<1> DEFINE plugin(o) == CHOOSE n \in ToCheck : slot[n] = o
<1>4. \A o \in Range(slot) : /\ o \in Op /\ op[o] = Idle
                             /\ plugin(o) \in ToCheck /\ slot[plugin(o)] = o
  BY DEF Injection, Range
<1>5. op' = [o \in Op |-> IF o \in Range(slot) THEN Begin("wait", plugin(o), NoURL, NoEntry)
                                               ELSE op[o]]
  BY <1>3
<1> HIDE DEF plugin
<1>6. \A o \in Range(slot) :
        /\ op'[o] \in Operation /\ op'[o] # Idle
        /\ op'[o].name = plugin(o) /\ op'[o].step = "wait" /\ op'[o].entry = NoEntry
  <2> SUFFICES ASSUME NEW o \in Range(slot)
               PROVE  /\ op'[o] \in Operation /\ op'[o] # Idle
                      /\ op'[o].name = plugin(o) /\ op'[o].step = "wait" /\ op'[o].entry = NoEntry
    OBVIOUS
  <2>1. op'[o] = Begin("wait", plugin(o), NoURL, NoEntry)
    BY <1>4, <1>5
  <2>2. "wait" \in Step /\ NoEntry \in Entry /\ plugin(o) \in Name
    BY <1>2, <1>4 DEF Step, Entry
  <2>3. op'[o] \in Operation /\ op'[o] # Idle
    BY <2>1, <2>2, BeginType
  <2> QED
    BY <2>1, <2>3 DEF Begin
<1>7. \A o \in Op \ Range(slot) : op'[o] = op[o]
  BY <1>5
<1>8. op' \in [Op -> Operation \cup {Idle}] /\ \A o \in Op : OperationOK(o)'
  <2>1. \A o \in Op : op'[o] \in Operation \cup {Idle}
    BY <1>6, <1>7 DEF IType, TypeOK
  <2>2. \A o \in Op : OperationOK(o)'
    BY <1>6, <1>7 DEF IType, OperationOK
  <2> QED
    BY <1>5, <2>1, <2>2
<1>9. ASSUME NEW n \in ToCheck
      PROVE  /\ state'[n] \in PluginState /\ state'[n] # NoEntry
             /\ state'[n].ProgressState = "working"
  <2>1. state[n] \in PluginState
    BY <1>1, <1>2 DEF Entry
  <2>2. state'[n] = [state[n] EXCEPT !.ProgressState = "working"]
    BY <1>2, <1>21
  <2> QED
    BY <2>1, <2>2, ProgressType, "working" \in Progress DEF Progress
<1>10. \A n \in Name \ ToCheck : state'[n] = ReRead(Manual, read)[n]
  BY <1>21
<1>11. /\ ReRead(Manual, read) \in [Name -> Entry]
       /\ \A n \in Name \ Manual : ReRead(Manual, read)[n] = state[n]
       /\ \A n \in Manual : ReRead(Manual, read)[n] # NoEntry
  BY ReReadType
<1>12. state' \in [Name -> Entry]
  <2>1. \A n \in Name : state'[n] \in Entry
    BY <1>9, <1>10, <1>11 DEF Entry
  <2>2. state' = [n \in Name |-> state'[n]]
    BY <1>21
  <2> QED
    BY <2>1, <2>2
<1>13. modules' \subseteq Module /\ unloaded' \subseteq Module
  <2>1. ModulesOf(read) \subseteq Module
    BY <1>1, ModulesOfType
  <2>2. ModulesShown(Manual) \subseteq Module
    BY ModulesShownType DEF IType
  <2> QED
    BY <1>21, <2>1, <2>2 DEF ReLoad, IType, TypeOK
<1>14. index' \subseteq Name \X Module /\ stale' \in BOOLEAN
  <2>1. CASE Manual = {} /\ UNCHANGED <<index, stale>>
    BY <2>1 DEF IType, TypeOK
  <2>2. ASSUME NEW names \in SUBSET Manual, index' = IndexOf(ReRead(names, read)), stale' = FALSE
        PROVE  index' \subseteq Name \X Module /\ stale' \in BOOLEAN
    BY <2>2, ReReadType, IndexOfType
  <2>3. CASE index' \in IndexAfterReRead(read) /\ stale' = FALSE
    BY <2>2, <2>3 DEF IndexAfterReRead
  <2> QED
    BY <1>21, <2>1, <2>3
<1>15. /\ mishaps' \subseteq {"overtaken", "reread"}
       /\ NoRace' => /\ NoRace
                     /\ \A n \in ToCheck : GivenUp(n) = {}
                     /\ \A n \in Manual : AtWork(n) = {}
  BY DEF Check, Overtaking, If, NoRace, IType, TypeOK
<1>16. IType'
  BY <1>8, <1>12, <1>13, <1>14, <1>15 DEF Check, IType, TypeOK, RepoOK, Entry
<1>17. \A o, p \in Op : /\ op[o] = Idle /\ op'[o] # Idle
                        /\ op[p] = Idle /\ op'[p] # Idle
                        /\ op'[o].name = op'[p].name
                        => o = p
  BY <1>4, <1>6, <1>7
<1>18. \A o \in Op : \/ op'[o] = op[o]
                     \/ /\ op[o] = Idle /\ op'[o] # Idle /\ op'[o].name \in ToCheck
                        /\ op'[o].step = "wait" /\ op'[o].entry = NoEntry
  BY <1>4, <1>6, <1>7
<1>20. ASSUME NEW n \in ToCheck
       PROVE  \E o \in Op : op'[o] # Idle /\ op'[o].name = n
  <2>1. slot[n] \in Range(slot) /\ \A p \in ToCheck : slot[p] = slot[n] => p = n
    BY DEF Injection, IsInjective, Range
  <2>2. plugin(slot[n]) = n
    BY <1>4, <2>1
  <2> QED
    BY <1>4, <1>6, <2>1, <2>2
<1>19. /\ \A n \in Name \ (ToCheck \cup Manual) : state'[n] = state[n]
       /\ \A n \in Manual : state'[n] # NoEntry
  BY <1>2, <1>10, <1>11
<1> QED
  BY <1>9, <1>15, <1>16, <1>17, <1>18, <1>19, <1>20 DEF Checks, Check, CanLock

-----------------------------------------------------------------------------
(***************************************************************************)
(* Starting the hub, and what the user does with directories.              *)
(***************************************************************************)
LEMMA StartType ==
    ASSUME disk \in [Name -> Repo \cup {NoRepo}], NEW st, NEW mods, NEW left, Start(st, mods, left)
    PROVE  st \in [Name -> Entry] /\ mods \subseteq Module /\ left \subseteq Module
<1>1. \A n \in Name : Read(n) \in Entry /\ NoEntry \in Entry
  BY EntryOfType DEF Read, Entry
<1>2. st \in [Name -> Entry]
  BY <1>1 DEF Start
<1>3. \A read \in SUBSET Readable : ModulesOf(read) \subseteq Module
  BY ModulesOfType
<1> QED
  BY <1>2, <1>3 DEF Start

LEMMA EditKeeps ==
    ASSUME IType, NEW n \in Name, EditManually(n)
    PROVE  IType'
<1>1. PICK m \in Manifests[n] : disk' = [disk EXCEPT ![n] = ManualRepo(m)]
  BY DEF EditManually
<1>2. m \in Module \cup {NoModule}
  BY PluginManagerAssumption
<1>3. ManualRepo(m) \in Repo /\ ManualRepo(m).behind = FALSE
  BY <1>2, RepoType DEF ManualRepo
<1>4. disk' \in [Name -> Repo \cup {NoRepo}] /\ \A p \in Name : RepoOK(p)'
  BY <1>1, <1>3 DEF IType, TypeOK, RepoOK
<1> QED
  BY <1>4 DEF EditManually, IType, TypeOK, OperationOK

-----------------------------------------------------------------------------
(***************************************************************************)
(* One operation at a time.                                                *)
(***************************************************************************)
Alone == \A o, p \in Op : op[o] # Idle /\ op[p] # Idle /\ op[o].name = op[p].name => o = p

IWork == NoRace => hub # "ended" /\ Alone /\ \A o \in Op : EntryOK(o)

IInv == IType /\ IWork

LEMMA InitInv ==
    ASSUME Init
    PROVE  IInv
<1>1. disk \in [Name -> Repo \cup {NoRepo}] /\ \A n \in Name : RepoOK(n)
  <2>1. \A m \in Module \cup {NoModule} :
           ManualRepo(m) \in Repo /\ ManualRepo(m).behind = FALSE
    BY RepoType DEF ManualRepo
  <2> QED
    BY <2>1 DEF Init, RepoOK
<1>2. state \in [Name -> Entry] /\ modules \subseteq Module /\ unloaded \subseteq Module
  BY <1>1, StartType DEF Init
<1>5. index \subseteq Name \X Module /\ stale \in BOOLEAN
  BY <1>2, IndexOfType DEF Init
<1>3. IType
  BY <1>1, <1>2, <1>5, PluginManagerAssumption DEF Init, IType, TypeOK, OperationOK, Entry
<1>4. IWork
  BY DEF Init, IWork, Alone, EntryOK
<1> QED
  BY <1>3, <1>4 DEF IInv

LEMMA RestartKeeps ==
    ASSUME IType, Restart
    PROVE  IInv'
<1>1. state' \in [Name -> Entry] /\ modules' \subseteq Module /\ unloaded' \subseteq Module
  BY StartType DEF Restart, IType, TypeOK
<1>5. index' \subseteq Name \X Module /\ stale' \in BOOLEAN
  BY <1>1, WriteIndexType DEF Restart
<1>2. op' = [o \in Op |-> Idle] /\ restarts' \in 0..MaxRestarts
  BY PluginManagerAssumption DEF Restart, IType, TypeOK
<1>3. IType'
  BY <1>1, <1>2, <1>5 DEF Restart, IType, TypeOK, OperationOK, RepoOK, Entry
<1>4. IWork'
  BY <1>2 DEF Restart, IWork, Alone, EntryOK
<1> QED
  BY <1>3, <1>4 DEF IInv

LEMMA OwnKeepsWork ==
    ASSUME IType, IWork, NEW o \in Op, Own(o)
    PROVE  IWork'
<1> SUFFICES ASSUME NoRace'
             PROVE  hub' # "ended" /\ Alone' /\ \A p \in Op : EntryOK(p)'
  BY DEF IWork
<1>1. hub # "ended" /\ Alone /\ \A p \in Op : EntryOK(p)
  BY DEF Own, NoRace, IWork
<1>2. \A p \in Op : op[p] # Idle => op[p].name \in Name
  BY DEF IType, TypeOK, Operation
<1>3. hub' # "ended" /\ EntryOK(o)'
  BY <1>1 DEF Own
<1>4. Alone'
  BY <1>1 DEF Own, Alone
<1>5. ASSUME NEW p \in Op \ {o}
      PROVE  EntryOK(p)'
  BY <1>1, <1>2, <1>5 DEF Own, Alone, EntryOK
<1> QED
  BY <1>3, <1>4, <1>5

LEMMA BeginsKeepsWork ==
    ASSUME IType, IWork, NEW o \in Op, NEW n \in Name, Begins(o, n)
    PROVE  IWork'
<1> SUFFICES ASSUME NoRace'
             PROVE  hub' # "ended" /\ Alone' /\ \A p \in Op : EntryOK(p)'
  BY DEF IWork
<1>1. Alone /\ \A p \in Op : EntryOK(p)
  BY DEF Begins, IWork
<1>2. \A p \in Op : op[p] # Idle => op[p].name \in Name
  BY DEF IType, TypeOK, Operation
<1>3. \A p \in Op : op[p] # Idle => op[p].name # n
  BY <1>1 DEF Begins, EntryOK, GivenUp, AtWork, Ending
<1>4. Alone'
  BY <1>1, <1>3 DEF Begins, Alone
<1>5. ASSUME NEW p \in Op \ {o}
      PROVE  EntryOK(p)'
  BY <1>1, <1>2, <1>3 DEF Begins, EntryOK
<1> QED
  BY <1>4, <1>5 DEF Begins

LEMMA ChecksApart ==
    ASSUME IType, IWork, Checks, NoRace', NEW p \in Op, op[p] # Idle
    PROVE  op[p].name \notin ToCheck /\ op[p].name \notin Manual
<1>1. EntryOK(p) /\ op[p].name \in Name
  BY DEF Checks, IWork, IType, TypeOK, Operation
<1>2. op[p].name \notin Manual
  BY DEF Checks, AtWork
<1>3. CASE op[p].step \in Ending
  BY <1>2, <1>3 DEF Checks, GivenUp, AtWork, Ending
<1>4. CASE op[p].step \notin Ending
  BY <1>1, <1>2, <1>4 DEF EntryOK, ToCheck, MayStart
<1> QED
  BY <1>2, <1>3, <1>4

LEMMA ChecksKeepsWork ==
    ASSUME IType, IWork, Checks
    PROVE  IWork'
<1> SUFFICES ASSUME NoRace'
             PROVE  hub' # "ended" /\ Alone' /\ \A o \in Op : EntryOK(o)'
  BY DEF IWork
<1>1. Alone /\ \A p \in Op : EntryOK(p)
  BY DEF Checks, IWork
<1>2. \A p \in Op : op[p] # Idle => op[p].name \in Name
  BY DEF IType, TypeOK, Operation
<1>3. \A p \in Op : op[p] # Idle => op[p].name \notin ToCheck \cup Manual
  BY ChecksApart
<1>4. Alone'
  <2> SUFFICES ASSUME NEW o \in Op, NEW p \in Op,
                      op'[o] # Idle, op'[p] # Idle, op'[o].name = op'[p].name
               PROVE  o = p
    BY DEF Alone
  <2>1. CASE op[o] = Idle /\ op[p] = Idle
    BY <2>1 DEF Checks
  <2>2. CASE op[o] # Idle /\ op[p] # Idle
    BY <1>1, <2>2 DEF Checks, Alone
  <2>3. CASE op[o] # Idle <=> op[p] = Idle
    BY <1>3, <2>3 DEF Checks
  <2> QED
    BY <2>1, <2>2, <2>3
<1>5. ASSUME NEW o \in Op
      PROVE  EntryOK(o)'
  <2>1. CASE op'[o] = op[o]
    BY <1>1, <1>2, <1>3, <2>1 DEF Checks, EntryOK
  <2>2. CASE op'[o] # Idle /\ op'[o].name \in ToCheck
    BY <2>2 DEF Checks, EntryOK
  <2> QED
    BY <2>1, <2>2 DEF Checks
<1> QED
  BY <1>4, <1>5 DEF Checks

LEMMA StepKeepsInv ==
    ASSUME IInv, [Next]_vars
    PROVE  IInv'
<1>1. ASSUME NEW o \in Op, GoOn(o)
      PROVE  IInv'
  BY <1>1, GoOnKeeps, OwnKeepsWork DEF IInv
<1>2. ASSUME NEW o \in Op, NEW url \in URL, Install(o, url)
      PROVE  IInv'
  <2>1. BaseName[url] \in Name
    BY PluginManagerAssumption
  <2>2. CASE Begins(o, BaseName[url])
    BY <1>2, <2>1, <2>2, InstallKeeps, BeginsKeepsWork DEF IInv
  <2>3. CASE hub' = "spinning" /\ UNCHANGED <<state, op>> /\ (NoRace' => NoRace)
    BY <1>2, <2>3, InstallKeeps DEF IInv, IWork, Alone, EntryOK
  <2> QED
    BY <1>2, <2>2, <2>3, InstallKeeps DEF IInv
<1>3. ASSUME NEW o \in Op, NEW n \in Name, Remove(o, n) \/ ApplyUpdates(o, n)
      PROVE  IInv'
  BY <1>3, RemoveKeeps, ApplyUpdatesKeeps, BeginsKeepsWork DEF IInv
<1>4. CASE Check
  BY <1>4, CheckKeeps, ChecksKeepsWork DEF IInv
<1>5. ASSUME NEW n \in Name, EditManually(n)
      PROVE  IInv'
  <2>1. IType'
    BY <1>5, EditKeeps DEF IInv
  <2>2. IWork'
    BY <1>5 DEF EditManually, IInv, IWork, NoRace, Alone, EntryOK
  <2> QED
    BY <2>1, <2>2 DEF IInv
<1>6. CASE Restart
  BY <1>6, RestartKeeps DEF IInv
<1>7. CASE UNCHANGED vars
  BY <1>7 DEF vars, IInv, IType, TypeOK, OperationOK, RepoOK, IWork, NoRace, Alone, EntryOK
<1> QED
  BY <1>1, <1>2, <1>3, <1>4, <1>5, <1>6, <1>7 DEF Next

LEMMA InvAlways == Spec => []IInv
BY InitInv, StepKeepsInv, PTL DEF Spec

-----------------------------------------------------------------------------
(***************************************************************************)
(* The index.  Whatever races there are, it is right while it is not       *)
(* known to be stale: each step writes it from the state that it leaves,   *)
(* or changes nothing that the index shows.                                *)
(***************************************************************************)
\* The index has the plugin's module, and nothing of a plugin that is not there.
Listed(n, s, idx) ==
    /\ s # NoEntry /\ s.ModuleDefinitionName # NoModule => <<n, s.ModuleDefinitionName>> \in idx
    /\ \A m \in Module : <<n, m>> \in idx => s # NoEntry

IIndex == ~stale => \A n \in Name : Listed(n, state[n], index)

LEMMA IndexOfListed ==
    ASSUME NEW st \in [Name -> Entry], NEW n \in Name
    PROVE  Listed(n, st[n], IndexOf(st))
<1>1. st[n] # NoEntry /\ st[n].ModuleDefinitionName # NoModule
          => <<n, st[n].ModuleDefinitionName>> \in IndexOf(st)
  BY DEF IndexOf
<1>2. ASSUME NEW m \in Module, <<n, m>> \in IndexOf(st)
      PROVE  st[n] # NoEntry
  BY <1>2 DEF IndexOf
<1> QED
  BY <1>1, <1>2 DEF Listed

\* An entry t that the index of s does for.
SameListing(s, t) ==
    \/ t = s
    \/ t # NoEntry /\ t.ModuleDefinitionName = NoModule
    \/ t # NoEntry /\ s # NoEntry /\ t.ModuleDefinitionName = s.ModuleDefinitionName

LEMMA ListedFrame ==
    ASSUME NEW n, NEW s, NEW t, NEW idx, Listed(n, s, idx), SameListing(s, t)
    PROVE  Listed(n, t, idx)
BY DEF Listed, SameListing

IndexKept ==
    \/ stale'
    \/ index' = IndexOf(state')
    \/ /\ UNCHANGED <<index, stale>>
       /\ \A n \in Name : SameListing(state[n], state'[n])

LEMMA IndexKeptServes ==
    ASSUME IType', IIndex, IndexKept
    PROVE  IIndex'
<1> SUFFICES ASSUME ~stale', NEW n \in Name
             PROVE  Listed(n, state'[n], index')
  BY DEF IIndex
<1>1. CASE index' = IndexOf(state')
  <2>1. state' \in [Name -> Entry]
    BY DEF IType, TypeOK, Entry
  <2> QED
    BY <1>1, <2>1, IndexOfListed
<1>2. CASE UNCHANGED <<index, stale>> /\ \A m \in Name : SameListing(state[m], state'[m])
  <2>1. Listed(n, state[n], index)
    BY <1>2 DEF IIndex
  <2> QED
    BY <1>2, <2>1, ListedFrame
<1> QED
  BY <1>1, <1>2 DEF IndexKept

LEMMA WriteIndexKept ==
    ASSUME WriteIndex(state')
    PROVE  IndexKept
BY DEF WriteIndex, IndexKept

LEMMA UnchangedKept ==
    ASSUME UNCHANGED <<state, index, stale>>
    PROVE  IndexKept
BY DEF IndexKept, SameListing

\* WithProgress changes nothing else of the entry.
LEMMA ProgressKeeps ==
    ASSUME state \in [Name -> Entry], NEW n \in Name, state[n] # NoEntry, NEW progress \in Progress,
           state' = WithProgress(n, progress)
    PROVE  /\ state'[n] # NoEntry /\ state'[n].ProgressState = progress
           /\ state'[n].RemoteURL = state[n].RemoteURL
           /\ state'[n].ModuleDefinitionName = state[n].ModuleDefinitionName
           /\ state'[n].IsManagedManually = state[n].IsManagedManually
<1> DEFINE e == [state[n] EXCEPT !.ProgressState = progress]
<1>1. state[n] \in PluginState
  BY DEF Entry
<1>2. e \in PluginState /\ e # NoEntry
  BY <1>1, ProgressType
<1>3. /\ e.ProgressState = progress
      /\ e.RemoteURL = state[n].RemoteURL
      /\ e.ModuleDefinitionName = state[n].ModuleDefinitionName
      /\ e.IsManagedManually = state[n].IsManagedManually
  BY <1>1 DEF PluginState
<1>4. state' = [state EXCEPT ![n] = e]
  BY DEF WithProgress, With
<1> HIDE DEF e
<1> QED
  BY <1>2, <1>3, <1>4

LEMMA ProgressKept ==
    ASSUME TypeOK, NEW n \in Name, NEW progress \in Progress,
           state' = state \/ (state[n] # NoEntry /\ state' = WithProgress(n, progress)),
           UNCHANGED <<index, stale>>
    PROVE  IndexKept
<1>1. CASE state' = state
  BY <1>1, UnchangedKept
<1>2. CASE state[n] # NoEntry /\ state' = WithProgress(n, progress)
  <2>1. state \in [Name -> Entry]
    BY DEF TypeOK, Entry
  <2>2. \A m \in Name \ {n} : state'[m] = state[m]
    BY <1>2, WithProgressType
  <2>3. state'[n] # NoEntry /\ state'[n].ModuleDefinitionName = state[n].ModuleDefinitionName
    BY <1>2, <2>1, ProgressKeeps
  <2>4. \A m \in Name : SameListing(state[m], state'[m])
    BY <1>2, <2>2, <2>3 DEF SameListing
  <2> QED
    BY <2>4 DEF IndexKept
<1> QED
  BY <1>1, <1>2

LEMMA LoadKept ==
    ASSUME TypeOK, NEW n \in Name, NEW entry \in PluginState, Load(n, entry)
    PROVE  IndexKept
<1>1. CASE entry.ModuleDefinitionName = NoModule
  <2>1. state'[n] = entry /\ \A m \in Name \ {n} : state'[m] = state[m]
    BY LoadType
  <2>2. entry # NoEntry
    BY PluginManagerAssumption
  <2>3. \A m \in Name : SameListing(state[m], state'[m])
    BY <1>1, <2>1, <2>2 DEF SameListing
  <2>4. UNCHANGED <<index, stale>>
    BY <1>1 DEF Load
  <2> QED
    BY <2>3, <2>4 DEF IndexKept
<1>2. CASE entry.ModuleDefinitionName # NoModule
  BY <1>2, WriteIndexKept DEF Load
<1> QED
  BY <1>1, <1>2

LEMMA FetchKept ==
    ASSUME IType, NEW o \in Op, Fetch(o)
    PROVE  IndexKept
<1> DEFINE n == op[o].name
<1>1. n \in Name /\ state \in [Name -> Entry] /\ UNCHANGED index
  BY DEF Fetch, At, IType, TypeOK, Operation, Entry
<1>2. CASE /\ state' = With(n, [Read(n) EXCEPT !.ProgressState = "success"])
           /\ CanFetch(n)
           /\ stale' = (stale \/ ~(IndexOf(state') \subseteq IndexOf(state)))
  <2> DEFINE s == [Read(n) EXCEPT !.ProgressState = "success"]
  <2>1. Read(n) \in PluginState
    BY <1>1, <1>2, EntryOfType DEF CanFetch, Readable, Read, Entry, IType, TypeOK
  <2>2. s # NoEntry
    BY <2>1, ProgressType DEF Progress
  <2>3. state' = [state EXCEPT ![n] = s]
    BY <1>2 DEF With
  <2> HIDE DEF s
  <2>4. state'[n] = s /\ \A m \in Name \ {n} : state'[m] = state[m]
    BY <1>1, <2>3
  <2>5. CASE IndexOf(state') \subseteq IndexOf(state)
    <3>1. UNCHANGED stale
      BY <1>2, <2>5 DEF IType, TypeOK
    <3>2. SameListing(state[n], s)
      <4>1. CASE s.ModuleDefinitionName # NoModule
        <5>1. <<n, s.ModuleDefinitionName>> \in IndexOf(state')
          BY <1>1, <2>2, <2>4, <4>1 DEF IndexOf
        <5>2. <<n, s.ModuleDefinitionName>> \in IndexOf(state)
          BY <2>5, <5>1
        <5>3. state[n] # NoEntry /\ state[n].ModuleDefinitionName = s.ModuleDefinitionName
          BY <5>2 DEF IndexOf
        <5> QED
          BY <2>2, <5>3 DEF SameListing
      <4>2. CASE s.ModuleDefinitionName = NoModule
        BY <2>2, <4>2 DEF SameListing
      <4> QED
        BY <4>1, <4>2
    <3>3. \A m \in Name : SameListing(state[m], state'[m])
      BY <2>4, <3>2 DEF SameListing
    <3> QED
      BY <1>1, <3>1, <3>3 DEF IndexKept
  <2>6. CASE ~(IndexOf(state') \subseteq IndexOf(state))
    BY <1>2, <2>6 DEF IndexKept
  <2> QED
    BY <2>5, <2>6
<1>3. CASE /\ \/ state' = state
              \/ state[n] # NoEntry /\ state' = WithProgress(n, "error")
           /\ UNCHANGED stale
  BY <1>1, <1>3, ProgressKept, "error" \in Progress DEF IType, Progress
<1> QED
  BY <1>2, <1>3 DEF Fetch

LEMMA FinishWorkKept ==
    ASSUME IType, NEW n \in Name, NEW progress \in {"error", "success"}, FinishWork(n, progress),
           UNCHANGED <<index, stale>>
    PROVE  IndexKept
<1>1. progress \in Progress
  BY DEF Progress
<1>2. state' = state \/ (state[n] # NoEntry /\ state' = WithProgress(n, progress))
  BY DEF FinishWork
<1> QED
  BY <1>1, <1>2, ProgressKept DEF IType

LEMMA GoOnKept ==
    ASSUME IType, NEW o \in Op, GoOn(o)
    PROVE  IndexKept
<1>1. op[o] # Idle => op[o].name \in Name /\ op[o].entry \in Entry
  BY DEF IType, TypeOK, Operation, Entry
<1>2. CASE Clone(o) \/ Delete(o) \/ UnloadUnlocked(o) \/ Reset(o) \/ ReadAgain(o) \/ BeginFetch(o)
  <2>1. UNCHANGED <<state, index, stale>>
    BY <1>2 DEF Clone, Delete, UnloadUnlocked, Reset, ReadAgain, BeginFetch
  <2> QED
    BY <2>1, UnchangedKept
<1>3. CASE Enter(o)
  <2>1. op[o].name \in Name /\ op[o].entry \in PluginState
    BY <1>1, <1>3 DEF Enter, At, IType, OperationOK, Entry
  <2> QED
    BY <1>3, <2>1, LoadKept DEF Enter, IType
<1>4. CASE FinishInstall(o)
  <2>1. op[o].name \in Name /\ UNCHANGED <<index, stale>>
    BY <1>1, <1>4 DEF FinishInstall, At
  <2>2. \/ state' = state
        \/ state[op[o].name] # NoEntry /\ state' = WithProgress(op[o].name, "success")
    BY <1>4 DEF FinishInstall
  <2> QED
    BY <2>1, <2>2, ProgressKept, "success" \in Progress DEF IType, Progress
<1>5. CASE Forget(o)
  BY <1>5, WriteIndexKept DEF Forget
<1>6. CASE WriteIndexUnlocked(o)
  <2>1. UNCHANGED state /\ (stale' \/ index' = IndexOf(state))
    BY <1>6 DEF WriteIndexUnlocked
  <2> QED
    BY <2>1 DEF IndexKept
<1>7. CASE ReportError(o)
  BY <1>1, <1>7, FinishWorkKept DEF ReportError, At
<1>8. CASE Replace(o)
  <2>1. CASE op[o].entry = NoEntry
    BY <1>1, <1>8, <2>1, FinishWorkKept DEF Replace, At
  <2>2. CASE op[o].entry # NoEntry
    <3>1. op[o].name \in Name /\ op[o].entry \in PluginState
      BY <1>1, <1>8, <2>2 DEF Replace, At, Entry
    <3> QED
      BY <1>8, <2>2, <3>1, LoadKept DEF Replace, IType
  <2> QED
    BY <2>1, <2>2
<1>9. CASE Succeed(o)
  BY <1>1, <1>9, FinishWorkKept DEF Succeed, At
<1> QED
  BY <1>2, <1>3, <1>4, <1>5, <1>6, <1>7, <1>8, <1>9, FetchKept DEF GoOn

LEMMA BeginKept ==
    ASSUME IType, NEW o \in Op,
           \/ \E url \in URL : Install(o, url)
           \/ \E n \in Name : Remove(o, n) \/ ApplyUpdates(o, n)
    PROVE  IndexKept
<1>1. ASSUME NEW url \in URL, Install(o, url)
      PROVE  IndexKept
  <2> DEFINE n == BaseName[url]
  <2>1. n \in Name /\ state \in [Name -> Entry] /\ UNCHANGED <<index, stale>>
    BY <1>1, PluginManagerAssumption DEF Install, IType, TypeOK, Entry
  <2>2. CASE state' = state
    BY <2>1, <2>2, UnchangedKept
  <2>3. CASE state' = With(n, Installing)
    <3>1. Installing # NoEntry /\ Installing.ModuleDefinitionName = NoModule
      <4>1. Installing \in PluginState
        BY DEF Installing, PluginState
      <4> QED
        BY <4>1, PluginManagerAssumption DEF Installing
    <3>2. state'[n] = Installing /\ \A m \in Name \ {n} : state'[m] = state[m]
      BY <2>1, <2>3 DEF With
    <3>3. \A m \in Name : SameListing(state[m], state'[m])
      BY <3>1, <3>2 DEF SameListing
    <3> QED
      BY <2>1, <3>3 DEF IndexKept
  <2> QED
    BY <1>1, <2>2, <2>3 DEF Install
<1>2. ASSUME NEW n \in Name, Remove(o, n)
      PROVE  IndexKept
  BY <1>2, WriteIndexKept DEF Remove
<1>3. ASSUME NEW n \in Name, ApplyUpdates(o, n)
      PROVE  IndexKept
  BY <1>3, ProgressKept, "working" \in Progress DEF ApplyUpdates, MayStart, IType, Progress
<1> QED
  BY <1>1, <1>2, <1>3

\* What a check has read of the plugins that are managed manually, and done with it.
Reads(read) ==
    /\ state' = [n \in Name |-> IF n \in ToCheck
                                THEN [state[n] EXCEPT !.ProgressState = "working"]
                                ELSE ReRead(Manual, read)[n]]
    /\ ReLoad(read)
    /\ \/ Manual = {} /\ UNCHANGED <<index, stale>>
       \/ index' \in IndexAfterReRead(read) /\ stale' = FALSE
       \/ Manual # {} /\ index' = {} /\ stale' = TRUE

LEMMA CheckReads ==
    ASSUME Check
    PROVE  \E read \in SUBSET (Manual \cap Readable) : Reads(read)
BY DEF Check, Reads

\* What a check does to the entry of a plugin.
LEMMA CheckEntries ==
    ASSUME IType, NEW read, Reads(read), NEW n \in Name
    PROVE  /\ n \in ToCheck => /\ state[n] # NoEntry /\ state'[n] # NoEntry
                               /\ state'[n].RemoteURL = state[n].RemoteURL
                               /\ state'[n].ModuleDefinitionName = state[n].ModuleDefinitionName
           /\ n \in Manual => /\ state[n] # NoEntry /\ n \notin ToCheck
                              /\ state'[n] = ReRead(Manual, read)[n]
           /\ n \notin ToCheck /\ n \notin Manual => state'[n] = state[n]
<1>1. state \in [Name -> Entry]
  BY DEF IType, TypeOK, Entry
<1>2. CASE n \in ToCheck
  <2>1. state[n] \in PluginState /\ state[n] # NoEntry /\ n \notin Manual
    BY <1>1, <1>2 DEF ToCheck, MayStart, Entry
  <2> DEFINE e == [state[n] EXCEPT !.ProgressState = "working"]
  <2>2. state'[n] = e
    BY <1>2 DEF Reads
  <2>3. e.RemoteURL = state[n].RemoteURL /\ e.ModuleDefinitionName = state[n].ModuleDefinitionName
    BY <2>1 DEF PluginState
  <2>4. e # NoEntry
    BY <2>1, ProgressType, "working" \in Progress DEF Progress
  <2> QED
    BY <1>2, <2>1, <2>2, <2>3, <2>4
<1>3. CASE n \in Manual
  BY <1>3 DEF Reads, Manual, ToCheck
<1>4. CASE n \notin ToCheck /\ n \notin Manual
  BY <1>4 DEF Reads, ReRead
<1> QED
  BY <1>2, <1>3, <1>4

\* What has been read again, or could not be read.
LEMMA ReReadFields ==
    ASSUME IType, NEW names \in SUBSET Manual, NEW read \in SUBSET Readable, NEW n \in Name
    PROVE  /\ n \notin names => ReRead(names, read)[n] = state[n]
           /\ n \in names /\ n \in read => ReRead(names, read)[n] = Read(n)
           /\ n \in names /\ n \notin read =>
                /\ ReRead(names, read)[n] # NoEntry /\ ReRead(names, read)[n].ProgressState = "error"
                /\ ReRead(names, read)[n].RemoteURL = state[n].RemoteURL
                /\ ReRead(names, read)[n].ModuleDefinitionName = state[n].ModuleDefinitionName
<1>1. CASE n \in names /\ n \notin read
  <2> DEFINE e == [state[n] EXCEPT !.ProgressState = "error"]
  <2>1. state[n] \in PluginState
    BY <1>1 DEF IType, TypeOK, Manual
  <2>2. ReRead(names, read)[n] = e
    BY <1>1 DEF ReRead
  <2>3. e # NoEntry /\ e.ProgressState = "error"
    BY <2>1, ProgressType, "error" \in Progress DEF Progress
  <2>4. e.RemoteURL = state[n].RemoteURL /\ e.ModuleDefinitionName = state[n].ModuleDefinitionName
    BY <2>1 DEF PluginState
  <2> QED
    BY <1>1, <2>2, <2>3, <2>4
<1>2. CASE ~(n \in names /\ n \notin read)
  BY <1>2 DEF ReRead
<1> QED
  BY <1>1, <1>2

LEMMA ReadFields ==
    ASSUME IType, NEW n \in Readable
    PROVE  /\ n \in Name /\ Read(n) \in PluginState /\ Read(n) # NoEntry
           /\ disk[n] \in Repo /\ disk[n] # NoRepo
           /\ Read(n).RemoteURL = disk[n].url
           /\ Read(n).ModuleDefinitionName = disk[n].module
<1>1. n \in Name /\ Read(n) # NoEntry
  BY DEF Readable
<1>2. disk[n] \in Repo /\ disk[n] # NoRepo /\ disk[n].readable /\ Read(n) \in PluginState
  BY <1>1, EntryOfType DEF Read, Entry, IType, TypeOK
<1> DEFINE s == Read(n)
<1>3. s = [RemoteURL |-> disk[n].url, IsManagedManually |-> disk[n].url = NoURL,
           ModuleDefinitionName |-> disk[n].module, ProgressState |-> ""]
  BY <1>2 DEF Read, EntryOf
<1> HIDE DEF s
<1>4. s.RemoteURL = disk[n].url /\ s.ModuleDefinitionName = disk[n].module
  BY <1>3, Zenon
<1> QED
  BY <1>1, <1>2, <1>4 DEF s

LEMMA CheckKeepsIndex ==
    ASSUME IType, IType', IIndex, Check
    PROVE  IIndex'
<1>1. PICK read \in SUBSET (Manual \cap Readable) : Reads(read)
  BY CheckReads
<1>2. CASE Manual = {} /\ UNCHANGED <<index, stale>>
  <2>1. \A n \in Name : SameListing(state[n], state'[n])
    BY <1>1, <1>2, CheckEntries DEF SameListing
  <2> QED
    BY <1>2, <2>1, IndexKeptServes DEF IndexKept
<1>3. ASSUME NEW k \in Manual, NEW names \in SUBSET Manual, index' = IndexOf(ReRead(names, read)),
             \/ names = Manual
             \/ names = Manual \ {k} /\ (k \notin read \/ disk[k].module = NoModule),
             NEW n \in Name
      PROVE  Listed(n, state'[n], index')
  <2>1. Listed(n, ReRead(names, read)[n], index')
    BY <1>3, ReReadType, IndexOfListed
  <2>2. SameListing(ReRead(names, read)[n], state'[n])
    <3>1. CASE n \in ToCheck
      <4>1. n \notin names
        BY <3>1 DEF ToCheck
      <4>2. ReRead(names, read)[n] = state[n]
        BY <4>1, ReReadFields
      <4> QED
        BY <1>1, <3>1, <4>2, CheckEntries DEF SameListing
    <3>2. CASE n \notin ToCheck /\ n \notin Manual
      BY <1>1, <3>2, CheckEntries, ReReadFields DEF SameListing
    <3>3. CASE n \in names
      BY <1>1, <3>3, CheckEntries, ReReadFields DEF SameListing, ReRead
    <3>4. CASE n \in Manual \ names
      <4>1. state'[n] = ReRead(Manual, read)[n] /\ ReRead(names, read)[n] = state[n] /\ state[n] # NoEntry
        BY <1>1, <3>4, CheckEntries, ReReadFields
      <4>2. n = k /\ (n \notin read \/ disk[n].module = NoModule)
        BY <1>3, <3>4
      <4>3. CASE n \notin read
        BY <3>4, <4>1, <4>3, ReReadFields DEF SameListing
      <4>4. CASE n \in read /\ disk[n].module = NoModule
        <5>1. n \in Readable /\ state'[n] = Read(n)
          BY <1>1, <3>4, <4>1, <4>4, ReReadFields
        <5> QED
          BY <4>4, <5>1, ReadFields DEF SameListing
      <4> QED
        BY <4>2, <4>3, <4>4
    <3> QED
      BY <3>1, <3>2, <3>3, <3>4
  <2> QED
    BY <2>1, <2>2, ListedFrame
<1>4. CASE index' \in IndexAfterReRead(read)
  <2>1. PICK k \in Manual :
          index' = IndexOf(ReRead(IF k \in read /\ disk[k].module # NoModule
                                  THEN Manual ELSE Manual \ {k}, read))
    BY <1>4 DEF IndexAfterReRead
  <2>2. \A n \in Name : Listed(n, state'[n], index')
    BY <1>3, <2>1
  <2> QED
    BY <2>2 DEF IIndex
<1>5. CASE stale' = TRUE
  BY <1>5 DEF IIndex
<1> QED
  BY <1>1, <1>2, <1>4, <1>5 DEF Reads

LEMMA InitIndex ==
    ASSUME Init
    PROVE  IIndex
<1>1. state \in [Name -> Entry]
  BY InitInv DEF IInv, IType, TypeOK, Entry
<1>2. index = IndexOf(state) \/ stale = TRUE
  BY DEF Init
<1> QED
  BY <1>1, <1>2, IndexOfListed DEF IIndex

LEMMA StepKeepsIndex ==
    ASSUME IType, IType', IIndex, [Next]_vars
    PROVE  IIndex'
<1>1. CASE \/ \E o \in Op : \/ GoOn(o)
                            \/ \E url \in URL : Install(o, url)
                            \/ \E n \in Name : Remove(o, n) \/ ApplyUpdates(o, n)
  <2>1. IndexKept
    BY <1>1, GoOnKept, BeginKept
  <2> QED
    BY <2>1, IndexKeptServes
<1>2. CASE \E n \in Name : EditManually(n)
  <2>1. IndexKept
    BY <1>2, UnchangedKept DEF EditManually
  <2> QED
    BY <2>1, IndexKeptServes
<1>3. CASE Restart
  <2>1. IndexKept
    BY <1>3, WriteIndexKept DEF Restart
  <2> QED
    BY <2>1, IndexKeptServes
<1>4. CASE UNCHANGED vars
  BY <1>4 DEF vars, IIndex
<1> QED
  BY <1>1, <1>2, <1>3, <1>4, CheckKeepsIndex DEF Next

LEMMA IndexAlways == Spec => []IIndex
<1>1. IInv => IType
  BY DEF IInv
<1>2. IInv /\ IInv' /\ IIndex /\ [Next]_vars => IIndex'
  BY StepKeepsIndex DEF IInv
<1> QED
  BY <1>1, <1>2, InitIndex, InvAlways, PTL DEF Spec

-----------------------------------------------------------------------------
(***************************************************************************)
(* What the directory, the entry and the operation at work on a plugin     *)
(* have to do with each other.  d is the directory, s the entry, x the     *)
(* operation, or Idle, and mu the modules that are loaded or left out.     *)
(***************************************************************************)
In(x, steps) == x # Idle /\ x.step \in steps

CloneOf(d, s) == d # NoRepo /\ d.url = s.RemoteURL

Taking == {"enter", "replace", "rereplace"}

\* An entry that names a repository has a clone of it, until it is to be forgotten,
\* and so has the entry that an operation is about to set.
Backed(d, s, x) ==
    /\ s # NoEntry /\ s.RemoteURL # NoURL => CloneOf(d, s) \/ In(x, {"forget"})
    /\ In(x, Taking) /\ x.entry # NoEntry => CloneOf(d, x.entry)

Known(s, mu) == s # NoEntry /\ s.ModuleDefinitionName \in mu \cup {NoModule}

Removing == {"delete", "forget"}
Updating == {"unload", "index", "apply", "error", "read", "replace"}
Rereading == {"reread", "rereplace"}
Checking == {"wait", "fetch"}

\* The module of an entry without an error is accounted for, but for the steps that
\* are about to change it.  What cannot be read becomes an error.
Loaded(s, x, mu) ==
    /\ s # NoEntry /\ s.ProgressState # "error" =>
                    \/ In(x, Removing \cup Updating \cup Checking)
                    \/ Known(s, mu)
    /\ In(x, Rereading) => s.ProgressState = "error"
    /\ In(x, {"finish", "succeed"}) => Known(s, mu)

Good(d, s, x, mu) == Backed(d, s, x) /\ Loaded(s, x, mu)

MU == modules \cup unloaded

Quiet(n) == \A o \in Op : op[o] # Idle => op[o].name # n

IPlugins == NoRace =>
    /\ \A o \in Op : op[o] # Idle => Good(disk[op[o].name], state[op[o].name], op[o], MU)
    /\ \A n \in Name : Quiet(n) => Good(disk[n], state[n], Idle, MU)

\* A plugin that nothing happens to stays as it is when others' modules come and go.
LEMMA GoodFrame ==
    ASSUME NEW d, NEW s, NEW x, NEW mu, NEW mu2, Good(d, s, x, mu),
           s # NoEntry /\ s.ModuleDefinitionName \in mu => s.ModuleDefinitionName \in mu2
    PROVE  Good(d, s, x, mu2)
<1>1. Known(s, mu) => Known(s, mu2)
  BY DEF Known
<1> QED
  BY <1>1 DEF Good, Loaded

\* The modules of other plugins than n that are accounted for stay so.
Others(n) == \A q \in Name \ {n} :
    state[q] # NoEntry /\ state[q].ModuleDefinitionName \in MU => state[q].ModuleDefinitionName \in MU'

LEMMA UnloadOthers ==
    ASSUME TypeOK, NEW n, NEW entry, Unload(n, entry)
    PROVE  Others(n)
<1> SUFFICES ASSUME NEW q \in Name \ {n}, NEW m \in MU, state[q] # NoEntry,
                    m = state[q].ModuleDefinitionName
             PROVE  m \in MU'
  BY DEF Others
<1>1. m # NoModule
  BY PluginManagerAssumption DEF MU, TypeOK
<1>2. <<q, m>> \in {j \in IndexOf(state) : j[1] \in Name \ {n}}
  BY <1>1 DEF IndexOf
<1>3. m \in ModulesShown(Name \ {n})
  BY <1>2 DEF ModulesShown
<1> QED
  BY <1>3 DEF Unload, MU

LEMMA SameModules ==
    ASSUME UNCHANGED <<modules, unloaded>>, NEW n
    PROVE  Others(n) /\ MU' = MU
BY DEF Others, MU

LEMMA LoadOthers ==
    ASSUME NEW n, NEW entry, Load(n, entry), NEW k
    PROVE  /\ Others(k)
           /\ entry.ModuleDefinitionName \in MU' \cup {NoModule}
<1>1. CASE entry.ModuleDefinitionName = NoModule
  BY <1>1, SameModules DEF Load
<1>2. CASE LoadFile(entry.ModuleDefinitionName)
  BY <1>2 DEF LoadFile, Others, MU
<1> QED
  BY <1>1, <1>2 DEF Load

\* What the step of an operation on plugin n does to the plugin, and to others.
Stays(o, n) ==
    /\ \A p \in Name \ {n} : disk'[p] = disk[p]
    /\ Others(n)
    /\ Good(disk'[n], state'[n], op'[o], MU')

\* Nothing else happens than one operation does, the only one at work on plugin n.
Alters(o, n) ==
    /\ NoRace
    /\ op[o] # Idle => op[o].name = n
    /\ op'[o] # Idle => op'[o].name = n
    /\ \A p \in Op \ {o} : op'[p] = op[p] /\ (op[p] # Idle => op[p].name # n)
    /\ \A q \in Name \ {n} : state'[q] = state[q]

LEMMA StaysKeeps ==
    ASSUME IInv, IInv', IPlugins, NEW o \in Op, NEW n \in Name,
           Alters(o, n), Stays(o, n)
    PROVE  IPlugins'
<1>1. /\ NoRace
      /\ op[o] # Idle => op[o].name = n
      /\ op'[o] # Idle => op'[o].name = n
      /\ \A p \in Op \ {o} : op'[p] = op[p]
      /\ \A q \in Name \ {n} : state'[q] = state[q] /\ disk'[q] = disk[q]
  BY DEF Alters, Stays
<1>2. \A p \in Op : op[p] # Idle => op[p].name \in Name
  BY DEF IInv, IType, TypeOK, Operation
<1>3. ASSUME NEW q \in Name \ {n}, NEW x, Good(disk[q], state[q], x, MU)
      PROVE  Good(disk'[q], state'[q], x, MU')
  <2>1. state[q] # NoEntry /\ state[q].ModuleDefinitionName \in MU
            => state[q].ModuleDefinitionName \in MU'
    BY DEF Stays, Others
  <2>2. Good(disk[q], state[q], x, MU')
    BY <1>3, <2>1, GoodFrame
  <2> QED
    BY <1>1, <2>2
<1>4. ASSUME NEW p \in Op, op'[p] # Idle
      PROVE  Good(disk'[op'[p].name], state'[op'[p].name], op'[p], MU')
  <2>1. CASE p = o
    BY <1>1, <1>4, <2>1 DEF Stays
  <2>2. CASE p # o
    <3>1. op'[p] = op[p] /\ op[p] # Idle /\ op[p].name \in Name \ {n}
      BY <1>1, <1>2, <1>4, <2>2 DEF Alters
    <3>2. Good(disk[op[p].name], state[op[p].name], op[p], MU)
      BY <1>1, <3>1 DEF IPlugins
    <3> QED
      BY <1>3, <3>1, <3>2
  <2> QED
    BY <2>1, <2>2
<1>5. ASSUME NEW q \in Name, \A p \in Op : op'[p] # Idle => op'[p].name # q
      PROVE  Good(disk'[q], state'[q], Idle, MU')
  <2>1. CASE q = n
    <3>1. op'[o] = Idle
      BY <1>1, <1>5, <2>1
    <3> QED
      BY <2>1, <3>1 DEF Stays
  <2>2. CASE q # n
    <3>1. Quiet(q)
      BY <1>1, <1>5, <2>2 DEF Quiet
    <3>2. Good(disk[q], state[q], Idle, MU)
      BY <1>1, <3>1 DEF IPlugins
    <3> QED
      BY <1>3, <2>2, <3>2
  <2> QED
    BY <2>1, <2>2
<1> QED
  BY <1>4, <1>5 DEF IPlugins, Quiet

-----------------------------------------------------------------------------
(***************************************************************************)
(* The steps of an operation, one by one.                                  *)
(***************************************************************************)
\* Operation o is at work on plugin n.
Works(o, n) ==
    /\ IInv /\ NoRace
    /\ op[o] # Idle /\ op[o].name = n
    /\ Good(disk[n], state[n], op[o], MU)

LEMMA WorksFacts ==
    ASSUME NEW o \in Op, NEW n \in Name, Works(o, n)
    PROVE  /\ op[o] \in Operation /\ op[o] # Idle /\ op[o].name = n
           /\ disk \in [Name -> Repo \cup {NoRepo}] /\ disk[n] \in Repo \cup {NoRepo}
           /\ state \in [Name -> Entry] /\ state[n] \in PluginState /\ state[n] # NoEntry
           /\ op[o].entry \in Entry
           /\ op[o].step \notin Ending => state[n].ProgressState = "working"
           /\ IType /\ TypeOK
           /\ Backed(disk[n], state[n], op[o])
           /\ Loaded(state[n], op[o], MU)
<1>1. IType /\ TypeOK /\ EntryOK(o)
  BY DEF Works, IInv, IType, IWork
<1>5. op[o].step \notin Ending => state[n].ProgressState = "working"
  BY <1>1 DEF Works, EntryOK
<1>2. op[o] \in Operation /\ state[n] # NoEntry
  BY <1>1 DEF Works, TypeOK, EntryOK
<1>3. state \in [Name -> Entry] /\ state[n] \in PluginState
  BY <1>1, <1>2 DEF TypeOK, Entry
<1>4. op[o].entry \in Entry
  BY <1>2 DEF Operation, Entry
<1> QED
  BY <1>1, <1>2, <1>3, <1>4, <1>5 DEF Works, Good, TypeOK

\* Going on to a step at which nothing is taken along and nothing new is promised.
LEMMA GoesOn ==
    ASSUME NEW o \in Op, NEW n \in Name, Works(o, n),
           NEW step \in Removing \cup Updating, Continue(o, step),
           \A p \in Name \ {n} : disk'[p] = disk[p], UNCHANGED state, Others(n),
           \/ step = "forget"
           \/ state[n].RemoteURL # NoURL => CloneOf(disk'[n], state[n])
    PROVE  Stays(o, n)
<1>1. op'[o] # Idle /\ op'[o].step = step /\ op'[o].entry = NoEntry
  BY WorksFacts, ContinueType DEF Step, Removing, Updating
<1>2. Backed(disk'[n], state[n], op'[o])
  BY <1>1 DEF Backed, In
<1>3. Loaded(state[n], op'[o], MU')
  BY <1>1 DEF Loaded, In, Removing, Updating, Rereading
<1> QED
  BY <1>2, <1>3 DEF Stays, Good

\* Until it is to be forgotten.
LEMMA HasClone ==
    ASSUME NEW o \in Op, NEW n \in Name, Works(o, n), op[o].step # "forget"
    PROVE  state[n].RemoteURL # NoURL => CloneOf(disk[n], state[n])
BY WorksFacts DEF Backed, In

LEMMA CloneStays ==
    ASSUME NEW o \in Op, NEW n \in Name, Works(o, n), Clone(o)
    PROVE  Stays(o, n)
<1>1. /\ op[o].step = "clone" /\ op[o].url \in URL
      /\ UNCHANGED <<state, modules, unloaded>>
  BY WorksFacts DEF Clone, At, IType, OperationOK
<1>2. Known(state[n], MU) /\ Others(n) /\ MU' = MU
  <2>1. state[n].ProgressState # "error"
    BY <1>1, WorksFacts DEF Ending
  <2> QED
    BY <1>1, <2>1, WorksFacts, SameModules DEF Loaded, In, Removing, Updating, Checking
<1>3. state[n].RemoteURL # NoURL => CloneOf(disk[n], state[n])
  BY <1>1, HasClone
<1>4. /\ \A p \in Name \ {n} : disk'[p] = disk[p]
      /\ state[n].RemoteURL # NoURL => CloneOf(disk'[n], state[n])
  <2>1. CASE UNCHANGED disk
    BY <1>3, <2>1
  <2>2. CASE disk[n] = NoRepo /\ \A p \in Name \ {n} : disk'[p] = disk[p]
    BY <1>3, <2>2 DEF CloneOf
  <2> QED
    BY <2>1, <2>2, WorksFacts DEF Clone
<1>5. CASE Continue(o, "finish")
  <2>1. op'[o] # Idle /\ op'[o].step = "finish"
    BY <1>5, WorksFacts, ContinueType DEF Step
  <2>2. Backed(disk'[n], state[n], op'[o])
    BY <1>4, <2>1 DEF Backed, In, Taking
  <2>3. Loaded(state[n], op'[o], MU')
    BY <1>2, <2>1 DEF Loaded, In, Rereading
  <2> QED
    BY <1>1, <1>2, <1>4, <2>2, <2>3 DEF Stays, Good
<1>6. ASSUME NEW m \in Manifests[op[o].url], NEW repo,
             repo = [url |-> op[o].url, module |-> m, behind |-> FALSE, readable |-> TRUE],
             disk' = [disk EXCEPT ![n] = repo],
             op' = [op EXCEPT ![o].step = "enter", ![o].entry = EntryOf(repo)]
      PROVE  Stays(o, n)
  <2>1. m \in Module \cup {NoModule}
    BY <1>1, PluginManagerAssumption
  <2>2. repo \in Repo /\ repo.readable /\ repo # NoRepo /\ repo.url = op[o].url
    BY <1>1, <1>6, <2>1, RepoType
  <2> DEFINE entry == EntryOf(repo)
  <2>3. entry \in Entry /\ entry # NoEntry
    BY <2>2, EntryOfType
  <2>4. entry.RemoteURL = op[o].url
    <3>1. entry = [RemoteURL |-> repo.url, IsManagedManually |-> repo.url = NoURL,
                   ModuleDefinitionName |-> repo.module, ProgressState |-> ""]
      BY <2>2 DEF EntryOf
    <3> HIDE DEF entry
    <3>2. entry.RemoteURL = repo.url
      BY <3>1, Zenon
    <3> QED
      BY <2>2, <3>2
  <2>5. op' = [op EXCEPT ![o].step = "enter", ![o].entry = entry]
    BY <1>6
  <2> HIDE DEF entry
  <2>6. op'[o] # Idle /\ op'[o].step = "enter" /\ op'[o].entry = entry
    BY <2>3, <2>5, WorksFacts, TakeType DEF Step
  <2>7. disk'[n] = repo
    BY <1>6, WorksFacts
  <2>8. Backed(disk'[n], state[n], op'[o])
    BY <1>4, <2>2, <2>4, <2>6, <2>7 DEF Backed, CloneOf, In
  <2>9. Loaded(state[n], op'[o], MU')
    BY <1>2, <2>6 DEF Loaded, In, Rereading
  <2> QED
    BY <1>1, <1>2, <1>4, <2>8, <2>9 DEF Stays, Good
<1> QED
  BY <1>5, <1>6, WorksFacts DEF Clone

\* Entering what has been read (Enter, and Replace when it has been read).
LEMMA LoadStays ==
    ASSUME NEW o \in Op, NEW n \in Name, Works(o, n),
           op[o].step \in Taking, op[o].entry # NoEntry, Load(n, op[o].entry),
           NEW step \in {"finish", "succeed"}, Continue(o, step), UNCHANGED disk
    PROVE  Stays(o, n)
<1>1. op'[o] # Idle /\ op'[o].step = step /\ op'[o].entry = NoEntry
  BY WorksFacts, ContinueType DEF Step
<1>2. op[o].entry \in PluginState
  BY WorksFacts DEF Entry
<1>3. state'[n] = op[o].entry
  BY <1>2, WorksFacts, LoadType
<1>4. Others(n) /\ Known(op[o].entry, MU')
  BY LoadOthers DEF Known
<1>5. Backed(disk[n], op[o].entry, op'[o])
  BY <1>1, WorksFacts DEF Backed, In, Taking
<1>6. Loaded(op[o].entry, op'[o], MU')
  BY <1>1, <1>4 DEF Loaded, In, Rereading
<1> QED
  BY <1>3, <1>4, <1>5, <1>6 DEF Stays, Good

LEMMA EnterStays ==
    ASSUME NEW o \in Op, NEW n \in Name, Works(o, n), Enter(o)
    PROVE  Stays(o, n)
<1>1. op[o].step = "enter" /\ op[o].entry # NoEntry
  BY WorksFacts DEF Enter, At, IType, OperationOK
<1> QED
  BY <1>1, WorksFacts, LoadStays DEF Enter, Taking

\* Ending with an entry that is known or shows an error, and else as it was.
LEMMA EndsWith ==
    ASSUME NEW o \in Op, NEW n \in Name, Works(o, n), op[o].step # "forget",
           NEW progress \in {"error", "success"}, state' = WithProgress(n, progress),
           End(o), UNCHANGED <<disk, modules, unloaded>>,
           progress = "error" \/ Known(state[n], MU)
    PROVE  Stays(o, n)
<1>1. op'[o] = Idle /\ Others(n) /\ MU' = MU
  BY WorksFacts, SameModules DEF End, TypeOK
<1>2. /\ state'[n] # NoEntry /\ state'[n].ProgressState = progress
      /\ state'[n].RemoteURL = state[n].RemoteURL
      /\ state'[n].ModuleDefinitionName = state[n].ModuleDefinitionName
  BY WorksFacts, ProgressKeeps DEF Progress
<1>3. Backed(disk[n], state'[n], Idle)
  BY <1>2, HasClone DEF Backed, CloneOf, In
<1>4. Loaded(state'[n], Idle, MU)
  BY <1>2 DEF Loaded, In, Known
<1> QED
  BY <1>1, <1>3, <1>4 DEF Stays, Good

LEMMA FinishInstallStays ==
    ASSUME NEW o \in Op, NEW n \in Name, Works(o, n), FinishInstall(o)
    PROVE  Stays(o, n)
<1>1. /\ op[o].step = "finish" /\ End(o) /\ state' = WithProgress(n, "success")
      /\ UNCHANGED <<disk, modules, unloaded>>
  BY WorksFacts DEF FinishInstall, At
<1>2. Known(state[n], MU)
  BY <1>1, WorksFacts DEF Loaded, In
<1> QED
  BY <1>1, <1>2, EndsWith

LEMMA DeleteStays ==
    ASSUME NEW o \in Op, NEW n \in Name, Works(o, n), Delete(o)
    PROVE  Stays(o, n)
<1>1. Continue(o, "forget") /\ UNCHANGED state /\ Others(n)
  BY SameModules DEF Delete
<1>2. \A p \in Name \ {n} : disk'[p] = disk[p]
  BY WorksFacts DEF Delete
<1> QED
  BY <1>1, <1>2, GoesOn DEF Removing

LEMMA ForgetStays ==
    ASSUME NEW o \in Op, NEW n \in Name, Works(o, n), Forget(o)
    PROVE  Stays(o, n)
<1>1. op'[o] = Idle /\ state'[n] = NoEntry /\ UNCHANGED disk /\ Others(n)
  BY WorksFacts, SameModules DEF Forget, End, With, TypeOK
<1>2. Good(disk[n], NoEntry, Idle, MU')
  BY DEF Good, Backed, Loaded, In
<1> QED
  BY <1>1, <1>2 DEF Stays

LEMMA UnloadStays ==
    ASSUME NEW o \in Op, NEW n \in Name, Works(o, n), UnloadUnlocked(o)
    PROVE  Stays(o, n)
<1> DEFINE x == [op[o] EXCEPT !.step = "index", !.entry = NoEntry, !.index = IndexOf(state)]
<1>1. /\ op[o].step = "unload" /\ Unload(n, op[o].entry)
      /\ op' = [op EXCEPT ![o] = x]
      /\ UNCHANGED <<disk, state>>
  BY WorksFacts DEF UnloadUnlocked, At
<1>2. x.step = "index" /\ x.entry = NoEntry /\ x # Idle
  <2>1. IndexOf(state) \in SUBSET (Name \X Module)
    BY WorksFacts, IndexOfType
  <2>2. op[o] \in Operation
    BY WorksFacts
  <2>3. x.step = "index" /\ x.entry = NoEntry /\ x \in Operation
    BY <2>1, <2>2 DEF Operation, Step
  <2> QED
    BY <2>3, PluginManagerAssumption
<1> HIDE DEF x
<1>3. op'[o] = x
  BY <1>1, WorksFacts DEF TypeOK
<1>4. Others(n)
  BY <1>1, WorksFacts, UnloadOthers
<1>5. Backed(disk[n], state[n], x)
  BY <1>1, <1>2, HasClone DEF Backed, In, Taking
<1>7. Loaded(state[n], x, MU')
  BY <1>2, <1>3 DEF Loaded, In, Updating, Rereading
<1> QED
  BY <1>1, <1>3, <1>4, <1>5, <1>7 DEF Stays, Good

LEMMA WriteIndexStays ==
    ASSUME NEW o \in Op, NEW n \in Name, Works(o, n), WriteIndexUnlocked(o)
    PROVE  Stays(o, n)
<1>1. /\ op[o].step = "index" /\ Continue(o, "apply")
      /\ UNCHANGED <<disk, state>> /\ Others(n)
  BY SameModules DEF WriteIndexUnlocked, At
<1> QED
  BY <1>1, HasClone, GoesOn DEF Updating

LEMMA ResetStays ==
    ASSUME NEW o \in Op, NEW n \in Name, Works(o, n), Reset(o)
    PROVE  Stays(o, n)
<1>1. op[o].step = "apply" /\ UNCHANGED state /\ Others(n)
  BY SameModules DEF Reset, At
<1>2. state[n].RemoteURL # NoURL => CloneOf(disk[n], state[n])
  BY <1>1, HasClone
<1>3. PICK step \in {"read", "error"} : Continue(o, step)
  BY DEF Reset
<1>4. /\ \A p \in Name \ {n} : disk'[p] = disk[p]
      /\ state[n].RemoteURL # NoURL => CloneOf(disk'[n], state[n])
  <2>1. CASE UNCHANGED disk
    BY <1>2, <2>1
  <2>2. ASSUME NEW m \in Manifests[disk[n].url], NEW readable \in BOOLEAN, NEW repo,
               disk[n] # NoRepo, disk[n].behind,
               repo = [url |-> disk[n].url, module |-> m, behind |-> FALSE, readable |-> readable],
               disk' = [disk EXCEPT ![n] = repo]
        PROVE  /\ \A p \in Name \ {n} : disk'[p] = disk[p]
               /\ state[n].RemoteURL # NoURL => CloneOf(disk'[n], state[n])
    <3>1. disk[n].url \in URL
      BY <2>2, WorksFacts DEF IType, RepoOK
    <3>2. m \in Module \cup {NoModule}
      BY <3>1, PluginManagerAssumption
    <3>3. repo # NoRepo /\ repo.url = disk[n].url
      BY <2>2, <3>1, <3>2, RepoType
    <3> QED
      BY <1>2, <2>2, <3>3, WorksFacts DEF CloneOf
  <2>3. CASE ~UNCHANGED disk
    <3>1. PICK m \in Manifests[disk[n].url], readable \in BOOLEAN :
            /\ disk[n] # NoRepo /\ disk[n].behind
            /\ disk' = [disk EXCEPT ![n] = [url |-> disk[n].url, module |-> m,
                                           behind |-> FALSE, readable |-> readable]]
      BY <2>3, WorksFacts DEF Reset
    <3> QED
      BY <2>2, <3>1
  <2> QED
    BY <2>1, <2>3
<1> QED
  BY <1>1, <1>3, <1>4, GoesOn DEF Updating

LEMMA ReportErrorStays ==
    ASSUME NEW o \in Op, NEW n \in Name, Works(o, n), ReportError(o)
    PROVE  Stays(o, n)
<1>1. /\ op[o].step = "error" /\ Continue(o, "reread") /\ state' = WithProgress(n, "error")
      /\ UNCHANGED disk /\ Others(n)
  BY WorksFacts, SameModules DEF ReportError, FinishWork, At
<1>2. op'[o] # Idle /\ op'[o].step = "reread"
  BY <1>1, WorksFacts, ContinueType DEF Step
<1>3. /\ state'[n] # NoEntry /\ state'[n].ProgressState = "error"
      /\ state'[n].RemoteURL = state[n].RemoteURL
  BY <1>1, WorksFacts, ProgressKeeps DEF Progress
<1>4. Backed(disk[n], state'[n], op'[o])
  BY <1>1, <1>2, <1>3, HasClone DEF Backed, CloneOf, In, Taking
<1>5. Loaded(state'[n], op'[o], MU')
  BY <1>2, <1>3 DEF Loaded, In
<1> QED
  BY <1>1, <1>4, <1>5 DEF Stays, Good

LEMMA ReadAgainStays ==
    ASSUME NEW o \in Op, NEW n \in Name, Works(o, n), ReadAgain(o)
    PROVE  Stays(o, n)
<1> DEFINE step == IF op[o].step = "read" THEN "replace" ELSE "rereplace"
<1>1. /\ op[o].step \in {"read", "reread"} /\ op[o] \in Operation
      /\ UNCHANGED <<disk, state>> /\ Others(n)
  BY WorksFacts, SameModules DEF ReadAgain, At
<1>2. PICK entry \in {Read(n), NoEntry} :
        op' = [op EXCEPT ![o].entry = entry,
                         ![o].step = IF @ = "read" THEN "replace" ELSE "rereplace"]
  BY WorksFacts DEF ReadAgain
<1>3. entry \in Entry
  BY WorksFacts, EntryOfType DEF Read, Entry
<1>4. op'[o] # Idle /\ op'[o].step = step /\ op'[o].entry = entry
  <2>1. op' = [op EXCEPT ![o] = [op[o] EXCEPT !.entry = entry, !.step = step]]
    BY <1>1, <1>2, WorksFacts DEF TypeOK, Operation
  <2>2. [op[o] EXCEPT !.entry = entry, !.step = step] = [op[o] EXCEPT !.step = step, !.entry = entry]
    BY <1>1 DEF Operation
  <2>3. step \in Step
    BY DEF Step
  <2> HIDE DEF step
  <2>4. op' = [op EXCEPT ![o].step = step, ![o].entry = entry]
    BY <2>1, <2>2, WorksFacts DEF TypeOK
  <2>5. TypeOK /\ op[o] # Idle
    BY WorksFacts
  <2>6. /\ op' \in [Op -> Operation \cup {Idle}]
        /\ op'[o] # Idle /\ op'[o].name = op[o].name
        /\ op'[o].step = step /\ op'[o].entry = entry
        /\ \A p \in Op \ {o} : op'[p] = op[p]
    BY <1>3, <2>3, <2>4, <2>5, TakeType
  <2> QED
    BY <2>6
<1>5. entry # NoEntry => CloneOf(disk[n], entry)
  <2>1. entry # NoEntry => n \in Readable /\ entry = Read(n)
    BY DEF Readable
  <2> QED
    BY <2>1, WorksFacts, ReadFields DEF CloneOf
<1>6. Backed(disk[n], state[n], op'[o])
  BY <1>1, <1>4, <1>5, HasClone DEF Backed, In
<1>7. Loaded(state[n], op'[o], MU')
  BY <1>1, <1>4, WorksFacts DEF Loaded, In, Updating, Rereading
<1> QED
  BY <1>1, <1>6, <1>7 DEF Stays, Good

LEMMA ReplaceStays ==
    ASSUME NEW o \in Op, NEW n \in Name, Works(o, n), Replace(o)
    PROVE  Stays(o, n)
<1>1. op[o].step \in {"replace", "rereplace"} /\ UNCHANGED disk
  BY DEF Replace, At
<1>2. CASE op[o].entry # NoEntry
  BY <1>1, <1>2, WorksFacts, LoadStays DEF Replace, Taking
<1>3. CASE op[o].entry = NoEntry
  <2>1. state' = WithProgress(n, "error") /\ End(o) /\ UNCHANGED <<modules, unloaded>>
    BY <1>3, WorksFacts DEF Replace, FinishWork
  <2> QED
    BY <1>1, <2>1, EndsWith
<1> QED
  BY <1>2, <1>3

LEMMA SucceedStays ==
    ASSUME NEW o \in Op, NEW n \in Name, Works(o, n), Succeed(o)
    PROVE  Stays(o, n)
<1>1. /\ op[o].step = "succeed" /\ End(o) /\ state' = WithProgress(n, "success")
      /\ UNCHANGED <<disk, modules, unloaded>>
  BY WorksFacts DEF Succeed, FinishWork, At
<1>2. Known(state[n], MU)
  BY <1>1, WorksFacts DEF Loaded, In
<1> QED
  BY <1>1, <1>2, EndsWith

LEMMA BeginFetchStays ==
    ASSUME NEW o \in Op, NEW n \in Name, Works(o, n), BeginFetch(o)
    PROVE  Stays(o, n)
<1>1. op[o].step = "wait" /\ Continue(o, "fetch") /\ UNCHANGED <<disk, state>> /\ Others(n)
  BY WorksFacts, SameModules DEF BeginFetch, At
<1>2. op'[o] # Idle /\ op'[o].step = "fetch"
  BY <1>1, WorksFacts, ContinueType DEF Step
<1>3. Backed(disk[n], state[n], op'[o])
  BY <1>1, <1>2, HasClone DEF Backed, In, Taking
<1>4. Loaded(state[n], op'[o], MU')
  BY <1>2 DEF Loaded, In, Checking, Rereading
<1> QED
  BY <1>1, <1>3, <1>4 DEF Stays, Good

LEMMA FetchStays ==
    ASSUME NEW o \in Op, NEW n \in Name, Works(o, n), Fetch(o)
    PROVE  Stays(o, n)
<1>1. op[o].step = "fetch" /\ op'[o] = Idle /\ UNCHANGED modules
  BY WorksFacts DEF Fetch, At, End, TypeOK
<1>2. /\ \A p \in Name \ {n} : disk'[p] = disk[p]
      /\ \/ disk'[n] = disk[n]
         \/ disk'[n] # NoRepo /\ disk'[n].url = disk[n].url
  <2>1. CASE UNCHANGED disk
    BY <2>1
  <2>2. CASE CanFetch(n) /\ disk' = [disk EXCEPT ![n].behind = TRUE]
    <3> DEFINE d == [disk[n] EXCEPT !.behind = TRUE]
    <3>1. disk[n] \in Repo
      BY <2>2, WorksFacts, ReadFields DEF CanFetch
    <3>2. d \in Repo /\ d.url = disk[n].url
      BY <3>1 DEF Repo
    <3>3. disk' = [disk EXCEPT ![n] = d]
      BY <2>2
    <3> HIDE DEF d
    <3> QED
      BY <3>2, <3>3, WorksFacts, PluginManagerAssumption
  <2> QED
    BY <2>1, <2>2, WorksFacts DEF Fetch
<1>3. CASE state' = WithProgress(n, "error") /\ UNCHANGED unloaded
  <2>1. /\ state'[n] # NoEntry /\ state'[n].ProgressState = "error"
        /\ state'[n].RemoteURL = state[n].RemoteURL
    BY <1>3, WorksFacts, ProgressKeeps DEF Progress
  <2>2. Backed(disk'[n], state'[n], Idle)
    <3>1. state[n].RemoteURL # NoURL => CloneOf(disk[n], state[n])
      BY <1>1, HasClone
    <3> QED
      BY <1>2, <2>1, <3>1 DEF Backed, CloneOf, In
  <2>3. Loaded(state'[n], Idle, MU')
    BY <2>1 DEF Loaded, In
  <2>4. Others(n)
    BY <1>1, <1>3, SameModules
  <2> QED
    BY <1>1, <1>2, <2>2, <2>3, <2>4 DEF Stays, Good
<1>4. CASE /\ CanFetch(n)
           /\ state' = With(n, [Read(n) EXCEPT !.ProgressState = "success"])
           /\ unloaded' = unloaded \cup (ModulesOf({n}) \ modules)
  <2> DEFINE s == [Read(n) EXCEPT !.ProgressState = "success"]
  <2>1. /\ Read(n) \in PluginState /\ disk[n] # NoRepo
        /\ Read(n).RemoteURL = disk[n].url /\ Read(n).ModuleDefinitionName = disk[n].module
    BY <1>4, WorksFacts, ReadFields DEF CanFetch
  <2>2. s # NoEntry /\ s.RemoteURL = disk[n].url /\ s.ModuleDefinitionName = disk[n].module
    <3>1. s # NoEntry
      BY <2>1, ProgressType DEF Progress
    <3>2. s.RemoteURL = Read(n).RemoteURL /\ s.ModuleDefinitionName = Read(n).ModuleDefinitionName
      BY <2>1 DEF PluginState
    <3> QED
      BY <2>1, <3>1, <3>2
  <2>3. state'[n] = s
    BY <1>4, WorksFacts DEF With
  <2> HIDE DEF s
  <2>4. Backed(disk'[n], s, Idle)
    BY <1>2, <2>1, <2>2 DEF Backed, CloneOf, In
  <2>5. Known(s, MU')
    <3>1. disk[n].module \in ModulesOf({n}) \cup {NoModule}
      BY DEF ModulesOf
    <3> QED
      BY <1>1, <1>4, <2>2, <3>1 DEF Known, MU
  <2>6. Loaded(s, Idle, MU')
    BY <2>5 DEF Loaded, In
  <2>7. Others(n)
    BY <1>1, <1>4 DEF Others, MU
  <2> QED
    BY <1>1, <1>2, <2>3, <2>4, <2>6, <2>7 DEF Stays, Good
<1>5. state[n] # NoEntry
  BY WorksFacts
<1> QED
  BY <1>3, <1>4, <1>5, WorksFacts DEF Fetch

LEMMA GoOnStays ==
    ASSUME NEW o \in Op, NEW n \in Name, Works(o, n), GoOn(o)
    PROVE  Stays(o, n)
BY CloneStays, EnterStays, FinishInstallStays, DeleteStays, ForgetStays, UnloadStays,
   WriteIndexStays, ResetStays, ReportErrorStays, ReadAgainStays, ReplaceStays, SucceedStays,
   BeginFetchStays, FetchStays
   DEF GoOn

LEMMA GoOnKeepsGood ==
    ASSUME IInv, IInv', IPlugins, NEW o \in Op, GoOn(o)
    PROVE  IPlugins'
<1> SUFFICES ASSUME NoRace'
             PROVE  IPlugins'
  BY DEF IPlugins
<1> DEFINE n == op[o].name
<1>1. Own(o)
  BY GoOnKeeps DEF IInv
<1>2. op[o] # Idle /\ NoRace /\ Alone
  BY <1>1 DEF Own, NoRace, IInv, IWork
<1>3. \A p \in Op : op[p] # Idle => op[p].name \in Name
  BY DEF IInv, IType, TypeOK, Operation
<1>4. Works(o, n)
  BY <1>2 DEF Works, IPlugins
<1>5. Stays(o, n)
  BY <1>2, <1>3, <1>4, GoOnStays
<1>6. Alters(o, n)
  BY <1>1, <1>2, <1>3 DEF Alters, Own, Alone
<1> QED
  BY <1>2, <1>3, <1>5, <1>6, StaysKeeps

-----------------------------------------------------------------------------
(***************************************************************************)
(* Operations begin, directories change, and the hub is started.           *)
(***************************************************************************)
\* Nothing is going on with a plugin when an operation on it begins.
LEMMA BeginsOnQuiet ==
    ASSUME IInv, IPlugins, NoRace', NEW o \in Op, NEW n \in Name, Begins(o, n)
    PROVE  /\ Alters(o, n)
           /\ Good(disk[n], state[n], Idle, MU)
<1>1. NoRace /\ \A p \in Op : EntryOK(p)
  BY DEF Begins, IInv, IWork
<1>2. \A p \in Op : op[p] # Idle => op[p].name # n
  BY <1>1 DEF Begins, EntryOK, GivenUp, AtWork, Ending
<1> QED
  BY <1>1, <1>2 DEF Begins, Alters, Quiet, IPlugins

LEMMA InstallKeepsGood ==
    ASSUME IInv, IInv', IPlugins, NEW o \in Op, NEW url \in URL, Install(o, url)
    PROVE  IPlugins'
<1> SUFFICES ASSUME NoRace'
             PROVE  IPlugins'
  BY DEF IPlugins
<1> DEFINE n == BaseName[url]
<1>1. n \in Name
  BY PluginManagerAssumption
<1>3. CASE hub' = "spinning" /\ UNCHANGED <<state, op>> /\ (NoRace' => NoRace)
  BY <1>3 DEF Install, IPlugins, Quiet, MU
<1>4. CASE Begins(o, n)
  <2> DEFINE x == Begin("clone", n, url, NoEntry)
  <2>3. /\ state' = With(n, Installing)
        /\ op' = [op EXCEPT ![o] = x]
        /\ UNCHANGED <<disk, modules, unloaded>>
    BY <1>4 DEF Install, Begins
  <2> HIDE DEF n
  <2>1. Alters(o, n)
    BY <1>1, <1>4, BeginsOnQuiet
  <2>4. x.step = "clone" /\ x.entry = NoEntry
    BY DEF Begin
  <2> HIDE DEF x
  <2>5. op'[o] = x /\ state'[n] = Installing
    BY <1>1, <2>3 DEF With, IInv, IType, TypeOK
  <2>6. /\ Installing.RemoteURL = NoURL /\ Installing.ModuleDefinitionName = NoModule
        /\ Installing # NoEntry
    <3>1. Installing \in PluginState
      BY DEF Installing, PluginState
    <3> QED
      BY <3>1, PluginManagerAssumption DEF Installing
  <2>7. Backed(disk[n], Installing, x)
    BY <2>4, <2>6 DEF Backed, In, Taking
  <2>8. Loaded(Installing, x, MU)
    BY <2>4, <2>6 DEF Loaded, Known, In, Rereading
  <2>10. Others(n) /\ MU' = MU
    BY <2>3, SameModules
  <2>9. Stays(o, n)
    BY <2>3, <2>5, <2>7, <2>8, <2>10 DEF Stays, Good
  <2> QED
    BY <1>1, <2>1, <2>9, StaysKeeps
<1> QED
  BY <1>3, <1>4, InstallKeeps DEF IInv

\* Removing and updating begin alike.
LEMMA StartWorkStays ==
    ASSUME IInv, IPlugins, NoRace', NEW o \in Op, NEW n \in Name, Begins(o, n),
           state[n] # NoEntry, state' = WithProgress(n, "working"), UNCHANGED disk,
           NEW step \in {"delete", "unload"}, NEW entry,
           op' = [op EXCEPT ![o] = Begin(step, n, NoURL, entry)],
           Others(n)
    PROVE  Alters(o, n) /\ Stays(o, n)
<1>2. Alters(o, n) /\ Good(disk[n], state[n], Idle, MU)
  BY BeginsOnQuiet
<1> DEFINE x == Begin(step, n, NoURL, entry)
<1>4. x.step = step
  BY DEF Begin
<1>5. op'[o] = x /\ x # Idle
  BY DEF Begins, IInv, IType, TypeOK
<1> HIDE DEF x
<1>6. state \in [Name -> Entry]
  BY DEF IInv, IType, TypeOK, Entry
<1>7. state'[n] # NoEntry /\ state'[n].RemoteURL = state[n].RemoteURL
  BY <1>6, ProgressKeeps, "working" \in Progress DEF Progress
<1>10. Backed(disk[n], state'[n], x)
  <2>1. state[n].RemoteURL # NoURL => CloneOf(disk[n], state[n])
    BY <1>2 DEF Good, Backed, In
  <2>2. ~In(x, Taking)
    BY <1>4 DEF In, Taking
  <2> QED
    BY <1>7, <2>1, <2>2 DEF Backed, CloneOf
<1>11. Loaded(state'[n], x, MU')
  BY <1>4, <1>5 DEF Loaded, In, Removing, Updating, Rereading
<1> QED
  BY <1>2, <1>5, <1>10, <1>11 DEF Stays, Good

LEMMA RemoveKeepsGood ==
    ASSUME IInv, IInv', IPlugins, NEW o \in Op, NEW n \in Name, Remove(o, n)
    PROVE  IPlugins'
<1> SUFFICES ASSUME NoRace'
             PROVE  IPlugins'
  BY DEF IPlugins
<1>1. Begins(o, n)
  BY RemoveKeeps DEF IInv
<1>2. Others(n)
  BY UnloadOthers DEF Remove, IInv, IType
<1>3. Alters(o, n) /\ Stays(o, n)
  BY <1>1, <1>2, StartWorkStays DEF Remove, MayStart
<1> QED
  BY <1>3, StaysKeeps

LEMMA ApplyUpdatesKeepsGood ==
    ASSUME IInv, IInv', IPlugins, NEW o \in Op, NEW n \in Name, ApplyUpdates(o, n)
    PROVE  IPlugins'
<1> SUFFICES ASSUME NoRace'
             PROVE  IPlugins'
  BY DEF IPlugins
<1>1. Begins(o, n)
  BY ApplyUpdatesKeeps DEF IInv
<1>2. Others(n)
  BY SameModules DEF ApplyUpdates
<1>3. Alters(o, n) /\ Stays(o, n)
  BY <1>1, <1>2, StartWorkStays DEF ApplyUpdates, MayStart
<1> QED
  BY <1>3, StaysKeeps

\* A check unloads the modules of manual plugins, and notes those others need.
LEMMA CheckOthers ==
    ASSUME IType, NEW read, Reads(read), NEW q \in Name \ Manual,
           state[q] # NoEntry, state[q].ModuleDefinitionName \in MU
    PROVE  state[q].ModuleDefinitionName \in MU'
<1> DEFINE m == state[q].ModuleDefinitionName
<1>1. m # NoModule
  BY PluginManagerAssumption DEF MU, IType, TypeOK
<1>2. <<q, m>> \in {j \in IndexOf(state) : j[1] \in Name \ Manual}
  BY <1>1 DEF IndexOf
<1>3. m \in ModulesShown(Name \ Manual)
  BY <1>2 DEF ModulesShown
<1> HIDE DEF m
<1>4. m \in MU
  BY DEF m
<1>5. m \in MU'
  BY <1>3, <1>4 DEF Reads, ReLoad, MU
<1> QED
  BY <1>5 DEF m

LEMMA CheckKeepsGood ==
    ASSUME IInv, IInv', IPlugins, Check
    PROVE  IPlugins'
<1> SUFFICES ASSUME NoRace'
             PROVE  IPlugins'
  BY DEF IPlugins
<1>1. IType /\ IWork /\ Checks /\ NoRace /\ UNCHANGED disk
  BY CheckKeeps DEF IInv, Checks, Check
<1>2. PICK read \in SUBSET (Manual \cap Readable) : Reads(read)
  BY CheckReads
<1>3. ASSUME NEW n \in Name, NEW x, n \notin Manual, n \notin ToCheck,
             Good(disk[n], state[n], x, MU)
      PROVE  Good(disk'[n], state'[n], x, MU')
  <2>1. state'[n] = state[n] /\ disk'[n] = disk[n]
    BY <1>1, <1>2, <1>3, CheckEntries
  <2>2. state[n] # NoEntry /\ state[n].ModuleDefinitionName \in MU
            => state[n].ModuleDefinitionName \in MU'
    BY <1>1, <1>2, <1>3, CheckOthers
  <2>3. Good(disk[n], state[n], x, MU')
    BY <1>3, <2>2, GoodFrame
  <2> QED
    BY <2>1, <2>3
<1>4. ASSUME NEW n \in ToCheck, Good(disk[n], state[n], Idle, MU),
             NEW x, x # Idle, x.step = "wait"
      PROVE  Good(disk'[n], state'[n], x, MU')
  <2>1. n \in Name
    BY DEF ToCheck
  <2>2. state[n] # NoEntry /\ state'[n] # NoEntry /\ state'[n].RemoteURL = state[n].RemoteURL
    BY <1>1, <1>2, <2>1, CheckEntries
  <2>5. Backed(disk[n], state'[n], x)
    <3>1. state[n].RemoteURL # NoURL => CloneOf(disk[n], state[n])
      BY <1>4, <2>2 DEF Good, Backed, In
    <3> QED
      BY <1>4, <2>2, <3>1 DEF Backed, CloneOf, In, Taking
  <2>6. Loaded(state'[n], x, MU')
    BY <1>4 DEF Loaded, In, Checking, Rereading
  <2> QED
    BY <1>1, <2>5, <2>6 DEF Good
<1>5. ASSUME NEW n \in Manual, Good(disk[n], state[n], Idle, MU)
      PROVE  Good(disk'[n], state'[n], Idle, MU')
  <2>1. n \in Name /\ state[n] # NoEntry /\ state'[n] = ReRead(Manual, read)[n]
    BY <1>1, <1>2, <1>5, CheckEntries DEF Manual
  <2>2. CASE n \notin read
    <3>1. /\ state'[n] # NoEntry /\ state'[n].ProgressState = "error"
          /\ state'[n].RemoteURL = state[n].RemoteURL
      BY <1>1, <2>1, <2>2, ReReadFields
    <3>2. Backed(disk[n], state'[n], Idle)
      BY <1>5, <2>1, <3>1 DEF Good, Backed, CloneOf, In
    <3>4. Loaded(state'[n], Idle, MU')
      BY <3>1 DEF Loaded, In
    <3> QED
      BY <1>1, <3>2, <3>4 DEF Good
  <2>3. CASE n \in read
    <3>1. state'[n] = Read(n) /\ n \in Readable
      BY <1>1, <2>1, <2>3, ReReadFields
    <3>2. /\ disk[n] # NoRepo /\ state'[n] # NoEntry
          /\ state'[n].RemoteURL = disk[n].url /\ state'[n].ModuleDefinitionName = disk[n].module
      BY <1>1, <3>1, ReadFields
    <3>4. Backed(disk[n], state'[n], Idle)
      BY <3>2 DEF Backed, CloneOf, In
    <3>5. Known(state'[n], MU')
      <4>1. disk[n].module \in ModulesOf(read) \cup {NoModule}
        BY <2>3 DEF ModulesOf
      <4>2. ModulesOf(read) \subseteq MU'
        BY <1>2 DEF Reads, ReLoad, MU
      <4> QED
        BY <3>2, <4>1, <4>2 DEF Known
    <3>6. Loaded(state'[n], Idle, MU')
      BY <3>5 DEF Loaded, In
    <3> QED
      BY <1>1, <3>4, <3>6 DEF Good
  <2> QED
    BY <2>2, <2>3
<1>6. ASSUME NEW n \in Name, n \in ToCheck \/ n \in Manual
      PROVE  Good(disk[n], state[n], Idle, MU)
  <2>1. Quiet(n)
    BY <1>1, <1>6, ChecksApart DEF Quiet
  <2> QED
    BY <1>1, <2>1 DEF IPlugins
<1>7. ASSUME NEW o \in Op, op'[o] # Idle
      PROVE  Good(disk'[op'[o].name], state'[op'[o].name], op'[o], MU')
  <2>1. CASE op'[o] = op[o]
    <3>1. op[o].name \in Name
      BY <1>1, <1>7, <2>1 DEF IType, TypeOK, Operation
    <3>2. op[o].name \notin ToCheck /\ op[o].name \notin Manual
      BY <1>1, <1>7, <2>1, ChecksApart
    <3>3. Good(disk[op[o].name], state[op[o].name], op[o], MU)
      BY <1>1, <1>7, <2>1 DEF IPlugins
    <3> QED
      BY <1>3, <2>1, <3>1, <3>2, <3>3
  <2>2. CASE op'[o] # Idle /\ op'[o].name \in ToCheck /\ op'[o].step = "wait"
    <3>1. op'[o].name \in Name
      BY <2>2 DEF ToCheck
    <3>2. Good(disk[op'[o].name], state[op'[o].name], Idle, MU)
      BY <1>6, <2>2, <3>1
    <3> QED
      BY <1>4, <2>2, <3>2
  <2> QED
    BY <1>1, <2>1, <2>2 DEF Checks
<1>8. ASSUME NEW n \in Name, \A o \in Op : op'[o] # Idle => op'[o].name # n
      PROVE  Good(disk'[n], state'[n], Idle, MU')
  <2>1. n \notin ToCheck
    BY <1>1, <1>8 DEF Checks
  <2>2. Quiet(n)
    BY <1>1, <1>8 DEF Checks, Quiet
  <2>3. Good(disk[n], state[n], Idle, MU)
    BY <1>1, <2>2 DEF IPlugins
  <2> QED
    BY <1>3, <1>5, <2>1, <2>3
<1> QED
  BY <1>7, <1>8 DEF IPlugins, Quiet

\* A plugin that is managed manually is no clone of a repository.
LEMMA EditKeepsGood ==
    ASSUME IInv, IPlugins, NEW n \in Name, EditManually(n)
    PROVE  IPlugins'
<1>1. /\ disk[n].url = NoURL /\ \A p \in Name \ {n} : disk'[p] = disk[p]
      /\ disk'[n].url = NoURL /\ disk'[n] # NoRepo
      /\ UNCHANGED <<state, modules, unloaded, op, mishaps>>
  <2>1. PICK m \in Manifests[n] : disk' = [disk EXCEPT ![n] = ManualRepo(m)]
    BY DEF EditManually
  <2>3. m \in Module \cup {NoModule}
    BY PluginManagerAssumption
  <2>2. ManualRepo(m) # NoRepo /\ ManualRepo(m).url = NoURL
    BY <2>3, RepoType DEF ManualRepo
  <2> QED
    BY <2>1, <2>2 DEF EditManually, IInv, IType, TypeOK
<1>2. ASSUME NEW x, Good(disk[n], state[n], x, MU)
      PROVE  Good(disk'[n], state[n], x, MU)
  BY <1>1, <1>2 DEF Good, Backed, CloneOf
<1>3. \A p \in Op : op[p] # Idle => op[p].name \in Name
  BY DEF IInv, IType, TypeOK, Operation
<1>4. MU' = MU
  BY <1>1 DEF MU
<1> QED
  BY <1>1, <1>2, <1>3, <1>4 DEF IPlugins, Quiet, NoRace

\* A start leaves the plugins as they should be, or forgets all of them.
LEMMA StartGood ==
    ASSUME IType, NEW st, NEW mods, NEW left, Start(st, mods, left), NEW n \in Name
    PROVE  Good(disk[n], st[n], Idle, mods \cup left)
<1>1. PICK read \in SUBSET Readable :
        LET all == \A p \in Name \ read : disk[p] = NoRepo
        IN  /\ st = [p \in Name |-> IF all THEN Read(p) ELSE NoEntry]
            /\ mods \in SUBSET ModulesOf(read)
            /\ left = ModulesOf(read) \ mods
  BY DEF Start
<1>2. CASE st[n] = NoEntry
  BY <1>2 DEF Good, Backed, Loaded, In
<1>3. CASE st[n] # NoEntry
  <2>1. st[n] = Read(n) /\ \A p \in Name \ read : disk[p] = NoRepo
    BY <1>1, <1>3
  <2>2. n \in Readable
    BY <1>3, <2>1 DEF Readable
  <2>3. disk[n] # NoRepo /\ st[n].RemoteURL = disk[n].url /\ st[n].ModuleDefinitionName = disk[n].module
    BY <2>1, <2>2, ReadFields
  <2>4. n \in read
    BY <2>1, <2>3
  <2>5. disk[n].module \in ModulesOf(read) \cup {NoModule}
    BY <2>4 DEF ModulesOf
  <2>6. ModulesOf(read) \subseteq mods \cup left
    BY <1>1
  <2>7. Known(st[n], mods \cup left)
    BY <1>3, <2>3, <2>5, <2>6 DEF Known
  <2> QED
    BY <2>3, <2>7 DEF Good, Backed, CloneOf, Loaded, In
<1> QED
  BY <1>2, <1>3

LEMMA InitGood ==
    ASSUME Init
    PROVE  IPlugins
<1>1. IType
  BY InitInv DEF IInv
<1>2. Start(state, modules, unloaded) /\ op = [o \in Op |-> Idle]
  BY DEF Init
<1>3. \A n \in Name : Good(disk[n], state[n], Idle, MU)
  BY <1>1, <1>2, StartGood DEF MU
<1> QED
  BY <1>2, <1>3 DEF IPlugins

LEMMA RestartKeepsGood ==
    ASSUME IInv, Restart
    PROVE  IPlugins'
<1>1. IType
  BY DEF IInv
<1>2. Start(state', modules', unloaded') /\ UNCHANGED disk /\ \A o \in Op : op'[o] = Idle
  BY DEF Restart
<1>3. \A n \in Name : Good(disk[n], state'[n], Idle, MU')
  BY <1>1, <1>2, StartGood DEF MU
<1> QED
  BY <1>2, <1>3 DEF IPlugins

LEMMA StepKeepsGood ==
    ASSUME IInv, IInv', IPlugins, [Next]_vars
    PROVE  IPlugins'
<1>1. CASE UNCHANGED vars
  BY <1>1 DEF vars, IPlugins, Quiet, NoRace, MU
<1> QED
  BY <1>1, GoOnKeepsGood, InstallKeepsGood, RemoveKeepsGood, ApplyUpdatesKeepsGood,
     CheckKeepsGood, EditKeepsGood, RestartKeepsGood DEF Next

LEMMA GoodAlways == Spec => []IPlugins
BY InitGood, StepKeepsGood, InvAlways, PTL DEF Spec

-----------------------------------------------------------------------------
(***************************************************************************)
(* The theorems.                                                           *)
(***************************************************************************)
\* The directories, the entries, the index and the operations keep their types,
\* mishaps or not.
THEOREM PluginsTypeCorrect == Spec => []TypeOK
<1>1. IInv => TypeOK
  BY DEF IInv, IType
<1> QED
  BY <1>1, InvAlways, PTL

\* stateLock and ProgressState keep operations on the same plugin apart, and the hub
\* running, until one begins on a plugin that another gave up too early (the end of an
\* install or of an update, or the error of one), or a check for updates replaces the
\* entry of a manually managed plugin that is being worked on.
THEOREM OneAtATimeAlways == Spec => []OneAtATime
<1>1. IInv => OneAtATime
  <2> SUFFICES ASSUME IInv, NoRace
               PROVE  hub # "ended" /\ \A n \in Name : Cardinality(AtWork(n)) <= 1
    BY DEF OneAtATime
  <2>1. hub # "ended" /\ Alone
    BY DEF IInv, IWork
  <2>2. ASSUME NEW n \in Name
        PROVE  Cardinality(AtWork(n)) <= 1
    <3>1. CASE AtWork(n) = {}
      BY <3>1, FS_EmptySet
    <3>2. CASE AtWork(n) # {}
      <4>1. PICK o \in AtWork(n) : TRUE
        BY <3>2
      <4>2. AtWork(n) = {o}
        BY <2>1, <4>1 DEF AtWork, Alone
      <4>3. Cardinality({o}) = 1
        BY FS_Singleton
      <4> QED
        BY <4>2, <4>3
    <3> QED
      BY <3>1, <3>2
  <2> QED
    BY <2>1, <2>2
<1> QED
  BY <1>1, InvAlways, PTL

\* An entry that names a remote repository has its directory, with a clone of it,
\* when no operation is going on and none has raced since the hub was started.
THEOREM EntriesOnDiskAlways == Spec => []EntriesOnDisk
<1>1. IPlugins => EntriesOnDisk
  <2> SUFFICES ASSUME IPlugins, NEW n \in Name, AtRest, state[n] # NoEntry, state[n].RemoteURL # NoURL
               PROVE  disk[n] # NoRepo /\ disk[n].url = state[n].RemoteURL
    BY DEF EntriesOnDisk
  <2>1. Good(disk[n], state[n], Idle, MU)
    BY DEF IPlugins, AtRest, Running, Quiet
  <2> QED
    BY <2>1 DEF Good, Backed, CloneOf, In
<1> QED
  BY <1>1, GoodAlways, PTL

\* At rest the hub knows the controls of every plugin that shows no error, or has left
\* its module out in one of the ways that unloaded names.
THEOREM ModulesLoadedAlways == Spec => []ModulesLoaded
<1>1. IPlugins => ModulesLoaded
  <2> SUFFICES ASSUME IPlugins, AtRest, NEW i \in IndexOf(state),
                      state[i[1]].ProgressState # "error"
               PROVE  i[2] \in MU
    BY DEF ModulesLoaded, MU
  <2>1. PICK n \in Name : /\ i = <<n, state[n].ModuleDefinitionName>>
                         /\ state[n] # NoEntry /\ state[n].ModuleDefinitionName # NoModule
    BY DEF IndexOf
  <2>2. Good(disk[n], state[n], Idle, MU)
    BY DEF IPlugins, AtRest, Running, Quiet
  <2> QED
    BY <2>1, <2>2 DEF Good, Loaded, Known, In
<1> QED
  BY <1>1, GoodAlways, PTL

\* dcs-lua-index.json has every plugin with a module and none that has been removed, at
\* any time, though an update writes it without stateLock and whatever races there are;
\* unless the file is known to be stale.
THEOREM IndexServesAlways == Spec => []IndexServes
<1>1. TypeOK /\ IIndex => IndexServes
  <2> SUFFICES ASSUME TypeOK, IIndex, ~stale
               PROVE  /\ IndexOf(state) \subseteq index
                      /\ \A i \in index : state[i[1]] # NoEntry
    BY DEF IndexServes
  <2>1. \A n \in Name : Listed(n, state[n], index)
    BY DEF IIndex
  <2>2. IndexOf(state) \subseteq index
    BY <2>1 DEF IndexOf, Listed
  <2>3. ASSUME NEW i \in index
        PROVE  state[i[1]] # NoEntry
    <3>1. PICK n \in Name, m \in Module : i = <<n, m>>
      BY DEF TypeOK
    <3> QED
      BY <2>1, <3>1 DEF Listed
  <2> QED
    BY <2>2, <2>3
<1> QED
  BY <1>1, PluginsTypeCorrect, IndexAlways, PTL
=============================================================================
