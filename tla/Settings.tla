------------------------------ MODULE Settings ------------------------------
(***************************************************************************)
(* Settings files in Python: core/settingsstore and core/paths.            *)
(*                                                                         *)
(* A store is a nested dictionary, merged from files in several folders:   *)
(* local ones, of the user and of the host, then preinstalled ones.  What  *)
(* a process changes is saved as the difference from the preinstalled      *)
(* files, in the first local folder that can be written.  Processes share  *)
(* the files and nothing else; no file is locked.                          *)
(*                                                                         *)
(* Dictionaries have two levels; a value is a scalar or None (null).       *)
(* Files in the JSON format are read before those in YAML.                 *)
(***************************************************************************)
EXTENDS Integers, Sequences, FiniteSets, SequencesExt, Functions, TLC

CONSTANTS
    Procs,
    Keys, Scalars, Null,
    LocalFolders,         \* the local settings path, at first
    PreinstalledFolders,  \* the preinstalled settings path, at first
    Extra,                \* a folder that a process may add to its path
    WritableFolders,             \* the folders that can be written
    Installed,            \* files at first: <<folder, suffix>> to dictionary
    Suffix,               \* suffix of the name that stores are loaded by, or Null
    MaxSteps              \* bound on the calls of the processes

ASSUME SettingsAssumption == Null \notin Scalars

Folders == Range(LocalFolders) \cup Range(PreinstalledFolders) \cup {Extra}
Formats == <<"json", "yaml">>

VARIABLES
    contents, \* of the files, by folder and suffix; Null: there is no such file
    proc,     \* each process: its store, its search path, and where it is in a call
    steps,
    saved,    \* the last save that was completed: the store and its path (history)
    added     \* files that were created since (history)

settingsVars == <<contents, proc, steps, saved, added>>

IsDict(v) == v # Null /\ v \notin Scalars
Leaves == Scalars \cup {Null}
Flat == UNION {[ks -> Leaves] : ks \in SUBSET Keys}

\* dict.get()
Get(d, k) == IF k \in DOMAIN d THEN d[k] ELSE Null

SettingsTypeOK ==
    /\ \A f \in Folders, i \in DOMAIN Formats :
          LET c == contents[<<f, Formats[i]>>]
          IN  c # Null => \A k \in DOMAIN c : c[k] \in Leaves \cup Flat
    /\ \A p \in Procs :
          /\ proc[p].pc \in {"new", "idle", "load", "write"}
          /\ \A k \in DOMAIN proc[p].store : proc[p].store[k] \in Leaves \cup Flat
          /\ proc[p].pc \in {"new", "idle"} => proc[p].todo = <<>>
          /\ \A path \in {proc[p].local, proc[p].pre} : IsInjective(path)

--------------------------------------------------------------------------
(* Dictionaries *)

\* _recursive_merge(): what is there stays, but for Null.
MergeFlat(base, update) ==
    [k \in DOMAIN base \cup DOMAIN update |->
        IF Get(base, k) = Null /\ k \in DOMAIN update THEN update[k] ELSE base[k]]
Merge(base, update) ==
    [k \in DOMAIN base \cup DOMAIN update |->
        IF IsDict(Get(base, k)) /\ IsDict(Get(update, k)) THEN MergeFlat(base[k], update[k])
        ELSE IF Get(base, k) = Null /\ k \in DOMAIN update THEN update[k] ELSE base[k]]

\* _recursive_delta(): keys that were removed, and a dictionary that was emptied, leave
\* no trace.
DeltaFlat(complete, base) ==
    Restrict(complete, {k \in DOMAIN complete : complete[k] # Get(base, k)})
Delta(complete, base) ==
    LET both == {k \in DOMAIN complete : IsDict(complete[k]) /\ IsDict(Get(base, k))}
        kept == {k \in both : DeltaFlat(complete[k], base[k]) # <<>>}
                  \cup {k \in DOMAIN complete \ both : complete[k] # Get(base, k)}
    IN  [k \in kept |-> IF k \in both THEN DeltaFlat(complete[k], base[k]) ELSE complete[k]]

\* set(): a dictionary that is on the way is not descended into: the value goes where
\* the search was.
SetValue(store, path, value) ==
    IF Len(path) = 1 THEN (path[1] :> value) @@ store
    ELSE IF IsDict(Get(store, path[1])) THEN (path[2] :> value) @@ store
    ELSE (path[1] :> (path[2] :> value)) @@ store

\* get_value(): the value, or none, whether a key is missing or a scalar is on the way.
GetValue(store, path) ==
    LET parent == IF Len(path) = 1 THEN store
                  ELSE IF IsDict(Get(store, path[1])) THEN store[path[1]] ELSE <<>>
    IN  {parent[k] : k \in DOMAIN parent \cap {Last(path)}}

--------------------------------------------------------------------------
(* Folders and files *)

\* settings_path()
SettingsPath(s) == s.local \o s.pre

\* preinstalled_settings_path(), local_settings_path(): kept from the first call on.
PreinstalledPath == PreinstalledFolders
LocalPath == LocalFolders

\* add_to_settings_path()
AddTo(path, folder, prepend) ==
    IF folder \in Range(path) THEN path
    ELSE IF prepend THEN <<folder>> \o path ELSE Append(path, folder)

\* find_file_paths(): the files that exist, in the order of the path; a name with a
\* suffix stands for one file in each folder.
Candidates == IF Suffix = Null THEN Formats ELSE <<Suffix>>
FindPaths(fs, path) ==
    LET all == FlattenSeq([i \in DOMAIN path |->
                              [j \in DOMAIN Candidates |-> <<path[i], Candidates[j]>>]])
    IN  SelectSeq(all, LAMBDA f : fs[f] # Null)

\* merge_file(): a file that cannot be opened is left out; an empty one has no settings.
MergeFile(store, content) == IF content = Null THEN store ELSE Merge(store, content)

\* load_settings() while nobody writes.
Load(fs, path) == FoldLeft(LAMBDA s, f : MergeFile(s, fs[f]), <<>>, FindPaths(fs, path))

\* defaults(), recursive_delta()
Defaults(s) == Load(contents, s.pre)
RecursiveDelta(s) == Delta(s.store, Defaults(s))

--------------------------------------------------------------------------
NewProc == [pc |-> "new", store |-> <<>>, todo |-> <<>>, local |-> LocalPath,
            pre |-> PreinstalledPath]

SettingsInit ==
    /\ contents = [f \in Folders \X Range(Formats) |->
                   IF f \in DOMAIN Installed THEN Installed[f] ELSE Null]
    /\ proc = [p \in Procs |-> NewProc]
    /\ steps = 0 /\ saved = Null /\ added = {}

Call(p) == steps < MaxSteps /\ steps' = steps + 1

\* add_to_settings_path(): later stores see the folder, which is put on one
\* of the two paths.
AddFolder(p, prepend, preinstalled) ==
    /\ proc[p].pc = "new" /\ Call(p)
    /\ Extra \notin Range(IF preinstalled THEN proc[p].local ELSE proc[p].pre)
    /\ proc' = IF preinstalled THEN [proc EXCEPT ![p].pre = AddTo(@, Extra, prepend)]
               ELSE [proc EXCEPT ![p].local = AddTo(@, Extra, prepend)]
    /\ UNCHANGED <<contents, saved, added>>

\* A new store: the files are looked for ...
New(p) ==
    /\ proc[p].pc \in {"new", "idle"} /\ Call(p)
    /\ proc' = [proc EXCEPT ![p].pc = "load", ![p].store = <<>>,
                            ![p].todo = FindPaths(contents, SettingsPath(proc[p]))]
    /\ UNCHANGED <<contents, saved, added>>

\* ... and read one by one.
ReadSettings(p) ==
    LET s == proc[p] IN
    /\ s.pc = "load" /\ s.todo # <<>>
    /\ proc' = [proc EXCEPT ![p].store = MergeFile(@, contents[Head(s.todo)]),
                            ![p].todo = Tail(@)]
    /\ UNCHANGED <<contents, steps, saved, added>>

Loaded(p) ==
    /\ proc[p].pc = "load" /\ proc[p].todo = <<>>
    /\ proc' = [proc EXCEPT ![p].pc = "idle"]
    /\ UNCHANGED <<contents, steps, saved, added>>

SetSetting(p, path, value) ==
    /\ proc[p].pc = "idle" /\ Call(p)
    /\ proc' = [proc EXCEPT ![p].store = SetValue(@, path, value)]
    /\ UNCHANGED <<contents, saved, added>>

\* The first folder that can be written; a JSON file, whatever was read.
SaveTarget(s) ==
    LET can == SelectSeq(s.local, LAMBDA f : f \in WritableFolders)
    IN  IF can = <<>> THEN Null ELSE <<Head(can), "json">>

\* save_delta(): the difference, then the file, which is emptied ...
SaveOpen(p) ==
    LET s == proc[p] IN
    /\ s.pc = "idle" /\ Call(p)
    /\ SaveTarget(s) # Null
    /\ contents' = [contents EXCEPT ![SaveTarget(s)] = <<>>]
    /\ proc' = [proc EXCEPT ![p].pc = "write", ![p].todo = RecursiveDelta(s)]
    /\ added' = added \cup {SaveTarget(s)}
    /\ UNCHANGED saved

\* Fault: the difference is that from everything that was loaded.
SaveWriteStale(p) ==
    LET s == proc[p] IN
    /\ s.pc = "write"
    /\ contents' = [contents EXCEPT ![SaveTarget(s)] = Delta(s.store, Load(contents, SettingsPath(s)))]
    /\ proc' = [proc EXCEPT ![p].pc = "idle", ![p].todo = <<>>]
    /\ saved' = [store |-> s.store, local |-> s.local, pre |-> s.pre]
    /\ added' = {}
    /\ UNCHANGED steps

\* ... and written.
SaveWrite(p) ==
    LET s == proc[p] IN
    /\ s.pc = "write"
    /\ contents' = [contents EXCEPT ![SaveTarget(s)] = s.todo]
    /\ proc' = [proc EXCEPT ![p].pc = "idle", ![p].todo = <<>>]
    /\ saved' = [store |-> s.store, local |-> s.local, pre |-> s.pre]
    /\ added' = {}
    /\ UNCHANGED steps

\* A process ends, between the two also: the file stays empty.
Crash(p) ==
    /\ proc[p].pc # "new" /\ steps < MaxSteps
    /\ proc' = [proc EXCEPT ![p] = NewProc]
    /\ UNCHANGED <<contents, steps, saved, added>>

Paths == {<<k>> : k \in Keys} \cup (Keys \X Keys)

SettingsNext ==
    \E p \in Procs :
        \/ \E prepend, preinstalled \in BOOLEAN : AddFolder(p, prepend, preinstalled)
        \/ \E path \in Paths, value \in Scalars : SetSetting(p, path, value)
        \/ New(p) \/ ReadSettings(p) \/ Loaded(p) \/ SaveOpen(p) \/ SaveWrite(p) \/ Crash(p)

SettingsSpec == SettingsInit /\ [][SettingsNext]_settingsVars

--------------------------------------------------------------------------
(* Properties *)

\* A key that the preinstalled files have is in the store, with a value.
Complete(store, base) ==
    \A path \in Paths : GetValue(base, path) # {} => GetValue(store, path) \notin {{}, {Null}}

\* Another local file has a value for what was set back to its preinstalled value, which
\* the difference does not mention.
Shadowed(s, path) ==
    /\ GetValue(s.store, path) = GetValue(Load(contents, s.pre), path)
    /\ GetValue(Load(contents, s.local), path) # {}

\* What was saved is what the next process loads by the same path, for every key.
SavedIsReloaded ==
    saved # Null /\ added = {} /\ Suffix # "yaml" /\ Complete(saved.store, Load(contents, saved.pre))
    => \A path \in Paths :
          Shadowed(saved, path) \/ Shadowed(saved, <<path[1]>>)
          \/ LET now == Load(contents, SettingsPath(saved))
             IN  GetValue(now, path) = GetValue(saved.store, path)

\* A local setting takes precedence over the preinstalled one (paths.py:102).
LocalWins ==
    \A p \in Procs : proc[p].pc = "idle" /\ steps < MaxSteps =>
        \A k \in Keys :
            LET local == GetValue(Load(contents, proc[p].local), <<k>>)
            IN  (\E v \in Scalars : local = {v}) =>
                  GetValue(Load(contents, SettingsPath(proc[p])), <<k>>) = local

\* Local settings outlast the process that made them, and prevail over preinstalled ones.
LocalSettingsHold == SavedIsReloaded /\ LocalWins

==============================================================================
