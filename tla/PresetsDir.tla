----------------------------- MODULE PresetsDir -----------------------------
(* The presets pane (gui/src/app/presets.rs): the listings of the presets    *)
(* directory and of a folder in it, loaded off the interface's thread and    *)
(* loaded again after every operation, and the preset that is selected.      *)
EXTENDS Preview

CONSTANTS Files,       \* names of presets in the presets directory
          FolderFiles, \* names of presets in the folder
          MaxFaults    \* bound: how many file operations fail

\* The presets directory holds a preset, which is not the default look.
ASSUME PresetsAssumption == Files # {} /\ 1 \in Versions

Dirs == {"root", "folder"}
NamesOf(d) == IF d = "root" THEN Files ELSE FolderFiles
NoFile == -1

VARIABLES fs,          \* the file system: the preset behind each name, or NoFile
          listing,     \* DirListing of each directory: state, entries, active, gen
          selected,    \* PresetsListState::selected_preset
          faults,      \* file operations that have failed
          lost         \* whether a folder's listing was replaced under its operations

presetVars == <<fs, listing, selected, faults, lost>>

States == {"NotLoaded", "Loading", "Reloading", "Error", "Loaded"}
NewListing(gen) == [state |-> "NotLoaded", entries |-> {}, active |-> 0, gen |-> gen]
Present(d) == {n \in NamesOf(d) : fs[d][n] # NoFile}

FirstOf(d) == CHOOSE n \in NamesOf(d) : TRUE
\* The presets pane has been shown, and a preset selected and then changed.
PresetInit(failed) ==
    /\ fs = [d \in Dirs |-> [n \in NamesOf(d) |->
                 IF n = FirstOf(d) THEN 1 ELSE NoFile]]
    /\ listing = [root |-> [NewListing(0) EXCEPT !.state = "Loaded", !.entries = Present("root")],
                   folder |-> NewListing(0)]
    /\ selected = [dir |-> "root", name |-> FirstOf("root"), v |-> 1]
    /\ faults = failed /\ lost = FALSE

\* Futures and functions keep a Weak to the listing they are about.
Reload(d, create) == Ready([k |-> "reload", dir |-> d, gen |-> listing[d].gen,
                            pc |-> "start", create |-> create])
Alive(fut) == fut.gen = listing[fut.dir].gen
Fail == [k |-> "fail"]

\* Without its entries, the root's listing lets go of the folder's listing: a
\* new one takes its place, and what was on its way to the old one is ignored.
Forget(L, d) == IF d = "root" THEN [L EXCEPT !["folder"] = NewListing(@.gen + 1)] ELSE L
Enter(L, d, state) ==
    IF state \in {"Loading", "Error"}
    THEN [Forget(L, d) EXCEPT ![d].state = state, ![d].entries = {}]
    ELSE [L EXCEPT ![d].state = state]
Enters(f, state) ==
    /\ listing' = IF Alive(f) THEN Enter(listing, f.dir, state) ELSE listing
    /\ lost' = (lost \/ (/\ Alive(f) /\ f.dir = "root" /\ state \in {"Loading", "Error"}
                         /\ listing["folder"].active > 0))

\* The first poll of a reload.  The entries are kept if the listing was loaded:
\* a second reload that starts meanwhile drops them.
PollReloadStart(i) ==
    LET f == tasks[i].fut
        next == IF f.create THEN "create" ELSE "read"
    IN /\ f.k = "reload" /\ f.pc = "start"
       /\ Polls(i, "blocked", [f EXCEPT !.pc = next])
       /\ Enters(f, IF listing[f.dir].state = "Loaded" THEN "Reloading" ELSE "Loading")
       /\ UNCHANGED <<fs, selected, faults>>

PollReloadCreated(i) ==
    LET f == tasks[i].fut
    IN /\ f.k = "reload" /\ f.pc = "created"
       /\ Polls(i, "blocked", [f EXCEPT !.pc = "read"])
       /\ UNCHANGED presetVars

PollReloadFailed(i) ==
    LET f == tasks[i].fut
    IN /\ f.k = "reload" /\ f.pc = "failed"
       /\ Polls(i, "done", Fail)
       /\ Enters(f, "Error")
       /\ UNCHANGED <<fs, selected, faults>>

\* The directory is open: its entries are read here, and the listing of the
\* folder is kept if the old entries had it.  It is loaded again if it was.
Kids(f) == IF f.dir = "root" /\ listing["folder"].state = "Loaded"
           THEN [k |-> "kids", gen |-> listing["folder"].gen, dir |-> "folder"] ELSE NoFn
PollReloadRead(i) ==
    LET f == tasks[i].fut
    IN /\ f.k = "reload" /\ f.pc = "opened"
       /\ Polls(i, "done", IF Alive(f) THEN Kids(f) ELSE NoFn)
       /\ listing' = IF Alive(f)
                     THEN [listing EXCEPT ![f.dir].state = "Loaded",
                                          ![f.dir].entries = Present(f.dir)]
                     ELSE listing
       /\ UNCHANGED <<fs, selected, faults, lost>>

\* The blocking thread pool opens or creates the directory, or cannot.
ThreadReload(i) ==
    LET f == tasks[i].fut
    IN /\ f.k = "reload"
       /\ \/ /\ Wakes(i, [f EXCEPT !.pc = IF f.pc = "create" THEN "created" ELSE "opened"])
             /\ UNCHANGED faults
          \/ /\ faults < MaxFaults /\ faults' = faults + 1
             /\ Wakes(i, [f EXCEPT !.pc = "failed"])
       /\ UNCHANGED <<fs, listing, selected, lost>>

-----------------------------------------------------------------------------
(* The operations of the pane: LoadPreset, RenamePath, CreatePreset,         *)
(* OverwritePreset, DeletePreset, install_presets.                           *)

\* do_fs_operation_then_refresh: the operation is counted, and so is its end.
Op(op, d, a, b, v) == [k |-> "op", op |-> op, dir |-> d, gen |-> listing[d].gen,
                       pc |-> "start", a |-> a, b |-> b, v |-> v]
Count(d) == listing' = [listing EXCEPT ![d].active = @ + 1]

\* Deleting and renaming start on the pool at once; the others at the first poll.
StartsAtOnce(op) == op \in {"rename", "delete"}
OpTask(op, d, a, b, v) ==
    LET f == Op(op, d, a, b, v) IN IF StartsAtOnce(op) THEN Blocked(f) ELSE Ready(f)

OpEnd(f, res) == [k |-> "opend", dir |-> f.dir, gen |-> f.gen, res |-> res,
                  sel |-> [dir |-> f.a.dir, name |-> f.a.name, v |-> f.v]]

At(d, n) == [dir |-> d, name |-> n]
Content(at) == fs[at.dir][at.name]
Put(at, v) == fs' = [fs EXCEPT ![at.dir][at.name] = v]

\* The pool renames (after looking at the new name), deletes or copies.
ThreadRename(i) ==
    LET f == tasks[i].fut
    IN /\ f.k = "op" /\ f.op = "rename"
       /\ \/ /\ f.pc = "start" /\ Content(f.b) = NoFile
             /\ tasks[i].st = "blocked"
             /\ tasks' = [tasks EXCEPT ![i].fut.pc = "checked"]
             /\ UNCHANGED <<ui, fns, spawned, repaint, fs>>
          \/ /\ f.pc = "start" /\ Content(f.b) # NoFile
             /\ Wakes(i, [f EXCEPT !.pc = "failed"])
             /\ UNCHANGED fs
          \/ /\ f.pc = "checked" /\ Content(f.a) # NoFile
             /\ fs' = [fs EXCEPT ![f.b.dir][f.b.name] = Content(f.a), ![f.a.dir][f.a.name] = NoFile]
             /\ Wakes(i, [f EXCEPT !.pc = "ok"])
          \/ /\ f.pc = "checked" /\ Content(f.a) = NoFile
             /\ Wakes(i, [f EXCEPT !.pc = "failed"])
             /\ UNCHANGED fs
       /\ UNCHANGED <<listing, selected, faults, lost>>

ThreadOp(i) ==
    LET f == tasks[i].fut
    IN /\ f.k = "op" /\ f.op \in {"delete", "install"}
       /\ \/ /\ f.op = "delete" /\ Content(f.a) # NoFile
             /\ Wakes(i, [f EXCEPT !.pc = "ok"]) /\ Put(f.a, NoFile) /\ UNCHANGED faults
          \/ /\ f.op = "install"
             /\ Wakes(i, [f EXCEPT !.pc = "ok"]) /\ Put(f.a, f.v) /\ UNCHANGED faults
          \/ /\ f.op = "delete" /\ Content(f.a) = NoFile
             /\ Wakes(i, [f EXCEPT !.pc = "failed"]) /\ UNCHANGED <<fs, faults>>
          \/ /\ faults < MaxFaults /\ faults' = faults + 1
             /\ Wakes(i, [f EXCEPT !.pc = "failed"]) /\ UNCHANGED fs
       /\ UNCHANGED <<listing, selected, lost>>

\* Creating looks at the name and writes in one poll; so does overwriting,
\* which does not look.  Both then select the preset.
PollWrite(i) ==
    LET f == tasks[i].fut
    IN /\ f.k = "op" /\ f.op \in {"create", "overwrite"}
       /\ \/ /\ f.op = "overwrite" \/ Content(f.a) = NoFile
             /\ Polls(i, "done", OpEnd(f, "selected")) /\ Put(f.a, f.v)
          \/ /\ f.op = "create" /\ Content(f.a) # NoFile
             /\ Polls(i, "done", OpEnd(f, "failed")) /\ UNCHANGED fs
       /\ UNCHANGED <<listing, selected, faults, lost>>

PollInstall(i) ==
    LET f == tasks[i].fut
    IN /\ f.k = "op" /\ f.op = "install" /\ f.pc = "start"
       /\ Polls(i, "blocked", [f EXCEPT !.pc = "copying"])
       /\ UNCHANGED presetVars

PollOpEnd(i) ==
    LET f == tasks[i].fut
    IN /\ f.k = "op" /\ f.pc \in {"ok", "failed"}
       /\ Polls(i, "done", OpEnd(f, f.pc))
       /\ UNCHANGED presetVars

\* load_preset reads the file on the pool.
PollLoad(i) ==
    LET f == tasks[i].fut
    IN /\ f.k = "load"
       /\ \/ f.pc = "start" /\ Polls(i, "blocked", [f EXCEPT !.pc = "reading"])
          \/ f.pc = "read" /\ Polls(i, "done", [f EXCEPT !.k = "loaded"])
       /\ UNCHANGED presetVars
ThreadLoad(i) ==
    LET f == tasks[i].fut
    IN /\ f.k = "load" /\ Wakes(i, [f EXCEPT !.pc = "read", !.v = Content(f.a)])
       /\ UNCHANGED presetVars

-----------------------------------------------------------------------------
\* What the functions of finished tasks do (an error is shown to the user).
RunFail == Head(fns).fut.k = "fail" /\ RunsFn(<<>>) /\ UNCHANGED presetVars

RunKids == LET f == Head(fns).fut
           IN /\ f.k = "kids"
              /\ RunsFn(<<Ready([k |-> "reload", dir |-> f.dir, gen |-> f.gen,
                                 pc |-> "start", create |-> FALSE])>>)
              /\ UNCHANGED presetVars

\* Mutant of RunOpEnd: an operation that failed returns early.
RunOpEndEarly ==
    LET f == Head(fns).fut
        left == listing[f.dir].active - 1
        counts == Alive(f) /\ f.res # "failed"
    IN /\ f.k = "opend"
       /\ selected' = IF f.res = "selected" THEN f.sel ELSE selected
       /\ listing' = IF counts THEN [listing EXCEPT ![f.dir].active = left] ELSE listing
       /\ RunsFn(IF counts /\ left = 0 THEN <<Reload(f.dir, FALSE)>> ELSE <<>>)
       /\ UNCHANGED <<fs, faults, lost>>

\* The end of an operation: the last of those in flight loads the listing again.
RunOpEnd ==
    LET f == Head(fns).fut
        left == listing[f.dir].active - 1
    IN /\ f.k = "opend"
       /\ selected' = IF f.res = "selected" THEN f.sel ELSE selected
       /\ listing' = IF Alive(f) THEN [listing EXCEPT ![f.dir].active = left] ELSE listing
       /\ RunsFn(IF Alive(f) /\ left = 0 THEN <<Reload(f.dir, FALSE)>> ELSE <<>>)
       /\ UNCHANGED <<fs, faults, lost>>

\* A preset that was read is selected; the application takes its settings.
Loaded == Head(fns).fut.k = "loaded" /\ Head(fns).fut.v # NoFile
RunLoaded ==
    LET f == Head(fns).fut
    IN /\ f.k = "loaded"
       /\ selected' = IF f.v # NoFile THEN [dir |-> f.a.dir, name |-> f.a.name, v |-> f.v]
                      ELSE selected
       /\ RunsFn(<<>>)
       /\ UNCHANGED <<fs, listing, faults, lost>>

-----------------------------------------------------------------------------
(* A frame that shows the pane.                                              *)

\* A listing that is shown and was never loaded is loaded; the folder's is shown
\* with the root's entries, if its header is open.
Shown(d, open) == d = "root" \/ (open /\ listing["root"].state \in {"Loaded", "Reloading"})
AutoReload(open) ==
    LET Of(d) == IF Shown(d, open) /\ listing[d].state = "NotLoaded"
                 THEN <<Reload(d, FALSE)>> ELSE <<>>
    IN Of("root") \o Of("folder")

\* Entries can be clicked unless their listing, or one around it, is loading.
Enabled(d, open) == /\ listing[d].state = "Loaded" /\ Shown(d, open)
                    /\ d = "folder" => listing["root"].state = "Loaded"

ReloadClick(futs) == /\ listing["root"].state \notin {"Loading", "Reloading"}
                     /\ SpawnTo(tasks, Append(futs, Reload("root", TRUE)))
                     /\ UNCHANGED listing
LoadClick(futs, open) ==
    \E d \in Dirs : \E n \in listing[d].entries :
       /\ Enabled(d, open)
       /\ SpawnTo(tasks, Append(futs, Ready([k |-> "load", pc |-> "start", a |-> At(d, n), v |-> NoFile])))
       /\ UNCHANGED listing
StartOp(futs, op, d, a, b, v) == Count(d) /\ SpawnTo(tasks, Append(futs, OpTask(op, d, a, b, v)))
EntryClick(futs, open) ==
    \E d \in Dirs : \E n \in listing[d].entries :
       /\ Enabled(d, open)
       /\ \/ StartOp(futs, "delete", d, At(d, n), At(d, n), NoFile)
          \/ \E m \in NamesOf(d) \ {n} : StartOp(futs, "rename", d, At(d, n), At(d, m), NoFile)
CreateClick(futs, v) ==
    \E n \in Files : Enabled("root", TRUE) /\ StartOp(futs, "create", "root", At("root", n), At("root", n), v)
\* "Overwrite" writes wherever the selected preset was, and counts for the root.
OverwriteClick(futs, v) ==
    /\ selected.v # v
    /\ LET a == At(selected.dir, selected.name) IN StartOp(futs, "overwrite", "root", a, a, v)
InstallDrop(futs, v) ==
    \E n \in Files : StartOp(futs, "install", "root", At("root", n), At("root", n), v)

\* The user's actions; v is the application's present settings.
PaneAction(open, v) ==
    /\ LET futs == AutoReload(open)
       IN \/ ReloadClick(futs) \/ LoadClick(futs, open) \/ EntryClick(futs, open)
          \/ CreateClick(futs, v) \/ OverwriteClick(futs, v) \/ InstallDrop(futs, v)
    /\ UNCHANGED <<fs, selected, faults, lost>>
PaneShown(open) == SpawnTo(tasks, AutoReload(open)) /\ UNCHANGED presetVars

-----------------------------------------------------------------------------
(* Once nothing is in flight, what a listing shows is what its directory     *)
(* holds, whatever order reloads and operations ended in.  The exception is  *)
(* a folder whose listing was replaced while operations on it were counted   *)
(* on the old one.                                                           *)
ListingFresh ==
    tasks = <<>> /\ fns = <<>> =>
        \A d \in Dirs : /\ listing[d].state = "Loaded" /\ (d = "folder" => ~lost)
                        => listing[d].entries = Present(d)
=============================================================================
