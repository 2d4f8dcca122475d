------------------------------- MODULE Restore -------------------------------
(***************************************************************************)
(* Restoring a decrypted payload below an output directory, one archive    *)
(* entry after another, each file truncated before it is written.  Files   *)
(* that look executable, and in stage mode all files, go to a quarantine   *)
(* directory beside their nominal place.  The call may stop at any step    *)
(* and is then run again over what it has left.                            *)
(***************************************************************************)
EXTENDS Integers, Sequences, FiniteSets

CONSTANTS
    Name,          \* names of files and directories
    Executable,    \* those is_executable_name accepts
    Quarantine,    \* the name "quarantine"
    Payloads,      \* the archives to restore, as sets of entries
    Priors,        \* what the output directory may already hold
    MaxCrashes,    \* bound on crashes
    Dir,           \* a directory
    Torn,          \* a file that was truncated and not written
    Old            \* what a file of somebody else holds

\* A path below the output directory is the sequence of its names. An archive
\* entry is a path and what is there. Refused are links and paths that leave the
\* output directory: prepare_payload archives none, another writer may.
Path == Seq(Name)
Entry == [dir : Path, name : Name, kind : {"file", "dir", "refused"}]

PathOf(e) == Append(e.dir, e.name)

\* A fault: staging is forgotten.
QuarantinedByName(e, mode) == e.name \in Executable

Quarantined(e, mode) == mode = "stage" \/ e.name \in Executable

\* A fault: one quarantine directory for the whole payload.
HomeAtTop(e, mode) == IF Quarantined(e, mode) THEN <<Quarantine>> ELSE e.dir

\* Where write_payload_file puts a file.
HomeOf(e, mode) == IF Quarantined(e, mode) THEN Append(e.dir, Quarantine) ELSE e.dir
Target(e, mode) == Append(HomeOf(e, mode), e.name)

\* What the file then holds: the bytes of this entry, written in this mode.
ContentOf(e, mode) == [from |-> PathOf(e), mode |-> mode]

Files(payload) == {e \in payload : e.kind = "file"}

\* The directories on the way to a path, and the path itself; not the output
\* directory, which exists.
Chain(path) == {SubSeq(path, 1, n) : n \in 1 .. Len(path)}

\* What the output directory may hold is in directories.
ASSUME RestoreAssumption ==
    /\ Executable \subseteq Name /\ Quarantine \in Name \ Executable
    /\ MaxCrashes \in Nat
    /\ Dir \notin {Torn, Old} \union [from : Path, mode : {"unpack", "stage"}]
    /\ \A payload \in Payloads :
          /\ IsFiniteSet(payload) /\ payload \subseteq Entry
          /\ \A e, f \in payload : PathOf(e) = PathOf(f) => e = f
    /\ \A prior \in Priors :
          /\ prior \in [DOMAIN prior -> {Dir, Old}] /\ DOMAIN prior \subseteq Path \ {<<>>}
          /\ \A p \in DOMAIN prior : \A d \in Chain(p) \ {p} : d \in DOMAIN prior /\ prior[d] = Dir

VARIABLES
    payload,   \* the entries of the archive
    mode,      \* unpack or stage
    prior,     \* what the output directory held before the first call
    tree,      \* what it holds now: a node for each path that exists
    todo,      \* the entries not yet restored
    pc,        \* where the call is
    cur,       \* the entry it is at
    result,    \* how the last call ended
    crashes    \* how many calls were cut off

vars == <<payload, mode, prior, tree, todo, pc, cur, result, crashes>>
given == <<payload, mode, prior>>

Exists(path) == path \in DOMAIN tree
Holds(path, node) == Exists(path) /\ tree[path] = node
IsFile(path) == Exists(path) /\ tree[path] # Dir

With(t, path, node) == [p \in DOMAIN t \union {path} |-> IF p = path THEN node ELSE t[p]]

\* Two faults: the directory must be new, and errors are ignored.
CanMakeNew(path) == ~Exists(path)
CanMakeAnyway(path) == Len(path) >= 0

\* fs::create_dir_all: possible unless a file is in the way.
CanMake(path) == \A p \in Chain(path) : ~IsFile(p)
Make(path) == [p \in DOMAIN tree \union Chain(path) |-> IF Exists(p) THEN tree[p] ELSE Dir]

Init ==
    /\ payload \in Payloads
    /\ mode \in {"unpack", "stage"}
    /\ prior \in Priors
    /\ tree = prior
    /\ todo = {} /\ cur = [dir |-> <<>>, name |-> Quarantine, kind |-> "dir"]
    /\ pc = "idle" /\ result = "none"
    /\ crashes = 0

\* Two faults: a call that was cut off is gone on with where it stopped, and the output
\* directory is emptied first.
StartWhereStopped ==
    /\ pc = "idle" /\ result \in {"none", "cut off"}
    /\ todo' = IF result = "cut off" THEN todo ELSE payload
    /\ pc' = "next"
    /\ UNCHANGED <<given, tree, cur, result, crashes>>

StartEmpty ==
    /\ pc = "idle" /\ result \in {"none", "cut off"}
    /\ tree' = [p \in {} |-> Dir]
    /\ todo' = payload
    /\ pc' = "next"
    /\ UNCHANGED <<given, cur, result, crashes>>

\* The call begins, or begins again after it was cut off.
Start ==
    /\ pc = "idle" /\ result \in {"none", "cut off"}
    /\ todo' = payload
    /\ pc' = "next"
    /\ UNCHANGED <<given, tree, cur, result, crashes>>

Fail ==
    /\ pc' = "idle" /\ result' = "failed"
    /\ UNCHANGED <<given, todo, cur, crashes>>

\* The next entry of the archive: WalkDir lists a directory before what is in it,
\* and what is side by side in any order. create_dir_all makes the entry itself, or
\* the directory a file is in. safe_join and the check for links come before that.
Listed(e) == e \in todo /\ ~ \E d \in todo : d.kind = "dir" /\ PathOf(d) = e.dir
TakeEntry(e) ==
    LET made == IF e.kind = "dir" THEN PathOf(e) ELSE e.dir
    IN  /\ pc = "next" /\ Listed(e)
        /\ \/ /\ e.kind # "refused" /\ CanMake(made)
              /\ tree' = Make(made)
              /\ todo' = todo \ {e}
              /\ cur' = e
              /\ pc' = IF e.kind = "file" THEN "open" ELSE "next"
              /\ UNCHANGED <<given, result, crashes>>
           \/ (e.kind = "refused" \/ ~CanMake(made)) /\ UNCHANGED tree /\ Fail

\* write_payload_file: the quarantine directory is made, where there is to be one,
\* and the file is truncated; a file cannot replace a directory.
OpenFile ==
    LET home == HomeOf(cur, mode)
        target == Target(cur, mode)
    IN  /\ pc = "open"
        /\ \/ ~CanMake(home) /\ UNCHANGED tree /\ Fail
           \/ CanMake(home) /\ Exists(target) /\ ~IsFile(target) /\ tree' = Make(home) /\ Fail
           \/ /\ CanMake(home) /\ (Exists(target) => IsFile(target))
              /\ tree' = With(Make(home), target, Torn)
              /\ pc' = "write"
              /\ UNCHANGED <<given, todo, cur, result, crashes>>

WriteFile ==
    /\ pc = "write"
    /\ tree' = [tree EXCEPT ![Target(cur, mode)] = ContentOf(cur, mode)]
    /\ pc' = "next"
    /\ UNCHANGED <<given, todo, cur, result, crashes>>

Finish ==
    /\ pc = "next" /\ todo = {}
    /\ pc' = "idle" /\ result' = "ok"
    /\ UNCHANGED <<given, tree, todo, cur, crashes>>

Crash ==
    /\ pc # "idle" /\ crashes < MaxCrashes
    /\ pc' = "idle" /\ result' = "cut off"
    /\ crashes' = crashes + 1
    /\ UNCHANGED <<given, tree, todo, cur>>

Working == Start \/ (\E e \in payload : TakeEntry(e)) \/ OpenFile \/ WriteFile \/ Finish

Next == Working \/ Crash

Spec == Init /\ [][Next]_vars

-----------------------------------------------------------------------------
(* Properties *)

\* The types; and below the output directory everything is in a directory.
TypeOK ==
    /\ payload \subseteq Entry /\ mode \in {"unpack", "stage"}
    /\ DOMAIN tree \subseteq Path \ {<<>>}
    /\ \A p \in DOMAIN tree : \A d \in Chain(p) \ {p} : Exists(d) /\ ~IsFile(d)
    /\ todo \subseteq payload /\ cur \in Entry
    /\ pc \in {"open", "write"} => cur \in Files(payload) \ todo
    /\ pc \in {"idle", "next", "open", "write"}
    /\ result \in {"none", "ok", "failed", "cut off"}
    /\ crashes \in 0 .. MaxCrashes

\* A payload file that looks executable, or any payload file in stage mode, is never
\* found but directly in a quarantine directory, also while a call runs and after it
\* was cut off or failed (lib.rs, write_payload_file).
HeldInQuarantine ==
    \A p \in DOMAIN tree : tree[p] \notin {Dir, Torn, Old} =>
        \/ tree[p].mode = "unpack" /\ p[Len(p)] \notin Executable
        \/ Len(p) > 1 /\ p[Len(p) - 1] = Quarantine

\* A call that ends well has restored every entry: no file of the payload has taken
\* the place of another one, nor a quarantined one that of one that is not.
CompleteWhenOk ==
    result = "ok" =>
        \A e \in payload :
            \/ e.kind = "file" /\ Holds(Target(e, mode), ContentOf(e, mode))
            \/ e.kind = "dir" /\ Holds(PathOf(e), Dir)

\* The directories a restore has to make, and the files it has to write.
NeededDirs ==
    UNION ({Chain(HomeOf(e, mode)) : e \in Files(payload)}
           \union {Chain(PathOf(e)) : e \in {f \in payload : f.kind = "dir"}})
NeededFiles == {Target(e, mode) : e \in Files(payload)}

\* One path would have to be a directory and a file.
Clash ==
    \/ NeededDirs \intersect NeededFiles # {}
    \/ \E p \in DOMAIN prior : IF prior[p] = Dir THEN p \in NeededFiles ELSE p \in NeededDirs

\* A call fails for a clash or a refused entry and for nothing else: what an earlier call that was cut
\* off has left never makes the next one fail, in whatever order entries come.
FailsOnlyOnClash ==
    LET refused == \E e \in payload : e.kind = "refused"
    IN  (result = "failed" => Clash \/ refused) /\ (result = "ok" => ~Clash /\ ~refused)

\* Nothing disappears, and what is not a place this payload has to fill stays as it is.
OnlyOwnPlacesChange ==
    [][\A p \in DOMAIN tree : p \in DOMAIN tree' /\ (p \notin NeededFiles => tree'[p] = tree[p])]_tree

\* The tree a restore is to end with: what there was, the directories, and every file
\* with its own bytes.
Restored ==
    LET entryAt(p) == CHOOSE e \in Files(payload) : Target(e, mode) = p
    IN  [p \in DOMAIN prior \union NeededDirs \union NeededFiles |->
            CASE p \in NeededFiles -> ContentOf(entryAt(p), mode)
              [] p \in DOMAIN prior \ NeededFiles -> prior[p]
              [] OTHER -> Dir]

\* In whatever order the entries come, and wherever calls before it were cut off, a
\* restore that ends well has left that tree and nothing else: no file torn by an earlier
\* call, none beside its place, no directory more (lib.rs, the loop over the entries).
LeavesNoTrace == result = "ok" => tree = Restored

\* What the manual says of stage: all files go to DIR/quarantine/.
StagedAtTop ==
    mode = "stage" =>
        \A p \in DOMAIN tree : tree[p] \notin {Dir, Torn, Old} => Len(p) = 2 /\ p[1] = Quarantine
=============================================================================
