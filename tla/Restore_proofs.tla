--------------------------- MODULE Restore_proofs ---------------------------
(***************************************************************************)
(* Type correctness, quarantine, completeness, the frame property, the     *)
(* reasons to fail and the tree that is left, of Restore, for every        *)
(* payload and output directory.                                           *)
(***************************************************************************)
EXTENDS Restore, WellFoundedInduction, TLAPS

-----------------------------------------------------------------------------
(* Paths *)

LEMMA AppendInjective ==
    ASSUME NEW s \in Seq(Name), NEW t \in Seq(Name), NEW x \in Name, NEW y \in Name,
           Append(s, x) = Append(t, y)
    PROVE  s = t /\ x = y
<1>1. Len(Append(s, x)) = Len(s) + 1 /\ Len(Append(t, y)) = Len(t) + 1
  OBVIOUS
<1>2. Len(s) = Len(t) /\ Len(s) \in Nat
  BY <1>1
<1>3. x = Append(s, x)[Len(s) + 1] /\ y = Append(t, y)[Len(t) + 1]
  OBVIOUS
<1>4. \A i \in 1 .. Len(s) : s[i] = Append(s, x)[i] /\ t[i] = Append(t, y)[i]
  BY <1>2
<1> QED
  BY <1>2, <1>3, <1>4

\* The directories above a longer path are those of the shorter one, and it.
LEMMA ChainAppend ==
    ASSUME NEW path \in Path, NEW n \in Name
    PROVE  /\ Append(path, n) \in Path \ {<<>>}
           /\ Chain(Append(path, n)) = Chain(path) \union {Append(path, n)}
<1> DEFINE long == Append(path, n)
<1>1. long \in Seq(Name) /\ Len(long) = Len(path) + 1 /\ Len(path) \in Nat /\ long # <<>>
  BY DEF Path
<1>2. \A k \in 1 .. Len(path) : SubSeq(long, 1, k) = SubSeq(path, 1, k)
  BY DEF Path
<1>3. SubSeq(long, 1, Len(long)) = long
  BY <1>1
<1> HIDE DEF long
<1>4. Chain(long) = {SubSeq(long, 1, k) : k \in 1 .. Len(path)} \union {long}
  <2>1. 1 .. Len(long) = (1 .. Len(path)) \union {Len(long)}
    BY <1>1
  <2> QED
    BY <1>3, <2>1 DEF Chain
<1> QED
  BY <1>1, <1>2, <1>4 DEF Chain, Path, long

\* The directories of a path are paths, and theirs are among them.
LEMMA ChainType ==
    ASSUME NEW path \in Path, NEW d \in Chain(path)
    PROVE  d \in Path \ {<<>>} /\ Chain(d) \subseteq Chain(path)
<1>1. PICK n \in 1 .. Len(path) : d = SubSeq(path, 1, n)
  BY DEF Chain
<1>2. d \in Seq(Name) /\ Len(d) = n /\ n \in Nat /\ n <= Len(path)
  BY <1>1 DEF Path
<1>3. \A k \in 1 .. n : SubSeq(d, 1, k) = SubSeq(path, 1, k)
  BY <1>1, <1>2 DEF Path
<1>4. d # <<>>
  BY <1>1, <1>2
<1>5. \A k \in 1 .. n : k \in 1 .. Len(path)
  BY <1>2 DEF Path
<1> QED
  BY <1>2, <1>3, <1>4, <1>5 DEF Chain, Path

\* The place of an entry, and of the directory it is put into.
LEMMA TargetType ==
    ASSUME NEW e \in Entry, NEW m
    PROVE  /\ HomeOf(e, m) \in Path /\ Target(e, m) \in Path \ {<<>>}
           /\ Chain(Target(e, m)) = Chain(HomeOf(e, m)) \union {Target(e, m)}
           /\ PathOf(e) \in Path \ {<<>>} /\ e.dir \in Path
<1>1. e.dir \in Path /\ e.name \in Name
  BY DEF Entry
<1>2. HomeOf(e, m) \in Path
  BY <1>1, ChainAppend, RestoreAssumption DEF HomeOf
<1> QED
  BY <1>1, <1>2, ChainAppend DEF Target, PathOf

\* Two files of a payload have different places: quarantined files of one name come
\* from different directories, and whether a file is quarantined depends on its name.
LEMMA TargetInjective ==
    ASSUME NEW e \in Entry, NEW f \in Entry, NEW m, Target(e, m) = Target(f, m)
    PROVE  PathOf(e) = PathOf(f)
<1>1. /\ e.dir \in Seq(Name) /\ e.name \in Name /\ f.dir \in Seq(Name) /\ f.name \in Name
      /\ Quarantine \in Name
  BY RestoreAssumption DEF Entry, Path
<1>2. HomeOf(e, m) \in Seq(Name) /\ HomeOf(f, m) \in Seq(Name)
  BY TargetType DEF Path
<1>3. e.name = f.name /\ HomeOf(e, m) = HomeOf(f, m)
  BY <1>1, <1>2, AppendInjective DEF Target
<1>4. Quarantined(e, m) <=> Quarantined(f, m)
  BY <1>3 DEF Quarantined
<1>5. e.dir = f.dir
  BY <1>1, <1>3, <1>4, AppendInjective DEF HomeOf
<1> QED
  BY <1>3, <1>5 DEF PathOf

\* A place is not above itself.
LEMMA TargetNotInHome ==
    ASSUME NEW e \in Entry, NEW m
    PROVE  Target(e, m) \notin Chain(HomeOf(e, m))
<1> DEFINE home == HomeOf(e, m)
           target == Target(e, m)
<1>1. home \in Seq(Name) /\ e.name \in Name
  BY TargetType DEF Path, Entry
<1>2. Len(target) = Len(home) + 1 /\ Len(home) \in Nat
  BY <1>1 DEF Target
<1>3. \A n \in 1 .. Len(home) : Len(SubSeq(home, 1, n)) = n
  BY <1>1
<1> QED
  BY <1>2, <1>3 DEF Chain

-----------------------------------------------------------------------------
(* The strengthening.  The tree is a function whose paths are in           *)
(* directories; a file of the payload is only found at its place; and      *)
(* every entry the call has dealt with, but the one it is at, is there.    *)

TreeOK(t) ==
    /\ t = [p \in DOMAIN t |-> t[p]]
    /\ DOMAIN t \subseteq Path \ {<<>>}
    /\ \A p \in DOMAIN t : \A d \in Chain(p) \ {p} : d \in DOMAIN t /\ t[d] = Dir

ContentsOK(t) ==
    \A p \in DOMAIN t :
        \/ t[p] \in {Dir, Torn, Old}
        \/ \E e \in Files(payload) : p = Target(e, mode) /\ t[p] = ContentOf(e, mode)

Done(t, e) ==
    \/ e.kind = "file" /\ Target(e, mode) \in DOMAIN t /\ t[Target(e, mode)] = ContentOf(e, mode)
    \/ e.kind = "dir" /\ PathOf(e) \in DOMAIN t /\ t[PathOf(e)] = Dir

AllDone ==
    pc # "idle" \/ result = "ok" =>
        \A e \in payload \ todo : Done(tree, e) \/ (pc \in {"open", "write"} /\ e = cur)

IInv ==
    /\ TypeOK
    /\ payload \in Payloads
    /\ TreeOK(tree) /\ ContentsOK(tree)
    /\ pc = "write" => Target(cur, mode) \in DOMAIN tree /\ tree[Target(cur, mode)] = Torn
    /\ result = "ok" => pc = "idle" /\ todo = {}
    /\ AllDone

\* What TypeOK says of the tree is part of TreeOK.
LEMMA TreeType ==
    ASSUME TreeOK(tree)
    PROVE  /\ DOMAIN tree \subseteq Path \ {<<>>}
           /\ \A p \in DOMAIN tree : \A d \in Chain(p) \ {p} : Exists(d) /\ ~IsFile(d)
BY DEF TreeOK, Exists, IsFile

\* Making directories adds directories, keeps what there is, and leaves a tree.
LEMMA MakeTree ==
    ASSUME TreeOK(tree), ContentsOK(tree), NEW path \in Path, CanMake(path)
    PROVE  /\ DOMAIN Make(path) = DOMAIN tree \union Chain(path)
           /\ \A p \in DOMAIN tree : Make(path)[p] = tree[p]
           /\ \A d \in Chain(path) : Make(path)[d] = Dir
           /\ TreeOK(Make(path)) /\ ContentsOK(Make(path))
<1> DEFINE t == Make(path)
<1>1. /\ DOMAIN t = DOMAIN tree \union Chain(path)
      /\ \A p \in DOMAIN t : t[p] = IF p \in DOMAIN tree THEN tree[p] ELSE Dir
      /\ t = [p \in DOMAIN t |-> t[p]]
  BY DEF Make, Exists
<1>2. \A d \in Chain(path) : d \in DOMAIN tree => tree[d] = Dir
  BY DEF CanMake, IsFile, Exists
<1> HIDE DEF t
<1>3. \A d \in Chain(path) : t[d] = Dir
  BY <1>1, <1>2
<1>4. DOMAIN t \subseteq Path \ {<<>>}
  BY <1>1, ChainType DEF TreeOK
<1>5. ASSUME NEW p \in DOMAIN t, NEW d \in Chain(p) \ {p}
      PROVE  d \in DOMAIN t /\ t[d] = Dir
  <2>1. CASE p \in DOMAIN tree
    BY <1>1, <1>5, <2>1 DEF TreeOK
  <2>2. CASE p \in Chain(path)
    BY <1>1, <1>3, <1>5, <2>2, ChainType
  <2> QED
    BY <1>1, <2>1, <2>2
<1>6. TreeOK(t)
  BY <1>1, <1>4, <1>5 DEF TreeOK
<1>7. ContentsOK(t)
  BY <1>1 DEF ContentsOK
<1> QED
  BY <1>1, <1>3, <1>6, <1>7 DEF t

\* What is done stays done when directories are added.
LEMMA DoneKept ==
    ASSUME NEW t, NEW u, NEW e,
           \A p \in DOMAIN t : p \in DOMAIN u /\ u[p] = t[p], Done(t, e)
    PROVE  Done(u, e)
BY DEF Done

\* A truncated file is where there was a file or nothing, and its directory is there.
LEMMA TruncateTree ==
    ASSUME TreeOK(tree), ContentsOK(tree), NEW e \in Entry, NEW m, CanMake(HomeOf(e, m)),
           Exists(Target(e, m)) => IsFile(Target(e, m))
    PROVE  LET u == With(Make(HomeOf(e, m)), Target(e, m), Torn)
           IN  /\ DOMAIN tree \subseteq DOMAIN u
               /\ Target(e, m) \in DOMAIN u /\ u[Target(e, m)] = Torn
               /\ \A p \in DOMAIN tree : p # Target(e, m) => u[p] = tree[p]
               /\ TreeOK(u) /\ ContentsOK(u)
<1> DEFINE home == HomeOf(e, m)
           target == Target(e, m)
           t == Make(home)
           u == With(t, target, Torn)
<1>1. /\ home \in Path /\ target \in Path \ {<<>>}
      /\ Chain(target) = Chain(home) \union {target} /\ target \notin Chain(home)
  BY TargetType, TargetNotInHome
<1>2. /\ DOMAIN t = DOMAIN tree \union Chain(home)
      /\ \A p \in DOMAIN tree : t[p] = tree[p]
      /\ \A d \in Chain(home) : t[d] = Dir
      /\ TreeOK(t) /\ ContentsOK(t)
  BY <1>1, MakeTree
<1>3. target \in DOMAIN tree => tree[target] # Dir
  BY DEF Exists, IsFile
<1> HIDE DEF home, target, t
<1>4. /\ DOMAIN u = DOMAIN t \union {target}
      /\ \A p \in DOMAIN u : u[p] = IF p = target THEN Torn ELSE t[p]
      /\ u = [p \in DOMAIN u |-> u[p]]
  BY DEF With
<1> HIDE DEF u
<1>5. target \in DOMAIN t => t[target] # Dir
  BY <1>1, <1>2, <1>3
<1>6. ASSUME NEW p \in DOMAIN u, NEW d \in Chain(p) \ {p}
      PROVE  d \in DOMAIN u /\ u[d] = Dir
  <2>1. d \in DOMAIN t /\ t[d] = Dir
    <3>1. CASE p \in DOMAIN t
      BY <1>2, <1>6, <3>1 DEF TreeOK
    <3>2. CASE p = target
      BY <1>1, <1>2, <1>6, <3>2
    <3> QED
      BY <1>4, <3>1, <3>2
  <2> QED
    BY <1>4, <1>5, <2>1
<1>7. TreeOK(u)
  <2>1. DOMAIN u \subseteq Path \ {<<>>}
    BY <1>1, <1>2, <1>4 DEF TreeOK
  <2> QED
    BY <1>4, <1>6, <2>1 DEF TreeOK
<1>8. ContentsOK(u)
  BY <1>2, <1>4 DEF ContentsOK
<1>9. /\ DOMAIN tree \subseteq DOMAIN u /\ target \in DOMAIN u /\ u[target] = Torn
      /\ \A p \in DOMAIN tree : p # target => u[p] = tree[p]
  BY <1>2, <1>4
<1> QED
  BY <1>7, <1>8, <1>9 DEF u, t, home, target

\* Different files of a payload have different places.
LEMMA PlacesDiffer ==
    ASSUME TypeOK, payload \in Payloads, NEW e \in payload, NEW f \in payload,
           Target(e, mode) = Target(f, mode)
    PROVE  e = f
<1>1. e \in Entry /\ f \in Entry
  BY DEF TypeOK
<1>2. PathOf(e) = PathOf(f)
  BY <1>1, TargetInjective
<1> QED
  BY <1>2, RestoreAssumption

\* What holds of the next tree holds in the next state.
LEMMA NextTree ==
    ASSUME payload' = payload, mode' = mode, TreeOK(tree'), ContentsOK(tree')
    PROVE  TreeOK(tree)' /\ ContentsOK(tree)'
<1>1. TreeOK(tree)'
  BY DEF TreeOK
<1>2. ContentsOK(tree)'
  BY DEF ContentsOK, Files, Target, HomeOf, Quarantined, ContentOf
<1> QED
  BY <1>1, <1>2

-----------------------------------------------------------------------------
(* The strengthening holds at first, and every action keeps it *)

LEMMA InitInv == Init => IInv
<1> SUFFICES ASSUME Init PROVE IInv
  OBVIOUS
<1>1. payload \in Payloads /\ prior \in Priors /\ tree = prior
  BY DEF Init
<1>2. TreeOK(tree)
  BY <1>1, RestoreAssumption DEF TreeOK
<1>3. ContentsOK(tree)
  BY <1>1, RestoreAssumption DEF ContentsOK
<1>4. cur \in Entry
  <2>1. <<>> \in Path /\ Quarantine \in Name
    BY RestoreAssumption DEF Path
  <2> QED
    BY <2>1 DEF Init, Entry
<1>5. TypeOK
  <2>1. payload \subseteq Entry /\ crashes \in 0 .. MaxCrashes
    BY <1>1, RestoreAssumption DEF Init
  <2> QED
    BY <1>2, <1>4, <2>1, TreeType DEF TypeOK, Init
<1> QED
  BY <1>1, <1>2, <1>3, <1>5 DEF IInv, AllDone, Init

\* A call that begins has dealt with nothing yet.
LEMMA StartKeeps == IInv /\ Start => IInv'
<1> SUFFICES ASSUME IInv, Start PROVE IInv'
  OBVIOUS
<1>1. TypeOK'
  BY DEF IInv, TypeOK, Start, given, Exists, IsFile, Files
<1>2. TreeOK(tree)' /\ ContentsOK(tree)'
  <2>1. payload' = payload /\ mode' = mode /\ tree' = tree /\ TreeOK(tree) /\ ContentsOK(tree)
    BY DEF IInv, Start, given
  <2> QED
    BY <2>1, NextTree
<1>3. AllDone'
  BY DEF AllDone, Start, given
<1> QED
  BY <1>1, <1>2, <1>3 DEF IInv, Start, given

\* A call that fails, having at most made directories.
LEMMA FailKeeps ==
    ASSUME IInv, Fail, TreeOK(tree'), ContentsOK(tree')
    PROVE  IInv'
<1>1. TypeOK'
  <2>1. TreeOK(tree)'
    BY DEF TreeOK
  <2>2. /\ DOMAIN tree' \subseteq Path \ {<<>>}
        /\ \A p \in DOMAIN tree' : \A d \in Chain(p) \ {p} : d \in DOMAIN tree' /\ tree'[d] = Dir
    BY DEF TreeOK
  <2> QED
    BY <2>2 DEF IInv, TypeOK, Fail, given, Exists, IsFile, Files
<1>2. TreeOK(tree)' /\ ContentsOK(tree)'
  BY NextTree DEF Fail, given
<1>3. AllDone'
  BY DEF AllDone, Fail
<1> QED
  BY <1>1, <1>2, <1>3 DEF IInv, Fail, given

\* A directory is there once it was taken; a file is the one the call is then at.
LEMMA TakeEntryKeeps ==
    ASSUME IInv, NEW e \in payload, TakeEntry(e)
    PROVE  IInv'
<1> DEFINE made == IF e.kind = "dir" THEN PathOf(e) ELSE e.dir
<1>1. e \in Entry /\ made \in Path
  BY TargetType DEF IInv, TypeOK
<1>2. CASE (e.kind = "refused" \/ ~CanMake(made)) /\ UNCHANGED tree /\ Fail
  BY <1>2, FailKeeps DEF IInv
<1>3. CASE /\ e.kind # "refused" /\ CanMake(made)
           /\ tree' = Make(made)
           /\ todo' = todo \ {e}
           /\ cur' = e
           /\ pc' = IF e.kind = "file" THEN "open" ELSE "next"
           /\ UNCHANGED <<given, result, crashes>>
  <2>1. /\ DOMAIN tree' = DOMAIN tree \union Chain(made)
        /\ \A p \in DOMAIN tree : tree'[p] = tree[p]
        /\ \A d \in Chain(made) : tree'[d] = Dir
        /\ TreeOK(tree') /\ ContentsOK(tree')
    BY <1>1, <1>3, MakeTree DEF IInv
  <2>2. pc = "next" /\ e \in todo
    BY DEF TakeEntry, Listed
  <2>3. TypeOK'
    <3>1. /\ DOMAIN tree' \subseteq Path \ {<<>>}
          /\ \A p \in DOMAIN tree' : \A d \in Chain(p) \ {p} : d \in DOMAIN tree' /\ tree'[d] = Dir
      BY <2>1 DEF TreeOK
    <3>2. pc' \in {"open", "write"} => cur' \in Files(payload) \ todo'
      BY <1>3 DEF Files
    <3> QED
      BY <1>1, <1>3, <3>1, <3>2 DEF IInv, TypeOK, given, Exists, IsFile, Files
  <2>4. TreeOK(tree)' /\ ContentsOK(tree)'
    BY <1>3, <2>1, NextTree DEF given
  <2>5. AllDone'
    <3> SUFFICES ASSUME NEW f \in payload \ todo'
                 PROVE  Done(tree, f)' \/ (pc' = "open" /\ f = cur')
      BY <1>3 DEF AllDone, given
    <3>1. CASE f # e
      <4>1. Done(tree, f)
        BY <1>3, <2>2, <3>1 DEF IInv, AllDone
      <4> QED
        BY <1>3, <2>1, <4>1 DEF Done, given, Target, HomeOf, Quarantined, ContentOf
    <3>2. CASE f = e /\ e.kind = "file"
      BY <1>3, <3>2
    <3>3. CASE f = e /\ e.kind = "dir"
      <4>1. PathOf(e) \in Chain(made)
        BY <1>1, <3>3, ChainAppend DEF PathOf, Entry
      <4> QED
        BY <2>1, <3>3, <4>1 DEF Done
    <3>4. e.kind \in {"file", "dir"}
      BY <1>1, <1>3 DEF Entry
    <3> QED
      BY <3>1, <3>2, <3>3, <3>4
  <2> QED
    BY <1>3, <2>2, <2>3, <2>4, <2>5 DEF IInv, given
<1> QED
  BY <1>2, <1>3 DEF TakeEntry

\* Truncating the place of a file takes nothing of what is done: that is not the
\* place of another file, nor a directory.
LEMMA OpenFileKeeps == IInv /\ OpenFile => IInv'
<1> SUFFICES ASSUME IInv, OpenFile PROVE IInv'
  OBVIOUS
<1> DEFINE home == HomeOf(cur, mode)
           target == Target(cur, mode)
<1>1. /\ cur \in Entry /\ cur \in payload \ todo /\ cur.kind = "file" /\ home \in Path
      /\ pc = "open"
  BY TargetType DEF IInv, TypeOK, OpenFile, Files
<1>2. CASE ~CanMake(home) /\ UNCHANGED tree /\ Fail
  BY <1>2, FailKeeps DEF IInv
<1>3. CASE CanMake(home) /\ tree' = Make(home) /\ Fail
  BY <1>1, <1>3, MakeTree, FailKeeps DEF IInv
<1>4. CASE /\ CanMake(home) /\ (Exists(target) => IsFile(target))
           /\ tree' = With(Make(home), target, Torn)
           /\ pc' = "write"
           /\ UNCHANGED <<given, todo, cur, result, crashes>>
  <2>1. /\ DOMAIN tree \subseteq DOMAIN tree'
        /\ target \in DOMAIN tree' /\ tree'[target] = Torn
        /\ \A p \in DOMAIN tree : p # target => tree'[p] = tree[p]
        /\ TreeOK(tree') /\ ContentsOK(tree')
    BY <1>1, <1>4, TruncateTree DEF IInv
  <2>2. TypeOK'
    <3>1. /\ DOMAIN tree' \subseteq Path \ {<<>>}
          /\ \A p \in DOMAIN tree' : \A d \in Chain(p) \ {p} : d \in DOMAIN tree' /\ tree'[d] = Dir
      BY <2>1 DEF TreeOK
    <3> QED
      BY <1>1, <1>4, <3>1 DEF IInv, TypeOK, given, Exists, IsFile, Files
  <2>3. TreeOK(tree)' /\ ContentsOK(tree)'
    BY <1>4, <2>1, NextTree DEF given
  <2>4. AllDone'
    <3> SUFFICES ASSUME NEW f \in payload \ todo, f # cur
                 PROVE  Done(tree, f)'
      BY <1>4 DEF AllDone, given
    <3>1. Done(tree, f)
      BY <1>1 DEF IInv, AllDone
    <3>2. Target(f, mode) # target
      BY <1>1, PlacesDiffer DEF IInv
    <3>3. PathOf(f) \in DOMAIN tree /\ tree[PathOf(f)] = Dir => PathOf(f) # target
      BY <1>4 DEF Exists, IsFile
    <3>4. Done(tree', f)
      BY <2>1, <3>1, <3>2, <3>3 DEF Done
    <3> QED
      BY <1>4, <3>4 DEF Done, given, Target, HomeOf, Quarantined, ContentOf
  <2>5. pc' = "write" => Target(cur, mode)' \in DOMAIN tree' /\ tree'[Target(cur, mode)'] = Torn
    BY <1>4, <2>1 DEF given, Target, HomeOf, Quarantined
  <2> QED
    BY <1>1, <1>4, <2>2, <2>3, <2>4, <2>5 DEF IInv, given
<1> QED
  BY <1>2, <1>3, <1>4 DEF OpenFile

\* Writing a truncated file changes no directory and no other file.
LEMMA WriteTree ==
    ASSUME IInv, WriteFile
    PROVE  /\ Target(cur, mode) \in DOMAIN tree /\ tree[Target(cur, mode)] = Torn
           /\ DOMAIN tree' = DOMAIN tree
           /\ tree'[Target(cur, mode)] = ContentOf(cur, mode)
           /\ \A p \in DOMAIN tree : p # Target(cur, mode) => tree'[p] = tree[p]
           /\ TreeOK(tree') /\ ContentsOK(tree')
<1> DEFINE target == Target(cur, mode)
           u == [tree EXCEPT ![target] = ContentOf(cur, mode)]
<1>1. target \in DOMAIN tree /\ tree[target] = Torn /\ cur \in Files(payload) /\ tree' = u
  BY DEF IInv, WriteFile, TypeOK
<1>2. /\ DOMAIN u = DOMAIN tree
      /\ \A p \in DOMAIN tree : u[p] = IF p = target THEN ContentOf(cur, mode) ELSE tree[p]
      /\ u = [p \in DOMAIN u |-> u[p]]
  OBVIOUS
<1>3. TreeOK(tree) /\ ContentsOK(tree)
  BY DEF IInv
<1>4. target = Target(cur, mode)
  OBVIOUS
<1> HIDE DEF u, target
<1>5. TreeOK(u)
  <2>1. \A d \in DOMAIN tree : tree[d] = Dir => u[d] = Dir
    BY <1>1, <1>2, RestoreAssumption
  <2> QED
    BY <1>2, <1>3, <2>1 DEF TreeOK
<1>6. ContentsOK(u)
  BY <1>1, <1>2, <1>3, <1>4 DEF ContentsOK
<1> QED
  BY <1>1, <1>2, <1>4, <1>5, <1>6

LEMMA WriteFileKeeps == IInv /\ WriteFile => IInv'
<1> SUFFICES ASSUME IInv, WriteFile PROVE IInv'
  OBVIOUS
<1>1. /\ pc = "write" /\ pc' = "next"
      /\ payload' = payload /\ mode' = mode /\ prior' = prior /\ todo' = todo /\ cur' = cur
      /\ result' = result /\ crashes' = crashes
  BY DEF WriteFile, given
<1>2. TypeOK /\ payload \in Payloads /\ AllDone /\ cur \in Files(payload)
  BY <1>1 DEF IInv, TypeOK
<1>3. TypeOK'
  <2>1. /\ DOMAIN tree' \subseteq Path \ {<<>>}
        /\ \A p \in DOMAIN tree' : \A d \in Chain(p) \ {p} : d \in DOMAIN tree' /\ tree'[d] = Dir
    BY WriteTree DEF TreeOK
  <2> QED
    BY <1>1, <1>2, <2>1 DEF TypeOK, Exists, IsFile, Files
<1>4. TreeOK(tree)' /\ ContentsOK(tree)'
  BY <1>1, WriteTree, NextTree
<1>5. AllDone'
  <2> SUFFICES ASSUME NEW f \in payload \ todo
               PROVE  Done(tree, f)'
    BY <1>1 DEF AllDone
  <2>1. Done(tree', f)
    <3>1. CASE f = cur
      BY <1>2, <3>1, WriteTree DEF Done, Files
    <3>2. CASE f # cur
      <4>1. Done(tree, f)
        BY <1>1, <1>2, <3>2 DEF AllDone
      <4>2. Target(f, mode) # Target(cur, mode)
        BY <1>2, <3>2, PlacesDiffer DEF Files
      <4>3. PathOf(f) \in DOMAIN tree /\ tree[PathOf(f)] = Dir => PathOf(f) # Target(cur, mode)
        BY WriteTree, RestoreAssumption
      <4> QED
        BY <4>1, <4>2, <4>3, WriteTree DEF Done
    <3> QED
      BY <3>1, <3>2
  <2> QED
    BY <1>1, <2>1 DEF Done, Target, HomeOf, Quarantined, ContentOf
<1> QED
  BY <1>1, <1>2, <1>3, <1>4, <1>5 DEF IInv

\* Ending, well or not, leaves the tree alone.
LEMMA EndKeeps == IInv /\ (Finish \/ Crash) => IInv'
<1> SUFFICES ASSUME IInv, Finish \/ Crash PROVE IInv'
  OBVIOUS
<1>1. /\ payload' = payload /\ mode' = mode /\ prior' = prior /\ tree' = tree
      /\ todo' = todo /\ cur' = cur /\ pc # "idle" /\ pc' = "idle"
      /\ \/ pc = "next" /\ todo = {} /\ result' = "ok" /\ crashes' = crashes
         \/ result' = "cut off" /\ crashes < MaxCrashes /\ crashes' = crashes + 1
  BY DEF Finish, Crash, given
<1>2. TypeOK /\ payload \in Payloads /\ TreeOK(tree) /\ ContentsOK(tree) /\ AllDone
  BY DEF IInv
<1>3. TypeOK'
  <2>1. crashes' \in 0 .. MaxCrashes
    <3>1. crashes \in 0 .. MaxCrashes /\ MaxCrashes \in Nat
      BY <1>2, RestoreAssumption DEF TypeOK
    <3>2. crashes' = crashes \/ (crashes < MaxCrashes /\ crashes' = crashes + 1)
      BY <1>1
    <3> QED
      BY <3>1, <3>2
  <2> QED
    BY <1>1, <1>2, <2>1 DEF TypeOK, Exists, IsFile, Files
<1>4. TreeOK(tree)' /\ ContentsOK(tree)'
  BY <1>1, <1>2, NextTree
<1>5. AllDone'
  <2> SUFFICES ASSUME result' = "ok", NEW f \in payload \ todo
               PROVE  Done(tree, f)'
    BY <1>1 DEF AllDone
  <2>1. Done(tree, f)
    BY <1>1, <1>2 DEF AllDone
  <2> QED
    BY <1>1, <2>1 DEF Done, Target, HomeOf, Quarantined, ContentOf
<1> QED
  BY <1>1, <1>2, <1>3, <1>4, <1>5 DEF IInv

LEMMA StutterKeeps == IInv /\ UNCHANGED vars => IInv'
<1> SUFFICES ASSUME IInv, UNCHANGED vars PROVE IInv'
  OBVIOUS
<1>1. /\ payload' = payload /\ mode' = mode /\ prior' = prior /\ tree' = tree /\ todo' = todo
      /\ pc' = pc /\ cur' = cur /\ result' = result /\ crashes' = crashes
  BY DEF vars
<1>2. TypeOK'
  BY <1>1 DEF IInv, TypeOK, Exists, IsFile, Files
<1>3. TreeOK(tree) /\ ContentsOK(tree)
  BY DEF IInv
<1>4. TreeOK(tree)' /\ ContentsOK(tree)'
  BY <1>1, <1>3, NextTree
<1>5. AllDone'
  BY <1>1 DEF IInv, AllDone, Done, Target, HomeOf, Quarantined, ContentOf
<1>6. pc' = "write" => Target(cur, mode)' \in DOMAIN tree' /\ tree'[Target(cur, mode)'] = Torn
  BY <1>1 DEF IInv, Target, HomeOf, Quarantined
<1> QED
  BY <1>1, <1>2, <1>4, <1>5, <1>6 DEF IInv

LEMMA Inductive == IInv /\ [Next]_vars => IInv'
BY StartKeeps, TakeEntryKeeps, OpenFileKeeps, WriteFileKeeps, EndKeeps, StutterKeeps
   DEF Next, Working

LEMMA Always == Spec => []IInv
BY InitInv, Inductive, PTL DEF Spec

-----------------------------------------------------------------------------
(* Theorems *)

\* Every state has the types of its variables, and below the output directory
\* everything is in a directory.
THEOREM TypeCorrect == Spec => []TypeOK
BY Always, PTL DEF IInv

\* What ContentsOK means for one file.
LEMMA HeldWhenWritten == IInv => HeldInQuarantine
<1> SUFFICES ASSUME IInv, NEW p \in DOMAIN tree, tree[p] \notin {Dir, Torn, Old}
             PROVE  \/ tree[p].mode = "unpack" /\ p[Len(p)] \notin Executable
                    \/ Len(p) > 1 /\ p[Len(p) - 1] = Quarantine
  BY DEF HeldInQuarantine
<1>1. PICK e \in Files(payload) : p = Target(e, mode) /\ tree[p] = ContentOf(e, mode)
  BY DEF IInv, ContentsOK
<1>2. /\ e.dir \in Seq(Name) /\ e.name \in Name /\ HomeOf(e, mode) \in Seq(Name)
      /\ Quarantine \in Name /\ mode \in {"unpack", "stage"}
  BY TargetType, RestoreAssumption DEF IInv, TypeOK, Files, Entry, Path
<1>3. /\ p = Append(HomeOf(e, mode), e.name) /\ Len(p) = Len(HomeOf(e, mode)) + 1
      /\ Len(HomeOf(e, mode)) \in Nat
  BY <1>1, <1>2 DEF Target
<1>4. CASE Quarantined(e, mode)
  <2>1. HomeOf(e, mode) = Append(e.dir, Quarantine)
    BY <1>4 DEF HomeOf
  <2>2. /\ Len(HomeOf(e, mode)) = Len(e.dir) + 1 /\ Len(e.dir) \in Nat
        /\ HomeOf(e, mode)[Len(HomeOf(e, mode))] = Quarantine
    BY <1>2, <2>1
  <2>3. p[Len(HomeOf(e, mode))] = HomeOf(e, mode)[Len(HomeOf(e, mode))]
    BY <1>2, <1>3, <2>2
  <2> QED
    BY <1>3, <2>2, <2>3
<1>5. CASE ~Quarantined(e, mode)
  <2>1. mode = "unpack" /\ e.name \notin Executable
    BY <1>2, <1>5 DEF Quarantined
  <2>2. p[Len(p)] = e.name
    BY <1>2, <1>3
  <2>3. tree[p].mode = mode
    BY <1>1 DEF ContentOf
  <2> QED
    BY <2>1, <2>2, <2>3
<1> QED
  BY <1>4, <1>5

\* At every step of every call, a payload file that looks executable, and in stage
\* mode any payload file, is directly in a quarantine directory or not there at all.
THEOREM Held == Spec => []HeldInQuarantine
BY Always, HeldWhenWritten, PTL

\* A call that ends well has restored every entry, each with its own bytes.
THEOREM Complete == Spec => []CompleteWhenOk
<1>1. IInv => CompleteWhenOk
  BY DEF IInv, AllDone, Done, CompleteWhenOk, Holds, Exists
<1> QED
  BY <1>1, Always, PTL

\* No step removes anything, or changes what is not a place this payload has to fill.
LEMMA StepIsFramed ==
    ASSUME IInv, [Next]_vars
    PROVE  \A p \in DOMAIN tree : p \in DOMAIN tree' /\ (p \notin NeededFiles => tree'[p] = tree[p])
<1> DEFINE Kept == \A p \in DOMAIN tree : p \in DOMAIN tree' /\ (p \notin NeededFiles => tree'[p] = tree[p])
<1>1. ASSUME NEW path \in Path, CanMake(path), tree' = Make(path) PROVE Kept
  BY <1>1, MakeTree DEF IInv
<1>2. ASSUME NEW e \in payload, TakeEntry(e) PROVE Kept
  <2>1. e.dir \in Path /\ PathOf(e) \in Path
    BY TargetType DEF IInv, TypeOK
  <2> QED
    BY <1>1, <1>2, <2>1 DEF TakeEntry
<1>3. ASSUME OpenFile PROVE Kept
  <2>1. /\ cur \in Entry /\ HomeOf(cur, mode) \in Path /\ Target(cur, mode) \in NeededFiles
    BY <1>3, TargetType DEF IInv, TypeOK, OpenFile, NeededFiles
  <2>2. CASE tree' = Make(HomeOf(cur, mode)) /\ CanMake(HomeOf(cur, mode))
    BY <1>1, <2>1, <2>2
  <2>3. CASE /\ CanMake(HomeOf(cur, mode))
             /\ Exists(Target(cur, mode)) => IsFile(Target(cur, mode))
             /\ tree' = With(Make(HomeOf(cur, mode)), Target(cur, mode), Torn)
    BY <2>1, <2>3, TruncateTree DEF IInv
  <2> QED
    BY <1>3, <2>2, <2>3 DEF OpenFile
<1>4. ASSUME WriteFile PROVE Kept
  <2>1. Target(cur, mode) \in NeededFiles
    BY <1>4 DEF IInv, TypeOK, WriteFile, NeededFiles
  <2> QED
    BY <1>4, <2>1, WriteTree
<1>5. CASE UNCHANGED tree
  BY <1>5
<1> QED
  BY <1>2, <1>3, <1>4, <1>5 DEF Next, Working, Start, Finish, Crash, vars

\* Neither does any behaviour.
THEOREM Frame == Spec => OnlyOwnPlacesChange
<1>1. IInv /\ [Next]_vars =>
        [\A p \in DOMAIN tree : p \in DOMAIN tree' /\ (p \notin NeededFiles => tree'[p] = tree[p])]_tree
  BY StepIsFramed
<1> QED
  BY <1>1, Always, PTL DEF Spec, OnlyOwnPlacesChange

-----------------------------------------------------------------------------
(* Failures.  What is in the tree was there before, or is needed by the    *)
(* payload; and a directory is never exchanged for a file.                 *)

Refused == \E e \in payload : e.kind = "refused"

OriginOK(t) ==
    /\ \A p \in DOMAIN prior : p \in DOMAIN t /\ (t[p] = Dir <=> prior[p] = Dir)
    /\ \A p \in DOMAIN t \ DOMAIN prior :
          /\ t[p] = Dir => p \in NeededDirs
          /\ t[p] # Dir => p \in NeededFiles

FailInv == OriginOK(tree) /\ (result = "failed" => Clash \/ Refused)

\* A step may add what is needed.
LEMMA OriginKept ==
    ASSUME OriginOK(tree), NEW t, DOMAIN tree \subseteq DOMAIN t,
           \A p \in DOMAIN tree : t[p] = Dir <=> tree[p] = Dir,
           \A p \in DOMAIN t \ DOMAIN tree :
              (t[p] = Dir => p \in NeededDirs) /\ (t[p] # Dir => p \in NeededFiles)
    PROVE  OriginOK(t)
BY DEF OriginOK

\* Nothing that is given changes what is needed.
LEMMA NextOrigin ==
    ASSUME payload' = payload, mode' = mode, prior' = prior
    PROVE  /\ OriginOK(tree') => OriginOK(tree)'
           /\ Clash => Clash'
           /\ Refused => Refused'
<1>1. NeededDirs' = NeededDirs /\ NeededFiles' = NeededFiles
  BY DEF NeededDirs, NeededFiles, Files, Target, HomeOf, Quarantined
<1> QED
  BY <1>1 DEF OriginOK, Clash, Refused

\* A file where a directory is needed, or the other way round, is a clash.
LEMMA InTheWay ==
    ASSUME OriginOK(tree), NEW p \in DOMAIN tree,
           \/ tree[p] # Dir /\ p \in NeededDirs
           \/ tree[p] = Dir /\ p \in NeededFiles
    PROVE  Clash
<1>1. CASE p \in DOMAIN prior
  BY <1>1 DEF OriginOK, Clash
<1>2. CASE p \notin DOMAIN prior
  BY <1>2 DEF OriginOK, Clash
<1> QED
  BY <1>1, <1>2

\* Where the call makes directories they are needed.
LEMMA MadeIsNeeded ==
    ASSUME NEW e \in payload, e \in Entry
    PROVE  /\ e.kind = "dir" => Chain(PathOf(e)) \subseteq NeededDirs
           /\ e.kind = "file" => /\ Chain(e.dir) \subseteq NeededDirs
                                 /\ Chain(HomeOf(e, mode)) \subseteq NeededDirs
                                 /\ Target(e, mode) \in NeededFiles
<1>1. e.kind = "file" => Chain(HomeOf(e, mode)) \subseteq NeededDirs
  BY DEF NeededDirs, Files
<1>2. Chain(e.dir) \subseteq Chain(HomeOf(e, mode))
  <2>1. e.dir \in Path /\ Quarantine \in Name
    BY RestoreAssumption DEF Entry
  <2> QED
    BY <2>1, ChainAppend DEF HomeOf
<1>3. e.kind = "dir" => Chain(PathOf(e)) \subseteq NeededDirs
  BY DEF NeededDirs
<1>4. e.kind = "file" => Target(e, mode) \in NeededFiles
  BY DEF NeededFiles, Files
<1> QED
  BY <1>1, <1>2, <1>3, <1>4

\* A call that cannot make a directory it needs has met a clash.
LEMMA CannotMake ==
    ASSUME OriginOK(tree), NEW path, Chain(path) \subseteq NeededDirs, ~CanMake(path)
    PROVE  Clash
BY InTheWay DEF CanMake, IsFile, Exists

LEMMA MakeOrigin ==
    ASSUME IInv, OriginOK(tree), NEW path \in Path, CanMake(path), Chain(path) \subseteq NeededDirs
    PROVE  OriginOK(Make(path))
<1>1. /\ DOMAIN Make(path) = DOMAIN tree \union Chain(path)
      /\ \A p \in DOMAIN tree : Make(path)[p] = tree[p]
      /\ \A d \in Chain(path) : Make(path)[d] = Dir
  BY MakeTree DEF IInv
<1> QED
  BY <1>1, OriginKept

LEMMA FailInit == Init => FailInv
BY DEF Init, FailInv, OriginOK

LEMMA TakeEntryFails ==
    ASSUME IInv, FailInv, NEW e \in payload, TakeEntry(e)
    PROVE  FailInv'
<1> DEFINE made == IF e.kind = "dir" THEN PathOf(e) ELSE e.dir
<1>1. e \in Entry /\ made \in Path /\ OriginOK(tree)
  BY TargetType DEF IInv, TypeOK, FailInv
<1>2. e.kind # "refused" => Chain(made) \subseteq NeededDirs
  <2>1. e.kind \in {"file", "dir", "refused"}
    BY <1>1 DEF Entry
  <2> QED
    BY <1>1, <2>1, MadeIsNeeded
<1>3. payload' = payload /\ mode' = mode /\ prior' = prior
  BY DEF TakeEntry, Fail, given
<1> HIDE DEF made
<1>4. CASE (e.kind = "refused" \/ ~CanMake(made)) /\ UNCHANGED tree
  <2>1. Clash \/ Refused
    BY <1>1, <1>2, <1>4, CannotMake DEF Refused
  <2> QED
    BY <1>1, <1>3, <1>4, <2>1, NextOrigin DEF FailInv
<1>5. CASE e.kind # "refused" /\ CanMake(made) /\ tree' = Make(made) /\ result' = result
  <2>1. OriginOK(tree')
    BY <1>1, <1>2, <1>5, MakeOrigin
  <2> QED
    BY <1>3, <1>5, <2>1, NextOrigin DEF FailInv
<1> QED
  BY <1>4, <1>5 DEF TakeEntry, Fail, made

LEMMA OpenFileFails == IInv /\ FailInv /\ OpenFile => FailInv'
<1> SUFFICES ASSUME IInv, FailInv, OpenFile PROVE FailInv'
  OBVIOUS
<1> DEFINE home == HomeOf(cur, mode)
           target == Target(cur, mode)
<1>1. /\ cur \in Entry /\ cur \in payload /\ cur.kind = "file" /\ home \in Path
      /\ OriginOK(tree)
  BY TargetType DEF IInv, TypeOK, OpenFile, Files, FailInv
<1>2. Chain(home) \subseteq NeededDirs /\ target \in NeededFiles
  BY <1>1, MadeIsNeeded
<1>3. payload' = payload /\ mode' = mode /\ prior' = prior
  BY DEF OpenFile, Fail, given
<1>4. CASE ~CanMake(home) /\ UNCHANGED tree
  BY <1>1, <1>2, <1>3, <1>4, CannotMake, NextOrigin DEF FailInv
<1>5. CASE CanMake(home) /\ Exists(target) /\ ~IsFile(target) /\ tree' = Make(home)
  <2>1. Clash
    BY <1>1, <1>2, <1>5, InTheWay DEF Exists, IsFile
  <2>2. OriginOK(tree')
    BY <1>1, <1>2, <1>5, MakeOrigin
  <2> QED
    BY <1>3, <2>1, <2>2, NextOrigin DEF FailInv
<1>6. CASE /\ CanMake(home) /\ (Exists(target) => IsFile(target))
           /\ tree' = With(Make(home), target, Torn)
           /\ result' = result
  <2>1. /\ DOMAIN Make(home) = DOMAIN tree \union Chain(home)
        /\ \A p \in DOMAIN tree : Make(home)[p] = tree[p]
        /\ \A d \in Chain(home) : Make(home)[d] = Dir
    BY <1>1, <1>6, MakeTree DEF IInv
  <2>2. target \notin Chain(home)
    BY <1>1, TargetNotInHome
  <2> HIDE DEF home, target
  <2>3. /\ DOMAIN tree' = DOMAIN tree \union Chain(home) \union {target}
        /\ \A p \in DOMAIN tree' : tree'[p] = IF p = target THEN Torn ELSE Make(home)[p]
    BY <1>6, <2>1 DEF With
  <2>4. \A p \in DOMAIN tree : tree'[p] = Dir <=> tree[p] = Dir
    BY <1>6, <2>1, <2>3, RestoreAssumption DEF Exists, IsFile
  <2>5. OriginOK(tree')
    <3>1. ASSUME NEW p \in DOMAIN tree' \ DOMAIN tree
          PROVE  (tree'[p] = Dir => p \in NeededDirs) /\ (tree'[p] # Dir => p \in NeededFiles)
      BY <1>2, <2>1, <2>2, <2>3, RestoreAssumption
    <3> QED
      BY <1>1, <2>3, <2>4, <3>1, OriginKept
  <2> QED
    BY <1>3, <1>6, <2>5, NextOrigin DEF FailInv
<1> QED
  BY <1>4, <1>5, <1>6 DEF OpenFile

\* The content of a file is no directory.
LEMMA ContentIsFile ==
    ASSUME TypeOK, NEW e \in payload
    PROVE  ContentOf(e, mode) # Dir
<1>1. PathOf(e) \in Path /\ mode \in {"unpack", "stage"}
  BY TargetType DEF TypeOK
<1> QED
  BY <1>1, RestoreAssumption DEF ContentOf

LEMMA WriteFileFails == IInv /\ FailInv /\ WriteFile => FailInv'
<1> SUFFICES ASSUME IInv, FailInv, WriteFile PROVE FailInv'
  OBVIOUS
<1>1. ContentOf(cur, mode) # Dir
  BY ContentIsFile DEF IInv, TypeOK, WriteFile, Files
<1>2. OriginOK(tree')
  <2>1. \A p \in DOMAIN tree : tree'[p] = Dir <=> tree[p] = Dir
    BY <1>1, WriteTree, RestoreAssumption
  <2> QED
    BY <2>1, WriteTree, OriginKept DEF FailInv
<1>3. payload' = payload /\ mode' = mode /\ prior' = prior /\ result' = result
  BY DEF WriteFile, given
<1> QED
  BY <1>2, <1>3, NextOrigin DEF FailInv

LEMMA OthersFail ==
    IInv /\ FailInv /\ (Start \/ Finish \/ Crash \/ UNCHANGED vars) => FailInv'
<1> SUFFICES ASSUME FailInv, Start \/ Finish \/ Crash \/ UNCHANGED vars PROVE FailInv'
  OBVIOUS
<1>1. /\ payload' = payload /\ mode' = mode /\ prior' = prior /\ tree' = tree
      /\ result' = result \/ result' \in {"ok", "cut off"}
  BY DEF Start, Finish, Crash, vars, given
<1> QED
  BY <1>1, NextOrigin DEF FailInv

\* Where every entry was restored, what is needed as a directory is one, and what is
\* needed as a file is none.
LEMMA NeededIsThere ==
    ASSUME IInv, result = "ok"
    PROVE  /\ \A p \in NeededFiles : p \in DOMAIN tree /\ tree[p] # Dir
           /\ \A p \in NeededDirs : p \in DOMAIN tree /\ tree[p] = Dir
<1>1. \A e \in payload : e \in Entry /\ Done(tree, e)
  BY DEF IInv, TypeOK, AllDone
<1>2. TypeOK /\ TreeOK(tree)
  BY DEF IInv
<1>3. ASSUME NEW p \in NeededFiles PROVE p \in DOMAIN tree /\ tree[p] # Dir
  <2>1. PICK e \in Files(payload) : p = Target(e, mode)
    BY DEF NeededFiles
  <2>2. e \in payload /\ e.kind = "file"
    BY DEF Files
  <2> QED
    BY <1>1, <1>2, <2>1, <2>2, ContentIsFile DEF Done
<1>4. ASSUME NEW p \in NeededDirs PROVE p \in DOMAIN tree /\ tree[p] = Dir
  <2>1. CASE \E e \in Files(payload) : p \in Chain(HomeOf(e, mode))
    <3>1. PICK e \in Files(payload) : p \in Chain(HomeOf(e, mode))
      BY <2>1
    <3>2. e \in payload /\ e \in Entry /\ e.kind = "file"
      BY <1>1 DEF Files
    <3>3. Target(e, mode) \in DOMAIN tree
      BY <1>1, <3>2 DEF Done
    <3>4. p \in Chain(Target(e, mode)) \ {Target(e, mode)}
      BY <3>1, <3>2, TargetType, TargetNotInHome
    <3> QED
      BY <1>2, <3>3, <3>4 DEF TreeOK
  <2>2. CASE \E e \in payload : e.kind = "dir" /\ p \in Chain(PathOf(e))
    <3>1. PICK e \in payload : e.kind = "dir" /\ p \in Chain(PathOf(e))
      BY <2>2
    <3>2. PathOf(e) \in DOMAIN tree /\ tree[PathOf(e)] = Dir
      BY <1>1, <3>1 DEF Done
    <3> QED
      BY <1>2, <3>1, <3>2 DEF TreeOK
  <2> QED
    BY <2>1, <2>2 DEF NeededDirs
<1> QED
  BY <1>3, <1>4

\* So it met no clash, and no entry it refuses.
LEMMA OkMeansNoClash ==
    ASSUME IInv, OriginOK(tree), result = "ok"
    PROVE  ~Clash /\ ~Refused
<1>1. ~Refused
  BY DEF IInv, AllDone, Done, Refused
<1>2. ~Clash
  BY NeededIsThere DEF Clash, OriginOK
<1> QED
  BY <1>1, <1>2

\* A call fails where one path would have to be a file and a directory, or where an
\* entry is refused, and only there: never for what an earlier call has left.
THEOREM FailsOnClash == Spec => []FailsOnlyOnClash
<1>1. IInv /\ FailInv /\ [Next]_vars => FailInv'
  BY TakeEntryFails, OpenFileFails, WriteFileFails, OthersFail DEF Next, Working
<1>2. IInv /\ FailInv => FailsOnlyOnClash
  BY OkMeansNoClash DEF FailInv, FailsOnlyOnClash, Refused
<1> QED
  BY FailInit, Always, <1>1, <1>2, PTL DEF Spec

-----------------------------------------------------------------------------
(* What is left.  Before a call ends well nothing was changed that the     *)
(* payload does not fill; when it has, all it fills is filled.             *)

Untouched == \A p \in DOMAIN prior \ NeededFiles : p \in DOMAIN tree /\ tree[p] = prior[p]

LEMMA UntouchedStep == IInv /\ FailInv /\ Untouched /\ [Next]_vars => Untouched'
<1> SUFFICES ASSUME IInv, FailInv, Untouched, [Next]_vars PROVE Untouched'
  OBVIOUS
<1>1. payload' = payload /\ mode' = mode /\ prior' = prior
  <2>1. CASE Start \/ Finish \/ Crash \/ OpenFile \/ WriteFile \/ UNCHANGED vars
    BY <2>1 DEF Start, Finish, Crash, OpenFile, WriteFile, Fail, vars, given
  <2>2. CASE \E e \in payload : TakeEntry(e)
    BY <2>2 DEF TakeEntry, Fail, given
  <2> QED
    BY <2>1, <2>2 DEF Next, Working
<1>2. NeededFiles' = NeededFiles
  BY <1>1 DEF NeededFiles, Files, Target, HomeOf, Quarantined
<1>3. \A p \in DOMAIN tree : p \in DOMAIN tree' /\ (p \notin NeededFiles => tree'[p] = tree[p])
  BY StepIsFramed
<1> QED
  BY <1>1, <1>2, <1>3 DEF Untouched

\* Where all is restored, the tree has the places it should have and no other.
LEMMA RestoredPlaces ==
    ASSUME IInv, FailInv, result = "ok"
    PROVE  DOMAIN tree = DOMAIN prior \union NeededDirs \union NeededFiles
<1>1. DOMAIN prior \subseteq DOMAIN tree /\ DOMAIN tree \subseteq DOMAIN prior \union NeededDirs \union NeededFiles
  BY DEF FailInv, OriginOK
<1>2. NeededDirs \subseteq DOMAIN tree /\ NeededFiles \subseteq DOMAIN tree
  BY NeededIsThere
<1> QED
  BY <1>1, <1>2

\* Every place holds what it should.
LEMMA RestoredContent ==
    ASSUME IInv, FailInv, Untouched, result = "ok", NEW p \in DOMAIN tree
    PROVE  tree[p] = Restored[p]
<1> DEFINE entryAt(r) == CHOOSE e \in Files(payload) : Target(e, mode) = r
<1>1. p \in DOMAIN prior \union NeededDirs \union NeededFiles
  BY RestoredPlaces
<1>2. Restored[p] = CASE p \in NeededFiles -> ContentOf(entryAt(p), mode)
                      [] p \in DOMAIN prior \ NeededFiles -> prior[p]
                      [] OTHER -> Dir
  BY <1>1 DEF Restored
<1>3. CASE p \in NeededFiles
  <2>1. PICK e \in Files(payload) : p = Target(e, mode)
    BY <1>3 DEF NeededFiles
  <2>2. entryAt(p) \in Files(payload) /\ Target(entryAt(p), mode) = p
    BY <2>1
  <2> HIDE DEF entryAt
  <2>3. tree[p] = ContentOf(entryAt(p), mode)
    BY <2>2 DEF IInv, AllDone, Done, Files
  <2> QED
    BY <1>2, <1>3, <2>3
<1>4. CASE p \in DOMAIN prior \ NeededFiles
  BY <1>2, <1>4 DEF Untouched
<1>5. CASE p \notin DOMAIN prior /\ p \notin NeededFiles
  BY <1>2, <1>5 DEF FailInv, OriginOK
<1> QED
  BY <1>3, <1>4, <1>5

\* A restore that ends well has left the one tree that archive, mode and what was there
\* before determine, for every archive, however often calls before it were cut off and
\* in whatever order entries came.
THEOREM NoTrace == Spec => []LeavesNoTrace
<1>1. Init => Untouched
  BY DEF Init, Untouched
<1>2. IInv /\ FailInv /\ [Next]_vars => FailInv'
  BY TakeEntryFails, OpenFileFails, WriteFileFails, OthersFail DEF Next, Working
<1>3. IInv /\ FailInv /\ Untouched => LeavesNoTrace
  <2> SUFFICES ASSUME IInv, FailInv, Untouched, result = "ok" PROVE tree = Restored
    BY DEF LeavesNoTrace
  <2>1. tree = [p \in DOMAIN tree |-> tree[p]]
    BY DEF IInv, TreeOK
  <2>2. DOMAIN tree = DOMAIN Restored
    BY RestoredPlaces DEF Restored
  <2>3. Restored = [p \in DOMAIN Restored |-> Restored[p]]
    BY DEF Restored
  <2>4. \A p \in DOMAIN tree : tree[p] = Restored[p]
    BY RestoredContent
  <2> QED
    BY ONLY <2>1, <2>2, <2>3, <2>4
<1> QED
  BY FailInit, Always, UntouchedStep, <1>1, <1>2, <1>3, PTL DEF Spec

-----------------------------------------------------------------------------
(* Before the end there is always a step.                                  *)

\* A restore can go on: it can begin, is at a file, or is through, or has an entry to take.
CanGoOn ==
    \/ pc = "idle" /\ result \in {"none", "cut off"}
    \/ pc \in {"open", "write"}
    \/ pc = "next" /\ (todo = {} \/ \E e \in payload : Listed(e))

\* Of the entries left, one with no other above it is the next of the archive.
LEMMA OneIsListed ==
    ASSUME IInv, todo # {}
    PROVE  \E e \in payload : Listed(e)
<1> DEFINE depths == {Len(e.dir) : e \in todo}
<1>1. \A e \in todo : e \in payload /\ e.dir \in Seq(Name) /\ e.name \in Name /\ Len(e.dir) \in Nat
  <2>1. todo \subseteq payload /\ payload \subseteq Entry
    BY DEF IInv, TypeOK
  <2>2. \A e \in Entry : e.dir \in Seq(Name) /\ e.name \in Name
    BY DEF Entry, Path
  <2>3. \A s \in Seq(Name) : Len(s) \in Nat
    OBVIOUS
  <2> QED
    BY <2>1, <2>2, <2>3
<1>2. \E x \in depths : \A y \in depths : ~ (<<y, x>> \in OpToRel(<, Nat))
  <2>1. depths \subseteq Nat /\ depths # {}
    BY <1>1
  <2> HIDE DEF depths
  <2> QED
    BY <2>1, NatLessThanWellFounded, WFMin
<1>3. PICK e \in todo : \A d \in todo : ~ (Len(d.dir) < Len(e.dir))
  <2>1. \A x, y \in Nat : y < x => <<y, x>> \in OpToRel(<, Nat)
    BY DEF OpToRel
  <2>2. PICK e \in todo : \A y \in depths : ~ (<<y, Len(e.dir)>> \in OpToRel(<, Nat))
    BY <1>2
  <2>3. \A d \in todo : Len(d.dir) \in depths
    OBVIOUS
  <2> HIDE DEF depths
  <2>4. \A d \in todo : ~ (Len(d.dir) < Len(e.dir))
    BY <1>1, <2>1, <2>2, <2>3
  <2> QED
    BY <2>4
<1>4. ASSUME NEW d \in todo, PathOf(d) = e.dir PROVE FALSE
  <2>1. Len(PathOf(d)) = Len(d.dir) + 1
    BY <1>1 DEF PathOf
  <2> QED
    BY <1>1, <1>3, <1>4, <2>1
<1> QED
  BY <1>1, <1>4 DEF Listed

\* Until a restore has ended it can go on: it never waits for anything, in particular no
\* two entries for each other.
THEOREM NeverStuck == Spec => [](result \in {"ok", "failed"} \/ CanGoOn)
<1>1. IInv => result \in {"ok", "failed"} \/ CanGoOn
  <2> SUFFICES ASSUME IInv, result \notin {"ok", "failed"} PROVE CanGoOn
    OBVIOUS
  <2>1. pc \in {"idle", "next", "open", "write"} /\ result \in {"none", "cut off"}
    BY DEF IInv, TypeOK
  <2> QED
    BY <2>1, OneIsListed DEF CanGoOn
<1> QED
  BY <1>1, Always, PTL
=============================================================================
