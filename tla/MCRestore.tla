------------------------------ MODULE MCRestore ------------------------------
(* Every directory tree of at most four entries, also none, two levels     *)
(* deep, over a plain name, an executable one and "quarantine" itself.     *)
EXTENDS Restore

CONSTANTS a, x, q

MCEntries ==
    [dir : {<<>>, <<a>>, <<q>>}, name : {a, x, q}, kind : {"file", "dir"}]
        \union [dir : {<<>>}, name : {a}, kind : {"refused"}]

ParentsListed(entries) ==
    \A e \in entries : e.dir # <<>> =>
        [dir |-> <<>>, name |-> e.dir[1], kind |-> "dir"] \in entries

MCPayloads ==
    {{}} \union
    {s \in {{e, f, g, h} : e, f, g, h \in MCEntries} :
        ParentsListed(s) /\ \A e, f \in s : PathOf(e) = PathOf(f) => e = f}

\* An empty output directory, one with a file or a directory of another origin in it.
Empty == [p \in {} |-> Dir]
MCPriors == {Empty} \union {[p \in {<<n>>} |-> node] : n \in {a, q}, node \in {Dir, Old}}
=============================================================================
