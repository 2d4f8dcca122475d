------------------------------ MODULE Sidecar ------------------------------
(***************************************************************************)
(* pack with a payload that may be an AICX archive, step by step: the      *)
(* archive is read, a sidecar is looked for, read and compared with the    *)
(* archive, and the capsule is written. The tools that make archives and   *)
(* sidecars work on the same files meanwhile. Two programs pack, the       *)
(* command line and the MCP server. They share no file that either writes, *)
(* so that each is looked at by itself: a behaviour is of one user.        *)
(* Digests are perfect: a digest is the content it is of.                  *)
(***************************************************************************)
EXTENDS Integers, Sequences

CONSTANTS
    Data,         \* contents of archives
    Name,         \* files that may be sidecars
    Candidate,    \* those resolve_sidecar looks for, in its order
    Doc,          \* sidecars that parse
    Request,      \* the calls of pack
    MaxChanges,   \* bound on the changes to the files by other tools
    Absent, Torn, \* no file; a file that was truncated and not yet written again
    None

Hint == {"workflow", "plain"}
Via == {"cli", "mcp"}

\* A capsule: what is packed, the reference to the archive, the risk level, the sidecar
\* it speaks of, and the call.
Packed == [payload : Data \union {Torn}, reference : Data \union {Torn, None},
           risk : {"low", "medium", "high"}, from : Doc \union {None}, r : Request]

\* Sidecars are not signed. Those that name an archive name the one they were made for.
ASSUME SidecarAssumption ==
    /\ Doc \subseteq [for : Data, digest : Data \union {None}, hints : SUBSET Hint,
                      manifest : {"none", "supported", "other"}]
    /\ \A d \in Doc : d.digest \in {d.for, None}
    /\ Request \subseteq [via : Via, aicx : BOOLEAN, named : BOOLEAN,
                          sidecar : Name \union {None}, strict : BOOLEAN]
    /\ Candidate \in Seq(Name) /\ MaxChanges \in Nat
    /\ None \notin Data \union Name \union Doc \union Packed \union {Torn}
    /\ Absent \notin Data \union Doc \union {Torn} /\ Torn \notin Data \union Doc

VARIABLES
    archive,    \* the input file
    sidecars,   \* the sidecar files
    out,        \* the capsule file
    job,        \* the call of pack that is running
    stdout,     \* the lines written to the standard output
    changes,
    user        \* the program that packs; it stays the same

packVars == <<archive, sidecars, out, job, stdout, changes, user>>

-----------------------------------------------------------------------------
(* What the callers ask for *)

\* The payload is an archive by flag, by name, or, on the command line, because a
\* sidecar was named.
IsAicx(r) == r.aicx \/ r.named \/ (r.via = "cli" /\ r.sidecar # None)

\* The MCP tool is strict whenever its flag says archive; the name alone is not enough.
IsStrict(r) == IF r.via = "mcp" THEN r.aicx ELSE r.strict

\* risk_level of parse_and_validate_sidecar
Risk(hints) ==
    IF "workflow" \in hints THEN "high" ELSE IF hints # {} THEN "medium" ELSE "low"

\* Without a sidecar
PlainCapsule(r, data) ==
    [payload |-> data, reference |-> None, risk |-> "medium", from |-> None, r |-> r]
DigestOnly(r, data) == [PlainCapsule(r, data) EXCEPT !.reference = data]

\* The sidecar's own digest is taken when it has one, also when it is another's.
WithSidecar(r, data, doc) ==
    [payload |-> data, reference |-> IF doc.digest = None THEN data ELSE doc.digest,
     risk |-> Risk(doc.hints), from |-> doc, r |-> r]

-----------------------------------------------------------------------------
(* The steps of pack *)

NoJob == [pc |-> "idle", r |-> None, data |-> None, at |-> None, cap |-> None]

PackInit ==
    /\ archive \in Data
    /\ sidecars \in [Name -> Doc \union {Absent}]
    /\ out = Absent /\ job = NoJob /\ stdout = <<>> /\ changes = 0
    /\ user \in Via

Fail == job' = [job EXCEPT !.pc = "failed", !.cap = None]
Warn == stdout' = Append(stdout, [kind |-> "warning"])

\* prepare_payload
Prepare ==
    LET r == job.r
    IN  /\ job.pc = "begun"
        /\ CASE archive = Absent -> Fail
             [] archive # Absent /\ IsAicx(r) ->
                  job' = [job EXCEPT !.pc = "resolve", !.data = archive]
             [] OTHER ->
                  job' = [job EXCEPT !.pc = "open", !.cap = PlainCapsule(r, archive)]
        /\ UNCHANGED <<archive, sidecars, out, stdout, changes, user>>

\* What is left when no sidecar can be used: an error, or a warning and the digest.
Without ==
    LET r == job.r
    IN  IF IsStrict(r) THEN Fail /\ UNCHANGED stdout
        ELSE /\ job' = [job EXCEPT !.pc = "open", !.cap = DigestOnly(r, job.data)]
             /\ Warn

\* resolve_sidecar: the file that was named, or the first candidate there is.
Exists(n) == sidecars[n] # Absent
IsFound(r, n) ==
    IF r.sidecar # None THEN n = r.sidecar /\ Exists(n)
    ELSE \E k \in DOMAIN Candidate :
            /\ n = Candidate[k] /\ Exists(n)
            /\ \A i \in 1 .. k - 1 : ~Exists(Candidate[i])

\* A fault: the named file is taken unseen.
ResolveUnseen ==
    /\ job.pc = "resolve"
    /\ job' = [job EXCEPT !.pc = "parse", !.at = job.r.sidecar]
    /\ UNCHANGED <<archive, sidecars, out, stdout, changes, user>>

Resolve ==
    /\ job.pc = "resolve"
    /\ \/ \E n \in Name :
             /\ IsFound(job.r, n)
             /\ job' = [job EXCEPT !.pc = "parse", !.at = n]
             /\ UNCHANGED stdout
       \/ (\A n \in Name : ~IsFound(job.r, n)) /\ Without
    /\ UNCHANGED <<archive, sidecars, out, changes, user>>

\* A fault: a sidecar that names no archive is taken for a match.
FitsUnnamed(doc, data) == doc.digest \in {data, None} /\ doc.manifest # "other"

\* What a strict call asks of a sidecar: a digest, and it is that of the bytes that were
\* read; and if version and algorithm are there at all, they are known ones.
Fits(doc, data) == doc.digest = data /\ doc.manifest # "other"

\* A fault: the archive is read once more, to be compared.
ParseReread ==
    LET r == job.r
        doc == sidecars[job.at]
    IN  /\ job.pc = "parse"
        /\ \/ /\ doc \in Doc /\ archive # Absent /\ (IsStrict(r) => Fits(doc, archive))
              /\ job' = [job EXCEPT !.pc = "open", !.cap = WithSidecar(r, job.data, doc)]
              /\ IF doc.digest \in {archive, None} THEN UNCHANGED stdout ELSE Warn
           \/ ~(doc \in Doc /\ archive # Absent /\ (IsStrict(r) => Fits(doc, archive))) /\ Without
        /\ UNCHANGED <<archive, sidecars, out, changes, user>>

\* parse_and_validate_sidecar, and what pack does with its result
Parse ==
    LET r == job.r
        data == job.data
        doc == sidecars[job.at]
    IN  /\ job.pc = "parse"
        /\ \/ /\ doc \in Doc /\ (IsStrict(r) => Fits(doc, data))
              /\ job' = [job EXCEPT !.pc = "open", !.cap = WithSidecar(r, data, doc)]
              /\ IF doc.digest \in {data, None} THEN UNCHANGED stdout ELSE Warn
           \/ ~(doc \in Doc /\ (IsStrict(r) => Fits(doc, data))) /\ Without
        /\ UNCHANGED <<archive, sidecars, out, changes, user>>

\* write_capsule_file truncates the output, if it can ...
Open ==
    /\ job.pc = "open"
    /\ \/ /\ job' = [job EXCEPT !.pc = "fill"]
          /\ out' = Torn
       \/ Fail /\ UNCHANGED out
    /\ UNCHANGED <<archive, sidecars, stdout, changes, user>>

\* A fault: a write that fails is taken for one that succeeded.
FillAnyway ==
    /\ job.pc = "fill"
    /\ job' = [job EXCEPT !.pc = "done"]
    /\ out' = job.cap \/ UNCHANGED out
    /\ UNCHANGED <<archive, sidecars, stdout, changes, user>>

\* A fault: it is written again.
FillAgain ==
    /\ job.pc = "fill"
    /\ \/ job' = [job EXCEPT !.pc = "done"] /\ out' = job.cap
       \/ job' = [job EXCEPT !.pc = "open"] /\ UNCHANGED out
    /\ UNCHANGED <<archive, sidecars, stdout, changes, user>>

\* ... and fills it, unless the disk is full.
Fill ==
    /\ job.pc = "fill"
    /\ \/ job' = [job EXCEPT !.pc = "done"] /\ out' = job.cap
       \/ Fail /\ UNCHANGED out
    /\ UNCHANGED <<archive, sidecars, stdout, changes, user>>

\* The pack command of the command line starts and returns.
Begun(r) == [NoJob EXCEPT !.pc = "begun", !.r = r]
Start(r) ==
    /\ user = "cli" /\ r.via = "cli" /\ job = NoJob
    /\ job' = Begun(r) /\ stdout' = <<>>
    /\ UNCHANGED <<archive, sidecars, out, changes, user>>
Return ==
    /\ user = "cli" /\ job.pc \in {"done", "failed"}
    /\ job' = NoJob
    /\ UNCHANGED <<archive, sidecars, out, stdout, changes, user>>

PackStep == Prepare \/ Resolve \/ Parse \/ Open \/ Fill

\* Another tool replaces the archive or a sidecar, is half way with it, or removes it.
ChangeFiles ==
    /\ changes < MaxChanges
    /\ \/ archive' \in Data \union {Absent, Torn} /\ UNCHANGED sidecars
       \/ /\ \E n \in Name, doc \in Doc \union {Absent, Torn} :
                sidecars' = [sidecars EXCEPT ![n] = doc]
          /\ UNCHANGED archive
    /\ changes' = changes + 1
    /\ UNCHANGED <<out, job, stdout, user>>

-----------------------------------------------------------------------------
(* Properties *)

\* The capsules there are, written or about to be.
Capsules == {job.cap, out} \ {None, Absent, Torn}

\* However archives and sidecars are replaced between pack's steps, a strict capsule of
\* an archive holds an archive that was complete, refers to it, and tells the risk of a
\* sidecar of a known version that was made for it (lib.rs, parse_and_validate_sidecar and pack).
StrictIsBound ==
    \A c \in Capsules : IsAicx(c.r) /\ IsStrict(c.r) =>
        /\ c.payload \in Data /\ c.reference = c.payload
        /\ c.from # None /\ c.from.for = c.payload /\ c.risk = Risk(c.from.hints)
        /\ c.from.manifest # "other"

\* A capsule that nothing binds to its archive: it tells of no sidecar, or of one that
\* names other bytes than those that are packed.
Unbound(c) == c.from = None \/ c.from.digest \notin {None, c.payload}

Told == stdout # <<>> /\ stdout[Len(stdout)].kind = "warning"

\* Nobody packs an archive that nothing binds to a sidecar without being told so in this
\* call, and nobody is told so without need: by the time the capsule is written, what was
\* said is true of the bytes that were read first and the sidecar that was read last,
\* however both were replaced meanwhile (lib.rs, parse_and_validate_sidecar and pack).
UnboundIsWarned ==
    job.pc \in {"open", "fill", "done"} => (Told <=> IsAicx(job.r) /\ Unbound(job.cap))
=============================================================================
