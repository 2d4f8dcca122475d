-------------------------- MODULE Sidecar_proofs --------------------------
(***************************************************************************)
(* Every step of pack, and every change of its files by others, keeps the  *)
(* types of its job and what binds a strict capsule to its archive. The      *)
(* theorems are about the server that pack runs in: McpServer_proofs.      *)
(***************************************************************************)
EXTENDS Sidecar, TLAPS

\* What StrictIsBound asks of one capsule
Bound(c) ==
    IsAicx(c.r) /\ IsStrict(c.r) =>
        /\ c.payload \in Data /\ c.reference = c.payload
        /\ c.from # None /\ c.from.for = c.payload /\ c.risk = Risk(c.from.hints)
        /\ c.from.manifest # "other"
Good(c) == c \in Packed /\ Bound(c)

Busy == {"begun", "resolve", "parse", "open", "fill", "done", "failed"}

JobInv ==
    /\ job.pc \in Busy \union {"idle"} /\ job = [job EXCEPT !.pc = job.pc]
    /\ DOMAIN job = {"pc", "r", "data", "at", "cap"}
    /\ job.pc # "idle" => job.r \in Request /\ job.r.via = user
    /\ job.pc \in {"resolve", "parse"} => job.data \in Data \union {Torn} /\ IsAicx(job.r)
    /\ job.pc = "parse" => job.at \in Name
    /\ job.pc \in {"open", "fill", "done"} => Good(job.cap) /\ job.cap.r = job.r
    /\ job.pc \notin {"open", "fill", "done"} => job.cap = None

FilesInv ==
    /\ archive \in Data \union {Absent, Torn}
    /\ sidecars \in [Name -> Doc \union {Absent, Torn}]
    /\ out \in {Absent, Torn} \/ Good(out)
    /\ user \in Via /\ changes \in 0 .. MaxChanges

PackInv == FilesInv /\ JobInv

-----------------------------------------------------------------------------
(* Capsules *)

LEMMA RiskType == ASSUME NEW hints PROVE Risk(hints) \in {"low", "medium", "high"}
  BY DEF Risk

LEMMA PlainGood ==
    ASSUME NEW r \in Request, NEW data \in Data \union {Torn}, ~IsAicx(r)
    PROVE  Good(PlainCapsule(r, data)) /\ PlainCapsule(r, data).r = r
  <1> DEFINE c == PlainCapsule(r, data)
  <1>1. /\ c.payload = data /\ c.reference = None /\ c.risk = "medium" /\ c.from = None
        /\ c.r = r /\ c \in Packed
    BY DEF PlainCapsule, Packed
  <1> HIDE DEF c
  <1> QED
    BY <1>1 DEF c, Good, Bound

LEMMA DigestOnlyGood ==
    ASSUME NEW r \in Request, NEW data \in Data \union {Torn}, ~IsStrict(r)
    PROVE  Good(DigestOnly(r, data)) /\ DigestOnly(r, data).r = r
  <1> DEFINE c == DigestOnly(r, data)
  <1>1. c = [payload |-> data, reference |-> data, risk |-> "medium", from |-> None, r |-> r]
    BY DEF DigestOnly, PlainCapsule
  <1>2. /\ c.payload = data /\ c.reference = data /\ c.risk = "medium" /\ c.from = None
        /\ c.r = r /\ c \in Packed
    BY <1>1 DEF Packed
  <1> HIDE DEF c
  <1> QED
    BY <1>2 DEF c, Good, Bound

\* A sidecar that fits names this archive, for None is no content.
LEMMA WithSidecarGood ==
    ASSUME NEW r \in Request, NEW data \in Data \union {Torn}, NEW doc \in Doc,
           IsStrict(r) => Fits(doc, data)
    PROVE  Good(WithSidecar(r, data, doc)) /\ WithSidecar(r, data, doc).r = r
  <1> DEFINE c == WithSidecar(r, data, doc)
             reference == IF doc.digest = None THEN data ELSE doc.digest
  <1>1. /\ doc.for \in Data /\ doc.digest \in {doc.for, None}
        /\ None \notin Data \union {Torn} /\ doc # None
    BY SidecarAssumption
  <1>2. reference \in Data \union {Torn}
    BY <1>1
  <1>3. /\ c.payload = data /\ c.reference = reference /\ c.risk = Risk(doc.hints)
        /\ c.from = doc /\ c.r = r
    BY DEF WithSidecar
  <1>4. c \in Packed
    <2>1. Risk(doc.hints) \in {"low", "medium", "high"}
      BY RiskType
    <2> QED
      BY <1>2, <2>1 DEF WithSidecar, Packed
  <1>5. Bound(c)
    <2> SUFFICES ASSUME IsStrict(r)
                 PROVE  /\ data \in Data /\ reference = data /\ doc # None /\ doc.for = data
                        /\ doc.manifest # "other"
      BY <1>3 DEF Bound
    <2> QED
      BY <1>1 DEF Fits
  <1> QED
    BY <1>3, <1>4, <1>5 DEF Good

-----------------------------------------------------------------------------
(* The steps *)

LEMMA BegunOK ==
    ASSUME NEW r \in Request, r.via = user, job' = Begun(r), UNCHANGED user
    PROVE  JobInv' /\ job'.pc = "begun"
  <1>1. job' = [pc |-> "begun", r |-> r, data |-> None, at |-> None, cap |-> None]
    BY DEF Begun, NoJob
  <1> QED
    BY <1>1 DEF JobInv, Busy

LEMMA IdleOK ==
    ASSUME job' = NoJob
    PROVE  JobInv' /\ job'.pc = "idle"
  BY DEF NoJob, JobInv, Busy

\* A step of a call that is running: what changes of the job.
LEMMA FieldsOK ==
    ASSUME JobInv, job.pc # "idle", UNCHANGED user,
           job'.pc \in Busy \ {"open", "fill", "done"}, job'.cap = None,
           job'.r = job.r, DOMAIN job' = DOMAIN job, job' = [job' EXCEPT !.pc = job'.pc],
           job'.pc = "resolve" => job'.data \in Data \union {Torn} /\ IsAicx(job.r),
           job'.pc = "parse" =>
              job'.data \in Data \union {Torn} /\ job'.at \in Name /\ IsAicx(job.r)
    PROVE  JobInv'
  BY DEF JobInv, Busy

LEMMA FailOK ==
    ASSUME JobInv, job.pc # "idle", Fail, UNCHANGED user
    PROVE  JobInv' /\ job'.pc = "failed" /\ job'.cap = None
  BY DEF JobInv, Fail, Busy

LEMMA WithCapOK ==
    ASSUME JobInv, job.pc # "idle", NEW c, Good(c), c.r = job.r,
           job' = [job EXCEPT !.pc = "open", !.cap = c], UNCHANGED user
    PROVE  JobInv' /\ job'.pc = "open"
  <1>1. job'.pc = "open" /\ job'.cap = c /\ job'.r = job.r /\ job'.data = job.data
        /\ job'.at = job.at /\ DOMAIN job' = DOMAIN job /\ job' = [job' EXCEPT !.pc = job'.pc]
    BY DEF JobInv
  <1> QED
    BY <1>1 DEF JobInv, Busy

LEMMA WithoutOK ==
    ASSUME JobInv, job.pc \in {"resolve", "parse"}, Without, UNCHANGED user
    PROVE  JobInv' /\ job'.pc \in {"open", "failed"}
  <1>1. CASE IsStrict(job.r)
    BY <1>1, FailOK DEF Without
  <1>2. CASE ~IsStrict(job.r)
    <2>1. Good(DigestOnly(job.r, job.data)) /\ DigestOnly(job.r, job.data).r = job.r
      BY <1>2, DigestOnlyGood DEF JobInv
    <2> QED
      BY <1>2, <2>1, WithCapOK DEF Without
  <1> QED
    BY <1>1, <1>2

\* After a step of pack, what it has to say of the output
StepInv ==
    /\ PackInv' /\ job.pc \in Busy \ {"done", "failed"} /\ job'.pc # "idle"
    /\ UNCHANGED user
    /\ \/ UNCHANGED out /\ job'.pc \notin {"fill", "done"} /\ job.pc # "fill"
       \/ job.pc = "open" /\ job'.pc = "fill" /\ out' = Torn
       \/ job.pc = "fill" /\ job'.pc = "done" /\ out' = job.cap /\ job'.cap = job.cap
       \/ job.pc = "fill" /\ job'.pc = "failed" /\ UNCHANGED out

LEMMA PrepareOK ==
    ASSUME PackInv, Prepare
    PROVE  StepInv
  <1>1. JobInv' /\ job'.pc \in {"failed", "resolve", "open"}
    <2>1. CASE archive = Absent
      BY <2>1, FailOK DEF PackInv, Prepare
    <2>2. CASE archive # Absent /\ IsAicx(job.r)
      <3>1. job' = [job EXCEPT !.pc = "resolve", !.data = archive] /\ UNCHANGED user
        BY <2>2 DEF Prepare
      <3>2. archive \in Data \union {Torn}
        BY <2>2 DEF PackInv, FilesInv
      <3>3. /\ JobInv /\ job.pc = "begun" /\ job.cap = None
            /\ DOMAIN job = {"pc", "r", "data", "at", "cap"}
        BY DEF PackInv, JobInv, Prepare
      <3>4. /\ job'.pc = "resolve" /\ job'.cap = None /\ job'.r = job.r /\ job'.data = archive
            /\ DOMAIN job' = DOMAIN job /\ job' = [job' EXCEPT !.pc = job'.pc]
        BY <3>1, <3>3
      <3>5. job'.pc \in Busy \ {"open", "fill", "done"}
        BY <3>4 DEF Busy
      <3> QED
        BY <2>2, <3>1, <3>2, <3>3, <3>4, <3>5, FieldsOK
    <2>3. CASE archive # Absent /\ ~IsAicx(job.r)
      <3>1. job' = [job EXCEPT !.pc = "open", !.cap = PlainCapsule(job.r, archive)]
        BY <2>3 DEF Prepare
      <3>2. archive \in Data \union {Torn} /\ job.r \in Request
        BY <2>3 DEF PackInv, FilesInv, JobInv, Prepare
      <3>3. Good(PlainCapsule(job.r, archive)) /\ PlainCapsule(job.r, archive).r = job.r
        BY <2>3, <3>2, PlainGood
      <3> QED
        BY <3>1, <3>3, WithCapOK DEF PackInv, Prepare
    <2> QED
      BY <2>1, <2>2, <2>3
  <1> QED
    BY <1>1 DEF StepInv, PackInv, FilesInv, Prepare, Busy

LEMMA ResolveOK ==
    ASSUME PackInv, Resolve
    PROVE  StepInv
  <1>1. JobInv' /\ job'.pc \in {"failed", "parse", "open"}
    <2>1. ASSUME NEW n \in Name, job' = [job EXCEPT !.pc = "parse", !.at = n]
          PROVE  JobInv' /\ job'.pc = "parse"
      <3>1. /\ JobInv /\ job.pc = "resolve" /\ job.cap = None
            /\ DOMAIN job = {"pc", "r", "data", "at", "cap"}
            /\ job.data \in Data \union {Torn} /\ IsAicx(job.r)
        BY DEF PackInv, JobInv, Resolve
      <3>2. /\ job'.pc = "parse" /\ job'.cap = None /\ job'.r = job.r /\ job'.data = job.data
            /\ job'.at = n /\ DOMAIN job' = DOMAIN job
            /\ job' = [job' EXCEPT !.pc = job'.pc]
        BY <2>1, <3>1
      <3>3. job'.pc \in Busy \ {"open", "fill", "done"} /\ UNCHANGED user
        BY <3>2 DEF Busy, Resolve
      <3> QED
        BY <3>1, <3>2, <3>3, FieldsOK
    <2>2. CASE Without
      BY <2>2, WithoutOK DEF PackInv, Resolve
    <2> QED
      BY <2>1, <2>2 DEF Resolve
  <1> QED
    BY <1>1 DEF StepInv, PackInv, FilesInv, Resolve, Busy

LEMMA ParseOK ==
    ASSUME PackInv, Parse
    PROVE  StepInv
  <1> DEFINE doc == sidecars[job.at]
  <1>1. JobInv' /\ job'.pc \in {"failed", "open"}
    <2>1. CASE /\ doc \in Doc /\ (IsStrict(job.r) => Fits(doc, job.data))
               /\ job' = [job EXCEPT !.pc = "open", !.cap = WithSidecar(job.r, job.data, doc)]
      <3> DEFINE c == WithSidecar(job.r, job.data, doc)
      <3>1. job.r \in Request /\ job.data \in Data \union {Torn}
        BY DEF PackInv, JobInv, Parse
      <3>2. Good(c) /\ c.r = job.r
        BY <2>1, <3>1, WithSidecarGood
      <3> HIDE DEF doc, c
      <3> QED
        BY <2>1, <3>2, WithCapOK DEF PackInv, Parse, c
    <2>2. CASE Without
      BY <2>2, WithoutOK DEF PackInv, Parse
    <2> QED
      BY <2>1, <2>2 DEF Parse
  <1> QED
    BY <1>1 DEF StepInv, PackInv, FilesInv, Parse, Busy

LEMMA OpenOK ==
    ASSUME PackInv, Open
    PROVE  StepInv
  <1>1. CASE job' = [job EXCEPT !.pc = "fill"] /\ out' = Torn
    <2>1. JobInv' /\ job'.pc = "fill"
      <3>1. /\ JobInv /\ job.pc = "open" /\ UNCHANGED user
            /\ DOMAIN job = {"pc", "r", "data", "at", "cap"}
        BY DEF PackInv, JobInv, Open
      <3>2. /\ job'.pc = "fill" /\ job'.cap = job.cap /\ job'.r = job.r
            /\ DOMAIN job' = DOMAIN job /\ job' = [job' EXCEPT !.pc = job'.pc]
        BY <1>1, <3>1
      <3> QED
        BY <3>1, <3>2 DEF JobInv, Busy
    <2> QED
      BY <1>1, <2>1 DEF StepInv, PackInv, FilesInv, Open, Busy
  <1>2. CASE Fail /\ UNCHANGED out
    <2>1. JobInv' /\ job'.pc = "failed"
      BY <1>2, FailOK DEF PackInv, Open
    <2> QED
      BY <1>2, <2>1 DEF StepInv, PackInv, FilesInv, Open, Busy
  <1> QED
    BY <1>1, <1>2 DEF Open

LEMMA FillOK ==
    ASSUME PackInv, Fill
    PROVE  StepInv
  <1>1. CASE job' = [job EXCEPT !.pc = "done"] /\ out' = job.cap
    <2>1. JobInv' /\ job'.pc = "done" /\ job'.cap = job.cap
      <3>1. /\ JobInv /\ job.pc = "fill" /\ UNCHANGED user
            /\ DOMAIN job = {"pc", "r", "data", "at", "cap"}
        BY DEF PackInv, JobInv, Fill
      <3>2. /\ job'.pc = "done" /\ job'.cap = job.cap /\ job'.r = job.r
            /\ DOMAIN job' = DOMAIN job /\ job' = [job' EXCEPT !.pc = job'.pc]
        BY <1>1, <3>1
      <3> QED
        BY <3>1, <3>2 DEF JobInv, Busy
    <2>2. Good(out')
      BY <1>1 DEF PackInv, JobInv, Fill
    <2>3. Good(out)'
      BY <2>2 DEF Good, Bound
    <2> QED
      BY <1>1, <2>1, <2>3 DEF StepInv, PackInv, FilesInv, Fill, Busy
  <1>2. CASE Fail /\ UNCHANGED out
    <2>1. JobInv' /\ job'.pc = "failed"
      BY <1>2, FailOK DEF PackInv, Fill
    <2> QED
      BY <1>2, <2>1 DEF StepInv, PackInv, FilesInv, Fill, Busy
  <1> QED
    BY <1>1, <1>2 DEF Fill

LEMMA PackStepOK ==
    ASSUME PackInv, PackStep
    PROVE  StepInv
  BY PrepareOK, ResolveOK, ParseOK, OpenOK, FillOK DEF PackStep

\* Others change the files under a call that is running.
LEMMA ChangeFilesOK ==
    ASSUME PackInv, ChangeFiles
    PROVE  PackInv'
  <1>1. changes' \in 0 .. MaxChanges
    BY SidecarAssumption DEF ChangeFiles, PackInv, FilesInv
  <1>2. archive' \in Data \union {Absent, Torn}
        /\ sidecars' \in [Name -> Doc \union {Absent, Torn}]
    BY DEF ChangeFiles, PackInv, FilesInv
  <1>3. UNCHANGED <<out, job, stdout, user>>
    BY DEF ChangeFiles
  <1> QED
    BY <1>1, <1>2, <1>3 DEF PackInv, FilesInv, JobInv

LEMMA PackInitOK == PackInit => PackInv /\ job.pc = "idle"
  <1> SUFFICES ASSUME PackInit PROVE PackInv /\ job.pc = "idle"
    OBVIOUS
  <1>1. FilesInv
    BY SidecarAssumption DEF PackInit, FilesInv
  <1>2. JobInv /\ job.pc = "idle"
    BY DEF PackInit, NoJob, JobInv, Busy
  <1> QED
    BY <1>1, <1>2 DEF PackInv

\* The property
LEMMA CapsulesGood ==
    ASSUME PackInv
    PROVE  StrictIsBound
  <1>1. ASSUME NEW c \in Capsules PROVE Good(c)
    BY DEF Capsules, PackInv, FilesInv, JobInv
  <1> QED
    BY <1>1 DEF Good, Bound, StrictIsBound
=============================================================================
