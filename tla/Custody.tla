------------------------------ MODULE Custody ------------------------------
(***************************************************************************)
(* The handover of a payload between two agents: the sender signs a        *)
(* manifest, the receiver a receipt for the manifest it finds, and         *)
(* somebody verifies the two. Manifest and receipt are files, each written *)
(* in two steps and read in one, and may be altered or written anew        *)
(* between any two steps; or they are objects that agents keep and hand to *)
(* the MCP server. Signatures are perfect: one exists only if its key was  *)
(* used to make it. Which key is whose is for the callers to know.         *)
(***************************************************************************)
EXTENDS Integers, FiniteSets

CONSTANTS
    Key,          \* signing keys
    Agent, Id, Hash,
    Terms,        \* what else a manifest says: capsule, geofence, times
    Limit,        \* highest temperatures
    Infinite,     \* a temperature JSON has no number for; it is written as null
    None,         \* no limit, no signature
    Request,      \* the manifests asked for, with the key that signs them
    MaxCalls,     \* bound on the manifests and receipts made
    MaxChanges,   \* bound on crashes and on changes to the files by others
    Absent, Torn  \* no file; a file that does not parse

Status == {"accepted", "rejected"}
Body == [id : Id, sender : Agent, receiver : Agent, hash : Hash, terms : Terms,
         limit : Limit \union {None, Infinite}]
ReceiptBody == [manifest_id : Id, receiver : Agent, hash : Hash, status : Status]

ASSUME CustodyAssumption ==
    /\ Request \subseteq [key : Key, body : Body]
    /\ None \notin Limit /\ Infinite \notin Limit \union {None}
    /\ None \notin [key : Key, over : Body]
    /\ MaxCalls \in Nat /\ MaxChanges \in Nat

Sign(key, over) == [key |-> key, over |-> over]

\* canonical_bytes, and what is read back from a file: JSON without the signature.
Json(body) == [body EXCEPT !.limit = IF @ = Infinite THEN None ELSE @]

\* A fault: the manifest is signed as it is in memory.
SignedInMemory(q) == [body |-> Json(q.body), signature |-> Sign(q.key, q.body)]

\* custody create-manifest and create_custody_transfer up to the writing
SignedManifest(q) == [body |-> Json(q.body), signature |-> Sign(q.key, Json(q.body))]

\* custody create-receipt: id, receiver and digest are those of the manifest in the file,
\* whose signature is not looked at; nor is any payload.
ReceiptFor(m, status, key) ==
    LET body == [manifest_id |-> m.body.id, receiver |-> m.body.receiver,
                 hash |-> m.body.hash, status |-> status]
    IN  [body |-> body, signature |-> Sign(key, body)]

\* verify_signature of both records. Without a signature it fails.
SignedBy(doc, key) == doc.signature = Sign(key, doc.body)

\* A fault: ids are not compared.
HandoffOfPayload(m, r, ks, kr) ==
    /\ SignedBy(m, ks) /\ SignedBy(r, kr)
    /\ r.body.receiver = m.body.receiver /\ r.body.hash = m.body.hash
    /\ r.body.status = "accepted"
\* A fault: the receipt is not asked how it ended.
HandoffOfAny(m, r, ks, kr) ==
    /\ SignedBy(m, ks) /\ SignedBy(r, kr) /\ r.body.manifest_id = m.body.id
    /\ r.body.receiver = m.body.receiver /\ r.body.hash = m.body.hash

\* verify_complete_custody_handoff
HandoffHolds(m, r, ks, kr) ==
    /\ SignedBy(m, ks) /\ SignedBy(r, kr)
    /\ r.body.manifest_id = m.body.id
    /\ r.body.receiver = m.body.receiver
    /\ r.body.hash = m.body.hash
    /\ r.body.status = "accepted"

VARIABLES
    mfile, rfile,   \* the two files
    sender,         \* the manifest that is being written, or None
    receiver,       \* the receipt that was signed and is not yet written, or None
    verifier,       \* the manifest that was read by a verifier, or None
    manifests,      \* every manifest that was signed
    receipts,       \* every receipt that was signed, and the manifest it was made from
    result,         \* the last verification, or None
    calls, changes

files == <<mfile, rfile>>
agents == <<sender, receiver, verifier>>
vars == <<mfile, rfile, sender, receiver, verifier, manifests, receipts, result, calls, changes>>

IsDoc(file) == file \notin {Absent, Torn}
\* The receipt a receiver holds, before and after it has opened the file
Held(open, doc) == [open |-> open, doc |-> doc]

Init ==
    /\ mfile = Absent /\ rfile = Absent
    /\ sender = None /\ receiver = None /\ verifier = None
    /\ manifests = {} /\ receipts = {} /\ result = None
    /\ calls = 0 /\ changes = 0

\* create-manifest: fs::write truncates the file ...
CreateManifest(q) ==
    /\ sender = None /\ calls < MaxCalls
    /\ sender' = SignedManifest(q)
    /\ manifests' = manifests \union {SignedManifest(q)}
    /\ mfile' = Torn /\ calls' = calls + 1
    /\ UNCHANGED <<rfile, receiver, verifier, receipts, result, changes>>

\* ... and fills it.
WriteManifest ==
    /\ sender # None
    /\ mfile' = sender /\ sender' = None
    /\ UNCHANGED <<rfile, receiver, verifier, manifests, receipts, result, calls, changes>>

\* create_custody_transfer hands the manifest to the caller.
CreateTransfer(q) ==
    /\ calls < MaxCalls
    /\ manifests' = manifests \union {SignedManifest(q)}
    /\ calls' = calls + 1
    /\ UNCHANGED <<files, agents, receipts, result, changes>>

\* create-receipt reads the manifest's file and signs ...
CreateReceipt(status, key) ==
    /\ receiver = None /\ calls < MaxCalls /\ IsDoc(mfile)
    /\ receiver' = Held(FALSE, ReceiptFor(mfile, status, key))
    /\ receipts' = receipts \union {[doc |-> ReceiptFor(mfile, status, key), from |-> mfile]}
    /\ calls' = calls + 1
    /\ UNCHANGED <<files, sender, verifier, manifests, result, changes>>

\* ... truncates its own file ...
OpenReceipt ==
    /\ receiver # None /\ ~receiver.open
    /\ receiver' = Held(TRUE, receiver.doc) /\ rfile' = Torn
    /\ UNCHANGED <<mfile, sender, verifier, manifests, receipts, result, calls, changes>>

\* ... and fills it.
WriteReceipt ==
    /\ receiver # None /\ receiver.open
    /\ rfile' = receiver.doc /\ receiver' = None
    /\ UNCHANGED <<mfile, sender, verifier, manifests, receipts, result, calls, changes>>

\* A fault: an empty file is taken for a manifest.
ReadAnyManifest ==
    /\ verifier = None /\ mfile # Absent
    /\ verifier' = mfile
    /\ UNCHANGED <<files, sender, receiver, manifests, receipts, result, calls, changes>>

\* verify-handoff reads the manifest ...
ReadManifest ==
    /\ verifier = None /\ IsDoc(mfile)
    /\ verifier' = mfile
    /\ UNCHANGED <<files, sender, receiver, manifests, receipts, result, calls, changes>>

Verified(m, r, ks, kr) ==
    result' = [m |-> m, r |-> r, ks |-> ks, kr |-> kr, ok |-> HandoffHolds(m, r, ks, kr)]

\* ... and then the receipt; without one it gives up.
ReadReceipt(ks, kr) ==
    /\ verifier # None
    /\ IF IsDoc(rfile) THEN Verified(verifier, rfile, ks, kr) ELSE UNCHANGED result
    /\ verifier' = None
    /\ UNCHANGED <<files, sender, receiver, manifests, receipts, calls, changes>>

\* verify_custody_transfer is handed both records, which may have been kept for long.
VerifyTransfer(m, r, ks, kr) ==
    /\ Verified(m, r, ks, kr)
    /\ UNCHANGED <<files, agents, manifests, receipts, calls, changes>>

\* Others alter a file: a field is that of another record, or the signature is gone.
AlterManifest ==
    /\ IsDoc(mfile) /\ changes < MaxChanges
    /\ \/ mfile' = [mfile EXCEPT !.signature = None]
       \/ \E m \in manifests :
             \/ mfile' = [mfile EXCEPT !.body.hash = m.body.hash]
             \/ mfile' = [mfile EXCEPT !.body.terms = m.body.terms]
             \/ mfile' = [mfile EXCEPT !.body.id = m.body.id]
    /\ changes' = changes + 1
    /\ UNCHANGED <<rfile, agents, manifests, receipts, result, calls>>

AlterReceipt ==
    /\ IsDoc(rfile) /\ changes < MaxChanges
    /\ \/ \E status \in Status : rfile' = [rfile EXCEPT !.body.status = status]
       \/ \E m \in manifests :
             rfile' = [rfile EXCEPT !.body.manifest_id = m.body.id, !.body.hash = m.body.hash]
    /\ changes' = changes + 1
    /\ UNCHANGED <<mfile, agents, manifests, receipts, result, calls>>

\* One of the three is cut off.
Crash ==
    /\ changes < MaxChanges
    /\ \/ sender # None /\ sender' = None /\ UNCHANGED <<receiver, verifier>>
       \/ receiver # None /\ receiver' = None /\ UNCHANGED <<sender, verifier>>
       \/ verifier # None /\ verifier' = None /\ UNCHANGED <<sender, receiver>>
    /\ changes' = changes + 1
    /\ UNCHANGED <<files, manifests, receipts, result, calls>>

Next ==
    \/ \E q \in Request : CreateManifest(q) \/ CreateTransfer(q)
    \/ WriteManifest
    \/ \E status \in Status, key \in Key : CreateReceipt(status, key)
    \/ OpenReceipt \/ WriteReceipt
    \/ ReadManifest
    \/ \E ks, kr \in Key : ReadReceipt(ks, kr)
    \/ \E m \in manifests, c \in receipts, ks, kr \in Key : VerifyTransfer(m, c.doc, ks, kr)
    \/ AlterManifest \/ AlterReceipt \/ Crash

Spec == Init /\ [][Next]_vars

-----------------------------------------------------------------------------
(* Properties *)

ManifestOK(m) == DOMAIN m = {"body", "signature"} /\ m.body \in Body /\ m.body.limit # Infinite
ReceiptOK(r) == DOMAIN r = {"body", "signature"} /\ r.body \in ReceiptBody

\* The types: whoever holds a record holds one that parsed.
TypeOK ==
    /\ \A m \in manifests \union {c.from : c \in receipts} : ManifestOK(m)
    /\ \A c \in receipts : ReceiptOK(c.doc)
    /\ IsDoc(mfile) => ManifestOK(mfile)
    /\ IsDoc(rfile) => ReceiptOK(rfile)
    /\ sender # None => ManifestOK(sender)
    /\ verifier # None => IsDoc(verifier) /\ ManifestOK(verifier)
    /\ receiver # None => ReceiptOK(receiver.doc)
    /\ calls \in 0 .. MaxCalls /\ changes \in 0 .. MaxChanges

\* A handoff that verifies is one both sides have signed, whatever became of the files
\* between their steps: the manifest as a whole with the sender's key, and with the
\* receiver's an acceptance of this id, for this receiver, of this digest (a2a.rs,
\* verify_complete_custody_handoff).
HandoffIsBilateral ==
    result # None /\ result.ok =>
        /\ \E m \in manifests : m = result.m /\ m.signature.key = result.ks
        /\ \E c \in receipts :
              /\ c.doc = result.r /\ c.doc.signature.key = result.kr
              /\ c.doc.body = [manifest_id |-> result.m.body.id,
                               receiver |-> result.m.body.receiver,
                               hash |-> result.m.body.hash, status |-> "accepted"]

\* No key has signed two manifests of one id.
IdsUnique(key) ==
    \A m, n \in manifests :
        m.signature.key = key /\ n.signature.key = key /\ m.body.id = n.body.id => m = n

\* A receipt is matched by id, receiver and digest, which leaves capsule, geofence, times
\* and limit open. Still it is a receipt for the very manifest it is verified with if the
\* sender's key signs no id twice and the receiver had a manifest as it was signed.
ReceiptForThisManifest ==
    result # None /\ result.ok /\ IdsUnique(result.ks) =>
        \A c \in receipts :
            c.doc = result.r /\ SignedBy(c.from, result.ks) /\ c.from \in manifests
               => c.from = result.m

\* The other way round: a manifest as it was signed and a receipt that was made from it
\* and accepts verify with the keys they were signed with, also when the manifest's limit
\* was lost in JSON.
HonestHandoffVerifies ==
    result # None =>
        \A c \in receipts :
            /\ c.doc = result.r /\ c.from = result.m /\ c.doc.body.status = "accepted"
            /\ result.m \in manifests /\ result.ks = result.m.signature.key
            /\ result.kr = result.r.signature.key
            => result.ok
=============================================================================
