------------------------------- MODULE Capsule -------------------------------
(***************************************************************************)
(* One capsule file between the program that packs it and the programs     *)
(* that verify and restore it.  On the way parts of the file may be        *)
(* replaced, other tools may sign it again, time passes, and a restore     *)
(* reads the file once and works on what it has read.                      *)
(* Encryption, digests and signatures are perfect: a digest is the value   *)
(* it is of, only equal keys and associated data open a ciphertext, and a  *)
(* signature exists only if its key was used to make it.                   *)
(***************************************************************************)
EXTENDS Integers, FiniteSets

CONSTANTS
    Data,         \* payload contents, as prepare_payload returns them
    Name,         \* file names
    Passphrase,   \* what users may type
    Request,      \* the calls of pack
    Chunks,       \* into how many KiB each ciphertext is cut, by its payload
    MaxWritten,   \* bound on the capsules packed or signed again
    MaxEdits,     \* bound on the edits of the file
    MaxTime,      \* bound on the clock
    None,         \* no capsule, no expiration, nobody
    Odd           \* a field whose content no code wrote

Profile == {"none", "zstd"}
Type == {"file", "tar"}
SignerId == {"local-ephemeral", "corp", ""}
Time == 0 .. MaxTime

\* pack's parameters; the passphrase and the wish to run are the caller's.
Asked == [data : Data, name : Name, type : Type, compression : Profile, pass : Passphrase,
          capable : BOOLEAN, requested : BOOLEAN]

ASSUME CapsuleAssumption ==
    /\ Request \subseteq Asked
    /\ Chunks \in [Data -> Nat \ {0}]
    /\ MaxWritten \in Nat /\ MaxEdits \in Nat /\ MaxTime \in Nat
    /\ {None, Odd} \intersect Passphrase = {} /\ None # Odd

-----------------------------------------------------------------------------
(* The parts of a capsule *)

\* compress and decompress. Without a profile the bytes are taken as they are; what
\* is no zstd stream cannot be decompressed.
Compress(data, profile) == [zstd |-> profile = "zstd", data |-> data]
CanDecompress(bytes, profile) == profile = "zstd" => bytes.zstd
Decompress(bytes, profile) == [data |-> bytes.data, zstd |-> bytes.zstd /\ profile = "none"]

\* A fault: the policy is left out.
AadWithoutPolicy(bundle_id, policy, payload_hash) ==
    [bundle_id |-> bundle_id, policy |-> "default", payload_hash |-> payload_hash]

\* What the payload's encryption is bound to.
AadOf(bundle_id, policy, payload_hash) ==
    [bundle_id |-> bundle_id, policy |-> policy, payload_hash |-> payload_hash]

Encrypt(pass, salt, aad, bytes) == [pass |-> pass, salt |-> salt, aad |-> aad, bytes |-> bytes]

\* decrypt_payload with this passphrase succeeds.
Opens(c, pass) ==
    c.ciphertext = Encrypt(pass, c.salt, AadOf(c.header.bundle_id, c.policy, c.payload_hash),
                           c.ciphertext.bytes)

\* build_chunk_table: the digest of each KiB of the ciphertext.
ChunkTable(ciphertext) == [i \in 1 .. Chunks[ciphertext.bytes.data] |-> <<ciphertext, i>>]

\* build_section_table: a digest of each section but the signature block.
SectionTable(c) ==
    [header |-> c.header, policy |-> c.policy, agent |-> c.agent, payload |-> c.ciphertext,
     chunks |-> c.chunks]

\* signature_payload
Statement(c) ==
    [header |-> c.header, sections |-> c.sections, policy |-> c.policy,
     encrypted_payload_hash |-> c.encrypted_payload_hash, agent |-> c.agent,
     chunks |-> c.chunks, expiration |-> c.expiration]

\* A signature tells its key and what it signs; keys are numbers.
Sign(key, over) == [key |-> key, over |-> over]
NoSignature == Sign(-1, None)

\* What pack builds before the chunk table, the chunk count, the section table and
\* the signature. Salt and nonce are fresh. kind stands for the header's magic,
\* version and fixed flags, methods for the KDF and the cipher.
Draft(r, salt) ==
    LET bytes == Compress(r.data, r.compression)
        bundle_id == [prepared |-> r.data, compressed |-> bytes]
        ciphertext == Encrypt(r.pass, salt, AadOf(bundle_id, "default", bytes), bytes)
    IN  [header |-> [kind |-> "AQR1", bundle_id |-> bundle_id, type |-> r.type,
                     capable |-> r.capable, chunk_count |-> 0],
         sections |-> None, policy |-> "default",
         agent |-> [declares |-> r.requested /\ r.capable, summary |-> r.name],
         type |-> r.type, name |-> r.name, compression |-> r.compression,
         methods |-> "argon2id, xchacha20poly1305",
         salt |-> salt, encrypted_payload_hash |-> ciphertext, payload_hash |-> bytes,
         ciphertext |-> ciphertext, chunks |-> None,
         signer_id |-> "local-ephemeral", public_key |-> -1, signature |-> NoSignature,
         expiration |-> None]

\* The end of pack, step by step.
Chunked(c) == [c EXCEPT !.chunks = ChunkTable(c.ciphertext)]
Counted(c) == [c EXCEPT !.header.chunk_count = Chunks[c.ciphertext.bytes.data]]
Sectioned(c) == [c EXCEPT !.sections = SectionTable(c)]
Signed(c, key) == [c EXCEPT !.public_key = key, !.signature = Sign(key, Statement(c))]

\* A fault: the section table is built before the header is complete.
PackCountedLast(r, salt, key) == Signed(Counted(Sectioned(Chunked(Draft(r, salt)))), key)

Pack(r, salt, key) == Signed(Sectioned(Counted(Chunked(Draft(r, salt)))), key)

\* A fault: the section table is not compared with the sections.
TablesFit(c) == c.chunks = ChunkTable(c.ciphertext)

\* The end of verify_capsule_structure: both tables are built anew.
TablesMatch(c) ==
    /\ c.sections = SectionTable(c)
    /\ c.chunks = ChunkTable(c.ciphertext)

\* verify_capsule_structure
WellFormed(c) ==
    /\ c.header.kind = "AQR1"
    /\ c.header.type = c.type
    /\ c.header.chunk_count = Chunks[c.ciphertext.bytes.data]
    /\ c.agent.declares => c.header.capable
    /\ c.methods = "argon2id, xchacha20poly1305"
    /\ c.signer_id # ""
    /\ TablesMatch(c)

\* validate_signature_expiration: the last second does not count any more, and a
\* text that is no time counts as over.
Unexpired(c, now) == c.expiration # None => (c.expiration # Odd /\ now < c.expiration)

\* verify_signature
SignatureHolds(c, now) ==
    /\ c.signature = Sign(c.public_key, Statement(c))
    /\ Unexpired(c, now)

VARIABLES
    file,       \* the capsule file, or None
    packed,     \* what pack has made, with the request it was made from
    issued,     \* every signature that was made
    clock,      \* the time
    job,        \* the restore that is running, and the capsule it has read
    restored,   \* what the last restore that succeeded has got out of its capsule
    written, edits   \* how many capsules were written, and how many edits made

vars == <<file, packed, issued, clock, job, restored, written, edits>>

NoJob == [pc |-> "idle", cap |-> None, pass |-> None]

Init ==
    /\ file = None /\ packed = {} /\ issued = {}
    /\ clock = 0
    /\ job = NoJob /\ restored = None
    /\ written = 0 /\ edits = 0

\* pack, with a new key for each capsule. Keys and salts are numbered.
PackFile(r) ==
    LET c == Pack(r, written, written)
    IN  /\ written < MaxWritten
        /\ file' = c
        /\ packed' = packed \union {[request |-> r, cap |-> c]}
        /\ issued' = issued \union {c.signature}
        /\ written' = written + 1
        /\ UNCHANGED <<clock, job, restored, edits>>

\* Another tool sets a signer id and an expiration and signs what the file holds with
\* a key of its own, as resign_capsule_for_test does; it may also rebuild the section
\* table, without which no change of a section would be accepted again.
SignAgain(expiration) ==
    /\ file # None /\ written < MaxWritten
    /\ \E c \in {file, Sectioned(file)} :
          file' = Signed([c EXCEPT !.signer_id = "corp", !.expiration = expiration], written)
    /\ issued' = issued \union {file'.signature}
    /\ written' = written + 1
    /\ UNCHANGED <<packed, clock, job, restored, edits>>

\* What other programs may have put into a field ...
Other(c) ==
    [header |-> {[c.header EXCEPT !.kind = "other"], [c.header EXCEPT !.chunk_count = 0],
                 [c.header EXCEPT !.capable = ~c.header.capable]},
     agent |-> {[c.agent EXCEPT !.declares = ~c.agent.declares]},
     ciphertext |-> {[c.ciphertext EXCEPT !.pass = None]},
     name |-> Name, type |-> Type, compression |-> Profile, signer_id |-> SignerId,
     expiration |-> Time, public_key |-> {s.key : s \in issued},
     signature |-> issued \union {NoSignature},
     sections |-> {Odd}, policy |-> {Odd}, methods |-> {Odd}, salt |-> {Odd},
     encrypted_payload_hash |-> {Odd}, payload_hash |-> {Odd}, chunks |-> {Odd}]

\* ... or what it is in another capsule.
Replacements(c, field) == {p.cap[field] : p \in packed} \union Other(c)[field]

Edit(field) ==
    /\ file # None /\ edits < MaxEdits
    /\ \E v \in Replacements(file, field) : file' = [file EXCEPT ![field] = v]
    /\ edits' = edits + 1
    /\ UNCHANGED <<packed, issued, clock, job, restored, written>>

Tick ==
    /\ clock < MaxTime
    /\ clock' = clock + 1
    /\ UNCHANGED <<file, packed, issued, job, restored, written, edits>>

\* A trust store has one key at most for each signer id; add_signer replaces it.
Key == 0 .. MaxWritten
TrustStore == [SignerId -> Key \union {None}]

\* is_trusted
Trusted(store, c) == store[c.signer_id] = c.public_key

\* verify_capsule: structure and signature, and trust when it is strict. It changes
\* nothing. (The chunk digests it then compares are those WellFormed has compared.)
Accepts(c) == c # None /\ WellFormed(c) /\ SignatureHolds(c, clock)
AcceptsStrictly(c, store) == Accepts(c) /\ Trusted(store, c)

\* restore_capsule reads the file ...
ReadFile(pass) ==
    /\ job = NoJob /\ file # None
    /\ job' = [pc |-> "read", cap |-> file, pass |-> pass]
    /\ UNCHANGED <<file, packed, issued, clock, restored, written, edits>>

\* A fault: restoring relies on an earlier verify.
CheckReadUnsigned ==
    /\ job.pc = "read"
    /\ job' = IF WellFormed(job.cap) THEN [job EXCEPT !.pc = "checked"] ELSE NoJob
    /\ UNCHANGED <<file, packed, issued, clock, restored, written, edits>>

\* A fault: the file is read once more, to be checked.
CheckReread ==
    /\ job.pc = "read"
    /\ job' = IF file # None /\ WellFormed(file) /\ SignatureHolds(file, clock)
              THEN [job EXCEPT !.pc = "checked"] ELSE NoJob
    /\ UNCHANGED <<file, packed, issued, clock, restored, written, edits>>

\* ... looks at structure and signature; no trust store is asked ...
CheckRead ==
    /\ job.pc = "read"
    /\ job' = IF WellFormed(job.cap) /\ SignatureHolds(job.cap, clock)
              THEN [job EXCEPT !.pc = "checked"] ELSE NoJob
    /\ UNCHANGED <<file, packed, issued, clock, restored, written, edits>>

\* ... and decrypts what it has read, compares the digest and decompresses.
Restorable(c, pass) ==
    /\ Opens(c, pass)
    /\ c.ciphertext.bytes = c.payload_hash
    /\ CanDecompress(c.ciphertext.bytes, c.compression)

Decrypt ==
    LET c == job.cap
        bytes == c.ciphertext.bytes
    IN  /\ job.pc = "checked"
        /\ \/ /\ Restorable(c, job.pass)
              /\ restored' = [payload |-> Decompress(bytes, c.compression), name |-> c.name,
                              bundle_id |-> c.header.bundle_id, policy |-> c.policy,
                              pass |-> job.pass, bytes |-> bytes]
           \/ ~Restorable(c, job.pass) /\ UNCHANGED restored
        /\ job' = NoJob
        /\ UNCHANGED <<file, packed, issued, clock, written, edits>>

Field ==
    {"header", "sections", "policy", "agent", "type", "name", "compression", "methods", "salt",
     "encrypted_payload_hash", "payload_hash", "ciphertext", "chunks", "signer_id",
     "public_key", "signature", "expiration"}

Next ==
    \/ \E r \in Request : PackFile(r)
    \/ \E t \in Time \union {Odd} : SignAgain(t)
    \/ \E field \in Field : Edit(field)
    \/ Tick
    \/ \E pass \in Passphrase : ReadFile(pass)
    \/ CheckRead
    \/ Decrypt

Spec == Init /\ [][Next]_vars

-----------------------------------------------------------------------------
(* Properties *)

Bytes == [zstd : BOOLEAN, data : Data]
BundleId == [prepared : Data, compressed : Bytes]
Header == [kind : {"AQR1", "other"}, bundle_id : BundleId, type : Type, capable : BOOLEAN,
           chunk_count : Nat]
Agent == [declares : BOOLEAN, summary : Name]
Aad == [bundle_id : BundleId, policy : {"default"}, payload_hash : Bytes]
Ciphertext == [pass : Passphrase \union {None}, salt : Nat, aad : Aad, bytes : Bytes]

CapsuleOK(c) ==
    /\ DOMAIN c = Field
    /\ c.header \in Header /\ c.agent \in Agent /\ c.ciphertext \in Ciphertext
    /\ c.name \in Name /\ c.type \in Type /\ c.compression \in Profile
    /\ c.signer_id \in SignerId /\ c.public_key \in Nat

\* The types: the parts of a capsule keep their shape through every edit, signatures
\* are by keys that exist, and a restore that has been admitted to the decryption
\* has a capsule with a signature on it.
TypeOK ==
    /\ \A c \in {file, job.cap} \ {None} : CapsuleOK(c)
    /\ \A s \in issued : s.key \in 0 .. written - 1
    /\ job.pc \in {"idle", "read", "checked"} /\ job.pass \in Passphrase \union {None}
    /\ job.pc = "checked" => job.cap.signature \in issued
    /\ clock \in Time /\ written \in 0 .. MaxWritten /\ edits \in 0 .. MaxEdits

\* What pack makes passes the checks of verify and restore whenever it comes back
\* unchanged, and restores to the data and the name it was made from: the tables were
\* built in an order in which none has gone stale when the capsule is signed, and what
\* the caller asked for is no combination verify rejects (lib.rs, pack).
PackedIsRestored ==
    \A p \in packed :
        /\ WellFormed(p.cap) /\ SignatureHolds(p.cap, clock)
        /\ Restorable(p.cap, p.request.pass)
        /\ Decompress(p.cap.ciphertext.bytes, p.cap.compression) =
              [data |-> p.request.data, zstd |-> FALSE]
        /\ p.cap.name = p.request.name

\* However the file was put together, header, policy, agent index, ciphertext, chunk
\* table and expiration of a capsule that verify accepts are those of one signature,
\* and when it is strict that signature was made with the key trusted for this signer
\* (lib.rs, verify_capsule).
AcceptedIsSigned ==
    Accepts(file) =>
        \E s \in issued :
            /\ s.over.header = file.header /\ s.over.policy = file.policy
            /\ s.over.agent = file.agent /\ s.over.chunks = file.chunks
            /\ s.over.expiration = file.expiration
            /\ s.over.sections = SectionTable(file)
            /\ \A store \in TrustStore :
                  AcceptsStrictly(file, store) => s.key = store[file.signer_id]

\* A restore goes on to decrypt only what one signature covers, in header, policy, agent
\* index, ciphertext, chunk table and expiration, and no expiration that is no time: of
\* the very bytes it has read itself, whatever a verify saw in the file before and
\* whatever the file holds by now (lib.rs, restore_capsule).
CheckedIsSigned ==
    job.pc = "checked" =>
        LET c == job.cap
        IN  /\ c.expiration # Odd
            /\ \E s \in issued :
                  /\ s.key = c.public_key
                  /\ s.over.header = c.header /\ s.over.policy = c.policy
                  /\ s.over.agent = c.agent /\ s.over.chunks = c.chunks
                  /\ s.over.expiration = c.expiration
                  /\ s.over.sections = SectionTable(c)

\* However the file was put together and by whomever it was signed again, what a
\* restore decrypts is what one call of pack encrypted with the same passphrase, for
\* the bundle id and under the policy that the capsule shows (lib.rs, decrypt_payload
\* with the associated data of make_aad).
RestoredIsPacked ==
    restored # None =>
        \E p \in packed :
            /\ restored.bytes = Compress(p.request.data, p.request.compression)
            /\ restored.pass = p.request.pass
            /\ restored.bundle_id = p.cap.header.bundle_id
            /\ restored.policy = p.cap.policy

\* What the manual says of a capsule, that it is tamper-evident and signed as a
\* whole: what is restored is the data, and has the name, that pack was given.
RestoredAsPacked ==
    restored # None =>
        \E p \in packed :
            /\ restored.payload = [data |-> p.request.data, zstd |-> FALSE]
            /\ restored.name = p.request.name

\* What the security policy says: a signature by a key that is not in the trust store
\* is rejected.
AcceptedOnlyTrusted ==
    \A store \in TrustStore : Accepts(file) => AcceptsStrictly(file, store)
=============================================================================
