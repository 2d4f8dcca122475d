--------------------------- MODULE Capsule_proofs ---------------------------
(***************************************************************************)
(* Type correctness of Capsule and its four safety properties, for every   *)
(* set of requests and every number of capsules, edits and clock ticks.    *)
(***************************************************************************)
EXTENDS Capsule, TLAPS

-----------------------------------------------------------------------------
(* The strengthening: every capsule that is around, in the file or in a    *)
(* restore, has an unopenable ciphertext or that of a packed capsule, and  *)
(* no signature or one that was made; and what was packed is what Pack     *)
(* makes of a request.                                                     *)

Shape(c) == c = [f \in Field |-> c[f]]

Known(c, ps, ss) ==
    /\ Shape(c) /\ CapsuleOK(c)
    /\ c.ciphertext.pass = None \/ \E p \in ps : c.ciphertext = p.cap.ciphertext
    /\ c.signature \in ss \union {NoSignature}

PackedKnown ==
    \A p \in packed :
        /\ p.request \in Request
        /\ p.cap.signature \in issued
        /\ \E k \in Nat : p.cap = Pack(p.request, k, k)

FileKnown == file # None => Known(file, packed, issued)
JobKnown ==
    \/ job = NoJob
    \/ /\ job \in [pc : {"read", "checked"}, cap : {job.cap}, pass : Passphrase]
       /\ Known(job.cap, packed, issued)

IInv == TypeOK /\ PackedKnown /\ FileKnown /\ JobKnown /\ RestoredIsPacked

-----------------------------------------------------------------------------
(* What pack makes *)

\* The header, before and after the chunks are counted.
HeaderWith(r, count) ==
    [kind |-> "AQR1",
     bundle_id |-> [prepared |-> r.data, compressed |-> Compress(r.data, r.compression)],
     type |-> r.type, capable |-> r.capable, chunk_count |-> count]
HeaderOf(r) == HeaderWith(r, Chunks[r.data])

CiphertextOf(r, salt) ==
    Encrypt(r.pass, salt,
            AadOf([prepared |-> r.data, compressed |-> Compress(r.data, r.compression)],
                  "default", Compress(r.data, r.compression)),
            Compress(r.data, r.compression))

AgentOf(r) == [declares |-> r.requested /\ r.capable, summary |-> r.name]

\* The fields that no later step of pack changes.
Settled(c, r, k) ==
    /\ c.policy = "default" /\ c.agent = AgentOf(r)
    /\ c.type = r.type /\ c.name = r.name /\ c.compression = r.compression
    /\ c.methods = "argon2id, xchacha20poly1305" /\ c.salt = k
    /\ c.payload_hash = Compress(r.data, r.compression)
    /\ c.ciphertext = CiphertextOf(r, k)
    /\ c.signer_id = "local-ephemeral" /\ c.expiration = None

\* Before the tables: the fields of the draft.
LEMMA DraftFields ==
    ASSUME NEW r \in Request, NEW k \in Nat
    PROVE  LET d == Draft(r, k)
           IN  Shape(d) /\ d.header = HeaderWith(r, 0) /\ Settled(d, r, k)
<1> DEFINE d == Draft(r, k)
<1>1. Shape(d)
  BY DEF Draft, Shape, Field
<1>2. d.header = HeaderWith(r, 0)
  BY DEF Draft, HeaderWith
<1>3. d.agent = AgentOf(r)
  BY DEF Draft, AgentOf
<1>4. d.ciphertext = CiphertextOf(r, k)
  BY DEF Draft, CiphertextOf
<1>5. /\ d.policy = "default" /\ d.type = r.type /\ d.name = r.name
      /\ d.compression = r.compression
      /\ d.methods = "argon2id, xchacha20poly1305" /\ d.salt = k
      /\ d.payload_hash = Compress(r.data, r.compression)
      /\ d.signer_id = "local-ephemeral" /\ d.expiration = None
  BY DEF Draft
<1> HIDE DEF d
<1>6. Settled(d, r, k)
  BY <1>3, <1>4, <1>5 DEF Settled
<1> QED
  BY <1>1, <1>2, <1>6 DEF d

\* The fields of a capsule that was packed from r.
PackedFrom(c, r, k) ==
    /\ Shape(c)
    /\ c.header = HeaderOf(r) /\ Settled(c, r, k)
    /\ c.chunks = ChunkTable(c.ciphertext) /\ c.sections = SectionTable(c)
    /\ c.public_key = k /\ c.signature = Sign(k, Statement(c))

\* No table is stale when the capsule is signed, and signing changes nothing that is
\* signed.
LEMMA PackFields ==
    ASSUME NEW r \in Request, NEW k \in Nat
    PROVE  PackedFrom(Pack(r, k, k), r, k)
<1> DEFINE c0 == Draft(r, k)
           c1 == Chunked(c0)
           c2 == Counted(c1)
           c3 == Sectioned(c2)
           c4 == Signed(c3, k)
<1>1. c4 = Pack(r, k, k)
  BY DEF Pack
<1>2. /\ Shape(c0)
      /\ c0.header = HeaderWith(r, 0)
      /\ c0.ciphertext = CiphertextOf(r, k)
  BY DraftFields DEF Settled
<1>3. Chunks[c0.ciphertext.bytes.data] = Chunks[r.data]
  BY <1>2 DEF CiphertextOf, Encrypt, Compress
<1>4. /\ c1 = [f \in Field |-> IF f = "chunks" THEN ChunkTable(c0.ciphertext) ELSE c0[f]]
      /\ Shape(c1)
  BY <1>2 DEF Chunked, Shape, Field
<1>5. /\ c2 = [f \in Field |-> IF f = "header" THEN HeaderOf(r) ELSE c1[f]]
      /\ Shape(c2)
  <2>1. c1.header = c0.header /\ c1.ciphertext = c0.ciphertext
    BY <1>4 DEF Field
  <2>2. [c1.header EXCEPT !.chunk_count = Chunks[c1.ciphertext.bytes.data]] = HeaderOf(r)
    <3>1. c1.header = HeaderWith(r, 0) /\ Chunks[c1.ciphertext.bytes.data] = Chunks[r.data]
      BY <1>2, <1>3, <2>1
    <3>2. [HeaderWith(r, 0) EXCEPT !.chunk_count = Chunks[r.data]] = HeaderWith(r, Chunks[r.data])
      BY DEF HeaderWith
    <3> QED
      BY <3>1, <3>2 DEF HeaderOf
  <2>3. c2 = [c1 EXCEPT !.header = [c1.header EXCEPT !.chunk_count = Chunks[c1.ciphertext.bytes.data]]]
    BY <1>4 DEF Counted, Shape, Field
  <2> QED
    BY <1>4, <2>2, <2>3 DEF Shape, Field
<1>6. /\ c3 = [f \in Field |-> IF f = "sections" THEN SectionTable(c2) ELSE c2[f]]
      /\ Shape(c3)
  BY <1>5 DEF Sectioned, Shape, Field
<1>7. /\ c4 = [f \in Field |-> IF f = "public_key" THEN k
                               ELSE IF f = "signature" THEN Sign(k, Statement(c3)) ELSE c3[f]]
      /\ Shape(c4)
  BY <1>6 DEF Signed, Shape, Field
<1> HIDE DEF c0, c1, c2, c3, c4
<1>8. \A f \in Field \ {"chunks", "header", "sections", "public_key", "signature"} :
          c4[f] = c0[f]
  BY <1>4, <1>5, <1>6, <1>7
<1>9. /\ c4.header = HeaderOf(r) /\ c2.header = HeaderOf(r)
      /\ c4.chunks = ChunkTable(c0.ciphertext) /\ c2.chunks = c4.chunks
      /\ c4.sections = SectionTable(c2) /\ c4.sections = c3.sections
      /\ c4.public_key = k /\ c4.signature = Sign(k, Statement(c3))
      /\ c4.policy = c2.policy /\ c4.agent = c2.agent /\ c4.ciphertext = c2.ciphertext
      /\ c3.header = c4.header /\ c3.policy = c4.policy /\ c3.agent = c4.agent
      /\ c3.chunks = c4.chunks /\ c3.expiration = c4.expiration
      /\ c3.encrypted_payload_hash = c4.encrypted_payload_hash
  BY <1>4, <1>5, <1>6, <1>7 DEF Field
<1>10. SectionTable(c2) = SectionTable(c4) /\ Statement(c3) = Statement(c4)
  BY <1>9 DEF SectionTable, Statement
<1>11. /\ c4.policy = c0.policy /\ c4.agent = c0.agent /\ c4.type = c0.type
       /\ c4.name = c0.name /\ c4.compression = c0.compression /\ c4.methods = c0.methods
       /\ c4.salt = c0.salt /\ c4.payload_hash = c0.payload_hash
       /\ c4.ciphertext = c0.ciphertext /\ c4.signer_id = c0.signer_id
       /\ c4.expiration = c0.expiration
  BY <1>8 DEF Field
<1>12. Settled(c0, r, k)
  BY DraftFields DEF c0
<1>13. Settled(c4, r, k)
  BY <1>11, <1>12 DEF Settled
<1> QED
  BY <1>1, <1>7, <1>9, <1>10, <1>11, <1>13 DEF PackedFrom

LEMMA RequestType ==
    ASSUME NEW r \in Request
    PROVE  /\ r.data \in Data /\ r.name \in Name /\ r.type \in Type
           /\ r.compression \in Profile /\ r.pass \in Passphrase
           /\ r.capable \in BOOLEAN /\ r.requested \in BOOLEAN
           /\ Compress(r.data, r.compression) \in Bytes
           /\ Chunks[r.data] \in Nat
BY CapsuleAssumption DEF Asked, Bytes, Compress

LEMMA HeaderFields ==
    ASSUME NEW r \in Request
    PROVE  /\ HeaderOf(r).kind = "AQR1" /\ HeaderOf(r).type = r.type
           /\ HeaderOf(r).capable = r.capable /\ HeaderOf(r).chunk_count = Chunks[r.data]
           /\ HeaderOf(r).bundle_id =
                 [prepared |-> r.data, compressed |-> Compress(r.data, r.compression)]
           /\ HeaderOf(r) \in Header
<1>1. HeaderOf(r) = [kind |-> "AQR1",
                     bundle_id |-> [prepared |-> r.data,
                                    compressed |-> Compress(r.data, r.compression)],
                     type |-> r.type, capable |-> r.capable, chunk_count |-> Chunks[r.data]]
  BY DEF HeaderOf, HeaderWith
<1>2. [prepared |-> r.data, compressed |-> Compress(r.data, r.compression)] \in BundleId
  BY RequestType DEF BundleId
<1> QED
  BY <1>1, <1>2, RequestType DEF Header

LEMMA PackType ==
    ASSUME NEW r \in Request, NEW k \in Nat, NEW c, PackedFrom(c, r, k)
    PROVE  CapsuleOK(c)
<1>1. c.header \in Header
  BY HeaderFields DEF PackedFrom, Settled
<1>2. c.ciphertext \in Ciphertext
  <2>1. CiphertextOf(r, k) \in Ciphertext
    BY RequestType DEF CiphertextOf, Encrypt, AadOf, Ciphertext, Aad, BundleId
  <2> QED
    BY <2>1 DEF PackedFrom, Settled
<1>3. c.agent \in Agent
  <2>1. AgentOf(r) \in Agent
    BY RequestType DEF Agent, AgentOf
  <2> QED
    BY <2>1 DEF PackedFrom, Settled
<1>4. /\ c.name \in Name /\ c.type \in Type /\ c.compression \in Profile
      /\ c.signer_id \in SignerId /\ c.public_key \in Nat
  BY RequestType DEF PackedFrom, Settled, SignerId
<1>5. DOMAIN c = Field
  BY DEF PackedFrom, Settled, Shape
<1> QED
  BY <1>1, <1>2, <1>3, <1>4, <1>5 DEF CapsuleOK

\* What pack makes verifies at any time and is restored.
LEMMA PackWorks ==
    ASSUME NEW r \in Request, NEW k \in Nat, NEW c, PackedFrom(c, r, k), NEW now
    PROVE      /\ WellFormed(c) /\ SignatureHolds(c, now) /\ Restorable(c, r.pass)
               /\ Decompress(c.ciphertext.bytes, c.compression) = [data |-> r.data, zstd |-> FALSE]
               /\ c.name = r.name
<1> DEFINE bytes == Compress(r.data, r.compression)
<1>1. c.ciphertext.bytes = bytes /\ bytes.data = r.data /\ bytes.zstd = (r.compression = "zstd")
  <2>1. bytes.data = r.data /\ bytes.zstd = (r.compression = "zstd")
    BY DEF Compress
  <2>2. CiphertextOf(r, k).bytes = bytes
    BY DEF CiphertextOf, Encrypt
  <2> QED
    BY <2>1, <2>2 DEF PackedFrom, Settled
<1>2. WellFormed(c)
  <2>1. c.header.kind = "AQR1" /\ c.header.type = c.type
        /\ c.header.chunk_count = Chunks[c.ciphertext.bytes.data]
    <3>1. c.header = HeaderOf(r) /\ c.type = r.type
      BY DEF PackedFrom, Settled
    <3> QED
      BY <1>1, <3>1, HeaderFields
  <2>2. c.agent.declares => c.header.capable
    <3>1. c.header.capable = r.capable
      BY HeaderFields DEF PackedFrom, Settled
    <3>2. CASE r.capable
      BY <3>1, <3>2
    <3>3. CASE ~r.capable
      <4> DEFINE declares == r.requested /\ r.capable
      <4>1. declares = FALSE
        BY <3>3
      <4>2. c.agent = [declares |-> declares, summary |-> r.name]
        BY DEF PackedFrom, Settled, AgentOf
      <4> HIDE DEF declares
      <4> QED
        BY <4>1, <4>2
    <3> QED
      BY <3>2, <3>3
  <2>3. c.signer_id # "" /\ c.methods = "argon2id, xchacha20poly1305" /\ TablesMatch(c)
    BY DEF PackedFrom, Settled, TablesMatch
  <2> QED
    BY <2>1, <2>2, <2>3 DEF WellFormed
<1>3. SignatureHolds(c, now)
  BY DEF PackedFrom, Settled, SignatureHolds, Unexpired
<1>4. Restorable(c, r.pass)
  <2>1. c.header.bundle_id = [prepared |-> r.data, compressed |-> bytes]
    BY HeaderFields DEF PackedFrom, Settled
  <2>2. c.ciphertext = Encrypt(r.pass, c.salt, AadOf(c.header.bundle_id, c.policy, c.payload_hash),
                               c.ciphertext.bytes)
    BY <1>1, <2>1 DEF PackedFrom, Settled, CiphertextOf
  <2>3. CanDecompress(c.ciphertext.bytes, c.compression)
    BY <1>1 DEF PackedFrom, Settled, CanDecompress
  <2> QED
    BY <1>1, <2>2, <2>3 DEF PackedFrom, Settled, Restorable, Opens
<1>5. Decompress(c.ciphertext.bytes, c.compression) = [data |-> r.data, zstd |-> FALSE]
  <2>1. c.compression = r.compression /\ r.compression \in Profile
    BY RequestType DEF PackedFrom, Settled
  <2> QED
    BY <1>1, <2>1 DEF Decompress, Profile
<1> QED
  BY <1>2, <1>3, <1>4, <1>5 DEF PackedFrom, Settled

-----------------------------------------------------------------------------
(* Edits and signatures keep what is known of a capsule *)

LEMMA KnownGrows ==
    ASSUME NEW c, NEW ps, NEW qs, NEW ss, NEW ts, ps \subseteq qs, ss \subseteq ts,
           Known(c, ps, ss)
    PROVE  Known(c, qs, ts)
BY DEF Known

LEMMA EditKnown ==
    ASSUME TypeOK, PackedKnown, NEW c, Known(c, packed, issued),
           NEW field \in Field, NEW v \in Replacements(c, field)
    PROVE  Known([c EXCEPT ![field] = v], packed, issued)
<1> DEFINE d == [c EXCEPT ![field] = v]
<1>1. /\ Shape(c) /\ Shape(d)
      /\ \A f \in Field : d[f] = IF f = field THEN v ELSE c[f]
  BY DEF Known, Shape
<1>2. \A p \in packed : CapsuleOK(p.cap)
  BY PackFields, PackType DEF PackedKnown
<1>3. v \in {p.cap[field] : p \in packed} \/ v \in Other(c)[field]
  BY DEF Replacements
<1> HIDE DEF d
<1>4. d.header \in Header
  <2>1. CASE field = "header"
    <3>1. c.header \in Header
      BY DEF Known, CapsuleOK
    <3>2. {[c.header EXCEPT !.kind = "other"], [c.header EXCEPT !.chunk_count = 0],
           [c.header EXCEPT !.capable = ~c.header.capable]} \subseteq Header
      <4>1. [c.header EXCEPT !.kind = "other"] \in Header
        BY <3>1 DEF Header
      <4>2. [c.header EXCEPT !.chunk_count = 0] \in Header
        BY <3>1 DEF Header
      <4>3. [c.header EXCEPT !.capable = ~c.header.capable] \in Header
        BY <3>1 DEF Header
      <4> QED
        BY <4>1, <4>2, <4>3
    <3>3. Other(c)[field] \subseteq Header
      BY <2>1, <3>2 DEF Other
    <3>4. \A p \in packed : p.cap[field] \in Header
      BY <1>2, <2>1 DEF CapsuleOK
    <3> QED
      BY <1>1, <1>3, <2>1, <3>3, <3>4 DEF Field
  <2>2. CASE field # "header"
    BY <1>1, <2>2 DEF Known, CapsuleOK, Field
  <2> QED
    BY <2>1, <2>2
<1>5. d.agent \in Agent
  <2>1. CASE field = "agent"
    <3>1. c.agent \in Agent
      BY DEF Known, CapsuleOK
    <3>2. Other(c)[field] \subseteq Agent
      <4>1. [c.agent EXCEPT !.declares = ~c.agent.declares] \in Agent
        BY <3>1 DEF Agent
      <4>2. Other(c)["agent"] = {[c.agent EXCEPT !.declares = ~c.agent.declares]}
        BY DEF Other
      <4> QED
        BY <2>1, <4>1, <4>2
    <3>3. \A p \in packed : p.cap[field] \in Agent
      BY <1>2, <2>1 DEF CapsuleOK
    <3> QED
      BY <1>1, <1>3, <2>1, <3>2, <3>3 DEF Field
  <2>2. CASE field # "agent"
    BY <1>1, <2>2 DEF Known, CapsuleOK, Field
  <2> QED
    BY <2>1, <2>2
<1>6. /\ d.ciphertext \in Ciphertext
      /\ d.ciphertext.pass = None \/ \E p \in packed : d.ciphertext = p.cap.ciphertext
  <2>1. CASE field = "ciphertext"
    <3>1. c.ciphertext \in Ciphertext
      BY DEF Known, CapsuleOK
    <3>2. CASE v \in Other(c)[field]
      <4>1. v = [c.ciphertext EXCEPT !.pass = None]
        BY <2>1, <3>2 DEF Other
      <4>2. v \in Ciphertext /\ v.pass = None
        BY <3>1, <4>1 DEF Ciphertext
      <4> QED
        BY <1>1, <2>1, <4>2 DEF Field
    <3>3. CASE v \in {p.cap[field] : p \in packed}
      BY <1>1, <1>2, <2>1, <3>3 DEF CapsuleOK, Field
    <3> QED
      BY <1>3, <3>2, <3>3
  <2>2. CASE field # "ciphertext"
    BY <1>1, <2>2 DEF Known, CapsuleOK, Field
  <2> QED
    BY <2>1, <2>2
<1>7. d.name \in Name /\ d.type \in Type /\ d.compression \in Profile /\ d.signer_id \in SignerId
  <2>1. /\ field = "name" => v \in Name
        /\ field = "type" => v \in Type
        /\ field = "compression" => v \in Profile
        /\ field = "signer_id" => v \in SignerId
    BY <1>2, <1>3 DEF Other, CapsuleOK
  <2> QED
    BY <1>1, <2>1 DEF Known, CapsuleOK, Field
<1>8. d.public_key \in Nat
  <2>1. \A s \in issued : s.key \in Nat
    BY DEF TypeOK
  <2>2. field = "public_key" => v \in Nat
    BY <1>2, <1>3, <2>1 DEF Other, CapsuleOK
  <2> QED
    BY <1>1, <2>2 DEF Known, CapsuleOK, Field
<1>9. d.signature \in issued \union {NoSignature}
  <2>1. field = "signature" => v \in issued \union {NoSignature}
    BY <1>3 DEF Other, PackedKnown
  <2> QED
    BY <1>1, <2>1 DEF Known, Field
<1>10. DOMAIN d = Field
  BY <1>1 DEF Shape
<1> QED
  BY <1>1, <1>4, <1>5, <1>6, <1>7, <1>8, <1>9, <1>10 DEF Known, CapsuleOK, d

\* Building the section table again changes nothing but that.
LEMMA SectionedKnown ==
    ASSUME NEW c, Known(c, packed, issued)
    PROVE  Known(Sectioned(c), packed, issued)
<1> DEFINE d == Sectioned(c)
<1>1. d = [f \in Field |-> IF f = "sections" THEN SectionTable(c) ELSE c[f]]
  BY DEF Known, Shape, Sectioned, Field
<1> HIDE DEF d
<1>2. /\ Shape(d) /\ d.header = c.header /\ d.agent = c.agent /\ d.ciphertext = c.ciphertext
      /\ d.name = c.name /\ d.type = c.type /\ d.compression = c.compression
      /\ d.signer_id = c.signer_id /\ d.public_key = c.public_key
      /\ d.signature = c.signature
  BY <1>1 DEF Shape, Field
<1>3. Known(d, packed, issued)
  BY <1>2 DEF Known, CapsuleOK, Shape
<1> QED
  BY <1>3 DEF d

\* What SignAgain makes of a capsule.
Resigned(c, t, k) == Signed([c EXCEPT !.signer_id = "corp", !.expiration = t], k)

\* Signing again changes the signature block only.
LEMMA SignKnown ==
    ASSUME NEW c, Known(c, packed, issued), NEW k \in Nat, NEW t
    PROVE  /\ Known(Resigned(c, t, k), packed, issued \union {Resigned(c, t, k).signature})
           /\ Resigned(c, t, k).signature.key = k
<1> DEFINE d == Resigned(c, t, k)
           e == [c EXCEPT !.signer_id = "corp", !.expiration = t]
<1>1. /\ Shape(e) /\ e.signer_id = "corp"
      /\ \A f \in Field \ {"signer_id", "expiration"} : e[f] = c[f]
  BY DEF Known, Shape, Field
<1>2. d = Signed(e, k)
  BY DEF Resigned
<1> HIDE DEF d, e
<1>3. d = [f \in Field |-> IF f = "public_key" THEN k
                          ELSE IF f = "signature" THEN Sign(k, Statement(e)) ELSE e[f]]
  BY <1>1, <1>2 DEF Signed, Shape, Field
<1>4. /\ Shape(d) /\ d.public_key = k /\ d.signature = Sign(k, Statement(e))
      /\ d.header = c.header /\ d.agent = c.agent /\ d.ciphertext = c.ciphertext
      /\ d.name = c.name /\ d.type = c.type /\ d.compression = c.compression
      /\ d.signer_id = "corp"
  BY <1>1, <1>3 DEF Shape, Field
<1>5. CapsuleOK(d)
  BY <1>4 DEF Known, CapsuleOK, Shape, SignerId
<1>6. d.signature.key = k
  BY <1>4 DEF Sign
<1>7. Known(d, packed, issued \union {d.signature})
  BY <1>4, <1>5 DEF Known
<1> QED
  BY <1>6, <1>7 DEF d

-----------------------------------------------------------------------------
(* IInv is inductive *)

LEMMA InitInv == Init => IInv
BY CapsuleAssumption DEF Init, IInv, TypeOK, NoJob, PackedKnown, FileKnown, JobKnown,
   RestoredIsPacked, Time

\* A job that runs has a capsule of which everything is known.
LEMMA JobIsKnown ==
    ASSUME JobKnown, job.pc # "idle"
    PROVE  /\ Known(job.cap, packed, issued) /\ job.pass \in Passphrase
           /\ job = [pc |-> job.pc, cap |-> job.cap, pass |-> job.pass]
BY DEF JobKnown, NoJob

\* What was known of the file and the job stays known when more is packed or signed.
LEMMA StillKnown ==
    ASSUME IInv, packed \subseteq packed', issued \subseteq issued'
    PROVE  /\ job' = job => JobKnown'
           /\ file' = file => FileKnown'
           /\ restored' = restored => RestoredIsPacked'
<1>1. ASSUME job' = job PROVE JobKnown'
  BY <1>1, KnownGrows DEF IInv, JobKnown
<1>2. ASSUME file' = file PROVE FileKnown'
  BY <1>2, KnownGrows DEF IInv, FileKnown
<1>3. ASSUME restored' = restored PROVE RestoredIsPacked'
  BY <1>3 DEF IInv, RestoredIsPacked
<1> QED
  BY <1>1, <1>2, <1>3

LEMMA PackFileInv == ASSUME IInv, NEW r \in Request, PackFile(r) PROVE IInv'
<1> DEFINE c == Pack(r, written, written)
<1>0. written \in Nat /\ written < MaxWritten /\ MaxWritten \in Nat
  BY CapsuleAssumption DEF IInv, TypeOK, PackFile
<1>1. PackedFrom(c, r, written)
  BY <1>0, PackFields
<1>2. CapsuleOK(c)
  BY <1>0, <1>1, PackType
<1>3. /\ c.signature = Sign(written, Statement(c)) /\ c.ciphertext = CiphertextOf(r, written)
      /\ Shape(c)
  BY <1>1 DEF PackedFrom, Settled
<1>4. /\ file' = c /\ packed' = packed \union {[request |-> r, cap |-> c]}
      /\ issued' = issued \union {c.signature} /\ written' = written + 1
      /\ UNCHANGED <<clock, job, restored, edits>>
  BY DEF PackFile
<1>5. PackedKnown'
  BY <1>0, <1>4 DEF IInv, PackedKnown
<1> HIDE DEF c
<1>5a. c.signature.key = written
  BY <1>3 DEF Sign
<1>6. FileKnown'
  <2> DEFINE p == [request |-> r, cap |-> c]
  <2>1. p \in packed' /\ p.cap = c /\ c.signature \in issued'
    BY <1>4
  <2> HIDE DEF p
  <2>2. Known(c, packed', issued')
    BY <1>2, <1>3, <2>1 DEF Known
  <2> QED
    BY <1>4, <2>2 DEF FileKnown
<1>7. JobKnown' /\ RestoredIsPacked'
  BY <1>4, StillKnown
<1>8. TypeOK'
  <2>1. \A s \in issued' : s.key \in 0 .. written' - 1
    BY <1>0, <1>4, <1>5a DEF IInv, TypeOK
  <2> QED
    BY <1>0, <1>2, <1>4, <2>1 DEF IInv, TypeOK
<1> QED
  BY <1>5, <1>6, <1>7, <1>8 DEF IInv

LEMMA SignAgainInv == ASSUME IInv, NEW t, SignAgain(t) PROVE IInv'
<1>0. written \in Nat /\ written < MaxWritten /\ MaxWritten \in Nat
  BY CapsuleAssumption DEF IInv, TypeOK, SignAgain
<1>1. Known(file, packed, issued)
  BY DEF IInv, FileKnown, SignAgain
<1>2. file' = Resigned(file, t, written) \/ file' = Resigned(Sectioned(file), t, written)
  BY DEF SignAgain, Resigned
<1>3. /\ issued' = issued \union {file'.signature} /\ written' = written + 1
      /\ UNCHANGED <<packed, clock, job, restored, edits>>
  BY DEF SignAgain
<1>4. Known(file', packed, issued \union {file'.signature}) /\ file'.signature.key = written
  <2>1. CASE file' = Resigned(file, t, written)
    BY <1>0, <1>1, <2>1, SignKnown
  <2>2. CASE file' = Resigned(Sectioned(file), t, written)
    BY <1>0, <1>1, <2>2, SectionedKnown, SignKnown
  <2> QED
    BY <1>2, <2>1, <2>2
<1>5. FileKnown'
  BY <1>3, <1>4 DEF FileKnown
<1>6. JobKnown' /\ RestoredIsPacked'
  BY <1>3, StillKnown
<1>7. PackedKnown'
  BY <1>3 DEF IInv, PackedKnown
<1>8. TypeOK'
  <2>1. \A s \in issued' : s.key \in 0 .. written' - 1
    BY <1>0, <1>3, <1>4 DEF IInv, TypeOK
  <2>2. CapsuleOK(file')
    BY <1>4 DEF Known
  <2> QED
    BY <1>0, <1>3, <2>1, <2>2 DEF IInv, TypeOK
<1> QED
  BY <1>5, <1>6, <1>7, <1>8 DEF IInv

LEMMA EditInv == ASSUME IInv, NEW field \in Field, Edit(field) PROVE IInv'
<1>1. Known(file, packed, issued)
  BY DEF IInv, FileKnown, Edit
<1>2. PICK v \in Replacements(file, field) : file' = [file EXCEPT ![field] = v]
  BY DEF Edit
<1>3. /\ edits < MaxEdits /\ edits' = edits + 1
      /\ UNCHANGED <<packed, issued, clock, job, restored, written>>
  BY DEF Edit
<1>4. Known(file', packed, issued)
  BY <1>1, <1>2, EditKnown DEF IInv
<1>5. FileKnown' /\ JobKnown' /\ RestoredIsPacked'
  BY <1>3, <1>4, StillKnown DEF FileKnown
<1>6. PackedKnown'
  BY <1>3 DEF IInv, PackedKnown
<1>7. TypeOK'
  <2>1. CapsuleOK(file') /\ edits' \in 0 .. MaxEdits
    BY <1>3, <1>4, CapsuleAssumption DEF Known, IInv, TypeOK
  <2> QED
    BY <1>3, <2>1 DEF IInv, TypeOK
<1> QED
  BY <1>5, <1>6, <1>7 DEF IInv

LEMMA TickInv == ASSUME IInv, Tick PROVE IInv'
<1>1. /\ clock' \in Time
      /\ UNCHANGED <<file, packed, issued, job, restored, written, edits>>
  BY CapsuleAssumption DEF IInv, TypeOK, Tick, Time
<1>2. FileKnown' /\ JobKnown' /\ RestoredIsPacked'
  BY <1>1, StillKnown
<1> QED
  BY <1>1, <1>2 DEF IInv, TypeOK, PackedKnown

LEMMA ReadFileInv == ASSUME IInv, NEW pass \in Passphrase, ReadFile(pass) PROVE IInv'
<1>1. /\ file # None /\ job' = [pc |-> "read", cap |-> file, pass |-> pass]
      /\ UNCHANGED <<file, packed, issued, clock, restored, written, edits>>
  BY DEF ReadFile
<1>2. Known(file, packed, issued)
  BY <1>1 DEF IInv, FileKnown
<1>3. job'.cap = file /\ job'.pc = "read" /\ job'.pass = pass
  BY <1>1
<1>4. JobKnown'
  BY <1>1, <1>2, <1>3 DEF JobKnown
<1>5. FileKnown' /\ RestoredIsPacked'
  BY <1>1, StillKnown
<1>6. TypeOK'
  BY <1>1, <1>3 DEF IInv, TypeOK
<1> QED
  BY <1>1, <1>4, <1>5, <1>6 DEF IInv, PackedKnown

\* The signature of a capsule that is known, and holds, was made.
LEMMA SignatureWasMade ==
    ASSUME NEW c, NEW now, NEW ps, Known(c, ps, issued), SignatureHolds(c, now)
    PROVE  c.signature \in issued
<1>1. c.signature.key = c.public_key /\ c.public_key \in Nat
  BY DEF SignatureHolds, Sign, Known, CapsuleOK
<1>2. NoSignature.key = -1
  BY DEF NoSignature, Sign
<1> QED
  BY <1>1, <1>2 DEF Known

LEMMA CheckReadInv == ASSUME IInv, CheckRead PROVE IInv'
<1>1. /\ job.pc = "read"
      /\ UNCHANGED <<file, packed, issued, clock, restored, written, edits>>
  BY DEF CheckRead
<1>2. /\ Known(job.cap, packed, issued) /\ job.pass \in Passphrase
      /\ job = [pc |-> job.pc, cap |-> job.cap, pass |-> job.pass]
  BY <1>1, JobIsKnown DEF IInv
<1>3. FileKnown' /\ RestoredIsPacked'
  BY <1>1, StillKnown
<1>4. CASE job' = NoJob
  BY <1>1, <1>3, <1>4 DEF IInv, TypeOK, PackedKnown, JobKnown, NoJob
<1>5. CASE SignatureHolds(job.cap, clock) /\ job' = [job EXCEPT !.pc = "checked"]
  <2>1. job'.pc = "checked" /\ job'.cap = job.cap /\ job'.pass = job.pass
        /\ job' = [pc |-> "checked", cap |-> job.cap, pass |-> job.pass]
    BY <1>2, <1>5
  <2>2. job.cap.signature \in issued
    BY <1>2, <1>5, SignatureWasMade
  <2>3. JobKnown'
    BY <1>1, <1>2, <2>1 DEF JobKnown
  <2>4. TypeOK'
    BY <1>1, <1>2, <2>1, <2>2 DEF IInv, TypeOK
  <2> QED
    BY <1>1, <1>3, <2>3, <2>4 DEF IInv, PackedKnown
<1> QED
  BY <1>4, <1>5 DEF CheckRead

\* What opens under a passphrase of a user was encrypted by pack, for the bundle id and
\* the policy that the capsule shows.
LEMMA OpensPacked ==
    ASSUME NEW c, Known(c, packed, issued), PackedKnown,
           NEW pass \in Passphrase, Opens(c, pass)
    PROVE  \E p \in packed :
               /\ c.ciphertext.bytes = Compress(p.request.data, p.request.compression)
               /\ pass = p.request.pass
               /\ c.header.bundle_id = p.cap.header.bundle_id
               /\ c.policy = p.cap.policy
<1>1. /\ c.ciphertext.pass = pass
      /\ c.ciphertext.aad = AadOf(c.header.bundle_id, c.policy, c.payload_hash)
  BY DEF Opens, Encrypt
<1>2. PICK p \in packed : c.ciphertext = p.cap.ciphertext
  BY <1>1, CapsuleAssumption DEF Known
<1>3. PICK k \in Nat : p.cap = Pack(p.request, k, k)
  BY <1>2 DEF PackedKnown
<1>4. PackedFrom(p.cap, p.request, k) /\ p.request \in Request
  BY <1>2, <1>3, PackFields DEF PackedKnown
<1> DEFINE bytes == Compress(p.request.data, p.request.compression)
           bundle_id == [prepared |-> p.request.data, compressed |-> bytes]
<1>5. p.cap.policy = "default" /\ p.cap.header.bundle_id = bundle_id
  BY <1>4, HeaderFields DEF PackedFrom, Settled
<1>6. p.cap.ciphertext = Encrypt(p.request.pass, k, AadOf(bundle_id, "default", bytes), bytes)
  BY <1>4 DEF PackedFrom, Settled, CiphertextOf
<1> HIDE DEF bytes, bundle_id
<1>7. /\ p.cap.ciphertext.bytes = bytes /\ p.cap.ciphertext.pass = p.request.pass
      /\ p.cap.ciphertext.aad = AadOf(bundle_id, "default", bytes)
  BY <1>6 DEF Encrypt
<1>8. c.header.bundle_id = bundle_id /\ c.policy = "default"
  BY <1>1, <1>2, <1>7 DEF AadOf
<1> QED
  BY <1>1, <1>2, <1>5, <1>7, <1>8 DEF bytes

LEMMA DecryptInv == ASSUME IInv, Decrypt PROVE IInv'
<1>1. /\ job.pc = "checked" /\ job' = NoJob
      /\ UNCHANGED <<file, packed, issued, clock, written, edits>>
  BY DEF Decrypt
<1>2. Known(job.cap, packed, issued) /\ job.pass \in Passphrase
  BY <1>1, JobIsKnown DEF IInv
<1>3. FileKnown'
  BY <1>1, StillKnown
<1>4. RestoredIsPacked'
  <2>1. CASE restored' = restored
    BY <1>1, <2>1, StillKnown
  <2>2. CASE /\ Restorable(job.cap, job.pass)
             /\ restored'.bytes = job.cap.ciphertext.bytes /\ restored'.pass = job.pass
             /\ restored'.bundle_id = job.cap.header.bundle_id
             /\ restored'.policy = job.cap.policy
    <3>1. Opens(job.cap, job.pass)
      BY <2>2 DEF Restorable
    <3> QED
      BY <1>1, <1>2, <2>2, <3>1, OpensPacked DEF IInv, RestoredIsPacked
  <2> QED
    BY <2>1, <2>2 DEF Decrypt
<1> QED
  BY <1>1, <1>3, <1>4 DEF IInv, TypeOK, PackedKnown, JobKnown, NoJob

LEMMA Inductive == IInv /\ [Next]_vars => IInv'
<1> SUFFICES ASSUME IInv, [Next]_vars PROVE IInv'
  OBVIOUS
<1>1. ASSUME NEW r \in Request, PackFile(r) PROVE IInv'
  BY <1>1, PackFileInv
<1>2. ASSUME NEW t \in Time \union {Odd}, SignAgain(t) PROVE IInv'
  BY <1>2, SignAgainInv
<1>3. ASSUME NEW field \in Field, Edit(field) PROVE IInv'
  BY <1>3, EditInv
<1>4. CASE Tick
  BY <1>4, TickInv
<1>5. ASSUME NEW pass \in Passphrase, ReadFile(pass) PROVE IInv'
  BY <1>5, ReadFileInv
<1>6. CASE CheckRead
  BY <1>6, CheckReadInv
<1>7. CASE Decrypt
  BY <1>7, DecryptInv
<1>8. CASE UNCHANGED vars
  <2>1. UNCHANGED <<file, packed, issued, clock, job, restored, written, edits>>
    BY <1>8 DEF vars
  <2>2. FileKnown' /\ JobKnown' /\ RestoredIsPacked'
    BY <2>1, StillKnown
  <2> QED
    BY <2>1, <2>2 DEF IInv, TypeOK, PackedKnown
<1> QED
  BY <1>1, <1>2, <1>3, <1>4, <1>5, <1>6, <1>7, <1>8 DEF Next

-----------------------------------------------------------------------------
(* The results *)

\* IInv gives the two properties that are no part of it.
LEMMA Consequences == IInv => AcceptedIsSigned /\ PackedIsRestored
<1> SUFFICES ASSUME IInv PROVE AcceptedIsSigned /\ PackedIsRestored
  OBVIOUS
<1>1. AcceptedIsSigned
  <2> SUFFICES ASSUME Accepts(file)
               PROVE  \E s \in issued :
                         /\ s.over.header = file.header /\ s.over.policy = file.policy
                         /\ s.over.agent = file.agent /\ s.over.chunks = file.chunks
                         /\ s.over.expiration = file.expiration
                         /\ s.over.sections = SectionTable(file)
                         /\ \A store \in TrustStore :
                               AcceptsStrictly(file, store) => s.key = store[file.signer_id]
    BY DEF AcceptedIsSigned
  <2>1. /\ file # None /\ file.sections = SectionTable(file)
        /\ file.signature = Sign(file.public_key, Statement(file))
    BY DEF Accepts, WellFormed, TablesMatch, SignatureHolds
  <2>2. file.signature \in issued
    BY <2>1, SignatureWasMade DEF IInv, FileKnown, Accepts
  <2>3. file.signature.key = file.public_key /\ file.signature.over = Statement(file)
    BY <2>1 DEF Sign
  <2>4. \A store \in TrustStore :
            AcceptsStrictly(file, store) => file.signature.key = store[file.signer_id]
    BY <2>3 DEF AcceptsStrictly, Trusted
  <2>5. /\ Statement(file).header = file.header /\ Statement(file).policy = file.policy
        /\ Statement(file).agent = file.agent /\ Statement(file).chunks = file.chunks
        /\ Statement(file).expiration = file.expiration
        /\ Statement(file).sections = SectionTable(file)
    BY <2>1 DEF Statement
  <2> QED
    BY <2>2, <2>3, <2>4, <2>5
<1>2. PackedIsRestored
  <2> SUFFICES ASSUME NEW p \in packed
               PROVE  /\ WellFormed(p.cap) /\ SignatureHolds(p.cap, clock)
                      /\ Restorable(p.cap, p.request.pass)
                      /\ Decompress(p.cap.ciphertext.bytes, p.cap.compression) =
                            [data |-> p.request.data, zstd |-> FALSE]
                      /\ p.cap.name = p.request.name
    BY DEF PackedIsRestored
  <2>1. PICK k \in Nat : p.cap = Pack(p.request, k, k)
    BY DEF IInv, PackedKnown
  <2>2. p.request \in Request
    BY DEF IInv, PackedKnown
  <2>3. PackedFrom(p.cap, p.request, k)
    BY <2>1, <2>2, PackFields
  <2> QED
    BY <2>2, <2>3, PackWorks
<1> QED
  BY <1>1, <1>2

\* The types hold in every state.
THEOREM TypeCorrect == Spec => []TypeOK
<1>1. IInv => TypeOK
  BY DEF IInv
<1> QED
  BY <1>1, InitInv, Inductive, PTL DEF Spec

\* What pack makes always passes the checks and restores to what it was made from,
\* whatever the data, the profile and the flags asked for (lib.rs, pack against
\* verify_capsule_structure and restore_capsule).
THEOREM RoundTrip == Spec => []PackedIsRestored
BY InitInv, Inductive, Consequences, PTL DEF Spec

\* What verify accepts was signed as it is, and by the trusted key if it is strict,
\* however often the file was edited or signed again (lib.rs, verify_capsule).
THEOREM Authentic == Spec => []AcceptedIsSigned
BY InitInv, Inductive, Consequences, PTL DEF Spec

\* A capsule that passes the check of a restore is covered by its signature.
LEMMA CheckReadSigned == IInv /\ CheckRead => CheckedIsSigned'
<1> SUFFICES ASSUME IInv, CheckRead, job'.pc = "checked" PROVE CheckedIsSigned'
  BY DEF CheckedIsSigned
<1> DEFINE c == job.cap
<1>1. job.pc = "read" /\ issued' = issued
  BY DEF CheckRead
<1>2. Known(c, packed, issued) /\ job = [pc |-> job.pc, cap |-> c, pass |-> job.pass]
  BY <1>1, JobIsKnown DEF IInv
<1>3. WellFormed(c) /\ SignatureHolds(c, clock) /\ job' = [job EXCEPT !.pc = "checked"]
  BY DEF CheckRead, NoJob
<1>4. job'.cap = c
  BY <1>2, <1>3
<1>5. c.signature \in issued
  BY <1>2, <1>3, SignatureWasMade
<1>6. c.expiration # Odd
  <2>1. None # Odd
    BY CapsuleAssumption
  <2>2. Unexpired(c, clock)
    BY <1>3 DEF SignatureHolds
  <2> QED
    BY <2>1, <2>2 DEF Unexpired
<1>7. c.sections = SectionTable(c) /\ c.signature = Sign(c.public_key, Statement(c))
  BY <1>3 DEF WellFormed, TablesMatch, SignatureHolds
<1>8. c.signature.key = c.public_key /\ c.signature.over = Statement(c)
  BY <1>7 DEF Sign
<1> HIDE DEF c
<1>9. /\ Statement(c).header = c.header /\ Statement(c).policy = c.policy
      /\ Statement(c).agent = c.agent /\ Statement(c).chunks = c.chunks
      /\ Statement(c).expiration = c.expiration /\ Statement(c).sections = SectionTable(c)
  BY <1>7 DEF Statement
<1> QED
  BY <1>1, <1>4, <1>5, <1>6, <1>9, <1>8 DEF CheckedIsSigned, SectionTable

\* What a restore decrypts has passed its own check, whatever happens to the file between
\* its steps (lib.rs, restore_capsule).
THEOREM CheckedItself == Spec => []CheckedIsSigned
<1>1. Init => CheckedIsSigned
  BY DEF Init, NoJob, CheckedIsSigned
<1>2. IInv /\ CheckedIsSigned /\ [Next]_vars => CheckedIsSigned'
  <2> SUFFICES ASSUME IInv, CheckedIsSigned, [Next]_vars PROVE CheckedIsSigned'
    OBVIOUS
  <2>1. CASE UNCHANGED job /\ issued \subseteq issued'
    BY <2>1 DEF CheckedIsSigned, SectionTable
  <2>2. ASSUME NEW pass \in Passphrase, ReadFile(pass) PROVE CheckedIsSigned'
    BY <2>2 DEF ReadFile, CheckedIsSigned
  <2>3. CASE Decrypt
    BY <2>3 DEF Decrypt, NoJob, CheckedIsSigned
  <2>4. ASSUME NEW r \in Request, PackFile(r) PROVE CheckedIsSigned'
    BY <2>1, <2>4 DEF PackFile
  <2>5. ASSUME NEW t \in Time \union {Odd}, SignAgain(t) PROVE CheckedIsSigned'
    BY <2>1, <2>5 DEF SignAgain
  <2>6. ASSUME NEW field \in Field, Edit(field) PROVE CheckedIsSigned'
    BY <2>1, <2>6 DEF Edit
  <2>7. CASE Tick \/ UNCHANGED vars
    BY <2>1, <2>7 DEF Tick, vars
  <2> QED
    BY <2>2, <2>3, <2>4, <2>5, <2>6, <2>7, CheckReadSigned DEF Next
<1> QED
  BY <1>1, <1>2, InitInv, Inductive, PTL DEF Spec

\* What a restore decrypts was encrypted by pack with the same passphrase, for this
\* bundle id and policy, whoever has signed the file (lib.rs, restore_capsule).
THEOREM Genuine == Spec => []RestoredIsPacked
<1>1. IInv => RestoredIsPacked
  BY DEF IInv
<1> QED
  BY <1>1, InitInv, Inductive, PTL DEF Spec
=============================================================================
