----------------------------- MODULE QrTransport -----------------------------
(***************************************************************************)
(* Moving a packed capsule as a directory of QR packets.  A packer writes  *)
(* the bundle file, exporters cut it into packet files in one directory,   *)
(* files of that directory are lost, copied or damaged on the way, and an  *)
(* importer rebuilds the bundle.  Every process may stop at any step, and  *)
(* a file is first truncated and then written, never replaced in one step. *)
(***************************************************************************)
EXTENDS Integers, Sequences, FiniteSets, SequencesExt

CONSTANTS
    Capsule,       \* the capsules pack can make
    Bundle,        \* bundle ids
    Byte,          \* what a file is made of
    Magic,         \* the four bytes every capsule file begins with, as one unit
    ImageOf,       \* the bytes of each capsule's file
    BundleOf,      \* the bundle id in each capsule's public header
    PacketSizes,   \* the values of --packet-size
    Exporters,     \* export processes
    MaxIndex,      \* bound: packet files are numbered 0..MaxIndex
    MaxExports,    \* bound on the exports started
    MaxFaults,     \* bound on crashes and on losses, copies and damage of files
    Absent,        \* no such file; no capsule
    Torn           \* a file that was truncated and not written, or does not parse

Index == 0 .. MaxIndex
Ext == {"cbor", "json"}

\* hash_bytes, collision free: only equal bytes have equal digests. Garbled is a
\* digest field that was damaged and is the digest of nothing.
Digest(bytes) == <<"sha256", bytes>>
Garbled == <<"garbled", <<>> >>
Hash == {"sha256", "garbled"} \X Seq(Byte)

\* QrPacket. The magic field stands for all that is the same in every packet and
\* is compared with a constant: magic, version and the strings that may not be
\* empty. The payload is kept decoded; text that is no base64 fails as a wrong
\* checksum does.
Packet == [magic : {"AQRP", "other"}, bundle_id : Bundle, index : Nat, total : Nat,
           capsule_hash : Hash, payload : Seq(Byte), checksum : Hash]

\* A fault: the last, shorter packet is forgotten.
FlooredTotalOf(c, size) == Len(ImageOf[c]) \div size

\* div_ceil
TotalOf(c, size) == (Len(ImageOf[c]) + size - 1) \div size

\* The index-th of bytes.chunks(size): the last one may be shorter.
Chunk(c, size, index) ==
    LET end == (index + 1) * size
    IN  SubSeq(ImageOf[c], index * size + 1,
               IF end < Len(ImageOf[c]) THEN end ELSE Len(ImageOf[c]))

PacketOf(c, size, index) ==
    [magic |-> "AQRP", bundle_id |-> BundleOf[c], index |-> index,
     total |-> TotalOf(c, size), capsule_hash |-> Digest(ImageOf[c]),
     payload |-> Chunk(c, size, index), checksum |-> Digest(Chunk(c, size, index))]

PacketSet(c, size) ==
    {PacketOf(c, size, index) : index \in 0 .. TotalOf(c, size) - 1}

\* The payloads in the order of their indices.
Assemble(packets) ==
    LET total == (CHOOSE p \in packets : TRUE).total
    IN  FlattenSeq([k \in 1 .. total |->
                        (CHOOSE p \in packets : p.index = k - 1).payload])

\* A fault: the packets agree on a digest, and nobody compares it with the bytes.
HashAgreed(packets) == \A p, q \in packets : p.capsule_hash = q.capsule_hash

HashMatches(packets) == \A p \in packets : p.capsule_hash = Digest(Assemble(packets))

\* Every check import_qr_packets makes on the packets it has read.
Acceptable(packets) ==
    /\ Cardinality({p.bundle_id : p \in packets}) = 1
    /\ \A p \in packets : /\ p.magic = "AQRP"
                          /\ p.index < p.total
                          /\ p.checksum = Digest(p.payload)
    /\ \A p, q \in packets : /\ p.index = q.index => p = q
                             /\ p.total = q.total
                             /\ p.capsule_hash = q.capsule_hash
    /\ \A p \in packets : \A i \in 0 .. p.total - 1 : \E q \in packets : q.index = i
    /\ HashMatches(packets)
    /\ Assemble(packets) # <<>> /\ Assemble(packets)[1] = Magic

ASSUME ConstantsAssumption ==
    /\ PacketSizes \subseteq Nat /\ MaxIndex \in Nat /\ MaxExports \in Nat /\ MaxFaults \in Nat
    /\ BundleOf \in [Capsule -> Bundle]
    /\ DOMAIN ImageOf = Capsule
    /\ \A c \in Capsule : ImageOf[c] \in Seq(Byte) /\ ImageOf[c] \notin {Absent, Torn, <<>>}
    /\ \A c \in Capsule : ImageOf[c][1] = Magic
    /\ Absent # Torn /\ {Absent, Torn} \intersect (Capsule \union Packet) = {}
    /\ \A c, d \in Capsule : ImageOf[c] = ImageOf[d] => c = d

VARIABLES
    sealed,    \* the capsules pack has made
    packer,    \* the capsule a pack is writing to the bundle file, or Absent
    bundle,    \* the bundle file: Absent, Torn or a capsule
    exp,       \* the export each exporter is in
    files,     \* the packet directory, by extension and number
    imp,       \* the importer
    out,       \* the file the importer writes
    exports,   \* how many exports have started
    faults     \* how many faults have happened

vars == <<sealed, packer, bundle, exp, files, imp, out, exports, faults>>

NoExport == [pc |-> "idle", cap |-> Absent, size |-> 0, index |-> 0, ext |-> "cbor"]
NoImport == [pc |-> "idle", ext |-> "cbor", todo |-> {}, fresh |-> {}, got |-> {},
             image |-> <<>>]

Init ==
    /\ sealed = {} /\ packer = Absent /\ bundle = Absent
    /\ exp = [e \in Exporters |-> NoExport]
    /\ files = [f \in Ext \X Index |-> Absent]
    /\ imp = NoImport
    /\ out = Absent
    /\ exports = 0 /\ faults = 0

Fault ==
    /\ faults < MaxFaults
    /\ faults' = faults + 1

-----------------------------------------------------------------------------
(* The packer: pack_to_file *)

\* pack makes the capsule in memory, fs::write then truncates the bundle file.
PackOpen(c) ==
    /\ packer = Absent /\ c \notin sealed
    /\ sealed' = sealed \union {c}
    /\ packer' = c
    /\ bundle' = Torn
    /\ UNCHANGED <<exp, files, imp, out, exports, faults>>

PackWrite ==
    /\ packer # Absent
    /\ bundle' = packer
    /\ packer' = Absent
    /\ UNCHANGED <<sealed, exp, files, imp, out, exports, faults>>

PackCrash ==
    /\ packer # Absent
    /\ Fault
    /\ packer' = Absent
    /\ UNCHANGED <<sealed, bundle, exp, files, imp, out, exports>>

-----------------------------------------------------------------------------
(* The exporters: export_qr_packets *)

\* The bundle is read once. A file that is missing, cut off or does not parse
\* ends the call before anything is written, and so does a packet size of zero.
StartExport(e, size) ==
    /\ exp[e].pc = "idle" /\ exports < MaxExports
    /\ size > 0
    /\ bundle \in Capsule
    /\ TotalOf(bundle, size) <= MaxIndex + 1
    /\ exp' = [exp EXCEPT ![e] = [pc |-> "open", cap |-> bundle, size |-> size,
                                  index |-> 0, ext |-> "cbor"]]
    /\ exports' = exports + 1
    /\ UNCHANGED <<sealed, packer, bundle, files, imp, out, faults>>

\* fs::write of a packet file: first the truncation ...
OpenPacket(e) ==
    /\ exp[e].pc = "open"
    /\ files' = [files EXCEPT ![<<exp[e].ext, exp[e].index>>] = Torn]
    /\ exp' = [exp EXCEPT ![e].pc = "write"]
    /\ UNCHANGED <<sealed, packer, bundle, imp, out, exports, faults>>

\* A fault: the loop runs once too often.
IsPastLast(job) == job.index = TotalOf(job.cap, job.size)

IsLast(job) == job.index + 1 = TotalOf(job.cap, job.size)

\* What the file holds after the write: the packet, but over a file that another
\* exporter has written since the truncation the end of a longer text may remain.
Written(old, packet) == IF old \in {Absent, Torn, packet} THEN {packet} ELSE {packet, Torn}

\* ... then the contents. The .cbor file of a packet comes before its .json file,
\* and the packets in the order of their indices. Stale files are left alone.
WritePacket(e) ==
    LET job == exp[e]
        slot == <<job.ext, job.index>>
        packet == PacketOf(job.cap, job.size, job.index)
    IN  /\ job.pc = "write"
        /\ \E file \in Written(files[slot], packet) : files' = [files EXCEPT ![slot] = file]
        /\ \/ /\ job.ext = "cbor"
              /\ exp' = [exp EXCEPT ![e].ext = "json", ![e].pc = "open"]
           \/ /\ job.ext = "json" /\ ~IsLast(job)
              /\ exp' = [exp EXCEPT ![e].ext = "cbor", ![e].pc = "open",
                                    ![e].index = job.index + 1]
           \/ /\ job.ext = "json" /\ IsLast(job)
              /\ exp' = [exp EXCEPT ![e] = NoExport]
        /\ UNCHANGED <<sealed, packer, bundle, imp, out, exports, faults>>

\* With --png the call ends after the .json file when the feature is not compiled
\* in or the packet is too long for a QR code. The files written stay.
PngFails(e) ==
    /\ exp[e].pc = "open" /\ exp[e].ext = "cbor" /\ exp[e].index > 0
    /\ exp' = [exp EXCEPT ![e] = NoExport]
    /\ UNCHANGED <<sealed, packer, bundle, files, imp, out, exports, faults>>

ExportCrash(e) ==
    /\ exp[e].pc # "idle"
    /\ Fault
    /\ exp' = [exp EXCEPT ![e] = NoExport]
    /\ UNCHANGED <<sealed, packer, bundle, files, imp, out, exports>>

-----------------------------------------------------------------------------
(* What happens to the packet files on the way: scanning, copying, storage *)

LoseFile(slot) ==
    /\ files[slot] # Absent
    /\ Fault
    /\ files' = [files EXCEPT ![slot] = Absent]
    /\ UNCHANGED <<sealed, packer, bundle, exp, imp, out, exports>>

CopyFile(from, to) ==
    /\ files[from] # files[to] /\ files[from] # Absent
    /\ from[1] = to[1]
    /\ Fault
    /\ files' = [files EXCEPT ![to] = files[from]]
    /\ UNCHANGED <<sealed, packer, bundle, exp, imp, out, exports>>

\* A packet file of which one field was changed, and which still parses.
Damaged(p) ==
         {[p EXCEPT !.magic = "other"], [p EXCEPT !.capsule_hash = Garbled],
          [p EXCEPT !.checksum = Garbled],
          [p EXCEPT !.payload = SubSeq(@, 1, Len(@) - 1)]}
    \union {[p EXCEPT !.index = i] : i \in Index}
    \union {[p EXCEPT !.total = t] : t \in 0 .. MaxIndex + 1}
    \union {[p EXCEPT !.bundle_id = b] : b \in Bundle}

DamageFile(slot) ==
    /\ files[slot] \notin {Absent, Torn}
    /\ Fault
    /\ \E file \in Damaged(files[slot]) \union {Torn} : files' = [files EXCEPT ![slot] = file]
    /\ UNCHANGED <<sealed, packer, bundle, exp, imp, out, exports>>

-----------------------------------------------------------------------------
(* The importer: import_qr_packets *)

\* read_dir on the files of one extension. The entries that exist now will be
\* read; one that is created meanwhile may or may not be.
Scan(ext) ==
    [pc |-> "scan", ext |-> ext, todo |-> {i \in Index : files[<<ext, i>>] # Absent},
     fresh |-> {i \in Index : files[<<ext, i>>] = Absent}, got |-> {}, image |-> <<>>]

\* A fault: the output is opened before the packets have been checked.
StartImportTruncating ==
    /\ imp.pc = "idle"
    /\ imp' = Scan("cbor")
    /\ out' = Torn
    /\ UNCHANGED <<sealed, packer, bundle, exp, files, exports, faults>>

StartImport ==
    /\ imp.pc = "idle"
    /\ imp' = Scan("cbor")
    /\ UNCHANGED <<sealed, packer, bundle, exp, files, out, exports, faults>>

\* The next entry: a file that does not parse ends the import.
ReadEntry(i) ==
    LET file == files[<<imp.ext, i>>]
    IN  /\ imp.pc = "scan" /\ i \in imp.todo \union imp.fresh
        /\ file # Absent
        /\ imp' = IF file = Torn
                  THEN NoImport
                  ELSE [imp EXCEPT !.got = @ \union {file},
                                   !.todo = @ \ {i}, !.fresh = @ \ {i}]
        /\ UNCHANGED <<sealed, packer, bundle, exp, files, out, exports, faults>>

\* An entry that has vanished is no longer listed, or its read fails.
MissEntry(i) ==
    /\ imp.pc = "scan" /\ i \in imp.todo
    /\ files[<<imp.ext, i>>] = Absent
    /\ imp' \in {NoImport, [imp EXCEPT !.todo = @ \ {i}]}
    /\ UNCHANGED <<sealed, packer, bundle, exp, files, out, exports, faults>>

\* The .json files are looked at only when there was no .cbor file. Then the
\* checks, all in memory, decide.
EndScan ==
    /\ imp.pc = "scan" /\ imp.todo = {}
    /\ \/ /\ imp.got = {} /\ imp.ext = "cbor"
          /\ imp' = Scan("json")
       \/ /\ imp.got = {} /\ imp.ext = "json"
          /\ imp' = NoImport
       \/ /\ imp.got # {} /\ ~Acceptable(imp.got)
          /\ imp' = NoImport
       \/ /\ imp.got # {} /\ Acceptable(imp.got)
          /\ imp' = [NoImport EXCEPT !.pc = "open", !.image = Assemble(imp.got)]
    /\ UNCHANGED <<sealed, packer, bundle, exp, files, out, exports, faults>>

\* fs::write of the output: the truncation, then the contents.
OpenOut ==
    /\ imp.pc = "open"
    /\ out' = Torn
    /\ imp' = [imp EXCEPT !.pc = "write"]
    /\ UNCHANGED <<sealed, packer, bundle, exp, files, exports, faults>>

WriteOut ==
    /\ imp.pc = "write"
    /\ out' = imp.image
    /\ imp' = NoImport
    /\ UNCHANGED <<sealed, packer, bundle, exp, files, exports, faults>>

ImportCrash ==
    /\ imp.pc # "idle"
    /\ Fault
    /\ imp' = NoImport
    /\ UNCHANGED <<sealed, packer, bundle, exp, files, out, exports>>

-----------------------------------------------------------------------------
Packing == (\E c \in Capsule : PackOpen(c)) \/ PackWrite \/ PackCrash

Exporting(e) ==
    \/ \E size \in PacketSizes : StartExport(e, size)
    \/ OpenPacket(e) \/ WritePacket(e) \/ PngFails(e) \/ ExportCrash(e)

Carrying ==
    \E slot \in Ext \X Index :
        LoseFile(slot) \/ DamageFile(slot) \/ \E to \in Ext \X Index : CopyFile(slot, to)

ImporterStep ==
    \/ StartImport \/ EndScan \/ OpenOut \/ WriteOut
    \/ \E i \in Index : ReadEntry(i) \/ MissEntry(i)

Next == Packing \/ (\E e \in Exporters : Exporting(e)) \/ Carrying \/ ImporterStep \/ ImportCrash

Spec == Init /\ [][Next]_vars

\* The receiving side runs the import again until it succeeds; a call that has
\* begun goes on unless it crashes. Nobody has to export, and nothing has to fail.
FairSpec == Spec /\ WF_vars(ImporterStep)

-----------------------------------------------------------------------------
(* Properties *)

ExportState == [pc : {"idle", "open", "write"}, cap : Capsule \union {Absent}, size : Nat,
                index : Index, ext : Ext]

ImportState == [pc : {"idle", "scan", "open", "write"}, ext : Ext, todo : SUBSET Index,
                fresh : SUBSET Index, got : SUBSET Packet, image : Seq(Byte)]

\* The types; an exporter never numbers a packet past the last one (lib.rs, the
\* enumerate over bytes.chunks of export_qr_packets).
TypeOK ==
    /\ sealed \subseteq Capsule
    /\ packer \in Capsule \union {Absent}
    /\ bundle \in Capsule \union {Absent, Torn}
    /\ exp \in [Exporters -> ExportState]
    /\ files \in [Ext \X Index -> Packet \union {Absent, Torn}]
    /\ imp \in ImportState
    /\ out \in Seq(Byte) \union {Absent, Torn}
    /\ exports \in Nat /\ faults \in Nat

\* Whatever was lost, copied, damaged, mixed with packets of an earlier export or
\* cut off by a crash: the importer's file is absent, torn, or byte for byte a
\* capsule that pack has made (lib.rs, the checks of import_qr_packets).
ImportIntegrity == out \in {Absent, Torn} \union {ImageOf[c] : c \in sealed}

\* The abstract view of the importer: the capsule whose bytes these are.
CapsuleOf(image) == CHOOSE c \in Capsule : ImageOf[c] = image

Received == IF out \in {Absent, Torn} THEN out ELSE CapsuleOf(out)
Pending == IF imp.pc = "write" THEN CapsuleOf(imp.image) ELSE Absent

Gap == INSTANCE AirGap WITH received <- Received, pending <- Pending

\* The transport implements AirGap: the output is given up only for one sealed
\* capsule whose packets have all been read and checked, and becomes that capsule;
\* an import that fails never touches what an earlier one left.
ImplementsAirGap == Gap!Spec

\* The packets an import would read now.
Of(ext) == {files[<<ext, i>>] : i \in Index} \ {Absent}
Readable == IF Of("cbor") # {} THEN Of("cbor") ELSE Of("json")

\* The import is reading all packets of one export and nothing else: it has read some and
\* has the others before it, or is about to find that they are .json files.
ReadsAll(c, size) ==
    /\ imp.pc = "scan" /\ Readable = PacketSet(c, size)
    /\ \/ /\ Of(imp.ext) \subseteq PacketSet(c, size)
          /\ imp.got \union {files[<<imp.ext, i>>] : i \in imp.todo} = PacketSet(c, size)
       \/ imp.ext = "cbor" /\ Of("cbor") = {} /\ imp.got = {} /\ imp.todo = {}

\* An import that begins when the directory holds the packets of one export and no others,
\* and is not disturbed, is not refused, in whatever order it reads them and whatever their
\* size: together they are the capsule's bytes again (lib.rs, the chunks of
\* export_qr_packets and the checks of import_qr_packets).
CompleteSetAccepted ==
    [][imp' # imp /\ files' = files /\ faults' = faults =>
          \A c \in Capsule, size \in PacketSizes \ {0} :
              /\ imp.pc = "idle" /\ Readable = PacketSet(c, size) => ReadsAll(c, size)'
              /\ ReadsAll(c, size) =>
                    ReadsAll(c, size)' \/ (imp'.pc = "open" /\ imp'.image = ImageOf[c])]_vars

\* When the directory has come to hold all packets of one export, each as often as
\* it may be, and nothing else the importer would read, then importing again and
\* again brings the capsule back, over the remains of whatever happened before.
CompleteSetDelivered ==
    \A c \in Capsule :
        <>[](\E size \in PacketSizes : Readable = PacketSet(c, size)) => []<>(out = ImageOf[c])
=============================================================================
