-------------------------- MODULE QrTransport_proofs --------------------------
(***************************************************************************)
(* What QrTransport promises, for every set of capsules, packet sizes,     *)
(* exporters and bounds.                                                   *)
(***************************************************************************)
EXTENDS QrTransport, FiniteSetTheorems, SequenceTheorems, WellFoundedInduction, TLAPS

\* The capsule hash a packet names is damaged, or that of a sealed capsule.
HashKnown(p) ==
    p.capsule_hash = Garbled \/ \E c \in sealed : p.capsule_hash = Digest(ImageOf[c])

SourcesSealed ==
    /\ packer \in sealed \union {Absent}
    /\ bundle \in sealed \union {Absent, Torn}

ExportsInRange ==
    \A e \in Exporters : exp[e].pc # "idle" =>
        /\ exp[e].cap \in sealed
        /\ exp[e].size > 0
        /\ exp[e].index < TotalOf(exp[e].cap, exp[e].size)
        /\ TotalOf(exp[e].cap, exp[e].size) <= MaxIndex + 1

HashesKnown ==
    /\ \A f \in Ext \X Index : files[f] \notin {Absent, Torn} => HashKnown(files[f])
    /\ \A p \in imp.got : HashKnown(p)

ImageSealed ==
    imp.pc \in {"open", "write"} => \E c \in sealed : imp.image = ImageOf[c]

\* ImportIntegrity alone is not inductive: what is written comes from imp.image,
\* that from the packets read, those from files, and those from the exporters.
IInv ==
    TypeOK /\ SourcesSealed /\ ExportsInRange /\ HashesKnown /\ ImageSealed /\ ImportIntegrity

-----------------------------------------------------------------------------
(* Lemmas about the operators *)

\* A SubSeq that does not reach past the end is a sequence of the same elements,
\* also when it is empty.
LEMMA SubSeqType ==
    ASSUME NEW S, NEW s \in Seq(S), NEW a \in Nat \ {0}, NEW b \in Int, b <= Len(s)
    PROVE  SubSeq(s, a, b) \in Seq(S)
<1>1. CASE a <= b + 1
  BY <1>1, SubSeqProperties
<1>2. CASE a > b + 1
  <2>1. SubSeq(s, a, b) = << >>
    BY <1>2, SubSeqEmpty
  <2> QED
    BY <2>1
<1> QED
  BY <1>1, <1>2

\* A chunk of a capsule's file is a sequence of bytes, whatever its number.
LEMMA ChunkType ==
    ASSUME NEW c \in Capsule, NEW size \in Nat, NEW index \in Nat
    PROVE  Chunk(c, size, index) \in Seq(Byte)
<1> DEFINE end == (index + 1) * size
           last == IF end < Len(ImageOf[c]) THEN end ELSE Len(ImageOf[c])
<1>1. ImageOf[c] \in Seq(Byte) /\ Len(ImageOf[c]) \in Nat
  BY ConstantsAssumption
<1>2. index * size + 1 \in Nat \ {0} /\ end \in Nat
  <2>1. index * size \in Nat /\ (index + 1) * size \in Nat
    OBVIOUS
  <2> QED
    BY <2>1
<1>3. last \in Int /\ last <= Len(ImageOf[c])
  BY <1>1, <1>2
<1> HIDE DEF last
<1>4. SubSeq(ImageOf[c], index * size + 1, last) \in Seq(Byte)
  BY <1>1, <1>2, <1>3, SubSeqType
<1> QED
  BY <1>4 DEF Chunk, last

LEMMA TotalType ==
    ASSUME NEW c \in Capsule, NEW size \in Nat \ {0}
    PROVE  TotalOf(c, size) \in Nat
<1>1. Len(ImageOf[c]) + size - 1 \in Nat
  <2>1. Len(ImageOf[c]) \in Nat
    BY ConstantsAssumption
  <2> QED
    BY <2>1
<1>2. \A n \in Nat : n \div size \in Nat
  OBVIOUS
<1> QED
  BY <1>1, <1>2 DEF TotalOf

\* A capsule's file is not empty, so it has at least one packet.
LEMMA TotalPositive ==
    ASSUME NEW c \in Capsule, NEW size \in Nat \ {0}
    PROVE  0 < TotalOf(c, size)
<1>1. Len(ImageOf[c]) + size - 1 \in Nat /\ Len(ImageOf[c]) + size - 1 >= size
  <2>1. Len(ImageOf[c]) \in Nat \ {0}
    BY ConstantsAssumption, EmptySeq
  <2> QED
    BY <2>1
<1>2. \A n \in Nat : n >= size => n \div size > 0
  OBVIOUS
<1> QED
  BY <1>1, <1>2 DEF TotalOf

\* What an exporter writes is a packet that names the hash of its capsule.
LEMMA PacketOfType ==
    ASSUME NEW c \in Capsule, NEW size \in Nat \ {0}, NEW index \in Nat
    PROVE  /\ PacketOf(c, size, index) \in Packet
           /\ PacketOf(c, size, index).capsule_hash = Digest(ImageOf[c])
<1>1. Chunk(c, size, index) \in Seq(Byte) /\ TotalOf(c, size) \in Nat
  BY ChunkType, TotalType
<1>2. ImageOf[c] \in Seq(Byte) /\ BundleOf[c] \in Bundle
  BY ConstantsAssumption
<1>3. Digest(ImageOf[c]) \in Hash /\ Digest(Chunk(c, size, index)) \in Hash
  BY <1>1, <1>2 DEF Digest, Hash
<1> QED
  BY <1>1, <1>2, <1>3 DEF PacketOf, Packet

\* Damage leaves a packet a packet, and its capsule hash either as it was or garbled.
LEMMA DamagedType ==
    ASSUME NEW p \in Packet, NEW q \in Damaged(p)
    PROVE  q \in Packet /\ q.capsule_hash \in {p.capsule_hash, Garbled}
<1>1. Garbled \in Hash
  BY EmptySeq DEF Garbled, Hash
<1>2. SubSeq(p.payload, 1, Len(p.payload) - 1) \in Seq(Byte)
  BY SubSeqType DEF Packet
<1>3. Index \subseteq Nat /\ 0 .. MaxIndex + 1 \subseteq Nat
  BY ConstantsAssumption DEF Index
<1> QED
  BY <1>1, <1>2, <1>3 DEF Damaged, Packet

LEMMA NoImportType == NoImport \in ImportState
<1>1. << >> \in Seq(Byte)
  BY EmptySeq
<1> QED
  BY <1>1 DEF NoImport, ImportState, Ext

\* What passes the checks of import_qr_packets and names a known hash is the file
\* of a sealed capsule. A garbled hash passes for no sequence of bytes.
LEMMA AcceptedIsSealed ==
    ASSUME NEW packets, packets # {}, Acceptable(packets),
           \A p \in packets : HashKnown(p)
    PROVE  \E c \in sealed : Assemble(packets) = ImageOf[c]
<1>1. PICK p \in packets : p.capsule_hash = Digest(Assemble(packets))
  BY DEF Acceptable, HashMatches
<1>2. Digest(Assemble(packets)) # Garbled
  BY DEF Digest, Garbled
<1>3. PICK c \in sealed : p.capsule_hash = Digest(ImageOf[c])
  BY <1>1, <1>2 DEF HashKnown
<1>4. Assemble(packets) = ImageOf[c]
  BY <1>1, <1>3 DEF Digest
<1> QED
  BY <1>4

-----------------------------------------------------------------------------
(* IInv is inductive: one lemma per process *)

LEMMA InitInv == Init => IInv
<1> SUFFICES ASSUME Init PROVE IInv
  OBVIOUS
<1>1. NoExport \in ExportState
  BY ConstantsAssumption DEF Index, NoExport, ExportState, Ext
<1>2. NoImport \in ImportState
  BY NoImportType
<1>3. TypeOK
  BY <1>1, <1>2 DEF Init, TypeOK
<1>4. SourcesSealed /\ ExportsInRange /\ HashesKnown /\ ImageSealed /\ ImportIntegrity
  BY DEF Init, SourcesSealed, ExportsInRange, HashesKnown, ImageSealed, ImportIntegrity,
         NoExport, NoImport
<1> QED
  BY <1>3, <1>4 DEF IInv

LEMMA PackingInv == IInv /\ Packing => IInv'
<1> SUFFICES ASSUME IInv, Packing PROVE IInv'
  OBVIOUS
<1> USE DEF IInv, TypeOK, SourcesSealed, ExportsInRange, HashesKnown, HashKnown, ImageSealed,
            ImportIntegrity
<1>1. ASSUME NEW c \in Capsule, PackOpen(c) PROVE IInv'
  BY <1>1 DEF PackOpen
<1>2. CASE PackWrite
  BY <1>2 DEF PackWrite
<1>3. CASE PackCrash
  BY <1>3 DEF PackCrash, Fault
<1> QED
  BY <1>1, <1>2, <1>3 DEF Packing

LEMMA ExportingInv == ASSUME NEW e \in Exporters PROVE IInv /\ Exporting(e) => IInv'
<1> SUFFICES ASSUME IInv, Exporting(e) PROVE IInv'
  OBVIOUS
<1> USE DEF IInv
<1>1. NoExport \in ExportState /\ NoExport.pc = "idle"
  BY ConstantsAssumption DEF NoExport, ExportState, Index, Ext
<1>0. exp \in [Exporters -> ExportState] /\ exp[e] \in ExportState
  BY DEF TypeOK
<1>2. ASSUME NEW size \in PacketSizes, StartExport(e, size) PROVE IInv'
  <2>1. 0 \in Index /\ size \in Nat \ {0} /\ bundle \in Capsule
    BY <1>2, ConstantsAssumption DEF StartExport, Index
  <2>2. bundle \in sealed
    BY <2>1, ConstantsAssumption DEF SourcesSealed
  <2>3. 0 < TotalOf(bundle, size)
    BY <2>1, TotalPositive
  <2>4. TypeOK'
    BY <1>2, <2>1 DEF StartExport, TypeOK, ExportState, Ext
  <2>5. ExportsInRange'
    BY <1>2, <2>1, <2>2, <2>3 DEF StartExport, ExportsInRange, TypeOK, TotalOf
  <2> QED
    BY <1>2, <2>4, <2>5 DEF StartExport, SourcesSealed, HashesKnown, HashKnown, ImageSealed,
                            ImportIntegrity
<1>3. CASE OpenPacket(e)
  <2> DEFINE job == [exp[e] EXCEPT !.pc = "write"]
  <2>0. job \in ExportState /\ exp' = [exp EXCEPT ![e] = job]
    BY <1>0, <1>3 DEF OpenPacket, ExportState
  <2>1. TypeOK'
    BY <1>0, <1>3, <2>0 DEF OpenPacket, TypeOK
  <2>2. ExportsInRange'
    BY <1>0, <1>3, <2>0 DEF OpenPacket, ExportState, ExportsInRange, TotalOf
  <2>3. HashesKnown'
    BY <1>3 DEF OpenPacket, TypeOK, HashesKnown, HashKnown
  <2> QED
    BY <1>3, <2>1, <2>2, <2>3 DEF OpenPacket, SourcesSealed, ImageSealed, ImportIntegrity
<1>4. CASE WritePacket(e)
  <2> DEFINE job == exp[e]
             packet == PacketOf(job.cap, job.size, job.index)
  <2>1. /\ job.cap \in sealed /\ job.cap \in Capsule
        /\ job.size \in Nat \ {0} /\ job.index \in Index /\ job.index \in Nat
        /\ job.index < TotalOf(job.cap, job.size)
        /\ TotalOf(job.cap, job.size) <= MaxIndex + 1
    BY <1>4, ConstantsAssumption DEF WritePacket, TypeOK, ExportState, ExportsInRange, Index
  <2>2. packet \in Packet /\ packet.capsule_hash = Digest(ImageOf[job.cap])
    BY <2>1, PacketOfType
  <2>3. TotalOf(job.cap, job.size) \in Nat
    BY <2>1, TotalType
  <2>4. PICK file \in {packet, Torn} :
            files' = [files EXCEPT ![<<job.ext, job.index>>] = file]
    BY <1>4 DEF WritePacket, Written
  <2>5. \/ exp' = [exp EXCEPT ![e].ext = "json", ![e].pc = "open"]
        \/ /\ job.index + 1 # TotalOf(job.cap, job.size)
           /\ exp' = [exp EXCEPT ![e].ext = "cbor", ![e].pc = "open",
                                 ![e].index = job.index + 1]
        \/ exp' = [exp EXCEPT ![e] = NoExport]
    BY <1>4 DEF WritePacket, IsLast
  <2>6. UNCHANGED <<sealed, packer, bundle, imp, out, exports, faults>>
    BY <1>4 DEF WritePacket
  <2> HIDE DEF packet
  <2>7. files' \in [Ext \X Index -> Packet \union {Absent, Torn}]
    BY <2>2, <2>4 DEF TypeOK
  <2>8. exp' \in [Exporters -> ExportState] /\ ExportsInRange'
    <3>1. CASE exp' = [exp EXCEPT ![e].ext = "json", ![e].pc = "open"]
      <4> DEFINE next == [job EXCEPT !.ext = "json", !.pc = "open"]
      <4>1. exp' = [exp EXCEPT ![e] = next]
        BY <1>0, <3>1
      <4>2. /\ next \in ExportState
            /\ next.cap = job.cap /\ next.size = job.size /\ next.index = job.index
        BY <1>0 DEF ExportState, Ext
      <4> QED
        BY <1>0, <2>1, <2>6, <4>1, <4>2 DEF ExportsInRange, TotalOf
    <3>2. CASE /\ job.index + 1 # TotalOf(job.cap, job.size)
               /\ exp' = [exp EXCEPT ![e].ext = "cbor", ![e].pc = "open",
                                     ![e].index = job.index + 1]
      <4> DEFINE next == [job EXCEPT !.ext = "cbor", !.pc = "open", !.index = job.index + 1]
      <4>1. exp' = [exp EXCEPT ![e] = next]
        BY <1>0, <3>2
      <4>2. job.index + 1 \in Index /\ job.index + 1 < TotalOf(job.cap, job.size)
        BY <2>1, <2>3, <3>2, ConstantsAssumption DEF Index
      <4>3. /\ next \in ExportState
            /\ next.cap = job.cap /\ next.size = job.size /\ next.index = job.index + 1
        BY <1>0, <4>2 DEF ExportState, Ext
      <4> HIDE DEF next
      <4>4. exp' \in [Exporters -> ExportState] /\ exp'[e] = next
        BY <1>0, <4>1, <4>3
      <4>5. ExportsInRange'
        <5> SUFFICES ASSUME NEW x \in Exporters, exp'[x].pc # "idle"
                     PROVE  /\ exp'[x].cap \in sealed
                            /\ exp'[x].size > 0
                            /\ exp'[x].index < TotalOf(exp'[x].cap, exp'[x].size)
                            /\ TotalOf(exp'[x].cap, exp'[x].size) <= MaxIndex + 1
          BY <2>6 DEF ExportsInRange, TotalOf
        <5>1. CASE x = e
          BY <2>1, <4>2, <4>3, <4>4, <5>1
        <5>2. CASE x # e
          BY <1>0, <4>1, <5>2 DEF ExportsInRange
        <5> QED
          BY <5>1, <5>2
      <4> QED
        BY <4>4, <4>5
    <3>3. CASE exp' = [exp EXCEPT ![e] = NoExport]
      BY <1>0, <1>1, <2>6, <3>3 DEF ExportsInRange, TotalOf
    <3> QED
      BY <2>5, <3>1, <3>2, <3>3
  <2>9. HashesKnown'
    BY <2>1, <2>2, <2>4, <2>6 DEF HashesKnown, HashKnown, TypeOK
  <2> QED
    BY <2>6, <2>7, <2>8, <2>9 DEF TypeOK, SourcesSealed, ImageSealed, ImportIntegrity
<1>5. CASE PngFails(e) \/ ExportCrash(e)
  <2>1. /\ exp' = [exp EXCEPT ![e] = NoExport]
        /\ UNCHANGED <<sealed, packer, bundle, files, imp, out, exports>>
        /\ faults' \in Nat
    BY <1>5 DEF PngFails, ExportCrash, Fault, TypeOK
  <2>2. TypeOK'
    BY <1>1, <2>1 DEF TypeOK
  <2>3. ExportsInRange' /\ HashesKnown'
    BY <1>1, <2>1 DEF TypeOK, ExportsInRange, HashesKnown, HashKnown, TotalOf
  <2> QED
    BY <2>1, <2>2, <2>3 DEF SourcesSealed, ImageSealed, ImportIntegrity
<1> QED
  BY <1>2, <1>3, <1>4, <1>5 DEF Exporting

LEMMA CarryingInv == IInv /\ Carrying => IInv'
<1> SUFFICES ASSUME IInv, NEW slot \in Ext \X Index,
                    \/ LoseFile(slot)
                    \/ DamageFile(slot)
                    \/ \E to \in Ext \X Index : CopyFile(slot, to)
             PROVE  IInv'
  BY DEF Carrying
<1> USE DEF IInv
<1>1. /\ UNCHANGED <<sealed, packer, bundle, exp, imp, out, exports>>
      /\ faults' \in Nat
  BY DEF LoseFile, DamageFile, CopyFile, Fault, TypeOK
<1>2. \E to \in Ext \X Index, file \in Packet \union {Absent, Torn} :
          /\ files' = [files EXCEPT ![to] = file]
          /\ file \notin {Absent, Torn} => HashKnown(file)
  <2>1. CASE LoseFile(slot)
    BY <2>1 DEF LoseFile
  <2>2. CASE DamageFile(slot)
    <3>1. files[slot] \in Packet /\ HashKnown(files[slot])
      BY <2>2 DEF DamageFile, TypeOK, HashesKnown
    <3>2. PICK file \in Damaged(files[slot]) \union {Torn} :
              files' = [files EXCEPT ![slot] = file]
      BY <2>2 DEF DamageFile
    <3>3. file # Torn => file \in Packet /\ HashKnown(file)
      BY <3>1, <3>2, DamagedType DEF HashKnown
    <3> QED
      BY <3>2, <3>3
  <2>3. CASE \E to \in Ext \X Index : CopyFile(slot, to)
    BY <2>3 DEF CopyFile, TypeOK, HashesKnown
  <2> QED
    BY <2>1, <2>2, <2>3
<1>3. TypeOK' /\ HashesKnown'
  BY <1>1, <1>2 DEF TypeOK, HashesKnown, HashKnown
<1> QED
  BY <1>1, <1>3 DEF SourcesSealed, ExportsInRange, ImageSealed, ImportIntegrity, TotalOf

\* A scan begins with nothing read.
LEMMA ScanType == ASSUME NEW ext \in Ext
                  PROVE  Scan(ext) \in ImportState /\ Scan(ext).got = {} /\ Scan(ext).pc = "scan"
<1>1. << >> \in Seq(Byte)
  BY EmptySeq
<1> QED
  BY <1>1 DEF Scan, ImportState

LEMMA ImportingInv == IInv /\ (ImporterStep \/ ImportCrash) => IInv'
<1> SUFFICES ASSUME IInv, ImporterStep \/ ImportCrash PROVE IInv'
  OBVIOUS
<1> USE DEF IInv
<1>1. imp \in ImportState
  BY DEF TypeOK
<1>2. /\ NoImport \in ImportState /\ NoImport.got = {} /\ NoImport.pc = "idle"
  BY NoImportType DEF NoImport
<1>3. UNCHANGED <<sealed, packer, bundle, exp, files, exports>> /\ faults' \in Nat
  <2>1. CASE ImporterStep
    <3>1. UNCHANGED <<sealed, packer, bundle, exp, files, exports>> /\ faults' = faults
      BY <2>1, Zenon DEF ImporterStep, StartImport, ReadEntry, MissEntry, EndScan, OpenOut,
                         WriteOut
    <3> QED
      BY <3>1 DEF TypeOK
  <2>2. CASE ImportCrash
    BY <2>2 DEF ImportCrash, Fault, TypeOK
  <2> QED
    BY <2>1, <2>2
<1>4. ASSUME imp' \in ImportState,
             \A p \in imp'.got : HashKnown(p),
             imp'.pc \in {"open", "write"} => \E c \in sealed : imp'.image = ImageOf[c],
             out' \in {out, Torn} \/ \E c \in sealed : out' = ImageOf[c]
      PROVE  IInv'
  <2>1. out' \in Seq(Byte) \union {Absent, Torn} /\ ImportIntegrity'
    BY <1>3, <1>4, ConstantsAssumption DEF TypeOK, ImportIntegrity
  <2>2. TypeOK'
    BY <1>3, <1>4, <2>1 DEF TypeOK
  <2>3. HashesKnown' /\ ImageSealed'
    BY <1>3, <1>4 DEF HashesKnown, HashKnown, ImageSealed
  <2> QED
    BY <1>3, <2>1, <2>2, <2>3 DEF SourcesSealed, ExportsInRange, TotalOf
<1>5. CASE StartImport
  BY <1>4, <1>5, ScanType DEF StartImport, Ext
<1>6. ASSUME NEW i \in Index, ReadEntry(i) PROVE IInv'
  <2>1. imp.pc = "scan" /\ out' = out
    BY <1>6 DEF ReadEntry
  <2>2. CASE imp' = NoImport
    BY <1>2, <1>4, <2>1, <2>2
  <2>3. CASE imp' # NoImport
    <3> DEFINE file == files[<<imp.ext, i>>]
    <3>1. file \notin {Absent, Torn} /\ <<imp.ext, i>> \in Ext \X Index
      BY <1>1, <1>6, <2>3 DEF ReadEntry, ImportState
    <3>2. file \in Packet /\ HashKnown(file)
      BY <3>1 DEF TypeOK, HashesKnown
    <3>3. imp' = [imp EXCEPT !.got = @ \union {file}, !.todo = @ \ {i}, !.fresh = @ \ {i}]
      BY <1>6, <2>3 DEF ReadEntry
    <3> HIDE DEF file
    <3>4. imp' \in ImportState /\ imp'.got = imp.got \union {file} /\ imp'.pc = "scan"
      BY <1>1, <2>1, <3>2, <3>3 DEF ImportState
    <3> QED
      BY <1>4, <2>1, <3>2, <3>4 DEF HashesKnown
  <2> QED
    BY <2>2, <2>3
<1>7. ASSUME NEW i \in Index, MissEntry(i) PROVE IInv'
  <2>1. imp.pc = "scan" /\ out' = out
    BY <1>7 DEF MissEntry
  <2>2. CASE imp' = NoImport
    BY <1>2, <1>4, <2>1, <2>2
  <2>3. CASE imp' = [imp EXCEPT !.todo = @ \ {i}]
    BY <1>1, <1>4, <2>1, <2>3 DEF ImportState, HashesKnown
  <2> QED
    BY <1>7, <2>2, <2>3 DEF MissEntry
<1>8. CASE EndScan
  <2>1. out' = out
    BY <1>8 DEF EndScan
  <2>2. CASE imp' = Scan("json")
    BY <1>4, <2>1, <2>2, ScanType DEF Ext
  <2>3. CASE imp' = NoImport
    BY <1>2, <1>4, <2>1, <2>3
  <2>4. CASE /\ imp.got # {} /\ Acceptable(imp.got)
             /\ imp' = [NoImport EXCEPT !.pc = "open", !.image = Assemble(imp.got)]
    <3>1. PICK c \in sealed : Assemble(imp.got) = ImageOf[c]
      BY <2>4, AcceptedIsSealed DEF HashesKnown
    <3>2. ImageOf[c] \in Seq(Byte)
      BY <3>1, ConstantsAssumption DEF TypeOK
    <3>3. imp' = [NoImport EXCEPT !.pc = "open", !.image = ImageOf[c]]
      BY <2>4, <3>1
    <3>4. imp' \in ImportState /\ imp'.got = {} /\ imp'.image = ImageOf[c]
      BY <1>2, <3>2, <3>3 DEF ImportState
    <3> QED
      BY <1>4, <2>1, <3>1, <3>4
  <2> QED
    BY <1>8, <2>2, <2>3, <2>4 DEF EndScan
<1>9. CASE OpenOut
  <2>1. imp' \in ImportState /\ imp'.got = imp.got /\ imp'.image = imp.image
    BY <1>1, <1>9 DEF OpenOut, ImportState
  <2> QED
    BY <1>4, <1>9, <2>1 DEF OpenOut, HashesKnown, ImageSealed
<1>10. CASE WriteOut
  BY <1>2, <1>4, <1>10 DEF WriteOut, ImageSealed
<1>11. CASE ImportCrash
  BY <1>2, <1>4, <1>11 DEF ImportCrash
<1> QED
  BY <1>5, <1>6, <1>7, <1>8, <1>9, <1>10, <1>11 DEF ImporterStep

LEMMA StutterInv == IInv /\ UNCHANGED vars => IInv'
BY DEF vars, IInv, TypeOK, SourcesSealed, ExportsInRange, HashesKnown, HashKnown, ImageSealed,
       ImportIntegrity, TotalOf

LEMMA Inductive == Spec => []IInv
<1>1. IInv /\ [Next]_vars => IInv'
  BY PackingInv, ExportingInv, CarryingInv, ImportingInv, StutterInv DEF Next
<1> QED
  BY <1>1, InitInv, PTL DEF Spec

-----------------------------------------------------------------------------
(* The theorems *)

\* Every variable keeps its type; above all no exporter numbers a packet past the
\* last chunk of its capsule (export_qr_packets).
THEOREM TypeCorrect == Spec => []TypeOK
<1>1. IInv => TypeOK
  BY DEF IInv
<1> QED
  BY <1>1, Inductive, PTL

\* Whatever the directory went through, what import_qr_packets leaves is absent, cut
\* off, or byte for byte the file of a capsule that pack has made.
THEOREM Integrity == Spec => []ImportIntegrity
<1>1. IInv => ImportIntegrity
  BY DEF IInv
<1> QED
  BY <1>1, Inductive, PTL

-----------------------------------------------------------------------------
(* QrTransport implements AirGap *)

LEMMA CapsuleOfImage == ASSUME NEW c \in Capsule PROVE CapsuleOf(ImageOf[c]) = c
BY ConstantsAssumption DEF CapsuleOf

\* A step that leaves the output alone and begins and ends no write of it is a
\* stutter of AirGap, but for what pack seals.
LEMMA Unseen ==
    ASSUME out' = out, imp.pc # "write", imp'.pc # "write"
    PROVE  UNCHANGED <<Pending, Received>>
BY DEF Pending, Received, CapsuleOf

LEMMA InitRefines == Init => Gap!Init
BY DEF Init, Gap!Init, Pending, Received, NoImport

LEMMA StepRefines == IInv /\ [Next]_vars => [Gap!Next]_Gap!vars
<1> SUFFICES ASSUME IInv, [Next]_vars PROVE [Gap!Next]_Gap!vars
  OBVIOUS
<1> USE DEF IInv
<1>1. ASSUME UNCHANGED <<sealed, imp, out>> PROVE UNCHANGED Gap!vars
  BY <1>1 DEF Gap!vars, Pending, Received, CapsuleOf
<1>2. ASSUME UNCHANGED <<sealed, out>>, imp.pc # "write", imp'.pc # "write"
      PROVE  UNCHANGED Gap!vars
  BY <1>2, Unseen DEF Gap!vars
<1>3. ASSUME NEW c \in Capsule, PackOpen(c) PROVE Gap!Next
  <2>1. UNCHANGED <<Pending, Received>>
    BY <1>3 DEF PackOpen, Pending, Received, CapsuleOf
  <2>2. sealed' = sealed \union {c}
    BY <1>3 DEF PackOpen
  <2>3. Gap!Seal(c)
    BY <2>1, <2>2 DEF Gap!Seal
  <2> QED
    BY <2>3 DEF Gap!Next
<1>4. CASE OpenOut
  <2>1. PICK c \in sealed : imp.image = ImageOf[c]
    BY <1>4 DEF OpenOut, ImageSealed
  <2>2. c \in Capsule /\ CapsuleOf(imp.image) = c
    BY <2>1, CapsuleOfImage DEF TypeOK
  <2>3. imp.pc = "open" /\ imp'.pc = "write" /\ imp'.image = imp.image /\ out' = Torn
    BY <1>4 DEF OpenOut, TypeOK, ImportState
  <2>4. Pending = Absent /\ Pending' = c /\ Received' = Torn
    BY <2>2, <2>3 DEF Pending, Received, CapsuleOf
  <2>5. sealed' = sealed
    BY <1>4 DEF OpenOut
  <2>6. Gap!Begin(c)
    BY <2>1, <2>4, <2>5 DEF Gap!Begin
  <2> QED
    BY <2>2, <2>6 DEF Gap!Next
<1>5. CASE WriteOut
  <2>1. PICK c \in sealed : imp.image = ImageOf[c]
    BY <1>5 DEF WriteOut, ImageSealed
  <2>2. c \in Capsule /\ CapsuleOf(ImageOf[c]) = c /\ ImageOf[c] \notin {Absent, Torn}
    BY <2>1, CapsuleOfImage, ConstantsAssumption DEF TypeOK
  <2>3. imp.pc = "write" /\ imp'.pc = "idle" /\ out' = ImageOf[c] /\ sealed' = sealed
    BY <1>5, <2>1 DEF WriteOut, NoImport
  <2>4. Pending = c /\ Pending' = Absent /\ Received' = c
    BY <2>1, <2>2, <2>3 DEF Pending, Received, CapsuleOf
  <2>5. c # Absent
    BY <2>2, ConstantsAssumption
  <2>6. Gap!Deliver
    BY <2>3, <2>4, <2>5 DEF Gap!Deliver
  <2> QED
    BY <2>6 DEF Gap!Next
<1>6. CASE ImportCrash
  <2>1. UNCHANGED <<sealed, out>> /\ imp'.pc = "idle"
    BY <1>6 DEF ImportCrash, NoImport
  <2>2. CASE imp.pc = "write"
    <3>1. PICK c \in sealed : imp.image = ImageOf[c]
      BY <2>2 DEF ImageSealed
    <3>2. Pending = c /\ c # Absent
      BY <2>2, <3>1, CapsuleOfImage, ConstantsAssumption DEF TypeOK, Pending
    <3>3. Pending' = Absent /\ Received' = Received
      BY <2>1 DEF Pending, Received, CapsuleOf
    <3>4. Gap!Abandon
      BY <2>1, <3>2, <3>3 DEF Gap!Abandon
    <3> QED
      BY <3>4 DEF Gap!Next
  <2>3. CASE imp.pc # "write"
    BY <1>2, <2>1, <2>3
  <2> QED
    BY <2>2, <2>3
<1>7. CASE StartImport
  BY <1>2, <1>7 DEF StartImport, Scan
<1>8. ASSUME NEW i \in Index, ReadEntry(i) \/ MissEntry(i) PROVE UNCHANGED Gap!vars
  <2>1. UNCHANGED <<sealed, out>> /\ imp.pc = "scan"
    BY <1>8 DEF ReadEntry, MissEntry
  <2>2. imp \in ImportState /\ NoImport.pc = "idle"
    BY DEF TypeOK, NoImport
  <2>3. CASE ReadEntry(i)
    <3>1. imp'.pc \in {"idle", imp.pc}
      BY <2>2, <2>3 DEF ReadEntry, ImportState
    <3> QED
      BY <1>2, <2>1, <3>1
  <2>4. CASE MissEntry(i)
    <3>1. imp' = NoImport \/ imp' = [imp EXCEPT !.todo = @ \ {i}]
      BY <2>4 DEF MissEntry
    <3>2. imp'.pc \in {"idle", imp.pc}
      BY <2>2, <3>1 DEF ImportState
    <3> QED
      BY <1>2, <2>1, <3>2
  <2> QED
    BY <1>8, <2>3, <2>4
<1>9. CASE EndScan
  <2>1. UNCHANGED <<sealed, out>> /\ imp.pc = "scan"
    BY <1>9 DEF EndScan
  <2>2. NoImport.pc = "idle" /\ Scan("json").pc = "scan"
    BY DEF NoImport, Scan
  <2>3. \/ imp' \in {NoImport, Scan("json")}
        \/ imp' = [NoImport EXCEPT !.pc = "open", !.image = Assemble(imp.got)]
    BY <1>9 DEF EndScan
  <2>4. imp'.pc # "write"
    BY <2>2, <2>3 DEF NoImport
  <2> QED
    BY <1>2, <2>1, <2>4
<1>10. CASE PackWrite \/ PackCrash
  BY <1>1, <1>10 DEF PackWrite, PackCrash
<1>11. ASSUME NEW e \in Exporters, Exporting(e) PROVE UNCHANGED Gap!vars
  <2>1. UNCHANGED <<sealed, imp, out>>
    BY <1>11, Zenon DEF Exporting, StartExport, OpenPacket, WritePacket, PngFails, ExportCrash
  <2> QED
    BY <1>1, <2>1
<1>12. CASE Carrying
  <2>1. UNCHANGED <<sealed, imp, out>>
    BY <1>12, Zenon DEF Carrying, LoseFile, DamageFile, CopyFile
  <2> QED
    BY <1>1, <2>1
<1>13. CASE UNCHANGED vars
  BY <1>1, <1>13 DEF vars
<1> QED
  BY <1>3, <1>4, <1>5, <1>6, <1>7, <1>8, <1>9, <1>10, <1>11, <1>12, <1>13
     DEF Next, Packing, ImporterStep

\* Every behaviour of the packet transport is one of the abstract air gap: a receiver
\* that looks only at the output file sees whole sealed capsules arrive.
THEOREM Refinement == Spec => ImplementsAirGap
<1>1. Spec => []IInv
  BY Inductive
<1> QED
  BY <1>1, InitRefines, StepRefines, PTL DEF Spec, ImplementsAirGap, Gap!Spec
-----------------------------------------------------------------------------
(* The way there and back: the chunks of a file, in order, are the file.   *)

\* Induction over the natural numbers, said of sets
LEMMA SetInduction ==
    ASSUME NEW S \in SUBSET Nat, 0 \in S, \A n \in S : n + 1 \in S
    PROVE  S = Nat
<1> DEFINE T == Nat \ S
<1>1. SUFFICES ASSUME T # {} PROVE FALSE
  OBVIOUS
<1>2. \E x \in T : \A y \in T : ~ (<<y, x>> \in OpToRel(<, Nat))
  <2> HIDE DEF T
  <2>1. T \subseteq Nat
    BY DEF T
  <2> QED
    BY <1>1, <2>1, NatLessThanWellFounded, WFMin
<1>3. PICK x \in T : \A y \in T : ~ (y < x)
  <2>1. \A x, y \in Nat : y < x => <<y, x>> \in OpToRel(<, Nat)
    BY DEF OpToRel
  <2> QED
    BY <1>2, <2>1
<1>4. x # 0 /\ x \in Nat
  OBVIOUS
<1>5. x - 1 \in T => FALSE
  BY <1>3, <1>4
<1>6. x - 1 \in S
  BY <1>4, <1>5
<1> QED
  BY <1>6, <1>4

\* f joins the parts of seqs, one after the other.
Joins(f, seqs, n) ==
    /\ n \in Nat \ {0}
    /\ DOMAIN seqs = 1 .. n /\ Len(seqs) = n
    /\ f = [i \in 1 .. n |-> f[i]]
    /\ f[1] = seqs[1]
    /\ \A i \in 1 .. n : i # 1 => f[i] = f[i - 1] \o seqs[i]

\* A function that does that ends in what FlattenSeq returns.
LEMMA Flattened ==
    ASSUME NEW n, NEW seqs, NEW f, Joins(f, seqs, n)
    PROVE  FlattenSeq(seqs) = f[n]
<1> USE DEF Joins
<1> DEFINE Flat(g) == g = [i \in 1 .. n |-> IF i = 1 THEN seqs[i] ELSE g[i - 1] \o seqs[i]]
           flatten == CHOOSE g : Flat(g)
<1>1. Flat(f)
  <2> DEFINE part(i) == IF i = 1 THEN seqs[i] ELSE f[i - 1] \o seqs[i]
  <2>1. ASSUME NEW i \in 1 .. n
        PROVE  f[i] = part(i)
    <3>1. i = 1 \/ i # 1
      OBVIOUS
    <3> QED
      BY <3>1
  <2> HIDE DEF part
  <2>2. f = [i \in 1 .. n |-> part(i)]
    <3>1. f = [i \in 1 .. n |-> f[i]]
      OBVIOUS
    <3> QED
      BY ONLY <2>1, <3>1
  <2> QED
    BY <2>2 DEF part
<1>2. Flat(flatten)
  <2> HIDE DEF Flat
  <2> QED
    BY <1>1
<1>3. FlattenSeq(seqs) = flatten[n]
  BY DEF FlattenSeq
<1> HIDE DEF flatten
<1>4. /\ flatten[1] = seqs[1]
      /\ \A i \in 1 .. n : i # 1 => flatten[i] = flatten[i - 1] \o seqs[i]
  <2>1. 1 \in 1 .. n
    OBVIOUS
  <2> QED
    BY <1>2, <2>1
<1> HIDE DEF Flat
<1> DEFINE S == {k \in Nat : k + 1 <= n => flatten[k + 1] = f[k + 1]}
<1>5. 0 \in S
  BY <1>4
<1>6. ASSUME NEW k \in S
      PROVE  k + 1 \in S
  <2>1. SUFFICES ASSUME (k + 1) + 1 <= n
                 PROVE  flatten[(k + 1) + 1] = f[(k + 1) + 1]
    OBVIOUS
  <2>2. k \in Nat /\ flatten[k + 1] = f[k + 1]
    BY <2>1
  <2>3. (k + 1) + 1 \in 1 .. n /\ (k + 1) + 1 # 1 /\ ((k + 1) + 1) - 1 = k + 1
    BY <2>1, <2>2
  <2>4. flatten[(k + 1) + 1] = flatten[k + 1] \o seqs[(k + 1) + 1]
    BY <1>4, <2>3
  <2>5. f[(k + 1) + 1] = f[k + 1] \o seqs[(k + 1) + 1]
    BY <2>3
  <2> QED
    BY <2>2, <2>4, <2>5
<1> HIDE DEF S
<1>7. S = Nat
  <2>1. S \in SUBSET Nat
    BY DEF S
  <2> QED
    BY <1>5, <1>6, <2>1, SetInduction
<1>8. n - 1 \in S /\ (n - 1) + 1 = n
  BY <1>7
<1> QED
  BY <1>3, <1>8 DEF S

\* div_ceil is the number of chunks: one less would leave something over, and the last
\* of them is not empty.
LEMMA Ceiling ==
    ASSUME NEW len \in Nat \ {0}, NEW size \in Nat \ {0}, NEW n,
           n = (len + size - 1) \div size
    PROVE  /\ n \in Nat \ {0}
           /\ len <= n * size
           /\ (n - 1) * size < len
<1>1. len + size - 1 \in Nat
  OBVIOUS
<1>2. ASSUME NEW m \in Nat
      PROVE  /\ m \div size \in Nat
             /\ (m \div size) * size <= m
             /\ m < (m \div size) * size + size
  OBVIOUS
<1>3. n \in Nat /\ n * size <= len + size - 1 /\ len + size - 1 < n * size + size
  BY <1>1, <1>2
<1>4. len <= n * size
  <2>1. n * size \in Nat
    BY <1>3
  <2> QED
    BY <1>3, <2>1
<1>5. n # 0
  BY <1>3
<1>6. (n - 1) * size = n * size - size
  BY <1>3
<1> QED
  BY <1>3, <1>4, <1>5, <1>6

LEMMA Ordered ==
    ASSUME NEW a \in Nat, NEW b \in Nat, NEW c \in Nat, a <= b
    PROVE  a * c \in Nat /\ a * c <= b * c
<1>1. b - a \in Nat /\ (b - a) * c \in Nat
  OBVIOUS
<1>2. b * c = a * c + (b - a) * c
  OBVIOUS
<1>3. a * c \in Nat
  OBVIOUS
<1> QED
  BY <1>1, <1>2, <1>3

\* How far the first i chunks reach
Reach(c, size, i) == IF i * size < Len(ImageOf[c]) THEN i * size ELSE Len(ImageOf[c])

LEMMA Reaches ==
    ASSUME NEW c \in Capsule, NEW size \in Nat \ {0}
    PROVE  /\ TotalOf(c, size) \in Nat \ {0}
           /\ Reach(c, size, 0) = 0
           /\ Reach(c, size, TotalOf(c, size)) = Len(ImageOf[c])
           /\ \A i \in 0 .. TotalOf(c, size) - 1 :
                 /\ Reach(c, size, i) = i * size /\ i * size \in 0 .. Len(ImageOf[c]) - 1
                 /\ Reach(c, size, i + 1) \in i * size + 1 .. Len(ImageOf[c])
                 /\ Chunk(c, size, i) = SubSeq(ImageOf[c], i * size + 1, Reach(c, size, i + 1))
<1> DEFINE len == Len(ImageOf[c])
           n == TotalOf(c, size)
<1>1. len \in Nat \ {0}
  BY ConstantsAssumption, EmptySeq
<1>2. n \in Nat \ {0} /\ len <= n * size /\ (n - 1) * size < len
  BY <1>1, Ceiling DEF TotalOf
<1>3. Reach(c, size, n) = len
  <2>1. n * size \in Nat
    BY <1>2
  <2> QED
    BY <1>1, <1>2, <2>1 DEF Reach
<1>4. Reach(c, size, 0) = 0
  <2>1. 0 * size = 0
    OBVIOUS
  <2> QED
    BY <1>1, <2>1 DEF Reach
<1>5. ASSUME NEW i \in 0 .. n - 1
      PROVE  /\ Reach(c, size, i) = i * size /\ i * size \in 0 .. len - 1
             /\ Reach(c, size, i + 1) \in i * size + 1 .. len
             /\ Chunk(c, size, i) = SubSeq(ImageOf[c], i * size + 1, Reach(c, size, i + 1))
  <2>1. i \in Nat /\ n - 1 \in Nat /\ i <= n - 1
    BY <1>2
  <2>2. i * size \in Nat /\ i * size <= (n - 1) * size
    BY <2>1, Ordered
  <2>3. (n - 1) * size \in Nat
    BY <2>1
  <2>4. i * size < len
    BY <1>1, <1>2, <2>2, <2>3
  <2>5. (i + 1) * size = i * size + size
    BY <2>1
  <2>6. Reach(c, size, i) = i * size
    BY <2>4 DEF Reach
  <2>7. Reach(c, size, i + 1) \in i * size + 1 .. len
    BY <1>1, <2>2, <2>4, <2>5 DEF Reach
  <2>8. Chunk(c, size, i) = SubSeq(ImageOf[c], i * size + 1, Reach(c, size, i + 1))
    BY DEF Chunk, Reach
  <2> QED
    BY <1>1, <2>2, <2>4, <2>6, <2>7, <2>8
<1> QED
  BY <1>2, <1>3, <1>4, <1>5

LEMMA Joined ==
    ASSUME NEW c \in Capsule, NEW size \in Nat \ {0}
    PROVE  FlattenSeq([k \in 1 .. TotalOf(c, size) |-> Chunk(c, size, k - 1)]) = ImageOf[c]
<1> DEFINE n == TotalOf(c, size)
           seqs == [k \in 1 .. n |-> Chunk(c, size, k - 1)]
           f == [k \in 1 .. n |-> SubSeq(ImageOf[c], 1, Reach(c, size, k))]
<1>0. ImageOf[c] \in Seq(Byte) /\ Len(ImageOf[c]) \in Nat
  BY ConstantsAssumption
<1>1. n \in Nat \ {0} /\ 1 \in 1 .. n /\ n \in 1 .. n
  BY Reaches
<1>2. ASSUME NEW k \in 1 .. n
      PROVE  /\ k - 1 \in 0 .. n - 1 /\ (k - 1) + 1 = k
             /\ seqs[k] = SubSeq(ImageOf[c], Reach(c, size, k - 1) + 1, Reach(c, size, k))
             /\ Reach(c, size, k - 1) \in 0 .. Len(ImageOf[c])
             /\ Reach(c, size, k) \in Reach(c, size, k - 1) .. Len(ImageOf[c])
  <2>1. k - 1 \in 0 .. n - 1 /\ (k - 1) + 1 = k
    BY <1>1
  <2> DEFINE i == k - 1
  <2>2. /\ Reach(c, size, i) = i * size /\ i * size \in 0 .. Len(ImageOf[c]) - 1
        /\ Reach(c, size, i + 1) \in i * size + 1 .. Len(ImageOf[c])
        /\ Chunk(c, size, i) = SubSeq(ImageOf[c], i * size + 1, Reach(c, size, i + 1))
    <3> HIDE DEF i
    <3>1. i \in 0 .. n - 1
      BY <2>1 DEF i
    <3> QED
      BY <3>1, Reaches
  <2>3. seqs[k] = Chunk(c, size, i)
    OBVIOUS
  <2>4. i + 1 = k
    BY <2>1
  <2> HIDE DEF i, seqs
  <2>5. /\ Reach(c, size, i) \in 0 .. Len(ImageOf[c])
        /\ Reach(c, size, k) \in Reach(c, size, i) .. Len(ImageOf[c])
    BY <1>0, <2>2, <2>4
  <2>6. seqs[k] = SubSeq(ImageOf[c], Reach(c, size, i) + 1, Reach(c, size, k))
    BY <2>2, <2>3, <2>4
  <2> QED
    BY <2>1, <2>5, <2>6 DEF i
<1>3. Len(seqs) = n /\ DOMAIN seqs = 1 .. n
  BY <1>1
<1>4. f[1] = seqs[1]
  <2>1. seqs[1] = SubSeq(ImageOf[c], 0 + 1, Reach(c, size, 1))
    BY <1>1, <1>2, Reaches
  <2> QED
    BY <1>1, <2>1
<1>5. ASSUME NEW k \in 1 .. n, k # 1
      PROVE  f[k] = f[k - 1] \o seqs[k]
  <2> DEFINE a == Reach(c, size, k - 1)
             b == Reach(c, size, k)
  <2>1. k \in 1 .. n /\ k - 1 \in 1 .. n
    BY <1>1, <1>5
  <2>2. /\ seqs[k] = SubSeq(ImageOf[c], a + 1, b)
        /\ a \in 0 .. Len(ImageOf[c]) /\ b \in a .. Len(ImageOf[c])
    BY <1>2, <2>1
  <2>3. f[k] = SubSeq(ImageOf[c], 1, b) /\ f[k - 1] = SubSeq(ImageOf[c], 1, a)
    BY <2>1
  <2> HIDE DEF a, b, f, seqs
  <2>4. SubSeq(ImageOf[c], 1, a) \o SubSeq(ImageOf[c], a + 1, b) = SubSeq(ImageOf[c], 1, b)
    <3>1. 1 \in 1 .. Len(ImageOf[c]) + 1 /\ a \in 1 - 1 .. Len(ImageOf[c])
      BY <1>0, <2>2
    <3> QED
      BY <1>0, <2>2, <3>1, ConcatAdjacentSubSeq
  <2> QED
    BY <2>2, <2>3, <2>4
<1>6. f[n] = ImageOf[c]
  <2>1. f[n] = SubSeq(ImageOf[c], 1, Len(ImageOf[c]))
    BY <1>1, Reaches
  <2> QED
    BY <1>0, <2>1, SubSeqFull
<1>7. f = [k \in 1 .. n |-> f[k]]
  OBVIOUS
<1> HIDE DEF f, seqs, n
<1>8. Joins(f, seqs, n)
  BY <1>1, <1>3, <1>4, <1>5, <1>7 DEF Joins
<1>9. FlattenSeq(seqs) = f[n]
  BY <1>8, Flattened
<1> QED
  BY <1>6, <1>9 DEF seqs, n

\* Of one export there is one packet of each number.
LEMMA PacketsOf ==
    ASSUME NEW c \in Capsule, NEW size \in Nat \ {0}, NEW k \in 1 .. TotalOf(c, size)
    PROVE  /\ PacketOf(c, size, k - 1) \in PacketSet(c, size)
           /\ \A p \in PacketSet(c, size) : p.index = k - 1 => p = PacketOf(c, size, k - 1)
<1>1. k - 1 \in 0 .. TotalOf(c, size) - 1
  BY Reaches
<1>2. \A i : PacketOf(c, size, i).index = i
  BY DEF PacketOf
<1> QED
  BY <1>1, <1>2 DEF PacketSet

\* For every capsule and every packet size: the packets of one export, put together in
\* the order of their numbers, are the capsule's file.
LEMMA RoundTrip ==
    ASSUME NEW c \in Capsule, NEW size \in Nat \ {0}
    PROVE  PacketSet(c, size) # {} /\ Assemble(PacketSet(c, size)) = ImageOf[c]
<1> DEFINE n == TotalOf(c, size)
           packets == PacketSet(c, size)
           Numbered(k) == (CHOOSE p \in packets : p.index = k - 1).payload
<1>1. n \in Nat \ {0} /\ 1 \in 1 .. n
  BY Reaches
<1>2. packets # {}
  BY <1>1, PacketsOf
<1>3. (CHOOSE p \in packets : TRUE).total = n
  <2>1. \A p \in packets : p.total = n
    BY DEF PacketSet, PacketOf
  <2> QED
    BY <1>2, <2>1
<1>4. ASSUME NEW k \in 1 .. n
      PROVE  Numbered(k) = Chunk(c, size, k - 1)
  <2>1. /\ PacketOf(c, size, k - 1) \in packets
        /\ \A p \in packets : p.index = k - 1 => p = PacketOf(c, size, k - 1)
    BY PacketsOf
  <2>2. PacketOf(c, size, k - 1).index = k - 1
    BY DEF PacketOf
  <2> HIDE DEF packets
  <2>3. (CHOOSE p \in packets : p.index = k - 1) = PacketOf(c, size, k - 1)
    BY <2>1, <2>2
  <2>4. PacketOf(c, size, k - 1).payload = Chunk(c, size, k - 1)
    BY DEF PacketOf
  <2> QED
    BY <2>3, <2>4
<1>5. [k \in 1 .. n |-> Numbered(k)] = [k \in 1 .. n |-> Chunk(c, size, k - 1)]
  <2> HIDE DEF Numbered
  <2> QED
    BY <1>4
<1>6. Assemble(packets) = FlattenSeq([k \in 1 .. n |-> Numbered(k)])
  BY <1>3 DEF Assemble
<1> HIDE DEF Numbered
<1> QED
  BY <1>2, <1>5, <1>6, Joined

\* ... and they pass every check of the import.
LEMMA CompleteIsAcceptable ==
    ASSUME NEW c \in Capsule, NEW size \in Nat \ {0}
    PROVE  Acceptable(PacketSet(c, size))
<1> DEFINE n == TotalOf(c, size)
           packets == PacketSet(c, size)
<1>1. n \in Nat \ {0}
  BY Reaches
<1>2. packets # {} /\ Assemble(packets) = ImageOf[c]
  BY RoundTrip
<1>3. ASSUME NEW p \in packets
      PROVE  /\ p.magic = "AQRP" /\ p.bundle_id = BundleOf[c] /\ p.index \in 0 .. n - 1
             /\ p = PacketOf(c, size, p.index)
             /\ p.total = n /\ p.capsule_hash = Digest(ImageOf[c])
             /\ p.checksum = Digest(p.payload)
  <2>1. PICK i \in 0 .. n - 1 : p = PacketOf(c, size, i)
    BY DEF PacketSet
  <2> QED
    BY <2>1 DEF PacketOf
<1>4. \A i \in 0 .. n - 1 : \E q \in packets : q.index = i
  <2>1. ASSUME NEW i \in 0 .. n - 1
        PROVE  PacketOf(c, size, i) \in packets /\ PacketOf(c, size, i).index = i
    BY DEF PacketSet, PacketOf
  <2> QED
    BY <2>1
<1> HIDE DEF packets, n
<1>5. Cardinality({p.bundle_id : p \in packets}) = 1
  <2>1. {p.bundle_id : p \in packets} = {BundleOf[c]}
    BY <1>2, <1>3
  <2> QED
    BY <2>1, FS_Singleton
<1>6. \A p \in packets : p.magic = "AQRP" /\ p.index < p.total /\ p.checksum = Digest(p.payload)
  BY <1>1, <1>3
<1>7. \A p, q \in packets : /\ p.index = q.index => p = q
                            /\ p.total = q.total
                            /\ p.capsule_hash = q.capsule_hash
  BY <1>3
<1>8. \A p \in packets : \A i \in 0 .. p.total - 1 : \E q \in packets : q.index = i
  BY <1>3, <1>4
<1>9. HashMatches(packets)
  BY <1>2, <1>3 DEF HashMatches
<1>10. Assemble(packets) # <<>> /\ Assemble(packets)[1] = Magic
  BY <1>2, ConstantsAssumption
<1> QED
  BY <1>5, <1>6, <1>7, <1>8, <1>9, <1>10 DEF Acceptable, packets

\* What is in a packet set is neither a missing nor a torn file.
LEMMA SetOfPackets ==
    ASSUME NEW c \in Capsule, NEW size \in Nat \ {0}, NEW p \in PacketSet(c, size)
    PROVE  p # Torn /\ p # Absent
<1>1. PICK i \in 0 .. TotalOf(c, size) - 1 : p = PacketOf(c, size, i)
  BY DEF PacketSet
<1>2. i \in Nat
  BY Reaches
<1>3. p \in Packet
  BY <1>1, <1>2, PacketOfType
<1> QED
  BY <1>3, ConstantsAssumption

\* The import begins over such a directory ...
LEMMA BeginsClean ==
    ASSUME IInv, NEW c \in Capsule, NEW size \in Nat \ {0}, Readable = PacketSet(c, size),
           StartImport
    PROVE  ReadsAll(c, size)'
<1>1. imp' = Scan("cbor") /\ files' = files
  BY DEF StartImport
<1>2. /\ imp'.pc = "scan" /\ imp'.ext = "cbor" /\ imp'.got = {}
      /\ imp'.todo = {i \in Index : files[<<"cbor", i>>] # Absent}
  BY <1>1 DEF Scan
<1>3. Readable' = Readable /\ \A ext : Of(ext)' = Of(ext)
  BY <1>1 DEF Readable, Of
<1>4. {files[<<"cbor", i>>] : i \in imp'.todo} = Of("cbor")
  BY <1>2 DEF Of
<1>5. CASE Of("cbor") # {}
  BY <1>1, <1>2, <1>3, <1>4, <1>5 DEF ReadsAll, Readable
<1>6. CASE Of("cbor") = {}
  <2>1. imp'.todo = {}
    BY <1>2, <1>4, <1>6
  <2> QED
    BY <1>2, <1>3, <1>6, <2>1 DEF ReadsAll
<1> QED
  BY <1>5, <1>6

\* ... goes on over it ...
LEMMA ReadsOn ==
    ASSUME IInv, NEW c \in Capsule, NEW size \in Nat \ {0}, ReadsAll(c, size),
           NEW i \in Index, ReadEntry(i)
    PROVE  ReadsAll(c, size)'
<1> DEFINE packets == PacketSet(c, size)
           file == files[<<imp.ext, i>>]
<1>1. /\ imp.pc = "scan" /\ i \in imp.todo \union imp.fresh /\ file # Absent
      /\ files' = files
  BY DEF ReadEntry
<1>2. file \in Of(imp.ext)
  BY <1>1 DEF Of
<1>3. /\ Of(imp.ext) \subseteq packets
      /\ imp.got \union {files[<<imp.ext, j>>] : j \in imp.todo} = packets
  BY <1>2 DEF ReadsAll
<1>4. file # Torn
  BY <1>2, <1>3, SetOfPackets
<1>5. imp \in ImportState
  BY DEF IInv, TypeOK
<1>6. imp' = [imp EXCEPT !.got = @ \union {file}, !.todo = @ \ {i}, !.fresh = @ \ {i}]
  BY <1>4 DEF ReadEntry
<1>7. /\ imp'.pc = "scan" /\ imp'.ext = imp.ext
      /\ imp'.got = imp.got \union {file} /\ imp'.todo = imp.todo \ {i}
  BY <1>1, <1>5, <1>6 DEF ImportState
<1>8. Readable' = Readable /\ \A ext : Of(ext)' = Of(ext)
  BY <1>1 DEF Readable, Of
<1>9. imp'.got \union {files[<<imp.ext, j>>] : j \in imp'.todo} = packets
  <2>1. file \in packets
    BY <1>2, <1>3
  <2> HIDE DEF packets
  <2> QED
    BY <1>3, <1>7, <2>1
<1> QED
  BY <1>1, <1>3, <1>7, <1>8, <1>9 DEF ReadsAll

\* ... misses nothing ...
LEMMA MissesNothing ==
    ASSUME NEW c \in Capsule, NEW size \in Nat \ {0}, ReadsAll(c, size),
           NEW i \in Index, MissEntry(i)
    PROVE  FALSE
<1>1. i \in imp.todo /\ files[<<imp.ext, i>>] = Absent
  BY DEF MissEntry
<1>2. Absent \in PacketSet(c, size)
  BY <1>1 DEF ReadsAll
<1> QED
  BY <1>2, SetOfPackets

\* ... and ends with the capsule.
LEMMA EndsRight ==
    ASSUME NEW c \in Capsule, NEW size \in Nat \ {0}, ReadsAll(c, size), EndScan
    PROVE  ReadsAll(c, size)' \/ (imp'.pc = "open" /\ imp'.image = ImageOf[c])
<1> DEFINE packets == PacketSet(c, size)
<1>1. imp.todo = {} /\ files' = files
  BY DEF EndScan
<1>2. packets # {} /\ Acceptable(packets) /\ Assemble(packets) = ImageOf[c]
  BY RoundTrip, CompleteIsAcceptable
<1>3. CASE imp.got = packets
  <2>1. imp' = [NoImport EXCEPT !.pc = "open", !.image = Assemble(packets)]
    BY <1>2, <1>3 DEF EndScan
  <2> QED
    BY <1>2, <2>1 DEF NoImport
<1>4. CASE imp.ext = "cbor" /\ Of("cbor") = {} /\ imp.got = {}
  <2>1. imp' = Scan("json")
    BY <1>4 DEF EndScan
  <2>2. /\ imp'.pc = "scan" /\ imp'.ext = "json" /\ imp'.got = {}
        /\ imp'.todo = {i \in Index : files[<<"json", i>>] # Absent}
    BY <2>1 DEF Scan
  <2>3. Readable' = Readable /\ \A ext : Of(ext)' = Of(ext)
    BY <1>1 DEF Readable, Of
  <2>4. {files[<<"json", i>>] : i \in imp'.todo} = Of("json")
    BY <2>2 DEF Of
  <2>5. Of("json") = packets /\ Readable = packets
    BY <1>4 DEF Readable, ReadsAll
  <2> HIDE DEF packets
  <2>6. imp'.got \union {files[<<"json", i>>] : i \in imp'.todo} = packets
    BY <2>2, <2>4, <2>5
  <2> QED
    BY <1>1, <2>2, <2>3, <2>5, <2>6 DEF ReadsAll, packets
<1>5. imp.got = packets \/ (imp.ext = "cbor" /\ Of("cbor") = {} /\ imp.got = {})
  BY <1>1 DEF ReadsAll
<1> QED
  BY <1>3, <1>4, <1>5

\* An import that begins when the directory holds all packets of one export and no others,
\* and is not disturbed, goes on to write the capsule: for every file, every packet size and
\* every order of the directory (lib.rs, export_qr_packets, import_qr_packets).
THEOREM CompleteAccepted == Spec => CompleteSetAccepted
<1>1. ASSUME IInv, Next, imp' # imp, files' = files, faults' = faults,
             NEW c \in Capsule, NEW size \in PacketSizes \ {0}
      PROVE  /\ imp.pc = "idle" /\ Readable = PacketSet(c, size) => ReadsAll(c, size)'
             /\ ReadsAll(c, size) =>
                   ReadsAll(c, size)' \/ (imp'.pc = "open" /\ imp'.image = ImageOf[c])
  <2>1. size \in Nat \ {0}
    BY ConstantsAssumption
  <2>2. ImporterStep
    <3>1. ~Packing
      BY <1>1 DEF Packing, PackOpen, PackWrite, PackCrash
    <3>2. \A e \in Exporters : ~Exporting(e)
      BY <1>1 DEF Exporting, StartExport, OpenPacket, WritePacket, PngFails, ExportCrash
    <3>3. ~Carrying
      BY <1>1 DEF Carrying, LoseFile, DamageFile, CopyFile
    <3>4. ~ImportCrash
      <4>1. faults \in Nat
        BY <1>1 DEF IInv, TypeOK
      <4> QED
        BY <1>1, <4>1 DEF ImportCrash, Fault
    <3> QED
      BY <1>1, <3>1, <3>2, <3>3, <3>4 DEF Next
  <2>3. ASSUME imp.pc = "idle", Readable = PacketSet(c, size)
        PROVE  ReadsAll(c, size)'
    <3>1. StartImport
      BY <2>2, <2>3 DEF ImporterStep, EndScan, OpenOut, WriteOut, ReadEntry, MissEntry
    <3> QED
      BY <1>1, <2>1, <2>3, <3>1, BeginsClean
  <2>4. ASSUME ReadsAll(c, size)
        PROVE  ReadsAll(c, size)' \/ (imp'.pc = "open" /\ imp'.image = ImageOf[c])
    <3>1. imp.pc = "scan"
      BY <2>4 DEF ReadsAll
    <3>2. EndScan \/ \E i \in Index : ReadEntry(i) \/ MissEntry(i)
      BY <2>2, <3>1 DEF ImporterStep, StartImport, OpenOut, WriteOut
    <3> QED
      BY <1>1, <2>1, <2>4, <3>2, EndsRight, ReadsOn, MissesNothing
  <2> QED
    BY <2>3, <2>4
<1>2. IInv /\ [Next]_vars =>
         [imp' # imp /\ files' = files /\ faults' = faults =>
             \A c \in Capsule, size \in PacketSizes \ {0} :
                 /\ imp.pc = "idle" /\ Readable = PacketSet(c, size) => ReadsAll(c, size)'
                 /\ ReadsAll(c, size) =>
                       ReadsAll(c, size)' \/ (imp'.pc = "open" /\ imp'.image = ImageOf[c])]_vars
  BY <1>1
<1> QED
  BY <1>2, Inductive, PTL DEF Spec, CompleteSetAccepted
=============================================================================
