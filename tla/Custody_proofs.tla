-------------------------- MODULE Custody_proofs --------------------------
(***************************************************************************)
(* The types of Custody, and what its verifications are worth, proved for  *)
(* every set of keys, agents, requests and every number of steps.          *)
(*                                                                         *)
(* The inductive invariant follows every signature back to the record it   *)
(* was made for: whatever lies in a file or in a verifier's hands has been *)
(* put together by others, but its signature is that of a record that was  *)
(* signed, or is missing. All properties follow from it in one state.      *)
(***************************************************************************)
EXTENDS Custody, TLAPS

Record(d) == d = [body |-> d.body, signature |-> d.signature]
Parsed(m) == Record(m) /\ m.body \in Body /\ m.body.limit # Infinite

\* A manifest, or a receipt, whose signature was made for some record
KnownManifest(m) ==
    Parsed(m) /\ (m.signature = None \/ \E n \in manifests : m.signature = n.signature)
KnownReceipt(r) ==
    Record(r) /\ r.body \in ReceiptBody /\ \E c \in receipts : r.signature = c.doc.signature

MadeManifest(m) ==
    Parsed(m) /\ m.signature = Sign(m.signature.key, m.body) /\ m.signature.key \in Key
MadeReceipt(c) ==
    /\ Parsed(c.from)
    /\ c.doc = ReceiptFor(c.from, c.doc.body.status, c.doc.signature.key)
    /\ c.doc.body \in ReceiptBody

ResultRight ==
    /\ KnownManifest(result.m) /\ KnownReceipt(result.r) /\ result.ks \in Key
    /\ result.ok = HandoffHolds(result.m, result.r, result.ks, result.kr)

IInv ==
    /\ \A m \in manifests : MadeManifest(m)
    /\ \A c \in receipts : MadeReceipt(c)
    /\ IsDoc(mfile) => KnownManifest(mfile)
    /\ IsDoc(rfile) => KnownReceipt(rfile)
    /\ sender # None => sender \in manifests
    /\ receiver # None => \E c \in receipts : receiver.doc = c.doc
    /\ verifier # None => IsDoc(verifier) /\ KnownManifest(verifier)
    /\ result # None => ResultRight
    /\ calls \in 0 .. MaxCalls /\ changes \in 0 .. MaxChanges

LEMMA InitOK == Init => IInv
  BY CustodyAssumption DEF Init, IInv, IsDoc

-----------------------------------------------------------------------------
(* What is signed *)

\* What JSON keeps of a manifest is a manifest.
LEMMA JsonType ==
    ASSUME NEW body \in Body
    PROVE  Json(body) \in Body /\ Json(body).limit # Infinite
  <1>1. Infinite # None
    BY CustodyAssumption
  <1>2. CASE body.limit = Infinite
    <2>1. Json(body) = [body EXCEPT !.limit = None]
      BY <1>2 DEF Json
    <2> QED
      BY <1>1, <2>1 DEF Body
  <1>3. CASE body.limit # Infinite
    <2>1. Json(body) = body
      BY <1>3 DEF Json, Body
    <2> QED
      BY <1>3, <2>1
  <1> QED
    BY <1>2, <1>3

LEMMA SignedManifestMade ==
    ASSUME NEW q \in Request
    PROVE  MadeManifest(SignedManifest(q))
  <1>1. q.body \in Body /\ q.key \in Key
    BY CustodyAssumption
  <1>2. SignedManifest(q).body = Json(q.body)
        /\ SignedManifest(q).signature = Sign(q.key, Json(q.body))
        /\ Record(SignedManifest(q))
    BY DEF SignedManifest, Record
  <1>3. Sign(q.key, Json(q.body)).key = q.key
    BY DEF Sign
  <1> QED
    BY <1>1, <1>2, <1>3, JsonType DEF MadeManifest, Parsed

LEMMA ReceiptMade ==
    ASSUME NEW m, Parsed(m), NEW status \in Status, NEW key \in Key
    PROVE  /\ MadeReceipt([doc |-> ReceiptFor(m, status, key), from |-> m])
           /\ Record(ReceiptFor(m, status, key))
  <1> DEFINE d == ReceiptFor(m, status, key)
             c == [doc |-> d, from |-> m]
  <1>1. d.body = [manifest_id |-> m.body.id, receiver |-> m.body.receiver,
                  hash |-> m.body.hash, status |-> status]
        /\ d.signature = Sign(key, d.body) /\ Record(d)
    BY DEF ReceiptFor, Record
  <1>2. d.body.status = status /\ d.signature.key = key
    BY <1>1 DEF Sign
  <1>3. d.body \in ReceiptBody
    BY <1>1 DEF Parsed, Body, ReceiptBody
  <1>4. c.doc = d /\ c.from = m
    OBVIOUS
  <1>5. MadeReceipt(c)
    <2>1. c.doc = ReceiptFor(c.from, c.doc.body.status, c.doc.signature.key)
      BY <1>2, <1>4
    <2> HIDE DEF c, d
    <2> QED
      BY <1>3, <1>4, <2>1 DEF MadeReceipt
  <1> QED
    BY <1>1, <1>5

\* A record that verifies with a key is, as a whole, one that was signed with it.
LEMMA ManifestFound ==
    ASSUME IInv, NEW m, KnownManifest(m), NEW key \in Key, SignedBy(m, key)
    PROVE  m \in manifests /\ m.signature.key = key
  <1>1. m.signature = Sign(key, m.body) /\ Sign(key, m.body) \in [key : Key, over : Body]
    BY DEF SignedBy, Sign, KnownManifest, Parsed
  <1>2. m.signature # None
    BY <1>1, CustodyAssumption
  <1>3. PICK n \in manifests : m.signature = n.signature
    BY <1>2 DEF KnownManifest
  <1>4. MadeManifest(n)
    BY <1>3 DEF IInv
  <1>5. Sign(key, m.body) = Sign(n.signature.key, n.body)
    BY <1>1, <1>3, <1>4 DEF MadeManifest
  <1>6. n.signature.key = key /\ n.body = m.body
    BY <1>5 DEF Sign
  <1>7. m = n
    BY <1>3, <1>4, <1>6 DEF KnownManifest, MadeManifest, Parsed, Record
  <1> QED
    BY <1>6, <1>7

LEMMA ReceiptFound ==
    ASSUME IInv, NEW r, KnownReceipt(r), NEW key, SignedBy(r, key)
    PROVE  \E c \in receipts : c.doc = r /\ c.doc.signature.key = key
  <1>1. PICK c \in receipts : r.signature = c.doc.signature
    BY DEF KnownReceipt
  <1>2. c.doc = ReceiptFor(c.from, c.doc.body.status, c.doc.signature.key)
    BY <1>1 DEF IInv, MadeReceipt
  <1>3. Record(c.doc) /\ c.doc.signature = Sign(c.doc.signature.key, c.doc.body)
    <2>1. ASSUME NEW status, NEW k, NEW d, d = ReceiptFor(c.from, status, k)
          PROVE  Record(d) /\ d.signature = Sign(k, d.body)
      BY <2>1 DEF ReceiptFor, Record
    <2> QED
      BY <1>2, <2>1
  <1>4. Sign(key, r.body) = Sign(c.doc.signature.key, c.doc.body)
    BY <1>1, <1>3 DEF SignedBy
  <1>5. c.doc.signature.key = key /\ c.doc.body = r.body
    BY <1>4 DEF Sign
  <1>6. c.doc = r
    BY <1>1, <1>3, <1>5 DEF KnownReceipt, Record
  <1> QED
    BY <1>5, <1>6

-----------------------------------------------------------------------------
(* The steps *)

\* More records signed: what was known stays known.
LEMMA Grown ==
    ASSUME manifests \subseteq manifests', receipts \subseteq receipts'
    PROVE  /\ \A m : KnownManifest(m) => KnownManifest(m)'
           /\ \A r : KnownReceipt(r) => KnownReceipt(r)'
           /\ ResultRight /\ UNCHANGED result => ResultRight'
  <1>1. \A m : KnownManifest(m) => KnownManifest(m)'
    BY DEF KnownManifest
  <1>2. \A r : KnownReceipt(r) => KnownReceipt(r)'
    BY DEF KnownReceipt
  <1>3. ResultRight /\ UNCHANGED result => ResultRight'
    BY <1>1, <1>2 DEF ResultRight
  <1> QED
    BY <1>1, <1>2, <1>3

LEMMA CreateManifestOK ==
    ASSUME IInv, NEW q \in Request, CreateManifest(q)
    PROVE  IInv'
  <1>1. MadeManifest(SignedManifest(q))
    BY SignedManifestMade
  <1>2. calls' \in 0 .. MaxCalls
    BY CustodyAssumption DEF CreateManifest, IInv
  <1>3. ~IsDoc(mfile)'
    BY DEF CreateManifest, IsDoc
  <1> QED
    BY <1>1, <1>2, <1>3, Grown DEF CreateManifest, IInv, IsDoc

LEMMA CreateTransferOK ==
    ASSUME IInv, NEW q \in Request, CreateTransfer(q)
    PROVE  IInv'
  <1>1. MadeManifest(SignedManifest(q))
    BY SignedManifestMade
  <1>2. calls' \in 0 .. MaxCalls
    BY CustodyAssumption DEF CreateTransfer, IInv
  <1> QED
    BY <1>1, <1>2, Grown DEF CreateTransfer, files, agents, IInv, IsDoc

LEMMA WriteManifestOK ==
    ASSUME IInv, WriteManifest
    PROVE  IInv'
  <1>1. sender \in manifests /\ MadeManifest(sender)
    BY DEF WriteManifest, IInv
  <1>2. KnownManifest(sender)
    BY <1>1 DEF MadeManifest, KnownManifest
  <1> QED
    BY <1>2, Grown DEF WriteManifest, IInv, IsDoc

LEMMA CreateReceiptOK ==
    ASSUME IInv, NEW status \in Status, NEW key \in Key, CreateReceipt(status, key)
    PROVE  IInv'
  <1> DEFINE d == ReceiptFor(mfile, status, key)
             c == [doc |-> d, from |-> mfile]
  <1>1. Parsed(mfile)
    BY DEF CreateReceipt, IInv, KnownManifest
  <1>2. MadeReceipt(c) /\ c.doc = d
    BY <1>1, ReceiptMade
  <1>3. receiver' = Held(FALSE, d) /\ receipts' = receipts \union {c}
    BY DEF CreateReceipt
  <1>4. calls' \in 0 .. MaxCalls
    BY CustodyAssumption DEF CreateReceipt, IInv
  <1> HIDE DEF c, d
  <1>5. receiver'.doc = d /\ c \in receipts'
    BY <1>3 DEF Held
  <1> QED
    BY <1>2, <1>3, <1>4, <1>5, Grown DEF CreateReceipt, files, IInv, IsDoc

LEMMA OpenReceiptOK ==
    ASSUME IInv, OpenReceipt
    PROVE  IInv'
  <1>1. ~IsDoc(rfile)' /\ receiver'.doc = receiver.doc
    BY DEF OpenReceipt, IsDoc, Held
  <1> QED
    BY <1>1, Grown DEF OpenReceipt, IInv, IsDoc

LEMMA WriteReceiptOK ==
    ASSUME IInv, WriteReceipt
    PROVE  IInv'
  <1>1. PICK c \in receipts : receiver.doc = c.doc
    BY DEF WriteReceipt, IInv
  <1>2. Parsed(c.from) /\ c.doc.body \in ReceiptBody
        /\ c.doc = ReceiptFor(c.from, c.doc.body.status, c.doc.signature.key)
    BY <1>1 DEF IInv, MadeReceipt
  <1>3. Record(c.doc)
    BY <1>2 DEF ReceiptFor, Record
  <1>4. KnownReceipt(receiver.doc)
    BY <1>1, <1>2, <1>3 DEF KnownReceipt
  <1> QED
    BY <1>4, Grown DEF WriteReceipt, IInv, IsDoc

LEMMA ReadManifestOK ==
    ASSUME IInv, ReadManifest
    PROVE  IInv'
  BY Grown DEF ReadManifest, files, IInv, IsDoc

LEMMA VerifiedOK ==
    ASSUME NEW m, NEW r, NEW ks \in Key, NEW kr, Verified(m, r, ks, kr),
           KnownManifest(m)', KnownReceipt(r)'
    PROVE  ResultRight'
  <1>1. ASSUME NEW ok, ok = HandoffHolds(m, r, ks, kr),
               result' = [m |-> m, r |-> r, ks |-> ks, kr |-> kr, ok |-> ok]
        PROVE  ResultRight'
    <2>1. result'.m = m /\ result'.r = r /\ result'.ks = ks /\ result'.kr = kr
          /\ result'.ok = ok
      BY <1>1
    <2> QED
      BY <1>1, <2>1 DEF ResultRight
  <1> QED
    BY <1>1 DEF Verified

LEMMA ReadReceiptOK ==
    ASSUME IInv, NEW ks \in Key, NEW kr \in Key, ReadReceipt(ks, kr)
    PROVE  IInv'
  <1>1. PICK m, r : m = verifier /\ r = rfile
    OBVIOUS
  <1>2. UNCHANGED <<manifests, receipts>>
    BY DEF ReadReceipt
  <1>3. KnownManifest(m)' /\ (IsDoc(r) => KnownReceipt(r)')
    <2>1. KnownManifest(m) /\ (IsDoc(r) => KnownReceipt(r))
      BY <1>1 DEF ReadReceipt, IInv
    <2> QED
      BY <1>2, <2>1, Grown
  <1>4. result' # None => ResultRight'
    <2>1. CASE IsDoc(rfile)
      <3>1. Verified(m, r, ks, kr)
        BY <1>1, <2>1 DEF ReadReceipt
      <3> QED
        BY <1>1, <1>3, <2>1, <3>1, VerifiedOK
    <2>2. CASE ~IsDoc(rfile)
      BY <2>2, Grown DEF ReadReceipt, IInv
    <2> QED
      BY <2>1, <2>2
  <1> QED
    BY <1>4, Grown DEF ReadReceipt, files, IInv, IsDoc

LEMMA VerifyTransferOK ==
    ASSUME IInv, NEW m \in manifests, NEW c \in receipts, NEW ks \in Key, NEW kr \in Key,
           VerifyTransfer(m, c.doc, ks, kr)
    PROVE  IInv'
  <1>1. KnownManifest(m)
    BY DEF IInv, MadeManifest, KnownManifest
  <1>2. c.doc = ReceiptFor(c.from, c.doc.body.status, c.doc.signature.key)
        /\ c.doc.body \in ReceiptBody
    BY DEF IInv, MadeReceipt
  <1>3. Record(c.doc)
    BY <1>2 DEF ReceiptFor, Record
  <1>4. KnownReceipt(c.doc)
    BY <1>2, <1>3 DEF KnownReceipt
  <1>5. UNCHANGED <<manifests, receipts>>
    BY DEF VerifyTransfer
  <1>6. KnownManifest(m)' /\ KnownReceipt(c.doc)'
    BY <1>1, <1>4, <1>5 DEF KnownManifest, KnownReceipt
  <1>7. ResultRight'
    BY <1>6, VerifiedOK DEF VerifyTransfer
  <1> QED
    BY <1>7, Grown DEF VerifyTransfer, files, agents, IInv, IsDoc

LEMMA AlterManifestOK ==
    ASSUME IInv, AlterManifest
    PROVE  IInv'
  <1>1. KnownManifest(mfile) /\ mfile = [body |-> mfile.body, signature |-> mfile.signature]
    BY DEF AlterManifest, IInv, KnownManifest, Parsed, Record
  <1>2. KnownManifest(mfile')
    <2>1. CASE mfile' = [mfile EXCEPT !.signature = None]
      <3>1. mfile' = [body |-> mfile.body, signature |-> None]
        BY <1>1, <2>1
      <3> QED
        BY <1>1, <3>1 DEF KnownManifest, Parsed, Record
    <2>2. ASSUME NEW b \in Body, b.limit # Infinite,
                 mfile' = [body |-> b, signature |-> mfile.signature]
          PROVE  KnownManifest(mfile')
      BY <1>1, <2>2 DEF KnownManifest, Parsed, Record
    <2>3. ASSUME NEW m \in manifests, mfile' = [mfile EXCEPT !.body.hash = m.body.hash]
          PROVE  KnownManifest(mfile')
      <3> DEFINE b == [mfile.body EXCEPT !.hash = m.body.hash]
      <3>1. mfile' = [body |-> b, signature |-> mfile.signature]
        BY <1>1, <2>3
      <3>2. b \in Body /\ b.limit # Infinite
        BY <1>1 DEF KnownManifest, Parsed, IInv, MadeManifest, Body
      <3> QED
        BY <2>2, <3>1, <3>2
    <2>4. ASSUME NEW m \in manifests, mfile' = [mfile EXCEPT !.body.terms = m.body.terms]
          PROVE  KnownManifest(mfile')
      <3> DEFINE b == [mfile.body EXCEPT !.terms = m.body.terms]
      <3>1. mfile' = [body |-> b, signature |-> mfile.signature]
        BY <1>1, <2>4
      <3>2. b \in Body /\ b.limit # Infinite
        BY <1>1 DEF KnownManifest, Parsed, IInv, MadeManifest, Body
      <3> QED
        BY <2>2, <3>1, <3>2
    <2>5. ASSUME NEW m \in manifests, mfile' = [mfile EXCEPT !.body.id = m.body.id]
          PROVE  KnownManifest(mfile')
      <3> DEFINE b == [mfile.body EXCEPT !.id = m.body.id]
      <3>1. mfile' = [body |-> b, signature |-> mfile.signature]
        BY <1>1, <2>5
      <3>2. b \in Body /\ b.limit # Infinite
        BY <1>1 DEF KnownManifest, Parsed, IInv, MadeManifest, Body
      <3> QED
        BY <2>2, <3>1, <3>2
    <2> QED
      BY <2>1, <2>3, <2>4, <2>5 DEF AlterManifest
  <1>3. changes' \in 0 .. MaxChanges
    BY CustodyAssumption DEF AlterManifest, IInv
  <1>4. KnownManifest(mfile)'
    BY <1>2 DEF AlterManifest, KnownManifest
  <1> QED
    BY <1>3, <1>4, Grown DEF AlterManifest, agents, IInv, IsDoc

LEMMA AlterReceiptOK ==
    ASSUME IInv, AlterReceipt
    PROVE  IInv'
  <1>1. KnownReceipt(rfile) /\ rfile = [body |-> rfile.body, signature |-> rfile.signature]
    BY DEF AlterReceipt, IInv, KnownReceipt, Record
  <1>2. KnownReceipt(rfile')
    <2>1. ASSUME NEW b \in ReceiptBody, rfile' = [body |-> b, signature |-> rfile.signature]
          PROVE  KnownReceipt(rfile')
      BY <1>1, <2>1 DEF KnownReceipt, Record
    <2>2. ASSUME NEW status \in Status, rfile' = [rfile EXCEPT !.body.status = status]
          PROVE  KnownReceipt(rfile')
      <3> DEFINE b == [rfile.body EXCEPT !.status = status]
      <3>1. rfile' = [body |-> b, signature |-> rfile.signature]
        BY <1>1, <2>2
      <3>2. b \in ReceiptBody
        BY <1>1 DEF KnownReceipt, ReceiptBody
      <3> QED
        BY <2>1, <3>1, <3>2
    <2>3. ASSUME NEW m \in manifests,
                 rfile' = [rfile EXCEPT !.body.manifest_id = m.body.id,
                                        !.body.hash = m.body.hash]
          PROVE  KnownReceipt(rfile')
      <3> DEFINE b == [rfile.body EXCEPT !.manifest_id = m.body.id, !.hash = m.body.hash]
      <3>1. rfile' = [body |-> b, signature |-> rfile.signature]
        BY <1>1, <2>3
      <3>2. b \in ReceiptBody
        <4>1. m.body \in Body /\ rfile.body \in ReceiptBody
          BY <1>1 DEF KnownReceipt, IInv, MadeManifest, Parsed
        <4> QED
          BY <4>1 DEF Body, ReceiptBody
      <3> QED
        BY <2>1, <3>1, <3>2
    <2> QED
      BY <2>2, <2>3 DEF AlterReceipt
  <1>3. changes' \in 0 .. MaxChanges
    <2>1. changes' = changes + 1 /\ changes < MaxChanges
      BY DEF AlterReceipt
    <2>2. changes \in 0 .. MaxChanges /\ MaxChanges \in Nat
      BY CustodyAssumption DEF IInv
    <2> QED
      BY <2>1, <2>2
  <1>4. KnownReceipt(rfile)'
    BY <1>2 DEF AlterReceipt, KnownReceipt
  <1> QED
    BY <1>3, <1>4, Grown DEF AlterReceipt, agents, IInv, IsDoc

LEMMA CrashOK ==
    ASSUME IInv, Crash
    PROVE  IInv'
  <1>1. changes' \in 0 .. MaxChanges
    BY CustodyAssumption DEF Crash, IInv
  <1> QED
    BY <1>1, Grown DEF Crash, files, IInv, IsDoc

LEMMA Invariance == Spec => []IInv
  <1>1. ASSUME IInv, [Next]_vars PROVE IInv'
    <2>1. CASE UNCHANGED vars
      BY <1>1, <2>1, Grown DEF vars, IInv, IsDoc
    <2>2. CASE Next
      BY <1>1, <2>2, CreateManifestOK, CreateTransferOK, WriteManifestOK, CreateReceiptOK,
         OpenReceiptOK, WriteReceiptOK, ReadManifestOK, ReadReceiptOK, VerifyTransferOK,
         AlterManifestOK, AlterReceiptOK, CrashOK DEF Next
    <2> QED
      BY <1>1, <2>1, <2>2
  <1> QED
    BY <1>1, InitOK, PTL DEF Spec

-----------------------------------------------------------------------------
(* The theorems *)

\* The types of Custody: whoever holds a record holds one that parsed, and none of them
\* has a limit that JSON cannot hold.
THEOREM TypeCorrect == Spec => []TypeOK
  <1>1. IInv => TypeOK
    <2> SUFFICES ASSUME IInv PROVE TypeOK
      OBVIOUS
    <2>1. ASSUME NEW d, Record(d) PROVE DOMAIN d = {"body", "signature"}
      BY <2>1 DEF Record
    <2>2. ASSUME NEW m, Parsed(m) PROVE ManifestOK(m)
      BY <2>1, <2>2 DEF Parsed, ManifestOK
    <2>3. ASSUME NEW c \in receipts PROVE Parsed(c.from) /\ ReceiptOK(c.doc)
      <3>1. c.doc = ReceiptFor(c.from, c.doc.body.status, c.doc.signature.key)
            /\ c.doc.body \in ReceiptBody /\ Parsed(c.from)
        BY DEF IInv, MadeReceipt
      <3>2. Record(c.doc)
        BY <3>1 DEF ReceiptFor, Record
      <3> QED
        BY <2>1, <3>1, <3>2 DEF ReceiptOK
    <2>4. \A m \in manifests : ManifestOK(m)
      BY <2>2 DEF IInv, MadeManifest
    <2>5. /\ IsDoc(mfile) => ManifestOK(mfile)
          /\ verifier # None => IsDoc(verifier) /\ ManifestOK(verifier)
      BY <2>2 DEF IInv, KnownManifest
    <2>6. IsDoc(rfile) => ReceiptOK(rfile)
      BY <2>1 DEF IInv, KnownReceipt, ReceiptOK
    <2>7. receiver # None => ReceiptOK(receiver.doc)
      BY <2>3 DEF IInv
    <2> QED
      BY <2>2, <2>3, <2>4, <2>5, <2>6, <2>7 DEF IInv, TypeOK
  <1> QED
    BY <1>1, Invariance, PTL

\* What a verification that succeeds has before it
LEMMA Bilateral ==
    ASSUME IInv, result # None, result.ok
    PROVE  /\ result.m \in manifests /\ result.m.signature.key = result.ks
           /\ SignedBy(result.m, result.ks)
           /\ \E c \in receipts : c.doc = result.r /\ c.doc.signature.key = result.kr
           /\ result.r.body = [manifest_id |-> result.m.body.id,
                               receiver |-> result.m.body.receiver,
                               hash |-> result.m.body.hash, status |-> "accepted"]
  <1>1. HandoffHolds(result.m, result.r, result.ks, result.kr)
        /\ KnownManifest(result.m) /\ KnownReceipt(result.r) /\ result.ks \in Key
    BY DEF IInv, ResultRight
  <1>2. /\ SignedBy(result.m, result.ks) /\ SignedBy(result.r, result.kr)
        /\ result.r.body.manifest_id = result.m.body.id
        /\ result.r.body.receiver = result.m.body.receiver
        /\ result.r.body.hash = result.m.body.hash /\ result.r.body.status = "accepted"
    BY <1>1 DEF HandoffHolds
  <1>3. result.m \in manifests /\ result.m.signature.key = result.ks
    BY <1>1, <1>2, ManifestFound
  <1>4. \E c \in receipts : c.doc = result.r /\ c.doc.signature.key = result.kr
    BY <1>1, <1>2, ReceiptFound
  <1>5. result.r.body \in ReceiptBody
    BY <1>1 DEF KnownReceipt
  <1> QED
    BY <1>2, <1>3, <1>4, <1>5 DEF ReceiptBody

\* A handoff that verifies is one that both sides signed, each the whole of what the
\* verifier has before it (a2a.rs, verify_complete_custody_handoff).
THEOREM BothSigned == Spec => []HandoffIsBilateral
  <1>1. IInv => HandoffIsBilateral
    BY Bilateral DEF HandoffIsBilateral
  <1> QED
    BY <1>1, Invariance, PTL

\* It is a handoff of the very manifest the receipt was made for, as long as the
\* sender's key signs no id twice.
THEOREM ForThisManifest == Spec => []ReceiptForThisManifest
  <1>1. IInv => ReceiptForThisManifest
    <2> SUFFICES ASSUME IInv, result # None, result.ok, IdsUnique(result.ks),
                        NEW c \in receipts, c.doc = result.r,
                        SignedBy(c.from, result.ks), c.from \in manifests
                 PROVE  c.from = result.m
      BY DEF ReceiptForThisManifest
    <2>1. c.doc = ReceiptFor(c.from, c.doc.body.status, c.doc.signature.key)
      BY DEF IInv, MadeReceipt
    <2>2. c.doc.body.manifest_id = c.from.body.id
      BY <2>1 DEF ReceiptFor
    <2>3. result.m \in manifests /\ result.m.signature.key = result.ks
          /\ result.r.body.manifest_id = result.m.body.id
      BY Bilateral
    <2>4. c.from.signature.key = result.ks
      BY DEF SignedBy, Sign
    <2> QED
      BY <2>2, <2>3, <2>4 DEF IdsUnique
  <1> QED
    BY <1>1, Invariance, PTL

\* A manifest as it was signed and a receipt that was made from it and accepts verify
\* with the keys they were signed with.
THEOREM HonestVerifies == Spec => []HonestHandoffVerifies
  <1>1. IInv => HonestHandoffVerifies
    <2> SUFFICES ASSUME IInv, result # None, NEW c \in receipts,
                        c.doc = result.r, c.from = result.m,
                        c.doc.body.status = "accepted", result.m \in manifests,
                        result.ks = result.m.signature.key,
                        result.kr = result.r.signature.key
                 PROVE  result.ok
      BY DEF HonestHandoffVerifies
    <2>1. c.doc = ReceiptFor(c.from, c.doc.body.status, c.doc.signature.key)
      BY DEF IInv, MadeReceipt
    <2>2. ASSUME NEW status, NEW k, NEW d, d = ReceiptFor(c.from, status, k)
          PROVE  /\ d.signature = Sign(k, d.body) /\ d.body.manifest_id = c.from.body.id
                 /\ d.body.receiver = c.from.body.receiver /\ d.body.hash = c.from.body.hash
      BY <2>2 DEF ReceiptFor
    <2>3. SignedBy(result.m, result.ks)
      BY DEF IInv, MadeManifest, SignedBy
    <2>4. HandoffHolds(result.m, result.r, result.ks, result.kr)
      BY <2>1, <2>2, <2>3 DEF HandoffHolds, SignedBy
    <2> QED
      BY <2>4 DEF IInv, ResultRight
  <1> QED
    BY <1>1, Invariance, PTL
=============================================================================
