---------------------------- MODULE Labels_proofs ----------------------------
(***************************************************************************)
(* What holds of Labels for all values of its constants: the types, that   *)
(* what a verifier calls valid was made, whole, with the key it trusts and *)
(* has not outlived what its maker was asked for, that what was made is    *)
(* usable, and that one misread digit of a product code is found out.      *)
(***************************************************************************)
EXTENDS Labels, FiniteSetTheorems, WellFoundedInduction, TLAPS

\* A label's line is what its maker signed, with the time that fits into the number.
LabelOK(l) ==
    /\ l.until \in Nat
    /\ l.line.kind \in Kind
    /\ l.made \in {"retail", "gs1", "esl"} => l.trust \in Trust
    /\ l.line.kind = "link" =>
          /\ l.line = [kind |-> "link", at |-> l.line.at, env |-> l.line.env, more |-> l.line.more]
          /\ l.line.env = Envelope(l.trust, l.line.env.payload)
          /\ l.line.env.payload.expires_at = l.until % Wide /\ l.line.env.payload.sku # None
    /\ l.line.kind = "esl" =>
          /\ l.line = [kind |-> "esl", packet |-> l.line.packet]
          /\ l.line.packet = Packet(l.trust.key, l.line.packet.data)
          /\ l.line.packet.data.expires_at = l.until % Narrow
    /\ l.line.kind = "code" => l.line = [kind |-> "code", code |-> l.line.code]

\* Whatever happens to a line, a signature in it is that of some label.
EnvelopeKnown(env) ==
    env # Garbled =>
        \E k \in labels :
            /\ k.line.kind = "link"
            /\ env = [header |-> env.header, payload |-> env.payload,
                      signature |-> k.line.env.signature]
PacketKnown(packet) ==
    packet # Garbled =>
        \E k \in labels :
            /\ k.line.kind = "esl"
            /\ packet = [data |-> packet.data, signature |-> k.line.packet.signature]
LineOK ==
    /\ line.kind \in Kind
    /\ line.kind = "link" =>
          /\ line = [kind |-> "link", at |-> line.at, env |-> line.env, more |-> line.more]
          /\ EnvelopeKnown(line.env)
    /\ line.kind = "esl" =>
          line = [kind |-> "esl", packet |-> line.packet] /\ PacketKnown(line.packet)
    /\ line.kind = "code" => line = [kind |-> "code", code |-> line.code]

\* The inductive invariant
IInv ==
    /\ \A l \in labels : LabelOK(l)
    /\ label \in labels \union {NoLabel}
    /\ LineOK
    /\ changes \in 0 .. MaxChanges /\ clock \in Nat
    /\ answer.verdict \in Verdict
    /\ answer.by \notin {"nobody", "daemon"} => answer.trust \in Trust

\* The remainder of a number is no larger than the number.
LEMMA Remainder ==
    ASSUME NEW n \in Nat, NEW w \in Nat \ {0}
    PROVE  n % w \in 0 .. w - 1 /\ n % w <= n /\ 0 % w = 0
  OBVIOUS

LEMMA InitOK == Init => IInv
  BY LabelsAssumption
     DEF Init, IInv, NoLabel, NoLine, NoAnswer, LineOK, Kind, Verdict

-----------------------------------------------------------------------------
(* Making *)

\* A label that is made right keeps the invariant.
LEMMA MadeOK ==
    ASSUME IInv, NEW made, NEW trust, NEW until, NEW l, NEW price, NEW address,
           Made(made, trust, until, l, price, address),
           LabelOK([made |-> made, trust |-> trust, until |-> until, line |-> l, price |-> price,
                    address |-> address])
    PROVE  IInv'
  <1> DEFINE new == [made |-> made, trust |-> trust, until |-> until, line |-> l, price |-> price,
                     address |-> address]
  <1>1. /\ labels' = labels \union {new} /\ answer' = NoAnswer
        /\ UNCHANGED <<label, line, changes, clock>>
    BY DEF Made
  <1>2. LabelOK(new)
    OBVIOUS
  <1> HIDE DEF new
  <1>3. \A k \in labels' : LabelOK(k)'
    BY <1>1, <1>2 DEF IInv, LabelOK
  <1>4. LineOK'
    BY <1>1 DEF IInv, LineOK, EnvelopeKnown, PacketKnown
  <1> QED
    BY <1>1, <1>3, <1>4 DEF IInv, NoAnswer, Verdict

LEMMA Expiry ==
    ASSUME IInv, NEW wait \in 0 .. Wide - 1
    PROVE  Until(wait) \in Nat /\ ExpiresAt(wait) = Until(wait) % Wide
  <1>1. clock \in Nat /\ Wide \in Nat \ {0} /\ wait \in Nat
    BY LabelsAssumption DEF IInv
  <1>2. 0 % Wide = 0
    BY <1>1, Remainder
  <1> QED
    BY <1>1, <1>2 DEF Until, ExpiresAt

LEMMA PackRetailOK ==
    ASSUME IInv, NEW r \in RetailRequest, PackRetail(r)
    PROVE  IInv'
  <1> DEFINE payload == [sku |-> r.sku, upc |-> r.upc, role |-> r.role,
                         expires_at |-> ExpiresAt(r.wait)]
             l == Link(RetailAt(r.base), Envelope(r.trust, payload))
  <1>1. r.trust \in Trust /\ r.wait \in 0 .. Wide - 1
    BY LabelsAssumption
  <1>2. Made("retail", r.trust, Until(r.wait), l, 0, r.base.address)
    BY DEF PackRetail
  <1>3. LabelOK([made |-> "retail", trust |-> r.trust, until |-> Until(r.wait), line |-> l,
                 price |-> 0, address |-> r.base.address])
    BY <1>1, Expiry, LabelsAssumption DEF LabelOK, Link, Envelope, Kind
  <1> QED
    BY <1>2, <1>3, MadeOK

LEMMA PackGs1OK ==
    ASSUME IInv, NEW r \in Gs1Request, PackGs1(r)
    PROVE  IInv'
  <1> DEFINE payload == [sku |-> r.sku, upc |-> r.gtin, role |-> None,
                         expires_at |-> ExpiresAt(r.wait)]
             l == Link(Gs1At(r), Envelope(r.trust, payload))
  <1>1. r.trust \in Trust /\ r.wait \in 0 .. Wide - 1
    BY LabelsAssumption
  <1>2. Made("gs1", r.trust, Until(r.wait), l, 0, r.address)
    BY DEF PackGs1
  <1>3. LabelOK([made |-> "gs1", trust |-> r.trust, until |-> Until(r.wait), line |-> l,
                 price |-> 0, address |-> r.address])
    BY <1>1, Expiry, LabelsAssumption DEF LabelOK, Link, Envelope, Kind
  <1> QED
    BY <1>2, <1>3, MadeOK

LEMMA MakeEslOK ==
    ASSUME IInv, NEW r \in EslRequest, MakeEsl(r)
    PROVE  IInv'
  <1> DEFINE l == EslLine(Packet(r.trust.key, [price |-> Narrowed(r.price),
                                               expires_at |-> Narrowed(r.until)]))
  <1>1. r.trust \in Trust /\ r.until \in Nat
    BY LabelsAssumption
  <1>2. Made("esl", r.trust, r.until, l, r.price, "plain")
    BY DEF MakeEsl
  <1>3. LabelOK([made |-> "esl", trust |-> r.trust, until |-> r.until, line |-> l,
                 price |-> r.price, address |-> "plain"])
    BY <1>1 DEF LabelOK, EslLine, Packet, Narrowed, Kind
  <1> QED
    BY <1>2, <1>3, MadeOK

LEMMA PrintCodeOK ==
    ASSUME IInv, NEW c \in Code, PrintCode(c)
    PROVE  IInv'
  <1>1. LabelOK([made |-> "code", trust |-> None, until |-> 0, line |-> CodeLine(c), price |-> 0,
                 address |-> "plain"])
    BY DEF LabelOK, CodeLine, Kind
  <1> QED
    BY <1>1, MadeOK DEF PrintCode

-----------------------------------------------------------------------------
(* The way *)

LEMMA ShowOK ==
    ASSUME IInv, NEW l \in labels, Show(l)
    PROVE  IInv'
  <1>1. /\ label' = l /\ line' = l.line /\ changes' = 0 /\ answer' = NoAnswer
        /\ UNCHANGED <<labels, clock>>
    BY DEF Show
  <1>2. LabelOK(l)
    BY DEF IInv
  <1>3. LineOK'
    <2>1. line'.kind \in Kind
      BY <1>1, <1>2 DEF LabelOK
    <2>2. CASE l.line.kind = "link"
      <3>1. l.line.env = [header |-> l.line.env.header, payload |-> l.line.env.payload,
                          signature |-> l.line.env.signature]
        BY <1>2, <2>2 DEF LabelOK, Envelope
      <3> QED
        BY <1>1, <1>2, <2>1, <2>2, <3>1 DEF LineOK, EnvelopeKnown, LabelOK
    <2>3. CASE l.line.kind = "esl"
      <3>1. l.line.packet = [data |-> l.line.packet.data, signature |-> l.line.packet.signature]
        BY <1>2, <2>3 DEF LabelOK, Packet
      <3> QED
        BY <1>1, <1>2, <2>1, <2>3, <3>1 DEF LineOK, PacketKnown, LabelOK
    <2>4. CASE l.line.kind = "none"
      BY <1>1, <2>4, <2>1 DEF LineOK
    <2>5. CASE l.line.kind = "code"
      BY <1>1, <2>1, <2>5, <1>2 DEF LineOK, LabelOK
    <2> QED
      BY <1>2, <2>2, <2>3, <2>4, <2>5 DEF LabelOK, Kind
  <1> QED
    BY <1>1, <1>3, LabelsAssumption DEF IInv, NoAnswer, Verdict, LabelOK

\* A change that leaves a line whose signature is known keeps the invariant.
LEMMA ChangeOK ==
    ASSUME IInv, NEW l, Change(l), LineOK'
    PROVE  IInv'
  BY LabelsAssumption DEF IInv, Change, NoAnswer, Verdict, LabelOK

LEMMA MisreadOK ==
    ASSUME IInv, NEW i, NEW d, Misread(i, d)
    PROVE  IInv'
  <1>1. CASE /\ line.kind = "code"
             /\ Change([line EXCEPT !.code[i] = d])
    <2>1. line = [kind |-> "code", code |-> line.code]
      BY <1>1 DEF IInv, LineOK
    <2>2. line' = [kind |-> "code", code |-> [line.code EXCEPT ![i] = d]]
      BY <1>1, <2>1 DEF Change
    <2>3. LineOK'
      BY <2>2 DEF LineOK, Kind
    <2> QED
      BY <1>1, <2>3, ChangeOK
  <1>2. CASE /\ line.kind = "link"
             /\ Change([line EXCEPT !.at.gtin[i] = d])
    <2>1. /\ line = [kind |-> "link", at |-> line.at, env |-> line.env, more |-> line.more]
          /\ EnvelopeKnown(line.env)
      BY <1>2 DEF IInv, LineOK
    <2>2. line' = [kind |-> "link", at |-> [line.at EXCEPT !.gtin[i] = d], env |-> line.env,
                   more |-> line.more]
      BY <1>2, <2>1 DEF Change
    <2>3. labels' = labels
      BY <1>2 DEF Change
    <2>4. LineOK'
      BY <2>1, <2>2, <2>3 DEF LineOK, Kind, EnvelopeKnown
    <2> QED
      BY <1>2, <2>4, ChangeOK
  <1> QED
    BY <1>1, <1>2 DEF Misread

\* Putting an envelope into a link
LEMMA NewEnvelope ==
    ASSUME IInv, line.kind = "link", NEW e, EnvelopeKnown(e), Change([line EXCEPT !.env = e])
    PROVE  IInv'
  <1>1. line = [kind |-> "link", at |-> line.at, env |-> line.env, more |-> line.more]
    BY DEF IInv, LineOK
  <1>2. line' = [kind |-> "link", at |-> line.at, env |-> e, more |-> line.more]
    BY <1>1 DEF Change
  <1>3. labels' = labels
    BY DEF Change
  <1>4. LineOK'
    BY <1>2, <1>3 DEF LineOK, Kind, EnvelopeKnown
  <1> QED
    BY <1>4, ChangeOK

LEMMA ChangeLinkOK ==
    ASSUME IInv, ChangeLink
    PROVE  IInv'
  <1>1. /\ line.kind = "link" /\ line.env # Garbled
        /\ line = [kind |-> "link", at |-> line.at, env |-> line.env, more |-> line.more]
        /\ EnvelopeKnown(line.env)
    BY DEF ChangeLink, IInv, LineOK
  <1>2. PICK k \in labels :
            /\ k.line.kind = "link"
            /\ line.env = [header |-> line.env.header, payload |-> line.env.payload,
                           signature |-> k.line.env.signature]
    BY <1>1 DEF EnvelopeKnown
  <1>3. CASE Change([line EXCEPT !.env = Garbled])
    BY <1>1, <1>3, NewEnvelope DEF EnvelopeKnown
  <1>4. ASSUME NEW l \in labels, l.line.kind = "link",
               \/ Change([line EXCEPT !.env = l.line.env])
               \/ Change([line EXCEPT !.env.header = l.line.env.header])
               \/ Change([line EXCEPT !.env.payload = l.line.env.payload])
               \/ Change([line EXCEPT !.env.payload.role = l.line.env.payload.role])
        PROVE  IInv'
    <2>1. CASE Change([line EXCEPT !.env = l.line.env])
      <3>0. l.line.env = Envelope(l.trust, l.line.env.payload)
        BY <1>4 DEF IInv, LabelOK
      <3>1. l.line.env = [header |-> l.line.env.header, payload |-> l.line.env.payload,
                          signature |-> l.line.env.signature]
        BY <3>0 DEF Envelope
      <3>2. EnvelopeKnown(l.line.env)
        BY <1>4, <3>1 DEF EnvelopeKnown
      <3> QED
        BY <1>1, <2>1, <3>2, NewEnvelope
    <2>2. CASE Change([line EXCEPT !.env.header = l.line.env.header])
      <3> DEFINE e == [line.env EXCEPT !.header = l.line.env.header]
      <3>1. e = [header |-> l.line.env.header, payload |-> line.env.payload,
                 signature |-> k.line.env.signature]
        BY <1>2
      <3>2. EnvelopeKnown(e)
        BY <1>2, <3>1 DEF EnvelopeKnown
      <3>3. [line EXCEPT !.env.header = l.line.env.header] = [line EXCEPT !.env = e]
        BY <1>1
      <3> QED
        BY <1>1, <2>2, <3>2, <3>3, NewEnvelope
    <2>3. CASE Change([line EXCEPT !.env.payload = l.line.env.payload])
      <3> DEFINE e == [line.env EXCEPT !.payload = l.line.env.payload]
      <3>1. e = [header |-> line.env.header, payload |-> l.line.env.payload,
                 signature |-> k.line.env.signature]
        BY <1>2
      <3>2. EnvelopeKnown(e)
        BY <1>2, <3>1 DEF EnvelopeKnown
      <3>3. [line EXCEPT !.env.payload = l.line.env.payload] = [line EXCEPT !.env = e]
        BY <1>1
      <3> QED
        BY <1>1, <2>3, <3>2, <3>3, NewEnvelope
    <2>4. CASE Change([line EXCEPT !.env.payload.role = l.line.env.payload.role])
      <3> DEFINE p == [line.env.payload EXCEPT !.role = l.line.env.payload.role]
                 e == [line.env EXCEPT !.payload = p]
      <3>1. e = [header |-> line.env.header, payload |-> p, signature |-> k.line.env.signature]
        BY <1>2
      <3>2. EnvelopeKnown(e)
        BY <1>2, <3>1 DEF EnvelopeKnown
      <3>3. [line EXCEPT !.env.payload.role = l.line.env.payload.role] = [line EXCEPT !.env = e]
        BY <1>1
      <3> QED
        BY <1>1, <2>4, <3>2, <3>3, NewEnvelope
    <2> QED
      BY <1>4, <2>1, <2>2, <2>3, <2>4
  <1> QED
    BY <1>3, <1>4 DEF ChangeLink

LEMMA AppendParameterOK ==
    ASSUME IInv, AppendParameter
    PROVE  IInv'
  <1>1. /\ line = [kind |-> "link", at |-> line.at, env |-> line.env, more |-> line.more]
        /\ EnvelopeKnown(line.env) /\ Change([line EXCEPT !.more = TRUE])
    BY DEF AppendParameter, IInv, LineOK
  <1>2. PICK more : line' = [kind |-> "link", at |-> line.at, env |-> line.env, more |-> more]
    <2>1. ASSUME NEW more, line' = [line EXCEPT !.more = more]
          PROVE  line' = [kind |-> "link", at |-> line.at, env |-> line.env, more |-> more]
      BY <1>1, <2>1
    <2>2. PICK more : line' = [line EXCEPT !.more = more]
      BY <1>1 DEF Change
    <2> QED
      BY <2>1, <2>2
  <1>3. labels' = labels
    BY <1>1 DEF Change
  <1>4. LineOK'
    BY <1>1, <1>2, <1>3 DEF LineOK, Kind, EnvelopeKnown
  <1> QED
    BY <1>1, <1>4, ChangeOK

LEMMA ChangePacketOK ==
    ASSUME IInv, ChangePacket
    PROVE  IInv'
  <1>1. /\ line.kind = "esl" /\ line.packet # Garbled
        /\ line = [kind |-> "esl", packet |-> line.packet] /\ PacketKnown(line.packet)
    BY DEF ChangePacket, IInv, LineOK
  <1>2. PICK k \in labels :
            /\ k.line.kind = "esl"
            /\ line.packet = [data |-> line.packet.data, signature |-> k.line.packet.signature]
    BY <1>1 DEF PacketKnown
  <1>3. ASSUME NEW c, PacketKnown(c), Change([line EXCEPT !.packet = c])
        PROVE  IInv'
    <2>1. line' = [kind |-> "esl", packet |-> c] /\ labels' = labels
      BY <1>1, <1>3 DEF Change
    <2>2. LineOK'
      BY <1>3, <2>1 DEF LineOK, Kind, PacketKnown
    <2> QED
      BY <1>3, <2>2, ChangeOK
  <1>4. CASE Change([line EXCEPT !.packet = Garbled])
    BY <1>3, <1>4 DEF PacketKnown
  <1>5. ASSUME NEW l \in labels, Change([line EXCEPT !.packet.data = l.line.packet.data])
        PROVE  IInv'
    <2> DEFINE c == [line.packet EXCEPT !.data = l.line.packet.data]
    <2>1. c = [data |-> l.line.packet.data, signature |-> k.line.packet.signature]
      BY <1>2
    <2>2. PacketKnown(c)
      BY <1>2, <2>1 DEF PacketKnown
    <2>3. [line EXCEPT !.packet.data = l.line.packet.data] = [line EXCEPT !.packet = c]
      BY <1>1
    <2> QED
      BY <1>3, <1>5, <2>2, <2>3
  <1> QED
    BY <1>4, <1>5 DEF ChangePacket

LEMMA TickOK ==
    ASSUME IInv, Tick
    PROVE  IInv'
  <1>1. clock' \in Nat /\ answer' = NoAnswer /\ UNCHANGED <<labels, label, line, changes>>
    BY DEF IInv, Tick
  <1>2. LineOK'
    BY <1>1 DEF IInv, LineOK, EnvelopeKnown, PacketKnown
  <1>3. \A l \in labels' : LabelOK(l)'
    BY <1>1 DEF IInv, LabelOK
  <1> QED
    BY <1>1, <1>2, <1>3 DEF IInv, NoAnswer, Verdict

-----------------------------------------------------------------------------
(* Verifying *)

LEMMA Verdicts ==
    ASSUME NEW via, NEW trust, NEW session
    PROVE  /\ RetailVerdict(via, trust, session) \in Verdict
           /\ Gs1Verdict(trust) \in Verdict /\ EslVerdict(trust) \in Verdict
           /\ ScanVerdict(trust) \in Verdict
  <1>1. Gs1Verdict(trust) \in Verdict
    BY DEF Gs1Verdict, Verdict
  <1>2. EslVerdict(trust) \in Verdict
    BY DEF EslVerdict, Verdict
  <1>3. RetailVerdict(via, trust, session) \in Verdict
    BY DEF RetailVerdict, Verdict
  <1>4. ScanVerdict(trust) \in Verdict
    BY <1>1, <1>2 DEF ScanVerdict, Verdict
  <1> QED
    BY <1>1, <1>2, <1>3, <1>4

LEMMA SayOK ==
    ASSUME IInv, NEW by, NEW trust, NEW session, NEW verdict \in Verdict,
           Say(by, trust, session, verdict), by # "daemon" => trust \in Trust
    PROVE  IInv'
  <1>1. answer' = [by |-> by, trust |-> trust, session |-> session, verdict |-> verdict]
        /\ UNCHANGED <<labels, label, line, changes, clock>>
    BY DEF Say
  <1> QED
    BY <1>1 DEF IInv, LineOK, EnvelopeKnown, PacketKnown, LabelOK

\* The verifiers' steps, one by one
Verifies(by, trust, session, verdict) ==
    \/ \E via \in Via :
          by = via /\ trust \in Trust /\ verdict = RetailVerdict(via, trust, session)
    \/ by = "gs1" /\ trust \in Trust /\ verdict = Gs1Verdict(trust)
    \/ by = "esl" /\ trust \in Trust /\ verdict = EslVerdict(trust)
    \/ by = "daemon" /\ trust \in Trust \union {None} /\ verdict = ScanVerdict(trust)

\* Every other step forgets the answer.
LEMMA StepOK ==
    ASSUME IInv, [Next]_vars
    PROVE  /\ IInv'
           /\ \/ answer' = NoAnswer
              \/ UNCHANGED vars
              \/ \E by, trust, session, verdict :
                    Verifies(by, trust, session, verdict) /\ Say(by, trust, session, verdict)
  <1>1. ASSUME NEW r \in RetailRequest, PackRetail(r) \/ PackRetailUrl(r)
        PROVE  IInv' /\ answer' = NoAnswer
    <2>1. PackRetail(r)
      BY <1>1 DEF PackRetailUrl
    <2> QED
      BY <2>1, PackRetailOK DEF PackRetail, Made
  <1>2. ASSUME NEW r \in Gs1Request, PackGs1(r) PROVE IInv' /\ answer' = NoAnswer
    BY <1>2, PackGs1OK DEF PackGs1, Made
  <1>3. ASSUME NEW r \in EslRequest, PackEsl(r) \/ PackEslPacket(r)
        PROVE  IInv' /\ answer' = NoAnswer
    <2>1. MakeEsl(r)
      BY <1>3 DEF PackEsl, PackEslPacket
    <2> QED
      BY <2>1, MakeEslOK DEF MakeEsl, Made
  <1>4. ASSUME NEW c \in Code, PrintCode(c) PROVE IInv' /\ answer' = NoAnswer
    BY <1>4, PrintCodeOK DEF PrintCode, Made
  <1>5. ASSUME NEW l \in labels, Show(l) PROVE IInv' /\ answer' = NoAnswer
    BY <1>5, ShowOK DEF Show
  <1>6. ASSUME NEW slip \in Slip, Misread(slip[1], slip[2]) PROVE IInv' /\ answer' = NoAnswer
    BY <1>6, MisreadOK DEF Misread, Change
  <1>7. CASE ChangeLink
    BY <1>7, ChangeLinkOK DEF ChangeLink, Change
  <1>8. CASE AppendParameter
    BY <1>8, AppendParameterOK DEF AppendParameter, Change
  <1>9. CASE ChangePacket
    BY <1>9, ChangePacketOK DEF ChangePacket, Change
  <1>10. CASE Tick
    BY <1>10, TickOK DEF Tick
  <1>11. ASSUME NEW by, NEW trust, NEW session, NEW verdict,
                Verifies(by, trust, session, verdict), Say(by, trust, session, verdict)
         PROVE  IInv'
    <2>1. verdict \in Verdict /\ (by # "daemon" => trust \in Trust)
      BY <1>11, Verdicts DEF Verifies
    <2> QED
      BY <1>11, <2>1, SayOK
  <1>12. ASSUME NEW trust \in Trust, NEW session \in BOOLEAN,
                VerifyRetail(trust, session) \/ VerifyRetailUrl(trust, session)
         PROVE  \E by, t, s, v : Verifies(by, t, s, v) /\ Say(by, t, s, v)
    BY <1>12 DEF VerifyRetail, VerifyRetailUrl, Verifies, Via
  <1>13. ASSUME NEW trust \in Trust, VerifyGs1(trust)
         PROVE  \E by, t, s, v : Verifies(by, t, s, v) /\ Say(by, t, s, v)
    BY <1>13 DEF VerifyGs1, Verifies
  <1>14. ASSUME NEW trust \in Trust, VerifyEsl(trust)
         PROVE  \E by, t, s, v : Verifies(by, t, s, v) /\ Say(by, t, s, v)
    BY <1>14 DEF VerifyEsl, Verifies
  <1>15. ASSUME NEW trust \in Trust \union {None}, Scan(trust)
         PROVE  \E by, t, s, v : Verifies(by, t, s, v) /\ Say(by, t, s, v)
    BY <1>15 DEF Scan, Verifies
  <1>16. CASE UNCHANGED vars
    BY <1>16 DEF vars, IInv, LineOK, EnvelopeKnown, PacketKnown, LabelOK
  <1>17. CASE Next
    BY <1>1, <1>2, <1>3, <1>4, <1>5, <1>6, <1>7, <1>8, <1>9, <1>10, <1>11, <1>12, <1>13, <1>14,
       <1>15, <1>17 DEF Next
  <1> QED
    BY <1>16, <1>17

\* A link whose envelope verifies is one that was made with the trusted key, and it has
\* not expired.
LEMMA EnvelopeMade ==
    ASSUME IInv, line.kind = "link", NEW trust, EnvelopeHolds(line.env, trust)
    PROVE  \E k \in labels :
              /\ SameContent(line, k) /\ k.trust.key = trust.key
              /\ clock < k.until \/ k.until % Wide = 0
              /\ line.env.payload.sku # None
  <1>1. PICK k \in labels :
            /\ k.line.kind = "link"
            /\ line.env = [header |-> line.env.header, payload |-> line.env.payload,
                           signature |-> k.line.env.signature]
    BY DEF IInv, LineOK, EnvelopeKnown, EnvelopeHolds
  <1>2. /\ k.line.env = Envelope(k.trust, k.line.env.payload) /\ k.until \in Nat
        /\ k.line.env.payload.expires_at = k.until % Wide /\ k.line.env.payload.sku # None
    BY <1>1 DEF IInv, LabelOK
  <1>3. Sign(trust.key, [header |-> line.env.header, payload |-> line.env.payload]) =
        Sign(k.trust.key, [header |-> k.line.env.header, payload |-> k.line.env.payload])
    <2>1. line.env.signature = k.line.env.signature
      BY <1>1
    <2>2. k.line.env.signature =
             Sign(k.trust.key, [header |-> k.line.env.header, payload |-> k.line.env.payload])
      BY <1>2 DEF Envelope
    <2> QED
      BY <2>1, <2>2 DEF EnvelopeHolds
  <1>4. /\ trust.key = k.trust.key
        /\ [header |-> line.env.header, payload |-> line.env.payload] =
           [header |-> k.line.env.header, payload |-> k.line.env.payload]
    BY <1>3 DEF Sign
  <1>5. line.env.header = k.line.env.header /\ line.env.payload = k.line.env.payload
    BY <1>4
  <1>6. k.line.env = [header |-> k.line.env.header, payload |-> k.line.env.payload,
                     signature |-> k.line.env.signature]
    BY <1>2 DEF Envelope
  <1>7. SameContent(line, k)
    BY <1>1, <1>5, <1>6 DEF SameContent
  <1>8. RetailLive(k.until % Wide)
    BY <1>2, <1>5 DEF EnvelopeHolds
  <1>9. k.until % Wide \in Nat /\ k.until % Wide <= k.until
    <2>1. Wide \in Nat \ {0}
      BY LabelsAssumption
    <2>2. k.until \in Nat
      BY <1>2
    <2>3. k.until % Wide \in 0 .. Wide - 1 /\ k.until % Wide <= k.until
      BY <2>1, <2>2, Remainder
    <2> QED
      BY <2>1, <2>3
  <1>10. clock < k.until \/ k.until % Wide = 0
    BY <1>2, <1>8, <1>9 DEF RetailLive, IInv
  <1> QED
    BY <1>1, <1>2, <1>4, <1>5, <1>7, <1>10

LEMMA PacketMade ==
    ASSUME IInv, NEW trust, EslVerdict(trust) = "valid"
    PROVE  /\ line.kind = "esl"
           /\ \E k \in labels :
                 /\ SameContent(line, k) /\ k.trust.key = trust.key
                 /\ clock <= k.until \/ k.until % Narrow = 0
  <1>0. /\ line.kind = "esl" /\ line.packet # Garbled
        /\ EslLive(line.packet.data.expires_at)
        /\ line.packet.signature = Sign(trust.key, line.packet.data)
    BY DEF EslVerdict
  <1>1. PICK k \in labels :
            /\ k.line.kind = "esl"
            /\ line.packet = [data |-> line.packet.data, signature |-> k.line.packet.signature]
    BY <1>0 DEF IInv, LineOK, PacketKnown
  <1>2. /\ k.line.packet = Packet(k.trust.key, k.line.packet.data) /\ k.until \in Nat
        /\ k.line.packet.data.expires_at = k.until % Narrow
    BY <1>1 DEF IInv, LabelOK
  <1>3. line.packet.signature = k.line.packet.signature
    BY <1>1
  <1>4. k.line.packet.signature = Sign(k.trust.key, k.line.packet.data)
    BY <1>2 DEF Packet
  <1>5. trust.key = k.trust.key /\ line.packet.data = k.line.packet.data
    BY <1>0, <1>3, <1>4 DEF Sign
  <1>6. k.line.packet = [data |-> k.line.packet.data, signature |-> k.line.packet.signature]
    BY <1>2 DEF Packet
  <1>7. SameContent(line, k)
    BY <1>0, <1>1, <1>5, <1>6 DEF SameContent
  <1>8. EslLive(k.until % Narrow)
    BY <1>0, <1>2, <1>5
  <1>9. k.until % Narrow \in Nat /\ k.until % Narrow <= k.until
    <2>1. Narrow \in Nat \ {0}
      BY LabelsAssumption
    <2>2. k.until \in Nat
      BY <1>2
    <2>3. k.until % Narrow \in 0 .. Narrow - 1 /\ k.until % Narrow <= k.until
      BY <2>1, <2>2, Remainder
    <2> QED
      BY <2>1, <2>3
  <1>10. clock <= k.until \/ k.until % Narrow = 0
    BY <1>2, <1>8, <1>9 DEF EslLive, IInv
  <1> QED
    BY <1>0, <1>1, <1>5, <1>7, <1>10

\* What a step says to be valid is a link that verifies, a packet that verifies or a
\* plain code; and if it is said of a GS1 link, its path fits.
LEMMA ValidSaid ==
    ASSUME IInv, NEW by, NEW trust, NEW session, Verifies(by, trust, session, "valid"),
           line.kind # "code"
    PROVE  \/ /\ line.kind = "link" /\ EnvelopeHolds(line.env, trust)
              /\ (by = "gs1" \/ (by = "daemon" /\ line.at.ai))
                    => GtinMatches(line.at.gtin, line.env.payload)
           \/ EslVerdict(trust) = "valid"
  <1>1. ASSUME Gs1Verdict(trust) = "valid"
        PROVE  /\ line.kind = "link" /\ EnvelopeHolds(line.env, trust)
               /\ GtinMatches(line.at.gtin, line.env.payload)
    BY <1>1 DEF Gs1Verdict
  <1>2. ASSUME NEW via, EnvelopeHolds(EnvelopeIn(via), trust)
        PROVE  EnvelopeHolds(line.env, trust)
    BY <1>2 DEF EnvelopeIn, EnvelopeHolds
  <1>3. ASSUME NEW via \in Via, by = via, RetailVerdict(via, trust, session) = "valid"
        PROVE  line.kind = "link" /\ EnvelopeHolds(line.env, trust) /\ by \notin {"gs1", "daemon"}
    BY <1>2, <1>3 DEF RetailVerdict, Via
  <1>4. ASSUME ScanVerdict(trust) = "valid"
        PROVE  \/ line.kind = "link" /\ line.at.ai /\ Gs1Verdict(trust) = "valid"
               \/ line.kind = "link" /\ ~line.at.ai /\ EnvelopeHolds(line.env, trust)
               \/ EslVerdict(trust) = "valid"
    BY <1>2, <1>4 DEF ScanVerdict
  <1> QED
    BY <1>1, <1>3, <1>4 DEF Verifies

LEMMA Trimmed ==
    ASSUME NEW gtin, NEW payload, GtinMatches(gtin, payload), payload.sku # None
    PROVE  Trim(gtin) \in {Trim(t) : t \in {payload.sku, payload.upc} \ {None}}
  BY DEF GtinMatches

\* Both properties speak of the answer, so they concern only the steps that give one.
LEMMA SaidRight ==
    ASSUME IInv, NEW by, NEW trust, NEW session, NEW verdict,
           Verifies(by, trust, session, verdict), Say(by, trust, session, verdict)
    PROVE  ValidIsMade' /\ NotBeyondAsked'
  <1>1. /\ answer' = [by |-> by, trust |-> trust, session |-> session, verdict |-> verdict]
        /\ UNCHANGED <<labels, label, line, changes, clock>>
    BY DEF Say
  <1>2. SUFFICES ASSUME verdict = "valid", line.kind # "code"
                 PROVE  ValidIsMade' /\ NotBeyondAsked'
    BY <1>1 DEF ValidIsMade, NotBeyondAsked
  <1>3. CASE /\ line.kind = "link" /\ EnvelopeHolds(line.env, trust)
             /\ (by = "gs1" \/ (by = "daemon" /\ line.at.ai))
                  => GtinMatches(line.at.gtin, line.env.payload)
    <2>1. PICK k \in labels :
              /\ SameContent(line, k) /\ k.trust.key = trust.key
              /\ clock < k.until \/ k.until % Wide = 0
              /\ line.env.payload.sku # None
      BY <1>3, EnvelopeMade
    <2>2. ValidIsMade'
      BY <1>1, <1>3, <2>1, Trimmed DEF ValidIsMade, SameContent
    <2>3. NotBeyondAsked'
      BY <1>1, <1>3, <2>1 DEF NotBeyondAsked, SameContent
    <2> QED
      BY <2>2, <2>3
  <1>4. CASE EslVerdict(trust) = "valid"
    <2>1. line.kind = "esl"
      BY <1>4, PacketMade
    <2>2. PICK k \in labels :
              /\ SameContent(line, k) /\ k.trust.key = trust.key
              /\ clock <= k.until \/ k.until % Narrow = 0
      BY <1>4, PacketMade
    <2>3. by # "gs1"
      BY <1>2, <2>1 DEF Verifies, Gs1Verdict, Via
    <2>4. ValidIsMade'
      BY <1>1, <2>1, <2>2, <2>3 DEF ValidIsMade, SameContent
    <2>5. NotBeyondAsked'
      BY <1>1, <2>1, <2>2 DEF NotBeyondAsked, SameContent
    <2> QED
      BY <2>4, <2>5
  <1> QED
    BY <1>2, <1>3, <1>4, ValidSaid

-----------------------------------------------------------------------------
(* The theorems *)

LEMMA Invariance == Spec => []IInv
  <1>1. IInv /\ [Next]_vars => IInv'
    BY StepOK
  <1> QED
    BY <1>1, InitOK, PTL DEF Spec

LEMMA Typed == IInv => TypeOK
  <1> SUFFICES ASSUME IInv PROVE TypeOK
    OBVIOUS
  <1>1. Wide \in Nat \ {0} /\ Narrow \in Nat \ {0}
    BY LabelsAssumption
  <1>2. ASSUME NEW l \in labels
        PROVE  /\ l.line.kind = "esl" => l.line.packet.data.expires_at \in 0 .. Narrow - 1
               /\ l.line.kind = "link" => l.line.env.payload.expires_at \in 0 .. Wide - 1
    BY <1>1, Remainder DEF IInv, LabelOK
  <1>3. NoLabel.line.kind = "none" /\ NoLabel.until = 0 /\ NoLabel.made = "none"
    BY DEF NoLabel, NoLine
  <1>4. ASSUME NEW l \in labels \union {label}
        PROVE  /\ l.line.kind \in Kind /\ l.until \in Nat
               /\ l.made \in {"retail", "gs1", "esl"} => l.trust \in Trust
               /\ l.line.kind = "esl" => l.line.packet.data.expires_at \in 0 .. Narrow - 1
               /\ l.line.kind = "link" => l.line.env.payload.expires_at \in 0 .. Wide - 1
    <2>1. CASE l \in labels
      BY <1>2, <2>1 DEF IInv, LabelOK
    <2>2. CASE l = NoLabel
      BY <1>3, <2>2 DEF Kind
    <2> QED
      BY <2>1, <2>2 DEF IInv
  <1> QED
    BY <1>4 DEF TypeOK, IInv, LineOK

\* The types of Labels: what is made stays within the width of its numbers (esl.rs,
\* encode_esl_packet; tools.rs, pack_esl_packet).
THEOREM TypeCorrect == Spec => []TypeOK
  BY Invariance, Typed, PTL

\* What a verifier calls valid was made, whole, with the key it trusts, and as a GS1
\* link for the product in its path.
THEOREM ValidMade == Spec => []ValidIsMade
  <1>1. Init => ValidIsMade
    BY DEF Init, NoAnswer, ValidIsMade
  <1>2. IInv /\ ValidIsMade /\ [Next]_vars => ValidIsMade'
    <2> SUFFICES ASSUME IInv, ValidIsMade, [Next]_vars PROVE ValidIsMade'
      OBVIOUS
    <2>1. CASE answer' = NoAnswer
      BY <2>1 DEF NoAnswer, ValidIsMade
    <2>2. CASE UNCHANGED vars
      BY <2>2 DEF vars, ValidIsMade, SameContent
    <2> QED
      BY <2>1, <2>2, StepOK, SaidRight
  <1> QED
    BY <1>1, <1>2, Invariance, PTL DEF Spec

\* What a verifier calls valid has not outlived what its maker was asked for, unless the
\* number asked for was a multiple of what the field can hold.
THEOREM NeverBeyond == Spec => []NotBeyondAsked
  <1>1. Init => NotBeyondAsked
    BY DEF Init, NoAnswer, NotBeyondAsked
  <1>2. IInv /\ NotBeyondAsked /\ [Next]_vars => NotBeyondAsked'
    <2> SUFFICES ASSUME IInv, NotBeyondAsked, [Next]_vars PROVE NotBeyondAsked'
      OBVIOUS
    <2>1. CASE answer' = NoAnswer
      BY <2>1 DEF NoAnswer, NotBeyondAsked
    <2>2. CASE UNCHANGED vars
      BY <2>2 DEF vars, NotBeyondAsked, SameContent
    <2> QED
      BY <2>1, <2>2, StepOK, SaidRight
  <1> QED
    BY <1>1, <1>2, Invariance, PTL DEF Spec

-----------------------------------------------------------------------------
(* What is made is usable.  A label's line says what was asked for, and    *)
(* the answer is always the verdict on the line and the time there are.    *)

\* Where a link's envelope and code were put
AtOK(made, address, at, upc) ==
    /\ address # "p" => at.before # "p"
    /\ made = "gs1" => at.ai
    /\ made = "gs1" /\ address = "plain" /\ Whole(upc) /\ upc # <<>> =>
          at.gtin = upc /\ at.before = "nothing"

MadeWell(l) ==
    /\ l.made \in {"retail", "gs1"} =>
          /\ l.line = Link(l.line.at, Envelope(l.trust, l.line.env.payload))
          /\ l.line.env.payload \in Payload
          /\ l.line.env.payload.expires_at = l.until % Wide
          /\ AtOK(l.made, l.address, l.line.at, l.line.env.payload.upc)
    /\ l.made = "gs1" => l.line.env.payload.upc \in Text /\ l.line.env.payload.role = None
    /\ l.made = "esl" =>
          /\ l.price \in Nat
          /\ l.line = EslLine(Packet(l.trust.key, [price |-> l.price % Narrow,
                                                   expires_at |-> l.until % Narrow]))

UsableInv ==
    /\ \A l \in labels : MadeWell(l)
    /\ answer = NoAnswer \/ Verifies(answer.by, answer.trust, answer.session, answer.verdict)

\* A whole code is the first segment of its path.
LEMMA FirstOfWhole ==
    ASSUME NEW text \in Text, Whole(text), text # <<>>
    PROVE  FirstSegment(text) = text
  <1> DEFINE n == Len(text)
             path == {i \in DOMAIN text : \A j \in 1 .. i : text[j] # Question}
             before == {i \in path : \A j \in 1 .. i : text[j] = Slash}
             first == {i \in path \ before : \A j \in 1 .. i : text[j] = Slash => j \in before}
  <1>1. DOMAIN text = 1 .. n /\ n \in Nat /\ n # 0
    BY DEF Text
  <1>2. \A i \in 1 .. n : text[i] # Slash /\ text[i] # Question
    BY <1>1 DEF Whole
  <1>3. \A i \in 1 .. n : i \in 1 .. i /\ 1 .. i \subseteq 1 .. n
    BY <1>1
  <1>4. path = 1 .. n
    BY <1>1, <1>2, <1>3
  <1>5. before = {}
    BY <1>2, <1>3, <1>4
  <1>6. first = 1 .. n
    BY <1>2, <1>3, <1>4, <1>5
  <1>7. Cardinality(before) = 0 /\ Cardinality(first) = n
    <2>1. Cardinality(1 .. n) = n
      BY <1>1, FS_Interval
    <2> QED
      BY <1>5, <1>6, <2>1, FS_EmptySet
  <1>8. FirstSegment(text) = IF first = {} THEN None
                             ELSE SubSeq(text, Cardinality(before) + 1,
                                         Cardinality(before) + Cardinality(first))
    BY DEF FirstSegment
  <1>9. first # {}
    BY <1>1, <1>6
  <1> HIDE DEF before, first, path
  <1>10. FirstSegment(text) = SubSeq(text, 1, n)
    BY <1>1, <1>7, <1>8, <1>9
  <1> QED
    BY <1>10 DEF Text

LEMMA RetailAtOK ==
    ASSUME NEW r \in RetailRequest
    PROVE  AtOK("retail", r.base.address, RetailAt(r.base), r.upc)
  BY DEF AtOK, RetailAt

LEMMA Gs1AtOK ==
    ASSUME NEW r \in Gs1Request
    PROVE  AtOK("gs1", r.address, Gs1At(r), r.gtin)
  <1>1. Gs1At(r).ai /\ (r.address # "p" => Gs1At(r).before # "p")
    BY DEF Gs1At
  <1>2. ASSUME r.address = "plain", Whole(r.gtin), r.gtin # <<>>
        PROVE  Gs1At(r).gtin = r.gtin /\ Gs1At(r).before = "nothing"
    <2>1. r.gtin \in Text
      BY LabelsAssumption
    <2>2. FirstSegment(r.gtin) = r.gtin
      BY <1>2, <2>1, FirstOfWhole
    <2> QED
      BY <1>2, <2>2 DEF Gs1At, Whole
  <1> QED
    BY <1>1, <1>2 DEF AtOK

LEMMA MadeWellKept ==
    ASSUME \A l \in labels : MadeWell(l),
           NEW made, NEW trust, NEW until, NEW l, NEW price, NEW address,
           Made(made, trust, until, l, price, address),
           MadeWell([made |-> made, trust |-> trust, until |-> until, line |-> l, price |-> price,
                     address |-> address])
    PROVE  \A k \in labels' : MadeWell(k)'
  <1> DEFINE new == [made |-> made, trust |-> trust, until |-> until, line |-> l, price |-> price,
                     address |-> address]
  <1>1. labels' = labels \union {new} /\ MadeWell(new)
    BY DEF Made
  <1> HIDE DEF new
  <1> QED
    BY <1>1 DEF MadeWell

LEMMA LinkMadeWell ==
    ASSUME IInv, \A k \in labels : MadeWell(k), NEW made \in {"retail", "gs1"},
           NEW r, r.wait \in 0 .. Wide - 1, NEW at, NEW upc, NEW role \in Role \union {None},
           NEW address, r.sku \in Text, upc \in Text \union {None},
           AtOK(made, address, at, upc), made = "gs1" => upc \in Text /\ role = None,
           Made(made, r.trust, Until(r.wait),
                Link(at, Envelope(r.trust, [sku |-> r.sku, upc |-> upc, role |-> role,
                                            expires_at |-> ExpiresAt(r.wait)])), 0, address)
    PROVE  \A k \in labels' : MadeWell(k)'
  <1> DEFINE payload == [sku |-> r.sku, upc |-> upc, role |-> role,
                         expires_at |-> ExpiresAt(r.wait)]
             l == Link(at, Envelope(r.trust, payload))
             new == [made |-> made, trust |-> r.trust, until |-> Until(r.wait), line |-> l,
                     price |-> 0, address |-> address]
  <1>1. Until(r.wait) \in Nat /\ ExpiresAt(r.wait) = Until(r.wait) % Wide
    BY Expiry
  <1>2. ExpiresAt(r.wait) \in Nat
    <2>1. Wide \in Nat \ {0}
      BY LabelsAssumption
    <2>2. Until(r.wait) % Wide \in 0 .. Wide - 1
      BY <1>1, <2>1, Remainder
    <2> QED
      BY <1>1, <2>1, <2>2
  <1>3. /\ payload \in Payload /\ payload.expires_at = Until(r.wait) % Wide
        /\ payload.upc = upc /\ payload.role = role
    BY <1>1, <1>2 DEF Payload
  <1> HIDE DEF payload
  <1>4. l.at = at /\ l.env = Envelope(r.trust, payload) /\ l.env.payload = payload
    BY DEF Link, Envelope
  <1>5. /\ new.made = made /\ new.trust = r.trust /\ new.until = Until(r.wait) /\ new.line = l
        /\ new.address = address
    OBVIOUS
  <1>6. l = Link(at, Envelope(r.trust, payload))
    OBVIOUS
  <1> HIDE DEF l, new
  <1>7. MadeWell(new)
    BY <1>3, <1>4, <1>5, <1>6 DEF MadeWell
  <1> QED
    BY <1>7, MadeWellKept DEF new, l, payload

LEMMA EslMadeWell ==
    ASSUME \A k \in labels : MadeWell(k), NEW r \in EslRequest, MakeEsl(r)
    PROVE  \A k \in labels' : MadeWell(k)'
  <1> DEFINE l == EslLine(Packet(r.trust.key, [price |-> Narrowed(r.price),
                                               expires_at |-> Narrowed(r.until)]))
  <1>1. r.price \in Nat
    BY LabelsAssumption
  <1>2. MadeWell([made |-> "esl", trust |-> r.trust, until |-> r.until, line |-> l,
                  price |-> r.price, address |-> "plain"])
    BY <1>1 DEF MadeWell, Narrowed
  <1> QED
    BY <1>2, MadeWellKept DEF MakeEsl

LEMMA UsableInit == Init => UsableInv
  BY DEF Init, UsableInv

\* The same line at the same time gets the same verdict.
LEMMA SameVerdict ==
    ASSUME line' = line, clock' = clock,
           NEW by, NEW trust, NEW session, NEW verdict, Verifies(by, trust, session, verdict)
    PROVE  Verifies(by, trust, session, verdict)'
  <1>1. \A env, t : EnvelopeHolds(env, t)' = EnvelopeHolds(env, t)
    BY DEF EnvelopeHolds, RetailLive
  <1>2. \A via : EnvelopeIn(via)' = EnvelopeIn(via)
    BY DEF EnvelopeIn
  <1>3. Gs1Verdict(trust)' = Gs1Verdict(trust)
    BY <1>1 DEF Gs1Verdict
  <1>4. EslVerdict(trust)' = EslVerdict(trust)
    BY DEF EslVerdict, EslLive
  <1>5. \A via : RetailVerdict(via, trust, session)' = RetailVerdict(via, trust, session)
    BY <1>1, <1>2 DEF RetailVerdict
  <1>6. ScanVerdict(trust)' = ScanVerdict(trust)
    BY <1>1, <1>2, <1>3, <1>4 DEF ScanVerdict
  <1> QED
    BY <1>3, <1>4, <1>5, <1>6 DEF Verifies

LEMMA UsableStep == IInv /\ UsableInv /\ [Next]_vars => UsableInv'
  <1> SUFFICES ASSUME IInv, UsableInv, [Next]_vars PROVE UsableInv'
    OBVIOUS
  <1>1. \A k \in labels' : MadeWell(k)'
    <2>1. ASSUME NEW r \in RetailRequest, PackRetail(r) \/ PackRetailUrl(r)
          PROVE  \A k \in labels' : MadeWell(k)'
      <3>1. PackRetail(r)
        BY <2>1 DEF PackRetailUrl
      <3>2. /\ r.wait \in 0 .. Wide - 1 /\ r.sku \in Text /\ r.upc \in Text \union {None}
            /\ r.role \in Role \union {None}
        BY LabelsAssumption
      <3> QED
        BY <3>1, <3>2, RetailAtOK, LinkMadeWell DEF PackRetail, UsableInv
    <2>2. ASSUME NEW r \in Gs1Request, PackGs1(r)
          PROVE  \A k \in labels' : MadeWell(k)'
      <3>1. r.wait \in 0 .. Wide - 1 /\ r.sku \in Text /\ r.gtin \in Text
        BY LabelsAssumption
      <3> QED
        BY <2>2, <3>1, Gs1AtOK, LinkMadeWell DEF PackGs1, UsableInv
    <2>3. ASSUME NEW r \in EslRequest, PackEsl(r) \/ PackEslPacket(r)
          PROVE  \A k \in labels' : MadeWell(k)'
      BY <2>3, EslMadeWell DEF PackEsl, PackEslPacket, UsableInv
    <2>4. ASSUME NEW c \in Code, PrintCode(c)
          PROVE  \A k \in labels' : MadeWell(k)'
      <3>1. MadeWell([made |-> "code", trust |-> None, until |-> 0, line |-> CodeLine(c),
                      price |-> 0, address |-> "plain"])
        BY DEF MadeWell
      <3> QED
        BY <2>4, <3>1, MadeWellKept DEF PrintCode, UsableInv
    <2>5. CASE labels' = labels
      BY <2>5 DEF UsableInv, MadeWell
    <2> QED
      BY <2>1, <2>2, <2>3, <2>4, <2>5
         DEF Next, vars, Show, Misread, Change, ChangeLink, AppendParameter, ChangePacket, Tick,
             VerifyRetail, VerifyRetailUrl, VerifyGs1, VerifyEsl, Scan, Say
  <1>2. answer' = NoAnswer \/ Verifies(answer.by, answer.trust, answer.session, answer.verdict)'
    <2>1. CASE UNCHANGED vars
      <3>1. answer' = answer /\ line' = line /\ clock' = clock
        BY <2>1 DEF vars
      <3> DEFINE by == answer.by
                 trust == answer.trust
                 session == answer.session
                 verdict == answer.verdict
      <3>2. answer = NoAnswer \/ Verifies(by, trust, session, verdict)
        BY DEF UsableInv
      <3> QED
        BY <3>1, <3>2, SameVerdict
    <2>2. ASSUME NEW by, NEW trust, NEW session, NEW verdict,
                 Verifies(by, trust, session, verdict), Say(by, trust, session, verdict)
          PROVE  Verifies(answer.by, answer.trust, answer.session, answer.verdict)'
      <3>1. /\ answer' = [by |-> by, trust |-> trust, session |-> session, verdict |-> verdict]
            /\ line' = line /\ clock' = clock
        BY <2>2 DEF Say
      <3>2. /\ answer'.by = by /\ answer'.trust = trust /\ answer'.session = session
            /\ answer'.verdict = verdict
        BY <3>1
      <3> QED
        BY <2>2, <3>1, <3>2, SameVerdict
    <2> QED
      BY <2>1, <2>2, StepOK
  <1> QED
    BY <1>1, <1>2 DEF UsableInv

\* A number that fits is written as it is.
LEMMA Fitting ==
    ASSUME NEW n \in Nat, NEW w \in Nat \ {0}, n < w
    PROVE  n % w = n
  OBVIOUS

\* An unchanged link verifies until it expires.
LEMMA LinkUsable ==
    ASSUME IInv, UsableInv, label \in labels, line = label.line, label.made \in {"retail", "gs1"},
           label.until = 0 \/ clock < label.until, label.until < Wide
    PROVE  /\ line.kind = "link" /\ line.more = FALSE
           /\ EnvelopeHolds(line.env, label.trust)
  <1>1. /\ line = Link(line.at, Envelope(label.trust, line.env.payload))
        /\ line.env.payload \in Payload /\ line.env.payload.expires_at = label.until % Wide
    BY DEF UsableInv, MadeWell
  <1>2. label.trust \in Trust /\ label.until \in Nat
    BY DEF IInv, LabelOK
  <1> DEFINE header == [kid |-> label.trust.kid, typ |-> "retail-product-link"]
             over == [header |-> header, payload |-> line.env.payload]
  <1>3. line.env = [header |-> header, payload |-> line.env.payload,
                    signature |-> Sign(label.trust.key, over)]
    <2>1. line.env = Envelope(label.trust, line.env.payload)
      BY <1>1 DEF Link
    <2> QED
      BY <2>1 DEF Envelope
  <1>4. line.env # Garbled
    <2>1. header \in Header /\ label.trust.key \in Key
      BY <1>2 DEF Header, Trust
    <2>2. line.env \in SignedRetailPayload
      BY <1>1, <1>3, <2>1 DEF SignedRetailPayload, Sign
    <2> QED
      BY <2>2, LabelsAssumption
  <1>5. RetailLive(line.env.payload.expires_at)
    <2>1. Wide \in Nat \ {0}
      BY LabelsAssumption
    <2>2. line.env.payload.expires_at = label.until
      BY <1>1, <1>2, <2>1, Fitting
    <2> QED
      BY <1>2, <2>2 DEF RetailLive, IInv
  <1>6. /\ line.env.header = header
        /\ line.env.signature = Sign(label.trust.key, over)
    BY <1>3
  <1>7. EnvelopeHolds(line.env, label.trust)
    BY <1>4, <1>5, <1>6 DEF EnvelopeHolds
  <1>8. line.kind = "link" /\ line.more = FALSE
    BY <1>1 DEF Link
  <1> QED
    BY <1>7, <1>8

LEMMA PacketUsable ==
    ASSUME IInv, UsableInv, label \in labels, line = label.line, label.made = "esl",
           label.until = 0 \/ clock < label.until, label.until < Narrow, label.price < Narrow
    PROVE  /\ line.kind = "esl" /\ EslVerdict(label.trust) = "valid"
           /\ line.packet.data.price = label.price
  <1>1. /\ label.trust \in Trust /\ label.until \in Nat /\ label.price \in Nat
        /\ Narrow \in Nat \ {0} /\ clock \in Nat
    BY LabelsAssumption DEF IInv, LabelOK, UsableInv, MadeWell
  <1> DEFINE data == [price |-> label.price, expires_at |-> label.until]
  <1>2. label.price % Narrow = label.price /\ label.until % Narrow = label.until
    BY <1>1, Fitting
  <1>3. line = EslLine(Packet(label.trust.key, data))
    BY <1>2 DEF UsableInv, MadeWell
  <1>4. line.kind = "esl" /\ line.packet = [data |-> data, signature |-> Sign(label.trust.key, data)]
    BY <1>3 DEF EslLine, Packet
  <1>5. line.packet # Garbled
    <2>1. data \in EslData /\ label.trust.key \in Key
      BY <1>1 DEF EslData, Trust
    <2>2. line.packet \in SignedPacket
      BY <1>4, <2>1 DEF SignedPacket, Sign
    <2> QED
      BY <2>2, LabelsAssumption
  <1>6. EslLive(line.packet.data.expires_at)
    BY <1>1, <1>4 DEF EslLive
  <1>7. line.packet.data = data /\ line.packet.signature = Sign(label.trust.key, data)
    BY <1>4
  <1> QED
    BY <1>4, <1>5, <1>6, <1>7 DEF EslVerdict

LEMMA EmptyIsZeros == AllZeros(<<>>)
  <1> DEFINE zeros == {k \in DOMAIN <<>> : \A j \in 1 .. k : <<>>[j] = 0}
  <1>1. zeros = {}
    OBVIOUS
  <1>2. Cardinality(zeros) = 0
    BY <1>1, FS_EmptySet
  <1>3. Trim(<<>>) = SubSeq(<<>>, Cardinality(zeros) + 1, Len(<<>>))
    BY DEF Trim
  <1> HIDE DEF zeros
  <1> QED
    BY <1>2, <1>3 DEF AllZeros

LEMMA Usable == IInv /\ UsableInv => UsableAsAsked
  <1> SUFFICES ASSUME IInv, UsableInv,
                      line = label.line, MeantFor(label, answer.by), answer.trust = label.trust,
                      label.until = 0 \/ clock < label.until,
                      label.made = "esl" => label.until < Narrow /\ label.price < Narrow,
                      label.made \in {"retail", "gs1"} => label.until < Wide,
                      answer.by \in Via => Authorized(line.env.payload, answer.session)
               PROVE  /\ answer.verdict = "valid"
                      /\ label.made = "esl" => line.packet.data.price = label.price
    BY DEF UsableAsAsked
  <1>1. label \in labels /\ label.made \in {"retail", "gs1", "esl"}
    BY DEF IInv, MeantFor, NoLabel
  <1>2. answer.by \in Via \union {"gs1", "esl", "daemon"}
    BY <1>1 DEF MeantFor
  <1>3. /\ Verifies(answer.by, answer.trust, answer.session, answer.verdict)
        /\ label.trust \in Trust /\ label.trust # None
    <2>1. answer # NoAnswer
      BY <1>2 DEF NoAnswer, Via
    <2> QED
      BY <1>1, <2>1, LabelsAssumption DEF UsableInv, IInv, LabelOK
  <1>4. CASE label.made = "esl"
    <2>1. line.kind = "esl" /\ EslVerdict(label.trust) = "valid" /\ line.packet.data.price = label.price
      BY <1>1, <1>4, PacketUsable
    <2>2. answer.by \in {"esl", "daemon"}
      BY <1>4 DEF MeantFor
    <2>3. ScanVerdict(label.trust) = "valid"
      BY <1>3, <2>1 DEF ScanVerdict
    <2> QED
      BY <1>3, <2>1, <2>2, <2>3 DEF Verifies, Via
  <1>5. CASE label.made \in {"retail", "gs1"}
    <2>1. /\ line.kind = "link" /\ line.more = FALSE /\ EnvelopeHolds(line.env, label.trust)
      BY <1>1, <1>5, LinkUsable
    <2>2. \A via : EnvelopeIn(via) = line.env
      <3>1. line.at.before # "p"
        BY <1>1, <1>5 DEF UsableInv, MadeWell, AtOK, MeantFor
      <3> QED
        BY <2>1, <3>1 DEF EnvelopeIn
    <2>3. CASE answer.by \in Via
      <3>1. RetailVerdict(answer.by, label.trust, answer.session) = "valid"
        BY <2>1, <2>2, <2>3 DEF RetailVerdict
      <3> QED
        BY <1>3, <1>5, <2>3, <3>1 DEF Verifies, Via
    <2>4. CASE label.made = "gs1" /\ answer.by \notin Via
      <3> DEFINE upc == line.env.payload.upc
      <3>0. /\ answer.by \in {"gs1", "daemon"} /\ label.address = "plain"
            /\ Whole(upc) /\ ~AllZeros(upc) /\ upc \in Text
        BY <1>1, <2>4 DEF MeantFor, UsableInv, MadeWell
      <3>1. /\ line.at.gtin = upc /\ line.at.gtin # None /\ line.at.before = "nothing"
            /\ line.at.ai
        <4>1. upc # <<>>
          BY <3>0, EmptyIsZeros
        <4>2. AtOK("gs1", label.address, line.at, upc)
          BY <1>1, <2>4 DEF UsableInv, MadeWell
        <4> QED
          BY <3>0, <4>1, <4>2, LabelsAssumption DEF AtOK
      <3>2. GtinMatches(line.at.gtin, line.env.payload)
        BY <3>0, <3>1, LabelsAssumption DEF GtinMatches, AllZeros
      <3>3. Gs1Verdict(label.trust) = "valid"
        BY <2>1, <3>1, <3>2 DEF Gs1Verdict
      <3>4. ScanVerdict(label.trust) = "valid"
        BY <1>3, <2>1, <3>1, <3>3 DEF ScanVerdict
      <3> QED
        BY <1>3, <2>4, <3>0, <3>3, <3>4 DEF Verifies, Via
    <2>5. CASE label.made = "retail" /\ answer.by \notin Via
      <3>1. answer.by = "daemon" /\ ~line.at.ai
        BY <2>5 DEF MeantFor
      <3>2. ScanVerdict(label.trust) = "valid"
        BY <1>3, <2>1, <2>2, <3>1 DEF ScanVerdict
      <3> QED
        BY <1>3, <2>5, <3>1, <3>2 DEF Verifies, Via
    <2> QED
      BY <1>5, <2>3, <2>4, <2>5
  <1> QED
    BY <1>1, <1>4, <1>5

\* What was made with numbers that fit is called valid by every verifier meant for it
\* until it expires, and a packet shows the price that was asked for.
THEOREM MadeIsUsable == Spec => []UsableAsAsked
  BY UsableInit, UsableStep, Usable, Invariance, PTL DEF Spec
-----------------------------------------------------------------------------
(* The check digit. One digit read wrong changes the sum by less than      *)
(* thirty and not by a multiple of ten, because the weights are one and    *)
(* three.                                                                  *)

\* Induction over the natural numbers, said of sets
LEMMA SetInduction ==
    ASSUME NEW S \in SUBSET Nat, 0 \in S, \A n \in S : n + 1 \in S
    PROVE  S = Nat
  <1> DEFINE T == Nat \ S
  <1>1. SUFFICES ASSUME T # {} PROVE FALSE
    OBVIOUS
  <1>2. \E x \in T : \A y \in T : ~ (<<y, x>> \in OpToRel(<, Nat))
    <2> HIDE DEF T
    <2>1. T \subseteq Nat
      BY DEF T
    <2> QED
      BY <1>1, <2>1, NatLessThanWellFounded, WFMin
  <1>3. PICK x \in T : \A y \in T : ~ (y < x)
    <2>1. \A x, y \in Nat : y < x => <<y, x>> \in OpToRel(<, Nat)
      BY DEF OpToRel
    <2> QED
      BY <1>2, <2>1
  <1>4. x # 0 /\ x \in Nat
    OBVIOUS
  <1>5. x - 1 \in T => FALSE
    BY <1>3, <1>4
  <1>6. x - 1 \in S
    BY <1>4, <1>5
  <1> QED
    BY <1>6, <1>4

Digit == 0 .. 9

\* f holds the sums of the first digits of a code.
Sums(code, f) ==
    /\ f[0] = 0
    /\ \A i \in 1 .. Len(code) - 1 : f[i] = f[i - 1] + code[i] * Weight(i, Len(code))

LEMMA Weighted ==
    ASSUME NEW i \in Nat, NEW n \in Nat
    PROVE  Weight(i, n) \in {1, 3}
  BY DEF Weight

LEMMA Term ==
    ASSUME NEW code \in Seq(Digit), NEW i \in 1 .. Len(code)
    PROVE  code[i] \in Digit /\ code[i] * Weight(i, Len(code)) \in Nat
  <1>1. code[i] \in Digit /\ i \in Nat /\ Len(code) \in Nat
    OBVIOUS
  <1>2. code[i] \in Nat
    BY <1>1 DEF Digit
  <1>3. CASE Weight(i, Len(code)) = 1
    BY <1>1, <1>2, <1>3
  <1>4. CASE Weight(i, Len(code)) = 3
    BY <1>1, <1>2, <1>4
  <1> QED
    BY <1>1, <1>3, <1>4, Weighted

\* There are such sums ...
LEMMA SumsExist ==
    ASSUME NEW code \in Seq(Digit), NEW k \in Nat, k < Len(code)
    PROVE  \E f \in [0 .. k -> Nat] :
              /\ f[0] = 0
              /\ \A i \in 1 .. k : f[i] = f[i - 1] + code[i] * Weight(i, Len(code))
  <1> DEFINE t(i) == code[i] * Weight(i, Len(code))
             Upto(f, m) == f[0] = 0 /\ \A i \in 1 .. m : f[i] = f[i - 1] + t(i)
             S == {m \in Nat : m < Len(code) => \E f \in [0 .. m -> Nat] : Upto(f, m)}
  <1>0. \A i \in 1 .. Len(code) : t(i) \in Nat
    BY Term
  <1> HIDE DEF t
  <1>1. 0 \in S
    <2> DEFINE f == [i \in 0 .. 0 |-> 0]
    <2>1. f \in [0 .. 0 -> Nat] /\ Upto(f, 0)
      OBVIOUS
    <2> QED
      BY <2>1
  <1>2. ASSUME NEW m \in S
        PROVE  m + 1 \in S
    <2>1. m \in Nat /\ m + 1 \in Nat
      OBVIOUS
    <2>2. ASSUME m + 1 < Len(code)
          PROVE  \E f \in [0 .. m + 1 -> Nat] : Upto(f, m + 1)
      <3>0. m < Len(code) /\ m + 1 \in 1 .. Len(code)
        BY <2>1, <2>2
      <3>1. PICK f \in [0 .. m -> Nat] : Upto(f, m)
        BY <3>0
      <3> DEFINE g == [i \in 0 .. m + 1 |-> IF i = m + 1 THEN f[m] + t(m + 1) ELSE f[i]]
      <3>2. t(m + 1) \in Nat /\ f[m] \in Nat
        BY <1>0, <2>1, <3>0
      <3>3. g \in [0 .. m + 1 -> Nat]
        BY <2>1, <3>2
      <3>4. g[0] = 0
        BY <2>1, <3>1
      <3>5. ASSUME NEW i \in 1 .. m + 1
            PROVE  g[i] = g[i - 1] + t(i)
        <4>0. i - 1 \in 0 .. m + 1 /\ i - 1 # m + 1 /\ i \in 0 .. m + 1
          BY <2>1
        <4>1. g[i - 1] = f[i - 1]
          BY <4>0
        <4>2. CASE i = m + 1
          BY <2>1, <4>0, <4>1, <4>2
        <4>3. CASE i # m + 1
          <5>1. g[i] = f[i] /\ i \in 1 .. m
            BY <2>1, <4>0, <4>3
          <5> QED
            BY <3>1, <4>1, <5>1
        <4> QED
          BY <4>2, <4>3
      <3> HIDE DEF g
      <3> QED
        BY <3>3, <3>4, <3>5
    <2> HIDE DEF Upto
    <2> QED
      BY <2>1, <2>2
  <1> HIDE DEF S
  <1>3. S = Nat
    <2>1. S \in SUBSET Nat
      BY DEF S
    <2> QED
      BY <1>1, <1>2, <2>1, SetInduction
  <1>4. \E f \in [0 .. k -> Nat] : Upto(f, k)
    BY <1>3 DEF S
  <1> QED
    BY <1>4 DEF t

\* ... and the model's is the last of them.
LEMMA SumOfDigits ==
    ASSUME NEW code \in Seq(Digit), Len(code) >= 1
    PROVE  \E f : Sums(code, f) /\ DigitSum(code) = f[Len(code) - 1]
  <1> DEFINE n == Len(code)
             IsSum(f) == f = [i \in 0 .. n - 1 |->
                                 IF i = 0 THEN 0 ELSE f[i - 1] + code[i] * Weight(i, n)]
             sum == CHOOSE f : IsSum(f)
  <1>1. n \in Nat /\ n - 1 \in Nat /\ n - 1 < n
    OBVIOUS
  <1>2. PICK f \in [0 .. n - 1 -> Nat] :
            /\ f[0] = 0
            /\ \A i \in 1 .. n - 1 : f[i] = f[i - 1] + code[i] * Weight(i, n)
    BY <1>1, SumsExist
  <1>3. IsSum(f)
    <2> DEFINE term(i) == IF i = 0 THEN 0 ELSE f[i - 1] + code[i] * Weight(i, n)
    <2>1. ASSUME NEW i \in 0 .. n - 1
          PROVE  f[i] = term(i)
      BY <1>1, <1>2
    <2> HIDE DEF n
    <2>2. f = [i \in 0 .. n - 1 |-> f[i]]
      BY <1>2
    <2> HIDE DEF term
    <2>3. f = [i \in 0 .. n - 1 |-> term(i)]
      BY ONLY <2>1, <2>2
    <2> QED
      BY <2>3 DEF term
  <1>4. IsSum(sum)
    <2> HIDE DEF IsSum
    <2> QED
      BY <1>3
  <1>5. DigitSum(code) = sum[n - 1]
    BY DEF DigitSum
  <1>6. Sums(code, sum)
    <2> HIDE DEF sum
    <2>1. sum[0] = 0
      BY <1>1, <1>4
    <2>2. ASSUME NEW i \in 1 .. n - 1
          PROVE  sum[i] = sum[i - 1] + code[i] * Weight(i, n)
      <3>1. i \in 0 .. n - 1 /\ i # 0
        BY <1>1
      <3> QED
        BY <1>4, <3>1
    <2> QED
      BY <2>1, <2>2 DEF Sums
  <1> HIDE DEF sum
  <1> QED
    BY <1>5, <1>6

\* Sums before the digit that differs are the same; from there on they differ by what it
\* differs by, times its weight.
LEMMA SumsApart ==
    ASSUME NEW code \in Seq(Digit), NEW other \in Seq(Digit), Len(other) = Len(code),
           Len(code) >= 1, NEW p \in 1 .. Len(code),
           \A i \in 1 .. Len(code) : i # p => other[i] = code[i]
    PROVE  /\ DigitSum(code) \in Nat
           /\ p = Len(code) => DigitSum(other) = DigitSum(code)
           /\ p < Len(code) =>
                DigitSum(other) = DigitSum(code) + (other[p] - code[p]) * Weight(p, Len(code))
  <1> DEFINE n == Len(code)
             e == (other[p] - code[p]) * Weight(p, n)
             t(i) == code[i] * Weight(i, n)
             u(i) == other[i] * Weight(i, n)
  <1>1. n \in Nat /\ n - 1 \in Nat /\ p \in Nat /\ 1 <= p /\ p <= n
    OBVIOUS
  <1>2. PICK f : Sums(code, f) /\ DigitSum(code) = f[n - 1]
    BY SumOfDigits
  <1>3. PICK g : Sums(other, g) /\ DigitSum(other) = g[n - 1]
    BY SumOfDigits
  <1>4. /\ f[0] = 0 /\ \A i \in 1 .. n - 1 : f[i] = f[i - 1] + t(i)
        /\ g[0] = 0 /\ \A i \in 1 .. n - 1 : g[i] = g[i - 1] + u(i)
    BY <1>2, <1>3 DEF Sums
  <1>5. \A i \in 1 .. n : t(i) \in Nat /\ u(i) \in Nat
    BY Term
  <1>6. \A i \in 1 .. n : i # p => u(i) = t(i)
    OBVIOUS
  <1>7. e \in Int /\ u(p) = t(p) + e
    <2>1. code[p] \in Int /\ other[p] \in Int
      <3>1. code[p] \in Digit /\ other[p] \in Digit
        BY Term
      <3> QED
        BY <3>1 DEF Digit
    <2>2. CASE Weight(p, n) = 1
      BY <2>1, <2>2
    <2>3. CASE Weight(p, n) = 3
      BY <2>1, <2>3
    <2> QED
      BY <1>1, <2>2, <2>3, Weighted
  <1> HIDE DEF t, u, e
  <1> DEFINE S == {k \in Nat : k <= n - 1 =>
                      /\ f[k] \in Nat
                      /\ k < p => g[k] = f[k]
                      /\ k >= p => g[k] = f[k] + e}
  <1>8. 0 \in S
    BY <1>1, <1>4
  <1>9. ASSUME NEW k \in S
        PROVE  k + 1 \in S
    <2>1. SUFFICES ASSUME k + 1 <= n - 1
                   PROVE  /\ f[k + 1] \in Nat
                          /\ k + 1 < p => g[k + 1] = f[k + 1]
                          /\ k + 1 >= p => g[k + 1] = f[k + 1] + e
      OBVIOUS
    <2>2. /\ k \in Nat /\ f[k] \in Nat
          /\ k < p => g[k] = f[k]
          /\ k >= p => g[k] = f[k] + e
      BY <1>1, <2>1
    <2>3. k + 1 \in 1 .. n - 1 /\ k + 1 \in 1 .. n
      BY <1>1, <2>1, <2>2
    <2>4. f[k + 1] = f[k] + t(k + 1) /\ g[k + 1] = g[k] + u(k + 1)
      <3>1. (k + 1) - 1 = k
        BY <2>2
      <3> QED
        BY <1>4, <2>3, <3>1
    <2>5. t(k + 1) \in Nat /\ u(k + 1) \in Nat
      BY <1>5, <2>3
    <2>6. f[k + 1] \in Nat
      BY <2>2, <2>4, <2>5
    <2>7. CASE k + 1 < p
      BY <1>1, <1>6, <2>2, <2>3, <2>4, <2>5, <2>6, <2>7
    <2>8. CASE k + 1 = p
      BY <1>1, <1>7, <2>2, <2>4, <2>5, <2>6, <2>8
    <2>9. CASE k + 1 > p
      BY <1>1, <1>6, <1>7, <2>2, <2>3, <2>4, <2>5, <2>6, <2>9
    <2> QED
      BY <1>1, <2>2, <2>6, <2>7, <2>8, <2>9
  <1> HIDE DEF S
  <1>10. S = Nat
    <2>1. S \in SUBSET Nat
      BY DEF S
    <2> QED
      BY <1>8, <1>9, <2>1, SetInduction
  <1>11. /\ f[n - 1] \in Nat
         /\ n - 1 < p => g[n - 1] = f[n - 1]
         /\ n - 1 >= p => g[n - 1] = f[n - 1] + e
    BY <1>1, <1>10 DEF S
  <1>12. (p = n => n - 1 < p) /\ (p < n => n - 1 >= p)
    BY <1>1
  <1> QED
    BY <1>2, <1>3, <1>11, <1>12 DEF e

\* Sums that end in the same digit differ by a multiple of ten.
LEMMA SameRemainder ==
    ASSUME NEW s \in Nat, NEW e \in Int, s + e \in Nat,
           (10 - (s % 10)) % 10 = (10 - ((s + e) % 10)) % 10
    PROVE  e % 10 = 0
  OBVIOUS

LEMMA SmallMultiples ==
    ASSUME NEW d \in -9 .. 9, d # 0
    PROVE  d % 10 # 0 /\ (d * 3) % 10 # 0
  OBVIOUS

LEMMA DigitsApart ==
    ASSUME NEW x \in Digit, NEW y \in Digit, x # y
    PROVE  x - y \in -9 .. 9 /\ x - y # 0
  BY DEF Digit

\* All of a text of digits is its digits.
LEMMA DigitsOfDigits ==
    ASSUME NEW code \in Seq(Digit)
    PROVE  Digits(code) = code
  <1> DEFINE n == Len(code)
             at == {i \in DOMAIN code : code[i] \in 0 .. 9}
             rank == [i \in at |-> Cardinality({j \in at : j <= i})]
             kept == [k \in 1 .. Cardinality(at) |-> code[CHOOSE i \in at : rank[i] = k]]
  <1>1. n \in Nat /\ DOMAIN code = 1 .. n
    OBVIOUS
  <1>2. at = 1 .. n
    BY <1>1 DEF Digit
  <1>3. Cardinality(at) = n
    <2>1. Cardinality(1 .. n) = n
      BY <1>1, FS_Interval
    <2> QED
      BY <1>2, <2>1
  <1>4. ASSUME NEW k \in 1 .. n
        PROVE  rank[k] = k
    <2>1. {j \in 1 .. n : j <= k} = 1 .. k
      BY <1>1
    <2>2. Cardinality(1 .. k) = k
      BY FS_Interval
    <2> QED
      BY <1>2, <2>1, <2>2
  <1>5. ASSUME NEW k \in 1 .. n
        PROVE  kept[k] = code[k]
    <2>1. (CHOOSE i \in at : rank[i] = k) = k
      <3> HIDE DEF rank, at
      <3>1. \A i \in at : rank[i] = k => i = k
        BY <1>2, <1>4
      <3>2. k \in at /\ rank[k] = k
        BY <1>2, <1>4
      <3> QED
        BY <3>1, <3>2
    <2> HIDE DEF rank, at
    <2> QED
      BY <1>3, <2>1
  <1>6. Digits(code) = kept
    BY DEF Digits
  <1>7. kept = [k \in 1 .. n |-> kept[k]]
    <2> HIDE DEF rank, at
    <2> QED
      BY <1>3
  <1>8. code = [k \in 1 .. n |-> code[k]]
    BY <1>1
  <1> HIDE DEF kept, n
  <1>9. kept = code
    BY ONLY <1>5, <1>7, <1>8
  <1> QED
    BY <1>6, <1>9

\* A code that differs in one digit from one with a good check digit has a bad one.
LEMMA OneDigitWrong ==
    ASSUME NEW code \in Seq(Digit), NEW other \in Seq(Digit), Len(other) = Len(code),
           NEW p \in 1 .. Len(code), other[p] # code[p],
           \A i \in 1 .. Len(code) : i # p => other[i] = code[i],
           ValidCheckDigit(code), ValidCheckDigit(other)
    PROVE  FALSE
  <1> DEFINE n == Len(code)
             d == other[p] - code[p]
             s == DigitSum(code)
  <1>1. /\ n \in 8 .. 14 /\ (10 - (s % 10)) % 10 = code[n]
        /\ (10 - (DigitSum(other) % 10)) % 10 = other[n]
    BY DigitsOfDigits DEF ValidCheckDigit
  <1>2. /\ s \in Nat
        /\ p = n => DigitSum(other) = s
        /\ p < n => DigitSum(other) = s + d * Weight(p, n)
    <2>1. Len(code) >= 1
      BY <1>1
    <2> QED
      BY <2>1, SumsApart
  <1>3. d \in -9 .. 9 /\ d # 0
    <2>1. code[p] \in Digit /\ other[p] \in Digit
      BY Term
    <2> QED
      BY <2>1, DigitsApart
  <1>4. CASE p = n
    BY <1>1, <1>2, <1>4
  <1>5. CASE p < n
    <2> DEFINE e == d * Weight(p, n)
    <2>1. e \in Int /\ e % 10 # 0
      <3>1. p \in Nat /\ n \in Nat
        OBVIOUS
      <3>2. CASE Weight(p, n) = 1
        <4> HIDE DEF d
        <4> QED
          BY <1>3, <3>2, SmallMultiples
      <3>3. CASE Weight(p, n) = 3
        <4> HIDE DEF d
        <4> QED
          BY <1>3, <3>3, SmallMultiples
      <3> QED
        BY <3>1, <3>2, <3>3, Weighted
    <2>2. DigitSum(other) = s + e /\ other[n] = code[n]
      BY <1>2, <1>5
    <2>3. s + e \in Nat
      <3>1. DigitSum(other) \in Nat
        <4>1. Len(other) >= 1
          BY <1>1
        <4> QED
          BY <4>1, SumsApart
      <3> QED
        BY <2>2, <3>1
    <2>4. (10 - (s % 10)) % 10 = (10 - ((s + e) % 10)) % 10
      BY <1>1, <2>2
    <2> HIDE DEF e, s
    <2>5. e % 10 = 0
      BY <1>2, <2>1, <2>3, <2>4, SameRemainder
    <2> QED
      BY <2>1, <2>5
  <1> QED
    BY <1>4, <1>5

\* A label with a plain code stays one, of as many digits, however it is misread.
CodesMade == \A l \in labels : l.made = "code" => l.line.kind = "code" /\ l.line.code \in Seq(Digit)
CodeInv ==
    /\ CodesMade
    /\ label.made = "code" =>
          /\ label.line.kind = "code" /\ label.line.code \in Seq(Digit)
          /\ line.kind = "code" /\ line.code \in Seq(Digit)
          /\ Len(line.code) = Len(label.line.code)

LEMMA CodeInit == Init => CodeInv
  BY DEF Init, CodeInv, CodesMade, NoLabel

LEMMA CodesMadeKept ==
    ASSUME CodesMade, NEW made, NEW trust, NEW until, NEW l, NEW price, NEW address,
           Made(made, trust, until, l, price, address),
           made = "code" => l.kind = "code" /\ l.code \in Seq(Digit)
    PROVE  CodesMade'
  BY DEF CodesMade, Made

LEMMA CodeMade ==
    ASSUME CodeInv, CodesMade', UNCHANGED <<label, line>>
    PROVE  CodeInv'
  BY DEF CodeInv

LEMMA CodeShown ==
    ASSUME CodeInv, NEW l \in labels, Show(l)
    PROVE  CodeInv'
  BY DEF CodeInv, CodesMade, Show

LEMMA CodeMisread ==
    ASSUME IInv, CodeInv, NEW slip \in Slip, Misread(slip[1], slip[2])
    PROVE  CodeInv'
  <1> DEFINE i == slip[1]
             d == slip[2]
  <1>1. d \in Digit
    BY LabelsAssumption DEF Digit
  <1>2. UNCHANGED <<labels, label>>
    BY DEF Misread, Change
  <1>3. CodesMade'
    BY <1>2 DEF CodeInv, CodesMade
  <1>4. CASE /\ line.kind = "code" /\ i \in DOMAIN line.code
             /\ Change([line EXCEPT !.code[i] = d])
    <2>1. line = [kind |-> "code", code |-> line.code]
      BY <1>4 DEF IInv, LineOK
    <2>2. line' = [kind |-> "code", code |-> [line.code EXCEPT ![i] = d]]
      BY <1>4, <2>1 DEF Change
    <2>3. ASSUME line.code \in Seq(Digit)
          PROVE  line'.code \in Seq(Digit) /\ Len(line'.code) = Len(line.code)
      <3>1. line'.code = [line.code EXCEPT ![i] = d]
        BY <2>2
      <3> HIDE DEF i, d
      <3> QED
        BY <1>1, <1>4, <2>3, <3>1
    <2>4. line'.kind = "code"
      BY <2>2
    <2> QED
      BY <1>2, <1>3, <2>3, <2>4 DEF CodeInv
  <1>5. CASE line.kind = "link"
    BY <1>2, <1>3, <1>5 DEF CodeInv
  <1> QED
    BY <1>4, <1>5 DEF Misread

LEMMA CodeStep == IInv /\ CodeInv /\ [Next]_vars => CodeInv'
  <1> SUFFICES ASSUME IInv, CodeInv, [Next]_vars PROVE CodeInv'
    OBVIOUS
  <1>0. CodesMade
    BY DEF CodeInv
  <1>1. ASSUME NEW r \in RetailRequest, PackRetail(r) \/ PackRetailUrl(r)
        PROVE  CodeInv'
    <2>1. CodesMade'
      BY <1>0, <1>1, CodesMadeKept DEF PackRetail, PackRetailUrl
    <2> QED
      BY <1>1, <2>1, CodeMade DEF PackRetail, PackRetailUrl, Made
  <1>2. ASSUME NEW r \in Gs1Request, PackGs1(r)
        PROVE  CodeInv'
    <2>1. CodesMade'
      BY <1>0, <1>2, CodesMadeKept DEF PackGs1
    <2> QED
      BY <1>2, <2>1, CodeMade DEF PackGs1, Made
  <1>3. ASSUME NEW r \in EslRequest, PackEsl(r) \/ PackEslPacket(r)
        PROVE  CodeInv'
    <2>1. MakeEsl(r)
      BY <1>3 DEF PackEsl, PackEslPacket
    <2>2. CodesMade'
      BY <1>0, <2>1, CodesMadeKept DEF MakeEsl
    <2> QED
      BY <2>1, <2>2, CodeMade DEF MakeEsl, Made
  <1>4. ASSUME NEW c \in Code, PrintCode(c)
        PROVE  CodeInv'
    <2>1. c \in Seq(Digit)
      BY LabelsAssumption DEF Digit
    <2>2. CodesMade'
      BY <1>0, <1>4, <2>1, CodesMadeKept DEF PrintCode, CodeLine
    <2> QED
      BY <1>4, <2>2, CodeMade DEF PrintCode, Made
  <1>5. ASSUME NEW l \in labels, Show(l) PROVE CodeInv'
    BY <1>5, CodeShown
  <1>6. ASSUME NEW slip \in Slip, Misread(slip[1], slip[2]) PROVE CodeInv'
    BY <1>6, CodeMisread
  <1>7. ASSUME ChangeLink \/ AppendParameter \/ ChangePacket
        PROVE  CodeInv'
    <2>1. line.kind # "code" /\ UNCHANGED <<labels, label>>
      BY <1>7 DEF ChangeLink, AppendParameter, ChangePacket, Change
    <2> QED
      BY <2>1 DEF CodeInv, CodesMade
  <1>8. CASE UNCHANGED <<labels, label, line>>
    BY <1>8 DEF CodeInv, CodesMade
  <1> QED
    BY <1>1, <1>2, <1>3, <1>4, <1>5, <1>6, <1>7, <1>8
       DEF Next, vars, Tick, VerifyRetail, VerifyRetailUrl, VerifyGs1, VerifyEsl, Scan, Say

\* Only the daemon calls a plain code valid, and only with a good check digit.
LEMMA ValidCode ==
    ASSUME UsableInv, line.kind = "code", answer.verdict = "valid"
    PROVE  ValidCheckDigit(line.code)
  <1>1. Verifies(answer.by, answer.trust, answer.session, "valid")
    BY DEF UsableInv, NoAnswer
  <1>2. /\ Gs1Verdict(answer.trust) # "valid" /\ EslVerdict(answer.trust) # "valid"
        /\ \A via : RetailVerdict(via, answer.trust, answer.session) # "valid"
    BY DEF Gs1Verdict, EslVerdict, RetailVerdict
  <1>3. ScanVerdict(answer.trust) = "valid"
    BY <1>1, <1>2 DEF Verifies
  <1> QED
    BY <1>3 DEF ScanVerdict

LEMMA Found == UsableInv /\ CodeInv => MisreadFound
  <1> DEFINE wrong == {i \in DOMAIN line.code : line.code[i] # label.line.code[i]}
  <1> SUFFICES ASSUME UsableInv, CodeInv, label.made = "code",
                      ValidCheckDigit(label.line.code), Cardinality(wrong) = 1,
                      answer.verdict = "valid"
               PROVE  FALSE
    BY DEF MisreadFound
  <1> DEFINE code == label.line.code
             other == line.code
  <1>1. /\ code \in Seq(Digit) /\ other \in Seq(Digit) /\ Len(other) = Len(code)
        /\ line.kind = "code"
    BY DEF CodeInv
  <1>2. ValidCheckDigit(other)
    BY <1>1, ValidCode
  <1>3. DOMAIN other = 1 .. Len(code) /\ Len(code) \in Nat
    BY <1>1
  <1>4. IsFiniteSet(wrong)
    <2>1. IsFiniteSet(1 .. Len(code))
      BY <1>3, FS_Interval
    <2>2. wrong \in SUBSET (1 .. Len(code))
      BY <1>3
    <2> HIDE DEF wrong
    <2> QED
      BY <2>1, <2>2, FS_Subset
  <1>5. PICK p : wrong = {p}
    <2> HIDE DEF wrong
    <2> QED
      BY <1>4, FS_Singleton
  <1>6. p \in 1 .. Len(code) /\ other[p] # code[p]
    BY <1>3, <1>5
  <1>7. \A i \in 1 .. Len(code) : i # p => other[i] = code[i]
    BY <1>3, <1>5
  <1>8. ValidCheckDigit(code)
    OBVIOUS
  <1> HIDE DEF code, other, wrong
  <1> QED
    BY <1>1, <1>2, <1>6, <1>7, <1>8, OneDigitWrong

\* One digit of a product code that is read wrong is found out, for every code and every
\* digit (gs1.rs, validate_gtin_check_digit; main.rs, the scan daemon).
THEOREM MisreadsFound == Spec => []MisreadFound
  <1>1. Spec => []UsableInv
    BY UsableInit, UsableStep, Invariance, PTL DEF Spec
  <1>2. Spec => []CodeInv
    BY CodeInit, CodeStep, Invariance, PTL DEF Spec
  <1> QED
    BY <1>1, <1>2, Found, PTL
=============================================================================
