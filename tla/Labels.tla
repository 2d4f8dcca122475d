------------------------------- MODULE Labels -------------------------------
(***************************************************************************)
(* Signed labels: retail links, GS1 links and packets for electronic shelf *)
(* labels, made by the command line or the MCP server, misread, altered or *)
(* grown on the way, and looked at by four verifiers, one of them the scan *)
(* daemon, which first has to find out what it is looking at.              *)
(* A text is a sequence of characters: 0 to 9 are the digits, two stand    *)
(* for the slash and the question mark that addresses are cut at, all      *)
(* others separate nothing. Signatures are perfect: one exists only if its *)
(* key made it.                                                            *)
(***************************************************************************)
EXTENDS Integers, Sequences, FiniteSets

CONSTANTS
    Key,          \* signing keys
    Kid,          \* names of keys
    RetailRequest, Gs1Request, EslRequest,   \* what is asked of the packing commands
    Code,         \* plain product codes in circulation
    Slip,         \* <<i, d>>: the i-th character is read as the digit d
    Narrow, Wide, \* the numbers of 32 bits and of 64 bits are those below
    MaxTime,      \* bound on the clock
    MaxLabels,    \* bound on the labels made
    MaxChanges,   \* bound on the changes to one label
    None,         \* no path, no role, nobody trusted
    Garbled       \* a text that decodes to nothing

Text == Seq(Nat)
Slash == 10
Question == 11

\* The addresses links are made with: an ordinary one, one with a query, one whose query
\* begins with a parameter p of its own, and those that end in a segment 01 or 21.
Address == {"plain", "query", "p", "01", "21"}

\* What the address of a retail link comes with: whether its text has a /01/, and the code
\* that a reader of GS1 links finds in its path.
Base == [address : Address, ai : BOOLEAN, gtin : Text \union {None}]
Role == {"customer", "associate"}
Via == {"cli", "mcp"}
Trust == [kid : Kid, key : Key]

\* What an envelope and a packet are, if they are not garbled
Header == [kid : Kid, typ : {"retail-product-link"}]
Payload == [sku : Text, upc : Text \union {None}, role : Role \union {None}, expires_at : Nat]
EslData == [price : Nat, expires_at : Nat]
SignedRetailPayload ==
    [header : Header, payload : Payload,
     signature : [key : Key, over : [header : Header, payload : Payload]]]
SignedPacket == [data : EslData, signature : [key : Key, over : EslData]]

ASSUME LabelsAssumption ==
    /\ RetailRequest \subseteq [trust : Trust, sku : Text, upc : Text \union {None},
          role : Role \union {None}, wait : 0 .. Wide - 1, base : Base]
    /\ Gs1Request \subseteq [trust : Trust, gtin : Text, sku : Text, wait : 0 .. Wide - 1,
          address : Address, lead : BOOLEAN]
    /\ EslRequest \subseteq [trust : Trust, via : Via, price : Nat, until : Nat]
    /\ Code \subseteq Seq(0 .. 9) /\ Slip \subseteq (Nat \ {0}) \X (0 .. 9)
    /\ Narrow \in Nat \ {0} /\ Wide \in Nat \ {0}
    /\ MaxTime \in Nat /\ MaxLabels \in Nat /\ MaxChanges \in Nat
    /\ None \notin Text /\ None \notin Trust
    /\ Garbled \notin SignedRetailPayload \union SignedPacket

-----------------------------------------------------------------------------
(* Product codes *)

\* A fault: weights of one and two.
Weights12(i, n) == IF (n - i) % 2 = 1 THEN 2 ELSE 1

\* The weight of the i-th of n digits: three and one, from the right.
Weight(i, n) == IF (n - i) % 2 = 1 THEN 3 ELSE 1

\* The sum of the digits before the last one, each by its weight
DigitSum(code) ==
    LET n == Len(code)
        sum[i \in 0 .. n - 1] ==
            IF i = 0 THEN 0 ELSE sum[i - 1] + code[i] * Weight(i, n)
    IN  sum[n - 1]

\* The digits of a text, in their order; whatever else is in it is dropped.
Digits(text) ==
    LET at == {i \in DOMAIN text : text[i] \in 0 .. 9}
        rank == [i \in at |-> Cardinality({j \in at : j <= i})]
    IN  [k \in 1 .. Cardinality(at) |-> text[CHOOSE i \in at : rank[i] = k]]

\* validate_gtin_check_digit
ValidCheckDigit(text) ==
    LET code == Digits(text)
    IN  /\ Len(code) \in 8 .. 14
        /\ (10 - (DigitSum(code) % 10)) % 10 = code[Len(code)]

\* trim_start_matches('0')
Trim(text) ==
    LET zeros == {k \in DOMAIN text : \A j \in 1 .. k : text[j] = 0}
    IN  SubSeq(text, Cardinality(zeros) + 1, Len(text))

\* What parse_gs1_digital_link finds of a text in a path: its first segment, empty ones
\* aside, before any question mark. (No segment of a code is 01 or 21 itself.)
FirstSegment(text) ==
    LET path == {i \in DOMAIN text : \A j \in 1 .. i : text[j] # Question}
        before == {i \in path : \A j \in 1 .. i : text[j] = Slash}
        first == {i \in path \ before : \A j \in 1 .. i : text[j] = Slash => j \in before}
        skipped == Cardinality(before)
    IN  IF first = {} THEN None
        ELSE SubSeq(text, skipped + 1, skipped + Cardinality(first))

-----------------------------------------------------------------------------
(* What is signed *)

Sign(key, over) == [key |-> key, over |-> over]

\* sign_retail_payload; the envelope is text in the link.
Envelope(trust, payload) ==
    LET header == [kid |-> trust.kid, typ |-> "retail-product-link"]
    IN  [header |-> header, payload |-> payload,
         signature |-> Sign(trust.key, [header |-> header, payload |-> payload])]

\* The first 25 bytes of encode_esl_packet, and the packet.
Packet(key, data) == [data |-> data, signature |-> Sign(key, data)]

\* A link: what its readers find where, the envelope that was put at its end, and whether
\* another parameter follows that. Its text has a /01/ or not, a code is found in its
\* path or none, and before the envelope stands a parameter p of another's, or a question
\* mark that hides the parameter from the reader of GS1 links, or nothing of the kind.
Link(at, env) == [kind |-> "link", at |-> at, env |-> env, more |-> FALSE]
EslLine(packet) == [kind |-> "esl", packet |-> packet]
CodeLine(code) == [kind |-> "code", code |-> code]
NoLine == [kind |-> "none"]

VARIABLES
    labels,    \* the labels made, each with what was asked for
    label,     \* the label that is looked at
    line,      \* what a scanner or a camera makes of it
    changes,   \* how often it was changed
    clock,     \* the time in seconds
    answer     \* what was last said of this line at this time

vars == <<labels, label, line, changes, clock, answer>>

NoAnswer == [by |-> "nobody", trust |-> None, session |-> FALSE, verdict |-> "none"]
NoLabel == [made |-> "none", trust |-> None, until |-> 0, line |-> NoLine, price |-> 0,
            address |-> "plain"]

Init ==
    /\ labels = {} /\ label = NoLabel /\ line = NoLine /\ changes = 0
    /\ clock = 1
    /\ answer = NoAnswer

-----------------------------------------------------------------------------
(* Making labels *)

\* expires_in_secs, as all four packing commands count it: none means never, and the
\* sum of 64 bits wraps around (a build with overflow checks stops instead).
ExpiresAt(wait) == IF wait > 0 THEN (clock + wait) % Wide ELSE 0
Until(wait) == IF wait > 0 THEN clock + wait ELSE 0

Made(made, trust, until, l, price, address) ==
    /\ Cardinality(labels) < MaxLabels
    /\ labels' = labels \union
          {[made |-> made, trust |-> trust, until |-> until, line |-> l, price |-> price,
            address |-> address]}
    /\ answer' = NoAnswer
    /\ UNCHANGED <<label, line, changes, clock>>

\* pack-retail: the envelope goes to the end of the address, whatever that has already.
RetailAt(base) ==
    [ai |-> base.ai, gtin |-> base.gtin,
     before |-> IF base.address = "p" THEN "p" ELSE "nothing"]

PackRetail(r) ==
    LET payload == [sku |-> r.sku, upc |-> r.upc, role |-> r.role,
                    expires_at |-> ExpiresAt(r.wait)]
    IN  Made("retail", r.trust, Until(r.wait),
             Link(RetailAt(r.base), Envelope(r.trust, payload)), 0, r.base.address)

\* pack_retail_url, which cannot be given a product code
PackRetailUrl(r) == r.upc = None /\ PackRetail(r)

\* build_gs1_digital_link, as its readers find it: the code is written into the path as
\* it is, and after an address with a query there is no path. A lot number or a store's
\* comes first in the query, and then a question mark of the code's hides that instead
\* of the envelope.
Gs1At(r) ==
    [ai |-> TRUE,
     gtin |-> CASE r.address = "plain" -> FirstSegment(r.gtin)
                [] r.address = "01" -> <<0, 1>>
                [] OTHER -> None,
     before |-> IF r.address = "p" THEN "p"
                ELSE IF ~r.lead /\ \E i \in DOMAIN r.gtin : r.gtin[i] = Question
                     THEN "question" ELSE "nothing"]

\* pack-gs1 and pack_gs1_digital_link: only for a code with a good check digit.
PackGs1(r) ==
    LET payload == [sku |-> r.sku, upc |-> r.gtin, role |-> None,
                    expires_at |-> ExpiresAt(r.wait)]
    IN  /\ Made("gs1", r.trust, Until(r.wait), Link(Gs1At(r), Envelope(r.trust, payload)), 0,
                r.address)
        /\ ValidCheckDigit(r.gtin)

\* A fault: the number is written as it was given.
AsGiven(n) == n
\* A fault: sixteen bits instead of thirty-two, here a half of them.
Halved(n) == n % (Narrow \div 2)

\* `as u32` of the MCP tool
Narrowed(n) == n % Narrow

MakeEsl(r) ==
    Made("esl", r.trust, r.until,
         EslLine(Packet(r.trust.key, [price |-> Narrowed(r.price),
                                      expires_at |-> Narrowed(r.until)])),
         r.price, "plain")

\* esl pack, whose arguments must fit, and pack_esl_packet
PackEsl(r) == r.via = "cli" /\ r.price < Narrow /\ r.until < Narrow /\ MakeEsl(r)
PackEslPacket(r) == r.via = "mcp" /\ MakeEsl(r)

\* A product code printed by others
PrintCode(c) == Made("code", None, 0, CodeLine(c), 0, "plain")

-----------------------------------------------------------------------------
(* The way from the label to a verifier *)

Show(l) ==
    /\ label' = l /\ line' = l.line /\ changes' = 0 /\ answer' = NoAnswer
    /\ UNCHANGED <<labels, clock>>

Change(l) ==
    /\ changes < MaxChanges
    /\ line' = l /\ changes' = changes + 1 /\ answer' = NoAnswer
    /\ UNCHANGED <<labels, label, clock>>

\* One character of a code is read as another digit.
Misread(i, d) ==
    \/ line.kind = "code" /\ i \in DOMAIN line.code /\ Change([line EXCEPT !.code[i] = d])
    \/ /\ line.kind = "link" /\ line.at.gtin # None /\ i \in DOMAIN line.at.gtin
       /\ Change([line EXCEPT !.at.gtin[i] = d])

\* The envelope of a link is damaged, or some part of it is that of another link.
ChangeLink ==
    /\ line.kind = "link" /\ line.env # Garbled
    /\ \/ Change([line EXCEPT !.env = Garbled])
       \/ \E l \in labels :
             /\ l.line.kind = "link"
             /\ \/ Change([line EXCEPT !.env = l.line.env])
                \/ Change([line EXCEPT !.env.header = l.line.env.header])
                \/ Change([line EXCEPT !.env.payload = l.line.env.payload])
                \/ Change([line EXCEPT !.env.payload.role = l.line.env.payload.role])

\* Another program appends a parameter, as campaign trackers do.
AppendParameter == line.kind = "link" /\ Change([line EXCEPT !.more = TRUE])

\* The same for a packet
ChangePacket ==
    /\ line.kind = "esl" /\ line.packet # Garbled
    /\ \/ Change([line EXCEPT !.packet = Garbled])
       \/ \E l \in labels :
             l.line.kind = "esl" /\ Change([line EXCEPT !.packet.data = l.line.packet.data])

Tick ==
    /\ clock < MaxTime /\ clock' = clock + 1 /\ answer' = NoAnswer
    /\ UNCHANGED <<labels, label, line, changes>>

-----------------------------------------------------------------------------
(* Verifying *)

\* A fault: the last second counts.
RetailUntilAfter(expires_at) == expires_at > 0 => clock <= expires_at

\* The last second does not count for links ...
RetailLive(expires_at) == expires_at > 0 => clock < expires_at
\* ... but it does for packets.
EslLive(expires_at) == expires_at > 0 => clock <= expires_at

\* A fault: the header is not signed.
PayloadHolds(env, trust) ==
    /\ env # Garbled /\ env.header.kid = trust.kid
    /\ env.signature.key = trust.key /\ env.signature.over.payload.sku = env.payload.sku
    /\ RetailLive(env.payload.expires_at)

\* verify_retail_payload; the trust store has one signer.
EnvelopeHolds(env, trust) ==
    /\ env # Garbled
    /\ env.header.typ = "retail-product-link" /\ env.header.kid = trust.kid
    /\ RetailLive(env.payload.expires_at)
    /\ env.signature = Sign(trust.key, [header |-> env.header, payload |-> env.payload])

\* A fault: the link's code is compared with the item number alone.
GtinIsSku(gtin, payload) == Trim(gtin) = Trim(payload.sku)

\* The code in the path is the item number or the product code, leading zeros aside.
GtinMatches(gtin, payload) ==
    \/ Trim(gtin) = Trim(payload.sku)
    \/ payload.upc # None /\ Trim(payload.upc) # <<>> /\ Trim(gtin) = Trim(payload.upc)

\* verify_gs1_digital_link: the check digit is reported and not required, and the role
\* is not looked at. Parameters after p are cut off, and of several p the last counts.
Gs1Verdict(trust) ==
    IF /\ line.kind = "link" /\ line.at.gtin # None /\ line.at.before # "question"
       /\ EnvelopeHolds(line.env, trust) /\ GtinMatches(line.at.gtin, line.env.payload)
    THEN "valid" ELSE "invalid"

\* What a verifier of retail links takes for the envelope: the first parameter p. The MCP
\* tool cuts off what follows it; for the command line and the daemon it is part of the
\* text.
EnvelopeIn(via) ==
    IF line.at.before = "p" \/ (line.more /\ via # "mcp") THEN Garbled ELSE line.env

\* authorize_retail_action
Authorized(payload, session) == payload.role = "associate" => session

\* verify-retail and verify_retail_url
RetailVerdict(via, trust, session) ==
    IF line.kind = "link" /\ EnvelopeHolds(EnvelopeIn(via), trust)
    THEN IF Authorized(line.env.payload, session) THEN "valid" ELSE "denied"
    ELSE "invalid"

\* esl verify and decode_esl_packet
EslVerdict(trust) ==
    IF /\ line.kind = "esl" /\ line.packet # Garbled
       /\ EslLive(line.packet.data.expires_at)
       /\ line.packet.signature = Sign(trust.key, line.packet.data)
    THEN "valid" ELSE "invalid"

\* One turn of the scan daemon's loop, which was started with a key or without. It
\* looks at a link with a /01/ in it as a GS1 link, at another as a retail link, for
\* which it asks nobody to authorize anything.
ScanVerdict(trust) ==
    CASE trust # None /\ line.kind = "link" /\ line.at.ai -> Gs1Verdict(trust)
      [] trust # None /\ line.kind = "link" /\ ~line.at.ai ->
            IF EnvelopeHolds(EnvelopeIn("daemon"), trust) THEN "valid" ELSE "invalid"
      [] trust # None /\ line.kind = "esl" -> EslVerdict(trust)
      [] line.kind = "code" /\ Len(line.code) \in 8 .. 14 ->
            IF ValidCheckDigit(line.code) THEN "valid" ELSE "invalid"
      [] OTHER -> "unrecognized"

Say(by, trust, session, verdict) ==
    /\ line # NoLine /\ answer = NoAnswer
    /\ answer' = [by |-> by, trust |-> trust, session |-> session, verdict |-> verdict]
    /\ UNCHANGED <<labels, label, line, changes, clock>>

VerifyRetail(trust, session) ==
    Say("cli", trust, session, RetailVerdict("cli", trust, session))
VerifyRetailUrl(trust, session) ==
    Say("mcp", trust, session, RetailVerdict("mcp", trust, session))
VerifyGs1(trust) == Say("gs1", trust, FALSE, Gs1Verdict(trust))
VerifyEsl(trust) == Say("esl", trust, FALSE, EslVerdict(trust))
Scan(trust) == Say("daemon", trust, FALSE, ScanVerdict(trust))

Next ==
    \/ \E r \in RetailRequest : PackRetail(r) \/ PackRetailUrl(r)
    \/ \E r \in Gs1Request : PackGs1(r)
    \/ \E r \in EslRequest : PackEsl(r) \/ PackEslPacket(r)
    \/ \E c \in Code : PrintCode(c)
    \/ \E l \in labels : Show(l)
    \/ \E slip \in Slip : Misread(slip[1], slip[2])
    \/ ChangeLink \/ AppendParameter \/ ChangePacket
    \/ Tick
    \/ \E trust \in Trust, session \in BOOLEAN :
          VerifyRetail(trust, session) \/ VerifyRetailUrl(trust, session)
    \/ \E trust \in Trust : VerifyGs1(trust) \/ VerifyEsl(trust)
    \/ \E trust \in Trust \union {None} : Scan(trust)

Spec == Init /\ [][Next]_vars

-----------------------------------------------------------------------------
(* Properties *)

Kind == {"none", "link", "esl", "code"}
Verdict == {"none", "valid", "invalid", "denied", "unrecognized"}

\* The types: every label names a key unless it is a plain code, what was made stays
\* within 64 bits, and every verifier but the daemon had a key to verify with.
TypeOK ==
    /\ \A l \in labels \union {label} :
          /\ l.line.kind \in Kind /\ l.until \in Nat
          /\ l.made \in {"retail", "gs1", "esl"} => l.trust \in Trust
          /\ l.line.kind = "esl" => l.line.packet.data.expires_at \in 0 .. Narrow - 1
          /\ l.line.kind = "link" => l.line.env.payload.expires_at \in 0 .. Wide - 1
    /\ label \in labels \union {NoLabel}
    /\ line.kind \in Kind /\ changes \in 0 .. MaxChanges /\ clock \in Nat
    /\ answer.verdict \in Verdict
    /\ answer.by \notin {"nobody", "daemon"} => answer.trust \in Trust

\* What is signed in line l was signed by this label's maker as a whole.
SameContent(l, k) ==
    \/ l.kind = "link" /\ k.line.kind = "link" /\ l.env = k.line.env
    \/ l.kind = "esl" /\ k.line.kind = "esl" /\ l.packet = k.line.packet

\* However a link or packet was put together, a verifier that calls it valid has before
\* it, whole, what was made with the key it trusts; and as a GS1 link only with the
\* product in its path (lib.rs, verify_retail_payload; gs1.rs, verify_gs1_digital_link).
ValidIsMade ==
    answer.verdict = "valid" /\ line.kind # "code" =>
        /\ \E k \in labels : SameContent(line, k) /\ k.trust.key = answer.trust.key
        /\ (answer.by = "gs1" \/ (answer.by = "daemon" /\ line.kind = "link" /\ line.at.ai))
              => Trim(line.at.gtin) \in
                    {Trim(t) : t \in {line.env.payload.sku, line.env.payload.upc} \ {None}}

\* What a verifier calls valid has not outlived what its maker was asked for: links end
\* with that second, packets after it, and only a packet for which the MCP tool was
\* asked for a multiple of 2^32 never ends (or a link whose time is one of 2^64).
NotBeyondAsked ==
    answer.verdict = "valid" /\ line.kind # "code" =>
        \E k \in labels :
            /\ SameContent(line, k) /\ k.trust.key = answer.trust.key
            /\ \/ k.until = 0
               \/ line.kind = "link" /\ (clock < k.until \/ k.until % Wide = 0)
               \/ line.kind = "esl" /\ (clock <= k.until \/ k.until % Narrow = 0)

AllZeros(code) == Trim(code) = <<>>

\* A text that an address is not cut at
Whole(text) == \A i \in DOMAIN text : text[i] \notin {Slash, Question}

\* The verifiers that can be used for a label. None reads a link at an address that has
\* a parameter p already, unless as a GS1 link. The daemon takes a retail link for a GS1
\* link if its address has a /01/. And a GS1 link is read as one only if its address is
\* an ordinary one and its code has no slash and no question mark, although pack-gs1
\* takes any code whose digits are right. (A GTIN of zeros cannot be told from a missing
\* product code.)
MeantFor(k, by) ==
    /\ k.address # "p"
    /\ CASE k.made = "retail" -> by \in Via \/ (by = "daemon" /\ ~k.line.at.ai)
         [] k.made = "gs1" ->
               \/ by \in Via
               \/ /\ by \in {"gs1", "daemon"} /\ k.address = "plain"
                  /\ Whole(k.line.env.payload.upc) /\ ~AllZeros(k.line.env.payload.upc)
         [] k.made = "esl" -> by \in {"esl", "daemon"}
         [] OTHER -> FALSE

\* What was made with numbers that fit is called valid, unchanged, by every verifier that
\* can be used for it and has the key, until it expires, and shows the price asked for.
\* (A session is needed for associates.)
UsableAsAsked ==
    /\ line = label.line
    /\ MeantFor(label, answer.by) /\ answer.trust = label.trust
    /\ label.until = 0 \/ clock < label.until
    /\ label.made = "esl" => label.until < Narrow /\ label.price < Narrow
    /\ label.made \in {"retail", "gs1"} => label.until < Wide
    /\ answer.by \in Via => Authorized(line.env.payload, answer.session)
    => /\ answer.verdict = "valid"
       /\ label.made = "esl" => line.packet.data.price = label.price

\* One digit of a product code read wrong is always found out.
MisreadFound ==
    /\ label.made = "code" /\ ValidCheckDigit(label.line.code)
    /\ Cardinality({i \in DOMAIN line.code : line.code[i] # label.line.code[i]}) = 1
    => answer.verdict # "valid"
=============================================================================
