# AegisQR: a TLA+ model

AegisQR packs a file or a directory into one encrypted, signed *capsule* file, moves it across
an air gap as QR packets, verifies it and restores it into a directory. Nothing in it listens on
a network and nothing runs a payload. It is a library, `aegisqr-core`, called by short-lived
programs: a command line, a guided terminal interface and a server that answers JSON lines on
stdin. Each call is sequential. What makes the system hard is what lies between the calls: a file
system several calls share, files that are first truncated and then written, capsule files and
packets that come back changed, a clock, and calls that are cut off and made again.

This directory holds TLA+ models of that, TLC configurations that check them on small instances,
and proofs, checked by TLAPS, of what holds for every value of the constants.
`lib.rs` below is `src/crates/aegisqr-core/src/lib.rs`.

## Inventory

| component | state it keeps | operations | works with |
|---|---|---|---|
| Capsule format (`lib.rs`) | the capsule file | `pack`, `verify_capsule`, `inspect_header`, `decrypt_agent_index`, `unpack_capsule`, `stage_capsule` | sidecar, trust store, restore, transport |
| QR transport (`lib.rs`) | a directory of packet files | `export_qr_packets`, `import_qr_packets` | reads and writes capsule files |
| Restore (`lib.rs`) | the output directory | `restore_tar`, `write_payload_file` | called by `restore_capsule` on decrypted bytes |
| Trust store (`lib.rs`) | a JSON file, one key for each signer id | `add_signer`, `is_trusted` | strict `verify`, retail links, scan daemon |
| AICX sidecar (`lib.rs`) | none | `resolve_sidecar`, `parse_and_validate_sidecar` | what it returns is embedded by `pack` |
| Retail links (`lib.rs`) | none; links carry their state | sign, verify, authorize | trust store, clock, GS1, scan daemon |
| GS1 links (`gs1.rs`) | none | check digits, build, parse, verify | retail links, scan daemon |
| ESL payloads (`esl.rs`) | none | encode; decode with signature and expiry | MCP server, scan daemon, clock |
| Custody records (`a2a.rs`) | none; two signed records | sign, verify, `verify_complete_custody_handoff` | command line, MCP server |
| License manager (`license.rs`, `aegisqr-cli`) | license files and key files in several places | status, install, show, reminders | clock, every command |
| Hybrid signatures (`pqc.rs`) | none | a simulation on two keys | nothing calls it |
| Repository handoff (`aegisqr-repo`) | none; a state in the result | `validate_handoff_package` | capsule verification, approvals, clock; not a member of the workspace |
| MCP server (`aegisqr-mcp`) | none between requests | one dispatch for each line | the core's operations |
| Scan daemon (`aegisqr-cli`) | none; a loop on stdin | classify a scanned line, verify it | retail links, GS1, ESL |
| Command line (`aegisqr-cli`) | none | one branch for each command | the core's operations |
| Terminal interface (`aegisqr-ui`) | menus | the same calls, by prompts | the core's operations |
| Installers (`packaging/`) | the installation directory | replace it, link the binary | file system |
| Stub crates, recovery helper | none | re-exports, one set difference | nothing |

How they interact: `pack` makes the file everything else reads. `export` reads it and writes packet
files; `import` reads packet files and writes a capsule file again. `verify` and the two restoring
calls each read the file anew: a `verify` that accepted says nothing of the bytes a later restore
reads, so restore repeats the checks. There are no locks. Calls meet only in files and in time.

What makes each component correct, and what is hard about it:

- *Capsule*: what `pack` makes is accepted and restored. What is accepted was signed as a whole, in
  the parts the signature covers; what is decrypted was encrypted for the bundle id and policy shown.
  Hard: the tables in the file digest each other and the signature digests them, so order matters;
  fields are replaced in any combination, other tools sign again, the file changes between two calls.
- *Transport*: the importer's output is never a mixture. A complete set of packets is enough to get
  the capsule back. Hard: truncate-then-write, stale packets of earlier exports, two exporters at once,
  losses, copies, damage, crashes, a directory that changes while it is listed.
- *Restore*: quarantine has no exception. No entry replaces another. A call that was cut off can be
  made again. Hard: entries in any order, payloads that themselves contain a `quarantine`, files left
  half written, what other programs left in the output directory.
- *Retail, GS1, ESL, daemon*: valid is only what an authorized key signed, for this object, at this time; and
  what was made is valid where it is meant to be. Hard: comparisons at the last second, numbers that are narrowed
  or overflow, four verifiers that do not read a link in the same way, addresses that have a path or a query already, codes
  with leading zeros or with more than digits in them.
- *Custody*: a handoff that verifies is one both sides signed, about the same manifest. Hard: two files that are
  read one after the other, a receipt that names its manifest by id only, JSON that loses a number.
- *License*: the status is that of an intact license. Hard: the search order, rotating keys, a new
  license shadowed by an old one, the grace period, an installation that is cut off.
- *Sidecar*: what is embedded belongs to the payload unless strictness was waived. Hard: archive and sidecar are
  read at different moments, and the tools that make them run meanwhile.
- *MCP server*: one answer for each request, in order, and a true one. Hard: lines sent ahead, unreadable lines,
  a call that fails half way, an end by force, a library that prints to the same output.

`PROJECT.json` lists these hazards one by one, at their lines, with the properties that answer them.

## The modules

`QrTransport`, `Restore`, `Capsule`, `License`, `Labels` and `Custody` are independent of one another: each models a set of
calls around one shared piece of the file system, or around what is handed on. `McpServer` is composed with
`Sidecar`: the server's loop runs `pack` step by step. `AirGap` is the abstract specification of the transport.
`MC*` modules give the constants of the small instances. `*_proofs` modules hold the theorems.

A few operators are marked "A fault". They are not part of any specification. Each is a plausible
mistake in one definition, and putting it in that definition's place makes TLC report the property
that is there to catch it; `PROJECT.json` pairs them under `mutants`.

### QrTransport and AirGap

| model | code |
|---|---|
| `bundle`, `PackOpen`, `PackWrite`, `PackCrash` | `pack_to_file`, `write_capsule_file`: `fs::write` truncates and then writes |
| `exp[e]`, `StartExport` | one call of `export_qr_packets`; the bundle is read once |
| `OpenPacket`, `WritePacket` | `fs::write` of packet `index` with extension `ext`, `.cbor` before `.json` |
| `PngFails` | the early return with `--png` after a `.json` file was written |
| `files` | the packet directory. `Torn` is a file that does not parse |
| `LoseFile`, `CopyFile`, `DamageFile` | the way across the gap |
| `imp`, `StartImport`, `ReadEntry`, `MissEntry`, `EndScan` | one call of `import_qr_packets`: `read_dir` and the fallback to `.json` |
| `Acceptable` | all checks of the import, the digest of the reassembled bytes last |
| `OpenOut`, `WriteOut` | `fs::write` of the output |

Two exporters may write one file at once. The one that truncated last wins, and if the other writes
between, the end of a longer text may remain: `Written` leaves both outcomes open.

`AirGap` knows a set of sealed capsules, the output, and a delivery that is under way. It may give up
the old output only once it has committed to one sealed capsule. The refinement maps `received` to
the capsule whose bytes are in the output and `pending` to the one whose bytes the importer holds
when it has truncated the output.

### Restore

The payload is the set of entries of the archive, the output directory a function from paths to
nodes. `TakeEntry` is one turn of the loop of `restore_tar`: `safe_join`, the check for links,
`create_dir_all`. `OpenFile` and `WriteFile` are `write_payload_file`, with the quarantine directory
made beside the nominal place. A single file, which `restore_capsule` writes without an archive, is an archive
of one entry at the top. Names are abstract: `Executable` are those `is_executable_name` accepts, and
`refused` entries are links and paths that would leave the output directory. Entries come in any order
that lists a directory before what is in it, as `WalkDir` does. `Crash` cuts a call off anywhere; it is then made
again. An archive does not name a path twice (`RestoreAssumption`): `prepare_payload` walks a
file system, where paths are unique.

### Capsule

`Draft` is the capsule as `pack` first builds it; `Chunked`, `Counted`, `Sectioned` and `Signed` are the
four statements at its end, in their order. `WellFormed` is `verify_capsule_structure`,
`SignatureHolds` is `verify_signature`, `Accepts` is `verify_capsule`. `ReadFile`,
`CheckRead` and `Decrypt` are the steps of `restore_capsule`, with everything else possible between
them. `Edit` replaces one field by that field of another packed capsule or by something else.
`SignAgain` is another tool that signs what the file holds with its own key, with or without a new
section table; `resign_capsule_for_test` in the tests is such a tool.

Cryptography is perfect: a digest is the value it is of; a ciphertext opens only with its passphrase,
salt and associated data; a signature exists only if its key made it; keys and salts are fresh. Header
fields that are only compared with constants are one value, and so are the KDF and cipher names.

### License

Only two kinds of calls read or write license files: a status, which every command makes when it starts,
and `license install`. Both are sequences of steps, made by several processes at once.

| model | code |
|---|---|
| `files`, `SearchPaths` | the places of `get_license_search_paths`. `Torn` is a file that does not parse |
| `keydirs`, `KeysFor` | the directories of `get_trusted_keys_dirs`. A later file of one kid replaces an earlier one, also the root key; within a directory `read_dir` decides |
| `Search`, `Report`, `Pass` | one turn of the loop of `verify_license_status`: the file is read, then checked under the keys found at that moment |
| `Outcome`, `Quotient`, `Hours` | the comparisons with expiry and grace period, division towards zero, `parse_iso8601_to_unix` |
| `Refuse`, `Admit`, `InstallOpen`, `InstallWrite` | `License Install`: the check, then `create_dir_all` and `fs::write` in `/etc`, and if that fails at any point in the first home there is, else here |
| `PutLicense`, `RotateKeys`, `Crash`, `Tick` | everybody else |

The clock counts hours, and beside it `today` goes along the calendar by a rule of its own (`HalfDayLater`, with the
lengths of the months of `DaysOf`), so that the date arithmetic has something to agree with. A start of the clock is
any date since 1970 with the number of midnights before it (`DaysBefore`). The model assumes that dates in signed licenses are dates:
`parse_iso8601_to_unix` would index beyond `month_days` for a thirteenth month. The places are taken to be
different files; `quiet` tells whether somebody else has written since a call began, and what a call reports is
held against the files only as long as nobody has. All key directories are read in one step, as one call reads
them without doing anything between. `license show` and the reminders change no state and are left out.

### Labels

Retail links, GS1 links and shelf label packets are one module because the scan daemon has to tell them apart and a
link made for one verifier can be shown to another.

| model | code |
|---|---|
| `labels` | every label made, with what was asked for: key, time, price |
| `PackRetail`, `PackRetailUrl`, `PackGs1`, `PackEsl`, `PackEslPacket` | the packing commands and tools. `ExpiresAt` is their sum of 64 bits, `Narrowed` the tool's `as u32` |
| `line`, `Show`, `Misread`, `ChangeLink`, `AppendParameter`, `ChangePacket` | a label on its way to a scanner |
| `EnvelopeHolds`, `RetailLive`, `Authorized` | `verify_retail_payload`, `authorize_retail_action` |
| `Digits`, `DigitSum`, `ValidCheckDigit`, `Trim`, `GtinMatches`, `Gs1Verdict` | `gs1.rs`; the check digit is that of the digits in a text |
| `RetailAt`, `Gs1At`, `FirstSegment` | what `pack-retail` and `build_gs1_digital_link` write behind an address, as `parse_gs1_digital_link` and the readers of `?p=` find it again |
| `EslLive`, `EslVerdict` | `decode_esl_packet` |
| `EnvelopeIn` | readers of retail links take the first `?p=` or `&p=`. The tool cuts off what follows it; the command line and the daemon take that for part of the envelope |
| `ScanVerdict` | one turn of the daemon's loop: links with `/01/` in them first, then retail links, packets, codes |
| `answer` | what was last said of this line, by whom and with which key |

Where a command and a tool do the same (`PackGs1`, `VerifyGs1`, `VerifyEsl`) one action stands for both. A trust store
has one signer here; signatures are perfect. A text is a sequence of characters, so that digits are computed with
and zeros trimmed as in the code. Of a link is kept what its readers tell apart (`at`): whether there is a `/01/` in it, which
the daemon goes by, the code that a reader of GS1 links finds in its path, the envelope, and what stands before and behind that.

Not every link that is made comes back as it went in, and `MeantFor` says which do:
- `pack-retail` and `pack_retail_url` append `&p=` to an address with a query (`main.rs:463`). If that has a parameter `p` already, the
  readers of retail links find that one first (`main.rs:477`, `tools.rs:675`), and none accepts the link.
- `pack-gs1` takes a code whose digits are right, whatever is between them, since `gs1.rs:8` drops that. Of `1234/5670` the reader finds
  `1234` in the path and rejects it against the signed code; behind a `?` in the code the reader finds no parameter `p`, unless a lot number or a
  store's precedes it. As retail links such links verify.
- Behind a domain that ends in `/01` the reader takes `01` for the code, behind one that ends in `/21` or has a query it finds none.

Left out are codes with a segment of their own that is `01` or `21`, serial numbers with a slash or a question mark, texts that
themselves contain `p=`, domains of GS1 links whose parameter `p` is not the first, and addresses whose own `p` is a signed
envelope (on which the tool would then answer).

### Custody

`CreateManifest` and `WriteManifest`, `CreateReceipt`, `OpenReceipt` and `WriteReceipt`, `ReadManifest` and
`ReadReceipt` are the steps of the three `custody` commands on the two files; each command may be running while the
others are. `CreateTransfer` and `VerifyTransfer` are the two tools of the server, whose records are kept by agents and
presented in any combination. `Json` is `canonical_bytes` and the way through a file: a number that is not finite becomes
`null`. `AlterManifest`, `AlterReceipt` and `Crash` are everybody else. `receipts` remembers which manifest
a receiver had before it when it signed, which no record tells.

### Sidecar and McpServer

| model | code |
|---|---|
| `archive`, `sidecars`, `ChangeFiles` | the files of other tools; `Torn` is one that was truncated and not yet written |
| `Prepare` | `prepare_payload`: the bytes everything later is compared with |
| `Resolve`, `IsFound` | `resolve_sidecar`: the file named, else the first candidate there is |
| `Parse`, `Fits`, `WithSidecar` | `parse_and_validate_sidecar`, with and without strictness |
| `Without`, `Warn` | `pack` without a usable sidecar: an error, or a warning and the digest alone |
| `Open`, `Fill` | `write_capsule_file`; both may fail |
| `IsAicx`, `IsStrict` | what the two callers ask for |
| `stdin`, `Take`, `SkipBlank` ... `AnswerUnknown` | one turn of the server's loop, by the kind of the line |
| `CallPack`, `PackStep`, `AnswerPack` | `pack_capsule`: refused, or run in the loop while the client goes on sending |
| `stdout` | all that is written to the standard output: answers, and the warnings of `pack` |
| `Send`, `Close`, `Kill`, `Restart` | the client and the operating system |
| `Start`, `Return` | the `pack` command |

Command line and server write no common file, so each behaviour has one `user`; that halves the states and loses no
interleaving that matters. Of the other tools the server's model knows that they succeed or fail: what they do is
that of the core's operations, modelled in their own modules. Sidecars carry no signature; that one which names an archive
was made for it (`SidecarAssumption`) is what a digest in it means.

## What is checked

| run | instance | shows |
|---|---|---|
| `qr_transport` | two capsules with one bundle id, five and four bytes, packets of three or four bytes, one exporter, two exports, one crash or transport fault | types; the output is absent, torn or a sealed capsule; the transport implements `AirGap`; the packets of one export, and no others, are accepted and give the capsule |
| `qr_delivery` | the same, two exporters at once, no faults, fair | a complete set is delivered, whatever is left of earlier exports |
| `restore` | every payload of at most four entries, two levels, over a plain, an executable and the quarantine name; five output directories; one crash | types, quarantine, completeness, failure only on a clash, the frame; what is left in the end is determined by the payload and what there was |
| `capsule` | two requests that differ in compression, name and capability; two writings, two edits, two instants | types, round trip, authenticity, genuineness; a restore goes on only with what is signed in its own reading |
| `license` | three licenses under a root key and a rotated one, three settings of the key directories, two environments, two processes and two calls, one crash or change, two half days before and after the first of March of 2100 and of 2024 | types; what a status and an install report is so; expiry by the calendar; only signed licenses get installed |
| `labels` | two labels out of nineteen requests and four printed codes, with addresses of every kind but one, codes with a slash and a question mark, numbers of two and three bits, one change, three seconds, two keys and two key names | types; valid means made, for this product and still alive; what was made is usable where address and code allow; a misread digit shows |
| `custody` | four requests that share ids, three calls, one crash or alteration, two keys | types; both sides signed; the receipt is for this manifest; an honest handoff verifies |
| `mcp_server` | two archives, three sidecars in two places, ten calls of pack; two lines of every kind, one kill, one change of files; fair | types; strict capsules are bound to their archive, others are not packed in silence; answers in order, true, and to every request; every step of the server comes nearer to the end of what it was sent |
| `restore_staged`, `capsule_as_packed`, `capsule_trust`, `mcp_stdout` | the same instances, one edit for the capsules | four statements of the documentation that do not hold; see below |

Why the bounds are enough:

- Two capsules with one bundle id are the worst case for mixing: `bundle_id` is a digest of the
  payload, so packing the same input twice gives equal ids and different bytes. The packet sizes cut
  the longer capsule at two different places and the shorter one into one or two packets: packets of another export fit by index,
  by total, by both or by neither. A last packet shorter than the others occurs.
- Four entries hold every clash of two entries with directories above both: a file and a directory
  of one name, a quarantined file beside a payload's own `quarantine`, as a file and as a directory,
  and files of one name in two directories. Refused entries and links occur. One crash suffices since a call remembers nothing of an
  earlier one but the tree.
- Two edits and two writings make every capsule of two halves, also one signed again after its first
  edit, and one put together from two packed ones. A third edit can only touch a field neither check
  compares with the first two.
- Two calls by two processes make every pair of a status, an install and another install run into each other, or
  one after the other on the two sides of a boundary of the clock. The clock passes the end of February in 2100,
  a century without a leap day, and in 2024, which has one; two of the licenses expire within half a day of it. The key
  settings are: nothing, a key that another directory overrides, and two files of one kid.

- Two labels make every link or packet put together from two genuine ones. Their keys have one name or two, so that a
  verifier that looks at the name alone accepts too much. Times and prices lie on both sides of the narrow width, times also of the
  wide one; codes of eight and fourteen digits are one product, and one code is all zeros. Widths of two and three bits
  stand for 32 and 64: only whether a number fits matters.
- Three custody calls are two manifests and a receipt, or one and two: enough to present a receipt with a
  manifest it was not made from. Two manifests have one id and differ in their terms; two have another and differ in payload.
- Two lines put a request before and behind every other kind of line, and two calls of `pack` one after the other, the
  second failing at each step. One change of the files falls between any two steps of `pack`.

Deadlock is not checked for `labels`, `custody` and `mcp_server`, where bounds are used up and a client may close
for good, for `license`, where calls, time and changes are used up, nor for `restore` and `capsule`: a restore that has ended may end the story, and
bounds on writings, edits and time are used up. It is checked for the transport, where an importer may always start.

### Fairness

`FairSpec` of `QrTransport` has weak fairness of the importer's steps alone: a call that runs goes on
(it is a loop over a directory with no waiting), and the receiving side tries again. The manual's
workflow does that: scan what is missing, import again. Exporters, the packer and faults are never
forced. `CompleteSetDelivered` asks for what fairness cannot give as its premise: from some time on the
directory holds exactly one complete set.

`Spec` of `McpServer` has weak fairness of `Serve`, the server's own steps. It is one sequential loop; the only thing it
waits for is a line, and then no step of `Serve` is enabled. Neither the client nor those who change files are forced.
`EveryRequestAnswered` leaves out requests behind a line that is not UTF-8, which ends the loop, and a server
that is killed.

### Where the documentation says something else

- `README.md:349` says a staged payload lies in `DIR/quarantine/`. The quarantine directory is beside
  each file's nominal place (`lib.rs:1291`): `restore_staged`.
- `README.md:30,33` say the entire capsule is signed. The payload's name and compression are in no
  digest the signature covers (`lib.rs:491`): `capsule_as_packed`.
- `SECURITY.md:24` says signatures by untrusted keys are rejected. That holds of strict verification
  only, and restore asks no trust store (`lib.rs:1151`): `capsule_trust`.
- `README.md:547` says installing a license immediately activates it. It is then the first intact license
  in the search order that decides, so an expired one at `AEGISQR_LICENSE_PATH` or in `/etc` shadows a new
  one in the home directory. `StatusFindsFirst` states what the code does.
- The warning of the grace period adds thirty days to the remaining ones (`license.rs:301`), whatever
  `grace_days` the license has; the status itself uses `grace_days`.
- The comment at `lib.rs:936` says the signature covers the public key. `signature_payload` does not
  contain it, nor the signer id. The signature cannot be verified with another key; only the
  signer id can be changed unnoticed, and strict verification then looks up another key.
- `crates/aegisqr-mcp/README.md:8` and `README.md:729` call the server a JSON-RPC server on stdio. `pack` prints its sidecar
  warnings to the same standard output (`lib.rs:786`, `803`, `810`), between the answers: `mcp_stdout`. Tools and `ping`
  without an id, and lines that do not parse, are answered without one.
- The tool table of that README names `verify_esl_packet`, `sign_custody_transfer` and `verify_custody_receipt`; the dispatch
  knows `decode_esl_packet`, `create_custody_transfer` and `verify_custody_transfer`, and answers the others with an error.
- `README.md:624` and `crates/aegisqr-mcp/README.md:23` say that links for associates need a session. That is
  so for `verify-retail` and `verify_retail_url`; the daemon and `verify-gs1` do not look at the role. `UsableAsAsked` and
  `RetailVerdict` say where it is asked.
- `README.md:613` says that query parameters of a base address are parsed and merged. The envelope is appended to the text (`main.rs:463`):
  if the address has a parameter `p`, no reader of retail links accepts the result (`MeantFor`, and see under Labels).
- The comment at `gs1.rs:149` says the check digit is validated. It is computed and reported; a link with a wrong one verifies.
- `README.md:707` says verification fails when a sticker is swapped onto another product. What is compared is the code in
  the link's path and the signed one (`GtinMatches`), both of which are on the sticker; the product is not part of the check.
- `README.md:573` describes strict sidecar checks. They are made for archives only; version and algorithm are
  checked where the sidecar has them (`Fits`). Without strictness a malformed sidecar is a warning
  (`README.md:779` says it stops the operation), and one for another archive is embedded with that archive's digest, with a warning (`UnboundIsWarned`).
- The comment at `a2a.rs:107` says a receipt matches its manifest. It matches id, receiver and digest; capsule,
  sender, geofence, times and limit are open. `ReceiptForThisManifest` states what makes it unambiguous all the same: a
  sender that never signs an id twice.

## What is proved

For all values of the constants that satisfy the assumption each module names. `TypeCorrect` proves the
type invariant in each of the seven modules below.

`QrTransport_proofs`:
- `Integrity`: `[]ImportIntegrity`. The invariant adds that whatever an importer holds after its checks is a
  sealed capsule's image. The argument is the digest: packets accepted together agree on the digest of
  the bytes put together, and a digest in a packet file is either garbled or that of a sealed capsule.
  It is inductive only with the latter said of files, of what importers have read and of
  what exporters are about to write.
- `Refinement`: `Spec => Gap!Spec`, step by step under the same invariant.
- `CompleteAccepted` (`CompleteSetAccepted`): the safety half of delivery. Its core is `RoundTrip`: the packets of one
  export pass all checks and their payloads, in the order of their numbers, are the capsule's bytes, for every length
  and packet size. That the chunks fill the file without a gap or an overlap is an induction over their number
  (`Joined`), with the rounding of `div_ceil` (`Ceiling`) for the last one; `Ordered` says that sorting distinct numbers
  `0 .. total - 1` leaves one order. `BeginsClean`, `ReadsOn`, `MissesNothing` and `EndsRight` carry this along an import: it
  has read some of the packets and has the rest before it, in whatever order and under whatever names.

`Restore_proofs`:
- `Held` (quarantine), `Complete` (a call that ends well restored every entry) and `Frame`
  (`OnlyOwnPlacesChange`). The invariant `IInv` says that the tree is a tree, that a file of the payload is
  only found at the place computed for it, that the entry being written is torn at its place, and that every entry
  already taken is done. Completeness rests on `TargetInjective`: two files of a payload never have one place,
  because whether a file is quarantined depends on its name and the mode alone.
- `FailsOnClash` (`FailsOnlyOnClash`). `FailInv` adds that everything in the tree was there before or is needed by the payload, and
  that no directory ever becomes a file or the other way round. So what is in the way of a call was there before the
  first one, or is needed by the payload itself, and what earlier calls have left is never in the way.
- `NoTrace` (`LeavesNoTrace`): when a call ends well, the tree is the one that payload, mode and the earlier contents determine,
  whatever the order and whatever calls were cut off. `Untouched` adds what the frame keeps of the earlier contents; `FailInv`
  says that there are no other places than those of before and the needed ones (`RestoredPlaces`), and completeness that each holds its own
  bytes (`RestoredContent`): two files never have one place.
- `NeverStuck`: until the end there is a step to take. That some entry is always the next one of the archive (`OneIsListed`)
  holds because, of those left, one with a shortest path is below no other. That the loop ends is its shape, and is not stated.

`Capsule_proofs`:
- `RoundTrip`, by computing `pack`'s four last steps: no table goes stale.
- `Authentic`: every signature in the file that verifies is an issued one.
- `Genuine`: every ciphertext that opens has the associated data it was made with, and all such data
  was made by `pack`. Signing again makes no ciphertexts.
- `CheckedItself` (`CheckedIsSigned`): the same of what a restore holds after its checks (`CheckReadSigned`); nothing an earlier
  verify saw is used, and what others do to the file afterwards does not reach it.

`License_proofs`:
- `ReportsFirst` (`StatusFindsFirst`), `InstallsFindable` (`InstallIsFound`) and `InstallsAuthentic`
  (`InstalledIsAuthentic`). The properties speak of calls that have returned; the invariant says what a call knows
  while it runs: no place it has passed has an intact license, the one at hand is still at its place, the file it
  has opened is still empty, and a license that was admitted is signed by a key that was once there. Steps
  of others keep that or tell the call, which is what `quiet` is for (`ProcessStep`).
- `CountedRight` (`ParsedAsCounted`): the hours that `parse_iso8601_to_unix` computes for a date are those the clock has
  counted, for every date since 1970. For a start, days are the number of midnights before it: each
  midnight has a day number of its own and every number a midnight (`EachDay`, going on by half days), so there are as many
  midnights before a date as its number says (`DaysCounted`). From there half a day of the calendar is twelve hours (`HalfDay`).
- `ValidByTheCalendar` (`ValidUntilTheDay`) and `NeverComesBack` (`NeverBack`). Dates and their hours are in one order
  (`OrderOfDates`), so a comparison of hours is one of dates. `Timed` is the second invariant: what a call has noted as
  the time is the hour of the date at which it began, and no later than the clock; time only goes on, and a quotient
  towards zero gets no larger as the difference it is of gets smaller.

`Labels_proofs`:
- `ValidMade` (`ValidIsMade`) and `NeverBeyond` (`NotBeyondAsked`). The invariant says that whatever was exchanged, a signature
  on the line is that of some label, and that a label's signature is its own key's over its own content; a verdict then
  leads from the signature to the label. What was asked and what was written are tied by the
  width: equal where the number fits, a remainder where it does not.
- `MadeIsUsable` (`UsableAsAsked`). `UsableInv` says that a label's line tells what was asked for, and that the answer is the
  verdict of its verifier on the line and the time there are. The theorem goes through the verifiers one by one. At an ordinary
  address the code of a GS1 link is found again as a whole (`FirstOfWhole`, `Gs1AtOK`), and what stands before an envelope is no other
  parameter (`RetailAtOK`).
- `MisreadsFound` (`MisreadFound`): two codes of one length that differ in one digit have sums whose difference is that of the
  digits, once or three times (`SumsApart`, an induction over the digits), and neither is a multiple of ten; a last digit that differs
  is no longer the check digit of the same sum. A text of digits alone is what is left of it when all else is dropped (`DigitsOfDigits`).

`Custody_proofs`:
- `BothSigned` (`HandoffIsBilateral`), `ForThisManifest` (`ReceiptForThisManifest`) and `HonestVerifies`
  (`HonestHandoffVerifies`). The invariant says the same of signatures in files and in the hands of agents, and that what was signed
  has gone through `Json` once, so that going through it again changes nothing.

`Sidecar_proofs` and `McpServer_proofs`:
- `Sidecar_proofs` has the lemmas on the steps of `pack` alone: each keeps its types and binds what it puts into the capsule to
  the bytes that `Prepare` read.
- `StrictBound` (`StrictIsBound`) carries that to the server and the command line, which run these steps.
- `AlwaysWarned` (`UnboundIsWarned`): `WarnInv` says of every step of `pack` whether the last line on the standard output is a
  warning; nothing else is written there between the beginning of a call and its answer.
- `InOrder` (`AnsweredInOrder`) and `AnswersAreTrue` (`OkIsWritten`), for any number of lines, kills and
  restarts. The invariant `MInv` has five parts: what `pack` holds; the ids in the pipe, which rise; the loop, whose call is the one in hand;
  the answers, which are below what is in hand and that below the pipe; and the file, which is what the
  last success said unless an error was said since or is about to be.
- `NothingTwice` (`GoesOn`): the safety half of `EveryRequestAnswered`. The measure is seven for each line in the pipe, the steps the
  call of `pack` has before it at most, and one for the loop itself.

Only model-checked are the two liveness properties, `CompleteSetDelivered` and `EveryRequestAnswered`: they
need fairness and `ENABLED`, which this prover does not handle. What each rests on besides is proved: that a complete
set is not refused (`CompleteAccepted`), and that the server's steps lead to the end (`NothingTwice`).

Inductions over the number of chunks, days or digits use no induction theorem, since those take an operator as
a parameter. `SetInduction` says the same of a set of numbers, and follows from the least element that every set of
numbers has (`NatLessThanWellFounded`, `WFMin`). Sums are recursive functions, of which a proof first shows that there is one.

What is assumed of the constants, beside their types:

- `QrTransport`: a capsule file begins with the magic, which `write_capsule_file` puts there, and `Absent` and
  `Torn` are neither capsules nor packets.
- `Restore`: payloads are finite and name no path twice; what the output directory holds is in directories; "quarantine" is
  not an executable name.
- `License`: expirations that parse and starts of the clock are dates of the calendar since 1970.
- `Labels`: the product codes that others have printed, which the daemon reads as they are, are sequences of decimal digits; so it
  asks (`main.rs:945`). Codes of links are any texts.
- `Custody`, `Sidecar`: a document is what its constructors make of it, and a sidecar that names an archive was made for it.

## Plan

Done: the transport with its abstract specification, restore, the capsule; licenses; labels with the scan daemon;
custody; the sidecar and the server that packs.

What would come next:

1. A composition of `Capsule`, `QrTransport` and `Restore`: what was packed arrives in the output directory.
2. The handoff of `aegisqr-repo`, when that crate builds against the core.

## Not modelled

- `aegisqr-repo` is not a member of the workspace and cannot be built against this core: it uses `ApprovalToken`, `AuditRecord`,
  `RepoType`, a `bundle_id` in the sidecar and an `enterprise_policy` in the capsule, none of which the core has. There is no
  behaviour to be faithful to.
- The installers run once, by hand, and promise nothing of a run that is cut off. (`install.sh:249` removes
  the directory before it makes it anew.)
- The terminal interface and the rest of the command line are input and output around the same calls. The tools' schemas
  (`list_tools`) are data.
- The stub crates, the recovery helper and the simulated hybrid signatures have no state and no caller.
- PNG rendering is modelled only as a way for an export to fail. Wording, layout and serialization formats are left
  out; where two texts may differ, or a text may not parse, the model has a value for that.
- Nobody says what should happen when a signature expires between a verify and a restore (`lib.rs:485`), or when the source
  directory changes while it is packed (`lib.rs:1041`); `Capsule` lets the first happen, and no property can blame either.
- The daemon ends at a line it cannot read, as the server does; `Labels` looks at one line at a time.
