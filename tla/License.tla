------------------------------- MODULE License -------------------------------
(***************************************************************************)
(* License files in several places, keys to check them with in several     *)
(* directories, and the calls that look for a license and install one,     *)
(* each a sequence of reads and writes among which others change both.     *)
(* Times are counted in hours.                                             *)
(***************************************************************************)
EXTENDS Integers, Sequences, FiniteSets

CONSTANTS
    License,      \* the license files there are, as the issuers signed them
    Kid, Key,     \* names of keys; keys. Some key may have signed nothing
    RootKid,      \* "license-root-2026"
    RootKey,      \* ROOT_LICENSE_PUBKEY
    Envs,         \* which of the environment variables are set
    KeySetups,    \* what the key directories may hold
    Starts,       \* when the model starts: a date and its number of days since 1970
    Proc,         \* processes that make calls
    MaxTicks,     \* bound on the clock, twelve hours each
    MaxCalls,     \* bound on the calls
    MaxChanges,   \* bound on crashes and on changes of files and keys
    Absent,       \* no such file; no license
    Torn,         \* a file that does not parse
    Odd           \* an expiration that does not parse

Place == {"env", "etc", "home", "profile", "cwd", "dot"}
KeysDir == {"etc", "home", "profile", "cwd"}
KeyFile == [kid : Kid, key : Key]

-----------------------------------------------------------------------------
(* The calendar, by its own rule *)

DaysOf(year, month) ==
    CASE month = 2 -> IF (IF year % 100 = 0 THEN year % 400 ELSE year % 4) = 0 THEN 29 ELSE 28
      [] month \in {4, 6, 9, 11} -> 30
      [] OTHER -> 31

Year == {year \in Nat : year >= 1970}
Month == 1 .. 12
Day == 1 .. 31
Hour == 0 .. 23

Date ==
    {t \in [year : Year, month : Month, day : Day, hour : Hour] :
        t.day <= DaysOf(t.year, t.month)}

DateAt(year, month, day, hour) == [year |-> year, month |-> month, day |-> day, hour |-> hour]

Before(s, t) ==
    \/ s.year < t.year
    \/ s.year = t.year /\ s.month < t.month
    \/ s.year = t.year /\ s.month = t.month /\ s.day < t.day
    \/ s.year = t.year /\ s.month = t.month /\ s.day = t.day /\ s.hour < t.hour

\* The midnights from 1970 to that of t.
DaysBefore(t) ==
    {s \in [year : 1970 .. t.year, month : Month, day : Day, hour : {0}] :
        s \in Date /\ Before(s, DateAt(t.year, t.month, t.day, 0))}

HalfDayLater(t) ==
    CASE t.hour < 12 -> DateAt(t.year, t.month, t.day, t.hour + 12)
      [] t.hour >= 12 /\ t.day < DaysOf(t.year, t.month) ->
            DateAt(t.year, t.month, t.day + 1, t.hour - 12)
      [] t.hour >= 12 /\ t.day = DaysOf(t.year, t.month) /\ t.month < 12 ->
            DateAt(t.year, t.month + 1, 1, t.hour - 12)
      [] OTHER -> DateAt(t.year + 1, 1, 1, t.hour - 12)

ASSUME LicenseAssumption ==
    /\ License \subseteq [kid : Kid, key : Key, expires : Date \union {Odd}, grace_days : Nat]
    /\ RootKid \in Kid /\ RootKey \in Key
    /\ Envs \subseteq SUBSET {"AEGISQR_LICENSE_PATH", "HOME", "USERPROFILE"}
    /\ KeySetups \subseteq [KeysDir -> SUBSET KeyFile]
    /\ \A s \in Starts : s.date \in Date /\ s.days = Cardinality(DaysBefore(s.date))
    /\ MaxTicks \in Nat /\ MaxCalls \in Nat /\ MaxChanges \in Nat
    /\ Absent # Torn /\ {Absent, Torn} \intersect License = {}

-----------------------------------------------------------------------------
(* parse_iso8601_to_unix *)

\* A fault: centuries are leap years.
IsLeapYearJulian(year) == year % 4 = 0

IsLeapYear(year) == (year % 4 = 0 /\ year % 100 # 0) \/ year % 400 = 0

MonthDays(year) ==
    <<31, IF IsLeapYear(year) THEN 29 ELSE 28, 31, 30, 31, 30, 31, 31, 30, 31, 30, 31>>

YearsDays(year) ==
    365 * (year - 1970) + Cardinality({y \in 1970 .. year - 1 : IsLeapYear(y)})

MonthsDays(year, month) ==
    LET sum[m \in 1 .. 12] == IF m = 1 THEN 0 ELSE sum[m - 1] + MonthDays(year)[m - 1]
    IN  sum[month]

Hours(t) == 24 * (YearsDays(t.year) + MonthsDays(t.year, t.month) + t.day - 1) + t.hour

\* A fault: days counted without a sign.
QuotientUnsigned(a, b) == IF a >= 0 THEN a \div b ELSE (-a) \div b

\* Division in Rust, towards zero.
Quotient(a, b) == IF a >= 0 THEN a \div b ELSE -((-a) \div b)

-----------------------------------------------------------------------------
(* Where licenses and keys are looked for, in this order *)

InHome(env) ==
    (IF "HOME" \in env THEN <<"home">> ELSE <<>>)
        \o (IF "USERPROFILE" \in env THEN <<"profile">> ELSE <<>>)

SearchPaths(env) ==
    (IF "AEGISQR_LICENSE_PATH" \in env THEN <<"env">> ELSE <<>>)
        \o <<"etc">> \o InHome(env) \o <<"cwd", "dot">>

TrustedKeysDirs(env) == <<"etc">> \o InHome(env) \o <<"cwd">>

\* A fault: one of the two homes is always there.
FallbackHome(env) == IF "HOME" \in env THEN "home" ELSE "profile"

\* Where install goes when it cannot write to /etc.
Fallback(env) ==
    CASE "HOME" \in env -> "home"
      [] "HOME" \notin env /\ "USERPROFILE" \in env -> "profile"
      [] OTHER -> "cwd"

VARIABLES
    env,       \* the environment variables that are set
    files,     \* the license files
    keydirs,   \* the key files in each directory, named by their kid
    clock,     \* the hours since 1970
    today,     \* the same as a date of the calendar
    job,       \* the call each process makes
    result,    \* what the last call of each process has returned
    quiet,     \* whether nobody else has written anything since its last call began
    ever,      \* every key that was ever in a directory, under its name
    calls, changes

vars == <<env, files, keydirs, clock, today, job, result, quiet, ever, calls, changes>>
others == <<env, clock, today, calls, changes>>

Epoch == DateAt(1970, 1, 1, 0)
Idle == [pc |-> "idle", kind |-> "status", lic |-> Absent, at |-> 1, now |-> 0, date |-> Epoch]
NoResult == [outcome |-> "none", lic |-> Absent, days_remaining |-> 0, place |-> "etc",
             date |-> Epoch]

Init ==
    /\ env \in Envs
    /\ files = [p \in Place |-> Absent]
    /\ keydirs \in KeySetups
    /\ \E s \in Starts : today = s.date /\ clock = 24 * s.days + s.date.hour
    /\ job = [p \in Proc |-> Idle]
    /\ result = [p \in Proc |-> NoResult]
    /\ quiet = [p \in Proc |-> TRUE]
    /\ ever = {[kid |-> RootKid, key |-> RootKey]} \union UNION {keydirs[d] : d \in KeysDir}
    /\ calls = 0 /\ changes = 0

\* The keys load_trusted_keys may find under a kid: those of the last directory that
\* has one, else the root key. Of two files with one kid (the extension is not looked
\* at) the one that read_dir gives last counts. All directories are read in one step.
KeysFor(kid) ==
    LET dirs == TrustedKeysDirs(env)
        Named(i) == {f \in keydirs[dirs[i]] : f.kid = kid}
        last == {i \in 1 .. Len(dirs) :
                    Named(i) # {} /\ \A j \in i + 1 .. Len(dirs) : Named(j) = {}}
    IN  IF last # {} THEN {f.key : f \in UNION {Named(i) : i \in last}}
        ELSE {RootKey : k \in {kid} \intersect {RootKid}}

\* check_license_integrity may hold, and may fail.
MayBeIntact(lic) == lic.key \in KeysFor(lic.kid)
IsIntact(lic) == KeysFor(lic.kid) = {lic.key}

Goto(p, pc) == job' = [job EXCEPT ![p].pc = pc]
Disturb(procs) == quiet' = [p \in Proc |-> quiet[p] /\ p \notin procs]

\* The call of p returns.
Return(p, outcome, lic, days_remaining, place) ==
    /\ job' = [job EXCEPT ![p] = Idle]
    /\ result' = [result EXCEPT ![p] = [outcome |-> outcome, lic |-> lic, place |-> place,
                                        days_remaining |-> days_remaining, date |-> job[p].date]]

Begin(p, kind, lic, pc) ==
    /\ job[p].pc = "idle" /\ calls < MaxCalls
    /\ job' = [job EXCEPT ![p] = [Idle EXCEPT !.kind = kind, !.lic = lic, !.pc = pc, !.now = clock,
                                              !.date = today]]
    /\ quiet' = [quiet EXCEPT ![p] = TRUE]
    /\ calls' = calls + 1
    /\ UNCHANGED <<env, files, keydirs, clock, today, result, ever, changes>>

-----------------------------------------------------------------------------
(* verify_license_status, at the beginning of every command *)

StatusBegin(p) == Begin(p, "status", Absent, "search")

\* The next place: no file, or one that does not parse, is passed over.
Search(p) ==
    LET paths == SearchPaths(env)
        at == job[p].at
    IN  /\ job[p].pc = "search"
        /\ \/ at > Len(paths) /\ Return(p, "unlicensed", Absent, 0, "etc")
           \/ /\ at <= Len(paths) /\ files[paths[at]] \notin License
              /\ job' = [job EXCEPT ![p].at = at + 1]
              /\ UNCHANGED result
           \/ /\ at <= Len(paths) /\ files[paths[at]] \in License
              /\ job' = [job EXCEPT ![p].pc = "check", ![p].lic = files[paths[at]]]
              /\ UNCHANGED result
        /\ UNCHANGED <<files, keydirs, quiet, ever, others>>

\* A fault: the last hour counts for both.
OutcomeInclusive(now, expires, grace_hours) ==
    CASE now <= expires -> "valid"
      [] now > expires /\ now < expires + grace_hours -> "grace_period"
      [] OTHER -> "expired"

Outcome(now, expires, grace_hours) ==
    CASE now < expires -> "valid"
      [] now >= expires /\ now < expires + grace_hours -> "grace_period"
      [] OTHER -> "expired"

\* A fault: the signature is checked when a license is installed, and only then.
ReportAny(p) ==
    LET lic == job[p].lic
    IN  /\ job[p].kind = "status" /\ job[p].pc = "check" /\ lic.expires # Odd
        /\ Return(p, Outcome(job[p].now, Hours(lic.expires), 24 * lic.grace_days), lic,
                  Quotient(Hours(lic.expires) - job[p].now, 24), SearchPaths(env)[job[p].at])
        /\ UNCHANGED <<files, keydirs, quiet, ever, others>>

\* The first license that is intact decides, also when it has expired.
Report(p) ==
    LET lic == job[p].lic
    IN  /\ job[p].kind = "status" /\ job[p].pc = "check" /\ MayBeIntact(lic)
        /\ \/ lic.expires = Odd /\ Return(p, "unlicensed", Absent, 0, "etc")
           \/ /\ lic.expires # Odd
              /\ Return(p, Outcome(job[p].now, Hours(lic.expires), 24 * lic.grace_days), lic,
                        Quotient(Hours(lic.expires) - job[p].now, 24),
                        SearchPaths(env)[job[p].at])
        /\ UNCHANGED <<files, keydirs, quiet, ever, others>>

\* A fault: the place after one that is passed over is not looked at.
PassTwo(p) ==
    /\ job[p].kind = "status" /\ job[p].pc = "check" /\ ~IsIntact(job[p].lic)
    /\ job' = [job EXCEPT ![p].pc = "search", ![p].at = @ + 2]
    /\ UNCHANGED <<files, keydirs, result, quiet, ever, others>>

Pass(p) ==
    /\ job[p].kind = "status" /\ job[p].pc = "check" /\ ~IsIntact(job[p].lic)
    /\ job' = [job EXCEPT ![p].pc = "search", ![p].at = @ + 1]
    /\ UNCHANGED <<files, keydirs, result, quiet, ever, others>>

-----------------------------------------------------------------------------
(* license install *)

InstallBegin(p, lic) == Begin(p, "install", lic, "check")

Refuse(p) ==
    /\ job[p].kind = "install" /\ job[p].pc = "check" /\ ~IsIntact(job[p].lic)
    /\ Return(p, "refused", job[p].lic, 0, "etc")
    /\ UNCHANGED <<files, keydirs, quiet, ever, others>>

\* A fault: the file is copied whether it is intact or not.
AdmitAny(p) ==
    /\ job[p].kind = "install" /\ job[p].pc = "check"
    /\ Goto(p, "open etc")
    /\ UNCHANGED <<files, keydirs, result, quiet, ever, others>>

Admit(p) ==
    /\ job[p].kind = "install" /\ job[p].pc = "check" /\ MayBeIntact(job[p].lic)
    /\ Goto(p, "open etc")
    /\ UNCHANGED <<files, keydirs, result, quiet, ever, others>>

\* The directory is made and the file truncated. In /etc either may fail, and then the
\* next place is tried; elsewhere a failure ends the call.
InstallOpen(p, place, pc, next) ==
    /\ job[p].pc = pc
    /\ \/ /\ files' = [files EXCEPT ![place] = Torn]
          /\ Goto(p, next)
          /\ Disturb(Proc \ {p})
          /\ UNCHANGED result
       \/ /\ place = "etc" /\ Goto(p, "open home")
          /\ UNCHANGED <<files, result, quiet>>
       \/ /\ place # "etc" /\ Return(p, "failed", job[p].lic, 0, place)
          /\ UNCHANGED <<files, quiet>>
    /\ UNCHANGED <<keydirs, ever, others>>

\* What was written meanwhile by another install may reach beyond the end of this.
InstallWrite(p, place, pc) ==
    /\ job[p].pc = pc
    /\ \/ /\ files' = [files EXCEPT ![place] = job[p].lic]
          /\ Return(p, "installed", job[p].lic, 0, place)
       \/ /\ files[place] \in License \ {job[p].lic}
          /\ files' = [files EXCEPT ![place] = Torn]
          /\ Return(p, "installed", job[p].lic, 0, place)
       \/ /\ files' = [files EXCEPT ![place] = Torn]
          /\ IF place = "etc" THEN Goto(p, "open home") /\ UNCHANGED result
                              ELSE Return(p, "failed", job[p].lic, 0, place)
    /\ Disturb(Proc \ {p})
    /\ UNCHANGED <<keydirs, ever, others>>

Install(p) ==
    \/ Refuse(p) \/ Admit(p)
    \/ InstallOpen(p, "etc", "open etc", "write etc")
    \/ InstallWrite(p, "etc", "write etc")
    \/ InstallOpen(p, Fallback(env), "open home", "write home")
    \/ InstallWrite(p, Fallback(env), "write home")

-----------------------------------------------------------------------------
(* What others do *)

Crash(p) ==
    /\ job[p].pc # "idle" /\ changes < MaxChanges
    /\ job' = [job EXCEPT ![p] = Idle]
    /\ Disturb({p})
    /\ changes' = changes + 1
    /\ UNCHANGED <<env, files, keydirs, clock, today, result, ever, calls>>

\* A license is copied to where install does not put one, or is removed anywhere.
PutLicense(place, file) ==
    /\ changes < MaxChanges
    /\ file # files[place] /\ (place \in {"etc", "home", "profile"} => file = Absent)
    /\ files' = [files EXCEPT ![place] = file]
    /\ Disturb(Proc)
    /\ changes' = changes + 1
    /\ UNCHANGED <<env, keydirs, clock, today, job, result, ever, calls>>

RotateKeys(setup) ==
    /\ changes < MaxChanges
    /\ setup # keydirs /\ keydirs' = setup
    /\ ever' = ever \union UNION {setup[d] : d \in KeysDir}
    /\ Disturb(Proc)
    /\ changes' = changes + 1
    /\ UNCHANGED <<env, files, clock, today, job, result, calls>>

Tick ==
    /\ clock' = clock + 12
    /\ today' = HalfDayLater(today)
    /\ \E s \in Starts : clock' - (24 * s.days + s.date.hour) \in 0 .. 12 * MaxTicks
    /\ UNCHANGED <<env, files, keydirs, job, result, quiet, ever, calls, changes>>

Next ==
    \/ \E p \in Proc :
          \/ StatusBegin(p) \/ Search(p) \/ Report(p) \/ Pass(p)
          \/ \E lic \in License : InstallBegin(p, lic)
          \/ Install(p) \/ Crash(p)
    \/ \E place \in Place, file \in License \union {Absent} : PutLicense(place, file)
    \/ \E setup \in KeySetups : RotateKeys(setup)
    \/ Tick

Spec == Init /\ [][Next]_vars

-----------------------------------------------------------------------------
(* Properties *)

Outcomes == {"none", "valid", "grace_period", "expired", "unlicensed", "installed", "refused",
             "failed"}
Settled(p) == job[p].pc = "idle" /\ quiet[p]
Returned(p) == result[p].outcome \in {"valid", "grace_period", "expired"}

\* The types; the search stops at the end of its paths, and a license is at hand from
\* its reading until the call is through with it.
TypeOK ==
    /\ files \in [Place -> License \union {Absent, Torn}]
    /\ keydirs \in [KeysDir -> SUBSET KeyFile] /\ ever \subseteq KeyFile
    /\ today \in Date /\ clock \in Nat
    /\ \A p \in Proc :
          /\ job[p].pc \in {"idle", "search", "check", "open etc", "write etc", "open home", "write home"}
          /\ job[p].at \in 1 .. Len(SearchPaths(env)) + 1
          /\ job[p].pc \notin {"idle", "search"} => job[p].lic \in License
          /\ result[p].outcome \in Outcomes
          /\ Returned(p) => result[p].lic \in License /\ result[p].lic.expires # Odd
    /\ quiet \in [Proc -> BOOLEAN]
    /\ calls \in 0 .. MaxCalls /\ changes \in 0 .. MaxChanges

\* While nobody writes, a status reports the first license in the search order whose
\* signature is by the key now found under its kid, whatever lies in the places before
\* it and in the key directories that are overridden (license.rs, verify_license_status,
\* load_trusted_keys).
StatusFindsFirst ==
    LET places == SearchPaths(env)
        Kept(i) == files[places[i]] \in License
        FirstAt(i) ==
            /\ Kept(i) /\ MayBeIntact(files[places[i]])
            /\ \A j \in 1 .. i - 1 : ~(Kept(j) /\ IsIntact(files[places[j]]))
    IN  \A p \in Proc : Settled(p) =>
           /\ Returned(p) =>
                 \E i \in 1 .. Len(places) : FirstAt(i) /\ files[places[i]] = result[p].lic
           /\ result[p].outcome = "unlicensed" =>
                 \/ ~ \E i \in 1 .. Len(places) : Kept(i) /\ IsIntact(files[places[i]])
                 \/ \E i \in 1 .. Len(places) : FirstAt(i) /\ files[places[i]].expires = Odd

\* A license is valid until the date of its expiration by the calendar and not
\* for an hour longer (license.rs, verify_license_status).
ValidUntilTheDay ==
    \A p \in Proc : Returned(p) =>
        (result[p].outcome = "valid" <=> Before(result[p].date, result[p].lic.expires))

\* The hours a date is parsed to are those that have passed, counted half a day at a
\* time along the calendar (license.rs, parse_iso8601_to_unix, is_leap_year).
ParsedAsCounted == Hours(today) = clock

Rank == [valid |-> 1, grace_period |-> 2, expired |-> 3]

\* From call to call of one process, a license only goes from valid to its grace
\* period and from there to expired, and its remaining days get no more.
NeverBack ==
    [][\A p \in Proc :
          Returned(p) /\ Returned(p)' /\ result'[p].lic = result[p].lic =>
              /\ Rank[result'[p].outcome] >= Rank[result[p].outcome]
              /\ result'[p].days_remaining <= result[p].days_remaining]_result

\* Whatever a crash, a failed write or a key that was withdrawn in the middle of a call
\* leave: where only install puts a license, there is none that no trusted key signed.
InstalledIsAuthentic ==
    \A place \in {"etc", "home", "profile"} :
        files[place] \in License =>
            [kid |-> files[place].kid, key |-> files[place].key] \in ever

\* As long as nobody else writes, what install has reported as installed is whole, at
\* a place a status looks at, and intact: the next status finds it or a license before
\* it (cli main.rs, License Install against license.rs, get_license_search_paths).
InstallIsFound ==
    \A p \in Proc : Settled(p) /\ result[p].outcome = "installed" =>
        /\ files[result[p].place] = result[p].lic
        /\ MayBeIntact(result[p].lic)
        /\ \E i \in 1 .. Len(SearchPaths(env)) : SearchPaths(env)[i] = result[p].place
=============================================================================
