----------------------------- MODULE McpServer -----------------------------
(***************************************************************************)
(* The MCP server: one loop that takes a line from its standard input,     *)
(* does what it asks for and writes an answer to its standard output. A    *)
(* call of pack runs in this loop, step by step as in Sidecar, while the   *)
(* client goes on sending.                                                 *)
(* The other tools change none of the files here: they succeed or fail.    *)
(***************************************************************************)
EXTENDS Sidecar

CONSTANTS
    Line,       \* the lines a client may send: their kind, whether they have an id,
                \* and the call of pack
    MaxLines,   \* bound on the lines sent
    MaxKills    \* bound on the ends of the server by force

\* "plain" stands for initialize, ping and tools/list, "tool" for every tool but pack,
\* also one that does not exist; "noise" is text but no request, "binary" is no text.
Kind == {"blank", "noise", "binary", "plain", "initialized", "unknown", "tool", "pack"}
WithId == {"plain", "initialized", "unknown", "tool", "pack"}

ASSUME McpServerAssumption ==
    /\ Line \subseteq [kind : Kind, asks : BOOLEAN, r : Request \union {None}]
    /\ \A l \in Line : l.asks => l.kind \in WithId
    /\ \A l \in Line : l.kind = "pack" => l.r \in Request /\ l.r.via = "mcp"
    /\ None \notin Nat /\ MaxLines \in Nat /\ MaxKills \in Nat

VARIABLES
    stdin,      \* the lines sent and not yet read
    closed,     \* the client sends no more
    server,     \* what the loop is doing
    inhand,     \* the id of the call that is running, or None
    asked,      \* the ids of the requests sent to this process
    sent, kills

serverVars == <<stdin, closed, server, inhand, asked, sent, kills>>
vars == <<packVars, serverVars>>

Init ==
    /\ PackInit
    /\ stdin = <<>> /\ closed = FALSE /\ server = "waiting" /\ inhand = None
    /\ asked = {} /\ sent = 0 /\ kills = 0

Runs == server \in {"waiting", "calling"}

-----------------------------------------------------------------------------
(* The client *)

\* Ids are counted. The client has no need to wait for answers.
Send(l) ==
    LET id == IF l.asks THEN sent + 1 ELSE None
    IN  /\ user = "mcp" /\ Runs /\ ~closed /\ sent < MaxLines
        /\ stdin' = Append(stdin, [kind |-> l.kind, id |-> id, r |-> l.r])
        /\ asked' = IF l.asks THEN asked \union {sent + 1} ELSE asked
        /\ sent' = sent + 1
        /\ UNCHANGED <<packVars, closed, server, inhand, kills>>

Close ==
    /\ user = "mcp" /\ ~closed /\ closed' = TRUE
    /\ UNCHANGED <<packVars, stdin, server, inhand, asked, sent, kills>>

-----------------------------------------------------------------------------
(* The loop *)

Take(kind) ==
    /\ server = "waiting" /\ stdin # <<>> /\ Head(stdin).kind = kind
    /\ stdin' = Tail(stdin)
    /\ UNCHANGED <<archive, sidecars, out, changes, user, closed, asked, sent, kills>>

\* An answer: the request's id, whether it tells of an error, and the capsule packed.
Answer(id, error, cap) == [kind |-> "answer", id |-> id, error |-> error, cap |-> cap]
Say(id, error, cap) == stdout' = Append(stdout, Answer(id, error, cap))

Stay == UNCHANGED <<job, server, inhand>>

SkipBlank == Take("blank") /\ UNCHANGED stdout /\ Stay

\* A line that cannot be read ends the loop.
EndUnreadable ==
    /\ Take("binary") /\ server' = "unreadable"
    /\ UNCHANGED <<stdout, job, inhand>>

\* A fault: so does a line that cannot be parsed.
EndAtNoise ==
    /\ Take("noise") /\ server' = "unreadable"
    /\ UNCHANGED <<stdout, job, inhand>>

\* One that cannot be parsed is answered without an id.
AnswerNoise == Take("noise") /\ Say(None, TRUE, None) /\ Stay

\* These are answered with or without an id ...
AnswerPlain == Take("plain") /\ Say(Head(stdin).id, FALSE, None) /\ Stay
CallTool == Take("tool") /\ (\E error \in BOOLEAN : Say(Head(stdin).id, error, None)) /\ Stay

\* ... and these only with one.
IfAsked(error) ==
    IF Head(stdin).id # None THEN Say(Head(stdin).id, error, None) ELSE UNCHANGED stdout
AnswerInitialized == Take("initialized") /\ IfAsked(FALSE) /\ Stay

\* A fault: methods that are not known are passed over.
PassUnknown == Take("unknown") /\ UNCHANGED stdout /\ Stay

AnswerUnknown == Take("unknown") /\ IfAsked(TRUE) /\ Stay

\* pack_capsule is refused when an argument is missing or the compression is unknown;
\* otherwise it starts.
CallPack ==
    /\ Take("pack")
    /\ \/ Say(Head(stdin).id, TRUE, None) /\ Stay
       \/ /\ job' = Begun(Head(stdin).r)
          /\ server' = "calling" /\ inhand' = Head(stdin).id
          /\ UNCHANGED stdout

AnswerPack ==
    /\ server = "calling" /\ job.pc \in {"done", "failed"}
    /\ Say(inhand, job.pc = "failed", job.cap)
    /\ job' = NoJob /\ server' = "waiting" /\ inhand' = None
    /\ UNCHANGED <<archive, sidecars, out, changes, user, stdin, closed, asked, sent, kills>>

EndOfInput ==
    /\ server = "waiting" /\ stdin = <<>> /\ closed
    /\ server' = "ended"
    /\ UNCHANGED <<packVars, stdin, closed, inhand, asked, sent, kills>>

\* The server's own steps
Serve ==
    \/ SkipBlank \/ EndUnreadable \/ AnswerNoise \/ AnswerPlain \/ CallTool
    \/ AnswerInitialized \/ AnswerUnknown \/ CallPack \/ AnswerPack \/ EndOfInput
    \/ server = "calling" /\ PackStep /\ UNCHANGED serverVars

-----------------------------------------------------------------------------
(* The rest of the world *)

\* The server is ended from outside, or finds at a write that nobody reads any more.
Kill ==
    /\ user = "mcp" /\ Runs /\ kills < MaxKills
    /\ server' = "cut" /\ kills' = kills + 1
    /\ job' = NoJob /\ inhand' = None
    /\ UNCHANGED <<archive, sidecars, out, stdout, changes, user, stdin, closed, asked, sent>>

\* The client starts it again.
Restart ==
    /\ ~Runs
    /\ server' = "waiting" /\ stdin' = <<>> /\ closed' = FALSE /\ asked' = {}
    /\ stdout' = <<>>
    /\ UNCHANGED <<archive, sidecars, out, job, changes, user, inhand, sent, kills>>

Cli ==
    /\ (\E r \in Request : Start(r)) \/ Return \/ (user = "cli" /\ PackStep)
    /\ UNCHANGED serverVars

Next ==
    \/ \E l \in Line : Send(l)
    \/ Close
    \/ Serve
    \/ Kill \/ Restart \/ Cli
    \/ ChangeFiles /\ UNCHANGED serverVars

\* The loop goes on as long as it can: nothing it calls waits for others.
Spec == Init /\ [][Next]_vars /\ WF_vars(Serve)

-----------------------------------------------------------------------------
(* Properties *)

\* The types: pack has at each step what that step needs, and runs for the server only
\* while the loop waits for it.
JobOK ==
    /\ job.pc \in {"idle", "begun", "resolve", "parse", "open", "fill", "done", "failed"}
    /\ job.pc # "idle" => job.r \in Request /\ job.r.via = user
    /\ job.pc \in {"resolve", "parse"} => job.data \in Data \union {Torn} /\ IsAicx(job.r)
    /\ job.pc = "parse" => job.at \in Name
    /\ job.pc \in {"open", "fill", "done"} => job.cap \in Packed /\ job.cap.r = job.r
TypeOK ==
    /\ archive \in Data \union {Absent, Torn}
    /\ sidecars \in [Name -> Doc \union {Absent, Torn}]
    /\ user \in Via /\ JobOK
    /\ server \in {"waiting", "calling", "ended", "unreadable", "cut"}
    /\ user = "mcp" => (server = "calling" <=> job.pc # "idle")
    /\ inhand \in asked \union {None} /\ asked \subseteq 1 .. sent
    /\ sent \in 0 .. MaxLines /\ kills \in 0 .. MaxKills /\ changes \in 0 .. MaxChanges

Answers == {k \in DOMAIN stdout : stdout[k].kind = "answer"}
IdAt(k) == stdout[k].id
Answered == {IdAt(k) : k \in Answers} \ {None}
Pending == {stdin[k].id : k \in DOMAIN stdin} \ {None}

\* No request is lost, answered twice or out of order, whatever lies between: while the
\* loop runs, those that were sent are answered, in hand or in the pipe, in this order;
\* and when it ends with its input, all of them are answered.
AnsweredInOrder ==
    /\ \A i, k \in Answers : i < k /\ IdAt(i) # None /\ IdAt(k) # None => IdAt(i) < IdAt(k)
    /\ Runs => /\ asked = Answered \union Pending \union ({inhand} \ {None})
               /\ \A i \in Answered : inhand # None => i < inhand
               /\ \A i \in Answered \union ({inhand} \ {None}), k \in Pending : i < k
    /\ server = "ended" => asked = Answered

\* A client that was told that its capsule is packed finds it in the file, whole, until
\* it is told of another, or a later call has failed while it was writing, which is
\* answered with an error.
OkIsWritten ==
    \A k \in Answers :
        /\ stdout[k].cap # None /\ server \notin {"calling", "cut"}
        /\ \A i \in Answers : i > k => stdout[i].cap = None
        => \/ out = stdout[k].cap
           \/ out = Torn /\ \E i \in Answers : i > k /\ stdout[i].error

\* A request that is in hand, or in the pipe with no line before it that cannot be read
Due(i) ==
    Runs /\ \/ inhand = i
            \/ \E k \in DOMAIN stdin :
                  /\ stdin[k].id = i
                  /\ \A n \in 1 .. k : stdin[n].kind # "binary"

\* The steps to the end of what was sent: of the call that runs, and for each line as many
\* as a call of pack takes at most.
CallLeft ==
    CASE job.pc = "idle" -> 0
      [] job.pc \in {"done", "failed"} -> 1
      [] job.pc = "fill" -> 2
      [] job.pc = "open" -> 3
      [] job.pc = "parse" -> 4
      [] job.pc = "resolve" -> 5
      [] job.pc = "begun" -> 6
WorkLeft == IF Runs THEN 7 * Len(stdin) + CallLeft + 1 ELSE 0

\* While the server runs, every step brings it nearer to the end of what it was sent, or is
\* a line the client sends, the end of its input or a change of the files: whatever a line
\* asks for and however its call fails, nothing is tried again and no line is read twice.
GoesOn ==
    [][user = "mcp" /\ Runs =>
          WorkLeft' < WorkLeft \/ sent' > sent
             \/ (WorkLeft' = WorkLeft /\ (closed' # closed \/ changes' # changes))]_vars

\* Every request is answered in the end, whether its call succeeds or fails and whatever
\* the client sends before and after it, unless the server is killed.
EveryRequestAnswered ==
    \A i \in 1 .. MaxLines : Due(i) ~> (i \in Answered \/ server = "cut")

\* What the server's manual says: its standard output carries JSON-RPC and nothing else.
OnlyAnswers == user = "mcp" => DOMAIN stdout = Answers
=============================================================================
