-------------------------- MODULE McpServer_proofs --------------------------
(***************************************************************************)
(* The capsules that pack makes are bound to their archives, or somebody  *)
(* is warned of it, and the server answers in the order of the requests    *)
(* and truly, and comes nearer to their end with every step, whatever the  *)
(* client sends and however often the files are changed.                   *)
(***************************************************************************)
EXTENDS McpServer, Sidecar_proofs

InLine == [kind : Kind, id : Nat \union {None}, r : Request \union {None}]
OutLine ==
    [kind : {"warning"}] \union
    [kind : {"answer"}, id : Nat \union {None}, error : BOOLEAN, cap : Packed \union {None}]

\* The pipes
PipeInv ==
    /\ stdin \in Seq(InLine) /\ stdout \in Seq(OutLine)
    /\ \A k \in DOMAIN stdin :
          /\ stdin[k].kind = "pack" => stdin[k].r \in Request /\ stdin[k].r.via = "mcp"
          /\ stdin[k].kind \notin WithId => stdin[k].id = None

\* The loop. While the command line is looked at, the server is not there.
LoopInv ==
    /\ server \in {"waiting", "calling", "ended", "unreadable", "cut"}
    /\ user = "mcp" => (server = "calling" <=> job.pc # "idle")
    /\ user = "cli" => /\ server = "waiting" /\ stdin = <<>> /\ asked = {}
                       /\ closed = FALSE /\ Answers = {}
    /\ server # "calling" => inhand = None
    /\ inhand \in asked \union {None} /\ asked \subseteq 1 .. sent
    /\ sent \in 0 .. MaxLines /\ kills \in 0 .. MaxKills

\* The order of the requests
Earlier(s, t) == \A i \in s, k \in t : i < k
InHand == {inhand} \ {None}
OrderInv ==
    /\ \A i, k \in Answers : i < k /\ IdAt(i) # None /\ IdAt(k) # None => IdAt(i) < IdAt(k)
    /\ \A i, k \in DOMAIN stdin :
          i < k /\ stdin[i].id # None /\ stdin[k].id # None => stdin[i].id < stdin[k].id
    /\ Runs => /\ asked = Answered \union Pending \union InHand
               /\ Earlier(Answered, InHand) /\ Earlier(Answered, Pending)
               /\ Earlier(InHand, Pending)
    /\ server = "ended" => asked = Answered

\* What the last answer that spoke of a capsule still says of the file, while the next
\* call is running
Latest(k) == stdout[k].cap # None /\ \A i \in Answers : i > k => stdout[i].cap = None
Written(k) ==
    \/ out = stdout[k].cap
    \/ out = Torn /\ \E i \in Answers : i > k /\ stdout[i].error
OkInv ==
    /\ job.pc = "done" => out = job.cap
    /\ job.pc = "fill" => out = Torn
    /\ \A k \in Answers : Latest(k) /\ server # "cut" /\ job.pc \notin {"fill", "done"} =>
          Written(k) \/ (job.pc = "failed" /\ out = Torn)

ServerInv == PipeInv /\ LoopInv /\ OrderInv /\ OkInv
MInv == PackInv /\ ServerInv

-----------------------------------------------------------------------------
(* The lines written *)

LEMMA AnswerFields ==
    ASSUME NEW id \in Nat \union {None}, NEW error \in BOOLEAN, NEW cap \in Packed \union {None}
    PROVE  /\ Answer(id, error, cap) \in OutLine
           /\ Answer(id, error, cap).kind = "answer" /\ Answer(id, error, cap).id = id
           /\ Answer(id, error, cap).cap = cap /\ Answer(id, error, cap).error = error
  BY DEF Answer, OutLine

\* A line after the others leaves those where they are.
LEMMA Appended ==
    ASSUME stdout \in Seq(OutLine), NEW l \in OutLine, stdout' = Append(stdout, l)
    PROVE  /\ stdout' \in Seq(OutLine) /\ DOMAIN stdout' = DOMAIN stdout \union {Len(stdout) + 1}
           /\ Len(stdout) + 1 \notin DOMAIN stdout
           /\ \A k \in DOMAIN stdout : stdout'[k] = stdout[k] /\ k \in Nat /\ k < Len(stdout) + 1
           /\ stdout'[Len(stdout) + 1] = l
  OBVIOUS

LEMMA Said ==
    ASSUME PipeInv, NEW id \in Nat \union {None}, NEW error \in BOOLEAN,
           NEW cap \in Packed \union {None}, Say(id, error, cap)
    PROVE  LET n == Len(stdout) + 1
           IN  /\ stdout' \in Seq(OutLine) /\ Answers' = Answers \union {n} /\ n \notin Answers
               /\ \A k \in Answers : stdout'[k] = stdout[k] /\ k \in Nat /\ k < n
               /\ stdout'[n].id = id /\ stdout'[n].cap = cap /\ stdout'[n].error = error
               /\ n \in Nat
               /\ Answered' = Answered \union ({id} \ {None})
  <1> DEFINE n == Len(stdout) + 1
             l == Answer(id, error, cap)
  <1>1. /\ l \in OutLine /\ l.kind = "answer" /\ l.id = id /\ l.cap = cap /\ l.error = error
    BY AnswerFields
  <1>2. stdout \in Seq(OutLine) /\ stdout' = Append(stdout, l)
    BY DEF PipeInv, Say
  <1> HIDE DEF l
  <1>3. /\ stdout' \in Seq(OutLine) /\ DOMAIN stdout' = DOMAIN stdout \union {n}
        /\ n \notin DOMAIN stdout /\ stdout'[n] = l
        /\ \A k \in DOMAIN stdout : stdout'[k] = stdout[k] /\ k \in Nat /\ k < n
    BY <1>1, <1>2, Appended
  <1>4. n \in Nat
    BY <1>2
  <1> HIDE DEF n
  <1>5. Answers' = Answers \union {n} /\ n \notin Answers
    BY <1>1, <1>3 DEF Answers
  <1>6. \A k \in Answers : stdout'[k] = stdout[k] /\ k \in Nat /\ k < n
    BY <1>3 DEF Answers
  <1>7. Answered' = {stdout'[k].id : k \in Answers'} \ {None}
    BY DEF Answered, IdAt
  <1>8. {stdout'[k].id : k \in Answers'} = {stdout[k].id : k \in Answers} \union {id}
    BY <1>1, <1>3, <1>5, <1>6
  <1>9. Answered' = Answered \union ({id} \ {None})
    BY <1>7, <1>8 DEF Answered, IdAt
  <1> QED
    BY <1>1, <1>3, <1>4, <1>5, <1>6, <1>9 DEF n

\* Nothing said to the client: the same, or warnings.
SameAnswers ==
    /\ stdout' \in Seq(OutLine) /\ Answers' = Answers
    /\ \A k \in Answers : stdout'[k] = stdout[k]
    /\ Answered' = Answered

LEMMA Silent == ASSUME PipeInv, UNCHANGED stdout PROVE SameAnswers
  BY DEF PipeInv, SameAnswers, Answers, Answered, IdAt

LEMMA Warned == ASSUME PipeInv, Warn PROVE SameAnswers
  <1> DEFINE n == Len(stdout) + 1
             l == [kind |-> "warning"]
  <1>1. l \in OutLine /\ l.kind # "answer"
    BY DEF OutLine
  <1>2. stdout \in Seq(OutLine) /\ stdout' = Append(stdout, l)
    BY DEF PipeInv, Warn
  <1> HIDE DEF l
  <1>3. /\ stdout' \in Seq(OutLine) /\ DOMAIN stdout' = DOMAIN stdout \union {n}
        /\ n \notin DOMAIN stdout /\ stdout'[n] = l
        /\ \A k \in DOMAIN stdout : stdout'[k] = stdout[k] /\ k \in Nat /\ k < n
    BY <1>1, <1>2, Appended
  <1> HIDE DEF n
  <1>4. Answers' = Answers /\ \A k \in Answers : stdout'[k] = stdout[k]
    BY <1>1, <1>3 DEF Answers
  <1> QED
    BY <1>3, <1>4 DEF SameAnswers, Answered, IdAt

-----------------------------------------------------------------------------
(* The lines read *)

\* The request of the next line, if it is one
HeadId == {Head(stdin).id} \ {None}

LEMMA Taken ==
    ASSUME PipeInv, OrderInv, NEW kind \in Kind, Take(kind)
    PROVE  /\ Head(stdin) \in InLine /\ Head(stdin).kind = kind
           /\ kind = "pack" => Head(stdin).r \in Request /\ Head(stdin).r.via = "mcp"
           /\ Head(stdin).id \in Nat \union {None}
           /\ kind \notin WithId => Head(stdin).id = None
           /\ stdin' \in Seq(InLine)
           /\ \A k \in DOMAIN stdin' : k + 1 \in DOMAIN stdin /\ stdin'[k] = stdin[k + 1]
           /\ Pending = Pending' \union HeadId
           /\ Earlier(HeadId, Pending')
  <1> DEFINE h == Head(stdin)
             ids == {stdin[k].id : k \in DOMAIN stdin}
             rest == {stdin'[k].id : k \in DOMAIN stdin'}
  <1>1. stdin \in Seq(InLine) /\ stdin # <<>> /\ stdin' = Tail(stdin) /\ h.kind = kind
    BY DEF PipeInv, Take
  <1>2. h \in InLine /\ 1 \in DOMAIN stdin /\ h = stdin[1]
    BY <1>1
  <1>3. /\ stdin' \in Seq(InLine)
        /\ \A k \in DOMAIN stdin' : /\ k \in Nat /\ k >= 1
                                    /\ k + 1 \in DOMAIN stdin /\ stdin'[k] = stdin[k + 1]
    BY <1>1
  <1>4. \A k \in DOMAIN stdin : k = 1 \/ (k - 1 \in DOMAIN stdin' /\ stdin'[k - 1] = stdin[k])
    BY <1>1
  <1>5. h.id \in Nat \union {None}
    BY <1>2 DEF InLine
  <1>6. /\ kind = "pack" => h.r \in Request /\ h.r.via = "mcp"
        /\ kind \notin WithId => h.id = None
    BY <1>1, <1>2 DEF PipeInv
  <1>7. ids = rest \union {h.id}
    BY <1>2, <1>3, <1>4
  <1>8. Pending = Pending' \union HeadId
    BY <1>7 DEF Pending, HeadId
  <1>9. Earlier(HeadId, Pending')
    <2> SUFFICES ASSUME NEW k \in DOMAIN stdin', stdin'[k].id # None, h.id # None
                 PROVE  h.id < stdin'[k].id
      BY DEF Earlier, Pending, HeadId
    <2>1. 1 \in DOMAIN stdin /\ k + 1 \in DOMAIN stdin /\ 1 < k + 1
          /\ stdin[k + 1].id # None /\ stdin[1].id # None
      BY <1>2, <1>3
    <2> QED
      BY <1>2, <1>3, <2>1 DEF OrderInv
  <1> HIDE DEF h
  <1> QED
    BY <1>1, <1>2, <1>3, <1>5, <1>6, <1>8, <1>9 DEF h

\* The rest of the pipe is in order as it was.
LEMMA TakenInOrder ==
    ASSUME PipeInv, OrderInv, NEW kind \in Kind, Take(kind)
    PROVE  /\ \A k \in DOMAIN stdin' :
                 /\ stdin'[k].kind = "pack" => stdin'[k].r \in Request /\ stdin'[k].r.via = "mcp"
                 /\ stdin'[k].kind \notin WithId => stdin'[k].id = None
           /\ \A i, k \in DOMAIN stdin' :
                 i < k /\ stdin'[i].id # None /\ stdin'[k].id # None
                 => stdin'[i].id < stdin'[k].id
  <1>1. \A k \in DOMAIN stdin' : k + 1 \in DOMAIN stdin /\ stdin'[k] = stdin[k + 1]
    BY Taken
  <1>2. DOMAIN stdin' \subseteq Nat
    BY Taken
  <1>3. ASSUME NEW i \in DOMAIN stdin', NEW k \in DOMAIN stdin', i < k
        PROVE  i + 1 < k + 1
    BY <1>2, <1>3
  <1>4. \A i, k \in DOMAIN stdin' :
           i < k /\ stdin'[i].id # None /\ stdin'[k].id # None => stdin'[i].id < stdin'[k].id
    BY <1>1, <1>3 DEF OrderInv
  <1> QED
    BY <1>1, <1>4 DEF PipeInv

-----------------------------------------------------------------------------
(* The order *)

\* A line is taken, and answered at once or, having no id, not at all.
LEMMA OrderAnswered ==
    ASSUME PipeInv, LoopInv, OrderInv, NEW kind \in Kind, Take(kind),
           UNCHANGED <<server, inhand>>,
           \/ Head(stdin).id = None /\ SameAnswers
           \/ \E error \in BOOLEAN : Say(Head(stdin).id, error, None)
    PROVE  OrderInv'
  <1> DEFINE id == Head(stdin).id
  <1>1. id \in Nat \union {None} /\ Pending = Pending' \union HeadId /\ Earlier(HeadId, Pending')
    BY Taken
  <1>2. /\ server = "waiting" /\ server' = "waiting" /\ inhand' = None /\ inhand = None
        /\ asked' = asked
    BY DEF Take, LoopInv
  <1>3. HeadId = {id} \ {None}
    BY DEF HeadId
  <1> HIDE DEF id
  <1>4. /\ asked = Answered \union Pending /\ Earlier(Answered, Pending)
        /\ InHand = {} /\ InHand' = {}
    BY <1>2 DEF OrderInv, Runs, InHand
  <1>5. \A i \in Answers : id # None /\ IdAt(i) # None => IdAt(i) < id
    BY <1>1, <1>3, <1>4 DEF Earlier, Answered
  <1>6. Answered' = Answered \union HeadId
    BY <1>1, <1>3, Said DEF id, SameAnswers
  <1>7. \A i, k \in Answers' : i < k /\ IdAt(i)' # None /\ IdAt(k)' # None
           => IdAt(i)' < IdAt(k)'
    <2>1. CASE SameAnswers
      BY <2>1 DEF OrderInv, SameAnswers, IdAt
    <2>2. ASSUME NEW error \in BOOLEAN, Say(id, error, None)
          PROVE  \A i, k \in Answers' : i < k /\ IdAt(i)' # None /\ IdAt(k)' # None
                    => IdAt(i)' < IdAt(k)'
      <3> DEFINE n == Len(stdout) + 1
      <3>1. /\ Answers' = Answers \union {n} /\ n \in Nat
            /\ \A k \in Answers : stdout'[k] = stdout[k] /\ k \in Nat /\ k < n
            /\ stdout'[n].id = id
        BY <1>1, <2>2, Said
      <3> HIDE DEF n
      <3> QED
        BY <1>5, <3>1 DEF OrderInv, IdAt
    <2> QED
      BY <2>1, <2>2 DEF id
  <1>8. /\ asked' = Answered' \union Pending' \union InHand'
        /\ Earlier(Answered', Pending')
    BY <1>1, <1>2, <1>4, <1>6 DEF Earlier
  <1>9. /\ Earlier(Answered', InHand') /\ Earlier(InHand', Pending')
    BY <1>4 DEF Earlier
  <1> QED
    BY <1>2, <1>7, <1>8, <1>9, TakenInOrder DEF OrderInv, Earlier

\* pack is called, and its request is in hand ...
LEMMA OrderCalled ==
    ASSUME PipeInv, LoopInv, OrderInv, Take("pack"), SameAnswers,
           server' = "calling", inhand' = Head(stdin).id
    PROVE  OrderInv'
  <1>1. "pack" \in Kind
    BY DEF Kind
  <1>2. Pending = Pending' \union HeadId /\ Earlier(HeadId, Pending')
    BY <1>1, Taken
  <1>3. InHand = {} /\ Runs /\ InHand' = HeadId /\ asked' = asked /\ Answered' = Answered
    BY DEF Take, LoopInv, InHand, Runs, HeadId, SameAnswers
  <1>4. \A i, k \in Answers' : i < k /\ IdAt(i)' # None /\ IdAt(k)' # None
           => IdAt(i)' < IdAt(k)'
    BY DEF OrderInv, SameAnswers, IdAt
  <1>5. /\ asked = Answered \union Pending /\ Earlier(Answered, Pending)
    BY <1>3 DEF OrderInv
  <1>6. /\ asked' = Answered' \union Pending' \union InHand'
        /\ Earlier(Answered', InHand') /\ Earlier(Answered', Pending')
        /\ Earlier(InHand', Pending')
    BY <1>2, <1>3, <1>5 DEF Earlier
  <1> QED
    BY <1>1, <1>4, <1>6, TakenInOrder DEF OrderInv, Earlier

\* ... until it is answered.
LEMMA OrderPacked ==
    ASSUME PipeInv, LoopInv, OrderInv, server = "calling", server' = "waiting",
           NEW error \in BOOLEAN, NEW cap \in Packed \union {None}, Say(inhand, error, cap),
           inhand' = None, UNCHANGED <<stdin, asked>>
    PROVE  OrderInv'
  <1> DEFINE n == Len(stdout) + 1
  <1>1. inhand \in Nat \union {None}
    BY DEF LoopInv
  <1>2. /\ Answers' = Answers \union {n} /\ n \in Nat
        /\ \A k \in Answers : stdout'[k] = stdout[k] /\ k \in Nat /\ k < n
        /\ stdout'[n].id = inhand
        /\ Answered' = Answered \union ({inhand} \ {None})
    BY <1>1, Said
  <1> HIDE DEF n
  <1>3. /\ asked = Answered \union Pending \union InHand
        /\ Earlier(Answered, InHand) /\ Earlier(Answered, Pending) /\ Earlier(InHand, Pending)
    BY DEF OrderInv, Runs
  <1>4. InHand' = {} /\ Answered' = Answered \union InHand
        /\ Pending' = Pending /\ asked' = asked
    BY <1>2 DEF InHand, Pending
  <1>5. \A i \in Answers : inhand # None /\ IdAt(i) # None => IdAt(i) < inhand
    BY <1>3 DEF Earlier, Answered, InHand
  <1>6. \A i, k \in Answers' : i < k /\ IdAt(i)' # None /\ IdAt(k)' # None
           => IdAt(i)' < IdAt(k)'
    BY <1>2, <1>5 DEF OrderInv, IdAt
  <1>7. /\ asked' = Answered' \union Pending' \union InHand'
        /\ Earlier(Answered', InHand') /\ Earlier(Answered', Pending')
        /\ Earlier(InHand', Pending')
    BY <1>3, <1>4 DEF Earlier
  <1>8. \A i, k \in DOMAIN stdin' :
           i < k /\ stdin'[i].id # None /\ stdin'[k].id # None => stdin'[i].id < stdin'[k].id
    BY DEF OrderInv
  <1> QED
    BY <1>6, <1>7, <1>8 DEF OrderInv, Earlier

\* What changes neither the pipes nor what is in hand
LEMMA OrderKept ==
    ASSUME OrderInv, SameAnswers, UNCHANGED <<stdin, server, inhand, asked>>
    PROVE  OrderInv'
  <1>1. Pending' = Pending /\ InHand' = InHand /\ Runs' = Runs /\ Answered' = Answered
    BY DEF Pending, InHand, Runs, SameAnswers
  <1>2. \A i, k \in Answers' : i < k /\ IdAt(i)' # None /\ IdAt(k)' # None
           => IdAt(i)' < IdAt(k)'
    BY DEF OrderInv, SameAnswers, IdAt
  <1> QED
    BY <1>1, <1>2 DEF OrderInv, Earlier

\* When the loop has ended before its input, nothing is promised of what is in the pipe.
LEMMA OrderOver ==
    ASSUME OrderInv, SameAnswers, server' \in {"unreadable", "cut"},
           \A i, k \in DOMAIN stdin' :
              i < k /\ stdin'[i].id # None /\ stdin'[k].id # None
              => stdin'[i].id < stdin'[k].id
    PROVE  OrderInv'
  BY DEF OrderInv, SameAnswers, IdAt, Runs

\* A request is sent: its id is greater than those before it.
LEMMA OrderSent ==
    ASSUME PipeInv, LoopInv, OrderInv, NEW l \in Line, Send(l)
    PROVE  OrderInv' /\ PipeInv' /\ asked' \subseteq 1 .. sent' /\ asked \subseteq asked'
  <1> DEFINE id == IF l.asks THEN sent + 1 ELSE None
             e == [kind |-> l.kind, id |-> id, r |-> l.r]
             n == Len(stdin) + 1
  <1>1. /\ l.kind \in Kind /\ l.r \in Request \union {None}
        /\ l.asks => l.kind \in WithId
        /\ l.kind = "pack" => l.r \in Request /\ l.r.via = "mcp"
    BY McpServerAssumption
  <1>2. sent \in Nat
    BY McpServerAssumption DEF LoopInv
  <1>3. /\ stdin' = Append(stdin, e) /\ sent' = sent + 1 /\ Runs /\ Runs'
        /\ asked' = asked \union ({id} \ {None})
        /\ UNCHANGED <<packVars, server, inhand>>
    BY <1>2, McpServerAssumption DEF Send, Runs
  <1>4. id \in Nat \union {None} /\ (id # None => id = sent + 1)
    <2>1. CASE l.asks
      BY <1>2, <2>1
    <2>2. CASE ~l.asks
      BY <2>2
    <2> QED
      BY <2>1, <2>2
  <1>5. l.kind \notin WithId => id = None
    BY <1>1
  <1> HIDE DEF id
  <1>6. e \in InLine /\ e.kind = l.kind /\ e.id = id /\ e.r = l.r
    BY <1>1, <1>4 DEF InLine
  <1> HIDE DEF e
  <1>7. /\ stdin' \in Seq(InLine) /\ DOMAIN stdin' = DOMAIN stdin \union {n}
        /\ n \notin DOMAIN stdin /\ stdin'[n] = e /\ n \in Nat
        /\ \A k \in DOMAIN stdin : stdin'[k] = stdin[k] /\ k \in Nat /\ k < n
    BY <1>3, <1>6 DEF PipeInv
  <1> HIDE DEF n
  <1>8. SameAnswers /\ InHand' = InHand
    BY <1>3, Silent DEF packVars, InHand
  <1>9. PipeInv'
    BY <1>1, <1>5, <1>6, <1>7, <1>8 DEF PipeInv, SameAnswers
  <1>10. asked' \subseteq 1 .. sent' /\ asked \subseteq asked'
    <2>1. asked \subseteq 1 .. sent + 1
      BY <1>2 DEF LoopInv
    <2>2. {id} \ {None} \subseteq {sent + 1}
      BY <1>4
    <2>3. sent + 1 \in 1 .. sent + 1
      BY <1>2
    <2> QED
      BY <1>3, <2>1, <2>2, <2>3
  <1>11. /\ asked = Answered \union Pending \union InHand
         /\ Earlier(Answered, InHand) /\ Earlier(Answered, Pending) /\ Earlier(InHand, Pending)
    BY <1>3 DEF OrderInv
  <1>12. Pending' = Pending \union ({id} \ {None})
    BY <1>6, <1>7 DEF Pending
  <1>13. Earlier(asked, {id} \ {None})
    <2>1. \A i \in asked : i \in Int /\ i <= sent
      BY <1>2 DEF LoopInv
    <2>2. \A k \in {id} \ {None} : k = sent + 1
      BY <1>4
    <2> QED
      BY <1>2, <2>1, <2>2 DEF Earlier
  <1>14. /\ asked' = Answered' \union Pending' \union InHand'
         /\ Earlier(Answered', InHand') /\ Earlier(Answered', Pending')
         /\ Earlier(InHand', Pending')
    BY <1>3, <1>8, <1>11, <1>12, <1>13 DEF Earlier, SameAnswers
  <1>15. \A i, k \in Answers' : i < k /\ IdAt(i)' # None /\ IdAt(k)' # None
            => IdAt(i)' < IdAt(k)'
    BY <1>8 DEF OrderInv, SameAnswers, IdAt
  <1>16. \A i, k \in DOMAIN stdin' :
            i < k /\ stdin'[i].id # None /\ stdin'[k].id # None => stdin'[i].id < stdin'[k].id
    <2>1. ASSUME NEW i \in DOMAIN stdin, stdin[i].id # None, id # None
          PROVE  stdin[i].id < id
      BY <1>4, <1>11, <1>13, <2>1 DEF Earlier, Pending
    <2> QED
      BY <1>6, <1>7, <2>1 DEF OrderInv
  <1>17. server' # "ended"
    BY <1>3 DEF Runs
  <1> QED
    BY <1>9, <1>10, <1>14, <1>15, <1>16, <1>17 DEF OrderInv, Earlier

-----------------------------------------------------------------------------
(* What an answer says of the file *)

\* Answers that speak of no capsule
LEMMA OkAnswered ==
    ASSUME PipeInv, OkInv, job.pc = "idle", job'.pc \in {"idle", "begun"}, UNCHANGED out,
           server # "cut",
           \/ SameAnswers
           \/ \E id \in Nat \union {None}, error \in BOOLEAN : Say(id, error, None)
    PROVE  OkInv'
  <1> SUFFICES ASSUME NEW k \in Answers', Latest(k)'
               PROVE  Written(k)'
    BY DEF OkInv
  <1>1. CASE SameAnswers
    BY <1>1 DEF OkInv, SameAnswers, Latest, Written
  <1>2. ASSUME NEW id \in Nat \union {None}, NEW error \in BOOLEAN, Say(id, error, None)
        PROVE  Written(k)'
    <2> DEFINE n == Len(stdout) + 1
    <2>1. /\ Answers' = Answers \union {n} /\ n \in Nat
          /\ \A i \in Answers : stdout'[i] = stdout[i] /\ i \in Nat /\ i < n
          /\ stdout'[n].cap = None
      BY <1>2, Said
    <2> HIDE DEF n
    <2>2. k \in Answers /\ Latest(k)
      BY <2>1 DEF Latest
    <2> QED
      BY <2>1, <2>2 DEF OkInv, Written
  <1> QED
    BY <1>1, <1>2

\* The answer of a call of pack
LEMMA OkPacked ==
    ASSUME PipeInv, LoopInv, OkInv, PackInv, AnswerPack
    PROVE  OkInv'
  <1> DEFINE n == Len(stdout) + 1
             error == job.pc = "failed"
  <1>1. /\ job.pc \in {"done", "failed"} /\ server # "cut" /\ UNCHANGED out
        /\ job' = NoJob /\ Say(inhand, error, job.cap)
    BY DEF AnswerPack
  <1>2. job.cap \in Packed \union {None} /\ inhand \in Nat \union {None} /\ error \in BOOLEAN
    BY <1>1 DEF PackInv, JobInv, Good, LoopInv
  <1>3. /\ Answers' = Answers \union {n} /\ n \in Nat
        /\ \A i \in Answers : stdout'[i] = stdout[i] /\ i \in Nat /\ i < n
        /\ stdout'[n].cap = job.cap /\ stdout'[n].error = error
    BY <1>1, <1>2, Said
  <1> HIDE DEF n
  <1>4. job'.pc = "idle"
    BY <1>1 DEF NoJob
  <1> SUFFICES ASSUME NEW k \in Answers', Latest(k)'
               PROVE  Written(k)'
    BY <1>4 DEF OkInv
  <1>5. CASE job.pc = "done"
    <2>1. job.cap # None
      BY <1>5, SidecarAssumption DEF PackInv, JobInv, Good
    <2>2. k = n
      BY <1>3, <2>1 DEF Latest
    <2> QED
      BY <1>1, <1>3, <1>5, <2>2 DEF OkInv, Written
  <1>6. CASE job.pc = "failed"
    <2>1. job.cap = None /\ error
      BY <1>6 DEF PackInv, JobInv
    <2>2. k \in Answers /\ Latest(k)
      BY <1>3, <2>1 DEF Latest
    <2>3. Written(k) \/ out = Torn
      BY <1>1, <1>6, <2>2 DEF OkInv
    <2> QED
      BY <1>1, <1>3, <2>1, <2>2, <2>3 DEF Written
  <1> QED
    BY <1>1, <1>5, <1>6

\* A step of the call that is running
LEMMA OkStepped ==
    ASSUME OkInv, StepInv, SameAnswers, UNCHANGED server
    PROVE  OkInv'
  <1>1. job.pc \notin {"done", "failed"}
    BY DEF StepInv
  <1>2. ASSUME NEW k \in Answers', Latest(k)'
        PROVE  k \in Answers /\ Latest(k) /\ (Written(k) /\ UNCHANGED out => Written(k)')
    BY <1>2 DEF SameAnswers, Latest, Written
  <1>3. CASE UNCHANGED out /\ job'.pc \notin {"fill", "done"} /\ job.pc # "fill"
    BY <1>1, <1>2, <1>3 DEF OkInv
  <1>4. CASE job.pc = "open" /\ job'.pc = "fill" /\ out' = Torn
    BY <1>4 DEF OkInv
  <1>5. CASE job.pc = "fill" /\ job'.pc = "done" /\ out' = job.cap /\ job'.cap = job.cap
    BY <1>5 DEF OkInv
  <1>6. CASE job.pc = "fill" /\ job'.pc = "failed" /\ UNCHANGED out
    BY <1>6 DEF OkInv
  <1> QED
    BY <1>3, <1>4, <1>5, <1>6 DEF StepInv

\* What is not a step of pack, and says nothing of capsules
LEMMA OkKept ==
    ASSUME OkInv, SameAnswers, UNCHANGED <<out, job>>, server = "cut" => server' = "cut"
    PROVE  OkInv'
  BY DEF OkInv, SameAnswers, Latest, Written

-----------------------------------------------------------------------------
(* The steps of the loop *)

\* What the loop does at once: pack's files and job stay as they are.
LEMMA StayOK ==
    ASSUME PackInv, PipeInv, LoopInv,
           stdout' \in Seq(OutLine), stdin' \in Seq(InLine),
           \A k \in DOMAIN stdin' :
              /\ stdin'[k].kind = "pack" => stdin'[k].r \in Request /\ stdin'[k].r.via = "mcp"
              /\ stdin'[k].kind \notin WithId => stdin'[k].id = None,
           user = "mcp", server = "waiting",
           \/ server' \in {"waiting", "ended", "unreadable"} /\ UNCHANGED <<job, inhand>>
           \/ /\ server' = "calling" /\ inhand' \in asked \union {None}
              /\ JobInv' /\ job'.pc = "begun",
           UNCHANGED <<archive, sidecars, out, changes, user, asked, sent, kills>>
    PROVE  PackInv' /\ PipeInv' /\ LoopInv'
  <1>1. FilesInv'
    BY DEF PackInv, FilesInv
  <1>2. JobInv'
    BY DEF PackInv, JobInv
  <1>3. PipeInv'
    BY DEF PipeInv, SameAnswers
  <1>4. LoopInv'
    BY DEF LoopInv
  <1> QED
    BY <1>1, <1>2, <1>3, <1>4 DEF PackInv

LEMMA TakeUser ==
    ASSUME PackInv, LoopInv, NEW kind \in Kind, Take(kind)
    PROVE  user = "mcp" /\ server = "waiting" /\ inhand = None /\ job.pc = "idle"
  BY DEF PackInv, FilesInv, LoopInv, Take, Via

\* A line is passed over or answered, and pack is not called.
LEMMA LineOK ==
    ASSUME MInv, NEW kind \in Kind, Take(kind), Stay,
           \/ Head(stdin).id = None /\ UNCHANGED stdout
           \/ \E error \in BOOLEAN : Say(Head(stdin).id, error, None)
    PROVE  MInv'
  <1>1. PackInv /\ PipeInv /\ LoopInv /\ OrderInv /\ OkInv
    BY DEF MInv, ServerInv
  <1>2. user = "mcp" /\ server = "waiting" /\ inhand = None /\ job.pc = "idle"
    BY <1>1, TakeUser
  <1>3. UNCHANGED <<archive, sidecars, out, changes, user, asked, sent, kills, job, server, inhand>>
    BY DEF Take, Stay
  <1>4. Head(stdin).id \in Nat \union {None} /\ stdin' \in Seq(InLine)
    BY <1>1, Taken
  <1>5. \/ Head(stdin).id = None /\ SameAnswers
        \/ \E error \in BOOLEAN : Say(Head(stdin).id, error, None)
    BY <1>1, Silent
  <1>6. stdout' \in Seq(OutLine)
    <2>1. CASE SameAnswers
      BY <2>1 DEF SameAnswers
    <2>2. ASSUME NEW error \in BOOLEAN, Say(Head(stdin).id, error, None)
          PROVE  stdout' \in Seq(OutLine)
      BY <1>1, <1>4, <2>2, Said
    <2> QED
      BY <1>5, <2>1, <2>2
  <1>7. PackInv' /\ PipeInv' /\ LoopInv'
    BY <1>1, <1>2, <1>3, <1>4, <1>6, TakenInOrder, StayOK
  <1>8. OrderInv'
    BY <1>1, <1>3, <1>5, OrderAnswered
  <1>9. OkInv'
    BY <1>1, <1>2, <1>3, <1>4, <1>5, OkAnswered
  <1> QED
    BY <1>7, <1>8, <1>9 DEF MInv, ServerInv

LEMMA CallPackOK ==
    ASSUME MInv, CallPack
    PROVE  MInv'
  <1>1. PackInv /\ PipeInv /\ LoopInv /\ OrderInv /\ OkInv /\ "pack" \in Kind
    BY DEF MInv, ServerInv, Kind
  <1>2. CASE Say(Head(stdin).id, TRUE, None) /\ Stay
    BY <1>1, <1>2, LineOK DEF CallPack
  <1>3. CASE /\ job' = Begun(Head(stdin).r)
             /\ server' = "calling" /\ inhand' = Head(stdin).id
             /\ UNCHANGED stdout
    <2>1. /\ Take("pack") /\ user = "mcp" /\ server = "waiting" /\ inhand = None
          /\ job.pc = "idle"
      BY <1>1, TakeUser DEF CallPack
    <2>2. UNCHANGED <<archive, sidecars, out, changes, user, asked, sent, kills>>
      BY <2>1 DEF Take
    <2>3. /\ Head(stdin).r \in Request /\ Head(stdin).r.via = "mcp" /\ stdin' \in Seq(InLine)
          /\ Pending = Pending' \union HeadId
      BY <1>1, <2>1, Taken
    <2>4. JobInv' /\ job'.pc = "begun"
      BY <1>3, <2>1, <2>2, <2>3, BegunOK
    <2>5. SameAnswers /\ stdout' \in Seq(OutLine)
      BY <1>1, <1>3, Silent DEF SameAnswers
    <2>6. inhand' \in asked \union {None}
      BY <1>1, <1>3, <2>1, <2>3 DEF OrderInv, Runs, HeadId
    <2>7. PackInv' /\ PipeInv' /\ LoopInv'
      BY <1>1, <1>3, <2>1, <2>2, <2>3, <2>4, <2>5, <2>6, TakenInOrder, StayOK
    <2>8. OrderInv'
      BY <1>1, <1>3, <2>1, <2>5, OrderCalled
    <2>9. OkInv'
      BY <1>1, <2>1, <2>2, <2>4, <2>5, OkAnswered
    <2> QED
      BY <2>7, <2>8, <2>9 DEF MInv, ServerInv
  <1> QED
    BY <1>2, <1>3 DEF CallPack

LEMMA EndUnreadableOK ==
    ASSUME MInv, EndUnreadable
    PROVE  MInv'
  <1>1. PackInv /\ PipeInv /\ LoopInv /\ OrderInv /\ OkInv /\ "binary" \in Kind
    BY DEF MInv, ServerInv, Kind
  <1>2. /\ Take("binary") /\ user = "mcp" /\ server = "waiting" /\ inhand = None
        /\ job.pc = "idle" /\ server' = "unreadable" /\ UNCHANGED <<stdout, job, inhand>>
    BY <1>1, TakeUser DEF EndUnreadable
  <1>3. UNCHANGED <<archive, sidecars, out, changes, user, asked, sent, kills>>
    BY <1>2 DEF Take
  <1>4. SameAnswers /\ stdin' \in Seq(InLine) /\ stdout' \in Seq(OutLine)
    BY <1>1, <1>2, Silent, Taken DEF SameAnswers
  <1>5. PackInv' /\ PipeInv' /\ LoopInv'
    BY <1>1, <1>2, <1>3, <1>4, TakenInOrder, StayOK
  <1>6. OrderInv'
    BY <1>1, <1>2, <1>4, TakenInOrder, OrderOver
  <1>7. OkInv'
    BY <1>1, <1>2, <1>3, <1>4, OkKept
  <1> QED
    BY <1>5, <1>6, <1>7 DEF MInv, ServerInv

LEMMA EndOfInputOK ==
    ASSUME MInv, EndOfInput
    PROVE  MInv'
  <1>1. PackInv /\ PipeInv /\ LoopInv /\ OrderInv /\ OkInv
    BY DEF MInv, ServerInv
  <1>2. /\ server = "waiting" /\ stdin = <<>> /\ closed /\ server' = "ended"
        /\ UNCHANGED packVars /\ UNCHANGED <<stdin, closed, inhand, asked, sent, kills>>
    BY DEF EndOfInput
  <1>3. UNCHANGED <<archive, sidecars, out, job, stdout, changes, user>>
    BY <1>2 DEF packVars
  <1>4. user = "mcp" /\ inhand = None
    BY <1>1, <1>2 DEF PackInv, FilesInv, LoopInv, Via
  <1>5. SameAnswers /\ stdout' \in Seq(OutLine) /\ stdin' \in Seq(InLine)
    BY <1>1, <1>2, <1>3, Silent DEF SameAnswers, PipeInv
  <1>6. PackInv' /\ PipeInv' /\ LoopInv'
    BY <1>1, <1>2, <1>3, <1>4, <1>5, StayOK DEF PipeInv
  <1>7. OrderInv'
    <2>1. Pending = {} /\ InHand = {} /\ asked = Answered
      <3>1. DOMAIN stdin = {}
        BY <1>2
      <3>2. Pending = {} /\ InHand = {}
        BY <1>4, <3>1 DEF Pending, InHand
      <3>3. asked = Answered \union Pending \union InHand
        BY <1>1, <1>2 DEF OrderInv, Runs
      <3> QED
        BY <3>2, <3>3
    <2>2. \A i, k \in Answers' : i < k /\ IdAt(i)' # None /\ IdAt(k)' # None
             => IdAt(i)' < IdAt(k)'
      BY <1>1, <1>5 DEF OrderInv, SameAnswers, IdAt
    <2> QED
      BY <1>2, <1>5, <2>1, <2>2 DEF OrderInv, SameAnswers, Runs
  <1>8. OkInv'
    BY <1>1, <1>2, <1>3, <1>5, OkKept
  <1> QED
    BY <1>6, <1>7, <1>8 DEF MInv, ServerInv

LEMMA AnswerPackOK ==
    ASSUME MInv, AnswerPack
    PROVE  MInv'
  <1>1. PackInv /\ PipeInv /\ LoopInv /\ OrderInv /\ OkInv
    BY DEF MInv, ServerInv
  <1> DEFINE error == job.pc = "failed"
  <1>2. /\ server = "calling" /\ job.pc \in {"done", "failed"} /\ server' = "waiting"
        /\ inhand' = None /\ job' = NoJob
        /\ UNCHANGED <<archive, sidecars, out, changes, user, stdin, closed, asked, sent, kills>>
    BY DEF AnswerPack
  <1>3. job.cap \in Packed \union {None} /\ inhand \in Nat \union {None} /\ error \in BOOLEAN
    BY <1>1, <1>2 DEF PackInv, JobInv, Good, LoopInv
  <1>4. Say(inhand, error, job.cap)
    BY DEF AnswerPack
  <1> HIDE DEF error
  <1>5. stdout' \in Seq(OutLine)
    BY <1>1, <1>3, <1>4, Said
  <1>6. JobInv' /\ job'.pc = "idle"
    BY <1>2, IdleOK
  <1>7. PackInv'
    BY <1>1, <1>2, <1>6 DEF PackInv, FilesInv
  <1>8. user = "mcp"
    BY <1>1, <1>2 DEF PackInv, FilesInv, LoopInv, Via
  <1>9. PipeInv' /\ LoopInv'
    BY <1>1, <1>2, <1>5, <1>6, <1>8 DEF PipeInv, LoopInv
  <1>10. OrderInv'
    BY <1>1, <1>2, <1>3, <1>4, OrderPacked
  <1>11. OkInv'
    BY <1>1, OkPacked
  <1> QED
    BY <1>7, <1>9, <1>10, <1>11 DEF MInv, ServerInv

LEMMA PackStepSays ==
    ASSUME PipeInv, PackStep
    PROVE  SameAnswers
  BY Silent, Warned DEF PackStep, Prepare, Resolve, Parse, Open, Fill, Without

\* A step of pack, in the server or in the command line
LEMMA StepOK ==
    ASSUME MInv, PackStep, UNCHANGED serverVars
    PROVE  MInv'
  <1>1. PackInv /\ PipeInv /\ LoopInv /\ OrderInv /\ OkInv
    BY DEF MInv, ServerInv
  <1>2. StepInv /\ SameAnswers
    BY <1>1, PackStepOK, PackStepSays
  <1>3. UNCHANGED <<stdin, closed, server, inhand, asked, sent, kills>>
    BY DEF serverVars
  <1>4. PipeInv'
    BY <1>1, <1>2, <1>3 DEF PipeInv, SameAnswers
  <1>5. PackInv' /\ UNCHANGED user /\ job.pc # "idle" /\ job'.pc # "idle"
    BY <1>2 DEF StepInv, Busy
  <1>6. LoopInv'
    BY <1>1, <1>2, <1>3, <1>5 DEF LoopInv, SameAnswers
  <1>7. OrderInv'
    BY <1>1, <1>2, <1>3, OrderKept
  <1>8. OkInv'
    BY <1>1, <1>2, <1>3, OkStepped
  <1> QED
    BY <1>4, <1>5, <1>6, <1>7, <1>8 DEF MInv, ServerInv

LEMMA ServeOK ==
    ASSUME MInv, Serve
    PROVE  MInv'
  <1>1. \A kind \in Kind : Take(kind) => Head(stdin).id \in Nat \union {None}
                                         /\ (kind \notin WithId => Head(stdin).id = None)
    BY Taken DEF MInv, ServerInv
  <1>2. {"blank", "noise", "plain", "initialized", "unknown", "tool"} \subseteq Kind
        /\ "blank" \notin WithId /\ "noise" \notin WithId
    BY DEF Kind, WithId
  <1>3. CASE SkipBlank
    BY <1>1, <1>2, <1>3, LineOK DEF SkipBlank
  <1>4. CASE AnswerNoise
    <2>1. Head(stdin).id = None
      BY <1>1, <1>2, <1>4 DEF AnswerNoise
    <2> QED
      BY <1>2, <1>4, <2>1, LineOK DEF AnswerNoise
  <1>5. CASE AnswerPlain
    BY <1>2, <1>5, LineOK DEF AnswerPlain
  <1>6. CASE CallTool
    BY <1>2, <1>6, LineOK DEF CallTool
  <1>7. CASE AnswerInitialized
    BY <1>2, <1>7, LineOK DEF AnswerInitialized, IfAsked
  <1>8. CASE AnswerUnknown
    BY <1>2, <1>8, LineOK DEF AnswerUnknown, IfAsked
  <1> QED
    BY <1>3, <1>4, <1>5, <1>6, <1>7, <1>8, CallPackOK, EndUnreadableOK, AnswerPackOK,
       EndOfInputOK, StepOK DEF Serve

-----------------------------------------------------------------------------
(* The rest of the world *)

LEMMA SendOK ==
    ASSUME MInv, NEW l \in Line, Send(l)
    PROVE  MInv'
  <1>1. PackInv /\ PipeInv /\ LoopInv /\ OrderInv /\ OkInv
    BY DEF MInv, ServerInv
  <1>2. /\ user = "mcp" /\ sent < MaxLines /\ sent' = sent + 1
        /\ UNCHANGED packVars /\ UNCHANGED <<closed, server, inhand, kills>>
    BY DEF Send
  <1>3. UNCHANGED <<archive, sidecars, out, job, stdout, changes, user>>
    BY <1>2 DEF packVars
  <1>4. OrderInv' /\ PipeInv' /\ asked' \subseteq 1 .. sent' /\ asked \subseteq asked'
    BY <1>1, OrderSent
  <1>5. SameAnswers
    BY <1>1, <1>3, Silent
  <1>6. sent' \in 0 .. MaxLines
    BY <1>1, <1>2, McpServerAssumption DEF LoopInv
  <1>7. LoopInv'
    BY <1>1, <1>2, <1>3, <1>4, <1>6 DEF LoopInv
  <1>8. PackInv'
    BY <1>1, <1>3 DEF PackInv, FilesInv, JobInv
  <1>9. OkInv'
    BY <1>1, <1>2, <1>3, <1>5, OkKept
  <1> QED
    BY <1>4, <1>7, <1>8, <1>9 DEF MInv, ServerInv

\* The client closes the pipe, or a file changes.
LEMMA OutsideOK ==
    ASSUME MInv, UNCHANGED <<out, job, stdout, user, stdin, server, inhand, asked, sent, kills>>,
           PackInv', user = "mcp" \/ UNCHANGED closed
    PROVE  MInv'
  <1>1. PackInv /\ PipeInv /\ LoopInv /\ OrderInv /\ OkInv
    BY DEF MInv, ServerInv
  <1>2. SameAnswers
    BY <1>1, Silent
  <1>3. PipeInv'
    BY <1>1 DEF PipeInv
  <1>4. LoopInv'
    BY <1>1, <1>2 DEF LoopInv, SameAnswers
  <1>5. OrderInv' /\ OkInv'
    BY <1>1, <1>2, OrderKept, OkKept
  <1> QED
    BY <1>3, <1>4, <1>5 DEF MInv, ServerInv

LEMMA KillOK ==
    ASSUME MInv, Kill
    PROVE  MInv'
  <1>1. PackInv /\ PipeInv /\ LoopInv /\ OrderInv /\ OkInv
    BY DEF MInv, ServerInv
  <1>2. /\ user = "mcp" /\ kills < MaxKills /\ server' = "cut" /\ kills' = kills + 1
        /\ job' = NoJob /\ inhand' = None
        /\ UNCHANGED <<archive, sidecars, out, stdout, changes, user, stdin, closed, asked, sent>>
    BY DEF Kill
  <1>3. JobInv' /\ job'.pc = "idle"
    BY <1>2, IdleOK
  <1>4. PackInv'
    BY <1>1, <1>2, <1>3 DEF PackInv, FilesInv
  <1>5. SameAnswers
    BY <1>1, <1>2, Silent
  <1>6. kills' \in 0 .. MaxKills
    BY <1>1, <1>2, McpServerAssumption DEF LoopInv
  <1>7. PipeInv' /\ LoopInv'
    BY <1>1, <1>2, <1>3, <1>6 DEF PipeInv, LoopInv
  <1>8. OrderInv'
    BY <1>1, <1>2, <1>5, OrderOver DEF OrderInv
  <1>9. OkInv'
    BY <1>2, <1>3 DEF OkInv
  <1> QED
    BY <1>4, <1>7, <1>8, <1>9 DEF MInv, ServerInv

\* The server starts with nothing to read and nothing said.
LEMMA FreshOK ==
    ASSUME stdin' = <<>>, stdout' = <<>>, asked' = {}, inhand' = None,
           server' = "waiting", job'.pc \in {"idle", "begun"}
    PROVE  PipeInv' /\ OrderInv' /\ OkInv' /\ Answers' = {}
  <1>1. DOMAIN stdin' = {} /\ DOMAIN stdout' = {}
    OBVIOUS
  <1>2. Answers' = {} /\ Answered' = {} /\ Pending' = {} /\ InHand' = {}
    BY <1>1 DEF Answers, Answered, Pending, InHand
  <1>3. PipeInv'
    BY <1>1 DEF PipeInv
  <1>4. OrderInv'
    BY <1>1, <1>2 DEF OrderInv, Earlier, Runs
  <1>5. OkInv'
    BY <1>2 DEF OkInv
  <1> QED
    BY <1>2, <1>3, <1>4, <1>5

LEMMA RestartOK ==
    ASSUME MInv, Restart
    PROVE  MInv'
  <1>1. PackInv /\ PipeInv /\ LoopInv
    BY DEF MInv, ServerInv
  <1>2. /\ ~Runs /\ server' = "waiting" /\ stdin' = <<>> /\ closed' = FALSE /\ asked' = {}
        /\ stdout' = <<>>
        /\ UNCHANGED <<archive, sidecars, out, job, changes, user, inhand, sent, kills>>
    BY DEF Restart
  <1>3. user = "mcp" /\ job.pc = "idle" /\ inhand = None
    BY <1>1, <1>2 DEF Runs, LoopInv, PackInv, FilesInv, Via
  <1>4. PipeInv' /\ OrderInv' /\ OkInv'
    BY <1>2, <1>3, FreshOK
  <1>5. LoopInv'
    BY <1>1, <1>2, <1>3 DEF LoopInv
  <1>6. PackInv'
    BY <1>1, <1>2 DEF PackInv, FilesInv, JobInv
  <1> QED
    BY <1>4, <1>5, <1>6 DEF MInv, ServerInv

\* The command line starts and returns.
LEMMA StartOK ==
    ASSUME MInv, NEW r \in Request, Start(r), UNCHANGED serverVars
    PROVE  MInv'
  <1>1. PackInv /\ PipeInv /\ LoopInv
    BY DEF MInv, ServerInv
  <1>2. /\ user = "cli" /\ r.via = "cli" /\ job' = Begun(r) /\ stdout' = <<>>
        /\ UNCHANGED <<archive, sidecars, out, changes, user>>
    BY DEF Start
  <1>3. UNCHANGED <<stdin, closed, server, inhand, asked, sent, kills>>
    BY DEF serverVars
  <1>4. JobInv' /\ job'.pc = "begun"
    BY <1>2, BegunOK
  <1>5. /\ server = "waiting" /\ stdin = <<>> /\ asked = {} /\ closed = FALSE /\ inhand = None
    BY <1>1, <1>2 DEF LoopInv
  <1>6. PipeInv' /\ OrderInv' /\ OkInv' /\ Answers' = {}
    BY <1>2, <1>3, <1>4, <1>5, FreshOK
  <1>7. LoopInv'
    BY <1>1, <1>2, <1>3, <1>5, <1>6 DEF LoopInv
  <1>8. PackInv'
    BY <1>1, <1>2, <1>4 DEF PackInv, FilesInv
  <1> QED
    BY <1>6, <1>7, <1>8 DEF MInv, ServerInv

LEMMA ReturnOK ==
    ASSUME MInv, Return, UNCHANGED serverVars
    PROVE  MInv'
  <1>1. PackInv /\ PipeInv /\ LoopInv /\ OrderInv /\ OkInv
    BY DEF MInv, ServerInv
  <1>2. /\ user = "cli" /\ job' = NoJob
        /\ UNCHANGED <<archive, sidecars, out, stdout, changes, user>>
    BY DEF Return
  <1>3. UNCHANGED <<stdin, closed, server, inhand, asked, sent, kills>>
    BY DEF serverVars
  <1>4. JobInv' /\ job'.pc = "idle"
    BY <1>2, IdleOK
  <1>5. PackInv'
    BY <1>1, <1>2, <1>4 DEF PackInv, FilesInv
  <1>6. SameAnswers
    BY <1>1, <1>2, Silent
  <1>7. PipeInv' /\ LoopInv'
    BY <1>1, <1>2, <1>3, <1>6 DEF PipeInv, LoopInv, SameAnswers
  <1>8. OrderInv'
    BY <1>1, <1>3, <1>6, OrderKept
  <1>9. OkInv'
    BY <1>1, <1>2, <1>4, <1>6 DEF OkInv, LoopInv, SameAnswers
  <1> QED
    BY <1>5, <1>7, <1>8, <1>9 DEF MInv, ServerInv

-----------------------------------------------------------------------------
(* The invariant *)

LEMMA InitOK == Init => MInv
  <1> SUFFICES ASSUME Init PROVE MInv
    OBVIOUS
  <1>1. PackInv /\ job.pc = "idle"
    BY PackInitOK DEF Init
  <1>2. /\ stdin = <<>> /\ closed = FALSE /\ server = "waiting" /\ inhand = None
        /\ asked = {} /\ sent = 0 /\ kills = 0 /\ stdout = <<>>
    BY DEF Init, PackInit
  <1>3. DOMAIN stdin = {} /\ DOMAIN stdout = {}
    BY <1>2
  <1>4. Answers = {} /\ Answered = {} /\ Pending = {} /\ InHand = {}
    BY <1>2, <1>3 DEF Answers, Answered, Pending, InHand
  <1>5. PipeInv
    BY <1>2, <1>3 DEF PipeInv
  <1>6. LoopInv
    BY <1>1, <1>2, <1>4, McpServerAssumption DEF LoopInv
  <1>7. OrderInv
    BY <1>2, <1>3, <1>4 DEF OrderInv, Earlier, Runs
  <1>8. OkInv
    BY <1>1, <1>4 DEF OkInv
  <1> QED
    BY <1>1, <1>5, <1>6, <1>7, <1>8 DEF MInv, ServerInv

LEMMA NextOK == MInv /\ [Next]_vars => MInv'
  <1> SUFFICES ASSUME MInv, [Next]_vars PROVE MInv'
    OBVIOUS
  <1>1. CASE Close
    <2>1. UNCHANGED packVars /\ user = "mcp"
          /\ UNCHANGED <<stdin, server, inhand, asked, sent, kills>>
      BY <1>1 DEF Close
    <2>2. PackInv'
      BY <2>1 DEF MInv, PackInv, FilesInv, JobInv, packVars
    <2> QED
      BY <2>1, <2>2, OutsideOK DEF packVars
  <1>2. CASE ChangeFiles /\ UNCHANGED serverVars
    <2>1. PackInv' /\ UNCHANGED <<out, job, stdout, user>>
      BY <1>2, ChangeFilesOK DEF MInv, ChangeFiles
    <2> QED
      BY <1>2, <2>1, OutsideOK DEF serverVars
  <1>3. CASE UNCHANGED vars
    <2>1. UNCHANGED packVars /\ UNCHANGED serverVars
      BY <1>3 DEF vars
    <2>2. PackInv'
      BY <2>1 DEF MInv, PackInv, FilesInv, JobInv, packVars
    <2> QED
      BY <2>1, <2>2, OutsideOK DEF packVars, serverVars
  <1>4. CASE Cli
    BY <1>4, StartOK, ReturnOK, StepOK DEF Cli
  <1> QED
    BY <1>1, <1>2, <1>3, <1>4, SendOK, ServeOK, KillOK, RestartOK DEF Next

LEMMA Invariant == Spec => []MInv
  BY InitOK, NextOK, PTL DEF Spec

-----------------------------------------------------------------------------
(* What pack says of its capsule.  From the step on that has found nothing *)
(* to bind the archive to, the last line is a warning; before that, none.  *)

WarnInv ==
    /\ UnboundIsWarned
    /\ job.pc \in {"begun", "resolve", "parse"} => ~Told
    /\ user = "mcp" /\ Runs /\ job.pc = "idle" => ~Told

LEMMA ToldOrNot ==
    ASSUME PipeInv
    PROVE  /\ UNCHANGED stdout => (Told' <=> Told)
           /\ Warn => Told'
           /\ \A id, error, cap : Say(id, error, cap) => ~Told'
           /\ stdout' = <<>> => ~Told'
  <1>1. stdout \in Seq(OutLine)
    BY DEF PipeInv
  <1>2. ASSUME NEW l, stdout' = Append(stdout, l)
        PROVE  stdout' # <<>> /\ stdout'[Len(stdout')] = l
    BY <1>1, <1>2
  <1>3. ASSUME Warn PROVE Told'
    BY <1>2, <1>3 DEF Warn, Told
  <1>4. ASSUME NEW id, NEW error, NEW cap, Say(id, error, cap) PROVE ~Told'
    <2>1. Answer(id, error, cap).kind = "answer"
      BY DEF Answer
    <2> QED
      BY <1>2, <1>4, <2>1 DEF Say, Told
  <1> QED
    BY <1>3, <1>4 DEF Told

\* A step of pack says it when it knows it, of the capsule it has just made.
LEMMA StepWarns ==
    ASSUME MInv, WarnInv, PackStep
    PROVE  WarnInv'
  <1>1. PackInv /\ PipeInv /\ JobInv
    BY DEF MInv, ServerInv, PackInv
  <1>2. StepInv
    BY <1>1, PackStepOK
  <1>3. job'.pc # "idle" /\ UNCHANGED user
    BY <1>2 DEF StepInv
  <1>4. DOMAIN job = {"pc", "r", "data", "at", "cap"} /\ job = [job EXCEPT !.pc = job.pc]
    BY <1>1 DEF JobInv
  <1>5. ASSUME job'.pc = "failed" PROVE WarnInv'
    BY <1>5 DEF WarnInv, UnboundIsWarned
  <1>6. ASSUME job'.pc \in {"begun", "resolve", "parse"}, ~Told, UNCHANGED stdout PROVE WarnInv'
    BY <1>1, <1>6, ToldOrNot DEF WarnInv, UnboundIsWarned
  <1>7. ASSUME job'.pc \in {"open", "fill", "done"},
               Told' <=> IsAicx(job'.r) /\ Unbound(job'.cap)
        PROVE  WarnInv'
    <2>1. UnboundIsWarned'
      BY <1>7 DEF UnboundIsWarned, IsAicx, Unbound
    <2> QED
      BY <1>7, <2>1 DEF WarnInv
  <1>8. ASSUME NEW c, job' = [job EXCEPT !.pc = "open", !.cap = c]
        PROVE  job'.pc = "open" /\ job'.cap = c /\ job'.r = job.r
    BY <1>4, <1>8
  <1>9. ASSUME job.pc \in {"resolve", "parse"}, Without PROVE WarnInv'
    <2>1. CASE Fail
      BY <1>1, <1>5, <1>9, <2>1, FailOK, <1>3
    <2>2. CASE job' = [job EXCEPT !.pc = "open", !.cap = DigestOnly(job.r, job.data)] /\ Warn
      <3>1. DigestOnly(job.r, job.data).from = None
        BY DEF DigestOnly, PlainCapsule
      <3>2. IsAicx(job.r)
        BY <1>1, <1>9 DEF JobInv
      <3>3. job'.pc = "open" /\ job'.cap.from = None /\ job'.r = job.r
        BY <1>8, <2>2, <3>1
      <3>4. Told'
        BY <1>1, <2>2, ToldOrNot
      <3> QED
        BY <1>7, <3>2, <3>3, <3>4 DEF Unbound
    <2> QED
      BY <1>9, <2>1, <2>2 DEF Without
  <1>10. CASE Prepare
    <2>1. job.pc = "begun" /\ UNCHANGED stdout /\ ~Told
      BY <1>10 DEF Prepare, WarnInv
    <2>2. CASE Fail
      BY <1>1, <1>3, <1>5, <2>1, <2>2, FailOK
    <2>3. CASE job' = [job EXCEPT !.pc = "resolve", !.data = archive]
      <3>1. job'.pc = "resolve"
        BY <1>4, <2>3
      <3> QED
        BY <1>6, <2>1, <3>1
    <2>4. CASE job' = [job EXCEPT !.pc = "open", !.cap = PlainCapsule(job.r, archive)] /\ ~IsAicx(job.r)
      <3>1. job'.pc = "open" /\ job'.r = job.r
        BY <1>8, <2>4
      <3>2. ~Told'
        BY <1>1, <2>1, ToldOrNot
      <3> QED
        BY <1>7, <2>4, <3>1, <3>2
    <2> QED
      BY <1>10, <2>2, <2>3, <2>4 DEF Prepare
  <1>11. CASE Resolve
    <2>1. job.pc = "resolve" /\ ~Told
      BY <1>11 DEF Resolve, WarnInv
    <2>2. CASE Without
      BY <1>9, <2>1, <2>2
    <2>3. CASE (\E n \in Name : job' = [job EXCEPT !.pc = "parse", !.at = n]) /\ UNCHANGED stdout
      <3>1. job'.pc = "parse"
        BY <1>4, <2>3
      <3> QED
        BY <1>6, <2>1, <2>3, <3>1
    <2> QED
      BY <1>11, <2>2, <2>3 DEF Resolve
  <1>12. CASE Parse
    <2> DEFINE doc == sidecars[job.at]
               c == WithSidecar(job.r, job.data, doc)
    <2>1. job.pc = "parse" /\ ~Told /\ IsAicx(job.r)
      BY <1>1, <1>12 DEF Parse, WarnInv, JobInv
    <2>2. CASE Without
      BY <1>9, <2>1, <2>2
    <2>3. CASE /\ doc \in Doc /\ job' = [job EXCEPT !.pc = "open", !.cap = c]
               /\ IF doc.digest \in {job.data, None} THEN UNCHANGED stdout ELSE Warn
      <3>1. c.from = doc /\ c.payload = job.data
        BY DEF WithSidecar
      <3>2. doc # None
        BY <2>3, SidecarAssumption
      <3> HIDE DEF doc, c
      <3>3. job'.pc = "open" /\ job'.cap = c /\ job'.r = job.r
        BY <1>8, <2>3
      <3>4. Unbound(c) <=> doc.digest \notin {job.data, None}
        BY <3>1, <3>2 DEF Unbound
      <3>5. Told' <=> doc.digest \notin {job.data, None}
        BY <1>1, <2>1, <2>3, ToldOrNot
      <3> QED
        BY <1>7, <2>1, <3>3, <3>4, <3>5
    <2> QED
      BY <1>12, <2>2, <2>3 DEF Parse
  <1>13. CASE Open \/ Fill
    <2>1. /\ job.pc \in {"open", "fill"} /\ UNCHANGED stdout
          /\ Told <=> IsAicx(job.r) /\ Unbound(job.cap)
      BY <1>13 DEF Open, Fill, WarnInv, UnboundIsWarned
    <2>2. CASE Fail
      BY <1>1, <1>3, <1>5, <2>1, <2>2, FailOK
    <2>3. CASE job' = [job EXCEPT !.pc = "fill"] \/ job' = [job EXCEPT !.pc = "done"]
      <3>1. job'.pc \in {"fill", "done"} /\ job'.cap = job.cap /\ job'.r = job.r
        BY <1>4, <2>3
      <3>2. Told' <=> Told
        BY <1>1, <2>1, ToldOrNot
      <3> QED
        BY <1>7, <2>1, <3>1, <3>2
    <2> QED
      BY <1>13, <2>2, <2>3 DEF Open, Fill
  <1> QED
    BY <1>10, <1>11, <1>12, <1>13 DEF PackStep

LEMMA WarnInitOK == Init => WarnInv
  BY DEF Init, PackInit, NoJob, WarnInv, UnboundIsWarned, Told

\* A line that is taken is answered, or passed over; only a call that was refused or has
\* ended leaves the server without a job.
LEMMA ServeWarns ==
    ASSUME MInv, WarnInv, Serve
    PROVE  WarnInv'
  <1>1. PackInv /\ PipeInv /\ LoopInv
    BY DEF MInv, ServerInv
  <1>2. ASSUME NEW kind \in Kind, Take(kind), UNCHANGED stdout \/ \E id, error, cap : Say(id, error, cap),
               job'.pc \in {"idle", "begun"}
        PROVE  WarnInv'
    <2>1. user = "mcp" /\ server = "waiting" /\ job.pc = "idle"
      BY <1>1, <1>2, TakeUser
    <2>2. ~Told
      BY <2>1 DEF WarnInv, Runs
    <2>3. ~Told'
      BY <1>1, <1>2, <2>2, ToldOrNot
    <2> QED
      BY <1>2, <2>3 DEF WarnInv, UnboundIsWarned
  <1>3. {"blank", "noise", "binary", "plain", "initialized", "unknown", "tool", "pack"} \subseteq Kind
    BY DEF Kind
  <1>4. ASSUME NEW kind \in Kind, Take(kind), UNCHANGED job PROVE job'.pc \in {"idle", "begun"}
    BY <1>1, <1>4, TakeUser
  <1>5. CASE SkipBlank
    BY <1>2, <1>3, <1>4, <1>5 DEF SkipBlank, Stay
  <1>6. CASE EndUnreadable
    BY <1>2, <1>3, <1>4, <1>6 DEF EndUnreadable
  <1>7. CASE AnswerNoise
    BY <1>2, <1>3, <1>4, <1>7 DEF AnswerNoise, Stay
  <1>8. CASE AnswerPlain
    BY <1>2, <1>3, <1>4, <1>8 DEF AnswerPlain, Stay
  <1>9. CASE CallTool
    BY <1>2, <1>3, <1>4, <1>9 DEF CallTool, Stay
  <1>10. CASE AnswerInitialized
    BY <1>2, <1>3, <1>4, <1>10 DEF AnswerInitialized, IfAsked, Stay
  <1>11. CASE AnswerUnknown
    BY <1>2, <1>3, <1>4, <1>11 DEF AnswerUnknown, IfAsked, Stay
  <1>12. CASE CallPack
    <2>1. Begun(Head(stdin).r).pc = "begun"
      BY DEF Begun, NoJob
    <2> QED
      BY <1>2, <1>3, <1>4, <1>12, <2>1 DEF CallPack, Stay
  <1>13. CASE AnswerPack
    <2>1. job'.pc = "idle"
      BY <1>13 DEF AnswerPack, NoJob
    <2>2. ~Told'
      BY <1>1, <1>13, ToldOrNot DEF AnswerPack
    <2> QED
      BY <2>1, <2>2 DEF WarnInv, UnboundIsWarned
  <1>14. CASE EndOfInput
    <2>1. server = "waiting" /\ UNCHANGED <<job, stdout, user>>
      BY <1>14 DEF EndOfInput, packVars
    <2>2. Told' <=> Told
      BY <1>1, <2>1, ToldOrNot
    <2> QED
      BY <2>1, <2>2 DEF WarnInv, UnboundIsWarned, Runs, IsAicx, Unbound
  <1>15. CASE PackStep
    BY <1>15, StepWarns
  <1> QED
    BY <1>5, <1>6, <1>7, <1>8, <1>9, <1>10, <1>11, <1>12, <1>13, <1>14, <1>15 DEF Serve

LEMMA WarnNextOK == MInv /\ WarnInv /\ [Next]_vars => WarnInv'
  <1> SUFFICES ASSUME MInv, WarnInv, [Next]_vars PROVE WarnInv'
    OBVIOUS
  <1>1. PackInv /\ PipeInv /\ LoopInv
    BY DEF MInv, ServerInv
  <1>2. ASSUME UNCHANGED <<job, stdout, user, server>> PROVE WarnInv'
    <2>1. Told' <=> Told
      BY <1>1, <1>2, ToldOrNot
    <2> QED
      BY <1>2, <2>1 DEF WarnInv, UnboundIsWarned, Runs, IsAicx, Unbound
  <1>3. CASE (\E l \in Line : Send(l)) \/ Close \/ (ChangeFiles /\ UNCHANGED serverVars) \/ UNCHANGED vars
    BY <1>2, <1>3 DEF Send, Close, ChangeFiles, serverVars, vars, packVars
  <1>4. CASE Kill
    <2>1. job'.pc = "idle" /\ server' = "cut"
      BY <1>4 DEF Kill, NoJob
    <2> QED
      BY <2>1 DEF WarnInv, UnboundIsWarned, Runs
  <1>5. CASE Restart
    <2>1. job.pc = "idle" /\ UNCHANGED job /\ stdout' = <<>>
      BY <1>1, <1>5 DEF Restart, Runs, LoopInv, PackInv, FilesInv, Via
    <2>2. ~Told'
      BY <1>1, <2>1, ToldOrNot
    <2> QED
      BY <2>1, <2>2 DEF WarnInv, UnboundIsWarned
  <1>6. ASSUME NEW r \in Request, Start(r) PROVE WarnInv'
    <2>1. job'.pc = "begun" /\ ~Told'
      BY <1>1, <1>6, ToldOrNot DEF Start, Begun, NoJob
    <2> QED
      BY <2>1 DEF WarnInv, UnboundIsWarned
  <1>7. CASE Return
    <2>1. job'.pc = "idle" /\ user' = "cli"
      BY <1>7 DEF Return, NoJob
    <2> QED
      BY <2>1 DEF WarnInv, UnboundIsWarned
  <1> QED
    BY <1>3, <1>4, <1>5, <1>6, <1>7, ServeWarns, StepWarns DEF Next, Cli

-----------------------------------------------------------------------------
(* The theorems *)

\* The types of all variables; pack has at each step what that step needs.
THEOREM TypeCorrect == Spec => []TypeOK
  <1>1. ASSUME MInv PROVE TypeOK
    <2>1. PackInv /\ LoopInv
      BY <1>1 DEF MInv, ServerInv
    <2>2. JobOK
      BY <2>1 DEF PackInv, JobInv, JobOK, Good, Busy
    <2> QED
      BY <2>1, <2>2, SidecarAssumption, McpServerAssumption
      DEF TypeOK, LoopInv, PackInv, FilesInv
  <1> QED
    BY <1>1, Invariant, PTL

\* Whatever happens to archives and sidecars between pack's steps, a strict capsule of an
\* archive is bound to it by a sidecar that was made for it.
THEOREM StrictBound == Spec => []StrictIsBound
  <1>1. ASSUME MInv PROVE StrictIsBound
    BY <1>1, CapsulesGood DEF MInv
  <1> QED
    BY <1>1, Invariant, PTL

\* What was said of a capsule by the time it is written is true of it.
THEOREM AlwaysWarned == Spec => []UnboundIsWarned
  <1>1. WarnInv => UnboundIsWarned
    BY DEF WarnInv, UnboundIsWarned
  <1> QED
    BY <1>1, WarnInitOK, WarnNextOK, Invariant, PTL DEF Spec

\* The loop loses, repeats and reorders no request.
THEOREM InOrder == Spec => []AnsweredInOrder
  <1>1. ASSUME MInv PROVE AnsweredInOrder
    <2>1. OrderInv
      BY <1>1 DEF MInv, ServerInv
    <2>2. Runs => /\ \A i \in Answered : inhand # None => i < inhand
                  /\ \A i \in Answered \union ({inhand} \ {None}), k \in Pending : i < k
      BY <2>1 DEF OrderInv, Earlier, InHand
    <2> QED
      BY <2>1, <2>2 DEF OrderInv, AnsweredInOrder, InHand
  <1> QED
    BY <1>1, Invariant, PTL

\* What an answer says of the capsule file is true until the next answer speaks of it.
THEOREM AnswersAreTrue == Spec => []OkIsWritten
  <1>1. ASSUME MInv PROVE OkIsWritten
    <2>1. OkInv /\ LoopInv /\ PackInv
      BY <1>1 DEF MInv, ServerInv
    <2> SUFFICES ASSUME NEW k \in Answers, Latest(k), server \notin {"calling", "cut"}
                 PROVE  Written(k)
      BY DEF OkIsWritten, Latest, Written
    <2>2. job.pc = "idle"
      BY <2>1 DEF LoopInv, PackInv, FilesInv, Via
    <2> QED
      BY <2>1, <2>2 DEF OkInv
  <1> QED
    BY <1>1, Invariant, PTL

-----------------------------------------------------------------------------
(* The way to the end.  The number of lines in the pipe and the step the   *)
(* call is at measure what is left to do.                                  *)

\* Where each step of pack leads.
LEMMA PackGoesOn ==
    ASSUME JobInv, PackStep
    PROVE  \/ job.pc = "begun" /\ job'.pc \in {"resolve", "open", "failed"}
           \/ job.pc = "resolve" /\ job'.pc \in {"parse", "open", "failed"}
           \/ job.pc = "parse" /\ job'.pc \in {"open", "failed"}
           \/ job.pc = "open" /\ job'.pc \in {"fill", "failed"}
           \/ job.pc = "fill" /\ job'.pc \in {"done", "failed"}
  <1>1. DOMAIN job = {"pc", "r", "data", "at", "cap"}
    BY DEF JobInv
  <1>2. Fail => job'.pc = "failed"
    BY <1>1 DEF Fail
  <1>3. Without => job'.pc \in {"open", "failed"}
    BY <1>1, <1>2 DEF Without
  <1>4. CASE Prepare
    BY <1>1, <1>2, <1>4 DEF Prepare
  <1>5. CASE Resolve
    BY <1>1, <1>3, <1>5 DEF Resolve
  <1>6. CASE Parse
    BY <1>1, <1>3, <1>6 DEF Parse
  <1>7. CASE Open
    BY <1>1, <1>2, <1>7 DEF Open
  <1>8. CASE Fill
    BY <1>1, <1>2, <1>8 DEF Fill
  <1> QED
    BY <1>4, <1>5, <1>6, <1>7, <1>8 DEF PackStep

LEMMA StepsOfCall ==
    ASSUME JobInv
    PROVE  /\ CallLeft \in 0 .. 6
           /\ job.pc = "idle" <=> CallLeft = 0
  BY DEF JobInv, Busy, CallLeft

LEMMA PackIsNearer ==
    ASSUME JobInv, PackStep
    PROVE  CallLeft' < CallLeft
  BY PackGoesOn DEF CallLeft

\* What is left, by its parts.
LEMMA WorkParts ==
    ASSUME PipeInv, JobInv
    PROVE  /\ Len(stdin) \in Nat /\ CallLeft \in 0 .. 6
           /\ Runs => WorkLeft = 7 * Len(stdin) + CallLeft + 1 /\ WorkLeft > 0
           /\ ~Runs => WorkLeft = 0
  <1>1. Len(stdin) \in Nat
    BY DEF PipeInv
  <1> QED
    BY <1>1, StepsOfCall DEF WorkLeft

\* A line that was taken is one less, whether it begins a call or not.
LEMMA LineIsNearer ==
    ASSUME MInv, MInv', NEW kind, Take(kind),
           \/ UNCHANGED job
           \/ job'.pc = "begun" /\ job.pc = "idle"
    PROVE  WorkLeft' < WorkLeft
  <1>1. PipeInv /\ JobInv /\ PipeInv' /\ JobInv'
    BY DEF MInv, ServerInv, PackInv
  <1>2. Runs /\ Len(stdin) \in Nat /\ Len(stdin') = Len(stdin) - 1
    <2>1. stdin \in Seq(InLine) /\ stdin # <<>> /\ stdin' = Tail(stdin) /\ server = "waiting"
      BY <1>1 DEF Take, PipeInv
    <2> QED
      BY <2>1 DEF Runs
  <1>3. WorkLeft = 7 * Len(stdin) + CallLeft + 1 /\ CallLeft \in 0 .. 6
    BY <1>1, <1>2, WorkParts
  <1>4. WorkLeft' = 0 \/ WorkLeft' = 7 * Len(stdin') + CallLeft' + 1
    BY DEF WorkLeft
  <1>5. CallLeft' = CallLeft \/ (CallLeft' = 6 /\ CallLeft = 0)
    BY DEF CallLeft
  <1>6. 7 * (Len(stdin) - 1) + 7 = 7 * Len(stdin)
    BY <1>2
  <1> QED
    BY <1>2, <1>3, <1>4, <1>5, <1>6

LEMMA ServeIsNearer ==
    ASSUME MInv, MInv', Serve
    PROVE  WorkLeft' < WorkLeft
  <1>1. PipeInv /\ JobInv /\ LoopInv
    BY DEF MInv, ServerInv, PackInv
  <1>2. \/ SkipBlank \/ AnswerNoise \/ AnswerPlain \/ CallTool \/ AnswerInitialized
        \/ AnswerUnknown \/ EndUnreadable
        => WorkLeft' < WorkLeft
    <2>1. ASSUME NEW kind, Take(kind), UNCHANGED job PROVE WorkLeft' < WorkLeft
      BY <2>1, LineIsNearer
    <2> QED
      BY <2>1 DEF SkipBlank, AnswerNoise, AnswerPlain, CallTool, AnswerInitialized,
         AnswerUnknown, EndUnreadable, Stay
  <1>3. CASE CallPack
    <2>1. Take("pack") /\ job.pc = "idle"
      <3>1. Take("pack") /\ PackInv /\ LoopInv /\ "pack" \in Kind
        BY <1>3 DEF CallPack, MInv, ServerInv, Kind
      <3> QED
        BY <3>1, TakeUser
    <2>2. UNCHANGED job \/ job'.pc = "begun"
      BY <1>3 DEF CallPack, Stay, Begun, NoJob
    <2> QED
      BY <2>1, <2>2, LineIsNearer
  <1>4. CASE AnswerPack
    <2>1. /\ server = "calling" /\ server' = "waiting" /\ stdin' = stdin
          /\ job.pc \in {"done", "failed"} /\ job'.pc = "idle"
      BY <1>4 DEF AnswerPack, NoJob
    <2>2. CallLeft = 1 /\ CallLeft' = 0
      BY <2>1 DEF CallLeft
    <2>3. WorkLeft = 7 * Len(stdin) + 1 + 1 /\ WorkLeft' = 7 * Len(stdin) + 0 + 1
      BY <2>1, <2>2 DEF WorkLeft, Runs
    <2> QED
      BY <1>1, <2>3, WorkParts
  <1>5. CASE EndOfInput
    <2>1. Runs /\ ~Runs'
      BY <1>5 DEF EndOfInput, Runs
    <2> QED
      BY <1>1, <2>1, WorkParts DEF WorkLeft
  <1>6. CASE server = "calling" /\ PackStep /\ UNCHANGED serverVars
    <2>1. Runs /\ Runs' /\ stdin' = stdin
      BY <1>6 DEF serverVars, Runs
    <2>2. CallLeft' < CallLeft /\ CallLeft \in Int /\ CallLeft' \in Int
      <3>1. JobInv'
        BY DEF MInv, PackInv
      <3>2. (CallLeft \in 0 .. 6)'
        BY <3>1, StepsOfCall, PTL
      <3> QED
        BY <1>1, <1>6, <3>2, StepsOfCall, PackIsNearer
    <2>3. WorkLeft = 7 * Len(stdin) + CallLeft + 1 /\ WorkLeft' = 7 * Len(stdin) + CallLeft' + 1
      BY <2>1 DEF WorkLeft
    <2> QED
      BY <1>1, <2>2, <2>3, WorkParts
  <1> QED
    BY <1>2, <1>3, <1>4, <1>5, <1>6 DEF Serve

\* While the server runs, whatever is not a line, the end of the input or a change of the
\* files brings it nearer to the end of what it was sent: no call goes on for ever.
THEOREM NothingTwice == Spec => GoesOn
  <1> DEFINE Nearer ==
        user = "mcp" /\ Runs =>
          WorkLeft' < WorkLeft \/ sent' > sent
             \/ (WorkLeft' = WorkLeft /\ (closed' # closed \/ changes' # changes))
  <1>1. MInv /\ MInv' /\ [Next]_vars => [Nearer]_vars
    <2> SUFFICES ASSUME MInv, MInv', Next, user = "mcp", Runs
                 PROVE  WorkLeft' < WorkLeft \/ sent' > sent
                           \/ (WorkLeft' = WorkLeft /\ (closed' # closed \/ changes' # changes))
      OBVIOUS
    <2>1. PipeInv /\ JobInv /\ LoopInv /\ FilesInv
      BY DEF MInv, ServerInv, PackInv
    <2>2. ASSUME NEW l \in Line, Send(l) PROVE sent' > sent
      <3>1. sent' = sent + 1 /\ sent \in 0 .. MaxLines
        BY <2>1, <2>2 DEF Send, LoopInv
      <3> QED
        BY <3>1
    <2>3. CASE Close
      <3>1. UNCHANGED <<stdin, server, job>> /\ closed' # closed
        BY <2>3 DEF Close, packVars
      <3> QED
        BY <3>1 DEF WorkLeft, CallLeft, Runs
    <2>4. CASE Kill
      <3>1. ~Runs'
        BY <2>4 DEF Kill, Runs
      <3> QED
        BY <2>1, <3>1, WorkParts DEF WorkLeft
    <2>5. CASE Restart
      BY <2>5 DEF Restart
    <2>6. CASE Cli
      BY <2>6, PackGoesOn DEF Cli, Start, Return
    <2>7. CASE ChangeFiles /\ UNCHANGED serverVars
      <3>1. UNCHANGED <<stdin, server, job>> /\ changes' = changes + 1 /\ changes \in Nat
        BY <2>1, <2>7 DEF ChangeFiles, serverVars, FilesInv
      <3>2. changes' # changes
        BY <3>1
      <3> QED
        BY <3>1, <3>2 DEF WorkLeft, CallLeft, Runs
    <2> QED
      BY <2>2, <2>3, <2>4, <2>5, <2>6, <2>7, ServeIsNearer DEF Next
  <1> QED
    BY <1>1, Invariant, NextOK, PTL DEF Spec, GoesOn
=============================================================================
