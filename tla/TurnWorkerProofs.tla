------------------------- MODULE TurnWorkerProofs -------------------------
(* What TurnWorker guarantees for every set of clients and every capacity   *)
(* of the queue.                                                            *)
EXTENDS TurnWorker, SequenceTheorems, TLAPS

(***************************************************************************)
(* The inductive invariant                                                 *)
(***************************************************************************)

Saving == worker \in {"turn-saving", "drain-saving"}

\* While the session id is saved, read_line has just returned a whole line.
SavesLine == Saving => held \in Piece /\ held.part = "tail"

\* What claude writes in a turn, piece by piece.
Script(t, i) == [turn  |-> t,
                 event |-> IF i \in {1, 2} THEN "init" ELSE "result",
                 part  |-> IF i \in {1, 3} THEN "head" ELSE "tail"]

\* How far claude is with turn t when it has written w pieces.
Stage(t, w) ==
    \/ claude = "dead"
    \/ w = 0 /\ claude = "idle" /\ stdin = <<t>>
    \/ w = 0 /\ claude = t /\ ~named /\ stdin = <<>>
    \/ w = 2 /\ claude = t /\ named /\ stdin = <<>>
    \/ w = 4 /\ claude = "idle" /\ stdin = <<>>

\* Nothing but turn t is on its way: claude has written w pieces of it and the
\* worker has read r of them.
At(t, w, r) ==
    /\ r <= w
    /\ Len(stdout) = w - r
    /\ \A i \in 1..(w - r) : stdout[i] = Script(t, r + i)
    /\ held # None \/ Saving => r > 0 /\ held = Script(t, r)
    /\ Stage(t, w)

OneTurn(t) == \E w \in {0, 2, 4}, r \in 0..4 : At(t, w, r)

\* Nothing at all is on its way.
Quiet ==
    /\ held = None
    /\ stdout = <<>>
    /\ claude = "dead" \/ (claude = "idle" /\ stdin = <<>>)

\* What is on its way is known from where the worker is: the turn it reads, or
\* the one whose result it owes, or nothing.
Stream ==
    /\ worker \in {"write", "turn", "turn-saving"} => ~owesResult
    /\ worker \in {"drain", "drain-saving"} => owesResult
    /\ worker \in {"recv", "write"} /\ ~owesResult => Quiet
    /\ worker \in {"turn", "turn-saving"} => OneTurn(job)
    /\ worker \in {"recv", "drain", "drain-saving"} /\ owesResult => \E t \in Clients : OneTurn(t)

IInv == TypeOK /\ SavesLine /\ Stream /\ OwnReply

USE ClientsAssumption, JobCapAssumption

(***************************************************************************)
(* Types                                                                   *)
(***************************************************************************)

LEMMA InitIInv == Init => IInv
<1>. SUFFICES ASSUME Init PROVE IInv
  OBVIOUS
<1>1. TypeOK
  <2>1. stdin \in Seq(Clients) /\ stdout \in Seq(Piece) /\ jobs \in Seq(Clients) /\ Len(jobs) = 0
    BY EmptySeq DEF Init
  <2>2. Len(jobs) <= JobCap
    BY <2>1
  <2>3. /\ handler \in [Clients -> {"off", "read", "send", "await", "write", "done"}]
        /\ reply \in [Clients -> Clients \cup {None, "error"}]
    BY DEF Init
  <2>. QED  BY <2>1, <2>2, <2>3 DEF Init, TypeOK
<1>2. SavesLine /\ Stream
  BY DEF Init, SavesLine, Saving, Stream, Quiet
<1>3. OwnReply
  BY DEF Init, OwnReply
<1>. QED  BY <1>1, <1>2, <1>3 DEF IInv

\* Of the front the worker's stream knows nothing, and no handler invents text.
Front == \/ \E c \in Clients : Accept(c) \/ SendRequest(c) \/ HangUp(c) \/ Handler(c)
         \/ BeginTeardown

LEMMA FrontStep ==
    ASSUME IInv, Front
    PROVE  IInv'
<1>. USE DEF frontVars, streamVars, idVars, claudeVars
<1>1. UNCHANGED <<worker, job, owesResult, streamVars, idVars, claudeVars>>
  BY DEF Front, Accept, SendRequest, HangUp, Handler, QueueJob, WorkerGone, ReturnReply, ReplySent,
         BeginTeardown
<1>2. TypeOK'
  <2>. USE DEF IInv, TypeOK
  <2>1. ASSUME NEW c \in Clients, Accept(c) PROVE TypeOK'
    BY <2>1 DEF Accept
  <2>5. ASSUME NEW c \in Clients, SendRequest(c) PROVE TypeOK'
    BY <2>5 DEF SendRequest
  <2>6. ASSUME NEW c \in Clients, HangUp(c) PROVE TypeOK'
    BY <2>6 DEF HangUp
  <2>2. ASSUME NEW c \in Clients, QueueJob(c) PROVE TypeOK'
    <3>1. Append(jobs, c) \in Seq(Clients) /\ Len(Append(jobs, c)) = Len(jobs) + 1 /\ Len(jobs) \in Nat
      BY AppendProperties, LenProperties
    <3>2. jobs' \in Seq(Clients) /\ Len(jobs') <= JobCap
      BY <2>2, <3>1 DEF QueueJob
    <3>. QED  BY <2>2, <3>2 DEF QueueJob
  <2>3. ASSUME NEW c \in Clients, WorkerGone(c) \/ ReturnReply(c) \/ ReplySent(c) PROVE TypeOK'
    BY <2>3 DEF WorkerGone, ReturnReply, ReplySent
  <2>4. ASSUME BeginTeardown PROVE TypeOK'
    BY <2>4 DEF BeginTeardown
  <2>. QED  BY <2>1, <2>2, <2>3, <2>4, <2>5, <2>6 DEF Front, Handler
<1>3. SavesLine'
  BY <1>1 DEF IInv, SavesLine, Saving
<1>4. Stream'
  BY <1>1 DEF IInv, Stream, Quiet, OneTurn, At, Stage, Saving
<1>5. OwnReply'
  BY DEF Front, Accept, SendRequest, HangUp, Handler, QueueJob, WorkerGone, ReturnReply, ReplySent,
         BeginTeardown, IInv, TypeOK, OwnReply
<1>. QED  BY <1>2, <1>3, <1>4, <1>5 DEF IInv

(***************************************************************************)
(* The claude process                                                      *)
(***************************************************************************)

\* What claude writes next.
LEMMA WritesOn ==
    ASSUME TypeOK, NEW t \in Clients, NEW e \in {"init", "result"},
           NEW w \in {0, 2}, NEW r \in 0..4, At(t, w, r),
           e = IF w = 0 THEN "init" ELSE "result",
           stdout' = stdout \o Line(t, e), held' = held, Saving' <=> Saving,
           Stage(t, w + 2)'
    PROVE  At(t, w + 2, r)'
<1>1. /\ Len(Line(t, e)) = 2
      /\ Line(t, e) \in Seq(Piece)
      /\ Line(t, e)[1] = Script(t, w + 1)
      /\ Line(t, e)[2] = Script(t, w + 2)
  BY DEF Line, Script, Piece
<1>2. stdout \in Seq(Piece) /\ Len(stdout) \in Nat
  BY LenProperties DEF TypeOK
<1>3. /\ Len(stdout') = Len(stdout) + 2
      /\ \A i \in 1..Len(stdout) + 2 :
             stdout'[i] = IF i <= Len(stdout) THEN stdout[i] ELSE Line(t, e)[i - Len(stdout)]
  <2>. DEFINE l == Line(t, e)
  <2>1. l \in Seq(Piece) /\ Len(l) = 2 /\ stdout \in Seq(Piece)
    BY <1>1, <1>2
  <2>. HIDE DEF l
  <2>2. /\ Len(stdout \o l) = Len(stdout) + Len(l)
        /\ \A i \in 1..Len(stdout) + Len(l) :
               (stdout \o l)[i] = IF i <= Len(stdout) THEN stdout[i] ELSE l[i - Len(stdout)]
    BY <2>1, ConcatProperties
  <2>3. stdout' = stdout \o l
    BY DEF l
  <2>4. /\ Len(stdout') = Len(stdout) + 2
        /\ \A i \in 1..Len(stdout) + 2 :
               stdout'[i] = IF i <= Len(stdout) THEN stdout[i] ELSE l[i - Len(stdout)]
    BY <2>1, <2>2, <2>3
  <2>. QED  BY <2>4 DEF l
<1>4. /\ r <= w /\ Len(stdout) = w - r
      /\ \A i \in 1..(w - r) : stdout[i] = Script(t, r + i)
      /\ held # None \/ Saving => r > 0 /\ held = Script(t, r)
  BY DEF At
<1>5. ASSUME NEW i \in 1..(w + 2 - r) PROVE stdout'[i] = Script(t, r + i)
  <2>1. CASE i <= w - r
    BY <1>3, <1>4, <2>1
  <2>2. CASE i = w - r + 1
    <3>1. stdout'[i] = Line(t, e)[1] /\ r + i = w + 1
      BY <1>3, <1>4, <2>2
    <3>. QED  BY <1>1, <3>1
  <2>3. CASE i = w - r + 2
    <3>1. stdout'[i] = Line(t, e)[2] /\ r + i = w + 2
      BY <1>3, <1>4, <2>3
    <3>. QED  BY <1>1, <3>1
  <2>4. i \in Int /\ i <= w + 2 - r /\ w \in Int /\ r \in Int
    OBVIOUS
  <2>5. i <= w - r \/ i = w - r + 1 \/ i = w - r + 2
    BY <2>4
  <2>. QED  BY <2>1, <2>2, <2>3, <2>5
<1>. QED  BY <1>3, <1>4, <1>5 DEF At, Script

\* Claude's own steps take the one turn that is on its way a stage further.
LEMMA ClaudeOneTurn ==
    ASSUME TypeOK, NEW t \in Clients, OneTurn(t),
           ClaudeReads \/ ClaudeNamesSession \/ ClaudeFinishes \/ ClaudeDies
    PROVE  OneTurn(t)'
<1>. USE DEF streamVars, idVars
<1>1. PICK w \in {0, 2, 4}, r \in 0..4 : At(t, w, r)
  BY DEF OneTurn
<1>2. Stage(t, w)
  BY <1>1 DEF At
<1>3. CASE ClaudeReads
  <2>1. claude = "idle" /\ stdin # <<>>
    BY <1>3 DEF ClaudeReads
  <2>2. w = 0 /\ stdin = <<t>>
    BY <1>2, <2>1 DEF Stage
  <2>3. Head(stdin) = t /\ Tail(stdin) = <<>>
    BY <2>2
  <2>4. At(t, 0, r)'
    BY <1>1, <1>3, <2>2, <2>3 DEF ClaudeReads, At, Stage, Saving
  <2>. QED  BY <2>4 DEF OneTurn
<1>4. CASE ClaudeNamesSession
  <2>1. w = 0 /\ claude = t /\ stdin = <<>>
    BY <1>2, <1>4 DEF ClaudeNamesSession, Stage
  <2>2. Stage(t, w + 2)' /\ (Saving' <=> Saving) /\ held' = held /\ stdout' = stdout \o Line(t, "init")
    BY <1>4, <2>1 DEF ClaudeNamesSession, Stage, Saving
  <2>3. At(t, w + 2, r)'
    BY <1>1, <2>1, <2>2, WritesOn
  <2>. QED  BY <2>1, <2>3 DEF OneTurn
<1>5. CASE ClaudeFinishes
  <2>1. w = 2 /\ w \in {0, 2} /\ claude = t /\ stdin = <<>>
    BY <1>2, <1>5 DEF ClaudeFinishes, Stage
  <2>2. Stage(t, w + 2)' /\ (Saving' <=> Saving) /\ held' = held /\ stdout' = stdout \o Line(t, "result")
    BY <1>5, <2>1 DEF ClaudeFinishes, Stage, Saving
  <2>3. "result" \in {"init", "result"} /\ "result" = IF w = 0 THEN "init" ELSE "result"
    BY <2>1
  <2>4. At(t, w + 2, r)'
    BY <1>1, <2>1, <2>2, <2>3, WritesOn
  <2>. QED  BY <2>1, <2>4 DEF OneTurn
<1>6. CASE ClaudeDies
  <2>1. At(t, w, r)'
    BY <1>1, <1>6 DEF ClaudeDies, At, Stage, Saving
  <2>. QED  BY <2>1 DEF OneTurn
<1>. QED  BY <1>3, <1>4, <1>5, <1>6

LEMMA ClaudeStep ==
    ASSUME IInv, ClaudeReads \/ ClaudeNamesSession \/ ClaudeFinishes \/ ClaudeDies
    PROVE  IInv'
<1>. USE DEF frontVars, streamVars, idVars
<1>1. UNCHANGED <<main, frontVars, worker, job, owesResult, held, idVars>>
  BY DEF ClaudeReads, ClaudeNamesSession, ClaudeFinishes, ClaudeDies
<1>2. TypeOK'
  <2>. USE DEF IInv, TypeOK
  <2>1. CASE ClaudeReads
    <3>1. Head(stdin) \in Clients /\ Tail(stdin) \in Seq(Clients)
      BY <2>1, HeadTailProperties DEF ClaudeReads
    <3>. QED  BY <1>1, <2>1, <3>1 DEF ClaudeReads
  <2>2. CASE ClaudeNamesSession \/ ClaudeFinishes
    <3>1. Line(claude, "init") \in Seq(Piece) /\ Line(claude, "result") \in Seq(Piece)
      BY <2>2 DEF ClaudeNamesSession, ClaudeFinishes, Line, Piece
    <3>2. stdout' \in Seq(Piece)
      <4>1. stdout \o Line(claude, "init") \in Seq(Piece) /\ stdout \o Line(claude, "result") \in Seq(Piece)
        <5>1. stdout \in Seq(Piece)
          OBVIOUS
        <5>. QED  BY <3>1, <5>1, ConcatProperties
      <4>. QED  BY <2>2, <4>1 DEF ClaudeNamesSession, ClaudeFinishes
    <3>3. claude' \in Clients \cup {"idle", "dead"} /\ named' \in BOOLEAN /\ stdin' = stdin
      BY <2>2 DEF ClaudeNamesSession, ClaudeFinishes
    <3>. QED  BY <1>1, <3>2, <3>3
  <2>3. CASE ClaudeDies
    BY <1>1, <2>3 DEF ClaudeDies
  <2>. QED  BY <2>1, <2>2, <2>3
<1>3. SavesLine'
  BY <1>1 DEF IInv, SavesLine, Saving
<1>4. Stream'
  <2>1. Quiet => Quiet'
    BY <1>1 DEF Quiet, ClaudeReads, ClaudeNamesSession, ClaudeFinishes, ClaudeDies
  <2>2. \A t \in Clients : OneTurn(t) => OneTurn(t)'
    BY ClaudeOneTurn DEF IInv
  <2>3. worker \in {"turn", "turn-saving"} => job \in Clients
    BY DEF IInv, TypeOK
  <2>. QED  BY <1>1, <2>1, <2>2, <2>3 DEF IInv, Stream
<1>5. OwnReply'
  BY <1>1 DEF IInv, OwnReply
<1>. QED  BY <1>2, <1>3, <1>4, <1>5 DEF IInv

(***************************************************************************)
(* The worker                                                              *)
(***************************************************************************)

LEMMA HeadPiece ==
    ASSUME TypeOK, stdout # <<>>
    PROVE  Head(stdout) \in Piece /\ Tail(stdout) \in Seq(Piece)
BY HeadTailProperties DEF TypeOK

LEMMA HandleTyped ==
    ASSUME TypeOK, NEW p \in Piece, Handle(p), Reading \/ Saving
    PROVE  /\ worker' \in {"recv", "turn", "drain", "write"}
           /\ job' \in Clients \cup {None}
           /\ job' = None <=> worker' = "recv"
           /\ reply' \in [Clients -> Clients \cup {None, "error"}]
           /\ owesResult' \in BOOLEAN
<1>1. job \in Clients /\ p.turn \in Clients
  BY DEF TypeOK, Reading, Saving, Piece
<1>. QED  BY <1>1 DEF TypeOK, Handle, Answer, Reading, Saving

LEMMA WorkerTyped ==
    ASSUME IInv, Worker \/ WriteBigTurn
    PROVE  TypeOK' /\ SavesLine'
<1>. USE DEF frontVars, streamVars, idVars, claudeVars
<1>t. TypeOK /\ SavesLine
  BY DEF IInv
<1>1. CASE RecvJob
  <2>1. Head(jobs) \in Clients /\ Tail(jobs) \in Seq(Clients) /\ Len(Tail(jobs)) = Len(jobs) - 1
        /\ Len(jobs) \in Nat
    BY <1>t, <1>1, HeadTailProperties, LenProperties DEF RecvJob, TypeOK
  <2>2. jobs' \in Seq(Clients) /\ Len(jobs') <= JobCap
    BY <1>t, <1>1, <2>1 DEF RecvJob, TypeOK
  <2>. QED  BY <1>t, <1>1, <2>1, <2>2 DEF RecvJob, TypeOK, SavesLine, Saving, AfterRecv
<1>2. CASE QueueClosed
  BY <1>t, <1>2 DEF QueueClosed, TypeOK, SavesLine, Saving
<1>3. CASE WriteTurn
  <2>1. Append(stdin, job) \in Seq(Clients)
    BY <1>t, <1>3, AppendProperties DEF WriteTurn, TypeOK
  <2>. QED  BY <1>t, <1>3, <2>1 DEF WriteTurn, TypeOK, SavesLine, Saving
<1>4. CASE WriteBigTurn
  BY <1>t, <1>4 DEF WriteBigTurn, TypeOK, SavesLine, Saving
<1>5. CASE WriteTurnFails
  BY <1>t, <1>5 DEF WriteTurnFails, Answer, TypeOK, SavesLine, Saving
<1>6. CASE TurnTimesOut
  BY <1>t, <1>6 DEF TurnTimesOut, Answer, OwesAfterTimeout, DropsPiece, TypeOK, SavesLine, Saving
<1>7. CASE DrainTimesOut
  BY <1>t, <1>7 DEF DrainTimesOut, LeaveLoop, CapReached, DropsPiece, TypeOK, SavesLine, Saving
<1>8. CASE ReadEof
  BY <1>t, <1>8 DEF ReadEof, Reading, Answer, LeaveLoop, TypeOK, SavesLine, Saving
<1>9. CASE ReadPiece
  <2>. DEFINE p == Head(stdout)
  <2>1. p \in Piece /\ stdout' \in Seq(Piece) /\ Reading /\ p.part \in {"head", "tail"}
    BY <1>t, <1>9, HeadPiece DEF ReadPiece, Piece
  <2>2. UNCHANGED <<main, handler, jobs, saved, claudeVars>>
    BY <1>9 DEF ReadPiece
  <2>. HIDE DEF p
  <2>3. CASE p.part = "head" /\ held' = p /\ UNCHANGED <<worker, job, reply, owesResult, known>>
    BY <1>t, <2>1, <2>2, <2>3 DEF TypeOK, SavesLine, Saving, Reading
  <2>4. CASE UNCHANGED <<held, worker, job, reply, owesResult, known>>
    BY <1>t, <2>1, <2>2, <2>4 DEF TypeOK, SavesLine, Saving, Reading
  <2>5. CASE p.part = "tail" /\ held' = p /\ BeginSave
    BY <1>t, <2>1, <2>2, <2>5 DEF TypeOK, SavesLine, Saving, Reading, BeginSave
  <2>6. CASE held' = None /\ Handle(p) /\ UNCHANGED known
    <3>1. /\ worker' \in {"recv", "turn", "drain", "write"}
          /\ job' \in Clients \cup {None}
          /\ job' = None <=> worker' = "recv"
          /\ reply' \in [Clients -> Clients \cup {None, "error"}]
          /\ owesResult' \in BOOLEAN
      BY <1>t, <2>1, <2>6, HandleTyped
    <3>. QED  BY <1>t, <2>1, <2>2, <2>6, <3>1 DEF TypeOK, SavesLine, Saving
  <2>. QED  BY <1>9, <2>3, <2>4, <2>5, <2>6 DEF ReadPiece, p
<1>10. CASE EndSave
  <2>1. held \in Piece /\ Saving
    BY <1>t, <1>10 DEF EndSave, SavesLine, Saving
  <2>2. /\ worker' \in {"recv", "turn", "drain", "write"}
        /\ job' \in Clients \cup {None}
        /\ job' = None <=> worker' = "recv"
        /\ reply' \in [Clients -> Clients \cup {None, "error"}]
        /\ owesResult' \in BOOLEAN
    BY <1>t, <1>10, <2>1, HandleTyped DEF EndSave
  <2>. QED  BY <1>t, <1>10, <2>2 DEF EndSave, TypeOK, SavesLine, Saving
<1>. QED
  BY <1>1, <1>2, <1>3, <1>4, <1>5, <1>6, <1>7, <1>8, <1>9, <1>10 DEF Worker

\* What the worker reads next.
LEMMA ReadsOn ==
    ASSUME TypeOK, NEW t \in Clients, NEW w \in {0, 2, 4}, NEW r \in 0..4, At(t, w, r),
           stdout # <<>>
    PROVE  /\ r < w
           /\ Head(stdout) = Script(t, r + 1)
           /\ Len(Tail(stdout)) = w - (r + 1)
           /\ \A i \in 1..(w - (r + 1)) : Tail(stdout)[i] = Script(t, r + 1 + i)
<1>1. /\ stdout \in Seq(Piece) /\ Len(stdout) \in Nat \ {0}
      /\ Len(stdout) = w - r
      /\ \A i \in 1..(w - r) : stdout[i] = Script(t, r + i)
  BY EmptySeq DEF TypeOK, At
<1>2. /\ Head(stdout) = stdout[1]
      /\ Len(Tail(stdout)) = Len(stdout) - 1
      /\ \A i \in 1..Len(Tail(stdout)) : Tail(stdout)[i] = stdout[i + 1]
  BY <1>1, HeadTailProperties
<1>3. r < w /\ 1 \in 1..(w - r) /\ Len(Tail(stdout)) = w - (r + 1)
  BY <1>1, <1>2
<1>4. ASSUME NEW i \in 1..(w - (r + 1)) PROVE Tail(stdout)[i] = Script(t, r + 1 + i)
  <2>1. i + 1 \in 1..(w - r) /\ r + (i + 1) = r + 1 + i
    OBVIOUS
  <2>2. stdout[i + 1] = Script(t, r + (i + 1))
    BY <1>1, <2>1
  <2>. QED  BY <1>2, <1>3, <2>1, <2>2
<1>. QED  BY <1>1, <1>2, <1>3, <1>4

\* A whole line has been handled, the last piece of which was the r-th of turn
\* t: an answer goes to the turn that is read, and nothing comes after a result.
LEMMA HandleStream ==
    ASSUME IInv, Reading \/ Saving,
           NEW t \in Clients, worker \in {"turn", "turn-saving"} => t = job,
           NEW w \in {0, 2, 4}, NEW r \in 1..4, r <= w, Script(t, r).part = "tail",
           Handle(Script(t, r)),
           held' = None, Stage(t, w)',
           Len(stdout') = w - r, \A i \in 1..(w - r) : stdout'[i] = Script(t, r + i),
           stdout' \in Seq(Piece)
    PROVE  Stream' /\ OwnReply'
<1>1. r = 2 \/ r = 4
  BY DEF Script
<1>2. job \in Clients
  BY DEF IInv, TypeOK, Reading, Saving
<1>3. CASE r = 2
  <2>1. /\ worker' = IF worker \in {"turn", "turn-saving"} THEN "turn" ELSE "drain"
        /\ UNCHANGED <<job, reply, owesResult>>
    BY <1>3 DEF Handle, Script
  <2>2. At(t, w, r)'
    BY <2>1 DEF At, Saving, Script
  <2>3. OneTurn(t)'
    BY <2>2 DEF OneTurn
  <2>4. Stream'
    BY <2>1, <2>3 DEF IInv, Stream, Reading, Saving
  <2>5. OwnReply'
    BY <2>1 DEF IInv, OwnReply
  <2>. QED  BY <2>4, <2>5
<1>4. CASE r = 4
  <2>1. w = 4 /\ Script(t, r).event = "result" /\ Script(t, r).turn = t
    BY <1>4 DEF Script
  <2>2. Quiet'
    <3>1. stdout' = <<>>
      BY <1>4, <2>1, EmptySeq
    <3>. QED  BY <2>1, <3>1 DEF Quiet, Stage
  <2>3. CASE worker \in {"turn", "turn-saving"}
    <3>1. reply' = [reply EXCEPT ![job] = t] /\ worker' = "recv" /\ UNCHANGED owesResult
      BY <2>1, <2>3 DEF Handle, Answer
    <3>2. Stream'
      BY <2>2, <2>3, <3>1 DEF IInv, Stream
    <3>3. OwnReply'
      BY <2>3, <3>1 DEF IInv, OwnReply, TypeOK
    <3>. QED  BY <3>2, <3>3
  <2>4. CASE worker \in {"drain", "drain-saving"}
    <3>1. worker' = "write" /\ owesResult' = FALSE /\ UNCHANGED <<job, reply>>
      BY <2>1, <2>4 DEF Handle
    <3>2. Stream'
      BY <2>2, <3>1 DEF Stream
    <3>3. OwnReply'
      BY <3>1 DEF IInv, OwnReply
    <3>. QED  BY <3>2, <3>3
  <2>. QED  BY <2>3, <2>4 DEF Reading, Saving
<1>. QED  BY <1>1, <1>3, <1>4

LEMMA ReadPieceStream ==
    ASSUME IInv, ReadPiece, TypeOK'
    PROVE  Stream' /\ OwnReply'
<1>. USE DEF streamVars, claudeVars
<1>1. TypeOK /\ SavesLine /\ Stream /\ OwnReply /\ Reading /\ stdout # <<>>
      /\ stdout' = Tail(stdout) /\ UNCHANGED claudeVars
  BY DEF IInv, ReadPiece
<1>2. PICK t \in Clients, w \in {0, 2, 4}, r \in 0..4 :
          At(t, w, r) /\ (worker \in {"turn", "turn-saving"} => t = job)
  <2>1. CASE worker = "turn"
    BY <1>1, <2>1 DEF Stream, OneTurn, TypeOK
  <2>2. CASE worker = "drain"
    BY <1>1, <2>2 DEF Stream, OneTurn
  <2>. QED  BY <1>1, <2>1, <2>2 DEF Reading
<1>3. /\ r < w
      /\ Head(stdout) = Script(t, r + 1)
      /\ Len(stdout') = w - (r + 1)
      /\ \A i \in 1..(w - (r + 1)) : stdout'[i] = Script(t, r + 1 + i)
  <2>1. TypeOK /\ stdout # <<>> /\ At(t, w, r)
    BY <1>1, <1>2
  <2>2. /\ r < w
        /\ Head(stdout) = Script(t, r + 1)
        /\ Len(Tail(stdout)) = w - (r + 1)
        /\ \A i \in 1..(w - (r + 1)) : Tail(stdout)[i] = Script(t, r + 1 + i)
    BY <2>1, ReadsOn
  <2>3. stdout' = Tail(stdout)
    BY <1>1
  <2>. QED  BY <2>2, <2>3
<1>4. PICK q \in 1..4 : q = r + 1
  BY <1>3
<1>5. Stage(t, w)' /\ stdout' \in Seq(Piece)
  BY <1>1, <1>2 DEF At, Stage, TypeOK
<1>. DEFINE p == Script(t, q)
<1>6. \/ p.part = "head" /\ held' = p /\ UNCHANGED <<worker, job, reply, owesResult>>
      \/ held = None /\ UNCHANGED <<held, worker, job, reply, owesResult>>
      \/ p.part = "tail" /\ held' = p /\ BeginSave
      \/ p.part = "tail" /\ held' = None /\ Handle(p)
  BY <1>3, <1>4 DEF ReadPiece
<1>. HIDE DEF p
<1>7. ASSUME held' # None \/ Saving' => held' = p,
             UNCHANGED <<job, reply, owesResult>>,
             worker' \in IF worker = "turn" THEN {"turn", "turn-saving"} ELSE {"drain", "drain-saving"}
      PROVE  Stream' /\ OwnReply'
  <2>1. /\ q <= w /\ Len(stdout') = w - q
        /\ \A i \in 1..(w - q) : stdout'[i] = Script(t, q + i)
        /\ held' # None \/ Saving' => q > 0 /\ held' = Script(t, q)
    BY <1>3, <1>4, <1>7 DEF p
  <2>2. At(t, w, q)'
    BY <1>5, <2>1 DEF At, Script
  <2>3. OneTurn(t)'
    BY <2>2 DEF OneTurn
  <2>4. Stream'
    BY <1>1, <1>2, <1>7, <2>3 DEF Stream, Reading
  <2>. QED  BY <1>1, <1>7, <2>4 DEF OwnReply
<1>8. CASE p.part = "head" /\ held' = p /\ UNCHANGED <<worker, job, reply, owesResult>>
  BY <1>1, <1>7, <1>8 DEF Reading
<1>9. CASE held = None /\ UNCHANGED <<held, worker, job, reply, owesResult>>
  BY <1>1, <1>7, <1>9 DEF Reading, Saving
<1>10. CASE p.part = "tail" /\ held' = p /\ BeginSave
  BY <1>1, <1>7, <1>10 DEF Reading, BeginSave
<1>11. CASE p.part = "tail" /\ held' = None /\ Handle(p)
  <2>1. /\ q <= w /\ Len(stdout') = w - q
        /\ \A i \in 1..(w - q) : stdout'[i] = Script(t, q + i)
    BY <1>3, <1>4
  <2>. QED  BY <1>1, <1>2, <1>5, <1>11, <2>1, HandleStream DEF p
<1>. QED  BY <1>6, <1>8, <1>9, <1>10, <1>11

LEMMA EndSaveStream ==
    ASSUME IInv, EndSave, TypeOK'
    PROVE  Stream' /\ OwnReply'
<1>. USE DEF streamVars, claudeVars
<1>1. /\ TypeOK /\ SavesLine /\ Stream /\ Saving
      /\ held' = None /\ Handle(held) /\ stdout' = stdout /\ UNCHANGED claudeVars
  BY DEF IInv, EndSave, Saving
<1>2. PICK t \in Clients, w \in {0, 2, 4}, r \in 0..4 :
          At(t, w, r) /\ (worker \in {"turn", "turn-saving"} => t = job)
  <2>1. CASE worker = "turn-saving"
    BY <1>1, <2>1 DEF Stream, OneTurn, TypeOK
  <2>2. CASE worker = "drain-saving"
    BY <1>1, <2>2 DEF Stream, OneTurn
  <2>. QED  BY <1>1, <2>1, <2>2 DEF Saving
<1>3. /\ r \in 1..4 /\ r <= w /\ held = Script(t, r) /\ Script(t, r).part = "tail"
      /\ Len(stdout') = w - r
      /\ \A i \in 1..(w - r) : stdout'[i] = Script(t, r + i)
  BY <1>1, <1>2 DEF At, SavesLine
<1>4. Stage(t, w)' /\ stdout' \in Seq(Piece)
  BY <1>1, <1>2 DEF At, Stage, TypeOK
<1>. QED  BY <1>1, <1>2, <1>3, <1>4, HandleStream

LEMMA WorkerStream ==
    ASSUME IInv, TypeOK', Worker \/ WriteBigTurn
    PROVE  Stream' /\ OwnReply'
<1>. USE DEF frontVars, streamVars, idVars, claudeVars
<1>t. TypeOK /\ Stream /\ OwnReply
  BY DEF IInv
<1>u. \A t \in Clients : claudeVars' = claudeVars /\ stdout' = stdout /\ held' = None /\ ~Saving'
                         /\ OneTurn(t) => OneTurn(t)'
  <2>1. ASSUME NEW t \in Clients, claudeVars' = claudeVars, stdout' = stdout, held' = None, ~Saving',
               NEW w \in {0, 2, 4}, NEW r \in 0..4, At(t, w, r)
        PROVE  At(t, w, r)'
    BY <2>1 DEF At, Stage, Script
  <2>. QED  BY <2>1, SMTT(20) DEF OneTurn
<1>v. ASSUME UNCHANGED <<claudeVars, streamVars>>, Saving' <=> Saving, NEW t \in Clients, OneTurn(t)
      PROVE  OneTurn(t)'
  BY <1>v DEF OneTurn, At, Stage, Script
<1>1. CASE RecvJob
  <2>1. UNCHANGED <<claudeVars, streamVars, owesResult, reply>> /\ worker = "recv" /\ worker' = AfterRecv
    BY <1>1 DEF RecvJob
  <2>2. ~Saving /\ ~Saving'
    BY <2>1 DEF Saving, AfterRecv
  <2>3. CASE owesResult
    BY <1>t, <1>v, <2>1, <2>2, <2>3 DEF Stream, AfterRecv, OwnReply
  <2>4. CASE ~owesResult
    BY <1>t, <2>1, <2>4 DEF Stream, AfterRecv, Quiet, OwnReply
  <2>. QED  BY <2>3, <2>4
<1>2. CASE QueueClosed
  BY <1>t, <1>2 DEF QueueClosed, Stream, OwnReply
<1>3. CASE WriteTurn
  <2>1. /\ Quiet /\ claude = "idle" /\ stdin = <<>> /\ ~owesResult
        /\ stdin' = Append(stdin, job) /\ worker' = "turn" /\ job' = job /\ job \in Clients
        /\ UNCHANGED <<claude, named, streamVars, owesResult, reply>>
    BY <1>t, <1>3 DEF WriteTurn, Stream, Quiet, TypeOK
  <2>2. stdin' = <<job>>
    BY <2>1
  <2>3. \A t \in Clients : t = job => At(t, 0, 0)'
    BY <2>1, <2>2, EmptySeq DEF At, Stage, Quiet, Saving
  <2>4. OneTurn(job)'
    BY <2>1, <2>3 DEF OneTurn
  <2>. QED  BY <1>t, <2>1, <2>4 DEF Stream, OwnReply
<1>4. CASE WriteBigTurn
  <2>1. /\ Quiet /\ stdin = <<>> /\ ~owesResult
        /\ claude' = job /\ named' = FALSE /\ worker' = "turn" /\ job' = job /\ job \in Clients
        /\ UNCHANGED <<stdin, streamVars, owesResult, reply>>
    BY <1>t, <1>4 DEF WriteBigTurn, Stream, Quiet, TypeOK
  <2>2. \A t \in Clients : t = job => At(t, 0, 0)'
    BY <2>1, EmptySeq DEF At, Stage, Quiet, Saving
  <2>3. OneTurn(job)'
    BY <2>1, <2>2 DEF OneTurn
  <2>. QED  BY <1>t, <2>1, <2>3 DEF Stream, OwnReply
<1>5. CASE WriteTurnFails
  BY <1>t, <1>5 DEF WriteTurnFails, Answer, Stream, Quiet, OwnReply, TypeOK
<1>6. CASE TurnTimesOut
  <2>1. /\ worker \in {"turn", "turn-saving"} /\ job \in Clients
        /\ worker' = "recv" /\ owesResult' = TRUE /\ held' = None
        /\ reply' = [reply EXCEPT ![job] = "error"]
        /\ UNCHANGED <<stdout, claudeVars>>
    BY <1>t, <1>6 DEF TurnTimesOut, Answer, OwesAfterTimeout, DropsPiece, TypeOK
  <2>2. OneTurn(job)
    BY <1>t, <2>1 DEF Stream
  <2>3. \E t \in Clients : OneTurn(t)'
    BY <1>u, <2>1, <2>2 DEF Saving
  <2>. QED  BY <1>t, <2>1, <2>3 DEF Stream, OwnReply, TypeOK
<1>7. CASE DrainTimesOut
  BY <1>t, <1>7 DEF DrainTimesOut, LeaveLoop, CapReached, DropsPiece, Stream, OwnReply, TypeOK
<1>8. CASE ReadEof
  <2>1. Quiet'
    BY <1>8 DEF ReadEof, Quiet
  <2>. QED  BY <1>t, <1>8, <2>1 DEF ReadEof, Reading, Answer, LeaveLoop, Stream, OwnReply, TypeOK
<1>9. CASE ReadPiece
  BY <1>9, ReadPieceStream
<1>10. CASE EndSave
  BY <1>10, EndSaveStream
<1>. QED
  BY <1>1, <1>2, <1>3, <1>4, <1>5, <1>6, <1>7, <1>8, <1>9, <1>10 DEF Worker

LEMMA IInvStep == IInv /\ [Next]_vars => IInv'
<1>. SUFFICES ASSUME IInv, [Next]_vars PROVE IInv'
  OBVIOUS
<1>1. CASE Front
  BY <1>1, FrontStep
<1>2. CASE EndTeardown
  BY <1>2 DEF EndTeardown, IInv, TypeOK, SavesLine, Saving, Stream, OwnReply, frontVars, streamVars,
              idVars
<1>3. CASE Worker \/ WriteBigTurn
  BY <1>3, WorkerTyped, WorkerStream DEF IInv
<1>4. CASE ClaudeReads \/ ClaudeNamesSession \/ ClaudeFinishes \/ ClaudeDies
  BY <1>4, ClaudeStep
<1>5. CASE UNCHANGED vars
  BY <1>5 DEF vars, frontVars, streamVars, idVars, claudeVars, IInv, TypeOK, SavesLine, Saving, Stream,
              Quiet, OneTurn, At, Stage, OwnReply
<1>. QED  BY <1>1, <1>2, <1>3, <1>4, <1>5 DEF Next, Front, Claude

LEMMA Invariance == Spec => []IInv
BY InitIInv, IInvStep, PTL DEF Spec

\* For any set of clients, any of which may be slow, silent or gone, the worker
\* and the handlers keep their types, and the worker has a job exactly while it
\* serves one (daemon.rs:216-280).
THEOREM WorkerTypeCorrect == Spec => []TypeOK
<1>1. IInv => TypeOK
  BY DEF IInv
<1>. QED  BY <1>1, Invariance, PTL

\* Whatever times out or dies, and wherever the session id is saved in between,
\* a client is given the text of its own turn or an error (daemon.rs:232-237).
THEOREM RepliesAreOwn == Spec => []OwnReply
<1>1. IInv => OwnReply
  BY DEF IInv
<1>. QED  BY <1>1, Invariance, PTL

\* A turn is written to a claude that has nothing of an earlier one left to read
\* or to say (daemon.rs:4-7).
THEOREM TurnsDoNotOverlap == Spec => []OneTurnAtATime
<1>1. IInv => OneTurnAtATime
  BY DEF IInv, Stream, Quiet, OneTurnAtATime
<1>. QED  BY <1>1, Invariance, PTL
============================================================================
