---------------------------- MODULE CiScan_proofs ----------------------------
(***************************************************************************)
(* What a build agent and a dashboard may rely on, for any stage, any      *)
(* kinds and numbers of lines, any lengths of them and any cap.            *)
(***************************************************************************)
EXTENDS CiScan, FiniteSetTheorems, TLAPS

Readings == [lines : Seq(Kinds), half : Kinds \cup {Nothing}]

-----------------------------------------------------------------------------
(* Renderings *)

\* The fields of a line.
LEMMA LineIs ==
    ASSUME NEW n, NEW part, NEW masked \in BOOLEAN
    PROVE  /\ Line(n, part, masked).n = n
           /\ Line(n, part, masked).part = part
           /\ Line(n, part, masked).masked <=> masked
  BY Zenon DEF Line

\* What a line of a rendering of text may be.
PieceOf(text, line) ==
    /\ line.part = "whole" => /\ line.n \in 1..Len(text.lines)
                              /\ line.masked <=> Masked(text.lines, line.n)
    /\ line.part = "half" => line.n = Len(text.lines) + 1
    /\ line.part = "cut" => line.masked <=> line.n <= Len(text.lines) /\ Masked(text.lines, line.n)

\* A text of no lines at all is no document of any line.
Empty(text) == text.lines = <<>> /\ text.half = Nothing

\* The cap leaves some of the lines untouched, or all of them.
LEMMA FitsIs ==
    ASSUME NEW text \in Readings, NEW live \in BOOLEAN
    PROVE  Total(text, live) \in Nat /\ Fits(text, live) \in 0..Total(text, live)
  <1> DEFINE total == Total(text, live)
  <1> DEFINE fitting == {i \in 1..total : Reach(text)[i] <= Cap}
  <1>1. total \in Nat
    BY DEF Total, Readings
  <1>2. Fits(text, live) = Cardinality(fitting)
    BY DEF Fits
  <1>3. fitting \in SUBSET (1..total)
    OBVIOUS
  <1> HIDE DEF total, fitting
  <1>4. IsFiniteSet(1..total) /\ Cardinality(1..total) = total
    BY <1>1, FS_Interval
  <1>5. IsFiniteSet(fitting) /\ Cardinality(fitting) <= total
    BY <1>3, <1>4, FS_Subset
  <1>6. Cardinality(fitting) \in Nat
    BY <1>5, FS_CardinalityType
  <1> QED
    BY <1>1, <1>2, <1>5, <1>6 DEF total

\* What the line at a place is, of a rendering or of the redacted text.
GoodLine(text, live, line, i) ==
    line.n = i /\ PieceOf(text, line) /\ (live => line.part # "half")

\* A line of the redacted text is the line it stands for, or the unfinished one.
LEMMA RedactedIs ==
    ASSUME NEW text \in Readings, NEW live \in BOOLEAN, NEW i \in 1..Total(text, live)
    PROVE  /\ Redacted(text, i) \in LineType
           /\ GoodLine(text, live, Redacted(text, i), i)
           /\ Redacted(text, i).masked <=> i <= Len(text.lines) /\ Masked(text.lines, i)
  <1>0. /\ Len(text.lines) \in Nat /\ i \in Nat /\ 1 <= i /\ i <= Total(text, live)
        /\ Masked(text.lines, i) \in BOOLEAN
    BY FitsIs DEF Readings, Masked
  <1>1. CASE i <= Len(text.lines)
    <2>1. Redacted(text, i) = Line(i, "whole", Masked(text.lines, i))
      BY <1>1 DEF Redacted
    <2> QED
      BY <1>0, <1>1, <2>1 DEF Line, LineType, Parts, PieceOf, GoodLine
  <1>2. CASE ~(i <= Len(text.lines))
    <2>1. Redacted(text, i) = Line(i, "half", FALSE)
      BY <1>2 DEF Redacted
    <2>2. i = Len(text.lines) + 1 /\ ~live
      <3>1. CASE text.half # Nothing /\ ~live
        BY <1>0, <1>2, <3>1 DEF Total
      <3>2. CASE ~(text.half # Nothing /\ ~live)
        <4>1. Total(text, live) = Len(text.lines) + 0
          BY <3>2 DEF Total
        <4> QED
          BY <1>0, <1>2, <4>1
      <3> QED
        BY <3>1, <3>2
    <2> QED
      BY <1>0, <1>2, <2>1, <2>2 DEF Line, LineType, Parts, PieceOf, GoodLine
  <1> QED
    BY <1>1, <1>2

\* The lines of a rendering are where they say, and pieces of its text.
LEMMA RenderedIs ==
    ASSUME NEW text \in Readings, NEW live \in BOOLEAN
    PROVE  /\ Rendered(text, live) \in Seq(LineType)
           /\ \A i \in DOMAIN Rendered(text, live) :
                GoodLine(text, live, Rendered(text, live)[i], i)
           /\ Empty(text) => Len(Rendered(text, live)) = 0
  <1> DEFINE total == Total(text, live)
  <1> DEFINE fits == Fits(text, live)
  <1> DEFINE L(i) == Redacted(text, i)
  <1> DEFINE fitting == [i \in 1..fits |-> L(i)]
  <1> DEFINE cutline == Line(fits + 1, "cut", L(fits + 1).masked)
  <1> DEFINE note == Line(fits + 2, "note", FALSE)
  <1>1. Rendered(text, live) = IF fits = total THEN fitting ELSE fitting \o <<cutline, note>>
    BY DEF Rendered
  <1>2. total \in Nat /\ fits \in Nat /\ fits <= total
    BY FitsIs
  <1> DEFINE hides(i) == i <= Len(text.lines) /\ Masked(text.lines, i)
  <1>3. \A i \in 1..total : L(i) \in LineType /\ GoodLine(text, live, L(i), i)
    BY RedactedIs
  <1>m. \A i \in 1..total : L(i).masked <=> hides(i)
    BY RedactedIs
  <1>e. Empty(text) => total = 0
    BY DEF Empty, Total
  <1> HIDE DEF total, fits, L, hides
  <1>4. fitting \in Seq(LineType) /\ Len(fitting) = fits /\ \A i \in 1..fits : fitting[i] = L(i)
    BY <1>2, <1>3
  <1>5. CASE fits = total
    <2>1. Rendered(text, live) = fitting
      BY <1>1, <1>5
    <2> HIDE DEF fitting
    <2>2. DOMAIN fitting = 1..fits
      BY <1>4
    <2> QED
      BY <2>1, <2>2, <1>2, <1>3, <1>4, <1>5, <1>e
  <1>6. CASE fits # total
    <2> DEFINE m == L(fits + 1).masked
    <2>1. fits + 1 \in 1..total /\ fits + 1 \in Nat /\ fits + 2 \in Nat
      BY <1>2, <1>6
    <2>2. m \in BOOLEAN /\ (m <=> hides(fits + 1))
      <3>1. L(fits + 1) \in LineType
        BY <1>3, <2>1
      <3>2. m \in BOOLEAN
        BY <3>1 DEF LineType
      <3> QED
        BY <3>2, <1>m, <2>1
    <2> HIDE DEF m
    <2>3. /\ cutline = Line(fits + 1, "cut", m)
          /\ cutline \in LineType /\ cutline.n = fits + 1 /\ cutline.part = "cut"
          /\ cutline.masked <=> m
      BY <2>1, <2>2 DEF Line, LineType, Parts, m
    <2>4. note \in LineType /\ note.n = fits + 2 /\ note.part = "note"
      BY <2>1 DEF Line, LineType, Parts
    <2>5. Rendered(text, live) = fitting \o <<cutline, note>>
      BY <1>1, <1>6
    <2>6. GoodLine(text, live, cutline, fits + 1) /\ GoodLine(text, live, note, fits + 2)
      BY <2>2, <2>3, <2>4 DEF PieceOf, GoodLine, hides
    <2> HIDE DEF fitting, cutline, note
    <2>7. \A a, b \in LineType : <<a, b>> \in Seq(LineType) /\ Len(<<a, b>>) = 2
      OBVIOUS
    <2>8. \A p, q \in Seq(LineType) :
            /\ p \o q \in Seq(LineType) /\ Len(p \o q) = Len(p) + Len(q)
            /\ \A i \in 1..(Len(p) + Len(q)) :
                  (p \o q)[i] = IF i <= Len(p) THEN p[i] ELSE q[i - Len(p)]
      OBVIOUS
    <2> DEFINE r == fitting \o <<cutline, note>>
    <2>9. /\ r \in Seq(LineType) /\ Len(r) = fits + 2
          /\ \A i \in 1..(fits + 2) :
                r[i] = IF i <= fits THEN fitting[i] ELSE <<cutline, note>>[i - fits]
      BY <2>3, <2>4, <2>7, <2>8, <1>4
    <2> HIDE DEF r
    <2>10. DOMAIN r = 1..(fits + 2)
      BY <2>9
    <2>11. ASSUME NEW i \in DOMAIN r
           PROVE  GoodLine(text, live, r[i], i)
      <3>1. CASE i <= fits
        BY <3>1, <2>9, <2>10, <1>2, <1>3, <1>4
      <3>2. CASE i = fits + 1
        <4>1. ~(i <= fits) /\ i - fits = 1
          BY <3>2, <1>2
        <4>2. r[i] = cutline
          BY <4>1, <2>9, <2>10
        <4> QED
          BY <4>2, <3>2, <2>3, <2>6
      <3>3. CASE i = fits + 2
        <4>1. ~(i <= fits) /\ i - fits = 2
          BY <3>3, <1>2
        <4>2. r[i] = note
          BY <4>1, <2>9, <2>10
        <4> QED
          BY <4>2, <3>3, <2>4, <2>6
      <3> QED
        BY <3>1, <3>2, <3>3, <2>10, <1>2
    <2>12. ~Empty(text)
      BY <1>2, <1>6, <1>e
    <2> QED
      BY <2>5, <2>9, <2>11, <2>12 DEF r
  <1> QED
    BY <1>5, <1>6

-----------------------------------------------------------------------------
(* Types *)

\* What a collected text renders to is a document.
LEMMA CollectedRenders ==
    ASSUME ServerTypeOK, NEW text \in Collected, NEW live \in BOOLEAN
    PROVE  text \in Readings /\ Rendered(text, live) \in Seq(LineType)
  <1>1. text \in Readings
    <2>1. text = [lines |-> out, half |-> half] \/ text = [lines |-> <<>>, half |-> Nothing]
      BY DEF Collected, Text
    <2>2. <<>> \in Seq(Kinds)
      OBVIOUS
    <2>3. out \in Seq(Kinds) /\ half \in Kinds \cup {Nothing}
      BY DEF ServerTypeOK
    <2>4. CASE text = [lines |-> out, half |-> half]
      BY <2>3, <2>4 DEF Readings
    <2>5. CASE text = [lines |-> <<>>, half |-> Nothing]
      BY <2>2, <2>5 DEF Readings
    <2> QED
      BY <2>1, <2>4, <2>5
  <1> QED
    BY <1>1, RenderedIs

\* The server's variables keep their types.
LEMMA ServerTypeStep == ServerTypeOK /\ (ServerStep \/ Submit \/ UNCHANGED serverVars) => ServerTypeOK'
  <1> SUFFICES ASSUME ServerTypeOK, ServerStep \/ Submit \/ UNCHANGED serverVars PROVE ServerTypeOK'
    OBVIOUS
  <1> USE DEF ServerTypeOK, Terminal
  <1>1. CASE Submit
    BY <1>1 DEF Submit, logVars
  <1>2. ASSUME NEW s \in Stages, StartStage(s) PROVE ServerTypeOK'
    BY <1>2 DEF StartStage, logVars
  <1>3. ASSUME NEW s \in Stages, EndStage(s) PROVE ServerTypeOK'
    <2>1. bucket' \in Seq(LineType) /\ kept' \in BOOLEAN
      <3>1. CASE Store
        <4>1. PICK text \in Collected :
                kept' \in BOOLEAN /\ bucket' = IF kept' THEN Rendered(text, FALSE) ELSE bucket
          BY <3>1 DEF Store
        <4> QED
          BY <4>1, CollectedRenders
      <3> QED
        BY <1>3, <3>1 DEF EndStage
    <2> QED
      BY <1>3, <2>1 DEF EndStage
  <1>4. ASSUME NEW s \in Stages, CommitStage(s) PROVE ServerTypeOK'
    BY <1>4 DEF CommitStage, Commit, logVars
  <1>5. ASSUME NEW k \in Kinds, PrintLine(k) PROVE ServerTypeOK'
    BY <1>5 DEF PrintLine
  <1>6. CASE EndLine
    BY <1>6 DEF EndLine
  <1>7. CASE Tick
    <2>1. PICK text \in Collected : bucket' = Rendered(text, TRUE)
      BY <1>7 DEF Tick
    <2> QED
      BY <1>7, <2>1, CollectedRenders DEF Tick
  <1>8. CASE StartRun \/ Settle \/ Sweep
    BY <1>8 DEF StartRun, Settle, Sweep, logVars
  <1>9. CASE Raise
    BY <1>9 DEF Raise, Commit, logVars
  <1>10. CASE CrashScan \/ CrashGhidra
    BY <1>10 DEF CrashScan, CrashGhidra, Abandon, logVars
  <1>11. CASE UNCHANGED serverVars
    BY <1>11 DEF serverVars, logVars
  <1> QED
    BY <1>1, <1>2, <1>3, <1>4, <1>5, <1>6, <1>7, <1>8, <1>9, <1>10, <1>11 DEF ServerStep

\* The phase of the progress bar is one of six.
LEMMA PhaseIsOne == Phase \in Phases
  <1> USE DEF Phase, Phases
  <1>1. CASE run \in Terminal
    BY <1>1
  <1>2. CASE run \notin Terminal /\ row["static"] # "absent"
    BY <1>2
  <1>3. CASE run \notin Terminal /\ row["static"] = "absent" /\ row["unpack"] # "absent"
    BY <1>3
  <1>4. CASE run \notin Terminal /\ row["static"] = "absent" /\ row["unpack"] = "absent"
    BY <1>4
  <1> QED
    BY <1>1, <1>2, <1>3, <1>4

\* Each step's effect on the server's variables is one of the server's own.
LEMMA ServerPart == [Next]_vars => ServerStep \/ Submit \/ UNCHANGED serverVars
  <1> USE DEF Rest
  <1> SUFFICES ASSUME [Next]_vars PROVE ServerStep \/ Submit \/ UNCHANGED serverVars
    OBVIOUS
  <1>1. CASE Server
    BY <1>1 DEF Server
  <1>2. CASE CliStep
    BY <1>2 DEF CliStep, Refuse, Upload, UploadFails, GateCommand, Poll, RequestFails, FollowStep,
       AskLog, AskForbidden, AskFails, FollowerRaises, LogArrives, PollDone, GateAnswers, Emit
  <1>3. CASE Deadline
    BY <1>3 DEF Deadline
  <1>4. CASE Watch \/ StreamTick \/ StreamDrops
    BY <1>4 DEF Watch, StreamTick, StreamDrops
  <1>5. CASE Done \/ UNCHANGED vars
    BY <1>5 DEF Done, vars
  <1> QED
    BY <1>1, <1>2, <1>3, <1>4, <1>5 DEF Next

\* What is printed comes from the document, or is the notice; a document's
\* lines are all at places past those printed.
LEMMA PrintNewIs ==
    ASSUME bucket \in Seq(LineType), heard \subseteq LineType, printed \in Nat, PrintNew(bucket)
    PROVE  /\ heard' \subseteq LineType /\ printed' = Len(bucket) /\ printed' \in Nat
           /\ \/ /\ Len(bucket) < printed
                 /\ heard' = heard \cup {Notice}
              \/ /\ printed <= Len(bucket)
                 /\ heard' = heard \cup {bucket[i] : i \in printed + 1..Len(bucket)}
  <1>0. Len(bucket) \in Nat /\ DOMAIN bucket = 1..Len(bucket) /\ \A i \in 1..Len(bucket) : bucket[i] \in LineType
    OBVIOUS
  <1>1. printed' = Len(bucket)
    BY DEF PrintNew
  <1>2. Notice \in LineType
    BY DEF Notice, Line, LineType, Parts
  <1>3. CASE Len(bucket) < printed
    <2>1. heard' = heard \cup {Notice}
      BY <1>3 DEF PrintNew
    <2> QED
      BY <1>0, <1>1, <1>2, <1>3, <2>1
  <1>4. CASE ~(Len(bucket) < printed)
    <2>1. heard' = heard \cup {bucket[i] : i \in printed + 1..Len(bucket)}
      BY <1>4 DEF PrintNew
    <2>2. \A i \in printed + 1..Len(bucket) : i \in 1..Len(bucket)
      BY <1>0
    <2> QED
      BY <1>0, <1>1, <1>4, <2>1, <2>2
  <1> QED
    BY <1>3, <1>4

followerVars == <<detail, followVars>>
commandVars == <<cli, follows, expired, verdict, exit>>

\* The follower keeps its types.
LEMMA FollowerTypeStep == TypeOK /\ [Next]_vars => FollowerTypeOK'
  <1> SUFFICES ASSUME TypeOK, [Next]_vars PROVE FollowerTypeOK'
    OBVIOUS
  <1>0. ServerTypeOK /\ FollowerTypeOK
    BY DEF TypeOK
  <1>1. CASE UNCHANGED followerVars
    BY <1>0, <1>1 DEF FollowerTypeOK, followerVars, followVars
  <1>2. CASE Poll
    <2>1. row[Logged] \in {"absent", "running", "finished"}
      BY <1>0, LoggedAssumption DEF ServerTypeOK
    <2>2. detail' \in {"absent", "running", "finished"}
      BY <1>2, <2>1 DEF Poll
    <2>3. todo' \in BOOLEAN
      BY <1>2 DEF Poll, Visit
    <2> QED
      BY <1>0, <1>2, <2>2, <2>3 DEF FollowerTypeOK, Poll
  <1>3. CASE PollDone
    BY <1>0, <1>3 DEF FollowerTypeOK, PollDone, followVars
  <1>4. CASE AskLog \/ AskForbidden \/ AskFails
    BY <1>0, <1>4 DEF FollowerTypeOK, AskLog, AskForbidden, AskFails, RowRead, Rest
  <1>5. CASE LogArrives
    <2>1. heard' \subseteq LineType /\ printed' \in Nat
      <3>1. CASE UNCHANGED <<heard, printed>>
        BY <1>0, <3>1 DEF FollowerTypeOK
      <3>2. CASE PrintNew(bucket)
        BY <1>0, <3>2, PrintNewIs DEF FollowerTypeOK, ServerTypeOK
      <3> QED
        BY <1>5, <3>1, <3>2 DEF LogArrives, Answer
    <2> QED
      BY <1>0, <1>5, <2>1 DEF FollowerTypeOK, LogArrives, Settles, Rest
  <1>6. CASE Server \/ Deadline \/ Watch \/ StreamTick \/ StreamDrops \/ Done \/ UNCHANGED vars
    BY <1>6, <1>1 DEF Server, Deadline, Watch, StreamTick, StreamDrops, Done, vars, cliVars,
       followVars, followerVars
  <1>7. CASE Refuse \/ Upload \/ UploadFails \/ GateCommand \/ RequestFails \/ FollowerRaises
             \/ GateAnswers \/ Emit
    BY <1>7, <1>1 DEF Refuse, Upload, UploadFails, GateCommand, RequestFails, FollowerRaises,
       GateAnswers, Emit, followerVars
  <1> QED
    BY <1>2, <1>3, <1>4, <1>5, <1>6, <1>7 DEF Next, CliStep, FollowStep

-----------------------------------------------------------------------------
(* The exit code *)

\* What the command has of the gate, and what it leaves with.
ExitInv ==
    /\ cli = "emitting" => verdict # Nothing
    /\ cli \notin {"emitting", "exited"} => verdict = Nothing
    /\ exit \in Decisions => verdict = exit
    /\ exit = "warned" => verdict # Nothing
    /\ verdict # Nothing => run \in Terminal

\* A run that is over stays over.
LEMMA OverIsForGood ==
    ASSUME [Next]_vars, run \in Terminal
    PROVE  run' \in Terminal
  <1>1. CASE ServerStep
    BY <1>1 DEF ServerStep, StartStage, EndStage, CommitStage, PrintLine, EndLine, Tick, StartRun,
       Settle, Raise, CrashScan, CrashGhidra, Sweep, Terminal
  <1>2. CASE Submit \/ UNCHANGED serverVars
    BY <1>2 DEF Submit, serverVars, Terminal
  <1> QED
    BY <1>1, <1>2, ServerPart

\* The command keeps its types and leaves with what it was told.
LEMMA CommandStep == TypeOK /\ ExitInv /\ [Next]_vars => CommandTypeOK' /\ ExitInv'
  <1> SUFFICES ASSUME TypeOK, ExitInv, [Next]_vars PROVE CommandTypeOK' /\ ExitInv'
    OBVIOUS
  <1>0. CommandTypeOK /\ ExitInv
    BY DEF TypeOK
  <1>r. run \in Terminal => run' \in Terminal
    BY OverIsForGood
  <1> USE DEF ExitInv, Decisions
  <1>1. CASE UNCHANGED commandVars
    BY <1>0, <1>r, <1>1 DEF CommandTypeOK, commandVars
  <1>2. CASE Refuse \/ Upload \/ UploadFails \/ GateCommand
    BY <1>0, <1>r, <1>2 DEF CommandTypeOK, Refuse, Upload, UploadFails, GateCommand, Goto, Exit, Fail,
       Uncaught, FailedRequest, Nothing
  <1>3. CASE Poll
    <2>1. \/ cli' \in {"lastly", "gating", "following"} /\ exit' = exit
          \/ cli' = "exited" /\ exit' = "error"
      BY <1>3 DEF Poll, AfterPoll, Goto, Exit, Fail
    <2> QED
      BY <1>0, <1>r, <1>3, <2>1 DEF CommandTypeOK, Poll, Nothing
  <1>4. CASE RequestFails \/ FollowerRaises \/ PollDone \/ Deadline
    BY <1>0, <1>r, <1>4 DEF CommandTypeOK, RequestFails, FollowerRaises, InPoll, PollDone, Deadline,
       Goto, Exit, Fail, Uncaught, FailedRequest, Nothing
  <1>5. CASE GateAnswers
    BY <1>0, <1>r, <1>5 DEF CommandTypeOK, GateAnswers, Verdicts, Goto, Nothing
  <1>6. CASE Emit
    <2>1. cli' = "exited" /\ exit' \in {"error", "traceback", "warned", verdict}
      BY <1>6 DEF Emit, FetchFails, FailedRequest, Uncaught, Exit, Fail
    <2>2. verdict' = verdict /\ verdict \in Decisions /\ follows' = follows /\ expired' = expired
      BY <1>0, <1>r, <1>6 DEF CommandTypeOK, Emit
    <2> QED
      BY <1>0, <1>r, <2>1, <2>2 DEF CommandTypeOK, Nothing
  <1>7. CASE AskLog \/ AskForbidden \/ AskFails \/ LogArrives
    BY <1>7, <1>1 DEF AskLog, AskForbidden, AskFails, LogArrives, Rest, commandVars
  <1>8. CASE Server \/ Watch \/ StreamTick \/ StreamDrops \/ Done \/ UNCHANGED vars
    BY <1>8, <1>1 DEF Server, Watch, StreamTick, StreamDrops, Done, vars, cliVars, commandVars
  <1> QED
    BY <1>2, <1>3, <1>4, <1>5, <1>6, <1>7, <1>8 DEF Next, CliStep, FollowStep

\* The dashboard keeps its types.
LEMMA WatchTypeStep == TypeOK /\ [Next]_vars => WatchTypeOK'
  <1> SUFFICES ASSUME TypeOK, [Next]_vars PROVE WatchTypeOK'
    OBVIOUS
  <1>0. WatchTypeOK
    BY DEF TypeOK
  <1> USE DEF WatchTypeOK
  <1>1. CASE UNCHANGED watchVars
    BY <1>0, <1>1 DEF watchVars
  <1>2. CASE Watch \/ StreamTick \/ StreamDrops
    BY <1>0, <1>2, PhaseIsOne DEF Watch, StreamTick, StreamDrops
  <1>3. CASE Server \/ Deadline \/ Done \/ UNCHANGED vars
    BY <1>1, <1>3 DEF Server, Deadline, Done, vars
  <1>4. CASE CliStep
    BY <1>1, <1>4 DEF CliStep, Refuse, Upload, UploadFails, GateCommand, Poll, RequestFails,
       FollowStep, AskLog, AskForbidden, AskFails, FollowerRaises, LogArrives, Rest, PollDone, GateAnswers, Emit
  <1> QED
    BY <1>2, <1>3, <1>4 DEF Next

-----------------------------------------------------------------------------
(* The order of the stages *)

OrderInv ==
    /\ \A s \in Stages : pc[s] = "idle" <=> row[s] = "absent"
    /\ \A s \in Stages : pc[s] \in {"up", "ended"} => row[s] = "running"
    /\ row["static"] # "absent" => row["unpack"] = "finished"
    /\ row["ghidra"] # "absent" => run \in Terminal

\* A stage's row is running as long as its container is up or its end is not
\* committed, and stages come one after the other.
LEMMA OrderStep ==
    ServerTypeOK /\ OrderInv /\ (ServerStep \/ Submit \/ UNCHANGED serverVars) => OrderInv'
  <1> SUFFICES ASSUME ServerTypeOK, OrderInv, ServerStep \/ Submit \/ UNCHANGED serverVars
               PROVE  OrderInv'
    OBVIOUS
  <1> USE DEF OrderInv, Terminal, Stages, ServerTypeOK
  <1>1. CASE Submit
    BY <1>1 DEF Submit
  <1>2. ASSUME NEW s \in Stages, StartStage(s) PROVE OrderInv'
    BY <1>2 DEF StartStage, MayStart
  <1>3. ASSUME NEW s \in Stages, EndStage(s) PROVE OrderInv'
    BY <1>3 DEF EndStage
  <1>4. ASSUME NEW s \in Stages, CommitStage(s) PROVE OrderInv'
    BY <1>4 DEF CommitStage, Commit
  <1>5. CASE (\E k \in Kinds : PrintLine(k)) \/ EndLine \/ Tick
    <2>1. UNCHANGED <<run, row, pc>>
      BY <1>5 DEF PrintLine, EndLine, Tick
    <2> QED
      BY <2>1
  <1>6. CASE StartRun \/ Settle \/ Sweep
    BY <1>6 DEF StartRun, Settle, Sweep
  <1>7. CASE Raise
    BY <1>7 DEF Raise, Commit, ScanStages
  <1>8. CASE CrashScan \/ CrashGhidra
    BY <1>8 DEF CrashScan, CrashGhidra, Abandon, ScanStages
  <1>9. CASE UNCHANGED serverVars
    BY <1>9 DEF serverVars
  <1> QED
    BY <1>1, <1>2, <1>3, <1>4, <1>5, <1>6, <1>7, <1>8, <1>9 DEF ServerStep

\* The phase shown is that of the container that is up.
LEMMA OrderGivesPhase == ServerTypeOK /\ OrderInv => PhaseIsEarned
  <1> SUFFICES ASSUME ServerTypeOK, OrderInv PROVE PhaseIsEarned
    OBVIOUS
  <1> USE DEF OrderInv, Terminal, Stages, ServerTypeOK, PhaseIsEarned, Phase, Unfinished, ScanStages
  <1>1. CASE run \in Terminal
    BY <1>1
  <1>2. CASE run \notin Terminal /\ row["static"] # "absent"
    BY <1>2
  <1>3. CASE run \notin Terminal /\ row["static"] = "absent" /\ row["unpack"] # "absent"
    BY <1>3
  <1>4. CASE run \notin Terminal /\ row["static"] = "absent" /\ row["unpack"] = "absent"
    BY <1>4
  <1> QED
    BY <1>1, <1>2, <1>3, <1>4

-----------------------------------------------------------------------------
(* The log *)

\* What may be read of a line while the container, which has printed text, is up:
\* a complete line of it, or what a cut leaves.
Live(text, lines) ==
    \A line \in lines :
        /\ line.part \in {"whole", "cut", "note"}
        /\ line.part = "whole" => /\ line.n \in 1..Len(text)
                                  /\ line.masked => Masked(text, line.n)

LinesOf(doc) == {doc[i] : i \in DOMAIN doc}
Placed(doc) == \A i \in DOMAIN doc : doc[i].n = i

\* But for what a cut left, lines say what the document at their place says.
AgreesWith(lines, final) ==
    \A line \in lines, i \in DOMAIN final :
        line.n = i /\ line.part \notin {"cut", "note"} => Says(line, final[i])

DocInv ==
    /\ bucket # NoDoc => Placed(bucket)
    /\ pc[Logged] \in {"idle", "up"} => /\ ~kept
                                       /\ Live(out, LinesOf(bucket))
                                       /\ Live(out, heard)
    /\ kept => bucket # NoDoc /\ AgreesWith(heard, bucket)
    /\ logKey => kept /\ pc[Logged] = "over"

\* The live rendering of what was collected is live, ...
LEMMA LiveIsLive ==
    ASSUME ServerTypeOK, NEW text \in Collected
    PROVE  Live(out, LinesOf(Rendered(text, TRUE))) /\ Placed(Rendered(text, TRUE))
  <1> DEFINE doc == Rendered(text, TRUE)
  <1>1. text \in Readings
    BY CollectedRenders
  <1>2. /\ doc \in Seq(LineType)
        /\ \A i \in DOMAIN doc : doc[i].n = i /\ PieceOf(text, doc[i]) /\ doc[i].part # "half"
        /\ Empty(text) => Len(doc) = 0
    BY <1>1, RenderedIs DEF GoodLine
  <1>3. text.lines = out \/ Empty(text)
    BY DEF Collected, Text, Empty
  <1> HIDE DEF doc
  <1>4. DOMAIN doc = 1..Len(doc) /\ \A i \in DOMAIN doc : doc[i] \in LineType
    BY <1>2
  <1>5. ASSUME NEW i \in DOMAIN doc
        PROVE  /\ doc[i].part \in {"whole", "cut", "note"}
               /\ doc[i].part = "whole" => /\ doc[i].n \in 1..Len(out)
                                           /\ (doc[i].masked => Masked(out, doc[i].n))
    <2>1. text.lines = out
      BY <1>2, <1>3, <1>4, <1>5
    <2>2. doc[i].part \in Parts
      BY <1>4, <1>5 DEF LineType
    <2> QED
      BY <1>2, <1>5, <2>1, <2>2 DEF PieceOf, Parts
  <1> QED
    BY <1>2, <1>5 DEF Live, LinesOf, Placed, doc

\* ... and the retained one agrees with whatever was.
LEMMA RetainedAgrees ==
    ASSUME ServerTypeOK, heard \subseteq LineType, Live(out, heard), NEW text \in Collected
    PROVE  /\ AgreesWith(heard, Rendered(text, FALSE))
           /\ Placed(Rendered(text, FALSE))
           /\ Rendered(text, FALSE) # NoDoc
  <1> DEFINE doc == Rendered(text, FALSE)
  <1>1. text \in Readings
    BY CollectedRenders
  <1>2. /\ doc \in Seq(LineType)
        /\ \A i \in DOMAIN doc : doc[i].n = i /\ PieceOf(text, doc[i])
        /\ Empty(text) => Len(doc) = 0
    BY <1>1, RenderedIs DEF GoodLine
  <1>3. text.lines = out \/ Empty(text)
    BY DEF Collected, Text, Empty
  <1> HIDE DEF doc
  <1>4. DOMAIN doc = 1..Len(doc) /\ \A i \in DOMAIN doc : doc[i] \in LineType
    BY <1>2
  <1>5. doc # NoDoc
    <2>1. Len(NoDoc) = 1 /\ NoDoc[1].n = 0
      BY DEF NoDoc, Line
    <2> QED
      BY <1>2, <1>4, <2>1
  <1>6. ASSUME NEW line \in heard, NEW i \in DOMAIN doc,
               line.n = i, line.part \notin {"cut", "note"}
        PROVE  Says(line, doc[i])
    <2>1. text.lines = out
      BY <1>2, <1>3, <1>4, <1>6
    <2>2. line.part = "whole" /\ i \in 1..Len(out) /\ (line.masked => Masked(out, i))
      BY <1>6 DEF Live
    <2>3. doc[i].part \in Parts /\ doc[i].n = i /\ PieceOf(text, doc[i])
      BY <1>2, <1>4, <1>6 DEF LineType
    <2>4. Len(out) \in Nat
      BY DEF ServerTypeOK
    <2>5. i <= Len(out) /\ i # Len(out) + 1
      BY <2>2, <2>4
    <2> QED
      BY <1>6, <2>1, <2>2, <2>3, <2>5 DEF PieceOf, Says, Parts
  <1> QED
    BY <1>2, <1>5, <1>6 DEF AgreesWith, Placed, doc

\* What is live stays so while the output grows.
LEMMA LiveGrows ==
    ASSUME NEW lines, NEW text \in Seq(Kinds), NEW k \in Kinds, Live(text, lines)
    PROVE  Live(Append(text, k), lines)
  <1> DEFINE longer == Append(text, k)
  <1>1. /\ Len(text) \in Nat /\ Len(longer) = Len(text) + 1
        /\ \A i \in 1..Len(text) : longer[i] = text[i]
        /\ DOMAIN text = 1..Len(text) /\ DOMAIN longer = 1..(Len(text) + 1)
    OBVIOUS
  <1> HIDE DEF longer
  <1>2. \A i \in 1..Len(text) : i \in 1..Len(longer) /\ (Masked(text, i) => Masked(longer, i))
    BY <1>1 DEF Masked
  <1> QED
    BY <1>2 DEF Live, longer

\* The document, its flags and what was read of it agree while the server goes on.
LEMMA DocServerStep ==
    ASSUME TypeOK, DocInv, ServerStep \/ Submit \/ UNCHANGED serverVars, UNCHANGED heard
    PROVE  DocInv'
  <1>0. /\ ServerTypeOK /\ heard \subseteq LineType /\ Logged \in Stages
        /\ pc \in [Stages -> {"idle", "up", "ended", "over"}] /\ kept \in BOOLEAN /\ logKey \in BOOLEAN
    BY LoggedAssumption DEF TypeOK, FollowerTypeOK, ServerTypeOK
  <1>1. ASSUME UNCHANGED <<out, bucket, kept>>,
               pc'[Logged] \in {"idle", "up"} => pc[Logged] \in {"idle", "up"},
               logKey' => kept /\ pc'[Logged] = "over"
        PROVE  DocInv'
    BY <1>1 DEF DocInv
  <1>2. CASE Submit \/ StartRun \/ Settle \/ Sweep \/ UNCHANGED serverVars
    <2>1. UNCHANGED <<out, bucket, kept, pc, logKey>>
      BY <1>2 DEF Submit, StartRun, Settle, Sweep, serverVars, logVars
    <2> QED
      BY <2>1, <1>1 DEF DocInv
  <1>3. ASSUME NEW s \in Stages, StartStage(s) PROVE DocInv'
    <2>1. UNCHANGED <<out, bucket, kept, logKey>> /\ pc[s] = "idle" /\ pc' = [pc EXCEPT ![s] = "up"]
      BY <1>3 DEF StartStage, logVars
    <2> QED
      BY <2>1, <1>0, <1>1 DEF DocInv
  <1>4. ASSUME NEW s \in Stages, EndStage(s) PROVE DocInv'
    <2>1. UNCHANGED <<out, logKey>> /\ pc[s] = "up" /\ pc' = [pc EXCEPT ![s] = "ended"]
      BY <1>4 DEF EndStage
    <2>2. CASE s # Logged
      <3>1. UNCHANGED <<bucket, kept>> /\ pc'[Logged] = pc[Logged]
        BY <1>0, <1>4, <2>1, <2>2 DEF EndStage
      <3> QED
        BY <2>1, <3>1, <1>1 DEF DocInv
    <2>3. CASE s = Logged
      <3>1. Store /\ pc'[Logged] = "ended" /\ Live(out, heard) /\ ~kept /\ ~logKey
        BY <1>0, <1>4, <2>1, <2>3 DEF EndStage, DocInv
      <3>2. PICK text \in Collected :
              kept' \in BOOLEAN /\ bucket' = IF kept' THEN Rendered(text, FALSE) ELSE bucket
        BY <3>1 DEF Store
      <3>3. kept' => bucket' # NoDoc /\ AgreesWith(heard', bucket') /\ Placed(bucket')
        BY <3>1, <3>2, <1>0, RetainedAgrees
      <3>4. bucket' # NoDoc => Placed(bucket')
        BY <3>2, <3>3 DEF DocInv
      <3> QED
        BY <3>1, <3>3, <3>4, <2>1 DEF DocInv
    <2> QED
      BY <2>2, <2>3
  <1>5. ASSUME NEW s \in Stages, CommitStage(s) PROVE DocInv'
    <2>1. /\ UNCHANGED <<out, bucket, kept>> /\ pc[s] = "ended"
          /\ logKey' = (IF Logged = s THEN kept ELSE logKey)
          /\ pc' = [q \in Stages |-> IF q = s THEN "over" ELSE pc[q]]
      BY <1>5 DEF CommitStage, Commit, logVars
    <2>2. pc'[Logged] = IF Logged = s THEN "over" ELSE pc[Logged]
      BY <2>1, <1>0
    <2> QED
      BY <2>1, <2>2, <1>1 DEF DocInv
  <1>6. CASE Raise
    <2> DEFINE S == {s \in ScanStages : pc[s] = "ended"}
    <2>1. /\ UNCHANGED <<out, bucket, kept>>
          /\ logKey' = (IF Logged \in S THEN kept ELSE logKey)
          /\ pc' = [q \in Stages |-> IF q \in S THEN "over" ELSE pc[q]]
      BY <1>6 DEF Raise, Commit, logVars
    <2> HIDE DEF S
    <2>2. pc'[Logged] = IF Logged \in S THEN "over" ELSE pc[Logged]
      BY <2>1, <1>0
    <2> QED
      BY <2>1, <2>2, <1>1 DEF DocInv
  <1>7. CASE CrashScan \/ CrashGhidra
    <2>1. PICK S : Abandon(S) /\ UNCHANGED <<out, bucket, kept, logKey>>
      BY <1>7 DEF CrashScan, CrashGhidra, logVars
    <2>2. pc'[Logged] = pc[Logged] \/ pc'[Logged] = "over"
      BY <2>1, <1>0 DEF Abandon
    <2> QED
      BY <2>1, <2>2, <1>1 DEF DocInv
  <1>8. ASSUME NEW k \in Kinds, PrintLine(k) PROVE DocInv'
    <2>1. UNCHANGED <<out, bucket, kept, pc, logKey>>
      BY <1>8 DEF PrintLine
    <2> QED
      BY <2>1, <1>1 DEF DocInv
  <1>9. CASE EndLine
    <2>1. /\ UNCHANGED <<bucket, kept, pc, logKey>> /\ pc[Logged] = "up"
          /\ half \in Kinds /\ out' = Append(out, half) /\ out \in Seq(Kinds)
      BY <1>0, <1>9 DEF EndLine, ServerTypeOK
    <2>2. Live(out, LinesOf(bucket)) /\ Live(out, heard) /\ ~kept
      BY <2>1 DEF DocInv
    <2>3. Live(out', LinesOf(bucket)) /\ Live(out', heard)
      BY <2>1, <2>2, LiveGrows
    <2> QED
      BY <2>1, <2>2, <2>3 DEF DocInv
  <1>10. CASE Tick
    <2>1. PICK text \in Collected : bucket' = Rendered(text, TRUE)
      BY <1>10 DEF Tick
    <2>2. UNCHANGED <<out, kept, pc, logKey>> /\ pc[Logged] = "up"
      BY <1>10 DEF Tick
    <2>3. Live(out, LinesOf(bucket')) /\ Placed(bucket')
      BY <2>1, <1>0, LiveIsLive
    <2> QED
      BY <2>2, <2>3, <1>0 DEF DocInv
  <1> QED
    BY <1>2, <1>3, <1>4, <1>5, <1>6, <1>7, <1>8, <1>9, <1>10 DEF ServerStep

\* What the follower knows of the stage, and when it is done with it.
SettleInv ==
    /\ asked # Nothing => todo
    /\ todo => detail # "absent" /\ cli \in {"following", "lastly", "exited"}
    /\ detail = "finished" => row[Logged] = "finished"
    /\ detail = "finished" /\ asked # Nothing /\ logKey => asked = "readable"
    /\ settled => row[Logged] = "finished"
    /\ settled /\ logKey => printed = Len(bucket)

\* A stage whose end is committed has its document and its log key for good.
LEMMA EndIsFinal ==
    ASSUME ServerTypeOK, OrderInv, row[Logged] = "finished",
           ServerStep \/ Submit \/ UNCHANGED serverVars
    PROVE  row'[Logged] = "finished" /\ UNCHANGED <<logKey, bucket>>
  <1>0. /\ Logged \in Stages /\ pc[Logged] \notin {"idle", "up", "ended"}
        /\ row \in [Stages -> {"absent", "running", "finished"}]
    BY LoggedAssumption DEF OrderInv, ServerTypeOK
  <1>1. CASE Submit \/ StartRun \/ Settle \/ Sweep \/ CrashScan \/ CrashGhidra \/ UNCHANGED serverVars
    BY <1>1 DEF Submit, StartRun, Settle, Sweep, CrashScan, CrashGhidra, serverVars, logVars
  <1>2. ASSUME NEW s \in Stages, StartStage(s) PROVE row'[Logged] = "finished" /\ UNCHANGED <<logKey, bucket>>
    BY <1>0, <1>2 DEF StartStage, logVars
  <1>3. ASSUME NEW s \in Stages, EndStage(s) PROVE row'[Logged] = "finished" /\ UNCHANGED <<logKey, bucket>>
    BY <1>0, <1>3 DEF EndStage
  <1>4. ASSUME NEW s \in Stages, CommitStage(s)
        PROVE  row'[Logged] = "finished" /\ UNCHANGED <<logKey, bucket>>
    BY <1>0, <1>4 DEF CommitStage, Commit, logVars
  <1>5. CASE Raise
    <2> DEFINE S == {s \in ScanStages : pc[s] = "ended"}
    <2>1. Logged \notin S
      BY <1>0
    <2>2. /\ UNCHANGED bucket /\ logKey' = (IF Logged \in S THEN kept ELSE logKey)
          /\ row' = [s \in Stages |-> IF s \in S THEN "finished" ELSE row[s]]
      BY <1>5 DEF Raise, Commit, logVars
    <2> HIDE DEF S
    <2> QED
      BY <1>0, <2>1, <2>2
  <1>6. CASE (\E k \in Kinds : PrintLine(k)) \/ EndLine \/ Tick
    BY <1>0, <1>6 DEF PrintLine, EndLine, Tick
  <1> QED
    BY <1>1, <1>2, <1>3, <1>4, <1>5, <1>6 DEF ServerStep

\* The follower settles a stage only on the last word of its log.
LEMMA SettleStep ==
    ASSUME TypeOK, OrderInv, DocInv, SettleInv, [Next]_vars
    PROVE  SettleInv'
  <1>0. /\ ServerTypeOK /\ FollowerTypeOK /\ Logged \in Stages
        /\ row[Logged] \in {"absent", "running", "finished"}
    BY LoggedAssumption DEF TypeOK, ServerTypeOK
  <1>s. row[Logged] = "finished" => row'[Logged] = "finished" /\ UNCHANGED <<logKey, bucket>>
    BY <1>0, ServerPart, EndIsFinal
  <1>1. ASSUME UNCHANGED <<detail, todo, asked, settled, printed>>,
               UNCHANGED cli \/ cli' = "exited" \/ cli \notin {"following", "lastly", "exited"}
        PROVE  SettleInv'
    BY <1>0, <1>s, <1>1 DEF SettleInv
  <1>2. CASE Poll
    <2>1. UNCHANGED <<asked, settled, printed, row, logKey, bucket>>
      BY <1>2 DEF Poll, serverVars, logVars
    <2>2. CASE Visit
      <3>1. todo' = TRUE /\ detail' = row[Logged] /\ row[Logged] # "absent" /\ ~settled
        BY <1>2, <2>2 DEF Poll, Visit
      <3>2. asked = Nothing
        BY <1>2 DEF Poll, SettleInv
      <3>3. cli' \in {"following", "lastly", "exited"}
        BY <1>2, <2>2 DEF Poll, AfterPoll, Goto, Fail, Exit, Visit
      <3> QED
        BY <2>1, <3>1, <3>2, <3>3 DEF SettleInv
    <2>3. CASE ~Visit
      <3>1. todo' = FALSE /\ detail' = "absent" /\ asked = Nothing
        BY <1>2, <2>3 DEF Poll, SettleInv
      <3> QED
        BY <2>1, <3>1 DEF SettleInv
    <2> QED
      BY <2>2, <2>3
  <1>3. CASE PollDone
    <2>1. UNCHANGED <<todo, asked, settled, printed, row, logKey, bucket>> /\ ~todo /\ detail' = "absent"
      BY <1>3 DEF PollDone, followVars, serverVars, logVars
    <2> QED
      BY <2>1 DEF SettleInv
  <1>4. CASE AskLog
    <2>1. UNCHANGED <<cli, detail, todo, settled, printed, row, logKey, bucket>> /\ todo
      BY <1>4 DEF AskLog, Rest, serverVars, logVars
    <2>2. logKey => asked' = "readable"
      BY <1>4 DEF AskLog, RowRead
    <2> QED
      BY <2>1, <2>2 DEF SettleInv
  <1>5. CASE AskForbidden \/ AskFails
    <2>1. UNCHANGED <<cli, detail, settled, printed, row, logKey, bucket>> /\ todo' = FALSE /\ asked' = Nothing
      BY <1>5 DEF AskForbidden, AskFails, Rest, serverVars, logVars
    <2> QED
      BY <2>1 DEF SettleInv
  <1>6. CASE LogArrives
    <2>1. UNCHANGED <<detail, row, logKey, bucket>> /\ asked # Nothing /\ asked' = Nothing /\ todo' = FALSE
      BY <1>6 DEF LogArrives, Rest, serverVars, logVars
    <2>2. settled' <=> detail # "running"
      BY <1>6 DEF LogArrives, Settles
    <2>3. detail \in {"running", "finished"}
      BY <2>1, <1>0 DEF SettleInv, FollowerTypeOK
    <2>4. ASSUME settled', logKey PROVE printed' = Len(bucket)
      <3>1. detail = "finished" /\ asked = "readable"
        BY <2>1, <2>2, <2>3, <2>4 DEF SettleInv
      <3>2. bucket # NoDoc
        BY <2>4 DEF DocInv
      <3>3. PrintNew(bucket)
        BY <1>6, <3>1, <3>2 DEF LogArrives, Answer
      <3> QED
        BY <3>3, <1>0, PrintNewIs DEF FollowerTypeOK, ServerTypeOK
    <2> QED
      BY <2>1, <2>2, <2>3, <2>4 DEF SettleInv
  <1>7. CASE Server \/ Deadline \/ Watch \/ StreamTick \/ StreamDrops \/ Done \/ UNCHANGED vars
    BY <1>7, <1>1 DEF Server, Deadline, Watch, StreamTick, StreamDrops, Done, vars, cliVars, followVars
  <1>8. CASE Refuse \/ Upload \/ UploadFails \/ GateCommand \/ RequestFails \/ FollowerRaises \/ GateAnswers \/ Emit
    <2>1. /\ UNCHANGED <<detail, todo, asked, settled, printed>>
          /\ cli \notin {"following", "lastly", "exited"} \/ cli' = "exited"
      BY <1>8 DEF FollowerRaises, Uncaught, Exit, Refuse, Upload, UploadFails, GateCommand, RequestFails, GateAnswers, Emit, followVars
    <2> QED
      BY <1>1, <2>1
  <1> QED
    BY <1>2, <1>3, <1>4, <1>5, <1>6, <1>7, <1>8 DEF Next, CliStep, FollowStep

\* Reading keeps what was heard in agreement with the document.
LEMMA DocStep ==
    ASSUME TypeOK, DocInv, [Next]_vars
    PROVE  DocInv'
  <1>0. /\ ServerTypeOK /\ heard \subseteq LineType /\ bucket \in Seq(LineType) /\ printed \in Nat
    BY DEF TypeOK, FollowerTypeOK, ServerTypeOK
  <1>1. CASE UNCHANGED heard
    BY <1>1, ServerPart, DocServerStep
  <1>2. CASE LogArrives /\ bucket # NoDoc /\ PrintNew(bucket)
    <2>1. UNCHANGED <<out, bucket, kept, pc, logKey>>
      BY <1>2 DEF LogArrives, Rest, serverVars, logVars
    <2>2. \A line \in heard' : line \in heard \/ line = Notice \/ line \in LinesOf(bucket)
      <3>1. DOMAIN bucket = 1..Len(bucket) /\ Len(bucket) \in Nat
        BY <1>0
      <3>2. \A i \in printed + 1..Len(bucket) : i \in DOMAIN bucket
        BY <3>1, <1>0
      <3> QED
        BY <3>2, <1>0, <1>2, PrintNewIs DEF LinesOf
    <2>3. Notice.part = "note"
      BY DEF Notice, Line
    <2>4. Live(out, heard) /\ Live(out, LinesOf(bucket)) => Live(out, heard')
      BY <2>2, <2>3 DEF Live
    <2>5. AgreesWith(heard, bucket) => AgreesWith(heard', bucket)
      <3> SUFFICES ASSUME AgreesWith(heard, bucket), NEW line \in heard', NEW i \in DOMAIN bucket,
                          line.n = i, line.part \notin {"cut", "note"}
                   PROVE  Says(line, bucket[i])
        BY DEF AgreesWith
      <3>1. CASE line \in heard
        BY <3>1 DEF AgreesWith
      <3>2. CASE line \in LinesOf(bucket)
        <4>1. PICK j \in DOMAIN bucket : line = bucket[j]
          BY <3>2 DEF LinesOf
        <4>2. j = i
          BY <4>1, <1>2 DEF DocInv, Placed
        <4> QED
          BY <4>1, <4>2 DEF Says
      <3> QED
        BY <3>1, <3>2, <2>2, <2>3
    <2> QED
      BY <2>1, <2>4, <2>5 DEF DocInv
  <1>3. LogArrives => UNCHANGED heard \/ (bucket # NoDoc /\ PrintNew(bucket))
    BY DEF LogArrives, Answer
  <1>4. ~LogArrives => UNCHANGED heard
    BY DEF Next, CliStep, FollowStep, Server, Deadline, Watch, StreamTick, StreamDrops, Done, vars,
       cliVars, followVars, Refuse, Upload, UploadFails, GateCommand, RequestFails, GateAnswers, Emit,
       Poll, PollDone, AskLog, AskForbidden, AskFails, FollowerRaises
  <1> QED
    BY <1>1, <1>2, <1>3, <1>4

\* Every place up to the last one printed was printed; without a notice no other
\* was, and none twice.
PrintedInv ==
    /\ \A p \in 1..printed : \E line \in heard : line.n = p
    /\ Notice \notin heard => /\ \A line \in heard : line.n \in 1..printed
                               /\ \A a, b \in heard : a.n = b.n => a = b

\* Printing goes on where it stopped.
LEMMA PrintedStep ==
    ASSUME TypeOK, DocInv, PrintedInv, [Next]_vars
    PROVE  PrintedInv'
  <1>0. /\ heard \subseteq LineType /\ bucket \in Seq(LineType) /\ printed \in Nat
    BY DEF TypeOK, FollowerTypeOK, ServerTypeOK
  <1>1. CASE UNCHANGED <<heard, printed>>
    BY <1>1 DEF PrintedInv
  <1>2. CASE bucket # NoDoc /\ PrintNew(bucket)
    <2>1. DOMAIN bucket = 1..Len(bucket) /\ Len(bucket) \in Nat
      BY <1>0
    <2>2. \A i \in 1..Len(bucket) : bucket[i].n = i
      BY <1>2, <2>1 DEF DocInv, Placed
    <2>3. CASE Len(bucket) < printed /\ heard' = heard \cup {Notice}
      <3>1. printed' = Len(bucket)
        BY <1>2 DEF PrintNew
      <3>2. \A p \in 1..printed' : p \in 1..printed
        BY <3>1, <2>1, <2>3, <1>0
      <3> QED
        BY <2>3, <3>2 DEF PrintedInv
    <2>4. CASE printed <= Len(bucket) /\ heard' = heard \cup {bucket[i] : i \in printed + 1..Len(bucket)}
      <3>1. printed' = Len(bucket)
        BY <1>2 DEF PrintNew
      <3>2. \A i \in printed + 1..Len(bucket) : i \in 1..Len(bucket) /\ i \notin 1..printed
        BY <1>0, <2>1
      <3>3. ASSUME NEW p \in 1..printed' PROVE \E line \in heard' : line.n = p
        <4>1. CASE p \in 1..printed
          BY <4>1, <2>4 DEF PrintedInv
        <4>2. CASE p \in printed + 1..Len(bucket)
          <5>1. bucket[p].n = p /\ bucket[p] \in heard'
            BY <4>2, <3>2, <2>2, <2>4
          <5> QED
            BY <5>1
        <4> QED
          BY <3>1, <3>3, <4>1, <4>2, <1>0, <2>1
      <3>4. ASSUME Notice \notin heard'
            PROVE  /\ \A line \in heard' : line.n \in 1..printed'
                   /\ \A a, b \in heard' : a.n = b.n => a = b
        <4>1. Notice \notin heard
          BY <3>4, <2>4
        <4>2. \A line \in heard : line.n \in 1..printed
          BY <4>1 DEF PrintedInv
        <4>3. \A line \in heard' :
                \/ line \in heard
                \/ line.n \in printed + 1..Len(bucket) /\ line = bucket[line.n]
          BY <2>2, <2>4, <3>2
        <4>4. \A i \in 1..printed : i \in 1..Len(bucket) /\ i \notin printed + 1..Len(bucket)
          BY <1>0, <2>1, <2>4
        <4>5. \A a, b \in heard' : a.n = b.n => a = b
          BY <4>1, <4>2, <4>3, <4>4 DEF PrintedInv
        <4> QED
          BY <3>1, <3>2, <4>2, <4>3, <4>4, <4>5
      <3> QED
        BY <3>3, <3>4 DEF PrintedInv
    <2> QED
      BY <2>3, <2>4, <1>0, <1>2, PrintNewIs
  <1>3. LogArrives => UNCHANGED <<heard, printed>> \/ (bucket # NoDoc /\ PrintNew(bucket))
    BY DEF LogArrives, Answer
  <1>4. ~LogArrives => UNCHANGED <<heard, printed>>
    BY DEF Next, CliStep, FollowStep, Server, Deadline, Watch, StreamTick, StreamDrops, Done, vars,
       cliVars, followVars, Refuse, Upload, UploadFails, GateCommand, RequestFails, GateAnswers, Emit,
       Poll, PollDone, AskLog, AskForbidden, AskFails, FollowerRaises
  <1> QED
    BY <1>1, <1>2, <1>3, <1>4

-----------------------------------------------------------------------------
(* The invariant *)

Inv == TypeOK /\ ExitInv /\ OrderInv /\ DocInv /\ PrintedInv /\ SettleInv

\* It holds before anything is done.
LEMMA InitInv == CiInit => Inv
  <1> SUFFICES ASSUME CiInit PROVE Inv
    OBVIOUS
  <1>0. Logged \in Stages /\ NoDoc \in Seq(LineType)
    BY LoggedAssumption DEF NoDoc, Line, LineType, Parts
  <1>1. ServerTypeOK
    <2>1. /\ run = "absent" /\ scanner = FALSE /\ kept = FALSE /\ logKey = FALSE
          /\ out = <<>> /\ half = Nothing /\ bucket = NoDoc
      BY DEF CiInit, Init
    <2>2. row \in [Stages -> {"absent", "running", "finished"}]
      BY DEF CiInit, Init
    <2>3. pc \in [Stages -> {"idle", "up", "ended", "over"}]
      BY DEF CiInit, Init
    <2>4. out \in Seq(Kinds)
      BY <2>1
    <2> QED
      BY <1>0, <2>1, <2>2, <2>3, <2>4 DEF ServerTypeOK
  <1>2. CommandTypeOK /\ ExitInv
    BY DEF CiInit, CommandTypeOK, ExitInv, Decisions, Nothing
  <1>3. FollowerTypeOK
    BY DEF CiInit, FollowerTypeOK
  <1>4. WatchTypeOK
    BY DEF CiInit, WatchTypeOK
  <1>5. OrderInv
    BY DEF CiInit, Init, OrderInv, Stages
  <1>6. DocInv
    <2>1. \A line \in LinesOf(NoDoc) : line.part = "note"
      BY DEF LinesOf, NoDoc, Line
    <2>2. bucket = NoDoc /\ heard = {} /\ ~kept /\ ~logKey
      BY DEF CiInit, Init
    <2> QED
      BY <2>1, <2>2 DEF DocInv, Live
  <1>7. SettleInv
    BY DEF CiInit, Init, SettleInv
  <1>8. PrintedInv
    BY DEF CiInit, PrintedInv
  <1> QED
    BY <1>1, <1>2, <1>3, <1>4, <1>5, <1>6, <1>7, <1>8 DEF Inv, TypeOK

\* Every step keeps it.
LEMMA InvStep == Inv /\ [Next]_vars => Inv'
  <1> SUFFICES ASSUME Inv, [Next]_vars PROVE Inv'
    OBVIOUS
  <1>1. TypeOK /\ ExitInv /\ OrderInv /\ DocInv /\ PrintedInv /\ SettleInv /\ ServerTypeOK
    BY DEF Inv, TypeOK
  <1>2. ServerStep \/ Submit \/ UNCHANGED serverVars
    BY ServerPart
  <1>3. ServerTypeOK' /\ OrderInv'
    BY <1>1, <1>2, ServerTypeStep, OrderStep
  <1>4. CommandTypeOK' /\ ExitInv'
    BY <1>1, CommandStep
  <1>5. FollowerTypeOK' /\ WatchTypeOK'
    BY <1>1, FollowerTypeStep, WatchTypeStep
  <1>6. DocInv' /\ PrintedInv' /\ SettleInv'
    BY <1>1, DocStep, PrintedStep, SettleStep
  <1> QED
    BY <1>3, <1>4, <1>5, <1>6 DEF Inv, TypeOK

\* The inductive invariant: types, the exit code, the order of the stages, the
\* documents, what was printed of them and what the follower has settled.
THEOREM Invariance == CiSpec => []Inv
  BY InitInv, InvStep, PTL DEF CiSpec

\* Every variable of the run, the command and the dashboard keeps its type.
THEOREM TypeCorrect == CiSpec => []TypeOK
  <1>1. Inv => TypeOK
    BY DEF Inv
  <1> QED
    BY <1>1, Invariance, PTL

\* The build log of a stage the follower is done with has every line of the
\* retained log up to where a snapshot it printed was cut, masks nothing of them
\* that log shows, and has no place twice unless a notice says so.
THEOREM NothingIsLost == CiSpec => []NothingLost
  <1>1. Inv => NothingLost
    <2> SUFFICES ASSUME Inv PROVE NothingLost
      OBVIOUS
    <2>1. DocInv /\ PrintedInv /\ SettleInv /\ bucket \in Seq(LineType)
      BY DEF Inv, TypeOK, ServerTypeOK
    <2>2. ASSUME settled, logKey, NEW i \in DOMAIN bucket
          PROVE  \E line \in heard :
                     \/ Says(line, bucket[i])
                     \/ line.part \in {"cut", "note"} /\ line.n <= i /\ line # Notice
      <3>1. printed = Len(bucket) /\ AgreesWith(heard, bucket)
        BY <2>1, <2>2 DEF SettleInv, DocInv
      <3>2. i \in 1..printed /\ i \in Nat /\ i # 0 /\ i <= i
        BY <2>1, <2>2, <3>1
      <3>3. PICK line \in heard : line.n = i
        BY <2>1, <3>2 DEF PrintedInv
      <3>4. line # Notice
        BY <3>2, <3>3 DEF Notice, Line
      <3> QED
        BY <2>2, <3>1, <3>2, <3>3, <3>4 DEF AgreesWith
    <2>3. Notice \notin heard => \A a, b \in heard : a.n = b.n => a = b
      BY <2>1 DEF PrintedInv
    <2> QED
      BY <2>2, <2>3 DEF NothingLost
  <1> QED
    BY <1>1, Invariance, PTL

\* A phase is shown only between the end of the work before it and the beginning
\* of the work after it.
THEOREM PhaseIsAlwaysEarned == CiSpec => []PhaseIsEarned
  <1>1. Inv => PhaseIsEarned
    BY OrderGivesPhase DEF Inv, TypeOK
  <1> QED
    BY <1>1, Invariance, PTL

\* No exit code is given without what it stands for.
THEOREM ExitCodesAreAlwaysEarned == CiSpec => []ExitCodesAreEarned
  <1>1. Inv => ExitCodesAreEarned
    <2> SUFFICES ASSUME Inv, cli = "exited" PROVE ExitCodesAreEarned
      BY DEF ExitCodesAreEarned
    <2>0. verdict # Nothing => run \in Terminal
      BY DEF Inv, ExitInv
    <2>1. /\ exit \in {"pass", "blocked", "inconclusive", "warned", "error", "traceback"}
          /\ exit \in Decisions => verdict = exit
          /\ exit = "warned" => verdict # Nothing
      BY DEF Inv, TypeOK, CommandTypeOK, ExitInv, Decisions
    <2> USE DEF ExitCodesAreEarned, ExitCode, Decisions, Nothing
    <2>2. CASE exit \in {"pass", "warned"}
      BY <2>0, <2>1, <2>2
    <2>3. CASE exit \in {"blocked", "traceback"}
      BY <2>0, <2>1, <2>3
    <2>4. CASE exit = "error"
      BY <2>0, <2>1, <2>4
    <2>5. CASE exit = "inconclusive"
      BY <2>0, <2>1, <2>5
    <2> QED
      BY <2>0, <2>1, <2>2, <2>3, <2>4, <2>5
  <1> QED
    BY <1>1, Invariance, PTL
=============================================================================
