------------------------------ MODULE StageLog ------------------------------
(***************************************************************************)
(* What a run lets a reader see while it goes on: its status, its stage    *)
(* rows, and the log of each stage.  While a container prints, snapshots   *)
(* of its output are published under the key where the retained log is     *)
(* stored when the stage ends; the row names that key only once the stage  *)
(* and its log are committed together.                                     *)
(*                                                                         *)
(* The log of one stage, Logged, is modelled, and one of its two streams:  *)
(* stages share no key and no LiveStageLog, and stdout and stderr go       *)
(* through the same code, one after the other, into one document.  A line  *)
(* is a kind; what redaction does to it depends on the whole text: a       *)
(* "secret" line's value is masked in "echo" lines too, which no rule      *)
(* recognises by themselves.  Masking changes the length of a line, and the*)
(* cap counts what is left after it, so a value met late moves the cut.    *)
(* The life of the run is that of RunLifecycle, cut down to the steps a    *)
(* reader can tell apart.                                                  *)
(***************************************************************************)
EXTENDS Naturals, Sequences, FiniteSets

CONSTANTS
    Logged,     \* the stage whose log is followed
    Kinds,      \* the kinds of lines explored, a subset of LineKinds
    MaxLines,   \* bound on the lines of one container
    Size,       \* the length of a line of each kind, its newline included ...
    MaskedSize, \* ... and once masked, which may be longer or shorter
    Cap         \* MAX_STORED_LOG_BYTES, in the same unit

Stages == {"unpack", "static", "ghidra"}
ScanStages == {"unpack", "static"}
LineKinds == {"plain", "secret", "echo"}
Nothing == "nothing"

ASSUME LoggedAssumption == Logged \in Stages /\ Kinds \subseteq LineKinds
ASSUME BoundsAssumption == MaxLines \in Nat /\ Cap \in Nat
ASSUME SizeAssumption ==
    Size \in [Kinds -> Nat \ {0}] /\ MaskedSize \in [Kinds -> Nat \ {0}]

VARIABLES
    (* the database *)
    run,        \* runs.status; "completed" stands for degraded too
    row,        \* run_stages.status: not there, running, or one of its ends
    (* the workers *)
    scanner,    \* a worker is inside run_scan
    pc,         \* per stage: not started, its container up, ended, or over
    (* the log of stage Logged *)
    out,        \* the finished lines its container has printed
    half,       \* its unfinished last line
    bucket,     \* the document at the stage's key
    kept,       \* what store_stage_log returned: the log is there
    logKey      \* run_stages.log_key is set

logVars == <<out, half, bucket, kept>>
serverVars == <<run, row, scanner, pc, logVars, logKey>>

-----------------------------------------------------------------------------
(* Documents *)

Terminal == {"completed", "failed"}
\* A line of a document, or what there is of it: "half" of an unfinished line,
\* the part of a "cut" one that fits, or the "note" after it.
Parts == {"whole", "half", "cut", "note"}
LineType == [n : Nat, part : Parts, masked : BOOLEAN]
Line(n, part, masked) == [n |-> n, part |-> part, masked |-> masked]
NoDoc == <<Line(0, "note", FALSE)>>     \* no object at the key: no rendering gives this

\* redact_log_text: a value some rule recognises is masked wherever it occurs.
Masked(lines, i) ==
    \/ lines[i] = "secret"
    \/ lines[i] = "echo" /\ \E j \in DOMAIN lines : lines[j] = "secret"

\* The lines of a text and how far each reaches once the text is redacted.  A
\* live rendering holds back the unfinished line; the retained one has it,
\* though no rule recognises it.
Total(text, live) == Len(text.lines) + (IF text.half # Nothing /\ ~live THEN 1 ELSE 0)
Redacted(text, i) ==
    IF i <= Len(text.lines) THEN Line(i, "whole", Masked(text.lines, i)) ELSE Line(i, "half", FALSE)
Reach(text) ==
    LET length(i) == CASE i > Len(text.lines) -> 1
                       [] i <= Len(text.lines) /\ Masked(text.lines, i) -> MaskedSize[text.lines[i]]
                       [] OTHER -> Size[text.lines[i]]
        end[i \in Nat] == IF i = 0 THEN 0 ELSE end[i - 1] + length(i)
    IN  end

\* How many lines of it the cap leaves untouched.
Fits(text, live) == Cardinality({i \in 1..Total(text, live) : Reach(text)[i] <= Cap})

\* render_stage_log: redact, then cap.  The cut goes through the line that does
\* not fit (perhaps before its first byte), and the note follows.
Rendered(text, live) ==
    LET fits == Fits(text, live)
        fitting == [i \in 1..fits |-> Redacted(text, i)]
    IN  IF fits = Total(text, live) THEN fitting
        ELSE fitting \o <<Line(fits + 1, "cut", Redacted(text, fits + 1).masked),
                         Line(fits + 2, "note", FALSE)>>

\* _collect_logs: the output so far, or nothing when the daemon does not answer.
Text(lines, rest) == [lines |-> lines, half |-> rest]
Collected == {Text(out, half), Text(<<>>, Nothing)}

-----------------------------------------------------------------------------
Init ==
    /\ run = "absent" /\ scanner = FALSE
    /\ row = [s \in Stages |-> "absent"]
    /\ pc = [s \in Stages |-> "idle"]
    /\ out = <<>> /\ half = Nothing
    /\ bucket = NoDoc /\ kept = FALSE /\ logKey = FALSE

-----------------------------------------------------------------------------
(* The run *)

\* create_run's commit; the dispatch after it may fail the request all the same.
Submit ==
    /\ run = "absent"
    /\ run' = "queued"
    /\ UNCHANGED <<row, scanner, pc, logVars, logKey>>

StartRun ==
    /\ run = "queued"
    /\ run' = "running"
    /\ scanner' = TRUE
    /\ UNCHANGED <<row, pc, logVars, logKey>>

\* What must be so before a stage's row is committed as running.
MayStart(s) ==
    CASE s = "unpack" -> scanner
      [] s = "static" -> scanner /\ row["unpack"] = "finished"
      [] s = "ghidra" -> run = "completed"

StartStage(s) ==
    /\ row[s] = "absent" /\ pc[s] = "idle"
    /\ MayStart(s)
    /\ row' = [row EXCEPT ![s] = "running"]
    /\ pc' = [pc EXCEPT ![s] = "up"]
    /\ UNCHANGED <<run, scanner, logVars, logKey>>

\* The first part of a line, and the rest of it.
PrintLine(k) ==
    /\ pc[Logged] = "up"
    /\ half = Nothing /\ Len(out) < MaxLines
    /\ half' = k
    /\ UNCHANGED <<run, row, scanner, pc, out, bucket, kept, logKey>>

EndLine ==
    /\ pc[Logged] = "up" /\ half # Nothing
    /\ out' = Append(out, half)
    /\ half' = Nothing
    /\ UNCHANGED <<run, row, scanner, pc, bucket, kept, logKey>>

\* LiveStageLog.__call__ on one tick of the wait.  A tick its clocks or an
\* unchanged size skip, and a write the bucket refuses, change nothing;
\* _published is the document in the bucket, since nobody else writes there.
Tick ==
    /\ pc[Logged] = "up"
    /\ \E text \in Collected :
        /\ Rendered(text, TRUE) # bucket
        /\ bucket' = Rendered(text, TRUE)
    /\ UNCHANGED <<run, row, scanner, pc, out, half, kept, logKey>>

\* store_stage_log, over output that was collected once more or was lost; the
\* bucket may refuse it.
Store ==
    \E text \in Collected :
        /\ kept' \in BOOLEAN
        /\ bucket' = IF kept' THEN Rendered(text, FALSE) ELSE bucket

\* Mutant: the end of the stage is committed apart from its log key.
EndStageEarly(s) ==
    /\ pc[s] = "up"
    /\ pc' = [pc EXCEPT ![s] = "ended"]
    /\ row' = [row EXCEPT ![s] = "finished"]
    /\ IF s = Logged THEN Store ELSE UNCHANGED <<bucket, kept>>
    /\ UNCHANGED <<run, scanner, out, half, logKey>>

\* driver.run returns and _record_stage stores the log; nothing is committed.
EndStage(s) ==
    /\ pc[s] = "up"
    /\ pc' = [pc EXCEPT ![s] = "ended"]
    /\ IF s = Logged THEN Store ELSE UNCHANGED <<bucket, kept>>
    /\ UNCHANGED <<run, row, scanner, out, half, logKey>>

\* The rows of the stages in S become visible, with their log keys.
Commit(S) ==
    /\ row' = [s \in Stages |-> IF s \in S THEN "finished" ELSE row[s]]
    /\ logKey' = IF Logged \in S THEN kept ELSE logKey
    /\ pc' = [s \in Stages |-> IF s \in S THEN "over" ELSE pc[s]]

\* The checkpoint after a scan stage, and the commit that ends enrichment.
CommitStage(s) ==
    /\ pc[s] = "ended"
    /\ Commit({s})
    /\ UNCHANGED <<run, scanner, logVars>>

\* run_scan ends: with results ...
Settle ==
    /\ scanner /\ row["static"] = "finished"
    /\ run' = "completed" /\ scanner' = FALSE
    /\ UNCHANGED <<row, pc, logVars, logKey>>

\* ... or with an exception, which fails the run and commits what was pending.
Raise ==
    /\ scanner /\ \A s \in ScanStages : pc[s] # "up"
    /\ run' = "failed" /\ scanner' = FALSE
    /\ Commit({s \in ScanStages : pc[s] = "ended"})
    /\ UNCHANGED logVars

\* A worker dies: its stages stay as they were committed.
Abandon(S) == pc' = [s \in Stages |-> IF s \in S /\ pc[s] # "idle" THEN "over" ELSE pc[s]]

CrashScan ==
    /\ scanner
    /\ scanner' = FALSE
    /\ Abandon(ScanStages)
    /\ UNCHANGED <<run, row, logVars, logKey>>

CrashGhidra ==
    /\ pc["ghidra"] \in {"up", "ended"}
    /\ Abandon({"ghidra"})
    /\ UNCHANGED <<run, row, scanner, logVars, logKey>>

\* The sweep fails a run it read as overdue, alive or meanwhile finished: see
\* SweepCommit in RunLifecycle.
Sweep ==
    /\ run \in {"queued", "running", "completed"}
    /\ run' = "failed"
    /\ UNCHANGED <<row, scanner, pc, logVars, logKey>>

\* Everything a run does once submitted.
ServerStep ==
    \/ \E s \in Stages : StartStage(s) \/ EndStage(s) \/ CommitStage(s)
    \/ \E k \in Kinds : PrintLine(k)
    \/ EndLine \/ Tick
    \/ StartRun \/ Settle \/ Raise \/ CrashScan \/ CrashGhidra \/ Sweep

-----------------------------------------------------------------------------
(* What the API answers *)

\* get_stage_logs reads the row first: a log is worth reading if the row names
\* one or the stage is unfinished ...
RowRead == IF logKey \/ row[Logged] = "running" THEN "readable" ELSE "not found"

\* ... and then the document, if there is one by then.
Answer(read) == IF read = "readable" THEN bucket ELSE NoDoc

\* Mutant: a stage's row says its phase is over as soon as it exists.
UnfinishedNever == {}

\* StageStatus.PENDING and RUNNING.
Unfinished == {"running"}

\* _phase: where the progress bar stands.
Phase ==
    CASE run \in Terminal -> "done"
      [] run \notin Terminal /\ row["static"] # "absent" ->
            IF row["static"] \in Unfinished THEN "static" ELSE "report"
      [] run \notin Terminal /\ row["static"] = "absent" /\ row["unpack"] # "absent" ->
            IF row["unpack"] \in Unfinished THEN "unpack" ELSE "index"
      [] OTHER -> "queued"

Phases == {"queued", "unpack", "index", "static", "report", "done"}

ServerTypeOK ==
    /\ run \in {"absent", "queued", "running"} \cup Terminal
    /\ row \in [Stages -> {"absent", "running", "finished"}]
    /\ scanner \in BOOLEAN /\ kept \in BOOLEAN /\ logKey \in BOOLEAN
    /\ pc \in [Stages -> {"idle", "up", "ended", "over"}]
    /\ out \in Seq(Kinds) /\ half \in Kinds \cup {Nothing}
    /\ bucket \in Seq(LineType)

(* Properties of the server's side *)

\* A phase is reported only when the work before it is done and the work after
\* it has not begun: no container of another phase is up while the run goes on.
PhaseIsEarned ==
    /\ Phase \in {"index", "report"} => \A s \in ScanStages : pc[s] # "up"
    /\ Phase \in {"unpack", "static"} => \A s \in ScanStages \ {Phase} : pc[s] # "up"
    /\ Phase = "queued" => \A s \in Stages : pc[s] # "up"
=============================================================================
