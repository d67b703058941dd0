------------------------------- MODULE CiScan -------------------------------
(***************************************************************************)
(* `bare scan` on a build agent, against a run that goes on by itself      *)
(* (StageLog): upload, wait with a deadline, follow the stage logs, ask    *)
(* for the verdict, write the artefacts, exit.  `bare gate` is the same    *)
(* without the upload, the wait and the logs.                              *)
(*                                                                         *)
(* Every request may fail.  The follower reads a run detail in one request *)
(* and each stage's log in a later one, and the log endpoint reads the row *)
(* before the document, so what it prints mixes several moments of the run.*)
(* The follower's state is that of one stage, Logged: its poll visits the  *)
(* stages one by one and keeps nothing from one to the next but a refusal. *)
(***************************************************************************)
EXTENDS StageLog

CONSTANTS
    ShowLogs,   \* whether --show-logs may be given
    Watchers    \* whether a dashboard may watch the run's event stream

VARIABLES
    (* the command *)
    cli,        \* its place in the program
    follows,    \* --show-logs
    detail,     \* the stage's row in the run detail it last received
    todo,       \* the follower has still to visit the stage in this poll
    asked,      \* what the API has read for the log request in flight
    disabled,   \* LogFollower._disabled
    printed,    \* LogFollower._printed
    settled,    \* the stage is in LogFollower._settled
    heard,      \* the lines of the stage's log it has echoed to the build log
    expired,    \* the deadline of wait_for_run has passed
    verdict,    \* the gate's decision, once received
    exit,       \* the exit code and what led to it
    (* a dashboard *)
    stream,     \* the event stream: not opened, open, or ended by the server
    told        \* the phase in the last payload it carried

cliVars == <<cli, follows, detail, todo, asked, disabled, printed, settled, heard,
             expired, verdict, exit>>
followVars == <<todo, asked, disabled, printed, settled, heard>>
watchVars == <<stream, told>>
vars == <<serverVars, cliVars, watchVars>>

Decisions == {"pass", "blocked", "inconclusive"}

CiInit ==
    /\ Init
    /\ cli = "start" /\ follows \in (IF ShowLogs THEN BOOLEAN ELSE {FALSE})
    /\ detail = "absent" /\ todo = FALSE /\ asked = Nothing /\ disabled = FALSE
    /\ printed = 0 /\ settled = FALSE /\ heard = {}
    /\ expired = FALSE /\ verdict = Nothing /\ exit = Nothing
    /\ stream = "closed" /\ told = Nothing

-----------------------------------------------------------------------------
(* Leaving *)

Goto(to) == cli' = to /\ UNCHANGED exit
Exit(why) == cli' = "exited" /\ exit' = why

\* _fail, wherever it is called from: nothing is decided, exit code 2.
Fail == Exit("error")

\* An exception nobody catches (a policy that cannot be read, an output file
\* that cannot be written, an answer that breaks off or is not UTF-8, a payload
\* without a key that is read): Python leaves with exit code 1.
Uncaught == Exit("traceback")

\* A request that fails: an ApiError, which the command reports, or an exception
\* the client does not turn into one.
FailedRequest == Fail \/ Uncaught

\* GateVerdict.exit_code, _fail's EXIT_ERROR and the interpreter's own.
ExitCode ==
    CASE exit \in {"pass", "warned"} -> 0
      [] exit \in {"blocked", "traceback"} -> 1
      [] exit = "error" -> 2
      [] exit = "inconclusive" -> 3

\* Before anything is sent: the artifact, the policy and the attestation.
Refuse ==
    /\ cli = "start"
    /\ Fail \/ Uncaught
    /\ UNCHANGED <<serverVars, follows, detail, followVars, expired, verdict, watchVars>>

\* client.upload: the run is queued and its id received ...
Upload ==
    /\ cli = "start"
    /\ Submit
    /\ Goto("polling")
    /\ UNCHANGED <<follows, detail, followVars, expired, verdict, watchVars>>

\* ... or the answer does not come, whether or not the run was queued.
UploadFails ==
    /\ cli = "start"
    /\ Submit \/ UNCHANGED serverVars
    /\ FailedRequest
    /\ UNCHANGED <<follows, detail, followVars, expired, verdict, watchVars>>

\* bare gate, for a run somebody else submitted.
GateCommand ==
    /\ cli = "start" /\ ~follows
    /\ Submit
    /\ Goto("gating")
    /\ UNCHANGED <<follows, detail, followVars, expired, verdict, watchVars>>

-----------------------------------------------------------------------------
(* wait_for_run *)

Deadline ==
    /\ cli \in {"polling", "following", "asking"}
    /\ ~expired
    /\ expired' = TRUE
    /\ UNCHANGED <<serverVars, cli, follows, detail, followVars, verdict, exit, watchVars>>

\* Whether this poll visits the stage: its row is there and not settled.
Visit == follows /\ ~disabled /\ row[Logged] # "absent" /\ ~settled

\* Mutant: the deadline is only looked at when the run is over.
AfterPollPatient(status) ==
    CASE status \in Terminal /\ follows -> Goto("lastly")
      [] status \in Terminal /\ ~follows -> IF expired THEN Fail ELSE Goto("gating")
      [] OTHER -> Goto("following")

\* What one answer of get_run leads to: the status is looked at before the clock.
AfterPoll(status) ==
    CASE status \in Terminal -> Goto(IF follows THEN "lastly" ELSE "gating")
      [] status \notin Terminal /\ expired -> Fail
      [] OTHER -> Goto("following")

\* One answer of get_run.
Poll ==
    /\ cli = "polling"
    /\ todo' = Visit
    /\ detail' = IF Visit THEN row[Logged] ELSE "absent"
    /\ AfterPoll(run)
    /\ UNCHANGED <<serverVars, follows, asked, disabled, printed, settled, heard, expired,
                   verdict, watchVars>>

\* A get_run or get_gate that fails ends the command: it is not retried.
RequestFails ==
    /\ cli \in {"polling", "gating"}
    /\ FailedRequest
    /\ UNCHANGED <<serverVars, follows, detail, followVars, expired, verdict, watchVars>>

\* on_poll is done and the command sleeps, or the last visit to the logs is over.
PollDone ==
    /\ cli \in {"following", "lastly"} /\ ~todo
    /\ Goto(IF cli = "following" THEN "polling" ELSE "gating")
    /\ detail' = "absent"
    /\ UNCHANGED <<serverVars, follows, followVars, expired, verdict, watchVars>>

-----------------------------------------------------------------------------
(* LogFollower.poll *)

InPoll == cli \in {"following", "lastly"}
Rest == UNCHANGED <<serverVars, cli, follows, detail, expired, verdict, exit, watchVars>>

\* The API has read the row of the stage.
AskLog ==
    /\ InPoll /\ todo /\ asked = Nothing
    /\ asked' = RowRead
    /\ UNCHANGED <<todo, disabled, printed, settled, heard>>
    /\ Rest

\* 401 or 403: a CI token.  The follower gives up for good.
AskForbidden ==
    /\ InPoll /\ todo /\ asked = Nothing
    /\ disabled' = TRUE /\ todo' = FALSE
    /\ UNCHANGED <<asked, printed, settled, heard>>
    /\ Rest

\* Any other ApiError: a warning, and the stage is left for the next poll.
AskFails ==
    /\ InPoll /\ todo
    /\ todo' = FALSE /\ asked' = Nothing
    /\ UNCHANGED <<disabled, printed, settled, heard>>
    /\ Rest

\* Any other exception leaves the follower and the command with it.
FollowerRaises ==
    /\ InPoll /\ todo
    /\ Uncaught
    /\ UNCHANGED <<serverVars, follows, detail, followVars, expired, verdict, watchVars>>

\* A stage is settled once its log was read after the detail showed its end.
Settles(doc) == detail # "running"

\* What is printed when a document comes back shorter than what was printed.
Notice == Line(0, "note", FALSE)

\* _print_new: the lines past those printed.  Of a document that came back
\* shorter nothing is printed but the notice, and what follows its end later is
\* printed, again if need be: nothing printed is ever taken back.
PrintNew(doc) ==
    /\ heard' = heard \cup (IF Len(doc) < printed THEN {Notice}
                            ELSE {doc[i] : i \in printed + 1..Len(doc)})
    /\ printed' = Len(doc)

\* The document arrives, or a 404.
LogArrives ==
    /\ InPoll /\ asked # Nothing
    /\ LET doc == Answer(asked)
       IN  /\ IF doc = NoDoc THEN UNCHANGED <<heard, printed>> ELSE PrintNew(doc)
           /\ settled' = Settles(doc)
    /\ asked' = Nothing /\ todo' = FALSE
    /\ UNCHANGED disabled
    /\ Rest

-----------------------------------------------------------------------------
(* The verdict *)

\* The decisions gate_run can reach for the run as it stands: each of them for a
\* completed and, where the policy's on_degraded is pass, for a failed one
\* (ReleaseGate).  RunNotReady is a 409, so a RequestFails.
Verdicts == Decisions

GateAnswers ==
    /\ cli = "gating" /\ run \in Terminal
    /\ verdict' \in Verdicts
    /\ Goto("emitting")
    /\ UNCHANGED <<serverVars, follows, detail, followVars, expired, watchVars>>

\* Mutant: an artefact that cannot be fetched is taken for a blocked release.
FetchFailsBlocking == Exit("blocked")

\* _emit_verdict, an artefact that cannot be fetched.
FetchFails == FailedRequest

\* _emit_verdict: an artefact fails to arrive or to be written, or the code is
\* the verdict's; --warn-only makes it 0.
Emit ==
    /\ cli = "emitting"
    /\ \/ FetchFails
       \/ Exit(verdict)
       \/ verdict # "pass" /\ Exit("warned")
    /\ UNCHANGED <<serverVars, follows, detail, followVars, expired, verdict, watchVars>>

-----------------------------------------------------------------------------
(* The dashboard's event stream: stream_events *)

Watch ==
    /\ Watchers /\ stream = "closed" /\ run # "absent" /\ ~follows
    /\ stream' = "open"
    /\ UNCHANGED <<serverVars, cliVars, told>>

\* Mutant: the loop leaves on a terminal status before it has sent it.
StreamTickHasty ==
    /\ stream = "open" /\ told # Phase
    /\ IF run \in Terminal THEN stream' = "ended" /\ UNCHANGED told
       ELSE told' = Phase /\ UNCHANGED stream
    /\ UNCHANGED <<serverVars, cliVars>>

\* One frame: what changed is sent, and a terminal run ends the stream.
StreamTick ==
    /\ stream = "open"
    /\ told' = Phase
    /\ stream' = IF run \in Terminal THEN "ended" ELSE "open"
    /\ UNCHANGED <<serverVars, cliVars>>

\* Twenty minutes are over, or the connection is: EventSource comes back.
StreamDrops ==
    /\ stream = "open"
    /\ stream' = "closed" /\ told' = Nothing
    /\ UNCHANGED <<serverVars, cliVars>>

-----------------------------------------------------------------------------
\* Bound: once nobody looks any more the run's own life is RunLifecycle's.
Observed == cli # "exited" \/ stream = "open"
Server == Observed /\ ServerStep /\ UNCHANGED <<cliVars, watchVars>>

FollowStep == AskLog \/ AskForbidden \/ AskFails \/ FollowerRaises \/ LogArrives
CliStep ==
    \/ Refuse \/ Upload \/ UploadFails \/ GateCommand
    \/ Poll \/ RequestFails \/ FollowStep \/ PollDone \/ GateAnswers \/ Emit
Done == cli = "exited" /\ UNCHANGED vars
Next ==
    \/ Server \/ CliStep \/ Deadline
    \/ Watch \/ StreamTick \/ StreamDrops
    \/ Done

CiSpec == CiInit /\ [][Next]_vars

(***************************************************************************)
(* Fairness: the command keeps going (every request answers or times out), *)
(* its clock advances, and a browser with the page open reconnects.        *)
(***************************************************************************)
FairSpec == CiSpec /\ WF_vars(CliStep) /\ WF_vars(Deadline) /\ WF_vars(Watch) /\ SF_vars(StreamTick)

-----------------------------------------------------------------------------
CommandTypeOK ==
    /\ cli \in {"start", "polling", "following", "lastly", "gating", "emitting", "exited"}
    /\ follows \in BOOLEAN /\ expired \in BOOLEAN
    /\ verdict \in Decisions \cup {Nothing}
    /\ exit \in Decisions \cup {"warned", "error", "traceback", Nothing}
    /\ cli = "exited" <=> exit # Nothing

FollowerTypeOK ==
    /\ detail \in {"absent", "running", "finished"}
    /\ asked \in {Nothing, "readable", "not found"}
    /\ todo \in BOOLEAN /\ disabled \in BOOLEAN /\ settled \in BOOLEAN
    /\ heard \subseteq LineType /\ printed \in Nat

WatchTypeOK == stream \in {"closed", "open", "ended"} /\ told \in Phases \cup {Nothing}

TypeOK == ServerTypeOK /\ CommandTypeOK /\ FollowerTypeOK /\ WatchTypeOK

\* A printed line says what a line of the retained log says: the same line,
\* whole if it is whole there, and not masked where the retained log shows it.
Says(line, final) ==
    /\ line.n = final.n
    /\ final.part \in {"whole", "half"} => line.part = final.part
    /\ line.masked /\ final.part # "note" => final.masked

\* "The row that says the stage ended is committed with its retained log, so
\* this read was the last word on it": of a stage the follower is done with,
\* the build log has every line of the retained log, up to where a snapshot it
\* printed was cut; and while no notice says the log was rewritten, it has no
\* place of the log twice.
NothingLost ==
    /\ settled /\ logKey =>
          \A i \in DOMAIN bucket : \E line \in heard :
              \/ Says(line, bucket[i])
              \/ line.part \in {"cut", "note"} /\ line.n <= i /\ line # Notice
    /\ Notice \notin heard => \A a, b \in heard : a.n = b.n => a = b

\* Exit code 0 is given only for a run that is over and that the gate passed, or
\* refused under --warn-only; 3 for one that is over and inconclusive; 1 for a
\* blocked release or an exception nobody caught; and while the gate has said
\* nothing the code is one of failure.
ExitCodesAreEarned ==
    cli = "exited" =>
        /\ ExitCode = 0 => run \in Terminal /\ (verdict = "pass" \/ exit = "warned")
        /\ ExitCode = 3 => run \in Terminal /\ verdict = "inconclusive"
        /\ ExitCode = 1 => verdict = "blocked" \/ exit = "traceback"
        /\ verdict = Nothing => ExitCode \in {1, 2}

\* Whatever becomes of the run, the build step ends.
ScanEnds == <>(cli = "exited")

\* An open page learns that the run is over.
WatcherLearnsTheEnd ==
    (stream = "open" /\ run \in Terminal) ~> (told = "done" \/ stream = "closed")
=============================================================================
