--------------------------- MODULE Sandbox_proofs ---------------------------
(***************************************************************************)
(* Theorems about Sandbox, for any number of driver calls, orphans, sweeps *)
(* and containers the daemon cannot remove.                                *)
(*                                                                         *)
(* That "completed" is earned rests on what the watchdog can still not     *)
(* have done: while it is watching, only the reaper may have touched the   *)
(* container, and a container removed while it ran has no exit code of 0.  *)
(***************************************************************************)
EXTENDS Sandbox, TLAPS

\* A container has an exit code only once it runs no more, and there is none
\* before the driver creates it.
CodeInv ==
    \A c \in Containers :
        /\ code[c] # NoCode => state[c] \in {"exited", "gone"}
        /\ call[c] \in {"idle", "creating"} => state[c] = "none"

\* The exit code the driver reports is the container's own, and 0 only if
\* nobody signalled the container or removed it while it ran.
Own(c) == code[c] # NoCode /\ exit[c] = code[c] /\ (code[c] = 0 => ~touched[c])

Unsignalled == {"idle", "creating", "starting", "watching"}

EarnedInv ==
    \A c \in Containers :
        /\ call[c] \in Unsignalled /\ touched[c] => code[c] = 137
        /\ call[c] = "judging" /\ verdict[c] = "exited" => Own(c)
        /\ call[c] \in {"removing", "returned"} /\ status[c] = "completed" => Own(c)

Inv == TypeOK /\ CodeInv /\ EarnedInv

USE DEF vars, callVars, boxVars, sweepVars, Waiting, InRun, CallStates, Present,
        ExitCodes, NoCode, NoOne, SandboxStatus, WatchdogVerdict,
        Goto, Outcome, Report, Each

-----------------------------------------------------------------------------
\* At the start no call is under way, orphans run, nothing is reported and no
\* exit code is known.
LEMMA InitInv == Init => Inv
  BY DeathsAssumption
  DEF Init, Inv, TypeOK, CodeInv, EarnedInv, Unsignalled

\* A removal keeps the types of what the daemon knows.
LEMMA GoneType ==
    ASSUME TypeOK, NEW c \in Containers, Gone(c)
    PROVE  /\ state' \in [Containers -> Present \cup {"none", "gone"}]
           /\ code' \in [Containers -> ExitCodes \cup {NoCode}]
           /\ touched' \in [Containers -> BOOLEAN]
           /\ oom' \in [Containers -> BOOLEAN]
           /\ old' \in [Containers -> BOOLEAN]
  <1>1. state' \in [Containers -> Present \cup {"none", "gone"}]
    BY DEF TypeOK, Gone
  <1>2. code' \in [Containers -> ExitCodes \cup {NoCode}]
    BY DEF TypeOK, Gone
  <1>3. touched' \in [Containers -> BOOLEAN]
    BY Zenon DEF TypeOK, Gone
  <1>4. oom' \in [Containers -> BOOLEAN]
    BY Zenon DEF TypeOK, Gone
  <1>5. old' \in [Containers -> BOOLEAN]
    BY Zenon DEF TypeOK, Gone
  <1> QED
    BY <1>1, <1>2, <1>3, <1>4, <1>5

\* A signal, sent or lost, keeps the type of touched.
LEMMA SignalType ==
    ASSUME TypeOK, NEW c \in Containers, Signal(c)
    PROVE  touched' \in [Containers -> BOOLEAN]
  <1>1. CASE touched' = [touched EXCEPT ![c] = @ \/ state[c] = "running"]
    BY <1>1, Zenon DEF TypeOK
  <1>2. CASE UNCHANGED touched
    BY <1>2 DEF TypeOK
  <1> QED
    BY <1>1, <1>2 DEF Signal

\* Every step of the driver, of the daemon and of the reaper keeps the types.
LEMMA TypeStep == TypeOK /\ [Next]_vars => TypeOK'
  <1> SUFFICES ASSUME TypeOK, [Next]_vars PROVE TypeOK'
    OBVIOUS
  <1> USE DEF TypeOK
  <1>1. ASSUME NEW c \in Containers, Run(c) PROVE TypeOK'
    BY <1>1 DEF Run
  <1>2. ASSUME NEW c \in Containers, Creating(c) PROVE TypeOK'
    <2>1. CASE Create(c)
      BY <2>1 DEF Create
    <2>2. CASE CreateFailed(c)
      BY <2>2 DEF CreateFailed
    <2> QED
      BY <1>2, <2>1, <2>2 DEF Creating
  <1>3. ASSUME NEW c \in Containers, Starting(c) PROVE TypeOK'
    <2>1. CASE Start(c)
      BY <2>1 DEF Start
    <2>2. CASE StartFailed(c)
      BY <2>2, GoneType DEF StartFailed, QuietRemove
    <2>3. CASE StartAnswerLost(c)
      BY <2>3 DEF StartAnswerLost
    <2> QED
      BY <1>3, <2>1, <2>2, <2>3 DEF Starting
  <1>4. ASSUME NEW c \in Containers, Watching(c) PROVE TypeOK'
    <2>1. CASE WaitReturns(c)
      BY <2>1 DEF WaitReturns, Verdict
    <2>2. CASE Deadline(c)
      BY <2>2, SignalType DEF Deadline
    <2>3. CASE GraceOver(c)
      BY <2>3, SignalType DEF GraceOver
    <2>4. CASE GiveUp(c)
      BY <2>4 DEF GiveUp
    <2> QED
      BY <1>4, <2>1, <2>2, <2>3, <2>4 DEF Watching
  <1>5. ASSUME NEW c \in Containers, Judge(c) PROVE TypeOK'
    BY <1>5 DEF Judge, StatusOf
  <1>6. ASSUME NEW c \in Containers, AutoRemove(c) PROVE TypeOK'
    BY <1>6, GoneType DEF AutoRemove, QuietRemove
  <1>7. ASSUME NEW c \in Containers, DaemonError(c) PROVE TypeOK'
    BY <1>7 DEF DaemonError
  <1>8. ASSUME NEW c \in Containers, WorkerDies(c) PROVE TypeOK'
    BY <1>8 DEF WorkerDies
  <1>9. ASSUME NEW c \in Containers, OomKill(c) \/ GrowsOld(c) PROVE TypeOK'
    <2>1. CASE OomKill(c)
      <3>1. oom' \in [Containers -> BOOLEAN]
        BY <2>1, Zenon DEF OomKill
      <3> QED
        BY <2>1, <3>1 DEF OomKill
    <2>2. CASE GrowsOld(c)
      <3>1. old' \in [Containers -> BOOLEAN]
        BY <2>2, Zenon DEF GrowsOld
      <3> QED
        BY <2>2, <3>1 DEF GrowsOld
    <2> QED
      BY <1>9, <2>1, <2>2
  <1>10. ASSUME NEW c \in Containers, NEW n \in ExitCodes, Exits(c, n) PROVE TypeOK'
    BY <1>10 DEF Exits
  <1>11. ASSUME NEW r \in Reapers, SweepLists(r) PROVE TypeOK'
    BY <1>11 DEF SweepLists, Managed
  <1>12. ASSUME NEW r \in Reapers, SweepNext(r) PROVE TypeOK'
    BY <1>12 DEF SweepNext
  <1>13. ASSUME NEW r \in Reapers, NEW c \in Containers, Reap(r, c) PROVE TypeOK'
    BY <1>13, GoneType DEF Reap
  <1>14. ASSUME NEW r \in Reapers, NEW c \in Containers, ReapFails(r, c) PROVE TypeOK'
    BY <1>14 DEF ReapFails
  <1>15. ASSUME NEW r \in Reapers, SweepDies(r) PROVE TypeOK'
    BY <1>15, DeathsAssumption DEF SweepDies, SweepEnds
  <1>16. CASE UNCHANGED vars
    BY <1>16
  <1> QED
    BY <1>1, <1>2, <1>3, <1>4, <1>5, <1>6, <1>7, <1>8, <1>9, <1>10, <1>11, <1>12,
       <1>13, <1>14, <1>15, <1>16 DEF Next, DriverStep, SweepStep

-----------------------------------------------------------------------------
\* A removal keeps every exit code there is, and takes a running container's
\* chance of ending with 0.
LEMMA GoneKeeps ==
    ASSUME Inv, NEW c \in Containers, state[c] \in Present, Gone(c),
           \A d \in Containers : call'[d] \in {"idle", "creating"} => call[d] = call'[d]
    PROVE  /\ CodeInv'
           /\ \A d \in Containers : code[d] # NoCode =>
                 code'[d] = code[d] /\ touched'[d] = touched[d]
           /\ \A d \in Containers : touched'[d] => touched[d] \/ code'[d] = 137
  BY DEF Inv, TypeOK, CodeInv, Gone

\* Nothing but the driver's own signals may break what it is about to report.
LEMMA EarnedStep == Inv /\ [Next]_vars => CodeInv' /\ EarnedInv'
  <1> SUFFICES ASSUME Inv, [Next]_vars PROVE CodeInv' /\ EarnedInv'
    OBVIOUS
  <1> USE DEF Inv, TypeOK, CodeInv, EarnedInv, Own, Unsignalled
  <1>1. ASSUME NEW c \in Containers, Run(c) PROVE CodeInv' /\ EarnedInv'
    BY <1>1 DEF Run
  <1>2. ASSUME NEW c \in Containers, Creating(c) PROVE CodeInv' /\ EarnedInv'
    <2>1. CASE Create(c)
      BY <2>1 DEF Create
    <2>2. CASE CreateFailed(c)
      BY <2>2 DEF CreateFailed
    <2> QED
      BY <1>2, <2>1, <2>2 DEF Creating
  <1>3. ASSUME NEW c \in Containers, Starting(c) PROVE CodeInv' /\ EarnedInv'
    <2>1. CASE Start(c)
      BY <2>1 DEF Start
    <2>2. CASE StartFailed(c)
      BY <2>2, GoneKeeps DEF StartFailed, QuietRemove
    <2>3. CASE StartAnswerLost(c)
      BY <2>3 DEF StartAnswerLost
    <2> QED
      BY <1>3, <2>1, <2>2, <2>3 DEF Starting
  <1>4. ASSUME NEW c \in Containers, Watching(c) PROVE CodeInv' /\ EarnedInv'
    <2>1. CASE WaitReturns(c)
      BY <2>1 DEF WaitReturns, Verdict
    <2>2. CASE Deadline(c)
      BY <2>2 DEF Deadline, Signal
    <2>3. CASE GraceOver(c)
      BY <2>3 DEF GraceOver, Signal
    <2>4. CASE GiveUp(c)
      BY <2>4 DEF GiveUp
    <2> QED
      BY <1>4, <2>1, <2>2, <2>3, <2>4 DEF Watching
  <1>5. ASSUME NEW c \in Containers, Judge(c) PROVE CodeInv' /\ EarnedInv'
    BY <1>5 DEF Judge, StatusOf
  <1>6. ASSUME NEW c \in Containers, AutoRemove(c) PROVE CodeInv' /\ EarnedInv'
    BY <1>6, GoneKeeps DEF AutoRemove, QuietRemove
  <1>7. ASSUME NEW c \in Containers, DaemonError(c) PROVE CodeInv' /\ EarnedInv'
    BY <1>7 DEF DaemonError
  <1>8. ASSUME NEW c \in Containers, WorkerDies(c) PROVE CodeInv' /\ EarnedInv'
    BY <1>8 DEF WorkerDies
  <1>9. ASSUME NEW c \in Containers, OomKill(c) \/ GrowsOld(c) PROVE CodeInv' /\ EarnedInv'
    BY <1>9 DEF OomKill, GrowsOld
  <1>10. ASSUME NEW c \in Containers, NEW n \in ExitCodes, Exits(c, n)
         PROVE  CodeInv' /\ EarnedInv'
    BY <1>10 DEF Exits
  <1>11. ASSUME NEW r \in Reapers, SweepLists(r) PROVE CodeInv' /\ EarnedInv'
    BY <1>11 DEF SweepLists
  <1>12. ASSUME NEW r \in Reapers, SweepNext(r) PROVE CodeInv' /\ EarnedInv'
    BY <1>12 DEF SweepNext
  <1>13. ASSUME NEW r \in Reapers, NEW c \in Containers, Reap(r, c)
         PROVE  CodeInv' /\ EarnedInv'
    BY <1>13, GoneKeeps DEF Reap
  <1>14. ASSUME NEW r \in Reapers, NEW c \in Containers, ReapFails(r, c)
         PROVE  CodeInv' /\ EarnedInv'
    BY <1>14 DEF ReapFails
  <1>15. ASSUME NEW r \in Reapers, SweepDies(r) PROVE CodeInv' /\ EarnedInv'
    BY <1>15 DEF SweepDies, SweepEnds
  <1>16. CASE UNCHANGED vars
    BY <1>16
  <1> QED
    BY <1>1, <1>2, <1>3, <1>4, <1>5, <1>6, <1>7, <1>8, <1>9, <1>10, <1>11, <1>12,
       <1>13, <1>14, <1>15, <1>16 DEF Next, DriverStep, SweepStep

-----------------------------------------------------------------------------
\* The inductive invariant: types, exit codes, and what the driver may report.
THEOREM Invariance == Spec => []Inv
  <1>1. Inv /\ [Next]_vars => Inv'
    BY TypeStep, EarnedStep DEF Inv
  <1>2. QED
    BY InitInv, <1>1, PTL DEF Spec

\* Every variable keeps its type, and a call that is over has a status.
THEOREM TypeCorrect == Spec => []TypeOK
  BY Invariance, PTL DEF Inv

\* A stage that reads completed had a container that ended by itself with 0:
\* no timeout, no signal and no reaper can have produced it.
THEOREM Earned == Spec => []CompletedIsEarned
  <1>1. Inv => CompletedIsEarned
    BY DEF Inv, CodeInv, EarnedInv, Own, CompletedIsEarned, RecordStage
  <1>2. QED
    BY Invariance, <1>1, PTL
=============================================================================
