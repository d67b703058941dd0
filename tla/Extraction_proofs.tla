-------------------------- MODULE Extraction_proofs --------------------------
(***************************************************************************)
(* Theorems about the recursive extractor, for any caps, any names and any *)
(* way of mapping names to directories.                                    *)
(*                                                                         *)
(* The stack is what holds everything together: below the running call all *)
(* calls wait in their loop over children, each for locations of its own   *)
(* depth, and only the running call writes.                                *)
(***************************************************************************)
EXTENDS Extraction, WellFoundedInduction, TLAPS

Depths == 0..(MaxDepth + 1)

\* The locations a call at depth d can write.
At(d) == {l \in Locations : l.dir[1] = d}

\* What the call at depth d is, while it is in progress.
CallInv(d) ==
    /\ frame[d] \in Calls
    /\ Len(frame[d].path) = d + 1
    /\ frame[d].written \in Seq(At(d))
    /\ frame[d].pending \subseteq At(d)
    /\ d < level => frame[d].phase = "children"
    /\ frame[d].phase # "enter" => d <= MaxDepth

FrameInv ==
    /\ level \in -1..(MaxDepth + 1)
    /\ frame = [d \in Depths |-> frame[d]]
    /\ \A d \in Depths : IF d <= level THEN CallInv(d) ELSE frame[d] = NoCall

\* What a call has written, and what it will collect, is there.
FilesInv ==
    \A d \in Depths : d <= level =>
        /\ \A i \in DOMAIN frame[d].written : disk[frame[d].written[i]] \in Files
        /\ \A l \in frame[d].pending : disk[l] \in Files

BudgetInv ==
    /\ files_written \in Nat /\ bytes_written \in Nat
    /\ files_written <= MaxFiles /\ bytes_written <= MaxBytes
    /\ exceeded \subseteq Limits

DiskInv == disk \in [Locations -> Files \cup {NoFile}]

ResultInv ==
    /\ nodes \in Seq(Nodes)
    /\ errors \subseteq Errors
    /\ opened \subseteq Paths
    /\ \A i \in DOMAIN nodes : Len(nodes[i].path) <= MaxDepth + 2

Inv == FrameInv /\ FilesInv /\ BudgetInv /\ DiskInv /\ ResultInv

USE CapsAssumption, SizesAssumption, NamesAssumption DEF Top, Containers, Kinds, Running, Unpacking

-----------------------------------------------------------------------------
(* Paths and locations *)

\* A child's path is a path, one longer than its parent's.
LEMMA ChildType ==
    ASSUME NEW p \in Paths, NEW n \in Names
    PROVE  ChildPath(p, n) \in Paths /\ Len(ChildPath(p, n)) = Len(p) + 1
  BY DEF ChildPath, Paths

\* The running call is in progress, and its directory is one of its depth.
LEMMA TopType ==
    ASSUME FrameInv, level >= 0
    PROVE  /\ level \in Depths
           /\ CallInv(level)
           /\ Top \in Calls
           /\ Top.path \in Paths
  <1>1. level \in Depths
    BY DEF FrameInv, Depths
  <1>2. CallInv(level)
    BY <1>1 DEF FrameInv
  <1> QED
    BY <1>1, <1>2 DEF CallInv, Calls

\* What the running call writes lies at its depth.
LEMMA TargetType ==
    ASSUME FrameInv, level >= 0, level <= MaxDepth, NEW n \in Names
    PROVE  Target(n) \in At(level)
  <1>1. Top.path \in Paths
    BY TopType
  <1>2. Top.path[Len(Top.path)] \in Names
    BY <1>1 DEF Paths
  <1>3. Slug(Top.path) \in Slugs
    BY <1>2 DEF Slug, Slugs
  <1>4. level \in 0..MaxDepth
    BY DEF FrameInv
  <1>5. Destination \in Directories /\ Destination[1] = level
    BY <1>3, <1>4 DEF Destination, Directories
  <1> QED
    BY <1>5 DEF Target, At, Locations

-----------------------------------------------------------------------------
(* The stack *)

\* A call that returns leaves the calls below it as they were.
LEMMA PopKeeps ==
    ASSUME FrameInv, level >= 0, Pop
    PROVE  /\ FrameInv'
           /\ \A d \in Depths : d <= level' => d < level /\ frame'[d] = frame[d]
  <1>1. level \in Depths
    BY TopType
  <1>2. /\ level' = level - 1
        /\ frame' = [frame EXCEPT ![level] = NoCall]
    BY DEF Pop
  <1>3. \A d \in Depths : frame'[d] = IF d = level THEN NoCall ELSE frame[d]
    BY <1>2 DEF FrameInv
  <1>4. frame' = [d \in Depths |-> frame'[d]]
    BY <1>2 DEF FrameInv
  <1>5. ASSUME NEW d \in Depths, d <= level' PROVE CallInv(d)'
    BY <1>2, <1>3, <1>5 DEF FrameInv, CallInv, Depths
  <1>6. ASSUME NEW d \in Depths, ~(d <= level') PROVE frame'[d] = NoCall
    BY <1>2, <1>3, <1>6 DEF FrameInv, Depths
  <1>7. level' \in -1..(MaxDepth + 1)
    BY <1>1, <1>2 DEF Depths
  <1>8. \A d \in Depths : d <= level' => d < level /\ frame'[d] = frame[d]
    BY <1>1, <1>2, <1>3 DEF Depths
  <1> QED
    BY <1>4, <1>5, <1>6, <1>7, <1>8 DEF FrameInv

\* A call that carries on does so on its own path and at its own depth.
LEMMA ContinueKeeps ==
    ASSUME FrameInv, level >= 0, level <= MaxDepth,
           NEW call, call \in Calls, call.path = Top.path,
           call.written \in Seq(At(level)), call.pending \subseteq At(level),
           Continue(call)
    PROVE  /\ FrameInv'
           /\ level' = level
           /\ frame'[level] = call
           /\ \A d \in Depths : d < level => frame'[d] = frame[d]
  <1>1. level \in Depths /\ CallInv(level)
    BY TopType
  <1>2. /\ level' = level
        /\ frame' = [frame EXCEPT ![level] = call]
    BY DEF Continue
  <1>3. \A d \in Depths : frame'[d] = IF d = level THEN call ELSE frame[d]
    BY <1>2 DEF FrameInv
  <1>4. frame' = [d \in Depths |-> frame'[d]]
    BY <1>2 DEF FrameInv
  <1>5. ASSUME NEW d \in Depths, d <= level' PROVE CallInv(d)'
    BY <1>1, <1>2, <1>3, <1>5, SMTT(20) DEF FrameInv, CallInv, Depths
  <1>6. ASSUME NEW d \in Depths, ~(d <= level') PROVE frame'[d] = NoCall
    BY <1>2, <1>3, <1>6 DEF FrameInv, Depths
  <1>7. \A d \in Depths : d < level => frame'[d] = frame[d]
    BY <1>1, <1>3 DEF Depths
  <1> QED
    BY <1>1, <1>2, <1>3, <1>4, <1>5, <1>6, <1>7 DEF FrameInv

-----------------------------------------------------------------------------
(* The disk, the budget and the results *)

\* A step writes at the running call's depth only.
KeepsElsewhere == \A l \in Locations : l \notin At(level) => disk'[l] = disk[l]

\* No file disappears.
KeepsFiles == \A l \in Locations : disk[l] \in Files => disk'[l] \in Files

\* A file written lies where it was put, and everything else stays.
LEMMA WriteKeeps ==
    ASSUME FrameInv, DiskInv, level >= 0, level <= MaxDepth,
           NEW n \in Names, NEW kind \in Kinds, NEW size \in Sizes, Write(n, kind, size)
    PROVE  /\ DiskInv' /\ KeepsElsewhere /\ KeepsFiles
           /\ Target(n) \in At(level)
           /\ disk'[Target(n)] \in Files
  <1>1. Target(n) \in At(level) /\ Target(n) \in Locations
    BY TargetType DEF At
  <1>2. ChildPath(Top.path, n) \in Paths
    BY TopType, ChildType
  <1> DEFINE file == [path |-> ChildPath(Top.path, n), kind |-> kind, size |-> size]
  <1>3. file \in Files
    BY <1>2 DEF Files
  <1>4. disk' = [disk EXCEPT ![Target(n)] = file]
    BY DEF Write
  <1> HIDE DEF file
  <1> QED
    BY <1>1, <1>3, <1>4 DEF DiskInv, KeepsElsewhere, KeepsFiles

\* A reservation that is granted keeps the caps.
LEMMA ReserveKeeps ==
    ASSUME BudgetInv, NEW size \in Nat, Reserve(size)
    PROVE  BudgetInv'
  BY DEF BudgetInv, Reserve, Fits

\* An abandoned archive leaves an error in its own name.
LEMMA AbandonKeeps ==
    ASSUME FrameInv, ResultInv, level >= 0, NEW why \in {"budget", "failed", "refused"},
           Abandon(why)
    PROVE  Pop /\ ResultInv'
  <1>1. [path |-> Top.path, why |-> why] \in Errors
    BY TopType DEF Errors
  <1> QED
    BY <1>1 DEF Abandon, ResultInv

\* What the calls below wrote is still there.
LEMMA FilesBelow ==
    ASSUME FrameInv, FilesInv, KeepsElsewhere, NEW d \in Depths, d < level
    PROVE  /\ \A i \in DOMAIN frame[d].written : disk'[frame[d].written[i]] \in Files
           /\ \A l \in frame[d].pending : disk'[l] \in Files
  <1>1. d <= level
    BY DEF FrameInv, Depths
  <1>2. CallInv(d)
    BY <1>1 DEF FrameInv
  <1>3. \A l \in At(d) : l \in Locations /\ l \notin At(level)
    BY DEF At, Depths, FrameInv
  <1>4. \A l \in At(d) : disk'[l] = disk[l]
    BY <1>3 DEF KeepsElsewhere
  <1>5. \A i \in DOMAIN frame[d].written : frame[d].written[i] \in At(d)
    BY <1>2 DEF CallInv
  <1>6. \A l \in frame[d].pending : l \in At(d)
    BY <1>2 DEF CallInv
  <1>7. /\ \A i \in DOMAIN frame[d].written : disk[frame[d].written[i]] \in Files
        /\ \A l \in frame[d].pending : disk[l] \in Files
    BY <1>1 DEF FilesInv
  <1> QED
    BY <1>4, <1>5, <1>6, <1>7

\* So what is listed is there when the running call returns ...
LEMMA FilesPop ==
    ASSUME FrameInv, FilesInv, level >= 0, Pop, KeepsElsewhere
    PROVE  FilesInv'
  BY PopKeeps, FilesBelow DEF FilesInv

\* ... and when it carries on, if what it is left with is there.
LEMMA FilesContinue ==
    ASSUME FrameInv, FilesInv, level >= 0, level <= MaxDepth,
           NEW call, call \in Calls, call.path = Top.path,
           call.written \in Seq(At(level)), call.pending \subseteq At(level),
           Continue(call), KeepsElsewhere,
           \A i \in DOMAIN call.written : disk'[call.written[i]] \in Files,
           \A l \in call.pending : disk'[l] \in Files
    PROVE  FilesInv'
  <1> SUFFICES ASSUME NEW d \in Depths, d <= level'
               PROVE  /\ \A i \in DOMAIN frame'[d].written : disk'[frame'[d].written[i]] \in Files
                      /\ \A l \in frame'[d].pending : disk'[l] \in Files
    BY DEF FilesInv
  <1>1. level' = level /\ frame'[level] = call
    BY ContinueKeeps
  <1>2. CASE d = level
    BY <1>1, <1>2
  <1>3. CASE d # level
    <2>1. d < level
      BY <1>1, <1>3 DEF Depths, FrameInv
    <2>2. frame'[d] = frame[d]
      BY <2>1, ContinueKeeps
    <2> QED
      BY <2>1, <2>2, FilesBelow
  <1> QED
    BY <1>2, <1>3

-----------------------------------------------------------------------------
(* Steps *)

\* A step that leaves the disk alone disturbs no file.
LEMMA DiskSame == ASSUME disk' = disk PROVE KeepsElsewhere /\ KeepsFiles
  BY DEF KeepsElsewhere, KeepsFiles

\* In any phase but the first, the running call is within the depth cap.
LEMMA WithinDepth ==
    ASSUME FrameInv, level >= 0, Top.phase # "enter"
    PROVE  level <= MaxDepth
  BY TopType DEF CallInv

\* A call that returns with its results in order.
LEMMA PopStep ==
    ASSUME Inv, level >= 0, Pop, KeepsElsewhere, DiskInv', BudgetInv', ResultInv'
    PROVE  Inv'
  BY PopKeeps, FilesPop DEF Inv

\* Calls that end before they have opened anything.
LEMMA EnterStep == ASSUME Inv, TooDeep \/ TurnBack \/ Open PROVE Inv'
  <1> USE DEF Inv
  <1>1. CASE TooDeep
    <2>1. level >= 0 /\ disk' = disk /\ Abandon("budget")
      BY <1>1 DEF TooDeep
    <2>2. BudgetInv'
      BY <1>1 DEF TooDeep, BudgetInv, Limits
    <2> QED
      BY <2>1, <2>2, DiskSame, AbandonKeeps, PopStep DEF DiskInv
  <1>2. CASE TurnBack
    <2>1. level >= 0 /\ disk' = disk /\ Pop
      BY <1>2 DEF TurnBack
    <2>2. BudgetInv' /\ ResultInv'
      BY <1>2 DEF TurnBack, BudgetInv, ResultInv, budgetVars, resultVars
    <2> QED
      BY <2>1, <2>2, DiskSame, PopStep DEF DiskInv
  <1>3. CASE Open
    <2>1. level >= 0 /\ disk' = disk
      BY <1>3 DEF Open
    <2>2. level <= MaxDepth
      BY <1>3, <2>1 DEF Open, DepthExceeded, FrameInv
    <2>3. BudgetInv' /\ ResultInv'
      BY <1>3 DEF Open, BudgetInv, ResultInv, budgetVars, resultVars
    <2> DEFINE call == [Top EXCEPT !.phase = "extract"]
    <2>4. Continue(call)
      BY <1>3 DEF Open
    <2>5. /\ call \in Calls /\ call.path = Top.path
          /\ call.written = Top.written /\ call.pending = Top.pending
      BY <2>1, TopType DEF Calls
    <2> HIDE DEF call
    <2>6. /\ call.written \in Seq(At(level)) /\ call.pending \subseteq At(level)
          /\ \A j \in DOMAIN call.written : disk'[call.written[j]] \in Files
          /\ \A l \in call.pending : disk'[l] \in Files
      BY <2>1, <2>5, TopType DEF CallInv, FilesInv, FrameInv
    <2> QED
      BY <2>1, <2>2, <2>3, <2>4, <2>5, <2>6, DiskSame, ContinueKeeps, FilesContinue DEF DiskInv
  <1> QED
    BY <1>1, <1>2, <1>3

\* Calls that fail, whatever they have written.
LEMMA FailStep ==
    ASSUME Inv, \/ Fail
                \/ \E size \in Sizes : EntryOverBudget(size)
                \/ \E n \in Names, g \in Sizes, size \in Sizes :
                      EntryBroken(n, g, size) \/ GunzipBroken(n, g, size)
    PROVE  Inv'
  <1> USE DEF Inv
  <1>0. level >= 0 /\ Top.phase # "enter" /\ level <= MaxDepth
    <2>1. level >= 0 /\ Top.phase = "extract"
      BY DEF Fail, EntryOverBudget, EntryBroken, GunzipBroken
    <2> QED
      BY <2>1, WithinDepth
  <1>1. CASE Fail
    <2>1. disk' = disk /\ Abandon("failed") /\ BudgetInv'
      BY <1>1 DEF Fail, BudgetInv, budgetVars
    <2> QED
      BY <1>0, <2>1, DiskSame, AbandonKeeps, PopStep DEF DiskInv
  <1>2. ASSUME NEW size \in Sizes, EntryOverBudget(size) PROVE Inv'
    <2>1. disk' = disk /\ Abandon("budget")
      BY <1>2 DEF EntryOverBudget
    <2>2. BudgetInv'
      BY <1>2 DEF EntryOverBudget, BudgetInv, Limits, LimitHit
    <2> QED
      BY <1>0, <2>1, <2>2, DiskSame, AbandonKeeps, PopStep DEF DiskInv
  <1>3. ASSUME NEW n \in Names, NEW g \in Sizes, NEW size \in Sizes, EntryBroken(n, g, size)
        PROVE  Inv'
    <2>1. Write(n, "plain", size) /\ Abandon("failed") /\ BudgetInv'
      BY <1>3, ReserveKeeps DEF EntryBroken
    <2> QED
      BY <1>0, <2>1, WriteKeeps, AbandonKeeps, PopStep
  <1>4. ASSUME NEW n \in Names, NEW g \in Sizes, NEW size \in Sizes, GunzipBroken(n, g, size)
        PROVE  Inv'
    <2>1. Write(n, "plain", size) /\ Abandon("failed")
      BY <1>4 DEF GunzipBroken
    <2>2. Estimate(g) \in Nat
      BY DEF Estimate, BytesRemaining, BudgetInv
    <2>3. BudgetInv'
      BY <1>4, <2>2, ReserveKeeps DEF GunzipBroken
    <2> QED
      BY <1>0, <2>1, <2>3, WriteKeeps, AbandonKeeps, PopStep
  <1> QED
    BY <1>1, <1>2, <1>3, <1>4

\* A call that carries on, on a disk where what it is left with lies.
LEMMA ContinueStep ==
    ASSUME Inv, level >= 0, level <= MaxDepth,
           NEW call, call \in Calls, call.path = Top.path,
           call.written \in Seq(At(level)), call.pending \subseteq At(level),
           Continue(call), KeepsElsewhere, DiskInv', BudgetInv', ResultInv',
           \A i \in DOMAIN call.written : disk'[call.written[i]] \in Files,
           \A l \in call.pending : disk'[l] \in Files
    PROVE  Inv'
  BY ContinueKeeps, FilesContinue DEF Inv

\* What the running call has in hand.
LEMMA TopHas ==
    ASSUME Inv, level >= 0
    PROVE  /\ Top.written \in Seq(At(level)) /\ Top.pending \subseteq At(level)
           /\ \A i \in DOMAIN Top.written : disk[Top.written[i]] \in Files
           /\ \A l \in Top.pending : disk[l] \in Files
  <1>1. level \in Depths /\ CallInv(level) /\ level <= level
    BY TopType DEF Inv, FrameInv
  <1> QED
    BY <1>1 DEF CallInv, Inv, FilesInv

\* A phase may follow another without anything else being changed.
LEMMA PhaseType ==
    ASSUME NEW top \in Calls, NEW phase \in {"enter", "extract", "collect", "children"}
    PROVE  LET call == [top EXCEPT !.phase = phase]
           IN  /\ call \in Calls /\ call.path = top.path
               /\ call.written = top.written /\ call.pending = top.pending
  BY DEF Calls

\* One location more is listed.
LEMMA ListType ==
    ASSUME NEW top \in Calls, NEW d, top.written \in Seq(At(d)), NEW l \in At(d),
           NEW file, \A i \in DOMAIN top.written : file[top.written[i]] \in Files,
           file[l] \in Files
    PROVE  LET written == Append(top.written, l)
           IN  /\ written \in Seq(At(d)) /\ written \in Seq(Locations)
               /\ \A i \in DOMAIN written : file[written[i]] \in Files
  <1>1. Append(top.written, l) \in Seq(At(d))
    OBVIOUS
  <1>2. At(d) \subseteq Locations
    BY DEF At
  <1>3. Append(top.written, l) \in Seq(Locations)
    BY <1>1, <1>2
  <1>4. ASSUME NEW i \in DOMAIN Append(top.written, l)
        PROVE  file[Append(top.written, l)[i]] \in Files
    BY <1>4
  <1> QED
    BY <1>1, <1>3, <1>4

\* Steps of a call that is reading an archive and goes on reading it.
LEMMA ReadStep ==
    ASSUME Inv, \/ RefuseEntry \/ EndEntries \/ ToolExits \/ EndCollect
    PROVE  Inv'
  <1>0. level >= 0 /\ Top.phase \in {"extract", "collect"} /\ level <= MaxDepth
    <2>1. level >= 0 /\ Top.phase \in {"extract", "collect"}
      BY DEF RefuseEntry, EndEntries, ToolExits, EndCollect
    <2> QED
      BY <2>1, WithinDepth DEF Inv
  <1>1. /\ disk' = disk /\ DiskInv' /\ BudgetInv' /\ KeepsElsewhere
    BY DiskSame DEF RefuseEntry, EndEntries, ToolExits, EndCollect, budgetVars, Inv, DiskInv, BudgetInv
  <1>2. Top \in Calls /\ Top.path \in Paths
    BY <1>0, TopType DEF Inv
  <1> DEFINE top == Top
  <1>3. top \in Calls /\ top = Top
    BY <1>2
  <1>4. CASE RefuseEntry
    <2>1. [path |-> Top.path, why |-> "refused"] \in Errors
      BY <1>2 DEF Errors
    <2>2. ResultInv' /\ UNCHANGED <<frame, level>>
      BY <1>4, <2>1 DEF RefuseEntry, Inv, ResultInv
    <2> QED
      BY <1>1, <2>2 DEF Inv, FrameInv, FilesInv, CallInv
  <1>5. CASE EndEntries \/ EndCollect
    <2>1. ResultInv'
      BY <1>2, <1>5 DEF EndEntries, EndCollect, Inv, ResultInv
    <2>2. Continue([top EXCEPT !.phase = "children"])
      BY <1>5 DEF EndEntries, EndCollect, Listing
    <2> DEFINE call == [top EXCEPT !.phase = "children"]
    <2>3. /\ call \in Calls /\ call.path = top.path
          /\ call.written = top.written /\ call.pending = top.pending
      BY <1>3, PhaseType
    <2> HIDE DEF call, top
    <2> QED
      BY <1>0, <1>1, <1>3, <2>1, <2>2, <2>3, TopHas, ContinueStep DEF call
  <1>6. CASE ToolExits
    <2>1. ResultInv'
      BY <1>6 DEF ToolExits, Inv, ResultInv, resultVars
    <2> DEFINE call == [top EXCEPT !.phase = "collect", !.pending = Found]
    <2>2. Continue(call)
      BY <1>6 DEF ToolExits
    <2>3. Destination[1] = level
      BY DEF Destination
    <2>4. Found \subseteq At(level) /\ Found \subseteq Locations
      BY <2>3 DEF Found, At
    <2>5. \A l \in Found : disk[l] \in Files
      BY DEF Found, Inv, DiskInv
    <2> HIDE DEF top
    <2>6. /\ call \in Calls /\ call.path = top.path
          /\ call.written = top.written /\ call.pending = Found
      BY <1>3, <2>4 DEF Calls
    <2> HIDE DEF call
    <2> QED
      BY <1>0, <1>1, <1>3, <2>1, <2>2, <2>4, <2>5, <2>6, TopHas, ContinueStep
  <1> QED
    BY <1>4, <1>5, <1>6

\* Charging what an external tool wrote, file by file.
LEMMA CollectStep ==
    ASSUME Inv, NEW l \in Locations, Collect(l) \/ CollectOverBudget(l)
    PROVE  Inv'
  <1>0. level >= 0 /\ Top.phase = "collect" /\ level <= MaxDepth
    <2>1. level >= 0 /\ Top.phase = "collect"
      BY DEF Collect, CollectOverBudget
    <2> QED
      BY <2>1, WithinDepth DEF Inv
  <1> DEFINE top == Top
  <1>1. /\ top = Top /\ top \in Calls
        /\ top.written \in Seq(At(level)) /\ top.pending \subseteq At(level)
        /\ \A i \in DOMAIN top.written : disk[top.written[i]] \in Files
        /\ \A k \in top.pending : disk[k] \in Files
    BY <1>0, TopType, TopHas DEF Inv
  <1>2. l \in top.pending
    BY DEF Collect, CollectOverBudget
  <1>3. l \in At(level) /\ disk[l] \in Files
    BY <1>1, <1>2
  <1>4. CASE Collect(l)
    <2>1. /\ disk' = disk /\ DiskInv' /\ ResultInv' /\ KeepsElsewhere
      BY <1>4, DiskSame DEF Collect, Inv, DiskInv, ResultInv, resultVars
    <2>2. disk[l].size \in Nat
      BY <1>3 DEF Files
    <2>3. BudgetInv'
      BY <1>4, <2>2, ReserveKeeps DEF Collect, Inv
    <2> DEFINE call == [top EXCEPT !.pending = @ \ {l}, !.written = Append(@, l)]
    <2>4. Continue(call)
      BY <1>4 DEF Collect
    <2> HIDE DEF top
    <2>5. /\ Append(top.written, l) \in Seq(At(level))
          /\ Append(top.written, l) \in Seq(Locations)
          /\ \A i \in DOMAIN Append(top.written, l) : disk[Append(top.written, l)[i]] \in Files
      BY <1>1, <1>3, ListType
    <2>6. /\ call \in Calls /\ call.path = top.path
          /\ call.written = Append(top.written, l) /\ call.pending = top.pending \ {l}
      BY <1>1, <2>5 DEF Calls
    <2> HIDE DEF call
    <2> QED
      BY <1>0, <1>1, <2>1, <2>3, <2>4, <2>5, <2>6, ContinueStep
  <1>5. CASE CollectOverBudget(l)
    <2>1. Abandon("budget") /\ disk' = [disk EXCEPT ![l] = NoFile]
      BY <1>5 DEF CollectOverBudget
    <2>2. BudgetInv'
      BY <1>5 DEF CollectOverBudget, Inv, BudgetInv, Limits, LimitHit
    <2>3. DiskInv' /\ KeepsElsewhere
      BY <1>3, <2>1 DEF Inv, DiskInv, KeepsElsewhere
    <2> QED
      BY <1>0, <2>1, <2>2, <2>3, AbandonKeeps, PopStep DEF Inv
  <1> QED
    BY <1>4, <1>5

\* Writing one more file of an archive.
LEMMA WriteStep ==
    ASSUME Inv, NEW n \in Names, NEW k \in Kinds, NEW g \in Sizes, NEW s \in Sizes,
           ToolWrites(n, k, s) \/ WriteEntry(n, k, g, s) \/ Gunzip(n, k, g, s)
    PROVE  Inv'
  <1>0. level >= 0 /\ Top.phase = "extract" /\ level <= MaxDepth
    <2>1. level >= 0 /\ Top.phase = "extract"
      BY DEF ToolWrites, WriteEntry, Gunzip
    <2> QED
      BY <2>1, WithinDepth DEF Inv
  <1> DEFINE top == Top
  <1>1. /\ top = Top /\ top \in Calls
        /\ top.written \in Seq(At(level)) /\ top.pending \subseteq At(level)
        /\ \A i \in DOMAIN top.written : disk[top.written[i]] \in Files
        /\ \A l \in top.pending : disk[l] \in Files
    BY <1>0, TopType, TopHas DEF Inv
  <1>2. Write(n, k, s)
    BY DEF ToolWrites, WriteEntry, Gunzip
  <1>3. /\ DiskInv' /\ KeepsElsewhere /\ KeepsFiles
        /\ Target(n) \in At(level)
        /\ disk'[Target(n)] \in Files
    BY <1>0, <1>2, WriteKeeps DEF Inv
  <1>4. At(level) \subseteq Locations
    BY DEF At
  <1>5. /\ \A i \in DOMAIN top.written : disk'[top.written[i]] \in Files
        /\ \A l \in top.pending : disk'[l] \in Files
    BY <1>1, <1>3, <1>4 DEF KeepsFiles
  <1>6. CASE ToolWrites(n, k, s)
    <2>1. UNCHANGED <<frame, level>> /\ BudgetInv' /\ ResultInv'
      BY <1>6 DEF ToolWrites, Inv, BudgetInv, ResultInv, budgetVars, resultVars
    <2>2. FrameInv'
      BY <2>1 DEF Inv, FrameInv, CallInv
    <2>3. FilesInv'
      <3> SUFFICES ASSUME NEW d \in Depths, d <= level
                   PROVE  /\ \A i \in DOMAIN frame[d].written : disk'[frame[d].written[i]] \in Files
                          /\ \A l \in frame[d].pending : disk'[l] \in Files
        BY <2>1 DEF FilesInv
      <3>1. CASE d = level
        BY <1>5, <3>1
      <3>2. CASE d < level
        BY <1>3, <3>2, FilesBelow DEF Inv
      <3> QED
        BY <3>1, <3>2 DEF Inv, FrameInv, Depths
    <2> QED
      BY <1>3, <2>1, <2>2, <2>3 DEF Inv
  <1>7. CASE WriteEntry(n, k, g, s)
    <2>1. BudgetInv' /\ ResultInv'
      BY <1>7, ReserveKeeps DEF WriteEntry, Inv, ResultInv, resultVars
    <2> DEFINE call == [top EXCEPT !.written = Append(@, Target(n))]
    <2>2. Continue(call)
      BY <1>7 DEF WriteEntry
    <2> HIDE DEF top
    <2>3. /\ Append(top.written, Target(n)) \in Seq(At(level))
          /\ Append(top.written, Target(n)) \in Seq(Locations)
          /\ \A i \in DOMAIN Append(top.written, Target(n)) :
                disk'[Append(top.written, Target(n))[i]] \in Files
      BY <1>1, <1>3, <1>5, ListType
    <2>4. /\ call \in Calls /\ call.path = top.path
          /\ call.written = Append(top.written, Target(n)) /\ call.pending = top.pending
      BY <1>1, <2>3 DEF Calls
    <2> HIDE DEF call
    <2> QED
      BY <1>0, <1>1, <1>3, <1>5, <2>1, <2>2, <2>3, <2>4, ContinueStep
  <1>8. CASE Gunzip(n, k, g, s)
    <2>1. Estimate(g) \in Nat
      BY DEF Estimate, BytesRemaining, Inv, BudgetInv
    <2>2. BudgetInv'
      BY <1>8, <2>1, ReserveKeeps DEF Gunzip, Inv
    <2>3. ResultInv'
      BY <1>0, <1>8, TopType DEF Gunzip, Inv, ResultInv
    <2> DEFINE call == [top EXCEPT !.phase = "children", !.written = <<Target(n)>>]
    <2>4. Continue(call)
      BY <1>8 DEF Gunzip, Listing
    <2> HIDE DEF top
    <2>5. /\ <<Target(n)>> \in Seq(At(level)) /\ <<Target(n)>> \in Seq(Locations)
          /\ \A i \in DOMAIN <<Target(n)>> : disk'[<<Target(n)>>[i]] \in Files
      BY <1>3, <1>4
    <2>6. /\ call \in Calls /\ call.path = top.path
          /\ call.written = <<Target(n)>> /\ call.pending = top.pending
      BY <1>1, <2>5 DEF Calls
    <2> HIDE DEF call
    <2> QED
      BY <1>0, <1>1, <1>3, <1>5, <2>2, <2>3, <2>4, <2>5, <2>6, ContinueStep
  <1> QED
    BY <1>6, <1>7, <1>8

\* The loop over what was written: a node for each file, a call for each container.
LEMMA ChildStep == ASSUME Inv, NextChild \/ Return PROVE Inv'
  <1>0. level >= 0 /\ Top.phase = "children" /\ level <= MaxDepth
    <2>1. level >= 0 /\ Top.phase = "children"
      BY DEF NextChild, Return
    <2> QED
      BY <2>1, WithinDepth DEF Inv
  <1> DEFINE top == Top
  <1>1. /\ top = Top /\ top \in Calls /\ top.path \in Paths
        /\ Len(top.path) = level + 1 /\ level \in Depths
        /\ top.written \in Seq(At(level)) /\ top.pending \subseteq At(level)
        /\ \A i \in DOMAIN top.written : disk[top.written[i]] \in Files
        /\ \A l \in top.pending : disk[l] \in Files
    BY <1>0, TopType, TopHas DEF Inv, CallInv
  <1>2. disk' = disk /\ DiskInv' /\ BudgetInv' /\ KeepsElsewhere
    BY DiskSame DEF NextChild, Return, Inv, DiskInv, BudgetInv, budgetVars
  <1>3. CASE Return
    <2>1. Pop /\ ResultInv'
      BY <1>3 DEF Return, Inv, ResultInv, resultVars
    <2> QED
      BY <1>0, <1>2, <2>1, PopStep
  <1>4. CASE NextChild
    <2> DEFINE l == Head(top.written)
               path == ChildPath(top.path, l.name)
               rest == [top EXCEPT !.written = Tail(@)]
               node == [path |-> path, at |-> l, kind |-> disk[l].kind, size |-> disk[l].size]
               child == Call(path, disk[l].kind)
    <2>1. /\ top.written # <<>>
          /\ nodes' = Append(nodes, node)
          /\ IF disk[l].kind \in Containers
             THEN /\ frame' = [frame EXCEPT ![level] = rest, ![level + 1] = child]
                  /\ level' = level + 1
             ELSE Continue(rest)
          /\ errors' = errors /\ opened' = opened
      BY <1>4 DEF NextChild
    <2> HIDE DEF top
    <2>2. /\ l \in At(level) /\ disk[l] \in Files
          /\ Tail(top.written) \in Seq(At(level))
          /\ \A i \in DOMAIN Tail(top.written) : disk[Tail(top.written)[i]] \in Files
      BY <1>1, <2>1, SMTT(20)
    <2> HIDE DEF l
    <2>3. l \in Locations /\ l.name \in Names /\ At(level) \subseteq Locations
      BY <2>2 DEF At, Locations
    <2>4. path \in Paths /\ Len(path) = level + 2
      <3>1. path \in Paths /\ Len(path) = Len(top.path) + 1
        BY <1>1, <2>3, ChildType
      <3> QED
        BY <1>0, <1>1, <3>1 DEF Depths
    <2>5. Tail(top.written) \in Seq(Locations)
      BY <2>2, <2>3
    <2>6. /\ rest \in Calls /\ rest.path = top.path /\ rest.phase = top.phase
          /\ rest.written = Tail(top.written) /\ rest.pending = top.pending
      BY <1>1, <2>5 DEF Calls
    <2>7. disk[l].kind \in Kinds /\ disk[l].size \in Sizes
      BY <2>2 DEF Files
    <2>8. node \in Nodes /\ node.path = path
      BY <2>3, <2>4, <2>7 DEF Nodes
    <2>9. child \in Calls /\ child.path = path /\ child.written = <<>> /\ child.pending = {}
      BY <2>4, <2>7 DEF Calls, Call
    <2>10. child.phase = "enter"
      BY DEF Call
    <2> HIDE DEF rest, node, child, path
    <2>11. ResultInv'
      <3>1. nodes' \in Seq(Nodes) /\ nodes \in Seq(Nodes)
        BY <2>1, <2>8 DEF Inv, ResultInv
      <3>2. ASSUME NEW i \in DOMAIN nodes' PROVE Len(nodes'[i].path) <= MaxDepth + 2
        <4>1. CASE i \in DOMAIN nodes
          BY <2>1, <3>1, <4>1 DEF Inv, ResultInv
        <4>2. CASE i = Len(nodes) + 1
          BY <1>0, <2>1, <2>4, <2>8, <3>1, <4>2 DEF Inv, FrameInv
        <4> QED
          BY <2>1, <3>1, <3>2, <4>1, <4>2
      <3> QED
        BY <2>1, <3>1, <3>2 DEF Inv, ResultInv
    <2>12. CASE disk[l].kind \in Containers
      <3>1. /\ level' = level + 1
            /\ frame' = [frame EXCEPT ![level] = rest, ![level + 1] = child]
        BY <2>1, <2>12
      <3>2. level + 1 \in Depths /\ level \in Int
        BY <1>0, <1>1 DEF Depths
      <3>3. frame = [d \in Depths |-> frame[d]]
        BY DEF Inv, FrameInv
      <3>4. \A d \in Depths :
               frame'[d] = IF d = level + 1 THEN child ELSE IF d = level THEN rest ELSE frame[d]
        BY <3>1, <3>2, <3>3
      <3>5. frame' = [d \in Depths |-> frame'[d]]
        BY <3>1, <3>3
      <3>6. ASSUME NEW d \in Depths, d <= level' PROVE CallInv(d)'
        <4>1. CASE d = level + 1
          <5>1. child.written \in Seq(At(d)) /\ child.pending \subseteq At(d)
            BY <2>9
          <5>2. frame'[d] = child /\ Len(child.path) = d + 1 /\ d = level'
            <6>1. frame'[d] = child
              BY <3>4, <4>1
            <6>2. Len(child.path) = level + 2
              BY <2>4, <2>9
            <6>3. d + 1 = level + 2 /\ d = level'
              BY <3>1, <3>2, <4>1
            <6> QED
              BY <6>1, <6>2, <6>3
          <5>3. ~(d < level')
            BY <3>2, <4>1, <5>2
          <5> QED
            BY <2>9, <2>10, <5>1, <5>2, <5>3 DEF CallInv
        <4>2. CASE d = level
          <5>1. frame'[d] = rest /\ rest.phase = "children"
            BY <1>0, <1>1, <2>6, <3>2, <3>4, <4>2
          <5>2. rest.written \in Seq(At(d)) /\ rest.pending \subseteq At(d) /\ Len(rest.path) = d + 1
            BY <1>1, <2>2, <2>6, <4>2
          <5> QED
            BY <1>0, <2>6, <4>2, <5>1, <5>2 DEF CallInv
        <4>3. CASE d < level
          <5>1. frame'[d] = frame[d] /\ d <= level /\ frame[d].phase = "children"
            BY <3>2, <3>4, <4>3 DEF Inv, FrameInv, CallInv, Depths
          <5>2. CallInv(d)
            BY <5>1 DEF Inv, FrameInv
          <5> QED
            BY <5>1, <5>2 DEF CallInv
        <4> QED
          BY <3>1, <3>2, <3>6, <4>1, <4>2, <4>3 DEF Depths
      <3>7. ASSUME NEW d \in Depths, ~(d <= level') PROVE frame'[d] = NoCall
        BY <3>1, <3>2, <3>4, <3>7 DEF Inv, FrameInv, Depths
      <3>8. level' \in -1..(MaxDepth + 1)
        BY <3>1, <3>2 DEF Depths
      <3>9. FrameInv'
        BY <3>5, <3>6, <3>7, <3>8 DEF FrameInv
      <3>10. FilesInv'
        <4> SUFFICES ASSUME NEW d \in Depths, d <= level'
                     PROVE  /\ \A i \in DOMAIN frame'[d].written : disk[frame'[d].written[i]] \in Files
                            /\ \A k \in frame'[d].pending : disk[k] \in Files
          BY <1>2 DEF FilesInv
        <4>1. CASE d = level + 1
          BY <2>9, <3>4, <4>1
        <4>2. CASE d = level
          <5>1. frame'[d] = rest
            BY <3>2, <3>4, <4>2
          <5> QED
            BY <1>1, <2>2, <2>6, <5>1
        <4>3. CASE d < level
          BY <3>2, <3>4, <4>3 DEF Inv, FilesInv, Depths
        <4>4. d = level + 1 \/ d = level \/ d < level
          BY <3>1, <3>2 DEF Depths
        <4> QED
          BY <4>1, <4>2, <4>3, <4>4
      <3> QED
        BY <1>2, <2>11, <3>9, <3>10 DEF Inv
    <2>13. CASE disk[l].kind \notin Containers
      <3>1. Continue(rest)
        BY <2>1, <2>13
      <3> QED
        BY <1>0, <1>1, <1>2, <2>2, <2>6, <2>11, <3>1, ContinueStep
    <2> QED
      BY <2>12, <2>13
  <1> QED
    BY <1>3, <1>4

-----------------------------------------------------------------------------
(* The theorems *)

\* One call on the artifact, nothing written, nothing charged.
LEMMA InitInv == Init => Inv
  <1> SUFFICES ASSUME Init PROVE Inv
    OBVIOUS
  <1>1. PICK kind \in Kinds :
           frame = [d \in 0..(MaxDepth + 1) |-> IF d = 0 THEN Call(<<RootName>>, kind) ELSE NoCall]
    BY DEF Init
  <1>2. Call(<<RootName>>, kind) \in Calls
    BY DEF Call, Calls, Paths
  <1>3. FrameInv
    <2>1. level = 0 /\ frame = [d \in Depths |-> frame[d]] /\ 0 \in Depths
      BY <1>1 DEF Init, Depths
    <2>2. CallInv(0)
      <3>1. frame[0] = Call(<<RootName>>, kind)
        BY <1>1
      <3>2. <<>> \in Seq(At(0)) /\ Len(<<RootName>>) = 1
        OBVIOUS
      <3> QED
        BY <1>2, <2>1, <3>1, <3>2 DEF CallInv, Call
    <2>3. \A d \in Depths : IF d <= 0 THEN CallInv(d) ELSE frame[d] = NoCall
      BY <1>1, <2>2 DEF Depths
    <2> QED
      BY <2>1, <2>3 DEF FrameInv
  <1>4. FilesInv
    BY <1>1 DEF Init, FilesInv, Depths, Call
  <1>5. BudgetInv /\ DiskInv /\ ResultInv
    BY DEF Init, BudgetInv, DiskInv, ResultInv
  <1> QED
    BY <1>3, <1>4, <1>5 DEF Inv

\* The inductive invariant, for any caps and any archives.
THEOREM Invariance == Spec => []Inv
  <1>1. Inv /\ [Next]_vars => Inv'
    <2> SUFFICES ASSUME Inv, [Next]_vars PROVE Inv'
      OBVIOUS
    <2>1. CASE TooDeep \/ TurnBack \/ Open
      BY <2>1, EnterStep
    <2>2. CASE Fail
      BY <2>2, FailStep
    <2>3. CASE RefuseEntry \/ EndEntries \/ ToolExits \/ EndCollect
      BY <2>3, ReadStep
    <2>4. CASE NextChild \/ Return
      BY <2>4, ChildStep
    <2>5. CASE Finished \/ UNCHANGED vars
      <3>1. UNCHANGED vars
        BY <2>5 DEF Finished
      <3> QED
        BY <3>1 DEF vars, budgetVars, resultVars, Inv, FrameInv, CallInv, FilesInv, BudgetInv,
                    DiskInv, ResultInv
    <2>6. ASSUME NEW l \in Locations, Collect(l) \/ CollectOverBudget(l) PROVE Inv'
      BY <2>6, CollectStep
    <2>7. ASSUME NEW size \in Sizes, EntryOverBudget(size) PROVE Inv'
      BY <2>7, FailStep
    <2>8. ASSUME NEW n \in Names, NEW k \in Kinds, NEW s \in Sizes, ToolWrites(n, k, s) PROVE Inv'
      BY <2>8, WriteStep
    <2>9. ASSUME NEW n \in Names, NEW k \in Kinds, NEW g \in Sizes, NEW s \in Sizes,
                 WriteEntry(n, k, g, s) \/ Gunzip(n, k, g, s)
          PROVE  Inv'
      BY <2>9, WriteStep
    <2>10. ASSUME NEW n \in Names, NEW g \in Sizes, NEW s \in Sizes,
                  EntryBroken(n, g, s) \/ GunzipBroken(n, g, s)
           PROVE  Inv'
      BY <2>10, FailStep
    <2> QED
      BY <2>1, <2>2, <2>3, <2>4, <2>5, <2>6, <2>7, <2>8, <2>9, <2>10 DEF Next
  <1>2. QED
    BY InitInv, <1>1, PTL DEF Spec

\* Every variable keeps its type: one call per depth, each on a path of it.
THEOREM TypeCorrect == Spec => []TypeOK
  <1>1. Inv => TypeOK
    BY DEF Inv, FrameInv, CallInv, BudgetInv, DiskInv, ResultInv, TypeOK, Depths
  <1>2. QED
    BY Invariance, <1>1, PTL

\* The caps of the budget hold over the whole tree, whatever the archives hold.
THEOREM Caps == Spec => []CapsHold
  <1>1. Inv => CapsHold
    BY DEF Inv, BudgetInv, ResultInv, CapsHold
  <1>2. QED
    BY Invariance, <1>1, PTL

\* What a call has written and not yet looked at is not disturbed by the calls
\* below it, although the output directories are flat and named by file names.
THEOREM Siblings == Spec => SiblingsUntouched
  <1>1. ASSUME Inv, [Next]_vars
        PROVE  [\A d \in DOMAIN frame : frame[d].phase = "children" =>
                   \A i \in DOMAIN frame[d].written :
                       disk'[frame[d].written[i]] = disk[frame[d].written[i]]]_vars
    <2>1. disk' = disk \/ (level >= 0 /\ Top.phase \in {"extract", "collect"} /\ KeepsElsewhere)
      <3>1. ASSUME NEW l \in Locations, CollectOverBudget(l)
            PROVE  level >= 0 /\ Top.phase = "collect" /\ KeepsElsewhere
        <4>1. level >= 0 /\ Top.phase = "collect" /\ l \in Top.pending
          BY <3>1 DEF CollectOverBudget
        <4>2. l \in At(level)
          BY <1>1, <4>1, TopHas
        <4>3. KeepsElsewhere
          BY <1>1, <3>1, <4>2 DEF CollectOverBudget, KeepsElsewhere, Inv, DiskInv
        <4> QED
          BY <4>1, <4>3
      <3>2. ASSUME NEW n \in Names, NEW k \in Kinds, NEW s \in Sizes, Write(n, k, s),
                   level >= 0, Top.phase = "extract"
            PROVE  level >= 0 /\ Top.phase = "extract" /\ KeepsElsewhere
        BY <1>1, <3>2, WithinDepth, WriteKeeps DEF Inv
      <3>3. ASSUME NEW n \in Names, NEW k \in Kinds, NEW g \in Sizes, NEW s \in Sizes,
                   \/ ToolWrites(n, k, s) \/ WriteEntry(n, k, g, s) \/ Gunzip(n, k, g, s)
                   \/ EntryBroken(n, g, s) \/ GunzipBroken(n, g, s)
            PROVE  level >= 0 /\ Top.phase = "extract" /\ KeepsElsewhere
        BY <3>2, <3>3 DEF ToolWrites, WriteEntry, Gunzip, EntryBroken, GunzipBroken
      <3> QED
        BY <1>1, <3>1, <3>3
        DEF Next, vars, TooDeep, TurnBack, Open, Fail, RefuseEntry, EndEntries, ToolExits,
            EndCollect, NextChild, Return, Finished, Collect, EntryOverBudget
    <2>2. CASE disk' = disk
      BY <2>2
    <2>3. CASE level >= 0 /\ Top.phase \in {"extract", "collect"} /\ KeepsElsewhere
      <3> SUFFICES ASSUME NEW d \in DOMAIN frame, frame[d].phase = "children",
                          NEW i \in DOMAIN frame[d].written
                   PROVE  disk'[frame[d].written[i]] = disk[frame[d].written[i]]
        OBVIOUS
      <3>1. d \in Depths /\ d # level /\ frame[d] # NoCall
        BY <1>1, <2>3 DEF Inv, FrameInv, NoCall
      <3>2. CallInv(d)
        BY <1>1, <3>1 DEF Inv, FrameInv
      <3>3. frame[d].written[i] \in At(d)
        BY <3>2 DEF CallInv
      <3>4. frame[d].written[i] \in Locations /\ frame[d].written[i] \notin At(level)
        BY <3>1, <3>3 DEF At
      <3> QED
        BY <2>3, <3>4 DEF KeepsElsewhere
    <2> QED
      BY <2>1, <2>2, <2>3
  <1>2. QED
    BY Invariance, <1>1, PTL DEF Spec, SiblingsUntouched

-----------------------------------------------------------------------------
(* What the tree lacks *)

\* What is not listed yet is in the hands of a call that has not returned: it
\* is on its list, to be collected, or in the directory of a tool that runs.
InHand(d) ==
    {frame[d].written[i] : i \in DOMAIN frame[d].written} \cup frame[d].pending
    \cup {l \in Locations : /\ frame[d].phase = "extract" /\ frame[d].kind = "tool"
                            /\ l.dir = <<d, Slug(frame[d].path)>>}
Awaited(l) == \E d \in Depths : d <= level /\ l \in InHand(d) /\ Parent(disk[l].path) = frame[d].path

LeftInv ==
    \A l \in Locations : disk[l] # NoFile /\ disk[l].size >= 1
        => Listed(l) \/ Explained(Parent(disk[l].path)) \/ Awaited(l)

\* A call has nothing in hand in the phases that do not look at it.
Tidy(call) ==
    /\ call.phase # "collect" => call.pending = {}
    /\ call.phase = "enter" => call.written = <<>>
    /\ call.phase = "extract" /\ call.kind # "entries" => call.written = <<>>
TidyInv == \A d \in Depths : d <= level => Tidy(frame[d])

\* A container that has not been opened is being opened, or something is known
\* that kept it closed.
Opening == level >= 0 /\ Top.phase \in {"enter", "extract", "collect"} /\ Top.kind \in Containers
OpenInv ==
    \A i \in DOMAIN nodes :
        nodes[i].kind \in Containers /\ nodes[i].path \notin opened
            => Explained(nodes[i].path) \/ IsExhausted \/ (Opening /\ Top.path = nodes[i].path)

\* The container of a file is found by its path.
LEMMA ParentOfChild ==
    ASSUME NEW p \in Paths, NEW n \in Names
    PROVE  Parent(ChildPath(p, n)) = p
  <1>1. p \in Seq(Names) /\ Len(p) \in Nat
    BY DEF Paths
  <1>2. ChildPath(p, n) \in Seq(Names) /\ Len(ChildPath(p, n)) = Len(p) + 1
    BY <1>1 DEF ChildPath
  <1>3. \A i \in 1..Len(p) : ChildPath(p, n)[i] = p[i]
    BY <1>1 DEF ChildPath
  <1> HIDE DEF ChildPath
  <1>4. Parent(ChildPath(p, n)) = SubSeq(ChildPath(p, n), 1, Len(p))
    BY <1>1, <1>2 DEF Parent
  <1>5. /\ SubSeq(ChildPath(p, n), 1, Len(p)) \in Seq(Names)
        /\ Len(SubSeq(ChildPath(p, n), 1, Len(p))) = Len(p)
        /\ \A i \in 1..Len(p) : SubSeq(ChildPath(p, n), 1, Len(p))[i] = p[i]
    BY <1>1, <1>2, <1>3
  <1> QED
    BY <1>1, <1>4, <1>5

\* What is on record stays on record.
RecordGrows ==
    /\ \A p : Explained(p) => Explained(p)'
    /\ \A l : Listed(l) => Listed(l)'
    /\ opened \subseteq opened'
    /\ IsExhausted => IsExhausted'

LEMMA Grows == ASSUME Inv, [Next]_vars PROVE RecordGrows
  <1> USE DEF Inv
  <1>1. /\ errors \subseteq errors' /\ exceeded \subseteq exceeded' /\ opened \subseteq opened'
        /\ nodes' = nodes \/ \E x : nodes' = Append(nodes, x)
    BY DEF Next, vars, budgetVars, resultVars, TooDeep, TurnBack, Open, Fail, RefuseEntry,
           EndEntries, ToolExits, EndCollect, NextChild, Return, Finished, Collect,
           CollectOverBudget, EntryOverBudget, ToolWrites, WriteEntry, Gunzip, EntryBroken,
           GunzipBroken, Abandon, Reserve
  <1>2. \A g \in Sizes : Estimate(g) \in Nat
    BY DEF Estimate, BytesRemaining, BudgetInv
  <1>3. \/ UNCHANGED <<files_written, bytes_written>>
        \/ \E size \in Nat : Reserve(size)
    <2>1. ASSUME NEW l \in Locations, Collect(l) PROVE \E size \in Nat : Reserve(size)
      <3>1. level >= 0 /\ l \in Top.pending
        BY <2>1 DEF Collect
      <3>2. disk[l].size \in Nat
        BY <3>1, TopHas DEF Files
      <3> QED
        BY <2>1, <3>2 DEF Collect
    <2> QED
      BY <1>2, <2>1
      DEF Next, vars, budgetVars, resultVars, TooDeep, TurnBack, Open, Fail, RefuseEntry,
          EndEntries, ToolExits, EndCollect, NextChild, Return, Finished,
          CollectOverBudget, EntryOverBudget, ToolWrites, WriteEntry, Gunzip, EntryBroken,
          GunzipBroken
  <1>4. files_written' >= files_written /\ bytes_written' >= bytes_written
        /\ files_written' \in Nat /\ bytes_written' \in Nat
    BY <1>3 DEF Reserve, BudgetInv
  <1>5. IsExhausted => IsExhausted'
    BY <1>4 DEF IsExhausted, BudgetInv
  <1>6. \A p : Explained(p) => Explained(p)'
    BY <1>1 DEF Explained
  <1>7. \A l : Listed(l) => Listed(l)'
    <2>1. nodes \in Seq(Nodes)
      BY DEF ResultInv
    <2>2. \A i \in DOMAIN nodes : i \in DOMAIN nodes' /\ nodes'[i] = nodes[i]
      BY <1>1, <2>1
    <2> QED
      BY <2>2 DEF Listed
  <1> QED
    BY <1>1, <1>5, <1>6, <1>7 DEF RecordGrows

\* An archive that is abandoned is explained.
LEMMA AbandonExplains ==
    ASSUME NEW why \in {"failed", "budget"}, Abandon(why), why = "budget" => exceeded' # {}
    PROVE  /\ Pop
           /\ \A p : p = Top.path => Explained(p)'
  <1> DEFINE e == [path |-> Top.path, why |-> why]
  <1>1. e.path = Top.path /\ e.why = why /\ why # "refused" /\ e \in errors' /\ Pop
    BY DEF Abandon
  <1> HIDE DEF e
  <1> QED
    BY <1>1 DEF Explained

\* It is the same with every way an archive is abandoned in.
LEMMA Abandoned ==
    ASSUME Inv, \/ TooDeep \/ Fail
                \/ \E l \in Locations : CollectOverBudget(l)
                \/ \E size \in Sizes : EntryOverBudget(size)
                \/ \E n \in Names, g \in Sizes, size \in Sizes :
                      EntryBroken(n, g, size) \/ GunzipBroken(n, g, size)
    PROVE  /\ level >= 0 /\ Pop /\ UNCHANGED nodes
           /\ \A p : p = Top.path => Explained(p)'
  <1>1. PICK why \in {"failed", "budget"} : Abandon(why) /\ (why = "budget" => exceeded' # {})
    BY DEF TooDeep, Fail, CollectOverBudget, EntryOverBudget, EntryBroken, GunzipBroken
  <1>2. level >= 0
    BY DEF TooDeep, Fail, CollectOverBudget, EntryOverBudget, EntryBroken, GunzipBroken
  <1> QED
    BY <1>1, <1>2, AbandonExplains DEF Abandon

-----------------------------------------------------------------------------
(* Containers that were not opened *)

\* What kept a container closed, or keeps it from being opened yet, does so
\* after every step.
LEMMA OpenStep == Inv /\ OpenInv /\ [Next]_vars => OpenInv'
  <1> SUFFICES ASSUME Inv, OpenInv, [Next]_vars PROVE OpenInv'
    OBVIOUS
  <1>g. RecordGrows
    BY Grows
  <1>t. level >= 0 => Top \in Calls /\ level \in Depths /\ frame = [d \in Depths |-> frame[d]]
    BY TopType DEF Inv, FrameInv
  <1>n. nodes \in Seq(Nodes)
    BY DEF Inv, ResultInv
  <1>k. ASSUME UNCHANGED nodes,
               \A p \in Paths : Opening /\ Top.path = p /\ p \notin opened'
                   => Explained(p)' \/ IsExhausted' \/ (Opening' /\ (Top.path)' = p)
        PROVE  OpenInv'
    <2> SUFFICES ASSUME NEW i \in DOMAIN nodes', nodes'[i].kind \in Containers,
                        nodes'[i].path \notin opened'
                 PROVE  \/ (Explained(nodes[i].path))' \/ IsExhausted'
                        \/ (Opening' /\ (Top.path)' = nodes'[i].path)
      BY DEF OpenInv
    <2>1. i \in DOMAIN nodes /\ nodes'[i] = nodes[i] /\ nodes[i].path \in Paths
      <3>1. i \in DOMAIN nodes /\ nodes' = nodes
        BY <1>k
      <3>2. nodes[i] \in Nodes
        BY <1>n, <3>1
      <3> QED
        BY <3>1, <3>2 DEF Nodes
    <2>2. Explained(nodes[i].path) \/ IsExhausted \/ (Opening /\ Top.path = nodes[i].path)
      BY <1>g, <2>1 DEF OpenInv, RecordGrows
    <2> DEFINE p == nodes[i].path
    <2>3. nodes'[i].path = p /\ p \in Paths
      BY <2>1
    <2>4. Explained(p) => Explained(p)'
      BY <1>g, <2>1 DEF RecordGrows, Explained
    <2> QED
      BY <1>g, <1>k, <2>1, <2>2, <2>4 DEF RecordGrows, Explained
  <1>1. CASE \/ TooDeep \/ Fail
             \/ \E l \in Locations : CollectOverBudget(l)
             \/ \E size \in Sizes : EntryOverBudget(size)
             \/ \E n \in Names, g \in Sizes, size \in Sizes :
                   EntryBroken(n, g, size) \/ GunzipBroken(n, g, size)
    BY <1>1, <1>k, Abandoned
  <1>2. CASE TurnBack
    BY <1>2, <1>g, <1>k DEF TurnBack, Opening, RecordGrows, resultVars
  <1>3. CASE Return
    BY <1>3, <1>k DEF Return, Opening, resultVars
  <1>4. CASE EndEntries \/ EndCollect \/ \E n \in Names, k \in Kinds, g \in Sizes, s \in Sizes : Gunzip(n, k, g, s)
    <2>1. opened' = opened \cup {Top.path} /\ UNCHANGED nodes
      BY <1>4 DEF EndEntries, EndCollect, Gunzip
    <2> QED
      BY <1>k, <2>1
  <1>c. ASSUME NEW call, Continue(call), level >= 0, UNCHANGED nodes,
               call.path = Top.path, call.kind = Top.kind,
               call.phase \in {"enter", "extract", "collect"}
        PROVE  OpenInv'
    <2>1. level' = level /\ frame'[level] = call
      BY <1>c, <1>t DEF Continue
    <2> QED
      BY <1>c, <1>k, <2>1 DEF Opening
  <1>5. CASE Open
    <2>1. Continue([Top EXCEPT !.phase = "extract"]) /\ level >= 0 /\ UNCHANGED nodes
      BY <1>5 DEF Open, resultVars
    <2> QED
      BY <1>c, <1>t, <2>1 DEF Calls
  <1>6. CASE ToolExits
    <2>1. /\ Continue([Top EXCEPT !.phase = "collect", !.pending = Found])
          /\ level >= 0 /\ UNCHANGED nodes
      BY <1>6 DEF ToolExits, resultVars
    <2> QED
      BY <1>c, <1>t, <2>1 DEF Calls
  <1>7. ASSUME NEW l \in Locations, Collect(l) PROVE OpenInv'
    <2>1. /\ Continue([Top EXCEPT !.pending = @ \ {l}, !.written = Append(@, l)])
          /\ level >= 0 /\ Top.phase = "collect" /\ UNCHANGED nodes
      BY <1>7 DEF Collect, resultVars
    <2> QED
      BY <1>c, <1>t, <2>1 DEF Calls
  <1>8. ASSUME NEW n \in Names, NEW k \in Kinds, NEW g \in Sizes, NEW s \in Sizes,
               WriteEntry(n, k, g, s)
        PROVE  OpenInv'
    <2>1. /\ Continue([Top EXCEPT !.written = Append(@, Target(n))])
          /\ level >= 0 /\ Top.phase = "extract" /\ UNCHANGED nodes
      BY <1>8 DEF WriteEntry, resultVars
    <2> QED
      BY <1>c, <1>t, <2>1 DEF Calls
  <1>9. CASE \/ RefuseEntry \/ Finished \/ UNCHANGED vars
             \/ \E n \in Names, k \in Kinds, s \in Sizes : ToolWrites(n, k, s)
    <2>1. UNCHANGED <<frame, level, nodes, opened>>
      BY <1>9 DEF RefuseEntry, Finished, vars, resultVars, ToolWrites
    <2> QED
      BY <1>k, <2>1 DEF Opening
  <1>10. CASE NextChild
    <2>0. level >= 0 /\ Top.phase = "children" /\ Top.written # <<>>
      BY <1>10 DEF NextChild
    <2> DEFINE l == Head(Top.written)
               path == ChildPath(Top.path, l.name)
               rest == [Top EXCEPT !.written = Tail(@)]
               node == [path |-> path, at |-> l, kind |-> disk[l].kind, size |-> disk[l].size]
               child == Call(path, disk[l].kind)
    <2>1. /\ nodes' = Append(nodes, node) /\ opened' = opened
          /\ disk[l].kind \in Containers =>
                /\ frame' = [frame EXCEPT ![level] = rest, ![level + 1] = child]
                /\ level' = level + 1
      BY <1>10 DEF NextChild
    <2>2. /\ node.path = path /\ node.kind = disk[l].kind
          /\ child.path = path /\ child.kind = disk[l].kind /\ child.phase = "enter"
      BY DEF Call
    <2>3. level + 1 \in Depths /\ level + 1 # level
      BY <2>0, WithinDepth DEF Inv, FrameInv, Depths
    <2> HIDE DEF l, path, rest, node, child
    <2> SUFFICES ASSUME NEW i \in DOMAIN nodes', nodes'[i].kind \in Containers,
                        nodes'[i].path \notin opened'
                 PROVE  \/ (Explained(nodes[i].path))' \/ IsExhausted'
                        \/ (Opening' /\ (Top.path)' = nodes'[i].path)
      BY DEF OpenInv
    <2>4. CASE i \in DOMAIN nodes
      <3>1. nodes'[i] = nodes[i]
        BY <1>n, <2>1, <2>4
      <3>2. Explained(nodes[i].path) \/ IsExhausted
        BY <2>0, <2>1, <2>4, <3>1 DEF OpenInv, Opening
      <3> QED
        BY <1>g, <3>1, <3>2 DEF RecordGrows, Explained
    <2>5. CASE i = Len(nodes) + 1
      <3>1. nodes'[i] = node
        BY <1>n, <2>1, <2>5
      <3>2. level' = level + 1 /\ frame'[level + 1] = child
        BY <1>t, <2>0, <2>1, <2>2, <2>3, <3>1
      <3>3. level' >= 0 /\ frame'[level'] = child
        BY <2>0, <2>3, <3>2 DEF Depths
      <3>4. child.kind \in Containers /\ child.path = nodes'[i].path
        BY <2>2, <3>1
      <3> QED
        BY <2>2, <3>3, <3>4 DEF Opening
    <2> QED
      BY <1>n, <2>1, <2>4, <2>5
  <1> QED
    BY <1>1, <1>2, <1>3, <1>4, <1>5, <1>6, <1>7, <1>8, <1>9, <1>10 DEF Next

\* Every container that the manifest lists was opened, or an error says why it
\* was not, or a cap had been used up.
THEOREM UnopenedContainers == Spec => []UnopenedIsExplained
  <1>1. Init => OpenInv
    BY DEF Init, OpenInv
  <1>2. OpenInv => UnopenedIsExplained
    BY DEF OpenInv, Opening, UnopenedIsExplained, Ended
  <1> QED
    BY Invariance, OpenStep, <1>1, <1>2, PTL DEF Spec

-----------------------------------------------------------------------------
(* Files that are not listed *)

\* The running call carries on: as it says, and the calls below it as they were.
LEMMA Continues ==
    ASSUME Inv, level >= 0, NEW call, Continue(call)
    PROVE  /\ level' = level /\ frame'[level] = call
           /\ \A d \in Depths : d # level => frame'[d] = frame[d]
  <1>1. level \in Depths /\ frame = [d \in Depths |-> frame[d]]
    BY TopType DEF Inv, FrameInv
  <1> QED
    BY <1>1 DEF Continue

\* A call that carries on tidily keeps the stack tidy.
LEMMA TidyContinues ==
    ASSUME Inv, TidyInv, level >= 0, NEW call, Continue(call), Tidy(call)
    PROVE  TidyInv'
  <1> SUFFICES ASSUME NEW d \in Depths, d <= level' PROVE Tidy(frame'[d])
    BY DEF TidyInv, Tidy
  <1> QED
    BY Continues DEF TidyInv

\* Nothing is in hand that no phase of the call looks at.
LEMMA TidyStep == Inv /\ TidyInv /\ [Next]_vars => TidyInv'
  <1> SUFFICES ASSUME Inv, TidyInv, [Next]_vars PROVE TidyInv'
    OBVIOUS
  <1>t. level >= 0 => Top \in Calls /\ level \in Depths /\ Tidy(Top)
    BY TopType DEF Inv, FrameInv, TidyInv
  <1>p. ASSUME level >= 0, Pop PROVE TidyInv'
    <2> SUFFICES ASSUME NEW d \in Depths, d <= level' PROVE Tidy(frame'[d])
      BY DEF TidyInv, Tidy
    <2>1. d < level /\ frame'[d] = frame[d]
      BY <1>p, PopKeeps DEF Inv
    <2>2. d <= level
      BY <2>1 DEF Inv, FrameInv, Depths
    <2> QED
      BY <2>1, <2>2 DEF TidyInv
  <1>1. CASE \/ TooDeep \/ Fail
             \/ \E l \in Locations : CollectOverBudget(l)
             \/ \E size \in Sizes : EntryOverBudget(size)
             \/ \E n \in Names, g \in Sizes, size \in Sizes :
                   EntryBroken(n, g, size) \/ GunzipBroken(n, g, size)
    BY <1>1, <1>p, Abandoned
  <1>2. CASE TurnBack \/ Return
    BY <1>2, <1>p DEF TurnBack, Return
  <1>3. CASE Open
    <2>1. Continue([Top EXCEPT !.phase = "extract"]) /\ level >= 0 /\ Top.phase = "enter"
      BY <1>3 DEF Open
    <2>2. Tidy([Top EXCEPT !.phase = "extract"])
      BY <1>t, <2>1 DEF Tidy, Calls
    <2> QED
      BY <2>1, <2>2, TidyContinues
  <1>4. CASE ToolExits
    <2>1. Continue([Top EXCEPT !.phase = "collect", !.pending = Found]) /\ level >= 0
      BY <1>4 DEF ToolExits
    <2>2. Tidy([Top EXCEPT !.phase = "collect", !.pending = Found])
      BY <1>t, <2>1 DEF Tidy, Calls
    <2> QED
      BY <2>1, <2>2, TidyContinues
  <1>5. ASSUME NEW l \in Locations, Collect(l) PROVE TidyInv'
    <2>1. /\ Continue([Top EXCEPT !.pending = @ \ {l}, !.written = Append(@, l)])
          /\ level >= 0 /\ Top.phase = "collect"
      BY <1>5 DEF Collect
    <2>2. Tidy([Top EXCEPT !.pending = @ \ {l}, !.written = Append(@, l)])
      BY <1>t, <2>1 DEF Tidy, Calls
    <2> QED
      BY <2>1, <2>2, TidyContinues
  <1>6. CASE EndEntries \/ EndCollect
    <2>1. /\ Continue([Top EXCEPT !.phase = "children"])
          /\ level >= 0 /\ (Top.phase = "collect" => Top.pending = {})
      BY <1>6 DEF EndEntries, EndCollect, Listing
    <2>2. Tidy([Top EXCEPT !.phase = "children"])
      BY <1>t, <2>1 DEF Tidy, Calls
    <2> QED
      BY <2>1, <2>2, TidyContinues
  <1>7. ASSUME NEW n \in Names, NEW k \in Kinds, NEW g \in Sizes, NEW s \in Sizes,
               WriteEntry(n, k, g, s)
        PROVE  TidyInv'
    <2>1. /\ Continue([Top EXCEPT !.written = Append(@, Target(n))])
          /\ level >= 0 /\ Top.phase = "extract" /\ Top.kind = "entries"
      BY <1>7 DEF WriteEntry
    <2>2. Tidy([Top EXCEPT !.written = Append(@, Target(n))])
      BY <1>t, <2>1 DEF Tidy, Calls
    <2> QED
      BY <2>1, <2>2, TidyContinues
  <1>8. ASSUME NEW n \in Names, NEW k \in Kinds, NEW g \in Sizes, NEW s \in Sizes,
               Gunzip(n, k, g, s)
        PROVE  TidyInv'
    <2>1. /\ Continue([Top EXCEPT !.phase = "children", !.written = <<Target(n)>>])
          /\ level >= 0 /\ Top.phase = "extract"
      BY <1>8 DEF Gunzip, Listing
    <2>2. Tidy([Top EXCEPT !.phase = "children", !.written = <<Target(n)>>])
      BY <1>t, <2>1 DEF Tidy, Calls
    <2> QED
      BY <2>1, <2>2, TidyContinues
  <1>9. CASE \/ RefuseEntry \/ Finished \/ UNCHANGED vars
             \/ \E n \in Names, k \in Kinds, s \in Sizes : ToolWrites(n, k, s)
    <2>1. UNCHANGED <<frame, level>>
      BY <1>9 DEF RefuseEntry, Finished, vars, ToolWrites
    <2> QED
      BY <2>1 DEF TidyInv, Tidy
  <1>10. CASE NextChild
    <2> DEFINE l == Head(Top.written)
               child == Call(ChildPath(Top.path, l.name), disk[l].kind)
               rest == [Top EXCEPT !.written = Tail(@)]
    <2>1. /\ level >= 0 /\ Top.phase = "children"
          /\ \/ Continue(rest)
             \/ /\ frame' = [frame EXCEPT ![level] = rest, ![level + 1] = child]
                /\ level' = level + 1
      BY <1>10 DEF NextChild
    <2>2. Tidy(rest)
      BY <1>t, <2>1 DEF Tidy, Calls
    <2>3. Tidy(child)
      BY DEF Tidy, Call
    <2> HIDE DEF rest, child, l
    <2>4. CASE Continue(rest)
      BY <2>1, <2>2, <2>4, TidyContinues
    <2>5. CASE /\ frame' = [frame EXCEPT ![level] = rest, ![level + 1] = child]
               /\ level' = level + 1
      <3> SUFFICES ASSUME NEW d \in Depths, d <= level' PROVE Tidy(frame'[d])
        BY DEF TidyInv, Tidy
      <3>1. frame = [e \in Depths |-> frame[e]] /\ level \in Int
        BY DEF Inv, FrameInv
      <3>2. frame'[d] = IF d = level + 1 THEN child ELSE IF d = level THEN rest ELSE frame[d]
        BY <2>5, <3>1
      <3>3. d # level + 1 => d <= level
        BY <2>5, <3>1 DEF Depths
      <3> QED
        BY <2>2, <2>3, <3>2, <3>3 DEF TidyInv
    <2> QED
      BY <2>1, <2>4, <2>5
  <1> QED
    BY <1>1, <1>2, <1>3, <1>4, <1>5, <1>6, <1>7, <1>8, <1>9, <1>10 DEF Next

\* Whatever the running call does, what the calls below it have in hand they
\* keep; so it is enough to look at the files it changed or had in hand.
LEMMA LeftKeeps ==
    ASSUME Inv, LeftInv, RecordGrows, level >= 0,
           \A d \in Depths : d < level => d <= level' /\ frame'[d] = frame[d],
           \A l \in Locations : disk'[l] # NoFile /\ disk'[l].size >= 1
               => \/ disk'[l] = disk[l] /\ ~(l \in InHand(level) /\ Parent(disk[l].path) = Top.path)
                  \/ (Listed(l))'
                  \/ \E p : p = Parent(disk'[l].path) /\ Explained(p)'
                  \/ \E d \in Depths : /\ d <= level' /\ l \in InHand(d)'
                                       /\ Parent(disk'[l].path) = frame'[d].path
    PROVE  LeftInv'
  <1> SUFFICES ASSUME NEW l \in Locations, disk'[l] # NoFile, disk'[l].size >= 1,
                      ~(Listed(l))',
                      ~\E p : p = Parent(disk'[l].path) /\ Explained(p)'
               PROVE  \E d \in Depths : /\ d <= level' /\ l \in InHand(d)'
                                        /\ Parent(disk'[l].path) = frame'[d].path
    BY DEF LeftInv, Explained, Awaited
  <1>1. CASE disk'[l] = disk[l] /\ ~(l \in InHand(level) /\ Parent(disk[l].path) = Top.path)
    <2>1. ~Listed(l) /\ ~Explained(Parent(disk[l].path))
      <3>1. \A p : Explained(p) => Explained(p)'
        BY DEF RecordGrows
      <3>2. Listed(l) => Listed(l)'
        BY DEF RecordGrows
      <3> DEFINE q == Parent(disk[l].path)
      <3>3. q = Parent(disk'[l].path)
        BY <1>1
      <3>4. Explained(q) => \E p : p = q /\ Explained(p)'
        BY <3>1 DEF Explained
      <3> QED
        BY <3>2, <3>3, <3>4
    <2>2. PICK d \in Depths : d <= level /\ l \in InHand(d) /\ Parent(disk[l].path) = frame[d].path
      BY <1>1, <2>1 DEF LeftInv, Awaited
    <2>3. d < level
      BY <1>1, <2>2 DEF Depths, Inv, FrameInv
    <2>4. d <= level' /\ frame'[d] = frame[d]
      BY <2>3
    <2>5. l \in InHand(d)'
      BY <2>2, <2>4 DEF InHand, Slug
    <2> QED
      BY <1>1, <2>2, <2>4, <2>5
  <1> QED
    BY <1>1

\* A call that returns leaves what it had in hand explained or listed, or had
\* nothing in hand.
LEMMA LeftPops ==
    ASSUME Inv, LeftInv, RecordGrows, level >= 0, Pop,
           \A l \in Locations : disk'[l] # NoFile /\ disk'[l].size >= 1
               => \/ disk'[l] = disk[l] /\ l \notin InHand(level)
                  \/ Parent(disk'[l].path) = Top.path /\ \A p : p = Top.path => Explained(p)'
                  \/ disk'[l] = disk[l] /\ \A p : p = Top.path => Explained(p)'
    PROVE  LeftInv'
  <1>1. \A d \in Depths : d < level => d <= level' /\ frame'[d] = frame[d]
    <2>1. level \in Depths /\ frame = [d \in Depths |-> frame[d]]
      BY TopType DEF Inv, FrameInv
    <2> QED
      BY <2>1 DEF Pop, Depths
  <1>2. ASSUME NEW l \in Locations, disk'[l] # NoFile, disk'[l].size >= 1
        PROVE  \/ disk'[l] = disk[l] /\ ~(l \in InHand(level) /\ Parent(disk[l].path) = Top.path)
               \/ \E p : p = Parent(disk'[l].path) /\ Explained(p)'
    BY <1>2 DEF Explained
  <1> QED
    BY <1>1, <1>2, LeftKeeps

\* A call that carries on has in hand what it changed, and whatever it had in
\* hand it still has or has listed.
LEMMA LeftContinues ==
    ASSUME Inv, LeftInv, RecordGrows, level >= 0, level' = level,
           frame'[level].path = Top.path,
           \A d \in Depths : d # level => frame'[d] = frame[d],
           \A l \in Locations : disk'[l] # NoFile /\ disk'[l].size >= 1
               => \/ disk'[l] = disk[l] /\ l \notin InHand(level)
                  \/ (Listed(l))'
                  \/ Parent(disk'[l].path) = Top.path /\ l \in (InHand(level))'
                  \/ disk'[l] = disk[l] /\ l \in (InHand(level))'
    PROVE  LeftInv'
  <1>0. level \in Depths
    BY TopType DEF Inv
  <1>1. \A d \in Depths : d < level => d <= level' /\ frame'[d] = frame[d]
    BY <1>0 DEF Depths
  <1>2. ASSUME NEW l \in Locations, disk'[l] # NoFile, disk'[l].size >= 1
        PROVE  \/ disk'[l] = disk[l] /\ ~(l \in InHand(level) /\ Parent(disk[l].path) = Top.path)
               \/ (Listed(l))'
               \/ \E d \in Depths : /\ d <= level' /\ l \in InHand(d)'
                                    /\ Parent(disk'[l].path) = frame'[d].path
    <2>1. CASE disk'[l] = disk[l] /\ l \notin InHand(level)
      BY <2>1
    <2>2. CASE (Listed(l))'
      BY <2>2
    <2>3. CASE Parent(disk'[l].path) = Top.path /\ l \in (InHand(level))'
      <3>1. PICK d \in Depths : d = level
        BY <1>0
      <3>2. d = level' /\ d <= level'
        BY <3>1 DEF Depths
      <3>3. l \in InHand(d)'
        BY <2>3, <3>2 DEF InHand, Slug
      <3>4. Parent(disk'[l].path) = frame'[d].path
        BY <2>3, <3>1
      <3> QED
        BY <3>2, <3>3, <3>4
    <2>4. CASE disk'[l] = disk[l] /\ l \in (InHand(level))'
      <3>1. CASE Parent(disk[l].path) = Top.path
        BY <2>3, <2>4, <3>1
      <3>2. CASE Parent(disk[l].path) # Top.path
        BY <2>4, <3>2
      <3> QED
        BY <3>1, <3>2
    <2> QED
      BY <1>2, <2>1, <2>2, <2>3, <2>4
  <1> QED
    BY <1>1, <1>2, LeftKeeps

\* The file just written has the running call's archive for its container.
LEMMA WriteChanges ==
    ASSUME Inv, level >= 0, level <= MaxDepth,
           NEW n \in Names, NEW kind \in Kinds, NEW size \in Sizes, Write(n, kind, size)
    PROVE  /\ Target(n) \in Locations /\ Target(n).dir = <<level, Slug(Top.path)>>
           /\ Parent(disk'[Target(n)].path) = Top.path
           /\ \A l \in Locations : l # Target(n) => disk'[l] = disk[l]
  <1>1. Target(n) \in Locations
    BY TargetType DEF At, Inv
  <1>2. Parent(ChildPath(Top.path, n)) = Top.path
    BY TopType, ParentOfChild DEF Inv
  <1>3. disk = [l \in Locations |-> disk[l]]
    BY DEF Inv, DiskInv
  <1>4. disk'[Target(n)].path = ChildPath(Top.path, n)
    BY <1>1, <1>3 DEF Write
  <1>5. \A l \in Locations : l # Target(n) => disk'[l] = disk[l]
    BY <1>1, <1>3 DEF Write
  <1> QED
    BY <1>1, <1>2, <1>4, <1>5 DEF Target, Destination

\* Archives that are abandoned: what they left is explained.
LEMMA LeftAbandoned ==
    ASSUME Inv, TidyInv, LeftInv, [Next]_vars,
           \/ TooDeep \/ Fail
           \/ \E l \in Locations : CollectOverBudget(l)
           \/ \E size \in Sizes : EntryOverBudget(size)
           \/ \E n \in Names, g \in Sizes, size \in Sizes :
                 EntryBroken(n, g, size) \/ GunzipBroken(n, g, size)
    PROVE  LeftInv'
  <1>1. /\ level >= 0 /\ Pop /\ UNCHANGED nodes /\ RecordGrows
        /\ \A p : p = Top.path => Explained(p)'
    BY Abandoned, Grows
  <1>2. \A l \in Locations : disk'[l] # NoFile
            => disk'[l] = disk[l] \/ Parent(disk'[l].path) = Top.path
    <2>1. CASE TooDeep \/ Fail \/ \E size \in Sizes : EntryOverBudget(size)
      BY <2>1 DEF TooDeep, Fail, EntryOverBudget
    <2>2. ASSUME NEW k \in Locations, CollectOverBudget(k)
          PROVE  \A l \in Locations : disk'[l] # NoFile => disk'[l] = disk[l]
      <3>1. disk = [l \in Locations |-> disk[l]] /\ disk' = [disk EXCEPT ![k] = NoFile]
        BY <2>2 DEF CollectOverBudget, Inv, DiskInv
      <3> HIDE DEF NoFile
      <3> QED
        BY <3>1
    <2>3. ASSUME NEW n \in Names, NEW g \in Sizes, NEW size \in Sizes,
                 EntryBroken(n, g, size) \/ GunzipBroken(n, g, size)
          PROVE  \A l \in Locations : disk'[l] = disk[l] \/ Parent(disk'[l].path) = Top.path
      <3>1. Write(n, "plain", size) /\ Top.phase = "extract"
        BY <2>3 DEF EntryBroken, GunzipBroken
      <3>2. level <= MaxDepth
        BY <1>1, <3>1, WithinDepth DEF Inv
      <3> QED
        BY <1>1, <3>1, <3>2, WriteChanges
    <2> QED
      BY <2>1, <2>2, <2>3
  <1> QED
    BY <1>1, <1>2, LeftPops

\* Calls that return without an error have nothing in hand.
LEMMA LeftReturned ==
    ASSUME Inv, TidyInv, LeftInv, [Next]_vars, TurnBack \/ Return
    PROVE  LeftInv'
  <1>1. /\ level >= 0 /\ Pop /\ disk' = disk /\ RecordGrows
        /\ Top.phase = "enter" \/ (Top.phase = "children" /\ Top.written = <<>>)
    BY Grows DEF TurnBack, Return
  <1>2. Tidy(Top) /\ level \in Depths
    BY <1>1, TopType DEF TidyInv, Inv, FrameInv
  <1>3. Top.written = <<>> /\ Top.pending = {}
    BY <1>1, <1>2 DEF Tidy
  <1>4. InHand(level) = {}
    BY <1>1, <1>3 DEF InHand
  <1> QED
    BY <1>1, <1>4, LeftPops

\* What a call of the given kind has in hand at a depth.
Holds(call, l, d, path) ==
    \/ \E i \in DOMAIN call.written : call.written[i] = l
    \/ l \in call.pending
    \/ call.phase = "extract" /\ call.kind = "tool" /\ l.dir = <<d, Slug(path)>>

LEMMA HandIs ==
    ASSUME level >= 0
    PROVE  \A l \in Locations : l \in InHand(level) <=> Holds(Top, l, level, Top.path)
  BY DEF InHand, Holds

LEMMA HandContinues ==
    ASSUME Inv, level >= 0, NEW call, Continue(call), call.path = Top.path
    PROVE  /\ level' = level /\ frame'[level].path = Top.path
           /\ \A d \in Depths : d # level => frame'[d] = frame[d]
           /\ \A l \in Locations : l \in (InHand(level))' <=> Holds(call, l, level, Top.path)
  <1>1. /\ level' = level /\ frame'[level] = call
        /\ \A d \in Depths : d # level => frame'[d] = frame[d]
    BY Continues
  <1> QED
    BY <1>1 DEF InHand, Holds, Slug

\* A call that carries on and drops nothing it had in hand.
LEMMA LeftCarriesOn ==
    ASSUME Inv, LeftInv, RecordGrows, level >= 0, NEW call, Continue(call), call.path = Top.path,
           \A l \in Locations : disk'[l] # NoFile /\ disk'[l].size >= 1
               => \/ disk'[l] = disk[l] /\ ~Holds(Top, l, level, Top.path)
                  \/ (Listed(l))'
                  \/ Parent(disk'[l].path) = Top.path /\ Holds(call, l, level, Top.path)
                  \/ disk'[l] = disk[l] /\ Holds(call, l, level, Top.path)
    PROVE  LeftInv'
  <1>1. \A l \in Locations : l \in InHand(level) <=> Holds(Top, l, level, Top.path)
    BY HandIs
  <1>2. /\ level' = level /\ frame'[level].path = Top.path
        /\ \A d \in Depths : d # level => frame'[d] = frame[d]
        /\ \A l \in Locations : l \in (InHand(level))' <=> Holds(call, l, level, Top.path)
    BY HandContinues
  <1>3. ASSUME NEW l \in Locations, disk'[l] # NoFile /\ disk'[l].size >= 1
        PROVE  \/ disk'[l] = disk[l] /\ l \notin InHand(level)
               \/ (Listed(l))'
               \/ Parent(disk'[l].path) = Top.path /\ l \in (InHand(level))'
               \/ disk'[l] = disk[l] /\ l \in (InHand(level))'
    BY <1>1, <1>2, <1>3
  <1> QED
    BY <1>2, <1>3, LeftContinues

\* One location more is in hand, and none less.
LEMMA HoldsMore ==
    ASSUME NEW S, NEW written \in Seq(S), NEW l \in S
    PROVE  \A k : (\E i \in DOMAIN Append(written, l) : Append(written, l)[i] = k)
                  <=> k = l \/ \E i \in DOMAIN written : written[i] = k
  <1>1. /\ DOMAIN Append(written, l) = 1..(Len(written) + 1) /\ DOMAIN written = 1..Len(written)
        /\ Append(written, l)[Len(written) + 1] = l
        /\ \A i \in 1..Len(written) : Append(written, l)[i] = written[i]
        /\ Len(written) \in Nat
    OBVIOUS
  <1>2. \A i \in 1..(Len(written) + 1) : i = Len(written) + 1 \/ i \in 1..Len(written)
    BY <1>1
  <1>3. Len(written) + 1 \in 1..(Len(written) + 1)
        /\ \A i \in 1..Len(written) : i \in 1..(Len(written) + 1)
    BY <1>1
  <1> QED
    BY <1>1, <1>2, <1>3

\* Steps of a call that changes nothing on disk and goes on.
LEMMA LeftRead ==
    ASSUME Inv, TidyInv, LeftInv, [Next]_vars,
           \/ Open \/ EndEntries \/ EndCollect \/ ToolExits
           \/ \E l \in Locations : Collect(l)
    PROVE  LeftInv'
  <1>0. level >= 0 /\ disk' = disk /\ RecordGrows
    BY Grows DEF Open, EndEntries, EndCollect, ToolExits, Collect
  <1> DEFINE top == Top
  <1>1. top \in Calls /\ top = Top /\ Tidy(top)
    BY <1>0, TopType DEF Inv, TidyInv, FrameInv
  <1>2. ASSUME NEW call, Continue(call), call.path = top.path,
               \A l \in Locations : disk[l] # NoFile /\ disk[l].size >= 1
                   /\ Holds(top, l, level, top.path) => Holds(call, l, level, top.path)
        PROVE  LeftInv'
    BY <1>0, <1>1, <1>2, LeftCarriesOn
  <1>3. CASE Open
    <2> DEFINE call == [top EXCEPT !.phase = "extract"]
    <2>1. Continue(call) /\ top.phase = "enter"
      BY <1>3 DEF Open
    <2> HIDE DEF top
    <2>2. call.path = top.path /\ \A l \in Locations : Holds(top, l, level, top.path) => Holds(call, l, level, top.path)
      BY <1>1, <2>1 DEF Calls, Holds
    <2> HIDE DEF call
    <2> QED
      BY <1>2, <2>1, <2>2
  <1>4. CASE EndEntries \/ EndCollect
    <2> DEFINE call == [top EXCEPT !.phase = "children"]
    <2>1. Continue(call) /\ (top.phase = "collect" \/ top.kind = "entries")
      BY <1>4 DEF EndEntries, EndCollect, Listing
    <2> HIDE DEF top
    <2>2. call.path = top.path /\ \A l \in Locations : Holds(top, l, level, top.path) => Holds(call, l, level, top.path)
      BY <1>1, <2>1 DEF Calls, Holds
    <2> HIDE DEF call
    <2> QED
      BY <1>2, <2>1, <2>2
  <1>5. CASE ToolExits
    <2> DEFINE call == [top EXCEPT !.phase = "collect", !.pending = Found]
    <2>1. Continue(call) /\ top.phase = "extract" /\ top.kind = "tool"
      BY <1>5 DEF ToolExits
    <2>2. \A l \in Locations : disk[l] # NoFile /\ disk[l].size >= 1
                               /\ l.dir = <<level, Slug(top.path)>> => l \in Found
      BY DEF Found, Destination
    <2> HIDE DEF top, Found
    <2>3. top.written = <<>> /\ top.pending = {}
      BY <1>1, <2>1 DEF Tidy
    <2>4. call.path = top.path /\ call.pending = Found
      BY <1>1 DEF Calls
    <2>5. \A l \in Locations : Holds(top, l, level, top.path) => l.dir = <<level, Slug(top.path)>>
      BY <2>3 DEF Holds
    <2> HIDE DEF call
    <2>6. \A l \in Locations : disk[l] # NoFile /\ disk[l].size >= 1
              /\ Holds(top, l, level, top.path) => Holds(call, l, level, top.path)
      BY <2>2, <2>4, <2>5 DEF Holds
    <2> QED
      BY <1>2, <2>1, <2>4, <2>6
  <1>6. ASSUME NEW k \in Locations, Collect(k) PROVE LeftInv'
    <2> DEFINE call == [top EXCEPT !.pending = @ \ {k}, !.written = Append(@, k)]
    <2>1. Continue(call) /\ top.phase = "collect"
      BY <1>6 DEF Collect
    <2> HIDE DEF top
    <2>2. /\ call.path = top.path /\ call.pending = top.pending \ {k}
          /\ call.written = Append(top.written, k) /\ call.phase = top.phase
      BY <1>1 DEF Calls
    <2> HIDE DEF call
    <2>3. top.written \in Seq(Locations)
      BY <1>1 DEF Calls
    <2>4. \A l : (\E i \in DOMAIN call.written : call.written[i] = l)
                 <=> l = k \/ \E i \in DOMAIN top.written : top.written[i] = l
      BY <2>2, <2>3, HoldsMore
    <2>5. \A l \in Locations : Holds(top, l, level, top.path) => Holds(call, l, level, top.path)
      BY <2>1, <2>2, <2>4 DEF Holds
    <2> QED
      BY <1>2, <2>1, <2>2, <2>5
  <1> QED
    BY <1>3, <1>4, <1>5, <1>6

\* Steps that write one more file: it is in the hands of who wrote it.
LEMMA LeftWritten ==
    ASSUME Inv, TidyInv, LeftInv, [Next]_vars,
           NEW n \in Names, NEW k \in Kinds, NEW g \in Sizes, NEW s \in Sizes,
           ToolWrites(n, k, s) \/ WriteEntry(n, k, g, s) \/ Gunzip(n, k, g, s)
    PROVE  LeftInv'
  <1>0. level >= 0 /\ Write(n, k, s) /\ Top.phase = "extract" /\ RecordGrows
    BY Grows DEF ToolWrites, WriteEntry, Gunzip
  <1>1. level <= MaxDepth
    BY <1>0, WithinDepth DEF Inv
  <1>2. /\ Target(n) \in Locations /\ Target(n).dir = <<level, Slug(Top.path)>>
        /\ Parent(disk'[Target(n)].path) = Top.path
        /\ \A l \in Locations : l # Target(n) => disk'[l] = disk[l]
    BY <1>0, <1>1, WriteChanges
  <1> DEFINE top == Top
  <1>3. top \in Calls /\ top = Top /\ Tidy(top)
    BY <1>0, TopType DEF Inv, TidyInv, FrameInv
  <1>4. ASSUME NEW call, Continue(call), call.path = top.path,
               Holds(call, Target(n), level, top.path),
               \A l \in Locations : Holds(top, l, level, top.path) => Holds(call, l, level, top.path)
        PROVE  LeftInv'
    <2>1. ASSUME NEW l \in Locations
          PROVE  \/ disk'[l] = disk[l] /\ ~Holds(Top, l, level, Top.path)
                 \/ Parent(disk'[l].path) = Top.path /\ Holds(call, l, level, Top.path)
                 \/ disk'[l] = disk[l] /\ Holds(call, l, level, Top.path)
      BY <1>2, <1>4
    <2> QED
      BY <1>0, <1>4, <2>1, LeftCarriesOn
  <1>5. CASE ToolWrites(n, k, s)
    <2>1. UNCHANGED <<frame, level>> /\ Top.kind = "tool"
      BY <1>5 DEF ToolWrites
    <2>2. frame'[level].path = Top.path /\ \A d \in Depths : frame'[d] = frame[d]
      BY <2>1
    <2>3. (InHand(level))' = InHand(level)
      BY <2>1 DEF InHand, Slug
    <2>4. Target(n) \in InHand(level)
      BY <1>0, <1>2, <2>1 DEF InHand
    <2>5. ASSUME NEW l \in Locations
          PROVE  \/ disk'[l] = disk[l] /\ l \notin InHand(level)
                 \/ Parent(disk'[l].path) = Top.path /\ l \in (InHand(level))'
                 \/ disk'[l] = disk[l] /\ l \in (InHand(level))'
      BY <1>2, <2>3, <2>4
    <2> QED
      BY <1>0, <2>1, <2>2, <2>5, LeftContinues, SMTT(20)
  <1>6. CASE WriteEntry(n, k, g, s)
    <2> DEFINE call == [top EXCEPT !.written = Append(@, Target(n))]
    <2>1. Continue(call) /\ top.kind = "entries"
      BY <1>6 DEF WriteEntry
    <2> HIDE DEF top
    <2>2. /\ call.path = top.path /\ call.pending = top.pending /\ call.kind = top.kind
          /\ call.written = Append(top.written, Target(n)) /\ call.phase = top.phase
      BY <1>3 DEF Calls
    <2> HIDE DEF call
    <2>3. top.written \in Seq(Locations)
      BY <1>3 DEF Calls
    <2>4. \A l : (\E i \in DOMAIN call.written : call.written[i] = l)
                 <=> l = Target(n) \/ \E i \in DOMAIN top.written : top.written[i] = l
      BY <1>2, <2>2, <2>3, HoldsMore, SMTT(20)
    <2>5. /\ Holds(call, Target(n), level, top.path)
          /\ \A l \in Locations : Holds(top, l, level, top.path) => Holds(call, l, level, top.path)
      BY <2>2, <2>4 DEF Holds
    <2> QED
      BY <1>4, <2>1, <2>2, <2>5
  <1>7. CASE Gunzip(n, k, g, s)
    <2> DEFINE call == [top EXCEPT !.phase = "children", !.written = <<Target(n)>>]
    <2>1. Continue(call) /\ top.kind = "gzip" /\ top.phase = "extract"
      BY <1>0, <1>7 DEF Gunzip, Listing
    <2> HIDE DEF top
    <2>2. call.path = top.path /\ call.written = <<Target(n)>>
      BY <1>3 DEF Calls
    <2> HIDE DEF call
    <2>3. top.written = <<>> /\ top.pending = {}
      BY <1>3, <2>1 DEF Tidy
    <2>4. \A l \in Locations : ~Holds(top, l, level, top.path)
      BY <2>1, <2>3 DEF Holds
    <2>5. Holds(call, Target(n), level, top.path)
      BY <2>2 DEF Holds
    <2> QED
      BY <1>4, <2>1, <2>2, <2>4, <2>5
  <1> QED
    BY <1>5, <1>6, <1>7

\* A file leaves the list of its call for the manifest.
LEMMA LeftListed ==
    ASSUME Inv, TidyInv, LeftInv, [Next]_vars, NextChild
    PROVE  LeftInv'
  <1>0. /\ level >= 0 /\ Top.phase = "children" /\ Top.written # <<>>
        /\ disk' = disk /\ RecordGrows
    BY Grows DEF NextChild
  <1> DEFINE top == Top
             h == Head(top.written)
             rest == [top EXCEPT !.written = Tail(@)]
             node == [path |-> ChildPath(top.path, h.name), at |-> h,
                      kind |-> disk[h].kind, size |-> disk[h].size]
             child == Call(ChildPath(top.path, h.name), disk[h].kind)
  <1>1. /\ top \in Calls /\ top = Top /\ Tidy(top) /\ level \in Depths
        /\ frame = [d \in Depths |-> frame[d]]
    BY <1>0, TopType DEF Inv, TidyInv, FrameInv
  <1>2. /\ nodes' = Append(nodes, node)
        /\ \/ Continue(rest)
           \/ /\ frame' = [frame EXCEPT ![level] = rest, ![level + 1] = child]
              /\ level' = level + 1
    BY DEF NextChild
  <1>3. \A l : l = h => Listed(l)'
    <2>1. node.at = h
      OBVIOUS
    <2> HIDE DEF node
    <2>2. nodes \in Seq(Nodes)
      BY DEF Inv, ResultInv
    <2>3. Len(nodes) + 1 \in DOMAIN nodes' /\ nodes'[Len(nodes) + 1] = node
      BY <1>2, <2>2
    <2> QED
      BY <1>0, <2>1, <2>3 DEF Listed
  <1>4. ASSUME NEW l, \E i \in DOMAIN top.written : top.written[i] = l
        PROVE  l = h \/ \E i \in DOMAIN Tail(top.written) : Tail(top.written)[i] = l
    <2>1. top.written \in Seq(Locations) /\ top.written # <<>>
      BY <1>0, <1>1 DEF Calls
    <2> HIDE DEF top
    <2>2. PICK i \in DOMAIN top.written : top.written[i] = l
      BY <1>4
    <2>3. CASE i = 1
      BY <2>1, <2>2, <2>3
    <2>4. CASE i # 1
      <3>1. i - 1 \in DOMAIN Tail(top.written) /\ Tail(top.written)[i - 1] = top.written[i]
        BY <2>1, <2>4
      <3> QED
        BY <2>2, <3>1
    <2> QED
      BY <2>3, <2>4
  <1> HIDE DEF h, node, child
  <1>5. /\ \A d \in Depths : d < level => d <= level' /\ frame'[d] = frame[d]
        /\ level <= level' /\ frame'[level] = rest
    <2> HIDE DEF rest
    <2> QED
      BY <1>0, <1>1, <1>2 DEF Continue, Depths
  <1> HIDE DEF top
  <1>6. rest.path = top.path /\ rest.written = Tail(top.written) /\ top.pending = {}
    BY <1>0, <1>1 DEF Calls, Tidy
  <1> HIDE DEF rest
  <1>7. ASSUME NEW l \in Locations
        PROVE  \/ disk'[l] = disk[l] /\ ~(l \in InHand(level) /\ Parent(disk[l].path) = Top.path)
               \/ (Listed(l))'
               \/ \E d \in Depths : /\ d <= level' /\ l \in InHand(d)'
                                    /\ Parent(disk'[l].path) = frame'[d].path
    <2>1. SUFFICES ASSUME l \in InHand(level), Parent(disk[l].path) = Top.path, l # h
                   PROVE  \E d \in Depths : /\ d <= level' /\ l \in InHand(d)'
                                            /\ Parent(disk'[l].path) = frame'[d].path
      <3>1. l = h => (Listed(l))'
        BY <1>3 DEF Listed
      <3> QED
        BY <1>0, <3>1
    <2>2. Holds(top, l, level, top.path)
      BY <1>0, <1>1, <2>1, HandIs
    <2>3. \E i \in DOMAIN top.written : top.written[i] = l
      BY <1>0, <1>1, <1>6, <2>2 DEF Holds
    <2>4. \E i \in DOMAIN rest.written : rest.written[i] = l
      BY <1>4, <1>6, <2>1, <2>3
    <2>5. PICK d \in Depths : d = level
      BY <1>1
    <2>6. frame'[d] = rest /\ d <= level'
      BY <1>5, <2>5
    <2>7. l \in InHand(d)'
      BY <2>4, <2>6 DEF InHand
    <2> QED
      BY <1>0, <1>1, <1>6, <2>1, <2>6, <2>7
  <1> QED
    BY <1>0, <1>5, <1>7, LeftKeeps

\* Every step leaves every file listed, explained or in somebody's hands.
LEMMA LeftStep == Inv /\ TidyInv /\ LeftInv /\ [Next]_vars => LeftInv'
  <1> SUFFICES ASSUME Inv, TidyInv, LeftInv, [Next]_vars PROVE LeftInv'
    OBVIOUS
  <1>1. CASE \/ TooDeep \/ Fail
             \/ \E l \in Locations : CollectOverBudget(l)
             \/ \E size \in Sizes : EntryOverBudget(size)
             \/ \E n \in Names, g \in Sizes, size \in Sizes :
                   EntryBroken(n, g, size) \/ GunzipBroken(n, g, size)
    BY <1>1, LeftAbandoned
  <1>2. CASE TurnBack \/ Return
    BY <1>2, LeftReturned
  <1>3. CASE Open \/ EndEntries \/ EndCollect \/ ToolExits \/ \E l \in Locations : Collect(l)
    BY <1>3, LeftRead
  <1>4. ASSUME NEW n \in Names, NEW k \in Kinds, NEW g \in Sizes, NEW s \in Sizes,
               ToolWrites(n, k, s) \/ WriteEntry(n, k, g, s) \/ Gunzip(n, k, g, s)
        PROVE  LeftInv'
    BY <1>4, LeftWritten
  <1>5. CASE NextChild
    BY <1>5, LeftListed
  <1>6. CASE RefuseEntry \/ Finished \/ UNCHANGED vars
    <2>1. RecordGrows /\ UNCHANGED <<frame, level, disk>>
      BY <1>6, Grows DEF RefuseEntry, Finished, vars
    <2> SUFFICES ASSUME NEW l \in Locations, disk[l] # NoFile, disk[l].size >= 1
                 PROVE  (Listed(l))' \/ (Explained(Parent(disk[l].path)))' \/ (Awaited(l))'
      BY <2>1 DEF LeftInv
    <2>2. CASE Listed(l)
      BY <2>1, <2>2 DEF RecordGrows, Listed
    <2>3. CASE Explained(Parent(disk[l].path))
      <3>1. errors \subseteq errors' /\ exceeded' = exceeded
        BY <1>6 DEF RefuseEntry, Finished, vars, budgetVars, resultVars
      <3> QED
        BY <2>1, <2>3, <3>1 DEF Explained
    <2>4. CASE Awaited(l)
      BY <2>1, <2>4 DEF Awaited, InHand, Slug
    <2> QED
      BY <2>2, <2>3, <2>4 DEF LeftInv
  <1> QED
    BY <1>1, <1>2, <1>3, <1>4, <1>5, <1>6 DEF Next

\* No bytes are left under the output root that neither the manifest lists nor
\* an error accounts for, whatever archives fail, collide or contain themselves.
THEOREM UnlistedFiles == Spec => []UnlistedIsExplained
  <1>1. Init => TidyInv /\ LeftInv
    <2> SUFFICES ASSUME Init PROVE TidyInv /\ LeftInv
      OBVIOUS
    <2>1. LeftInv
      BY DEF Init, LeftInv
    <2>2. \A d \in Depths : d <= level => frame[d].phase = "enter" /\ frame[d].pending = {} /\ frame[d].written = <<>>
      BY DEF Init, Call, Depths
    <2>3. TidyInv
      BY <2>2 DEF TidyInv, Tidy
    <2> QED
      BY <2>1, <2>3
  <1>2. LeftInv => UnlistedIsExplained
    BY DEF LeftInv, Awaited, Depths, UnlistedIsExplained, Ended
  <1> QED
    BY Invariance, TidyStep, LeftStep, <1>1, <1>2, PTL DEF Spec

-----------------------------------------------------------------------------
(* Charges: a sum over the stack *)

\* There is no induction to appeal to: what holds of all naturals is shown by
\* looking at the least one it does not hold of.
LEMMA Smallest ==
    ASSUME NEW T \in SUBSET Nat, T # {}
    PROVE  \E m \in T : \A k \in T : m <= k
  <1>1. PICK m \in T : \A k \in T : ~ (<<k, m>> \in OpToRel(<, Nat))
    BY WFMin, NatLessThanWellFounded, Zenon
  <1>2. \A k \in T : ~ (k < m)
    BY <1>1, Zenon DEF OpToRel
  <1> QED
    BY <1>2

\* w adds up what the calls of the stack f have written, from the lowest depth.
AddsUp(k, f, w) ==
    w = [d \in -1..k |-> IF d = -1 THEN 0 ELSE w[d - 1] + Len(f[d].written)]

\* The equation that defines the sum has a solution for every depth.
LEMMA SumExists ==
    ASSUME NEW n \in Nat, NEW f
    PROVE  \E w : AddsUp(n, f, w)
  <1> DEFINE Bad == {k \in Nat : ~ \E w : AddsUp(k, f, w)}
  <1> SUFFICES ASSUME Bad # {} PROVE FALSE
    OBVIOUS
  <1>1. PICK k \in Bad : \A j \in Bad : k <= j
    BY Smallest
  <1>2. CASE k = 0
    <2> DEFINE w == [d \in -1..0 |-> IF d = -1 THEN 0 ELSE 0 + Len(f[d].written)]
    <2>1. AddsUp(0, f, w)
      BY DEF AddsUp
    <2> QED
      BY <1>2, <2>1
  <1>3. CASE k # 0
    <2>1. k - 1 \in Nat /\ k - 1 \notin Bad
      BY <1>1, <1>3
    <2>2. PICK v : AddsUp(k - 1, f, v)
      BY <2>1
    <2> DEFINE w == [d \in -1..k |-> IF d = k THEN v[d - 1] + Len(f[d].written) ELSE v[d]]
    <2>3. ASSUME NEW d \in -1..k
          PROVE  w[d] = IF d = -1 THEN 0 ELSE w[d - 1] + Len(f[d].written)
      BY <1>3, <2>2 DEF AddsUp
    <2>4. AddsUp(k, f, w)
      BY <2>3 DEF AddsUp
    <2> QED
      BY <2>4
  <1> QED
    BY <1>2, <1>3

Waiting(f) ==
    CHOOSE w : w = [d \in -1..(MaxDepth + 1) |->
                       IF d = -1 THEN 0 ELSE w[d - 1] + Len(f[d].written)]
\* What the calls on the stack f have still to list.
ToList(f) == Waiting(f)[MaxDepth + 1]

\* The sum is the one that NodesArePaidFor speaks of.
LEMMA PaidIs == NodesArePaidFor <=> Len(nodes) + ToList(frame) <= files_written
  BY DEF NodesArePaidFor, ToList, Waiting, Awaiting

\* It starts at nothing and grows by what each call has written.
LEMMA WaitingIs ==
    ASSUME NEW f
    PROVE  /\ Waiting(f)[-1] = 0
           /\ \A d \in Depths : Waiting(f)[d] = Waiting(f)[d - 1] + Len(f[d].written)
  <1>1. \E w : AddsUp(MaxDepth + 1, f, w)
    BY SumExists
  <1>2. AddsUp(MaxDepth + 1, f, Waiting(f))
    BY <1>1 DEF AddsUp, Waiting
  <1> QED
    BY <1>2 DEF AddsUp, Depths

Counted(f) == \A d \in Depths : Len(f[d].written) \in Nat

\* Where two stacks differ at one depth only, their sums differ by that much.
LEMMA ToListMoves ==
    ASSUME NEW f, NEW g, NEW e \in Depths, Counted(f), Counted(g),
           \A d \in Depths : d # e => Len(g[d].written) = Len(f[d].written)
    PROVE  /\ ToList(f) \in Nat
           /\ ToList(g) = ToList(f) + Len(g[e].written) - Len(f[e].written)
  <1> DEFINE F(k) == Waiting(f)[k - 1]
             G(k) == Waiting(g)[k - 1]
             a(k) == Len(f[k].written)
             b(k) == Len(g[k].written)
             Right(k) == F(k) \in Nat /\ G(k) = IF k <= e THEN F(k) ELSE F(k) + b(e) - a(e)
             Bad == {k \in Nat : k <= MaxDepth + 2 /\ ~ Right(k)}
  <1>1. F(0) = 0 /\ G(0) = 0
    BY WaitingIs
  <1>2. ASSUME NEW k \in Nat, k <= MaxDepth + 1
        PROVE  /\ F(k + 1) = F(k) + a(k) /\ G(k + 1) = G(k) + b(k)
               /\ a(k) \in Nat /\ b(k) \in Nat /\ (k # e => b(k) = a(k))
    <2>1. k \in Depths /\ (k + 1) - 1 = k
      BY <1>2 DEF Depths
    <2> QED
      BY <2>1, WaitingIs DEF Counted
  <1>3. e \in Nat /\ e <= MaxDepth + 1
    BY DEF Depths
  <1> HIDE DEF F, G, a, b
  <1>4. ASSUME Bad # {} PROVE FALSE
    <2>1. PICK k \in Bad : \A j \in Bad : k <= j
      BY <1>4, Smallest
    <2>2. k # 0
      BY <1>1, <1>3, <2>1
    <2>3. k - 1 \in Nat /\ k - 1 <= MaxDepth + 1 /\ Right(k - 1)
      BY <2>1, <2>2
    <2>4. /\ F(k) = F(k - 1) + a(k - 1) /\ G(k) = G(k - 1) + b(k - 1)
          /\ a(k - 1) \in Nat /\ b(k - 1) \in Nat /\ (k - 1 # e => b(k - 1) = a(k - 1))
      <3>1. (k - 1) + 1 = k
        BY <2>1
      <3> QED
        BY <1>2, <2>3, <3>1
    <2>5. a(e) \in Nat /\ b(e) \in Nat
      BY <1>2, <1>3
    <2>6. F(k) \in Nat /\ k \in Nat /\ k <= MaxDepth + 2
      BY <2>1, <2>3, <2>4
    <2>7. CASE k <= e
      <3>1. k - 1 <= e /\ k - 1 # e
        BY <1>3, <2>6, <2>7
      <3>2. G(k) = F(k)
        BY <2>3, <2>4, <3>1
      <3> QED
        BY <2>1, <2>6, <2>7, <3>2
    <2>8. CASE k - 1 = e
      <3>1. k - 1 <= e /\ ~ (k <= e)
        BY <1>3, <2>6, <2>8
      <3>2. F(k) = F(k - 1) + a(e) /\ G(k) = F(k - 1) + b(e) /\ F(k - 1) \in Nat
        BY <2>3, <2>4, <2>8, <3>1
      <3>3. G(k) = F(k) + b(e) - a(e)
        BY <2>5, <3>2
      <3> QED
        BY <2>1, <2>6, <3>1, <3>3
    <2>9. CASE ~ (k <= e) /\ k - 1 # e
      <3>1. ~ (k - 1 <= e)
        BY <1>3, <2>6, <2>9
      <3>2. G(k - 1) = F(k - 1) + b(e) - a(e) /\ F(k - 1) \in Nat
        BY <2>3, <3>1
      <3>3. G(k) = F(k) + b(e) - a(e)
        BY <2>4, <2>5, <2>9, <3>2
      <3> QED
        BY <2>1, <2>6, <2>9, <3>3
    <2> QED
      BY <2>7, <2>8, <2>9
  <1>5. Right(MaxDepth + 2)
    <2>1. MaxDepth + 2 \in Nat /\ MaxDepth + 2 <= MaxDepth + 2
      OBVIOUS
    <2> QED
      BY <1>4, <2>1
  <1>6. F(MaxDepth + 2) = ToList(f) /\ G(MaxDepth + 2) = ToList(g)
    <2>1. (MaxDepth + 2) - 1 = MaxDepth + 1
      OBVIOUS
    <2> QED
      BY <2>1 DEF F, G, ToList
  <1>7. a(e) \in Nat /\ b(e) \in Nat /\ ~ (MaxDepth + 2 <= e)
    BY <1>2, <1>3
  <1>8. ToList(f) \in Nat /\ ToList(g) = ToList(f) + b(e) - a(e)
    BY <1>5, <1>6, <1>7
  <1> QED
    BY <1>8 DEF a, b

-----------------------------------------------------------------------------
(* Files that were not paid for *)

\* What is listed and what is to be listed has been charged.
PaidInv == Len(nodes) + ToList(frame) <= files_written

\* Every call on the stack has a list, of whatever length.
LEMMA StackCounted == FrameInv => Counted(frame)
  <1> SUFFICES ASSUME FrameInv, NEW d \in Depths PROVE Len(frame[d].written) \in Nat
    BY DEF Counted
  <1>1. CASE d <= level
    BY <1>1 DEF FrameInv, CallInv, Calls
  <1>2. CASE ~ (d <= level)
    BY <1>2 DEF FrameInv, NoCall
  <1> QED
    BY <1>1, <1>2

\* A call that returns takes its list with it.
LEMMA PaidPops ==
    ASSUME Inv, Inv', PaidInv, level >= 0, Pop, nodes' = nodes, files_written' >= files_written
    PROVE  PaidInv'
  <1>1. level \in Depths /\ frame = [d \in Depths |-> frame[d]]
    BY TopType DEF Inv, FrameInv
  <1>2. /\ frame'[level] = NoCall
        /\ \A d \in Depths : d # level => frame'[d] = frame[d]
    BY <1>1 DEF Pop
  <1>3. Counted(frame) /\ Counted(frame')
    BY StackCounted DEF Inv, Counted
  <1>4. Len(frame'[level].written) = 0 /\ Len(frame[level].written) \in Nat
    BY <1>1, <1>2, <1>3 DEF NoCall, Counted
  <1>5. \A d \in Depths : d # level => Len(frame'[d].written) = Len(frame[d].written)
    BY <1>2
  <1>6. ToList(frame) \in Nat /\ ToList(frame') = ToList(frame) + 0 - Len(frame[level].written)
    BY <1>1, <1>3, <1>4, <1>5, ToListMoves
  <1>7. Len(nodes) \in Nat /\ files_written \in Nat /\ files_written' \in Nat
    BY DEF Inv, ResultInv, BudgetInv
  <1>8. Len(nodes) + ToList(frame) <= files_written
    BY DEF PaidInv
  <1>9. \A n, t, a, x, y \in Nat : n + t <= x /\ x <= y => n + (t + 0 - a) <= y
    OBVIOUS
  <1>10. Len(nodes) + ToList(frame') <= files_written'
    BY <1>4, <1>6, <1>7, <1>8, <1>9
  <1> QED
    BY <1>10 DEF PaidInv, ToList, Waiting

\* A call that carries on pays for what it adds to its list.
LEMMA PaidContinues ==
    ASSUME Inv, Inv', PaidInv, level >= 0, NEW call, Continue(call),
           Len(nodes') + Len(call.written) - Len(Top.written)
               <= Len(nodes) + (files_written' - files_written)
    PROVE  PaidInv'
  <1>1. level \in Depths
    BY TopType DEF Inv
  <1>2. frame'[level] = call /\ \A d \in Depths : d # level => frame'[d] = frame[d]
    BY Continues
  <1>3. Counted(frame) /\ Counted(frame')
    BY StackCounted DEF Inv, Counted
  <1>4. Len(frame'[level].written) \in Nat /\ Len(frame[level].written) \in Nat
    BY <1>1, <1>3 DEF Counted
  <1>5. \A d \in Depths : d # level => Len(frame'[d].written) = Len(frame[d].written)
    BY <1>2
  <1>6. /\ ToList(frame) \in Nat
        /\ ToList(frame') = ToList(frame) + Len(frame'[level].written) - Len(frame[level].written)
    BY <1>1, <1>3, <1>5, ToListMoves
  <1>7. /\ Len(nodes) \in Nat /\ files_written \in Nat
        /\ Len(nodes') \in Nat /\ files_written' \in Nat
    BY DEF Inv, ResultInv, BudgetInv
  <1>8. Len(frame'[level].written) = Len(call.written)
    BY <1>2
  <1>9. Len(nodes) + ToList(frame) <= files_written
    BY DEF PaidInv
  <1>10. \A n, m, t, a, b, x, y \in Nat :
            n + t <= x /\ m + b - a <= n + (y - x) => m + (t + b - a) <= y
    OBVIOUS
  <1>11. Len(nodes') + ToList(frame') <= files_written'
    BY <1>4, <1>6, <1>7, <1>8, <1>9, <1>10
  <1> QED
    BY <1>11 DEF PaidInv, ToList, Waiting

\* A reservation that is granted is one file more.
LEMMA OneMore ==
    ASSUME Inv, NEW size, Reserve(size)
    PROVE  files_written' = files_written + 1 /\ files_written \in Nat
  BY DEF Reserve, Inv, BudgetInv

\* No step lists a file, or takes one on its list, that it has not paid for.
LEMMA PaidStep == Inv /\ Inv' /\ TidyInv /\ PaidInv /\ [Next]_vars => PaidInv'
  <1> SUFFICES ASSUME Inv, Inv', TidyInv, PaidInv, [Next]_vars PROVE PaidInv'
    OBVIOUS
  <1>t. level >= 0 => Top \in Calls /\ level \in Depths /\ Tidy(Top)
    BY TopType DEF Inv, FrameInv, TidyInv
  <1>n. /\ nodes \in Seq(Nodes) /\ Len(nodes) \in Nat
        /\ files_written \in Nat /\ bytes_written \in Nat
    BY DEF Inv, ResultInv, BudgetInv
  <1>w. level >= 0 => Top.written \in Seq(Locations) /\ Len(Top.written) \in Nat
    BY <1>t DEF Calls
  <1>s. ASSUME NEW call, level >= 0, Continue(call), call.written = Top.written,
               nodes' = nodes, files_written' = files_written
        PROVE  PaidInv'
    <2>1. Len(nodes') + Len(call.written) - Len(Top.written)
              <= Len(nodes) + (files_written' - files_written)
      BY <1>s, <1>n, <1>w
    <2> QED
      BY <1>s, <2>1, PaidContinues
  <1>m. ASSUME NEW call, NEW l, level >= 0, Continue(call), nodes' = nodes,
               call.written = Append(Top.written, l), files_written' = files_written + 1
        PROVE  PaidInv'
    <2>1. Len(call.written) = Len(Top.written) + 1
      BY <1>m, <1>w
    <2>2. Len(nodes') + Len(call.written) - Len(Top.written)
              <= Len(nodes) + (files_written' - files_written)
      BY <1>m, <1>n, <1>w, <2>1
    <2> QED
      BY <1>m, <2>2, PaidContinues
  <1>1. CASE \/ TooDeep \/ Fail
             \/ \E l \in Locations : CollectOverBudget(l)
             \/ \E size \in Sizes : EntryOverBudget(size)
             \/ \E n \in Names, g \in Sizes, size \in Sizes :
                   EntryBroken(n, g, size) \/ GunzipBroken(n, g, size)
    <2>1. files_written' >= files_written
      BY <1>1, <1>n DEF TooDeep, Fail, CollectOverBudget, EntryOverBudget, EntryBroken,
                        GunzipBroken, Reserve, budgetVars
    <2> QED
      BY <1>1, <2>1, Abandoned, PaidPops
  <1>2. CASE TurnBack \/ Return
    <2>1. level >= 0 /\ Pop /\ nodes' = nodes /\ files_written' >= files_written
      BY <1>2, <1>n DEF TurnBack, Return, budgetVars, resultVars
    <2> QED
      BY <2>1, PaidPops
  <1>3. CASE Open
    <2>1. [Top EXCEPT !.phase = "extract"].written = Top.written
      BY <1>3, <1>t DEF Open, Calls
    <2> QED
      BY <1>3, <1>s, <2>1 DEF Open, budgetVars, resultVars
  <1>4. CASE ToolExits
    <2>1. [Top EXCEPT !.phase = "collect", !.pending = Found].written = Top.written
      BY <1>4, <1>t DEF ToolExits, Calls
    <2> QED
      BY <1>4, <1>s, <2>1 DEF ToolExits, budgetVars, resultVars
  <1>5. ASSUME NEW l \in Locations, Collect(l) PROVE PaidInv'
    <2>1. [Top EXCEPT !.pending = @ \ {l}, !.written = Append(@, l)].written
            = Append(Top.written, l)
      BY <1>5, <1>t DEF Collect, Calls
    <2>2. files_written' = files_written + 1
      BY <1>5, OneMore DEF Collect
    <2> QED
      BY <1>5, <1>m, <2>1, <2>2 DEF Collect, resultVars
  <1>6. CASE EndEntries \/ EndCollect
    <2>1. Listing.written = Top.written
      BY <1>6, <1>t DEF EndEntries, EndCollect, Calls, Listing
    <2> QED
      BY <1>6, <1>s, <2>1 DEF EndEntries, EndCollect, budgetVars
  <1>7. ASSUME NEW n \in Names, NEW k \in Kinds, NEW g \in Sizes, NEW s \in Sizes,
               WriteEntry(n, k, g, s)
        PROVE  PaidInv'
    <2>1. [Top EXCEPT !.written = Append(@, Target(n))].written = Append(Top.written, Target(n))
      BY <1>7, <1>t DEF WriteEntry, Calls
    <2>2. files_written' = files_written + 1
      BY <1>7, OneMore DEF WriteEntry
    <2> QED
      BY <1>7, <1>m, <2>1, <2>2 DEF WriteEntry, resultVars
  <1>8. ASSUME NEW n \in Names, NEW k \in Kinds, NEW g \in Sizes, NEW s \in Sizes,
               Gunzip(n, k, g, s)
        PROVE  PaidInv'
    <2>1. level >= 0 /\ Top.written = <<>>
      BY <1>8, <1>t DEF Gunzip, Tidy
    <2>2. [Listing EXCEPT !.written = <<Target(n)>>].written = Append(Top.written, Target(n))
      BY <1>t, <2>1 DEF Listing, Calls
    <2>3. files_written' = files_written + 1
      BY <1>8, OneMore DEF Gunzip
    <2> QED
      BY <1>8, <1>m, <2>1, <2>2, <2>3 DEF Gunzip
  <1>9. CASE \/ RefuseEntry \/ Finished \/ UNCHANGED vars
             \/ \E n \in Names, k \in Kinds, s \in Sizes : ToolWrites(n, k, s)
    <2>1. UNCHANGED <<frame, nodes, files_written>>
      BY <1>9 DEF RefuseEntry, Finished, vars, ToolWrites, budgetVars, resultVars
    <2> QED
      BY <2>1 DEF PaidInv, ToList, Waiting
  <1>10. CASE NextChild
    <2> DEFINE l == Head(Top.written)
               path == ChildPath(Top.path, l.name)
               node == [path |-> path, at |-> l, kind |-> disk[l].kind, size |-> disk[l].size]
               child == Call(path, disk[l].kind)
               rest == [Top EXCEPT !.written = Tail(@)]
    <2>1. /\ level >= 0 /\ Top.written # <<>> /\ files_written' = files_written
          /\ nodes' = Append(nodes, node)
          /\ \/ Continue(rest)
             \/ /\ frame' = [frame EXCEPT ![level] = rest, ![level + 1] = child]
                /\ level' = level + 1
      BY <1>10 DEF NextChild, budgetVars
    <2>2. child.written = <<>>
      BY DEF Call
    <2>3. Len(rest.written) = Len(Top.written) - 1
      <3>1. rest.written = Tail(Top.written)
        BY <1>t, <2>1 DEF Calls
      <3> QED
        BY <1>w, <2>1, <3>1
    <2>4. Len(nodes') = Len(nodes) + 1
      BY <1>n, <2>1
    <2> HIDE DEF rest, child, l, node
    <2>5. CASE Continue(rest)
      <3>1. Len(nodes') + Len(rest.written) - Len(Top.written)
                <= Len(nodes) + (files_written' - files_written)
        <4>1. \A n, m, a, b, x, y \in Int :
                 m = n + 1 /\ b = a - 1 /\ y = x => m + b - a <= n + (y - x)
          OBVIOUS
        <4>2. Len(nodes') \in Int /\ Len(rest.written) \in Int
          BY <1>n, <1>w, <2>1, <2>3, <2>4
        <4>3. /\ Len(nodes) \in Int /\ Len(Top.written) \in Int
              /\ files_written \in Int /\ files_written' \in Int
          BY <1>n, <1>w, <2>1
        <4>4. files_written' = files_written
          BY <2>1
        <4> QED
          BY <2>3, <2>4, <4>1, <4>2, <4>3, <4>4
      <3> QED
        BY <2>1, <2>5, <3>1, PaidContinues
    <2>6. CASE /\ frame' = [frame EXCEPT ![level] = rest, ![level + 1] = child]
               /\ level' = level + 1
      <3>1. frame = [e \in Depths |-> frame[e]] /\ level \in Depths
        <4>1. frame = [e \in Depths |-> frame[e]]
          BY DEF Inv, FrameInv
        <4> QED
          BY <1>t, <2>1, <4>1
      <3>2. \A d \in Depths :
               frame'[d] = IF d = level + 1 THEN child ELSE IF d = level THEN rest ELSE frame[d]
        BY <2>6, <3>1
      <3>3. level + 1 \in Depths => frame[level + 1] = NoCall
        BY <3>1 DEF Inv, FrameInv, Depths
      <3>4. \A d \in Depths : d # level => Len(frame'[d].written) = Len(frame[d].written)
        BY <2>2, <3>1, <3>2, <3>3 DEF NoCall
      <3>5. Len(frame'[level].written) = Len(Top.written) - 1
        <4>1. level # level + 1
          BY <3>1 DEF Depths
        <4> QED
          BY <2>3, <3>1, <3>2, <4>1
      <3>6. Counted(frame) /\ Counted(frame')
        BY StackCounted DEF Inv, Counted
      <3>7. /\ ToList(frame) \in Nat
            /\ ToList(frame') = ToList(frame) + (Len(Top.written) - 1) - Len(Top.written)
        <4>1. Len(frame'[level].written) \in Nat /\ Len(frame[level].written) \in Nat
          BY <3>1, <3>6 DEF Counted
        <4>2. /\ ToList(frame) \in Nat
              /\ ToList(frame') =
                     ToList(frame) + Len(frame'[level].written) - Len(frame[level].written)
          BY <3>1, <3>4, <3>6, ToListMoves
        <4> QED
          BY <3>5, <4>2
      <3>8. ToList(frame') = ToList(frame) - 1
        BY <1>w, <2>1, <3>7
      <3>9. Len(nodes) + ToList(frame) <= files_written
        BY DEF PaidInv
      <3>10. Len(nodes') + ToList(frame') <= files_written'
        BY <1>n, <2>1, <2>4, <3>7, <3>8, <3>9
      <3> QED
        BY <3>10 DEF PaidInv, ToList, Waiting
    <2> QED
      BY <2>1, <2>5, <2>6
  <1> QED
    BY <1>1, <1>2, <1>3, <1>4, <1>5, <1>6, <1>7, <1>8, <1>9, <1>10 DEF Next

\* The walk starts with nothing to list.
LEMMA PaidInit == Init => PaidInv
  <1> SUFFICES ASSUME Init PROVE PaidInv
    OBVIOUS
  <1>1. \A d \in Depths : frame[d].written = <<>>
    BY DEF Init, Call, NoCall, Depths
  <1>2. Counted(frame) /\ \A d \in Depths : Len(frame[d].written) = 0
    BY <1>1 DEF Counted
  <1> DEFINE Bad == {k \in Nat : k <= MaxDepth + 2 /\ Waiting(frame)[k - 1] # 0}
  <1>3. ASSUME Bad # {} PROVE FALSE
    <2>1. PICK k \in Bad : \A j \in Bad : k <= j
      BY <1>3, Smallest
    <2>2. k # 0
      BY <2>1, WaitingIs
    <2>3. k - 1 \in Depths /\ k - 1 \in Nat /\ k - 1 \notin Bad
      BY <2>1, <2>2 DEF Depths
    <2>4. Waiting(frame)[(k - 1) - 1] = 0
      BY <2>1, <2>3
    <2>5. Waiting(frame)[k - 1] = Waiting(frame)[(k - 1) - 1] + Len(frame[k - 1].written)
      BY <2>3, WaitingIs
    <2> QED
      BY <1>2, <2>1, <2>3, <2>4, <2>5
  <1>4. ToList(frame) = 0
    <2>1. MaxDepth + 2 \in Nat /\ (MaxDepth + 2) - 1 = MaxDepth + 1
      OBVIOUS
    <2> QED
      BY <1>3, <2>1 DEF ToList
  <1>5. nodes = <<>> /\ files_written = 0
    BY DEF Init
  <1> QED
    BY <1>4, <1>5 DEF PaidInv

\* Each file that the manifest lists, or that a call in progress is going to
\* list, has been charged for in files_written: nothing is unpacked for free,
\* and what is found twice is paid for twice.
THEOREM FilesArePaidFor == Spec => []NodesArePaidFor
  <1>1. Init => TidyInv
    <2> SUFFICES ASSUME Init, NEW d \in Depths, d <= level PROVE Tidy(frame[d])
      BY DEF TidyInv
    <2>1. frame[d].phase = "enter" /\ frame[d].written = <<>> /\ frame[d].pending = {}
      BY DEF Init, Call, Depths
    <2> QED
      BY <2>1 DEF Tidy
  <1>2. PaidInv => NodesArePaidFor
    BY PaidIs DEF PaidInv
  <1> QED
    BY Invariance, TidyStep, PaidInit, PaidStep, <1>1, <1>2, PTL DEF Spec
=============================================================================
