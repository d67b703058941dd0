----------------------------- MODULE Extraction -----------------------------
(***************************************************************************)
(* The recursive extractor inside the unpack container: a depth-first walk *)
(* of archives within archives, under budgets kept over the whole tree.    *)
(*                                                                         *)
(* The recursion of _walk is an explicit stack, frame[0..level]: one call  *)
(* is in progress at each depth. What an archive holds is chosen while it  *)
(* is being read, so an archive that contains itself is among the cases.   *)
(***************************************************************************)
EXTENDS Integers, Sequences

CONSTANTS
    Names,      \* paths of files inside an archive
    RootName,   \* the artifact's own name
    SlugOf,     \* what _slugify makes of a name
    Sizes,      \* sizes a file may have
    MaxDepth, MaxFiles, MaxBytes

ASSUME NamesAssumption == RootName \in Names
ASSUME SizesAssumption == Sizes \subseteq Nat /\ Sizes # {}
ASSUME CapsAssumption == MaxDepth \in Nat /\ MaxFiles \in Nat /\ MaxBytes \in Nat

\* "entries": zip, tar, ASAR, read entry by entry. "gzip": one stream.
\* "tool": 7z and unsquashfs, which write before anything is charged.
Containers == {"entries", "gzip", "tool"}
Kinds == Containers \cup {"plain"}

Paths == Seq(Names) \ {<<>>}
Slugs == {SlugOf[n] : n \in Names}
Directories == (0..MaxDepth) \X Slugs
Locations == [dir : Directories, name : Names]
Files == [path : Paths, kind : Kinds, size : Sizes]
\* detect reads magic bytes: an empty file is no container.
Detectable(kind, size) == kind \in Containers => size >= 1
NoFile == [path |-> <<>>, kind |-> "plain", size |-> 0]
Nodes == [path : Paths, at : Locations, kind : Kinds, size : Sizes]
Limits == {"max_depth", "max_files", "max_total_bytes"}
Errors == [path : Paths, why : {"budget", "failed", "refused"}]

VARIABLES
    frame,          \* the calls of _walk, one per depth
    level,          \* the depth of the running call, -1 after the last
    disk,           \* what lies at each location under the output root
    nodes,          \* result.nodes
    errors,         \* result.errors
    files_written, bytes_written,
    exceeded,       \* budget.exceeded
    opened          \* containers whose contents were listed (for the properties)

budgetVars == <<files_written, bytes_written, exceeded>>
resultVars == <<nodes, errors, opened>>
vars == <<frame, level, disk, budgetVars, resultVars>>

Call(path, kind) ==
    [path |-> path, kind |-> kind, phase |-> "enter", written |-> <<>>, pending |-> {}]
NoCall == [path |-> <<>>, kind |-> "plain", phase |-> "none", written |-> <<>>, pending |-> {}]
Top == frame[level]

Init ==
    /\ \E kind \in Kinds :
          frame = [d \in 0..(MaxDepth + 1) |->
                      IF d = 0 THEN Call(<<RootName>>, kind) ELSE NoCall]
    /\ level = 0
    /\ disk = [l \in Locations |-> NoFile]
    /\ nodes = <<>>
    /\ errors = {}
    /\ files_written = 0
    /\ bytes_written = 0
    /\ exceeded = {}
    /\ opened = {}

-----------------------------------------------------------------------------
(* The budget *)

BytesRemaining == MaxBytes - bytes_written
IsExhausted == bytes_written >= MaxBytes \/ files_written >= MaxFiles
DepthExceeded == level > MaxDepth

\* Mutant: files_written compared before the file at hand is counted.
FitsOneMore(size) == files_written <= MaxFiles /\ bytes_written + size <= MaxBytes

Fits(size) == files_written + 1 <= MaxFiles /\ bytes_written + size <= MaxBytes
LimitHit == IF files_written + 1 > MaxFiles THEN "max_files" ELSE "max_total_bytes"

\* budget.reserve, when it does not raise
Reserve(size) ==
    /\ Fits(size)
    /\ files_written' = files_written + 1
    /\ bytes_written' = bytes_written + size
    /\ UNCHANGED exceeded

-----------------------------------------------------------------------------
(* The walk *)

Running(phase) == level >= 0 /\ Top.phase = phase
Unpacking(kind) == Running("extract") /\ Top.kind = kind

Slug(path) == SlugOf[path[Len(path)]]

\* Mutant: the output directory is named by the file alone.
DestinationByName == <<0, Slug(Top.path)>>

Destination == <<level, Slug(Top.path)>>
Target(name) == [dir |-> Destination, name |-> name]

ChildPath(path, name) == Append(path, name)

Pop ==
    /\ frame' = [frame EXCEPT ![level] = NoCall]
    /\ level' = level - 1
Continue(call) ==
    /\ frame' = [frame EXCEPT ![level] = call]
    /\ UNCHANGED level

\* Mutant: except BudgetExceeded: return
AbandonQuietly(why) ==
    /\ errors' = IF why = "budget" THEN errors
                 ELSE errors \cup {[path |-> Top.path, why |-> why]}
    /\ Pop
    /\ UNCHANGED <<nodes, opened>>

\* _walk's except clauses: the error is recorded and the call returns; what
\* the archive wrote so far stays on disk and is listed nowhere.
Abandon(why) ==
    /\ errors' = errors \cup {[path |-> Top.path, why |-> why]}
    /\ Pop
    /\ UNCHANGED <<nodes, opened>>

Write(name, kind, size) ==
    disk' = [disk EXCEPT ![Target(name)] =
                [path |-> ChildPath(Top.path, name), kind |-> kind, size |-> size]]

\* Mutant: check_depth raises without a note.
TooDeepUnnoted ==
    /\ Running("enter")
    /\ DepthExceeded
    /\ Abandon("budget")
    /\ UNCHANGED <<disk, budgetVars>>

TooDeep ==
    /\ Running("enter")
    /\ DepthExceeded
    /\ exceeded' = exceeded \cup {"max_depth"}
    /\ Abandon("budget")
    /\ UNCHANGED <<disk, files_written, bytes_written>>

\* Returns without a note, and for a plain file there is nothing to note.
TurnBack ==
    /\ Running("enter")
    /\ ~DepthExceeded
    /\ IsExhausted \/ Top.kind = "plain"
    /\ Pop
    /\ UNCHANGED <<disk, budgetVars, resultVars>>

Open ==
    /\ Running("enter")
    /\ ~DepthExceeded
    /\ ~IsExhausted
    /\ Top.kind \in Containers
    /\ Continue([Top EXCEPT !.phase = "extract"])
    /\ UNCHANGED <<disk, budgetVars, resultVars>>

\* A corrupt header, a missing tool, a timeout, a non-zero exit, ...
Fail ==
    /\ Running("extract")
    /\ Abandon("failed")
    /\ UNCHANGED <<disk, budgetVars>>

Listing == [Top EXCEPT !.phase = "children"]

-----------------------------------------------------------------------------
(* Formats read entry by entry: each entry is charged before it is written *)

\* An ASAR entry may be shorter than its directory says.
WriteEntry(name, kind, declared, size) ==
    /\ Unpacking("entries")
    /\ size <= declared /\ Detectable(kind, size)
    /\ Reserve(declared)
    /\ Write(name, kind, size)
    /\ Continue([Top EXCEPT !.written = Append(@, Target(name))])
    /\ UNCHANGED resultVars

EntryOverBudget(size) ==
    /\ Unpacking("entries")
    /\ ~Fits(size)
    /\ exceeded' = exceeded \cup {LimitHit}
    /\ Abandon("budget")
    /\ UNCHANGED <<disk, files_written, bytes_written>>

\* Charged, opened for writing, and the copy fails: a checksum, a full disk.
EntryBroken(name, declared, size) ==
    /\ Unpacking("entries")
    /\ size <= declared
    /\ Reserve(declared)
    /\ Write(name, "plain", size)
    /\ Abandon("failed")

RefuseEntry ==
    /\ Unpacking("entries")
    /\ errors' = errors \cup {[path |-> Top.path, why |-> "refused"]}
    /\ UNCHANGED <<frame, level, disk, nodes, opened, budgetVars>>

EndEntries ==
    /\ Unpacking("entries")
    /\ Continue(Listing)
    /\ opened' = opened \cup {Top.path}
    /\ UNCHANGED <<disk, nodes, errors, budgetVars>>

-----------------------------------------------------------------------------
(* A gzip stream: charged an estimate, at most what is left *)

Estimate(guess) == IF guess <= BytesRemaining THEN guess ELSE BytesRemaining

Gunzip(name, kind, guess, size) ==
    /\ Unpacking("gzip")
    /\ Detectable(kind, size)
    /\ Reserve(Estimate(guess))
    /\ Write(name, kind, size)
    /\ Continue([Listing EXCEPT !.written = <<Target(name)>>])
    /\ opened' = opened \cup {Top.path}
    /\ UNCHANGED <<nodes, errors>>

GunzipBroken(name, guess, size) ==
    /\ Unpacking("gzip")
    /\ Reserve(Estimate(guess))
    /\ Write(name, "plain", size)
    /\ Abandon("failed")

-----------------------------------------------------------------------------
(* External tools: files appear first, _collect charges them afterwards *)

ToolWrites(name, kind, size) ==
    /\ Unpacking("tool")
    /\ Detectable(kind, size)
    /\ disk[Target(name)] # [path |-> ChildPath(Top.path, name), kind |-> kind, size |-> size]
    /\ Write(name, kind, size)
    /\ UNCHANGED <<frame, level, budgetVars, resultVars>>

\* rglob finds whatever is in the directory, empty files excepted.
Found == {l \in Locations : l.dir = Destination /\ disk[l] # NoFile /\ disk[l].size >= 1}

ToolExits ==
    /\ Unpacking("tool")
    /\ Continue([Top EXCEPT !.phase = "collect", !.pending = Found])
    /\ UNCHANGED <<disk, budgetVars, resultVars>>

\* Mutant: _collect lists files without charging them.
CollectFree(l) ==
    /\ Running("collect")
    /\ l \in Top.pending
    /\ Fits(disk[l].size)
    /\ Continue([Top EXCEPT !.pending = @ \ {l}, !.written = Append(@, l)])
    /\ UNCHANGED <<disk, resultVars, budgetVars>>

Collect(l) ==
    /\ Running("collect")
    /\ l \in Top.pending
    /\ Reserve(disk[l].size)
    /\ Continue([Top EXCEPT !.pending = @ \ {l}, !.written = Append(@, l)])
    /\ UNCHANGED <<disk, resultVars>>

\* The file that does not fit is deleted; those after it stay.
CollectOverBudget(l) ==
    /\ Running("collect")
    /\ l \in Top.pending
    /\ ~Fits(disk[l].size)
    /\ disk' = [disk EXCEPT ![l] = NoFile]
    /\ exceeded' = exceeded \cup {LimitHit}
    /\ Abandon("budget")
    /\ UNCHANGED <<files_written, bytes_written>>

EndCollect ==
    /\ Running("collect")
    /\ Top.pending = {}
    /\ Continue(Listing)
    /\ opened' = opened \cup {Top.path}
    /\ UNCHANGED <<disk, nodes, errors, budgetVars>>

-----------------------------------------------------------------------------
(* The loop over what was written *)

NextChild ==
    /\ Running("children")
    /\ Top.written # <<>>
    /\ LET l == Head(Top.written)
           path == ChildPath(Top.path, l.name)
           rest == [Top EXCEPT !.written = Tail(@)]
       IN  /\ nodes' = Append(nodes, [path |-> path, at |-> l,
                                      kind |-> disk[l].kind, size |-> disk[l].size])
           /\ IF disk[l].kind \in Containers
              THEN /\ frame' = [frame EXCEPT ![level] = rest,
                                             ![level + 1] = Call(path, disk[l].kind)]
                   /\ level' = level + 1
              ELSE Continue(rest)
    /\ UNCHANGED <<disk, errors, opened, budgetVars>>

Return ==
    /\ Running("children")
    /\ Top.written = <<>>
    /\ Pop
    /\ UNCHANGED <<disk, budgetVars, resultVars>>

Ended == level = -1
Finished == Ended /\ UNCHANGED vars

Next ==
    \/ TooDeep \/ TurnBack \/ Open \/ Fail
    \/ RefuseEntry \/ EndEntries \/ ToolExits \/ EndCollect
    \/ NextChild \/ Return \/ Finished
    \/ \E l \in Locations : Collect(l) \/ CollectOverBudget(l)
    \/ \E size \in Sizes : EntryOverBudget(size)
    \/ \E n \in Names, k \in Kinds, s \in Sizes : ToolWrites(n, k, s)
    \/ \E n \in Names, k \in Kinds, g \in Sizes, s \in Sizes :
          WriteEntry(n, k, g, s) \/ Gunzip(n, k, g, s)
    \/ \E n \in Names, g \in Sizes, s \in Sizes : EntryBroken(n, g, s) \/ GunzipBroken(n, g, s)

Spec == Init /\ [][Next]_vars

-----------------------------------------------------------------------------
(* Correctness *)

Calls == [path : Paths, kind : Kinds, phase : {"enter", "extract", "collect", "children"},
          written : Seq(Locations), pending : SUBSET Locations]

\* One call per depth up to the running one, each on a path of that depth;
\* and results of the shapes ExtractionResult.to_dict writes.
TypeOK ==
    /\ level \in -1..(MaxDepth + 1)
    /\ DOMAIN frame = 0..(MaxDepth + 1)
    /\ \A d \in DOMAIN frame :
          IF d <= level THEN frame[d] \in Calls /\ Len(frame[d].path) = d + 1
                        ELSE frame[d] = NoCall
    /\ disk \in [Locations -> Files \cup {NoFile}]
    /\ nodes \in Seq(Nodes)
    /\ errors \subseteq Errors
    /\ files_written \in Nat /\ bytes_written \in Nat
    /\ exceeded \subseteq Limits
    /\ opened \subseteq Paths

\* The caps hold over the whole tree, whatever mixture of formats fails,
\* repeats itself or contains itself: budget.py counts cumulatively.
CapsHold ==
    /\ files_written <= MaxFiles
    /\ bytes_written <= MaxBytes
    /\ \A i \in DOMAIN nodes : Len(nodes[i].path) <= MaxDepth + 2

Awaiting(d) == Len(frame[d].written)

\* Every file the manifest lists, or that a call on the stack will list, has
\* been charged for separately. The same bytes found twice are paid twice.
NodesArePaidFor ==
    LET waiting[d \in -1..(MaxDepth + 1)] == IF d = -1 THEN 0 ELSE waiting[d - 1] + Awaiting(d)
    IN  Len(nodes) + waiting[MaxDepth + 1] <= files_written

\* An error names the container; if a cap stopped it, "truncated" is set too,
\* which is what makes the unpack stage degraded.
Explained(path) ==
    \E e \in errors : e.path = path /\ e.why # "refused" /\ (e.why = "budget" => exceeded # {})

Listed(l) == \E i \in DOMAIN nodes : nodes[i].at = l
Parent(path) == SubSeq(path, 1, Len(path) - 1)

\* No bytes are left under the output root that neither the manifest lists
\* nor an error accounts for: they would be copied to the scanner with no
\* artifact to attribute a finding to.
UnlistedIsExplained ==
    Ended => \A l \in Locations :
        disk[l] # NoFile /\ disk[l].size >= 1 => Listed(l) \/ Explained(Parent(disk[l].path))

\* A container in the manifest whose contents were not listed is explained,
\* or was met when a cap had been reached exactly.
UnopenedIsExplained ==
    Ended => \A i \in DOMAIN nodes :
        nodes[i].kind \in Containers /\ nodes[i].path \notin opened
            => Explained(nodes[i].path) \/ IsExhausted

\* What a call has written and not yet looked at is not disturbed by the
\* walks below it. The directories are flat and named by file names alone;
\* only the depth in their name keeps an archive from meeting its ancestors.
SiblingsUntouched ==
    [][\A d \in DOMAIN frame : frame[d].phase = "children" =>
          \A i \in DOMAIN frame[d].written :
              disk'[frame[d].written[i]] = disk[frame[d].written[i]]]_vars

=============================================================================
