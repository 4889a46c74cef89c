------------------------------- MODULE Patch --------------------------------
(***************************************************************************)
(* apply_patch (src/chinamax/tools/patch.py): a unified diff is dry-run    *)
(* against the disk, staged beside its targets and renamed into place.     *)
(*                                                                         *)
(* A file is its lines and whether the last of them is terminated.  A diff *)
(* is what the parser makes of the text: edits, each with its two paths,   *)
(* its hunks and the "no newline" mark; an edit also remembers which file  *)
(* it was made from and which it means (`from` and `to`), by which script, *)
(* and the stretches of it that its hunks show.                            *)
(***************************************************************************)
EXTENDS Integers, FiniteSets, SequencesExt

CONSTANTS Paths,    \* the files a diff may name
          Confined, \* those under the workspace or the scratch root
          Null,     \* /dev/null
          Diffs,    \* the diffs a model writes
          Disks     \* workspaces that are not the one a diff was made from

ASSUME PatchAssumption ==
    /\ Confined \subseteq Paths /\ Null \notin Paths
    /\ \A d \in Diffs : d \in Seq(Range(d))
    /\ \A files \in Disks : files = [p \in Paths |-> files[p]]

VARIABLES disk,    \* the files
          staged,  \* the temporary file beside each of them
          diff,    \* the diff being applied
          before,  \* the files it was asked of
          todo,    \* the operations of the commit still to come
          outcome, \* of the call
          fault    \* what cut it short
patchVars == <<disk, staged, diff, before, todo, outcome, fault>>

-----------------------------------------------------------------------------
NoFile == [there |-> FALSE, lines |-> <<>>, eof |-> FALSE]
File(lines, eof) == [there |-> TRUE, lines |-> lines, eof |-> eof]

(* A script is what turns one sequence of lines into another: the lines    *)
(* both have, those of the old one alone and those of the new one alone.   *)
(* How many of its first lines are old, and how many new.                  *)
OldLines(s, m) == Cardinality({i \in 1..m : s[i][1] # "add"})
NewLines(s, m) == Cardinality({i \in 1..m : s[i][1] # "drop"})

Aligned(s, a, b) ==
    /\ s \in Seq({"keep", "drop", "add"} \X (Range(a) \cup Range(b)))
    /\ OldLines(s, Len(s)) = Len(a) /\ NewLines(s, Len(s)) = Len(b)
    /\ \A i \in 1..Len(s) :
          /\ s[i][1] # "add" => a[OldLines(s, i)] = s[i][2]
          /\ s[i][1] # "drop" => b[NewLines(s, i)] = s[i][2]

(* The hunks show some stretches of a script, in order; what none of them  *)
(* shows, before, between and after them, has not changed.                 *)
Reached(shown, k) == IF k = 0 THEN 0 ELSE shown[k][2]
Cut(s, shown) ==
    /\ shown \in Seq((1..Len(s)) \X (1..Len(s)))
    /\ \A k \in 1..Len(shown) :
          Reached(shown, k - 1) < shown[k][1] /\ shown[k][1] <= shown[k][2]
    /\ \A k \in 0..Len(shown) : \A i \in (Reached(shown, k) + 1)..Len(s) :
          s[i][1] = "keep" \/ (k < Len(shown) /\ i >= shown[k + 1][1])

HunkOf(s, first, last) ==
    LET at == OldLines(s, first - 1)  count == OldLines(s, last) - at
    IN [start |-> IF count > 0 THEN at + 1 ELSE at, count |-> count,
        body |-> SubSeq(s, first, last)]

(* Whether a hunk shows the last line of the new file, and so its mark.    *)
EndIsShown(s, shown) ==
    \E k \in 1..Len(shown) : \E i \in shown[k][1]..shown[k][2] :
        s[i][1] # "drop" /\ NewLines(s, i) = NewLines(s, Len(s))

(* A diff from one file to another.                                        *)
EditOf(p, from, to, script, shown) ==
    [old |-> IF from.there THEN p ELSE Null, new |-> IF to.there THEN p ELSE Null,
     hunks |-> [k \in 1..Len(shown) |-> HunkOf(script, shown[k][1], shown[k][2])],
     bare |-> to.lines # <<>> /\ ~to.eof /\ EndIsShown(script, shown),
     from |-> from, to |-> to, script |-> script, shown |-> shown]

-----------------------------------------------------------------------------
(* One line of a hunk.                                                     *)
ApplyLine(lines, s, line) ==
    IF line[1] = "add" THEN [s EXCEPT !.out = Append(@, line[2])]
    ELSE [ok  |-> s.ok /\ s.at < Len(lines) /\ lines[s.at + 1] = line[2],
          out |-> IF line[1] = "keep" THEN Append(s.out, line[2]) ELSE s.out,
          at  |-> s.at + 1]

(* What-if: every hunk names the line it starts at.                        *)
StartAtTheLine(h) == h.start - 1
(* Where a hunk starts: a hunk without old lines names the line it follows. *)
Start(h) == IF h.count > 0 THEN h.start - 1 ELSE h.start

ApplyHunk(lines, s, h) ==
    LET after[i \in 0..Len(h.body)] ==
            IF i = 0 THEN [ok |-> TRUE, at |-> Start(h),
                           out |-> s.out \o SubSeq(lines, s.at + 1, Start(h))]
            ELSE ApplyLine(lines, after[i - 1], h.body[i])
    IN IF ~s.ok \/ Start(h) < s.at \/ Start(h) > Len(lines)
       THEN [s EXCEPT !.ok = FALSE]
       ELSE after[Len(h.body)]

ApplyHunks(lines, hunks) ==
    LET after[i \in 0..Len(hunks)] ==
            IF i = 0 THEN [ok |-> TRUE, out |-> <<>>, at |-> 0]
            ELSE ApplyHunk(lines, after[i - 1], hunks[i])
        s == after[Len(hunks)]
    IN [ok |-> s.ok, lines |-> s.out \o SubSeq(lines, s.at + 1, Len(lines))]

Target(e) == IF e.new # Null THEN e.new ELSE e.old
Original(e, files) == IF e.old = Null THEN <<>> ELSE files[Target(e)].lines

(* The file an edit leaves: terminated as the old one was, a new one       *)
(* always, unless the diff marks its new side.                             *)
Updated(e, files) ==
    IF e.new = Null THEN NoFile
    ELSE LET lines == ApplyHunks(Original(e, files), e.hunks).lines
         IN File(lines, /\ lines # <<>> /\ ~e.bare
                        /\ e.old = Null \/ files[Target(e)].eof)

(* Whether the dry run lets an edit through.                               *)
Accepted(e, files) ==
    /\ e.hunks # <<>>
    /\ e.old = e.new \/ Null \in {e.old, e.new}
    /\ Target(e) \in Confined
    /\ files[Target(e)].there <=> e.old # Null
    /\ LET result == ApplyHunks(Original(e, files), e.hunks)
       IN result.ok /\ (e.new = Null => result.lines = <<>>)

(* The dry run of the whole diff; a text without file headers has no edits. *)
DryRun(d, files) == d # <<>> /\ \A i \in 1..Len(d) : Accepted(d[i], files)

(* The commit's operations, each on an edit: every write is staged, then   *)
(* every one renamed, then come the deletions, in the order of the diff.   *)
Writes(d) == {i \in 1..Len(d) : d[i].new # Null}
Commit(d) == ({"stage", "rename"} \X Writes(d))
             \cup ({"unlink"} \X ((1..Len(d)) \ Writes(d)))
Phase == [stage |-> 1, rename |-> 2, unlink |-> 3]
(* What-if: each file is staged and renamed before the next.               *)
FileByFile(a, b) == a[2] < b[2] \/ (a[2] = b[2] /\ Phase[a[1]] < Phase[b[1]])
Precedes(a, b) == Phase[a[1]] < Phase[b[1]] \/ (a[1] = b[1] /\ a[2] < b[2])

(* The edits a diff is made of: from a file to a file, or between two      *)
(* paths.                                                                  *)
IsFile(x) ==
    /\ x = NoFile \/ x = File(x.lines, TRUE) \/ x = File(x.lines, FALSE)
    /\ x.lines \in Seq(Range(x.lines)) /\ (x.lines = <<>> => ~x.eof)
(* The mark is left out only where the old file had no newline either.     *)
Meant(e) ==
    /\ Aligned(e.script, e.from.lines, e.to.lines) /\ Cut(e.script, e.shown)
    /\ e = EditOf(Target(e), e.from, e.to, e.script, e.shown)
    /\ e.to.lines = <<>> \/ e.to.eof \/ e.bare \/ (e.from.there /\ ~e.from.eof)
Misnamed(e) == e.old # e.new /\ Null \notin {e.old, e.new}

ASSUME DiffAssumption ==
    \A d \in Diffs : \A i \in 1..Len(d) :
        /\ IsFile(d[i].from) /\ IsFile(d[i].to)
        /\ Meant(d[i]) \/ Misnamed(d[i])

-----------------------------------------------------------------------------
NoFiles == [p \in Paths |-> NoFile]
Idle ==
    /\ disk = NoFiles /\ staged = NoFiles /\ before = NoFiles
    /\ diff = <<>> /\ todo = {} /\ outcome = "none" /\ fault = "none"

(* The call is over; its diff may be asked for once more.                  *)
Forget(keep) ==
    /\ disk' = NoFiles /\ staged' = NoFiles /\ before' = NoFiles
    /\ diff' = (IF keep THEN diff ELSE <<>>)
    /\ todo' = {} /\ outcome' = "none" /\ fault' = "none"

(* The workspace a diff was made from.                                     *)
MadeFrom(d) ==
    [p \in Paths |->
        LET on == {i \in 1..Len(d) : Target(d[i]) = p}
        IN IF on = {} THEN NoFile
           ELSE d[CHOOSE i \in on : \A k \in on : i <= k].from]

(* The call parses the diff and dry-runs it; nothing is written yet.       *)
Plan(d, files) ==
    /\ outcome = "none"
    /\ diff' = d /\ disk' = files /\ before' = files
    /\ staged' = NoFiles
    /\ IF DryRun(d, files)
       THEN outcome' = "running" /\ todo' = Commit(d)
       ELSE outcome' = "rejected" /\ todo' = {}
    /\ UNCHANGED fault

(* The commit has come to this operation on the i-th edit.                 *)
Running(do, i) ==
    /\ outcome = "running" /\ <<do, i>> \in todo
    /\ \A op \in todo : op = <<do, i>> \/ Precedes(<<do, i>>, op)

Done(do, i) == /\ Running(do, i)
               /\ todo' = todo \ {<<do, i>>}
               /\ UNCHANGED <<diff, before, outcome, fault>>

StageFile(i) ==
    /\ Done("stage", i)
    /\ staged' = [staged EXCEPT ![Target(diff[i])] = Updated(diff[i], before)]
    /\ UNCHANGED disk

RenameFile(i) ==
    LET p == Target(diff[i]) IN
    /\ Done("rename", i) /\ staged[p].there
    /\ disk' = [disk EXCEPT ![p] = staged[p]]
    /\ staged' = [staged EXCEPT ![p] = NoFile]

UnlinkFile(i) ==
    /\ Done("unlink", i) /\ disk[Target(diff[i])].there
    /\ disk' = [disk EXCEPT ![Target(diff[i])] = NoFile]
    /\ UNCHANGED staged

(* A failing operation raises out of the call, and what was staged stays;  *)
(* a failing rename takes its own temporary file with it.                  *)
Fail(why) ==
    /\ outcome' = "failed" /\ fault' = why /\ todo' = {}
    /\ UNCHANGED <<disk, diff, before>>

StageFails(i) == Running("stage", i) /\ Fail("stage") /\ UNCHANGED staged

CommitFails(i) ==
    /\ Running("rename", i) \/ Running("unlink", i)
    /\ Fail("commit")
    /\ staged' = [staged EXCEPT ![Target(diff[i])] = NoFile]

(* The file of a second edit of the same path: its temporary file is gone, *)
(* or the file itself.                                                     *)
FileIsGone(i) ==
    /\ \/ Running("rename", i) /\ ~staged[Target(diff[i])].there
       \/ Running("unlink", i) /\ ~disk[Target(diff[i])].there
    /\ Fail("gone") /\ UNCHANGED staged

Applied ==
    /\ outcome = "running" /\ todo = {}
    /\ outcome' = "ok"
    /\ UNCHANGED <<disk, staged, diff, before, todo, fault>>

Proceed ==
    \/ Applied
    \/ \E i \in 1..Len(diff) :
          StageFile(i) \/ RenameFile(i) \/ UnlinkFile(i)
          \/ StageFails(i) \/ CommitFails(i) \/ FileIsGone(i)

-----------------------------------------------------------------------------
EditsOf(p) == {i \in 1..Len(diff) : Target(diff[i]) = p}
Whole == [p \in Paths |-> IF EditsOf(p) = {} THEN before[p]
                          ELSE Updated(diff[CHOOSE i \in EditsOf(p) : TRUE], before)]

(* The second edit of a path is dry-run against the file the first edit    *)
(* has not touched yet.                                                    *)
Repeated == \E i, k \in 1..Len(diff) : i < k /\ Target(diff[i]) = Target(diff[k])

(* The whole diff applies or none of it does (tools/patch.py, execute):    *)
(* success is every file, a rejection or a failed staging none of them;    *)
(* and no file ever holds anything but its old text or one edit's whole    *)
(* result, even after a crash.  Excused: a failing rename or deletion, and *)
(* a diff that edits a path twice.                                         *)
WholeOrNothing ==
    /\ outcome = "ok" /\ ~Repeated => disk = Whole /\ \A p \in Paths : ~staged[p].there
    /\ outcome \in {"rejected", "failed"} /\ fault \notin {"commit", "gone"} => disk = before
    /\ fault = "gone" => Repeated
    /\ \A p \in Paths : disk[p] \in {before[p]} \cup {Updated(diff[i], before) : i \in EditsOf(p)}

(* What a successful call leaves is what the diff means, for the files it  *)
(* was made from: the hunk arithmetic of _apply_hunks and the newline at   *)
(* the end.  The one exception: a file that did not end in a newline stays *)
(* so, even when the diff adds it.                                         *)
OkIsTheDiff ==
    outcome = "ok" /\ ~Repeated =>
        \A i \in 1..Len(diff) :
            LET p == Target(diff[i])  from == diff[i].from  to == diff[i].to IN
            before[p] = from =>
                disk[p] = IF from.there /\ ~from.eof THEN [to EXCEPT !.eof = FALSE] ELSE to

(* What tools/patch.py says of itself, "Only a crash in the middle of the  *)
(* rename sequence can split a commit": whatever the call reports as an    *)
(* error, file-system errors of the commit aside, has touched nothing.  A  *)
(* diff that names a path twice refutes it under MCTool_turn.cfg.          *)
OnlyACrashSplits ==
    outcome \in {"rejected", "failed"} /\ fault # "commit" => disk = before
=============================================================================
