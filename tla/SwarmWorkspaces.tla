---------------------------- MODULE SwarmWorkspaces ----------------------------
(* Private copies of a task's worktree for the parallel instances of a worker:
   prepare makes a copy and seeds it with what the shared worktree holds,
   integrate applies what the instance wrote back, one merge at a time, and
   cleanup drops every copy when the next task begins.

   The text of a file is the set of changes it carries, and whether a three-way
   merge left conflict markers in it. A merge works on the whole patch: git
   refuses it, applies it, or stops with some of its files in conflict. *)
EXTENDS Naturals, Sequences, FiniteSets, SequencesExt

CONSTANTS
  Instances,   \* builder#2, builder#3...: workers that get a copy
  Tracked,     \* files the index of the shared worktree knows
  Untracked,   \* files it does not: seeded one by one, after the tracked ones
  MaxRuns,     \* bound of the model: delegations and revisions, of all instances
  MaxUpsets    \* bound of the model: edits in the shared worktree itself, and failures

Files == Tracked \cup Untracked
Direct == "direct"                         \* author of an edit in the shared worktree
Changes == (Instances \X (1..MaxRuns)) \cup ({Direct} \X (1..MaxUpsets))
Text == [has: SUBSET Changes, marked: BOOLEAN]
Empty == [f \in Files |-> [has |-> {}, marked |-> FALSE]]

ASSUME SwarmAssumption ==
  /\ Tracked \cap Untracked = {} /\ Direct \notin Instances
  /\ MaxRuns \in Nat /\ MaxUpsets \in Nat

VARIABLES
  base,      \* file -> its text in the shared worktree
  indexed,   \* files whose entry in the shared index is their text
  at,        \* instance -> where its delegation is
  run,       \* instance -> the run it is in, 0 before its first
  live,      \* instances with an entry in the map `live`
  disk,      \* instances whose copy is on disk
  copy,      \* instance -> text of its copy
  seed,      \* instance -> the baseline commit of its copy
  queue,     \* mergeChain: instances whose merge waits or runs
  seen,      \* instance -> the shared worktree as its merge read it
  outcome,   \* instance -> what its last delegation was recorded as
  dropping,  \* instances the cleanup of the next task has still to drop
  closed,    \* the next task has begun
  spent,     \* runs begun, edits in the shared worktree, failures
  known,     \* history: instance -> accepted changes when its copy was asked for
  others,    \* history: instance -> files that others changed since then
  accepted   \* history: what a merge reported as integrated, as <<change, file>>

vars == <<base, indexed, at, run, live, disk, copy, seed, queue, seen, outcome,
          dropping, closed, spent, known, others, accepted>>
shared == <<base, indexed>>
copies == <<live, disk, copy, seed>>
history == <<known, others, accepted>>
task == <<dropping, closed>>

Init ==
  /\ base = Empty /\ indexed = Tracked
  /\ at = [i \in Instances |-> "idle"]
  /\ run = [i \in Instances |-> 0]
  /\ live = {} /\ disk = {}
  /\ copy = [i \in Instances |-> Empty]
  /\ seed = [i \in Instances |-> Empty]
  /\ queue = <<>> /\ seen = [i \in Instances |-> Empty]
  /\ outcome = [i \in Instances |-> "none"]
  /\ dropping = {} /\ closed = FALSE
  /\ spent = [runs |-> 0, direct |-> 0, faults |-> 0]
  /\ known = [i \in Instances |-> {}]
  /\ others = [i \in Instances |-> {}]
  /\ accepted = {}

Change(i) == <<i, run[i]>>
Upset == spent.direct + spent.faults < MaxUpsets
Spend == Upset /\ spent' = [spent EXCEPT !.faults = @ + 1]

\* A file changed for everybody who did not do it.
Disturb(by, F) == [i \in Instances |-> IF i = by THEN others[i] ELSE others[i] \cup F]

-----------------------------------------------------------------------------
(* prepare *)

\* task_delegate or task_revise of an instance that is not running: parallel
\* delegations to one instance are kept apart by its lock. `drop` takes the
\* entry out of the map before it awaits the removal of the copy.
Prepare(i) ==
  /\ ~closed /\ at[i] = "idle" /\ spent.runs < MaxRuns
  /\ spent' = [spent EXCEPT !.runs = @ + 1]
  /\ run' = [run EXCEPT ![i] = spent.runs + 1]
  /\ outcome' = [outcome EXCEPT ![i] = "none"]
  /\ at' = [at EXCEPT ![i] = "clearing"]
  /\ live' = live \ {i}
  /\ known' = [known EXCEPT ![i] = accepted]
  /\ others' = [others EXCEPT ![i] = {}]
  /\ UNCHANGED <<shared, disk, copy, seed, queue, seen, task, accepted>>

\* git worktree remove, in `drop` and again if the directory is still there. A
\* failure of it is swallowed.
Removed(i) ==
  /\ disk' = disk \ {i} /\ UNCHANGED spent
  /\ copy' = [copy EXCEPT ![i] = Empty] /\ seed' = [seed EXCEPT ![i] = Empty]
NotRemoved(i) == i \in disk /\ Spend /\ UNCHANGED <<disk, copy, seed>>
ClearCopy(i) ==
  /\ at[i] = "clearing"
  /\ Removed(i) \/ NotRemoved(i)
  /\ at' = [at EXCEPT ![i] = "adding"]
  /\ UNCHANGED <<shared, run, live, queue, seen, outcome, task, history>>

WithBase(i, F) == [copy EXCEPT ![i] = [f \in Files |-> IF f \in F THEN base[f] ELSE @[f]]]

\* Mutant: a directory that is already there is taken as the copy.
ReuseCopy(i) ==
  /\ at[i] = "adding"
  /\ disk' = disk \cup {i}
  /\ copy' = IF i \in disk THEN copy ELSE WithBase(i, Tracked)
  /\ at' = [at EXCEPT ![i] = IF i \in disk THEN "working" ELSE "seeding"]
  /\ live' = IF i \in disk THEN live \cup {i} ELSE live
  /\ UNCHANGED <<shared, run, seed, queue, seen, outcome, task, spent, history>>

\* Mutant: the copy starts from the last commit, without the task's changes.
AddBareCopy(i) ==
  /\ at[i] = "adding" /\ i \notin disk
  /\ disk' = disk \cup {i} /\ UNCHANGED copy
  /\ at' = [at EXCEPT ![i] = "seeding"]
  /\ UNCHANGED <<shared, run, live, seed, queue, seen, outcome, task, spent, history>>

\* git worktree add -B, refused when the directory is still there; then the
\* tracked files: `git diff` of the shared worktree against its HEAD, applied.
AddCopy(i) ==
  /\ at[i] = "adding" /\ i \notin disk
  /\ disk' = disk \cup {i}
  /\ copy' = WithBase(i, Tracked)
  /\ at' = [at EXCEPT ![i] = "seeding"]
  /\ UNCHANGED <<shared, run, live, seed, queue, seen, outcome, task, spent, history>>

\* The untracked files, copied later one by one; then the baseline commit, and
\* the entry in the map.
SeedUntracked(i) ==
  /\ at[i] = "seeding"
  /\ copy' = WithBase(i, Untracked)
  /\ seed' = [seed EXCEPT ![i] = copy'[i]]
  /\ live' = live \cup {i}
  /\ at' = [at EXCEPT ![i] = "working"]
  /\ UNCHANGED <<shared, run, disk, queue, seen, outcome, task, spent, history>>

\* prepare throws: the directory exists already, or a command of the seeding
\* failed. The delegation fails; what is on disk has no entry in the map.
PrepareFails(i) ==
  /\ \/ at[i] = "adding" /\ i \in disk /\ UNCHANGED spent
     \/ at[i] = "seeding" /\ Spend
  /\ at' = [at EXCEPT ![i] = "idle"]
  /\ outcome' = [outcome EXCEPT ![i] = "failed"]
  /\ UNCHANGED <<shared, run, copies, queue, seen, task, history>>

-----------------------------------------------------------------------------
(* The instance works, and hands its copy in *)

\* A worker resolves the markers of a file it edits.
Write(i, F) ==
  /\ at[i] = "working"
  /\ copy' = [copy EXCEPT ![i] = [f \in Files |->
       IF f \in F THEN [has |-> @[f].has \cup {Change(i)}, marked |-> FALSE] ELSE @[f]]]
  /\ at' = [at EXCEPT ![i] = "merging"]
  /\ queue' = Append(queue, i)
  /\ known' = [known EXCEPT ![i] = {}]
  /\ UNCHANGED <<shared, run, live, disk, seed, seen, outcome, task, spent, others, accepted>>

\* The run ends without a result: no seen, and the copy stays.
RunFails(i) ==
  /\ at[i] = "working" /\ Spend
  /\ at' = [at EXCEPT ![i] = "idle"]
  /\ outcome' = [outcome EXCEPT ![i] = "failed"]
  /\ UNCHANGED <<shared, run, copies, queue, seen, task, history>>

\* Somebody who shares the task worktree edits a file of it.
EditShared(f) ==
  /\ ~closed /\ Upset
  /\ spent' = [spent EXCEPT !.direct = @ + 1]
  /\ base' = [base EXCEPT ![f].has = @ \cup {<<Direct, spent.direct + 1>>}]
  /\ indexed' = indexed \ {f}
  /\ others' = Disturb(Direct, {f})
  /\ UNCHANGED <<at, run, copies, queue, seen, outcome, task, known, accepted>>

-----------------------------------------------------------------------------
(* integrate *)

Patch(i) == {f \in Files : copy[i][f] # seed[i][f]}

\* mergeChain.then(run, run): a merge begins when the one before it settled.
Turn(i) == Head(queue) = i

\* Mutant: a merge that throws breaks the chain.
ChainBreaks(i, result) ==
  /\ queue' = IF result = "failed" THEN queue ELSE Tail(queue)
  /\ seen' = [seen EXCEPT ![i] = Empty]
  /\ at' = [at EXCEPT ![i] = "idle"]
  /\ outcome' = [outcome EXCEPT ![i] = result]

\* The delegation is recorded with what the merge returned, or failed if it threw; whose
\* turn it was leaves the chain.
Settle(i, result) ==
  /\ queue' = Tail(queue)
  /\ seen' = [seen EXCEPT ![i] = Empty]
  /\ at' = [at EXCEPT ![i] = "idle"]
  /\ outcome' = [outcome EXCEPT ![i] = result]

\* No entry in the map, the copy was dropped under it: a noop.
MergeOfNone(i) ==
  /\ at[i] = "merging" /\ Turn(i) /\ i \notin live
  /\ Settle(i, "completed")
  /\ UNCHANGED <<shared, run, copies, task, spent, history>>

\* The diff against the baseline is empty: a noop, and the copy goes.
MergeOfNothing(i) ==
  /\ at[i] = "merging" /\ Turn(i) /\ i \in live
  /\ i \in disk /\ Patch(i) = {}
  /\ at' = [at EXCEPT ![i] = "merged"]
  /\ live' = live \ {i}
  /\ UNCHANGED <<shared, run, disk, copy, seed, queue, seen, outcome, task, spent, history>>

\* The diff fails (the copy is not there, git fails), or the patch cannot be
\* written and integrate throws. The copy keeps its entry.
MergeBreaks(i) ==
  /\ at[i] = "merging" /\ Turn(i) /\ i \in live
  /\ (i \notin disk /\ UNCHANGED spent) \/ (Spend)
  /\ \E result \in {"blocked", "failed"}: Settle(i, result)
  /\ UNCHANGED <<shared, run, copies, task, history>>

\* git apply reads the files of the patch...
MergeReads(i) ==
  /\ at[i] = "merging" /\ Turn(i) /\ i \in live /\ i \in disk /\ Patch(i) # {}
  /\ seen' = [seen EXCEPT ![i] = base]
  /\ at' = [at EXCEPT ![i] = "applying"]
  /\ UNCHANGED <<shared, run, copies, queue, outcome, task, spent, history>>

\* ...and writes them. F is what could be written, C of it in conflict.
Applied(i, F, C) ==
  [f \in Files |-> IF f \in F
     THEN [has |-> seen[i][f].has \cup copy[i][f].has,
           marked |-> f \in C \/ (seen[i][f].marked /\ copy[i][f].marked)]
     ELSE base[f]]

Moved(i) == {f \in Patch(i) : seen[i][f] # seed[i][f]}
ThreeWay(i) == Patch(i) \subseteq indexed

\* git apply --3way when the index has every file of the patch as it is on disk,
\* a plain git apply otherwise: all of the patch went in, and `drop` begins.
Lands(i) ==
  /\ at[i] = "applying"
  /\ base' = Applied(i, Patch(i), {})
  /\ indexed' = IF ThreeWay(i) THEN indexed ELSE indexed \ Patch(i)
  /\ accepted' = accepted \cup ({Change(i)} \X {f \in Patch(i) : Change(i) \in copy[i][f].has})
  /\ others' = Disturb(i, Patch(i))
  /\ live' = live \ {i}
  /\ at' = [at EXCEPT ![i] = "merged"]
  /\ seen' = [seen EXCEPT ![i] = Empty]
  /\ UNCHANGED <<run, disk, copy, seed, queue, outcome, task, spent, known>>

\* A file of the patch is no longer what the copy was seeded with. The
\* three-way merge writes the files it can and markers into the others, and
\* fails; the plain apply that follows cannot apply either. Without the index,
\* the plain apply refuses the whole patch. The copy stays.
Conflicts(i) ==
  /\ at[i] = "applying" /\ Moved(i) # {}
  /\ IF ThreeWay(i)
     THEN \E C \in SUBSET Moved(i) \ {{}}:
            /\ base' = Applied(i, Patch(i), C)
            /\ indexed' = indexed \ C
            /\ others' = Disturb(i, Patch(i))
     ELSE UNCHANGED <<shared, others>>
  /\ Settle(i, "blocked")
  /\ UNCHANGED <<run, copies, task, spent, known, accepted>>

\* The end of `drop`: the copy is removed, or its removal failed and was swallowed.
MergeEnds(i) ==
  /\ at[i] = "merged"
  /\ Removed(i) \/ NotRemoved(i)
  /\ Settle(i, "completed")
  /\ UNCHANGED <<shared, run, live, task, history>>

-----------------------------------------------------------------------------
(* The next task *)

\* runTask: cleanup() of every group, with the entries as they are now.
NextTask ==
  /\ ~closed
  /\ closed' = TRUE /\ dropping' = live
  /\ UNCHANGED <<shared, at, run, copies, queue, seen, outcome, spent, history>>

DropNext(i) ==
  /\ i \in dropping
  /\ dropping' = dropping \ {i}
  /\ IF i \in live THEN live' = live \ {i} /\ (Removed(i) \/ NotRemoved(i))
     ELSE UNCHANGED <<copies, spent>>
  /\ UNCHANGED <<shared, at, run, queue, seen, outcome, closed, history>>

Merging(i) ==
  \/ MergeOfNone(i) \/ MergeOfNothing(i) \/ MergeBreaks(i) \/ MergeReads(i)
  \/ Lands(i) \/ Conflicts(i) \/ MergeEnds(i)

Next ==
  \/ \E i \in Instances:
       \/ Prepare(i) \/ ClearCopy(i) \/ AddCopy(i) \/ SeedUntracked(i)
       \/ PrepareFails(i) \/ RunFails(i)
       \/ \E F \in SUBSET Files: Write(i, F)
       \/ Merging(i) \/ DropNext(i)
  \/ \E f \in Files: EditShared(f)
  \/ NextTask

Spec == Init /\ [][Next]_vars
FairSpec == Spec /\ \A i \in Instances: WF_vars(Merging(i))

-----------------------------------------------------------------------------
(* What makes it correct *)

TypeOK ==
  /\ base \in [Files -> Text] /\ indexed \subseteq Tracked
  /\ at \in [Instances -> {"idle", "clearing", "adding", "seeding", "working",
                           "merging", "applying", "merged"}]
  /\ run \in [Instances -> 0..MaxRuns]
  /\ live \subseteq Instances /\ disk \subseteq Instances /\ dropping \subseteq Instances
  /\ copy \in [Instances -> [Files -> Text]] /\ seed \in [Instances -> [Files -> Text]]
  /\ Range(queue) = {i \in Instances : at[i] \in {"merging", "applying", "merged"}}
  /\ outcome \in [Instances -> {"none", "completed", "blocked", "failed"}]

\* What a merge reported as integrated stays in the shared worktree: no later
\* merge, conflict or seeding takes it out (integrate, the chain of merges).
IntegratedStays == \A p \in accepted: p[1] \in base[p[2]].has

\* A delegation recorded as completed has its work in the shared worktree, unless
\* the next task had begun and dropped the copy (integrate returns noop then).
CompletedIsMerged ==
  [][\A i \in Instances: at[i] # "idle" /\ outcome'[i] = "completed" /\ ~closed =>
       {Change(i)} \X {f \in Files : Change(i) \in copy[i][f].has} \subseteq accepted']_vars

\* An instance starts from the shared state: its copy has all that was
\* integrated before the copy was asked for (prepare, seedBaseline).
StartsFromShared ==
  \A i \in Instances: at[i] = "working" /\ i \in disk =>
    \A p \in known[i]: p[1] \in copy[i][p[2]].has

\* A merge is turned down only for a file that somebody else changed while the
\* instance had its copy, or for a failure (seedBaseline against the diff).
ConflictHasCause ==
  [][\A i \in Instances:
       at[i] # "idle" /\ outcome'[i] = "blocked" /\ spent'.faults = 0 /\ ~closed =>
         Patch(i) \cap others[i] # {}]_vars

\* A copy that is gone was merged, or belongs to a run that was given up: it is
\* being revised, or the next task has begun ("Kept on disk for inspection").
UnmergedIsKept ==
  [][\A i \in disk \ disk': closed \/ at[i] \in {"clearing", "merged"}]_vars

\* A merge that was asked for ends, whatever became of those before it.
MergesEnd == \A i \in Instances: at[i] = "merging" ~> at[i] = "idle"

\* The shared worktree keeps what was integrated, and every copy starts from it.
SharedIsKept == TypeOK /\ IntegratedStays /\ StartsFromShared

\* What a merge reports is so: completed has its work in the shared worktree, a conflict has a
\* cause, and a copy that is gone was not needed (integrate, dispose).
ReportIsTrue == CompletedIsMerged /\ ConflictHasCause /\ UnmergedIsKept
=============================================================================
