------------------------------- MODULE CodeTask -------------------------------
(* The life of a task of the coordinator: runTask, cancelTask, resumeTask, the end of
   a session, and what a process does with the tasks and the worktrees of the one
   before it. All of them are async methods of one object: they interleave at their
   awaits, and they share `activeTaskId`, which most lines read anew. The harness is
   a service that works in the worktree of its task and ends in some way. Statuses
   reach the database through the queue of the scribe, in order, later. *)
EXTENDS Naturals, Sequences, SequencesExt, FiniteSets

CONSTANTS
  Tasks,
  Mutating,       \* tasks whose objective needs a worktree of their own
  Ends,           \* bound of the model: the ends of a harness, of Results
  MaxStops,       \* bound of the model: stops that are asked for in the life of a process
  MaxStarts,      \* bound of the model: processes, one after the other
  MaxUpsets,      \* bound of the model: events of the list below in a behaviour
  Upsets          \* which of them may happen

\* A worktree cannot be made; a second task begins beside a running one; the person
\* leaves the session of a running task; a stop outlives its deadline; a stop is asked
\* for when the harness has ended; the process dies; `task resume`; `task cleanup`.
UpsetKinds ==
  {"prepare", "overlap", "switch", "deadline", "late", "crash", "resume", "cleanup"}

Results == {"completed", "paused", "failed", "cancelled"}
NoTask == "none"

\* Every task that anybody asks for has an id, and there are finitely many documents.
ASSUME CodeTaskAssumption ==
  /\ IsFiniteSet(Tasks) /\ NoTask \notin Tasks /\ Ends \subseteq Results
  /\ Mutating \subseteq Tasks /\ Upsets \subseteq UpsetKinds
  /\ MaxStops \in Nat /\ MaxStarts \in Nat /\ MaxUpsets \in Nat

VARIABLES
  doc,       \* status of the document of a task, "none" before it is written
  queue,     \* what the scribe has not done yet: <<task, status>>, or a flush of a stop
  tree,      \* the worktree: "none", "clean", "dirty", or "applied" to the project
  active,    \* activeTaskId
  held,      \* taskWorkspaces: tasks this process knows an isolated worktree of
  pc,        \* the run and the stop of each task: where it is, the task whose worktree it
             \* integrates or tidies up, and how the run will be recorded
  again,     \* tasks whose run is a resumed one
  key,       \* taskExecutions: the task under which a running harness is tracked
  stopped,   \* cancelledTasks
  asked,     \* how many stops were asked for
  integrates,\* tasks whose stop applies the work: the limit of time asked for it
  sweep,     \* the sweep of leftover worktrees: its phase, what it spares, what it found
  up,        \* a process runs
  \* history
  starts, upset,
  left,      \* tasks whose session was left while they were going
  planned,   \* tasks with a row of the harness: those that can be resumed
  lost       \* tasks whose work was destroyed, by the "task" or by the "sweep"

memory == <<active, held, pc, again, key, stopped, asked, integrates, sweep, up>>
past == <<starts, upset, left, planned, lost>>
vars == <<doc, queue, tree, memory, past>>

Run(t) == <<"run", t>>
Stop(t) == <<"stop", t>>
Agents == {"run", "stop"} \X Tasks
At(a) == pc[a].at
Going(t) == At(Run(t)) \notin {"idle", "over"}
AnyGoing == \E t \in Tasks : Going(t)
Stopping(t) == At(Stop(t)) \notin {"idle", "done"}

Terminal == {"completed", "failed", "cancelled"}
Asleep == [phase |-> "none", spared |-> {}, found |-> {}]

Just(place) == [at |-> place, goal |-> NoTask, as |-> "none"]

Init ==
  /\ doc = [t \in Tasks |-> "none"] /\ queue = <<>>
  /\ tree = [t \in Tasks |-> "none"]
  /\ active = NoTask /\ held = {} /\ stopped = {} /\ asked = 0 /\ again = {} /\ integrates = {}
  /\ pc = [a \in Agents |-> Just("idle")] /\ key = [t \in Tasks |-> NoTask]
  /\ sweep = Asleep /\ up = FALSE
  /\ starts = 0 /\ upset = {} /\ left = {} /\ planned = {} /\ lost = {}

\* Each kind of upset happens at most once, MaxUpsets of them in all.
Happens(kind) ==
  /\ kind \in Upsets \ upset /\ Cardinality(upset) < MaxUpsets
  /\ upset' = upset \cup {kind}
HappensIf(condition, kind) ==
  IF condition THEN Happens(kind) ELSE UNCHANGED upset
Without(kinds) == upset \cap kinds = {}

Goto(a, place) == pc' = [pc EXCEPT ![a] = Just(place)]
Moves(a, place) == pc' = [pc EXCEPT ![a].at = place]
GotoFor(a, place, x, result) == pc' = [pc EXCEPT ![a] = [at |-> place, goal |-> x, as |-> result]]

-----------------------------------------------------------------------------
(* The scribe and the worktrees *)

\* updateTaskStatus: a write without a task reaches no document.
Post(t, status) ==
  queue' = IF t = NoTask THEN queue ELSE Append(queue, <<t, status>>)

PatchedAnyhow(old, status) == status
\* A task that is cancelled stays cancelled.
Patched(old, status) ==
  IF old = "cancelled" THEN old ELSE status

\* The scribe does the next write. A stop between its read, which follows its flush, and its
\* put is refused: the version of the document is another one.
Drain ==
  /\ queue # <<>>
  /\ LET t == Head(queue)[1]
         what == Head(queue)[2]
     IN IF what = "flush"
        THEN Goto(Stop(t), "putting") /\ UNCHANGED doc
        ELSE /\ doc' = [doc EXCEPT ![t] = Patched(@, what)]
             /\ IF At(Stop(t)) = "putting" THEN Goto(Stop(t), "idle") ELSE UNCHANGED pc
  /\ queue' = Tail(queue)
  /\ UNCHANGED <<tree, active, held, again, key, stopped, asked, integrates, sweep,
                 up, past>>

\* git worktree remove --force: what was not applied is gone.
RemoveTree(t, who) ==
  /\ tree' = [tree EXCEPT ![t] = "none"]
  /\ lost' = IF tree[t] = "dirty" THEN lost \cup {<<t, who>>} ELSE lost

\* What integrateTaskWorkspace did up to the removal: there was nothing isolated; the diff
\* is in the project; or it was refused, and the task is paused.
NothingToApply(x) == x \notin held /\ UNCHANGED <<tree, queue>>
Apply(x) ==
  /\ x \in held /\ tree[x] # "none"
  /\ tree' = [tree EXCEPT ![x] = IF @ = "dirty" THEN "applied" ELSE @]
  /\ UNCHANGED queue
NotApplied(x) ==
  /\ x \in held /\ tree[x] # "clean"
  /\ Post(x, "paused")
  /\ UNCHANGED tree

HasNoChanges(x) == FALSE
HasChanges(x) == tree[x] \in {"dirty", "applied"}

\* cleanupTaskWorkspaceIfClean looks at the diff, and removes the worktree in a second step.
End(a) == IF a[1] = "run" THEN "over" ELSE "done"
TidyLooks(a) ==
  /\ At(a) = "tidying"
  /\ LET x == pc[a].goal IN
     IF x \in held /\ tree[x] # "none" /\ ~HasChanges(x)
     THEN Moves(a, "discarding") ELSE Goto(a, End(a))
  /\ UNCHANGED <<doc, queue, tree, active, held, again, key, stopped, asked,
                 integrates, sweep, up, past>>

\* The removal that follows: of a clean worktree, or of one that was integrated.
Removes(a) ==
  /\ At(a) \in {"discarding", "removing"}
  /\ RemoveTree(pc[a].goal, "task")
  /\ IF a[1] = "run" /\ At(a) = "removing" THEN Moves(a, "settling") ELSE Goto(a, End(a))
  /\ UNCHANGED <<doc, queue, active, held, again, key, stopped, asked, integrates,
                 sweep, up, starts, upset, left, planned>>

-----------------------------------------------------------------------------
(* runTask and resumeTask *)

Begin(t) ==
  /\ up /\ At(Run(t)) = "idle"
  /\ HappensIf(AnyGoing, "overlap")
  /\ active' = t
  /\ Post(t, "pending")
  /\ Goto(Run(t), "preparing")
  /\ UNCHANGED <<doc, tree, held, again, key, stopped, asked, integrates, sweep, up,
                 starts, left, planned, lost>>

\* resumeTask: the session of the task may be another one than that of the person.
Resume(t) ==
  /\ up /\ ~AnyGoing /\ t \in planned /\ doc[t] \in {"paused", "failed"}
  /\ Happens("resume")
  /\ active' \in {t, NoTask}
  /\ again' = again \cup {t}
  /\ Goto(Run(t), "preparing")
  /\ UNCHANGED <<doc, queue, tree, held, key, stopped, asked, integrates, sweep, up,
                 starts, left, planned, lost>>

\* ensureTaskWorkspace: a worktree that exists is taken as it is.
Prepare(t) ==
  /\ At(Run(t)) = "preparing"
  /\ held' = IF t \in Mutating THEN held \cup {t} ELSE held
  /\ IF t \in Mutating /\ tree[t] = "none"
     THEN /\ tree' = [tree EXCEPT ![t] = "clean"]
          /\ IF active = t THEN Post(t, "planning") ELSE UNCHANGED queue
     ELSE UNCHANGED <<tree, queue>>
  /\ Goto(Run(t), IF t \in again THEN "running" ELSE "ready")
  /\ UNCHANGED <<doc, active, again, key, stopped, asked, integrates, sweep, up, past>>

\* Outside of the try of runTask: nobody settles the task.
PrepareFails(t) ==
  /\ At(Run(t)) = "preparing" /\ t \in Mutating /\ tree[t] = "none"
  /\ Happens("prepare")
  /\ held' = held \cup {t}
  /\ Goto(Run(t), "over")
  /\ UNCHANGED <<doc, queue, tree, active, again, key, stopped, asked, integrates,
                 sweep, up, starts, left, planned, lost>>

\* trackExecution: under whatever task is active by now, and with its signal.
StartHarness(t) ==
  /\ At(Run(t)) = "ready"
  /\ key' = [key EXCEPT ![t] = active]
  /\ planned' = planned \cup {t}
  /\ Goto(Run(t), IF active \in stopped THEN "aborted" ELSE "running")
  /\ UNCHANGED <<doc, queue, tree, active, held, again, stopped, asked, integrates,
                 sweep, up, starts, upset, left, lost>>

\* The workers write in the worktree of their own task.
Work(t) ==
  /\ At(Run(t)) = "running" /\ tree[t] \in {"clean", "applied"}
  /\ tree' = [tree EXCEPT ![t] = "dirty"]
  /\ UNCHANGED <<doc, queue, memory, past>>

\* An execution that ends is forgotten under the task it was tracked by, whoever's it is.
Forget(t) ==
  key' = [u \in Tasks |-> IF key[t] # NoTask /\ key[u] = key[t] THEN NoTask ELSE key[u]]

CheckNothing == FALSE
CheckStopped == active \in stopped

\* The harness ends. What follows is decided by the task that is active now; a resumed
\* run goes by its own.
HarnessEnds(t, result) ==
  /\ At(Run(t)) \in {"running", "aborted"}
  /\ Forget(t)
  /\ IF t \notin again /\ CheckStopped THEN Goto(Run(t), "over")
     ELSE GotoFor(Run(t), IF result = "completed" THEN "applying" ELSE "settling",
                  IF t \in again THEN t ELSE active,
                  IF t \in again /\ result # "completed" THEN "paused" ELSE result)
  /\ UNCHANGED <<doc, queue, tree, active, held, again, stopped, asked, integrates, sweep, up, past>>

\* The harness throws: runTask settles the active task and tidies up, unless that task is
\* being stopped; resumeTask leaves everything as it was.
HarnessThrows(t) ==
  /\ At(Run(t)) \in {"running", "aborted"}
  /\ Forget(t)
  /\ IF t \in again \/ active = NoTask \/ CheckStopped
     THEN Goto(Run(t), "over") /\ UNCHANGED queue
     ELSE GotoFor(Run(t), "tidying", active, "none") /\ Post(active, "failed")
  /\ UNCHANGED <<doc, tree, active, held, again, stopped, asked, integrates, sweep, up, past>>

HeldAsDone(t) == pc[Run(t)].as
\* The work stays in its worktree: the task is paused. resumeTask does not look.
Held(t) == IF t \in again THEN pc[Run(t)].as ELSE "held"

Merge(t) ==
  /\ At(Run(t)) = "applying"
  /\ LET x == pc[Run(t)].goal IN
     \/ NothingToApply(x) /\ Moves(Run(t), "settling")
     \/ Apply(x) /\ Moves(Run(t), "removing")
     \/ NotApplied(x) /\ GotoFor(Run(t), "settling", x, Held(t))
  /\ UNCHANGED <<doc, active, held, again, key, stopped, asked, integrates, sweep, up, past>>

\* The status goes to the task that is active now; that of a resumed run, to its own. A task
\* that waits or failed is tidied up.
Settle(t) ==
  /\ At(Run(t)) = "settling"
  /\ LET x == IF t \in again THEN t ELSE active
         result == pc[Run(t)].as
     IN /\ Post(x, IF result = "held" THEN "paused" ELSE result)
        /\ IF result \in {"completed", "held"} \/ t \in again \/ active = NoTask
           THEN Goto(Run(t), "over") ELSE GotoFor(Run(t), "tidying", x, "none")
  /\ UNCHANGED <<doc, tree, active, held, again, key, stopped, asked, integrates, sweep, up, past>>

-----------------------------------------------------------------------------
(* cancelTask: one at a time for a task. One that is refused may be asked for again. *)

AskStop(t, byClock) ==
  /\ up /\ At(Stop(t)) = "idle" /\ doc[t] # "none"
  /\ asked < MaxStops /\ asked' = asked + 1
  /\ byClock => active = t /\ Going(t)
  /\ HappensIf(At(Run(t)) \in {"applying", "removing", "settling", "tidying", "discarding"},
               "late")
  /\ IF doc[t] \in Terminal
     THEN Goto(Stop(t), "done") /\ UNCHANGED <<stopped, integrates>>
     ELSE /\ Goto(Stop(t), "waiting")
          /\ stopped' = stopped \cup {t}
          /\ integrates' = IF byClock THEN integrates \cup {t} ELSE integrates \ {t}
  /\ UNCHANGED <<doc, queue, tree, active, held, again, key, sweep, up,
                 starts, left, planned, lost>>

\* The execution that is tracked under the task has ended: flush.
StopFlushes(t) ==
  /\ At(Stop(t)) = "waiting" /\ \A u \in Tasks : key[u] # t
  /\ Post(t, "flush")
  /\ Goto(Stop(t), "flushing")
  /\ UNCHANGED <<doc, tree, active, held, again, key, stopped, asked, integrates,
                 sweep, up, past>>

\* It has not when the time is over: refused, and the task stays among the stopped.
StopExpires(t) ==
  /\ At(Stop(t)) = "waiting" /\ \E u \in Tasks : key[u] = t
  /\ Happens("deadline")
  /\ Goto(Stop(t), "idle")
  /\ UNCHANGED <<doc, queue, tree, active, held, again, key, stopped, asked,
                 integrates, sweep, up, starts, left, planned, lost>>

StopPuts(t) ==
  /\ At(Stop(t)) = "putting"
  /\ doc' = [doc EXCEPT ![t] = "cancelled"]
  /\ GotoFor(Stop(t), IF t \in integrates THEN "applying" ELSE "tidying", t, "none")
  /\ UNCHANGED <<queue, tree, active, held, again, key, stopped, asked, integrates, sweep,
                 up, past>>

StopMerges(t) ==
  /\ At(Stop(t)) = "applying"
  /\ \/ NothingToApply(t) /\ Goto(Stop(t), "done")
     \/ Apply(t) /\ Moves(Stop(t), "removing")
     \/ NotApplied(t) /\ Moves(Stop(t), "tidying")
  /\ UNCHANGED <<doc, active, held, again, key, stopped, asked, integrates, sweep,
                 up, past>>

-----------------------------------------------------------------------------
(* Sessions, processes, and the worktrees that were left behind *)

\* switchSession and endSession, of the person or of a channel.
EndSession ==
  /\ active # NoTask
  /\ HappensIf(AnyGoing, "switch")
  /\ active' = NoTask
  /\ left' = left \cup {t \in Tasks : Going(t)}
  /\ UNCHANGED <<doc, queue, tree, held, pc, again, key, stopped, asked, integrates,
                 sweep, up, starts, planned, lost>>

\* Memory and the writes that were waiting are gone.
Exit ==
  /\ up
  /\ HappensIf(queue # <<>> \/ AnyGoing \/ \E t \in Tasks : Stopping(t), "crash")
  /\ up' = FALSE /\ queue' = <<>>
  /\ active' = NoTask /\ held' = {} /\ stopped' = {} /\ asked' = 0 /\ again' = {} /\ integrates' = {}
  /\ pc' = [a \in Agents |-> Just(IF a[1] = "run" /\ At(a) # "idle" THEN "over" ELSE "idle")]
  /\ key' = [t \in Tasks |-> NoTask]
  /\ sweep' = Asleep
  /\ UNCHANGED <<doc, tree, starts, left, planned, lost>>

\* findInterruptedTasks.
Interrupted == {"pending", "planning"}

\* startAll: reconcileInterruptedTasks, then the sweep, which nobody waits for.
Start ==
  /\ ~up /\ starts < MaxStarts
  /\ up' = TRUE /\ starts' = starts + 1
  /\ queue' = SetToSeq({<<t, "failed">> : t \in {u \in Tasks : doc[u] \in Interrupted}})
  /\ sweep' = [Asleep EXCEPT !.phase = "scan"]
  /\ UNCHANGED <<doc, tree, active, held, pc, again, key, stopped, asked, integrates,
                 upset, left, planned, lost>>

\* `task cleanup` does the same sweep.
Cleanup ==
  /\ up /\ sweep = Asleep
  /\ Happens("cleanup")
  /\ sweep' = [Asleep EXCEPT !.phase = "scan"]
  /\ UNCHANGED <<doc, queue, tree, active, held, pc, again, key, stopped, asked,
                 integrates, up, starts, left, planned, lost>>

SweepScans ==
  /\ sweep.phase = "scan"
  /\ sweep' = [sweep EXCEPT !.phase = "list",
                 !.spared = {t \in Tasks : doc[t] \notin Terminal \cup {"paused", "none"}}]
  /\ UNCHANGED <<doc, queue, tree, active, held, pc, again, key, stopped, asked,
                 integrates, up, past>>

Leftover(spared) == {t \in Tasks \ spared : tree[t] # "none" /\ ~HasChanges(t)}

SweepLists ==
  /\ sweep.phase = "list"
  /\ sweep' = IF Leftover(sweep.spared) = {} THEN Asleep
              ELSE [sweep EXCEPT !.phase = "remove", !.found = Leftover(sweep.spared)]
  /\ UNCHANGED <<doc, queue, tree, active, held, pc, again, key, stopped, asked,
                 integrates, up, past>>

SweepRemoves(t) ==
  /\ t \in sweep.found
  /\ RemoveTree(t, "sweep")
  /\ sweep' = IF sweep.found = {t} THEN Asleep ELSE [sweep EXCEPT !.found = @ \ {t}]
  /\ UNCHANGED <<doc, queue, active, held, pc, again, key, stopped, asked, integrates,
                 up, starts, upset, left, planned>>

-----------------------------------------------------------------------------
RunStep(t) ==
  \/ Prepare(t) \/ PrepareFails(t) \/ StartHarness(t) \/ Work(t)
  \/ \E result \in Ends : HarnessEnds(t, result)
  \/ HarnessThrows(t) \/ Merge(t) \/ Settle(t)
  \/ TidyLooks(Run(t)) \/ Removes(Run(t))

StopStep(t) ==
  \/ StopFlushes(t) \/ StopPuts(t) \/ StopMerges(t)
  \/ TidyLooks(Stop(t)) \/ Removes(Stop(t))

SweepStep == SweepScans \/ SweepLists \/ \E t \in Tasks : SweepRemoves(t)

Next ==
  \/ Drain \/ EndSession \/ Exit \/ Start \/ Cleanup \/ SweepStep
  \/ \E t \in Tasks :
       \/ Begin(t) \/ Resume(t) \/ RunStep(t) \/ StopStep(t) \/ StopExpires(t)
       \/ \E byClock \in BOOLEAN : AskStop(t, byClock)

Spec == Init /\ [][Next]_vars

-----------------------------------------------------------------------------
(* Properties *)

Statuses == {"none", "pending", "planning", "paused"} \cup Terminal
Places == {"idle", "preparing", "ready", "running", "aborted", "applying", "removing",
           "settling", "tidying", "discarding", "over", "waiting", "flushing", "putting",
           "done"}

\* Every variable stays in its range, and a harness is tracked only while it runs.
TypeOK ==
  /\ doc \in [Tasks -> Statuses]
  /\ queue \in Seq(Tasks \X (Statuses \cup {"flush"}))
  /\ tree \in [Tasks -> {"none", "clean", "dirty", "applied"}]
  /\ active \in Tasks \cup {NoTask} /\ held \subseteq Mutating
  /\ pc \in [Agents -> [at : Places, goal : Tasks \cup {NoTask},
                       as : Results \cup {"none", "held"}]]
  /\ key \in [Tasks -> Tasks \cup {NoTask}]
  /\ \A t \in Tasks : key[t] # NoTask => At(Run(t)) \in {"running", "aborted"}
  /\ again \subseteq planned /\ stopped \subseteq Tasks /\ integrates \subseteq stopped
  /\ sweep \in [phase : {"none", "scan", "list", "remove"}, spared : SUBSET Tasks,
                found : SUBSET Tasks]
  /\ up \in BOOLEAN /\ asked \in 0 .. MaxStops /\ starts \in 0 .. MaxStarts
  /\ upset \subseteq Upsets /\ Cardinality(upset) <= MaxUpsets
  /\ left \cup planned \subseteq Tasks /\ lost \subseteq Tasks \X {"task", "sweep"}

\* A task that was recorded as cancelled is never recorded as something else, by a write
\* that was queued before, by a run that ends later, or by the next process.
CancelledStays ==
  [][\A t \in Tasks : doc[t] = "cancelled" => doc'[t] = "cancelled"]_vars

\* runTask, cancelTask and their tidying up never destroy work that is not in the project,
\* as long as one task at a time is run, to its end, in its session.
WorkIsKept ==
  Without({"overlap", "switch", "resume"}) =>
    \A t \in Tasks : <<t, "task">> \notin lost

\* The sweep of leftovers destroys no work of an earlier process: what it can destroy is
\* what the present process wrote after the sweep had looked.
SweepKeepsOldWork ==
  \A t \in Tasks : <<t, "sweep">> \in lost' \ lost => t \in held

\* A task recorded as completed has no work that did not reach the project.
CompletedIsApplied ==
  Without({"overlap", "switch", "resume"}) =>
    \A t \in Tasks : doc[t] = "completed" => tree[t] # "dirty"

\* Once a person has stopped a task its work does not reach the project, unless the stop
\* came when the harness had already ended.
StoppedIsNotApplied ==
  [][Without({"late", "overlap", "switch", "resume"}) =>
       \A t \in stopped \ integrates : ~(tree[t] = "dirty" /\ tree'[t] = "applied")]_vars

\* When the run of a task is over, no stop is under way or was refused, and every write is
\* done, the task is not recorded as going. A process that died leaves that to the next one.
SettledWhenOver ==
  up /\ queue = <<>> /\ Without({"prepare", "overlap", "switch", "resume"}) =>
    \A t \in Tasks :
      At(Run(t)) = "over" /\ ~Stopping(t) /\ ~(t \in stopped /\ At(Stop(t)) = "idle")
      => doc[t] \notin {"pending", "planning"}

\* What coordinator-manager.ts:554 says of a switch of sessions: "A task of the previous
\* session must never keep writing into the new one." A run whose session was left integrates,
\* tidies up and records no task of another session.
OldRunStaysOut ==
  \A t \in left : pc[Run(t)].goal \in left \cup {NoTask}

\* What is recorded of a task is so: completed means that its work reached the project, and
\* what is over is not recorded as going (runTask, cancelTask, the writes of the scribe).
RecordIsTrue == TypeOK /\ CompletedIsApplied /\ SettledWhenOver

\* Work that did not reach the project is destroyed by nobody: neither by the run, the stop or
\* the tidying up of a task, nor by the sweep for work of an earlier process.
NoWorkLost == [][WorkIsKept' /\ SweepKeepsOldWork]_vars
=============================================================================
