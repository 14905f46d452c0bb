-------------------------------- MODULE AgentRun --------------------------------
(* One isolated run of the agent loop (a worker's: its transcript is in memory and
   in its checkpoint, not in a thread's history) and its row in the database:
   runAgent with the run store. The row is written by two parties of the process,
   the loop and the timer that renews the lease, each by a read and a versioned put;
   a put that finds another version is dropped with a log line. The process may die
   at any moment; the next one resumes the run from the checkpoint in the row. *)
EXTENDS Naturals, FiniteSets

CONSTANTS
  Calls,            \* tool calls the model may make in one turn
  MaxSteps,         \* maxSteps
  CheckpointEvery,  \* checkpointEvery
  MaxRetries,       \* MAX_EMPTY_RETRIES
  Denials,          \* whether a call may be denied (mode, or the user)
  MaxTurns,         \* bound of the model: turns with tool calls, over all processes
  MaxCrashes,       \* bound of the model: times the process dies
  MaxRenewals       \* bound of the model: times the lease timer fires

ASSUME AgentRunAssumption ==
  /\ MaxSteps \in Nat /\ CheckpointEvery \in Nat \ {0} /\ MaxRetries \in Nat
  /\ Denials \in BOOLEAN
  /\ MaxTurns \in Nat /\ MaxCrashes \in Nat /\ MaxRenewals \in Nat

VARIABLES
  row,      \* the row: its version (0: none), status, owner and checkpoint
  pid,      \* the process that runs now
  pc,       \* where the loop is
  job,      \* the write the loop is in, "none" outside of one
  seen,     \* the version that write has read, 0 before it reads
  told,     \* calls with a reply in `messages`
  open,     \* calls of the last assistant message without a reply
  todo,     \* approved calls not dispatched yet
  approved, \* approved calls of this turn
  iter,     \* iterations
  run,      \* runStatus
  retries,  \* emptyRetries
  renewal,  \* version a lease renewal has read, 0 when none is under way
  renewals, \* renewals begun (bound)
  turns,    \* turns with tool calls so far (history, names the calls)
  ran,      \* calls dispatched so far (history)
  upset     \* what went against the run so far (history): see Upsets

loop == <<told, open, todo, approved, iter, run, retries>>
lease == <<renewal, renewals>>
history == <<turns, ran, upset>>
vars == <<row, pid, pc, job, seen, loop, lease, history>>

Call == (1 .. MaxTurns) \X Calls
Ended == {"completed", "failed", "blocked", "needs_budget", "cancelled", "interrupted"}
\* A write of the loop was dropped for a renewal; a periodic write put counters over
\* a snapshot; a call was denied.
Upsets == {"raced", "periodic", "denial"}
Jobs == {"periodic", "pre-tool", "post-tool", "clear", "final", "interrupted"}

NoCheckpoint == [kind |-> "none", told |-> {}, open |-> {}, pending |-> {}, iter |-> 0]
Counters == [NoCheckpoint EXCEPT !.kind = "counters"]
Snapshot(pending) ==
  [kind |-> "full", told |-> told, open |-> open, pending |-> pending, iter |-> iter]

Init ==
  /\ row = [ver |-> 0, status |-> "none", owner |-> 0, ckpt |-> NoCheckpoint]
  /\ pid = 1 /\ pc = "off" /\ job = "none" /\ seen = 0
  /\ told = {} /\ open = {} /\ todo = {} /\ approved = {}
  /\ iter = 0 /\ run = "running" /\ retries = 0
  /\ renewal = 0 /\ renewals = 0 /\ turns = 0 /\ ran = {} /\ upset = {}

-----------------------------------------------------------------------------
(* Writing the row *)

WrittenNoPending(r, j) ==
  CASE j = "periodic" -> [r EXCEPT !.status = "running", !.ckpt = Counters]
    [] j \in {"pre-tool", "post-tool", "clear"} -> [r EXCEPT !.ckpt = Snapshot({})]
    [] j \in {"final", "interrupted"} -> [r EXCEPT !.status = run]
WrittenButLast(r, j) ==
  CASE j = "periodic" -> [r EXCEPT !.status = "running", !.ckpt = Counters]
    [] j = "pre-tool" -> [r EXCEPT !.ckpt = Snapshot(approved)]
    [] j \in {"post-tool", "clear"} -> [r EXCEPT !.ckpt = Snapshot({})]
    [] j \in {"final", "interrupted"} -> r
\* What a write of the loop puts in the row it read.
Written(r, j) ==
  CASE j = "periodic" -> [r EXCEPT !.status = "running", !.ckpt = Counters]
    [] j = "pre-tool" -> [r EXCEPT !.ckpt = Snapshot(approved)]
    [] j \in {"post-tool", "clear"} -> [r EXCEPT !.ckpt = Snapshot({})]
    [] j \in {"final", "interrupted"} -> [r EXCEPT !.status = run]

\* Where the loop goes on once the write is done, or has failed.
After(j) ==
  CASE j = "periodic" -> "model"
    [] j = "pre-tool" -> "tools"
    [] j \in {"post-tool", "clear"} -> IF run = "running" THEN "top" ELSE "ending"
    [] j \in {"final", "interrupted"} -> "over"

StartWrite(j) == pc' = "writing" /\ job' = j /\ seen' = 0

ReadRow ==
  /\ pc = "writing" /\ seen = 0
  /\ seen' = row.ver
  /\ UNCHANGED <<row, pid, pc, job, loop, lease, history>>

PutRow ==
  /\ pc = "writing" /\ seen # 0
  /\ row' = IF row.ver = seen THEN [Written(row, job) EXCEPT !.ver = @ + 1] ELSE row
  /\ upset' = IF row.ver = seen THEN upset ELSE upset \cup {"raced"}
  /\ pc' = After(job) /\ job' = "none" /\ seen' = 0
  /\ UNCHANGED <<pid, loop, lease, turns, ran>>

\* The lease timer of a run that is still running.
RenewRead ==
  /\ pc \notin {"off", "over", "crashed"} /\ run = "running"
  /\ renewal = 0 /\ renewals < MaxRenewals
  /\ renewals' = renewals + 1
  /\ renewal' = IF row.status = "running" THEN row.ver ELSE 0
  /\ UNCHANGED <<row, pid, pc, job, seen, loop, history>>

RenewAnyPut ==
  /\ renewal # 0
  /\ row' = [row EXCEPT !.ver = @ + 1, !.status = "running"]
  /\ renewal' = 0
  /\ UNCHANGED <<pid, pc, job, seen, loop, renewals, history>>
\* It puts back the document it read, with a new expiry, if nothing wrote in between.
RenewPut ==
  /\ renewal # 0
  /\ row' = IF row.ver = renewal THEN [row EXCEPT !.ver = @ + 1] ELSE row
  /\ renewal' = 0
  /\ UNCHANGED <<pid, pc, job, seen, loop, renewals, history>>

-----------------------------------------------------------------------------
(* The loop *)

Begin ==
  /\ pc = "off" /\ row.ver = 0
  /\ row' = [row EXCEPT !.ver = 1, !.status = "running", !.owner = pid]
  /\ pc' = "top"
  /\ UNCHANGED <<pid, job, seen, loop, lease, history>>

\* reclaimRun: the process takes the row over, whatever its status.
Reclaimed(r) == [r EXCEPT !.ver = @ + 1, !.status = "running", !.owner = pid]

RestoredFromZero(c) == 0
RestoredIter(c) == c.iter

\* A run resumed from its snapshot: pending calls are answered as interrupted.
Resume ==
  /\ pc = "off" /\ row.ver # 0
  /\ row' = Reclaimed(row)
  /\ LET c == row.ckpt IN
     IF c.kind = "full"
     THEN /\ told' = c.told \cup c.pending
          /\ open' = c.open \ c.pending
          /\ iter' = RestoredIter(c)
          /\ IF c.pending # {} THEN StartWrite("clear")
                               ELSE pc' = "top" /\ UNCHANGED <<job, seen>>
     ELSE pc' = "top" /\ UNCHANGED <<job, seen, told, open, iter>>
  /\ UNCHANGED <<pid, todo, approved, run, retries, lease, history>>

StopWith(status) == run' = status /\ pc' = "ending"

StepsLeft == iter < MaxSteps

\* The head of the loop: abort, step limit, budgets, the periodic write.
Top ==
  /\ pc = "top"
  /\ \/ /\ StepsLeft
        /\ iter' = iter + 1
        /\ UNCHANGED run
        /\ IF iter > 0 /\ iter % CheckpointEvery = 0
           THEN StartWrite("periodic") /\ upset' = upset \cup {"periodic"}
           ELSE pc' = "model" /\ UNCHANGED <<job, seen, upset>>
     \/ /\ StepsLeft
        /\ StopWith("cancelled")
        /\ UNCHANGED <<iter, job, seen, upset>>
     \/ /\ StepsLeft
        /\ StopWith("needs_budget")
        /\ iter' = iter + 1
        /\ UNCHANGED <<job, seen, upset>>
     \/ /\ ~StepsLeft
        /\ StopWith("needs_budget")
        /\ UNCHANGED <<iter, job, seen, upset>>
  /\ UNCHANGED <<row, pid, told, open, todo, approved, retries, lease, turns, ran>>

\* The model answers in text, with an error, or with nothing the loop can use.
AnswerText ==
  /\ pc = "model"
  /\ \E status \in {"completed", "failed", "blocked", "cancelled"} : StopWith(status)
  /\ UNCHANGED <<row, pid, job, seen, told, open, todo, approved, iter, retries, lease, history>>

RetryFreely ==
  /\ pc = "model" /\ retries < MaxRetries
  /\ pc' = "top"
  /\ iter' = iter - 1
  /\ UNCHANGED <<row, pid, job, seen, told, open, todo, approved, run, retries, lease, history>>
\* An empty turn is asked again, a bounded number of times; it counts as a step.
Retry ==
  /\ pc = "model" /\ retries < MaxRetries
  /\ retries' = retries + 1
  /\ pc' = "top"
  /\ UNCHANGED <<row, pid, job, seen, told, open, todo, approved, iter, run, lease, history>>

\* A turn with tool calls: those that are denied are answered at the end of the turn.
CallTools ==
  /\ pc = "model" /\ turns < MaxTurns
  /\ turns' = turns + 1
  /\ \E asked \in SUBSET Calls \ {{}} :
       \E ok \in IF Denials THEN SUBSET asked ELSE {asked} :
         /\ open' = open \cup ({turns + 1} \X asked)
         /\ approved' = {turns + 1} \X ok
         /\ todo' = {turns + 1} \X ok
         /\ upset' = IF ok = asked THEN upset ELSE upset \cup {"denial"}
  /\ StartWrite("pre-tool")
  /\ UNCHANGED <<row, pid, told, iter, run, retries, lease, ran>>

Dispatch ==
  /\ pc = "tools"
  /\ \E c \in todo : ran' = ran \cup {c} /\ todo' = todo \ {c}
  /\ UNCHANGED <<row, pid, pc, job, seen, told, open, approved, iter, run, retries, lease, turns,
                 upset>>

\* Every call of the turn gets its reply; the repeat tracker may stop the run.
Collect ==
  /\ pc = "tools" /\ todo = {}
  /\ LET own == {c \in open : c[1] = turns} IN
     /\ told' = told \cup own
     /\ open' = open \ own
  /\ approved' = {}
  /\ \E status \in {"running", "blocked"} : run' = status
  /\ StartWrite("post-tool")
  /\ UNCHANGED <<row, pid, todo, iter, retries, lease, history>>

\* An exception, or a caller that abandons the generator, with the run still running.
Throw ==
  /\ pc \in {"top", "model", "tools"}
  /\ run' = "interrupted"
  /\ StartWrite("interrupted")
  /\ UNCHANGED <<row, pid, told, open, todo, approved, iter, retries, lease, history>>

\* The synthesis call, then the final write.
Finish ==
  /\ pc = "ending"
  /\ run' = IF run = "blocked" /\ ~StepsLeft THEN "needs_budget" ELSE run
  /\ StartWrite("final")
  /\ UNCHANGED <<row, pid, told, open, todo, approved, iter, retries, lease, history>>

Crash ==
  /\ pc \notin {"off", "over", "crashed"} /\ pid <= MaxCrashes
  /\ pid' = pid + 1 /\ pc' = "crashed" /\ job' = "none" /\ seen' = 0
  /\ told' = {} /\ open' = {} /\ todo' = {} /\ approved' = {}
  /\ iter' = 0 /\ run' = "running" /\ retries' = 0 /\ renewal' = 0
  /\ UNCHANGED <<row, renewals, history>>

\* The next process starts: a run whose owner is dead is marked resumable.
Reconcile ==
  /\ pc = "crashed"
  /\ row' = IF row.status = "running"
            THEN [row EXCEPT !.ver = @ + 1, !.status = "resumable", !.owner = 0]
            ELSE row
  /\ pc' = "off"
  /\ UNCHANGED <<pid, job, seen, loop, lease, history>>

Step == ReadRow \/ PutRow \/ Top \/ AnswerText \/ Retry \/ CallTools \/ Dispatch \/ Collect
        \/ Finish
Over == /\ pc = "over" \/ (pc = "off" /\ row.ver # 0)
        /\ UNCHANGED vars
Next == Step \/ Begin \/ Resume \/ Throw \/ Crash \/ Reconcile \/ RenewRead \/ RenewPut \/ Over

Spec == Init /\ [][Next]_vars
\* The model and the tools answer: the loop goes on.
FairSpec == Spec /\ WF_vars(Step)

-----------------------------------------------------------------------------
(* Properties *)

Checkpoint ==
  [kind : {"none", "counters", "full"}, told : SUBSET Call, open : SUBSET Call,
   pending : SUBSET Call, iter : 0 .. MaxSteps]
TypeOK ==
  /\ row \in [ver : Nat, status : Ended \cup {"none", "running", "resumable"},
              owner : 0 .. MaxCrashes + 1, ckpt : Checkpoint]
  /\ pid \in 1 .. MaxCrashes + 1
  /\ pc \in {"off", "top", "model", "tools", "writing", "ending", "over", "crashed"}
  /\ job \in Jobs \cup {"none"} /\ seen \in Nat
  /\ told \subseteq Call /\ open \subseteq Call /\ todo \subseteq approved
  /\ approved \subseteq Call
  /\ iter \in 0 .. MaxSteps /\ run \in Ended \cup {"running"}
  /\ retries \in 0 .. MaxRetries
  /\ renewal \in Nat /\ renewals \in 0 .. MaxRenewals
  /\ turns \in 0 .. MaxTurns /\ ran \subseteq Call /\ upset \subseteq Upsets

\* Every write of the loop went through, and none put counters over a snapshot.
Undisturbed == "raced" \notin upset /\ "periodic" \notin upset

\* Before every call of the model the transcript tells of every tool that was ever
\* dispatched in this run, by this process or one before it: with its result, or as
\* interrupted. A model that is not told would run it again.
NoForgottenCall == Undisturbed /\ pc = "model" => ran \subseteq told

\* Before every call of the model each tool call of the transcript has its reply, as
\* long as none was denied: a crash between the two loses the reply to a denied call.
TranscriptValid ==
  Undisturbed /\ "denial" \notin upset /\ pc = "model" => open = {}

\* Over all its processes a run dispatches tools in at most MaxSteps turns.
StepsBounded == Undisturbed => Cardinality({c[1] : c \in ran}) <= MaxSteps

\* A run that is over, in a process that lives, is over in the database.
OverIsRecorded == Undisturbed /\ pc = "over" => row.status = run

\* Once a run has a snapshot to resume from it always has one.
SnapshotKept == [][Undisturbed' /\ row.ckpt.kind = "full" => row'.ckpt.kind = "full"]_vars

\* Only a resume makes a finished run "running" again: no late renewal does.
NeverRevived ==
  [][row.status \in Ended /\ row'.status = "running" => pc = "off"]_vars

\* While the loop of a process runs, the row is its own: no other process takes the run
\* for abandoned.
OwnedWhileRunning ==
  pc \notin {"off", "over", "crashed"} => row.owner = pid /\ row.status # "resumable"

\* A run that has begun ends, unless its process dies.
RunEnds == pc # "off" ~> pc \in {"over", "crashed", "off"}

\* Before every call of the model the transcript is complete: it tells of every tool that was
\* dispatched, and has a reply to every call (the resume from a checkpoint).
TranscriptTells == NoForgottenCall /\ TranscriptValid

\* The row is the own of the process that drives the run, and says in the end how it ended
\* (claimRun, updateRun).
RowFollowsRun == TypeOK /\ OwnedWhileRunning /\ OverIsRecorded

\* No write takes back what the row has reached: an end, or a snapshot to resume from
\* (startLeaseRenewal, writeCheckpoint).
RowMovesForward == NeverRevived /\ SnapshotKept
=============================================================================
