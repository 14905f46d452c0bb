--------------------------- MODULE ProfileHarness ---------------------------
(***************************************************************************)
(* The orchestrator of long tasks, harness/profile-harness.ts: one row per *)
(* task in the document store, and runs that carry a task through          *)
(* planning, the specification gate, execution, repair and the convergence *)
(* gate.  A run is started afresh, from a plan that an earlier plan run    *)
(* left ready (coordinator-manager.ts, findReadyPlan), or as the resume of *)
(* an interrupted task (resumeTask).  Two runs may meet on one row: the    *)
(* retry timer starts a task beside the person.                            *)
(*                                                                         *)
(* Every stage change is a read of the row and a conditional write of what *)
(* was read; between the two any other run may write.  Versions are kept   *)
(* as one flag per run: nobody has written the row since this run read it. *)
(***************************************************************************)
EXTENDS Naturals

CONSTANTS
  Runs,        \* calls of ProfileHarness.run
  Tasks,       \* rows of harnessTasks
  Policies,    \* execution policies a person starts tasks with
  Kinds,       \* routes of the weight estimate that are explored
  MaxCycles,   \* DEFAULT_MAX_REPAIR_CYCLES
  MaxFaults    \* bound: thrown errors, aborts and process deaths

Policy == {"plan", "approval", "auto"}
Kind   == {"conversation", "simple_change", "complex"}

ASSUME HarnessAssumption ==
  /\ Policies \subseteq Policy
  /\ Kinds \subseteq Kind
  /\ MaxCycles \in Nat /\ MaxFaults \in Nat
  /\ "none" \notin Runs \cup Tasks

Earlier == "earlier"     \* the newest feature directory of an older task
None    == "none"
Plans   == Runs \cup {Earlier}   \* a plan is named by the run that wrote it

Stages  == {"understanding", "planning", "ready", "executing", "reviewing",
            "waiting_user", "completed", "failed", "cancelled"}
NextActions == {None, "approve_specification", "approve_convergence",
            "repair_cycle", "inspect_or_resume"}
Row     == [stage : Stages, nextAction : NextActions, planId : Plans \cup {None},
            executionPolicy : Policy, kind : Kind]
NoRow   == [stage |-> None]

Calls   == {"answering", "sketching", "changing", "fixing",
            "planning", "executing", "converging"}
Gates   == {"specification", "convergence"}
Over    == {"done", "thrown"}

VARIABLES
  row,        \* task -> its document
  fresh,      \* run -> the row is as this run last read it
  pc,         \* run -> where its control is
  todo,       \* run -> the document it is about to write and where it goes then
  run,        \* run -> its options and locals
  aborted,    \* runs whose signal is aborted
  faults,     \* faults so far
  approved,   \* task -> plans whose specification gate was answered with approve
  signed,     \* runs whose convergence gate was answered with approve
  broken,     \* tasks a run of which threw, was aborted or died
  writer      \* task -> the run that wrote its row last

vars == <<row, fresh, pc, todo, run, aborted, faults, approved, signed,
          broken, writer>>
history == <<approved, signed, broken, writer>>

\* The options and the local variables of a run; existing is the document
\* read when a task is resumed, and NoRow for a new task.
Idle == [task |-> None, policy |-> "auto", approver |-> FALSE,
         alwaysApproves |-> FALSE, abortable |-> FALSE, existing |-> NoRow,
         planId |-> None, cycles |-> 0, verdict |-> None]
NoWrite == [doc |-> NoRow, then |-> None]

Mine(r)  == run[r].task
Kinded(r) == row[Mine(r)].kind
On(t)    == {r \in Runs : run[r].task = t}
Live     == {r \in Runs : pc[r] \notin {"idle", "dead"} \cup Over}

Places  == {"idle", "registering", "routing", "checking", "chosen", "judging",
            "writing", "dead"} \cup Calls \cup Gates \cup Over
Targets == {"judging", "chosen"} \cup Calls \cup Gates \cup Over
Locals  == [task : Tasks \cup {None}, policy : Policy, approver : BOOLEAN,
            alwaysApproves : BOOLEAN, abortable : BOOLEAN, existing : Row \cup {NoRow},
            planId : Plans \cup {None}, cycles : {1} \cup 0..MaxCycles,
            verdict : {None, "pass", "fail"}]

TypeOK ==
  /\ row \in [Tasks -> Row \cup {NoRow}]
  /\ fresh \in [Runs -> BOOLEAN]
  /\ pc \in [Runs -> Places]
  /\ todo \in [Runs -> [doc : Row \cup {NoRow}, then : Targets \cup {None}]]
  /\ run \in [Runs -> Locals]
  /\ aborted \subseteq Runs /\ signed \subseteq Runs /\ broken \subseteq Tasks
  /\ faults \in 0..MaxFaults
  /\ approved \in [Tasks -> SUBSET Plans]
  /\ writer \in [Tasks -> Runs \cup {None}]

Init ==
  /\ row = [t \in Tasks |-> NoRow]
  /\ fresh = [r \in Runs |-> FALSE]
  /\ pc = [r \in Runs |-> "idle"]
  /\ todo = [r \in Runs |-> NoWrite]
  /\ run = [r \in Runs |-> Idle]
  /\ aborted = {} /\ signed = {} /\ broken = {}
  /\ faults = 0
  /\ approved = [t \in Tasks |-> {}]
  /\ writer = [t \in Tasks |-> None]

-----------------------------------------------------------------------------
(* Reading and writing the row. *)

\* A write by r: every other run's last read of the row is out of date.
Put(r, doc) ==
  /\ row' = [row EXCEPT ![Mine(r)] = doc]
  /\ fresh' = [q \in Runs |-> fresh[q] /\ Mine(q) # Mine(r)]
  /\ writer' = [writer EXCEPT ![Mine(r)] = r]

\* updateStage up to its read: the changed document waits to be written.
UpdateStage(r, changed, then) ==
  /\ todo' = [todo EXCEPT ![r] = [doc |-> changed, then |-> then]]
  /\ fresh' = [fresh EXCEPT ![r] = TRUE]
  /\ pc' = [pc EXCEPT ![r] = "writing"]
  /\ UNCHANGED <<row, writer>>

\* What the catch block writes before it throws again.
Blocker(r) ==
  [row[Mine(r)] EXCEPT !.stage = IF r \in aborted THEN "cancelled" ELSE "failed",
                       !.nextAction = "inspect_or_resume"]

Catch(r) ==
  /\ UpdateStage(r, Blocker(r), "thrown")
  /\ broken' = broken \cup {Mine(r)}

\* The second half of updateStage. A conflict throws; thrown inside the catch
\* block, it ends the run with the row as it is.
Write(r) ==
  /\ pc[r] = "writing"
  /\ \/ /\ fresh[r]
        /\ Put(r, todo[r].doc)
        /\ pc' = [pc EXCEPT ![r] = todo[r].then]
        /\ todo' = [todo EXCEPT ![r] = NoWrite]
        /\ UNCHANGED broken
     \/ /\ ~fresh[r]
        /\ todo[r].then # "thrown"
        /\ Catch(r)
     \/ /\ ~fresh[r]
        /\ todo[r].then = "thrown"
        /\ pc' = [pc EXCEPT ![r] = "thrown"]
        /\ todo' = [todo EXCEPT ![r] = NoWrite]
        /\ UNCHANGED <<row, fresh, writer, broken>>
  /\ UNCHANGED <<run, aborted, faults, approved, signed>>

-----------------------------------------------------------------------------
(* Starting a run. *)

Begin(r, options) ==
  /\ pc[r] = "idle"
  /\ run' = [run EXCEPT ![r] = options]

\* runTask without a plan to reuse: the row is put at once. A plan run's row
\* says approval, like that of every run that is not auto. Only approval runs
\* have an approver, and only when somebody can be asked.
Fresh(r, t, p, k, asks) ==
  /\ row[t] = NoRow
  /\ asks => p = "approval"
  /\ Begin(r, [Idle EXCEPT !.task = t, !.policy = p, !.approver = asks, !.abortable = TRUE])
  /\ row' = [row EXCEPT ![t] =
               [stage |-> "understanding", nextAction |-> None, planId |-> None,
                executionPolicy |-> IF p = "auto" THEN "auto" ELSE "approval",
                kind |-> k]]
  /\ writer' = [writer EXCEPT ![t] = r]
  /\ pc' = [pc EXCEPT ![r] = "routing"]
  /\ UNCHANGED <<fresh, todo, aborted, faults, approved, signed, broken>>

\* The first read of a run that is given a row.
ReadExisting(r, t, options) ==
  /\ Begin(r, [options EXCEPT !.task = t, !.existing = row[t]])
  /\ fresh' = [fresh EXCEPT ![r] = TRUE]
  /\ pc' = [pc EXCEPT ![r] = "registering"]
  /\ UNCHANGED <<row, todo, aborted, faults, approved, signed, broken, writer>>

\* runTask with the plan findReadyPlan found for the same objective.
Ready(t) == row[t] # NoRow /\ row[t].stage = "ready" /\ row[t].planId # None
Reuse(r, t, p, asks) ==
  /\ Ready(t)
  /\ p # "plan" /\ (asks => p = "approval")
  /\ ReadExisting(r, t, [Idle EXCEPT !.policy = p, !.approver = asks, !.abortable = TRUE])

\* resumeTask, for a task that is paused or failed: with the policy of the
\* row, no signal, and an approver that approves everything.
Resume(r, t) ==
  /\ row[t] # NoRow /\ row[t].stage # "cancelled"
  /\ On(t) \cap (Live \cup aborted) = {}
  /\ ReadExisting(r, t, [Idle EXCEPT !.policy = row[t].executionPolicy,
                                  !.approver = TRUE, !.alwaysApproves = TRUE])

\* The resumed row is pointed at this run's workspace. This is outside of the
\* try: a conflict ends the run and leaves the row to the other one.
Register(r) ==
  /\ pc[r] = "registering"
  /\ IF fresh[r]
     THEN Put(r, row[Mine(r)]) /\ pc' = [pc EXCEPT ![r] = "routing"]
     ELSE pc' = [pc EXCEPT ![r] = "thrown"] /\ UNCHANGED <<row, fresh, writer>>
  /\ UNCHANGED <<todo, run, aborted, faults, approved, signed, broken>>

-----------------------------------------------------------------------------
(* Routes. A step writes a stage and says where the run goes on. *)

Step(r, label) ==
  /\ pc[r] = label
  /\ UNCHANGED <<aborted, faults, approved, signed>>

Goto(r, label) ==
  /\ pc' = [pc EXCEPT ![r] = label]
  /\ UNCHANGED <<row, fresh, todo, writer, broken>>

Writes(r, changed, then) == UpdateStage(r, changed, then) /\ UNCHANGED broken
Stage(r, s) == [row[Mine(r)] EXCEPT !.stage = s]
StageAndNext(r, s, next) == [row[Mine(r)] EXCEPT !.stage = s, !.nextAction = next]
StageAndPlan(r, s, plan) == [row[Mine(r)] EXCEPT !.stage = s, !.planId = plan]

\* A call of an agent that answers: it looks at the signal before and after.
Returns(r, label) == Step(r, label) /\ r \notin aborted

\* The plan of a resumed task is used again if its directory is in the
\* workspace of this run; it need not be.
Route(r) ==
  /\ Step(r, "routing")
  /\ \/ /\ Kinded(r) = "conversation"
        /\ Goto(r, "answering") /\ UNCHANGED run
     \/ /\ Kinded(r) = "simple_change"
        /\ IF run[r].policy = "plan" THEN Goto(r, "sketching")
                                     ELSE Writes(r, Stage(r, "executing"), "changing")
        /\ UNCHANGED run
     \/ /\ Kinded(r) = "complex"
        /\ Writes(r, Stage(r, "planning"), "planning")
        /\ UNCHANGED run
     \/ /\ Kinded(r) = "complex"
        /\ run[r].existing # NoRow /\ run[r].existing.planId # None
        /\ run' = [run EXCEPT ![r].planId = run[r].existing.planId]
        /\ Writes(r, StageAndPlan(r, "ready", run[r].existing.planId), "chosen")

\* A conversation, and the plan of a small change.
Answered(r) ==
  /\ Returns(r, "answering")
  /\ Writes(r, Stage(r, "completed"), "done") /\ UNCHANGED run
Sketched(r) ==
  /\ Returns(r, "sketching")
  /\ Writes(r, Stage(r, "ready"), "done") /\ UNCHANGED run

\* A small change: the project's checks are run; one repair if they are red.
Changed(r) ==
  /\ \E label \in {"changing", "fixing"} : Returns(r, label)
  /\ run' = [run EXCEPT ![r].cycles = IF pc[r] = "fixing" THEN 1 ELSE 0]
  /\ Goto(r, "checking")
Checked(r) ==
  /\ Step(r, "checking")
  /\ \E v \in {"pass", "fail"} :
       /\ run' = [run EXCEPT ![r].verdict = v]
       /\ \/ v = "pass" /\ Writes(r, Stage(r, "completed"), "done")
          \/ v = "fail" /\ run[r].cycles = 0 /\ Writes(r, Stage(r, "reviewing"), "fixing")
          \/ v = "fail" /\ run[r].cycles = 1 /\ Writes(r, Stage(r, "failed"), "done")

\* The planner's directory, or the newest one of the workspace when the answer
\* names none; with neither, the run throws (Throw).
Planned(r) ==
  /\ Returns(r, "planning")
  /\ \E p \in {r, Earlier} :
       /\ run' = [run EXCEPT ![r].planId = p]
       /\ Writes(r, StageAndPlan(r, "ready", p), "chosen")

-----------------------------------------------------------------------------
(* Gates, execution and repair of a complex task. *)

NeedsApprovalUnlessReady(existing) ==   \* forgets the rows plan runs leave
  existing = NoRow \/ existing.nextAction = "approve_specification"
NeedsSpecificationApproval(existing) ==
  \/ existing = NoRow
  \/ existing.nextAction = "approve_specification"
  \/ existing.stage = "ready"

Execute(r, then) ==
  Writes(r, StageAndNext(r, "executing", then), "executing")

\* With the plan chosen: a plan run ends here, an approval run asks.
Chosen(r) ==
  /\ Step(r, "chosen")
  /\ IF run[r].policy = "plan" /\ run[r].existing = NoRow
     THEN Goto(r, "done")
     ELSE IF run[r].policy = "approval" /\ NeedsSpecificationApproval(run[r].existing)
     THEN Writes(r, StageAndNext(r, "waiting_user", "approve_specification"),
                 IF run[r].approver THEN "specification" ELSE "done")
     ELSE Execute(r, None)
  /\ UNCHANGED run

\* What the approver may say: an aborted question is a cancel.
Decisions(r) == IF run[r].alwaysApproves THEN {"approve"}
                ELSE IF r \in aborted THEN {"cancel"} ELSE {"approve", "cancel"}

AnswerSpecification(r) ==
  /\ pc[r] = "specification"
  /\ \E decision \in Decisions(r) :
       IF decision = "approve"
       THEN /\ approved' = [approved EXCEPT ![Mine(r)] = @ \cup {run[r].planId}]
            /\ Execute(r, None)
       ELSE UNCHANGED approved /\ Writes(r, Stage(r, "cancelled"), "done")
  /\ UNCHANGED <<run, aborted, faults, signed>>

\* BEE's answer ends with the verdict of the quality gate.
Executed(r) ==
  /\ Returns(r, "executing")
  /\ \E v \in {"pass", "fail"} : run' = [run EXCEPT ![r].verdict = v]
  /\ Writes(r, Stage(r, "reviewing"), "judging")

Exhausted(cycles) == cycles >= MaxCycles
Uncounted(cycles) == cycles
Counted(cycles) == cycles + 1
PassedOrLast(r) == run[r].verdict = "pass" \/ run[r].cycles = MaxCycles
Passed(r) == run[r].verdict = "pass"

Judge(r) ==
  /\ Step(r, "judging")
  /\ \/ /\ Passed(r)
        /\ Goto(r, "converging") /\ UNCHANGED run
     \/ /\ ~Passed(r) /\ Exhausted(run[r].cycles)
        /\ Catch(r) /\ UNCHANGED run
     \/ /\ ~Passed(r) /\ ~Exhausted(run[r].cycles)
        /\ run' = [run EXCEPT ![r].cycles = Counted(@)]
        /\ Execute(r, "repair_cycle")

\* Without an approver the second gate is a refusal.
Converged(r) ==
  /\ Returns(r, "converging")
  /\ IF run[r].policy = "approval"
     THEN Writes(r, StageAndNext(r, "waiting_user", "approve_convergence"),
                 IF run[r].approver THEN "convergence" ELSE "done")
     ELSE Writes(r, StageAndNext(r, "completed", None), "done")
  /\ UNCHANGED run

AnswerConvergence(r) ==
  /\ pc[r] = "convergence"
  /\ \E decision \in Decisions(r) :
       IF decision = "approve"
       THEN /\ signed' = signed \cup {r}
            /\ Writes(r, StageAndNext(r, "completed", None), "done")
       ELSE Goto(r, "done") /\ UNCHANGED signed
  /\ UNCHANGED <<run, aborted, faults, approved>>

-----------------------------------------------------------------------------
(* Faults. *)

\* A call of an agent throws: at once after an abort, or for its own reasons.
Throw(r) ==
  /\ pc[r] \in Calls
  /\ \/ r \in aborted /\ UNCHANGED faults
     \/ r \notin aborted /\ faults < MaxFaults /\ faults' = faults + 1
  /\ Catch(r)
  /\ UNCHANGED <<run, aborted, approved, signed>>

\* cancelTask aborts the signal of the task's run.
Abort(r) ==
  /\ r \in Live \ aborted /\ run[r].abortable
  /\ faults < MaxFaults /\ faults' = faults + 1
  /\ aborted' = aborted \cup {r}
  /\ broken' = broken \cup {Mine(r)}
  /\ UNCHANGED <<row, fresh, pc, todo, run, approved, signed, writer>>

\* The process dies, and with it every run.
Crash ==
  /\ Live # {}
  /\ faults < MaxFaults /\ faults' = faults + 1
  /\ pc' = [r \in Runs |-> IF r \in Live THEN "dead" ELSE pc[r]]
  /\ todo' = [r \in Runs |-> NoWrite]
  /\ broken' = broken \cup {Mine(r) : r \in Live}
  /\ UNCHANGED <<row, fresh, run, aborted, approved, signed, writer>>

Start(r) ==
  \E t \in Tasks :
    \/ \E p \in Policies, k \in Kinds, asks \in BOOLEAN : Fresh(r, t, p, k, asks)
    \/ \E p \in Policies, asks \in BOOLEAN : Reuse(r, t, p, asks)
    \/ Resume(r, t)

\* What the program does by itself once a run is started.
Proceed(r) ==
  \/ Write(r) \/ Register(r) \/ Route(r)
  \/ Answered(r) \/ Sketched(r) \/ Changed(r) \/ Checked(r)
  \/ Planned(r) \/ Chosen(r) \/ Executed(r) \/ Judge(r) \/ Converged(r)

Answer(r) == AnswerSpecification(r) \/ AnswerConvergence(r)

Next ==
  \/ \E r \in Runs : Start(r) \/ Proceed(r) \/ Answer(r) \/ Throw(r) \/ Abort(r)
  \/ Crash

Spec == Init /\ [][Next]_vars

\* Agents answer or throw and the store replies; a person need not answer.
FairSpec == Spec /\ \A r \in Runs : WF_vars(Proceed(r) \/ Throw(r))

-----------------------------------------------------------------------------
(* Properties. *)

\* When the runs of a task are over, and the one that wrote its row last was
\* not killed, the row does not claim that somebody is still at work: a stage
\* the boot would take for live is never left by a run that ended, also when
\* two runs met on the row and one lost every write (the catch block's too).
Settled == {"ready", "waiting_user", "completed", "failed", "cancelled"}
EndedIsSettled ==
  \A t \in Tasks :
    (row[t] # NoRow /\ On(t) \cap Live = {} /\ pc[writer[t]] # "dead")
      => row[t].stage \in Settled

\* A task is recorded as completed only when some run of it saw the quality
\* gate (or the project's checks) pass after its last change, and, in approval
\* mode, had its result approved; a budget that runs out, a red second check
\* or an unanswered gate never ends in completed.
CompletedIsVerified ==
  \A t \in Tasks :
    (row[t] # NoRow /\ row[t].stage = "completed" /\ row[t].kind # "conversation")
      => \E r \in On(t) :
           /\ run[r].verdict = "pass"
           /\ (row[t].kind = "complex" /\ run[r].policy = "approval") => r \in signed

\* What a row says is true when nobody works on it: it claims no work that is not done, nor a
\* result that nobody verified (updateStage, verify).
RowIsTrue == TypeOK /\ EndedIsSettled /\ CompletedIsVerified

\* In approval mode a complex task is not implemented before somebody approved
\* a plan of it, unless a run of the task was broken off or somebody ran it in
\* auto mode (its row keeps saying approval, and a resume follows the row):
\* plans made by a plan run and used again, gates left unanswered, two runs on
\* one row and resumes of finished tasks included.
Excused(t) ==
  approved[t] # {} \/ t \in broken \/ \E q \in On(t) : run[q].policy = "auto"
GateHolds ==
  \A r \in Runs :
    (pc[r] = "executing" /\ run[r].policy = "approval") => Excused(Mine(r))

\* docs/harness.md: in approval mode the task waits at the specification gate
\* until approve is answered for the plan; nothing is implemented before.
SpecificationApproved ==
  \A r \in Runs :
    (pc[r] = "executing" /\ run[r].policy = "approval")
      => run[r].planId \in approved[Mine(r)]

\* Every run that starts ends, or waits for a person: repair has a budget,
\* and conflicts on the row do not make a run try for ever.
RunEnds ==
  \A r \in Runs : (pc[r] # "idle") ~> (pc[r] \in Over \cup Gates \cup {"dead"})
=============================================================================
