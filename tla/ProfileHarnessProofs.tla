------------------------- MODULE ProfileHarnessProofs -------------------------
(* The orchestrator of long tasks, for any number of runs and rows, any policies and routes,
   and any faults: a row is true when nobody works on it, and in approval mode nothing is
   implemented that nobody allowed.

   Every run is described by where it is or will be once its write is through (Toward), and
   every row by the run that wrote it last (Author): a run that wrote the row last has read
   it since, so that only a run whose words no longer count can lose a write. *)
EXTENDS ProfileHarness, TLAPS

Toward(r) == IF pc[r] = "writing" THEN todo[r].then ELSE pc[r]
Small == {"sketching", "changing", "fixing", "checking"}
Large == {"planning", "chosen", "specification"}
Implementing == {"executing", "judging", "converging", "convergence"}

\* A run keeps to the route of its task.
OnRoute(r) ==
  /\ Toward(r) = "answering" => Kinded(r) = "conversation"
  /\ Toward(r) \in Small => Kinded(r) = "simple_change"
  /\ Toward(r) \in Large \cup Implementing => Kinded(r) = "complex"

\* A run past planning has a plan, one that converges has passed the quality gate, and one
\* that implements was allowed to.
Allowed(r) ==
  /\ Toward(r) \in {"chosen", "specification"} \cup Implementing => run[r].planId # None
  /\ Toward(r) \in {"converging", "convergence"} => run[r].verdict = "pass"
  /\ Toward(r) \in Implementing => Excused(Mine(r))

\* A row a run was given shows that its plan must be shown, or the task is excused.
Inherited(r) ==
  /\ run[r].policy = "plan" => run[r].existing = NoRow
  /\ (run[r].existing # NoRow /\ Kinded(r) = "complex")
       => NeedsSpecificationApproval(run[r].existing) \/ Excused(Mine(r))

\* The stage that a run at a place has left in the row.
Fits(place, stage) ==
  /\ place \in Over => stage \in Settled
  /\ place = "chosen" => stage = "ready"
  /\ place \in Gates => stage = "waiting_user"

\* What a document says of its task, once it is in the row or before.
Says(t, doc) ==
  /\ doc.executionPolicy # "plan"
  /\ doc.kind = "complex" =>
       /\ doc.stage = "waiting_user" => doc.nextAction = "approve_specification" \/ Excused(t)
       /\ doc.stage = "completed" => Excused(t)
       /\ doc.stage = "failed" => t \in broken

Claims(doc) == doc.stage = "completed" /\ doc.kind # "conversation"
Justified(r) ==
  /\ run[r].verdict = "pass"
  /\ (Kinded(r) = "complex" /\ run[r].policy = "approval") => r \in signed
Verified(t) == \E q \in On(t) : pc[q] = "done" /\ Justified(q)

\* The document a run is about to write; it is lost only if the run is not the row's author.
Pending(r) ==
  pc[r] = "writing" =>
    /\ todo[r].then # None /\ todo[r].doc \in Row /\ todo[r].doc.kind = Kinded(r)
    /\ Fits(todo[r].then, todo[r].doc.stage)
    /\ Says(Mine(r), todo[r].doc)
    /\ Claims(todo[r].doc) => todo[r].then = "done" /\ Justified(r)
    /\ writer[Mine(r)] = r => fresh[r]

HasRow(r) ==
  /\ pc[r] = "idle" => run[r] = Idle
  /\ pc[r] # "idle" => Mine(r) \in Tasks /\ row[Mine(r)] \in Row
  /\ pc[r] = "dead" => Mine(r) \in broken

RunOK(r) == HasRow(r) /\ OnRoute(r) /\ Allowed(r) /\ Inherited(r) /\ Pending(r)

\* A row was written by a run of the task, which is where it says.
RowOK(t) ==
  row[t] # NoRow =>
    /\ writer[t] \in On(t) /\ pc[writer[t]] \notin {"idle", "registering"}
    /\ Fits(pc[writer[t]], row[t].stage)
    /\ Says(t, row[t])
    /\ Claims(row[t]) => Verified(t)

IInv ==
  /\ TypeOK
  /\ \A r \in Runs : RunOK(r)
  /\ \A t \in Tasks : RowOK(t)

-----------------------------------------------------------------------------
(* Types. *)

LEMMA Changes ==
  ASSUME NEW doc \in Row, NEW s \in Stages, NEW n \in NextActions, NEW p \in Plans
  PROVE  /\ [doc EXCEPT !.stage = s] \in Row
         /\ [doc EXCEPT !.stage = s, !.nextAction = n] \in Row
         /\ [doc EXCEPT !.stage = s, !.planId = p] \in Row
BY DEF Row

LEMMA NoRowIsNone == NoRow \notin Row
BY DEF NoRow, Row, Stages, None

\* What is known of a run that was started.
LEMMA Started ==
  ASSUME IInv, NEW r \in Runs, pc[r] # "idle"
  PROVE  /\ TypeOK /\ Mine(r) \in Tasks /\ row[Mine(r)] \in Row /\ row[Mine(r)] # NoRow
         /\ run[r] \in Locals /\ RunOK(r) /\ RowOK(Mine(r))
BY NoRowIsNone DEF IInv, RunOK, HasRow, TypeOK

\* A started run may give any document and any place to updateStage.
LEMMA UpdateType ==
  ASSUME TypeOK, NEW r \in Runs, NEW changed \in Row, NEW then \in Targets,
         UpdateStage(r, changed, then),
         run' \in [Runs -> Locals], broken' \subseteq Tasks, signed' \subseteq Runs,
         faults' \in 0..MaxFaults, approved' \in [Tasks -> SUBSET Plans],
         UNCHANGED aborted
  PROVE  TypeOK'
BY DEF TypeOK, UpdateStage, Places

LEMMA CatchType ==
  ASSUME IInv, NEW r \in Runs, pc[r] # "idle", Catch(r),
         faults' \in 0..MaxFaults, UNCHANGED <<run, aborted, approved, signed>>
  PROVE  TypeOK'
<1>1. Blocker(r) \in Row
  BY Started DEF Blocker, Row, Stages, NextActions
<1>2. broken' \subseteq Tasks
  BY Started DEF Catch, TypeOK
<1> QED
  BY <1>1, <1>2, UpdateType, Started DEF Catch, Targets, Over, TypeOK

\* The fields of a run that no step but its start changes, and those it may change.
LEMMA LocalsChange ==
  ASSUME NEW o \in Locals, NEW p \in Plans, NEW c \in {1} \cup 0..MaxCycles,
         NEW v \in {"pass", "fail"}
  PROVE  /\ [o EXCEPT !.planId = p] \in Locals
         /\ [o EXCEPT !.cycles = c] \in Locals
         /\ [o EXCEPT !.verdict = v] \in Locals
BY DEF Locals

LEMMA Options ==
  ASSUME NEW t \in Tasks, NEW p \in Policy, NEW a \in BOOLEAN, NEW e \in Row \cup {NoRow}
  PROVE  /\ Idle \in Locals
         /\ [Idle EXCEPT !.task = t, !.policy = p, !.approver = a, !.abortable = TRUE] \in Locals
         /\ [[Idle EXCEPT !.policy = p, !.approver = a, !.abortable = TRUE]
               EXCEPT !.task = t, !.existing = e] \in Locals
         /\ [[Idle EXCEPT !.policy = p, !.approver = TRUE, !.alwaysApproves = TRUE]
               EXCEPT !.task = t, !.existing = e] \in Locals
<1>1. Idle \in Locals
  BY HarnessAssumption DEF Idle, Locals, Policy
<1> HIDE DEF Idle
<1> QED
  BY <1>1 DEF Locals

LEMMA StageType ==
  ASSUME IInv, NEW r \in Runs, pc[r] # "idle"
  PROVE  /\ \A s \in Stages : Stage(r, s) \in Row
         /\ \A s \in Stages, n \in NextActions : StageAndNext(r, s, n) \in Row
         /\ \A s \in Stages, p \in Plans : StageAndPlan(r, s, p) \in Row
<1>1. row[Mine(r)] \in Row
  BY Started
<1> DEFINE doc == row[Mine(r)]
<1> HIDE DEF doc
<1>2. /\ \A s \in Stages : [doc EXCEPT !.stage = s] \in Row
      /\ \A s \in Stages, n \in NextActions : [doc EXCEPT !.stage = s, !.nextAction = n] \in Row
      /\ \A s \in Stages, p \in Plans : [doc EXCEPT !.stage = s, !.planId = p] \in Row
  BY <1>1 DEF Row, doc
<1> QED
  BY <1>2 DEF Stage, StageAndNext, StageAndPlan, doc

LEMMA StartType ==
  ASSUME IInv, NEW r \in Runs, Start(r)
  PROVE  TypeOK'
<1> USE DEF IInv
<1>1. ASSUME NEW t \in Tasks, NEW p \in Policies, NEW k \in Kinds, NEW asks \in BOOLEAN,
             Fresh(r, t, p, k, asks)
      PROVE  TypeOK'
  <2>1. [Idle EXCEPT !.task = t, !.policy = p, !.approver = asks, !.abortable = TRUE] \in Locals
    BY HarnessAssumption, Options
  <2>2. [stage |-> "understanding", nextAction |-> None, planId |-> None,
         executionPolicy |-> IF p = "auto" THEN "auto" ELSE "approval", kind |-> k] \in Row
    BY HarnessAssumption DEF Row, Stages, NextActions, Policy
  <2> QED
    BY <1>1, <2>1, <2>2 DEF Fresh, Begin, TypeOK, Places
<1>2. ASSUME NEW t \in Tasks, NEW p \in Policies, NEW asks \in BOOLEAN, Reuse(r, t, p, asks)
      PROVE  TypeOK'
  <2>1. [[Idle EXCEPT !.policy = p, !.approver = asks, !.abortable = TRUE]
            EXCEPT !.task = t, !.existing = row[t]] \in Locals
    BY HarnessAssumption, Options DEF TypeOK
  <2> QED
    BY <1>2, <2>1 DEF Reuse, ReadExisting, Begin, TypeOK, Places
<1>3. ASSUME NEW t \in Tasks, Resume(r, t)
      PROVE  TypeOK'
  <2>1. row[t] \in Row
    BY <1>3 DEF Resume, TypeOK
  <2>2. [[Idle EXCEPT !.policy = row[t].executionPolicy, !.approver = TRUE, !.alwaysApproves = TRUE]
            EXCEPT !.task = t, !.existing = row[t]] \in Locals
    BY <2>1, Options DEF Row
  <2> QED
    BY <1>3, <2>2 DEF Resume, ReadExisting, Begin, TypeOK, Places
<1> QED
  BY <1>1, <1>2, <1>3 DEF Start

LEMMA WriteType ==
  ASSUME IInv, NEW r \in Runs, Write(r)
  PROVE  TypeOK'
<1>1. TypeOK /\ Mine(r) \in Tasks /\ Pending(r) /\ pc[r] = "writing"
  BY Started DEF Write, RunOK
<1>2. NoWrite \in [doc : Row \cup {NoRow}, then : Targets \cup {None}]
  BY DEF NoWrite
<1>3. todo[r].then \in Targets /\ todo[r].doc \in Row
  BY <1>1 DEF Pending, TypeOK
<1>4. CASE fresh[r]
  <2>1. /\ Put(r, todo[r].doc) /\ UNCHANGED <<run, aborted, faults, approved, signed, broken>>
        /\ pc' = [pc EXCEPT ![r] = todo[r].then] /\ todo' = [todo EXCEPT ![r] = NoWrite]
    BY <1>4 DEF Write
  <2>2. /\ row' \in [Tasks -> Row \cup {NoRow}] /\ fresh' \in [Runs -> BOOLEAN]
        /\ writer' \in [Tasks -> Runs \cup {None}]
    BY <1>1, <1>3, <2>1 DEF Put, TypeOK
  <2>3. pc' \in [Runs -> Places]
    BY <1>1, <1>3, <2>1 DEF TypeOK, Places, Targets
  <2> QED
    BY <1>1, <1>2, <2>1, <2>2, <2>3 DEF TypeOK
<1>5. CASE ~fresh[r] /\ todo[r].then # "thrown"
  BY <1>1, <1>5, CatchType DEF Write, TypeOK
<1>6. CASE ~fresh[r] /\ todo[r].then = "thrown"
  <2>1. "thrown" \in Places
    BY DEF Places, Over
  <2>2. /\ pc' = [pc EXCEPT ![r] = "thrown"] /\ todo' = [todo EXCEPT ![r] = NoWrite]
        /\ UNCHANGED <<row, fresh, writer, broken, run, aborted, faults, approved, signed>>
    BY <1>6 DEF Write
  <2> QED
    BY <2>1, <2>2, <1>1, <1>2 DEF TypeOK
<1> QED
  BY <1>4, <1>5, <1>6

\* Every step of a started run between its start and its end.
LEMMA WorkType ==
  ASSUME IInv, NEW r \in Runs,
         \/ Register(r) \/ Route(r) \/ Answered(r) \/ Sketched(r) \/ Changed(r) \/ Checked(r)
         \/ Planned(r) \/ Chosen(r) \/ Executed(r) \/ Judge(r) \/ Converged(r)
         \/ AnswerSpecification(r) \/ AnswerConvergence(r)
  PROVE  TypeOK'
<1>1. pc[r] # "idle"
  BY DEF Register, Route, Answered, Sketched, Changed, Checked, Planned, Chosen, Executed,
         Judge, Converged, AnswerSpecification, AnswerConvergence, Returns, Step
<1>2. /\ TypeOK /\ Mine(r) \in Tasks /\ row[Mine(r)] \in Row /\ run[r] \in Locals
      /\ {"done", "thrown"} \subseteq Over /\ Stages \subseteq Stages /\ None \in NextActions
  BY <1>1, Started DEF Over, NextActions
<1>3. /\ \A s \in Stages : Stage(r, s) \in Row
      /\ \A s \in Stages, n \in NextActions : StageAndNext(r, s, n) \in Row
      /\ \A s \in Stages, p \in Plans : StageAndPlan(r, s, p) \in Row
  BY <1>1, StageType
<1>4. ASSUME NEW label \in Places, Goto(r, label), run' \in [Runs -> Locals],
             signed' \subseteq Runs, UNCHANGED <<aborted, faults, approved>>
      PROVE  TypeOK'
  BY <1>2, <1>4 DEF Goto, TypeOK
<1>5. ASSUME NEW changed \in Row, NEW then \in Targets, Writes(r, changed, then),
             run' \in [Runs -> Locals], signed' \subseteq Runs,
             approved' \in [Tasks -> SUBSET Plans], UNCHANGED <<aborted, faults>>
      PROVE  TypeOK'
  BY <1>2, <1>5, UpdateType DEF Writes, TypeOK
<1>6. ASSUME Catch(r), UNCHANGED <<run, aborted, faults, approved, signed>>
      PROVE  TypeOK'
  BY <1>1, <1>2, <1>6, CatchType DEF TypeOK
<1>7. ASSUME NEW x \in Locals
      PROVE  [run EXCEPT ![r] = x] \in [Runs -> Locals]
  BY <1>2 DEF TypeOK
<1>8. /\ run \in [Runs -> Locals] /\ signed \subseteq Runs /\ approved \in [Tasks -> SUBSET Plans]
      /\ r \in Plans /\ Earlier \in Plans
  BY <1>2 DEF TypeOK, Plans
<1>9. CASE Register(r)
  <2>1. {"routing", "thrown"} \subseteq Places
    BY DEF Places, Over
  <2> QED
    BY <1>2, <1>9, <2>1 DEF Register, Put, TypeOK
<1>10. CASE Route(r)
  <2>1. CASE Goto(r, "answering") /\ UNCHANGED run
    BY <1>4, <1>8, <1>10, <2>1 DEF Route, Step, Places, Calls
  <2>2. CASE Goto(r, "sketching") /\ UNCHANGED run
    BY <1>4, <1>8, <1>10, <2>2 DEF Route, Step, Places, Calls
  <2>3. CASE Writes(r, Stage(r, "executing"), "changing") /\ UNCHANGED run
    BY <1>3, <1>5, <1>8, <1>10, <2>3 DEF Route, Step, Targets, Calls, Stages
  <2>4. CASE Writes(r, Stage(r, "planning"), "planning") /\ UNCHANGED run
    BY <1>3, <1>5, <1>8, <1>10, <2>4 DEF Route, Step, Targets, Calls, Stages
  <2>5. CASE /\ run[r].existing # NoRow /\ run[r].existing.planId # None
             /\ run' = [run EXCEPT ![r].planId = run[r].existing.planId]
             /\ Writes(r, StageAndPlan(r, "ready", run[r].existing.planId), "chosen")
    <3>1. run[r].existing.planId \in Plans
      BY <1>2, <2>5 DEF Locals, Row
    <3> QED
      BY <1>2, <1>3, <1>5, <1>7, <1>8, <1>10, <2>5, <3>1, LocalsChange
         DEF Route, Step, Targets, Stages
  <2> QED
    BY <1>10, <2>1, <2>2, <2>3, <2>4, <2>5 DEF Route
<1>11. CASE Answered(r)
  BY <1>2, <1>3, <1>5, <1>8, <1>11 DEF Answered, Returns, Step, Targets, Stages
<1>12. CASE Sketched(r)
  BY <1>2, <1>3, <1>5, <1>8, <1>12 DEF Sketched, Returns, Step, Targets, Stages
<1>13. CASE Changed(r)
  <2> DEFINE count == IF pc[r] = "fixing" THEN 1 ELSE 0
  <2>1. count \in {1} \cup 0..MaxCycles
    BY HarnessAssumption
  <2> HIDE DEF count
  <2>2. [run[r] EXCEPT !.cycles = count] \in Locals
    BY <1>2, <1>8, <2>1, LocalsChange
  <2>3. run' = [run EXCEPT ![r] = [run[r] EXCEPT !.cycles = count]]
    BY <1>8, <1>13 DEF Changed, count
  <2> QED
    BY <1>4, <1>7, <1>8, <1>13, <2>2, <2>3 DEF Changed, Returns, Step, Places
<1>14. CASE Checked(r)
  <2>1. PICK v \in {"pass", "fail"} :
          /\ run' = [run EXCEPT ![r].verdict = v]
          /\ \/ Writes(r, Stage(r, "completed"), "done")
             \/ Writes(r, Stage(r, "reviewing"), "fixing")
             \/ Writes(r, Stage(r, "failed"), "done")
    BY <1>14 DEF Checked
  <2>2. run' \in [Runs -> Locals]
    BY <1>2, <1>7, <1>8, <2>1, LocalsChange
  <2>3. UNCHANGED <<aborted, faults, approved, signed>>
    BY <1>14 DEF Checked, Step
  <2>4. PICK s \in Stages, then \in Targets : Writes(r, Stage(r, s), then)
    BY <2>1 DEF Targets, Over, Calls, Stages
  <2>5. Stage(r, s) \in Row
    BY <1>3
  <2> QED
    BY <1>5, <1>8, <2>2, <2>3, <2>4, <2>5
<1>15. CASE Planned(r)
  <2>1. PICK p \in Plans : /\ run' = [run EXCEPT ![r].planId = p]
                           /\ Writes(r, StageAndPlan(r, "ready", p), "chosen")
    BY <1>8, <1>15 DEF Planned
  <2>2. run' \in [Runs -> Locals]
    BY <1>2, <1>7, <1>8, <2>1, LocalsChange
  <2>3. StageAndPlan(r, "ready", p) \in Row
    BY <1>3 DEF Stages
  <2> QED
    BY <1>5, <1>8, <1>15, <2>1, <2>2, <2>3 DEF Planned, Returns, Step, Targets
<1>16. CASE Chosen(r)
  BY <1>2, <1>3, <1>4, <1>5, <1>8, <1>16
     DEF Chosen, Execute, Step, Places, Targets, Calls, Gates, Stages, NextActions
<1>17. CASE Executed(r)
  BY <1>2, <1>3, <1>5, <1>7, <1>8, <1>17, LocalsChange DEF Executed, Returns, Step, Targets, Stages
<1>18. CASE Judge(r)
  BY <1>2, <1>3, <1>4, <1>5, <1>6, <1>7, <1>8, <1>18, LocalsChange, HarnessAssumption
     DEF Judge, Execute, Step, Exhausted, Counted, Places, Targets, Calls, Stages, NextActions, Locals
<1>19. CASE Converged(r)
  BY <1>2, <1>3, <1>5, <1>8, <1>19
     DEF Converged, Returns, Step, Targets, Gates, Stages, NextActions
<1>20. CASE AnswerSpecification(r)
  <2>1. run[r].planId \in Plans
    BY <1>1, <1>2, <1>20, Started DEF AnswerSpecification, RunOK, Allowed, Toward, Locals
  <2>2. [approved EXCEPT ![Mine(r)] = @ \cup {run[r].planId}] \in [Tasks -> SUBSET Plans]
    BY <1>2, <2>1 DEF TypeOK
  <2> QED
    BY <1>2, <1>3, <1>5, <1>8, <1>20, <2>2
       DEF AnswerSpecification, Execute, Targets, Calls, Stages, NextActions
<1>21. CASE AnswerConvergence(r)
  <2>1. signed \cup {r} \subseteq Runs
    BY <1>8
  <2> QED
    BY <1>2, <1>3, <1>4, <1>5, <1>8, <1>21, <2>1
       DEF AnswerConvergence, Places, Targets, Stages, NextActions
<1> QED
  BY <1>9, <1>10, <1>11, <1>12, <1>13, <1>14, <1>15, <1>16, <1>17, <1>18, <1>19, <1>20, <1>21

LEMMA NextType == IInv /\ [Next]_vars => TypeOK'
<1> SUFFICES ASSUME IInv, [Next]_vars
             PROVE  TypeOK'
  OBVIOUS
<1>1. ASSUME NEW r \in Runs, Throw(r)
      PROVE  TypeOK'
  <2>1. pc[r] # "idle" /\ TypeOK
    BY <1>1 DEF Throw, Calls, IInv
  <2>2. faults' \in 0..MaxFaults
    BY <1>1, <2>1, HarnessAssumption DEF Throw, TypeOK
  <2> QED
    BY <1>1, <2>1, <2>2, CatchType DEF Throw
<1>2. ASSUME NEW r \in Runs, Abort(r)
      PROVE  TypeOK'
  <2>1. TypeOK /\ Mine(r) \in Tasks
    BY <1>2, Started DEF Abort, Live
  <2> QED
    BY <1>2, <2>1, HarnessAssumption DEF Abort, TypeOK
<1>3. ASSUME Crash
      PROVE  TypeOK'
  <2>1. TypeOK /\ \A r \in Live : Mine(r) \in Tasks
    BY Started DEF Live, IInv
  <2>2. NoWrite \in [doc : Row \cup {NoRow}, then : Targets \cup {None}] /\ "dead" \in Places
    BY DEF NoWrite, Places
  <2>3. faults' \in 0..MaxFaults
    BY <1>3, <2>1, HarnessAssumption DEF Crash, TypeOK
  <2>4. pc' \in [Runs -> Places]
    BY <1>3, <2>1, <2>2 DEF Crash, TypeOK
  <2> QED
    BY <1>3, <2>1, <2>2, <2>3, <2>4 DEF Crash, TypeOK
<1>4. CASE UNCHANGED vars
  BY <1>4 DEF vars, IInv, TypeOK
<1> QED
  BY <1>1, <1>2, <1>3, <1>4, StartType, WriteType, WorkType DEF Next, Proceed, Answer

-----------------------------------------------------------------------------
(* What a step of one run does to the others. *)

\* A step of r is its own: it only adds to the history, and a started run keeps its options.
Kept(r) ==
  /\ \A q \in Runs \ {r} : pc'[q] = pc[q] /\ todo'[q] = todo[q] /\ run'[q] = run[q]
  /\ pc[r] # "idle" => run'[r].task = run[r].task /\ run'[r].policy = run[r].policy
  /\ \A t \in Tasks : approved[t] \subseteq approved'[t]
  /\ signed \subseteq signed' /\ broken \subseteq broken'
KindsKept == \A t \in Tasks : row[t] \in Row => row'[t] \in Row /\ row'[t].kind = row[t].kind

LEMMA ExcusedStays ==
  ASSUME IInv, NEW r \in Runs, Kept(r)
  PROVE  \A t \in Tasks : Excused(t) => Excused(t)'
<1> SUFFICES ASSUME NEW t \in Tasks, Excused(t)
             PROVE  Excused(t)'
  OBVIOUS
<1>1. CASE approved[t] # {} \/ t \in broken
  BY <1>1 DEF Kept, Excused
<1>2. ASSUME NEW q \in On(t), run[q].policy = "auto"
      PROVE  Excused(t)'
  <2>1. q \in Runs /\ run[q].task = t /\ t # None
    BY HarnessAssumption DEF On, None
  <2>2. pc[q] # "idle"
    BY <2>1 DEF IInv, RunOK, HasRow, Mine, Idle
  <2>3. run'[q].task = t /\ run'[q].policy = "auto"
    BY <1>2, <2>1, <2>2 DEF Kept
  <2> QED
    BY <2>1, <2>3 DEF Excused, On
<1> QED
  BY <1>1, <1>2 DEF Excused

\* A document keeps saying the truth.
LEMMA SaysStays ==
  ASSUME IInv, NEW r \in Runs, Kept(r)
  PROVE  \A t \in Tasks, d \in Row : Says(t, d) => Says(t, d)'
BY ExcusedStays DEF Says, Kept

LEMMA OtherRuns ==
  ASSUME IInv, TypeOK', NEW r \in Runs, Kept(r), KindsKept,
         \A q \in Runs \ {r} : (Mine(q) \in Tasks /\ writer'[Mine(q)] = q) =>
                                  writer[Mine(q)] = q /\ fresh'[q] = fresh[q],
         NEW q \in Runs \ {r}
  PROVE  RunOK(q)'
<1>1. pc'[q] = pc[q] /\ todo'[q] = todo[q] /\ run'[q] = run[q] /\ RunOK(q) /\ TypeOK
  BY DEF Kept, IInv
<1>2. CASE pc[q] = "idle"
  <2>1. pc'[q] = "idle" /\ run'[q] = Idle
    BY <1>1, <1>2 DEF RunOK, HasRow
  <2>2. HasRow(q)' /\ Inherited(q)' /\ Pending(q)'
    BY <2>1 DEF HasRow, Inherited, Pending, Idle
  <2>3. Toward(q)' = "idle"
    BY <2>1 DEF Toward
  <2>4. OnRoute(q)' /\ Allowed(q)'
    BY <2>3 DEF OnRoute, Allowed, Small, Large, Implementing
  <2> QED
    BY <2>2, <2>4 DEF RunOK
<1>3. CASE pc[q] # "idle"
  <2>1. /\ Mine(q) \in Tasks /\ Mine(q)' = Mine(q) /\ row[Mine(q)] \in Row
        /\ row'[Mine(q)] \in Row /\ Kinded(q)' = Kinded(q)
    BY <1>1, <1>3 DEF RunOK, HasRow, Mine, KindsKept, Kinded
  <2>2. Toward(q)' = Toward(q)
    BY <1>1 DEF Toward
  <2>3. Excused(Mine(q)) => Excused(Mine(q))'
    BY <2>1, ExcusedStays
  <2>4. HasRow(q)'
    BY <1>1, <1>3, <2>1 DEF RunOK, HasRow, Kept
  <2>5. OnRoute(q)'
    BY <1>1, <2>1, <2>2 DEF RunOK, OnRoute
  <2>6. Allowed(q)'
    BY <1>1, <2>1, <2>2, <2>3 DEF RunOK, Allowed
  <2>7. Inherited(q)'
    BY <1>1, <2>1, <2>3 DEF RunOK, Inherited
  <2>8. Pending(q)'
    <3> SUFFICES ASSUME pc[q] = "writing"
                 PROVE  Pending(q)'
      BY <1>1 DEF Pending
    <3>1. Says(Mine(q), todo[q].doc) => Says(Mine(q), todo[q].doc)'
      BY <1>1, <2>1, <2>3, SaysStays DEF Pending, RunOK, Says, Kept
    <3>2. Justified(q) => Justified(q)'
      BY <1>1, <2>1 DEF Justified, Kept
    <3> QED
      BY <1>1, <2>1, <3>1, <3>2 DEF RunOK, Pending, Fits, Claims
  <2> QED
    BY <2>4, <2>5, <2>6, <2>7, <2>8 DEF RunOK
<1> QED
  BY <1>2, <1>3

\* A row that r does not write keeps its truth, whatever else r does.
LEMMA SameRow ==
  ASSUME IInv, TypeOK', NEW r \in Runs, Kept(r), pc[r] # "done", NEW t \in Tasks,
         row'[t] = row[t], writer'[t] = writer[t],
         writer[t] = r => /\ pc'[r] \notin {"idle", "registering"}
                          /\ Fits(pc'[r], row[t].stage)
  PROVE  RowOK(t)'
<1> SUFFICES ASSUME row[t] # NoRow
             PROVE  RowOK(t)'
  BY DEF RowOK
<1>1. RowOK(t) /\ TypeOK /\ row[t] \in Row /\ t # None
  BY HarnessAssumption DEF IInv, TypeOK, None
<1>2. \A q \in On(t) : q \in On(t)' /\ run'[q].policy = run[q].policy /\ (q # r => run'[q] = run[q])
  <2> SUFFICES ASSUME NEW q \in On(t)
               PROVE  q \in On(t)' /\ run'[q].policy = run[q].policy /\ (q # r => run'[q] = run[q])
    OBVIOUS
  <2>1. q \in Runs /\ run[q].task = t /\ run[q] # Idle
    BY <1>1 DEF On, Idle
  <2>2. pc[q] # "idle"
    BY <2>1 DEF IInv, RunOK, HasRow
  <2> QED
    BY <2>1, <2>2 DEF On, Kept
<1>3. writer[t] \in On(t)' /\ pc'[writer[t]] \notin {"idle", "registering"}
      /\ Fits(pc'[writer[t]], row[t].stage)
  BY <1>1, <1>2 DEF RowOK, On, Kept
<1>4. Says(t, row[t])'
  BY <1>1, ExcusedStays DEF RowOK, Says, Kept
<1>5. ASSUME Claims(row[t])
      PROVE  Verified(t)'
  <2>1. PICK q \in On(t) : pc[q] = "done" /\ Justified(q)
    BY <1>1, <1>5 DEF RowOK, Verified
  <2>2. q # r /\ q \in Runs /\ run[q].task = t
    BY <2>1 DEF On
  <2>3. pc'[q] = "done" /\ run'[q] = run[q]
    BY <2>1, <2>2 DEF Kept
  <2>4. Justified(q)'
    BY <2>1, <2>2, <2>3 DEF Justified, Kinded, Mine, Kept
  <2> QED
    BY <1>2, <2>1, <2>3, <2>4 DEF Verified
<1> QED
  BY <1>3, <1>4, <1>5 DEF RowOK, Fits, Claims

-----------------------------------------------------------------------------
(* The steps of a started run. *)

\* A step that writes no row, of a run that is at work.
LEMMA StepOK ==
  ASSUME IInv, TypeOK', NEW r \in Runs, pc[r] \notin {"idle", "done"}, Kept(r),
         run'[r].existing = run[r].existing, UNCHANGED <<row, writer>>,
         \A q \in Runs \ {r} : fresh'[q] = fresh[q],
         pc'[r] \notin {"idle", "registering", "dead"},
         OnRoute(r)', Allowed(r)', Pending(r)',
         writer[Mine(r)] = r => Fits(pc'[r], row[Mine(r)].stage)
  PROVE  IInv'
<1>1. /\ TypeOK /\ Mine(r) \in Tasks /\ row[Mine(r)] \in Row /\ RunOK(r)
      /\ Mine(r)' = Mine(r) /\ run'[r].policy = run[r].policy
  BY Started DEF Kept, Mine
<1>2. ASSUME NEW q \in Runs \ {r}
      PROVE  RunOK(q)'
  BY OtherRuns DEF KindsKept
<1>3. RunOK(r)'
  <2>1. HasRow(r)'
    BY <1>1 DEF HasRow
  <2>2. Inherited(r)'
    BY <1>1, ExcusedStays DEF RunOK, Inherited, Kinded
  <2> QED
    BY <2>1, <2>2 DEF RunOK
<1>4. ASSUME NEW t \in Tasks
      PROVE  RowOK(t)'
  <2>1. CASE row[t] = NoRow
    BY <2>1 DEF RowOK
  <2>2. CASE row[t] # NoRow
    <3>1. writer[t] = r => Mine(r) = t
      BY <2>2 DEF IInv, RowOK, On, Mine
    <3> QED
      BY <3>1, SameRow
  <2> QED
    BY <2>1, <2>2
<1> QED
  BY <1>2, <1>3, <1>4 DEF IInv

\* A step that goes on without a write.
LEMMA GotoOK ==
  ASSUME IInv, TypeOK', NEW r \in Runs, pc[r] \notin {"idle", "done", "writing"}, Kept(r),
         run'[r].existing = run[r].existing, UNCHANGED <<row, writer, fresh, todo>>,
         pc'[r] \notin {"idle", "registering", "writing", "dead"},
         OnRoute(r)', Allowed(r)',
         writer[Mine(r)] = r => Fits(pc'[r], row[Mine(r)].stage)
  PROVE  IInv'
BY StepOK DEF Pending

\* A step that reads the row and means to write it.
LEMMA UpdateOK ==
  ASSUME IInv, TypeOK', NEW r \in Runs, pc[r] \notin {"idle", "done"}, Kept(r),
         run'[r].existing = run[r].existing, UNCHANGED <<row, writer>>,
         \A q \in Runs \ {r} : fresh'[q] = fresh[q], fresh'[r], pc'[r] = "writing",
         todo'[r].doc \in Row, todo'[r].then # None, todo'[r].doc.kind = Kinded(r),
         OnRoute(r)', Allowed(r)', Says(Mine(r), todo[r].doc)',
         Fits(todo'[r].then, todo'[r].doc.stage),
         Claims(todo'[r].doc) => todo'[r].then = "done" /\ Justified(r)'
  PROVE  IInv'
<1>1. Kinded(r)' = Kinded(r)
  BY DEF Kinded, Mine, Kept
<1>2. Pending(r)'
  BY <1>1 DEF Pending, Fits, Claims
<1>3. Fits(pc'[r], row[Mine(r)].stage)
  BY DEF Fits, Over, Gates
<1> QED
  BY <1>2, <1>3, StepOK

\* The same, by what is written and where the run goes then.
LEMMA WritesOK ==
  ASSUME IInv, TypeOK', NEW r \in Runs, pc[r] \notin {"idle", "done"}, Kept(r),
         run'[r].existing = run[r].existing,
         NEW changed \in Row, NEW then \in Targets, UpdateStage(r, changed, then),
         changed.kind = Kinded(r),
         changed.executionPolicy = row[Mine(r)].executionPolicy,
         Fits(then, changed.stage),
         then = "answering" => Kinded(r) = "conversation",
         then \in Small => Kinded(r) = "simple_change",
         then \in Large \cup Implementing => Kinded(r) = "complex",
         then \in {"chosen", "specification"} \cup Implementing => run'[r].planId # None,
         then \in {"converging", "convergence"} => run'[r].verdict = "pass",
         then \in Implementing => Excused(Mine(r))',
         Kinded(r) = "complex" =>
           /\ changed.stage = "waiting_user" =>
                changed.nextAction = "approve_specification" \/ Excused(Mine(r))'
           /\ changed.stage = "completed" => Excused(Mine(r))'
           /\ changed.stage = "failed" => Mine(r) \in broken',
         Claims(changed) => then = "done" /\ Justified(r)'
  PROVE  IInv'
<1>1. /\ TypeOK /\ Mine(r) \in Tasks /\ row[Mine(r)] \in Row /\ RowOK(Mine(r))
      /\ row[Mine(r)] # NoRow
  BY Started
<1>2. /\ todo'[r].doc = changed /\ todo'[r].then = then /\ pc'[r] = "writing" /\ fresh'[r]
      /\ \A q \in Runs \ {r} : fresh'[q] = fresh[q]
      /\ UNCHANGED <<row, writer>>
  BY <1>1 DEF UpdateStage, TypeOK
<1>3. Toward(r)' = then /\ Mine(r)' = Mine(r) /\ Kinded(r)' = Kinded(r)
  BY <1>2 DEF Toward, Mine, Kinded, Kept
<1>4. OnRoute(r)'
  BY <1>3 DEF OnRoute
<1>5. Allowed(r)'
  BY <1>3 DEF Allowed
<1>6. Says(Mine(r), todo[r].doc)'
  BY <1>1, <1>2, <1>3 DEF Says, RowOK
<1>7. then # None
  BY DEF None, Targets, Calls, Gates, Over
<1> QED
  BY <1>2, <1>4, <1>5, <1>6, <1>7, UpdateOK

LEMMA Fields ==
  ASSUME IInv, NEW r \in Runs, pc[r] # "idle", NEW s, NEW n, NEW p
  PROVE  LET same(doc) == /\ doc.stage = s /\ doc.kind = Kinded(r)
                          /\ doc.executionPolicy = row[Mine(r)].executionPolicy
         IN  /\ same(Stage(r, s)) /\ same(StageAndPlan(r, s, p))
             /\ same(StageAndNext(r, s, n)) /\ StageAndNext(r, s, n).nextAction = n
<1> DEFINE doc == row[Mine(r)]
<1>1. doc \in Row
  BY Started
<1> HIDE DEF doc
<1>2. /\ [doc EXCEPT !.stage = s].stage = s
      /\ [doc EXCEPT !.stage = s].kind = doc.kind
      /\ [doc EXCEPT !.stage = s].executionPolicy = doc.executionPolicy
  BY <1>1 DEF Row
<1>3. /\ [doc EXCEPT !.stage = s, !.planId = p].stage = s
      /\ [doc EXCEPT !.stage = s, !.planId = p].kind = doc.kind
      /\ [doc EXCEPT !.stage = s, !.planId = p].executionPolicy = doc.executionPolicy
  BY <1>1 DEF Row
<1>4. /\ [doc EXCEPT !.stage = s, !.nextAction = n].stage = s
      /\ [doc EXCEPT !.stage = s, !.nextAction = n].kind = doc.kind
      /\ [doc EXCEPT !.stage = s, !.nextAction = n].executionPolicy = doc.executionPolicy
      /\ [doc EXCEPT !.stage = s, !.nextAction = n].nextAction = n
  BY <1>1 DEF Row
<1> QED
  BY <1>2, <1>3, <1>4 DEF Stage, StageAndPlan, StageAndNext, doc, Kinded

LEMMA CatchOK ==
  ASSUME IInv, TypeOK', NEW r \in Runs, pc[r] \notin {"idle", "done"}, Catch(r),
         UNCHANGED <<run, approved, signed>>
  PROVE  IInv'
<1>1. Kept(r)
  BY DEF Kept, Catch, UpdateStage, IInv, TypeOK
<1> DEFINE s == IF r \in aborted THEN "cancelled" ELSE "failed"
<1>2. s \in {"cancelled", "failed"}
  OBVIOUS
<1>3. Blocker(r) = StageAndNext(r, s, "inspect_or_resume")
  BY DEF Blocker, StageAndNext
<1> HIDE DEF s
<1>4. UpdateStage(r, StageAndNext(r, s, "inspect_or_resume"), "thrown") /\ Mine(r) \in broken'
  BY <1>3 DEF Catch
<1>5. StageAndNext(r, s, "inspect_or_resume") \in Row
  BY <1>2, StageType DEF Stages, NextActions
<1>6. /\ StageAndNext(r, s, "inspect_or_resume").stage = s
      /\ StageAndNext(r, s, "inspect_or_resume").kind = Kinded(r)
      /\ StageAndNext(r, s, "inspect_or_resume").executionPolicy = row[Mine(r)].executionPolicy
  BY Fields
<1>7. "thrown" \in Targets /\ "thrown" \notin Small \cup Large \cup Implementing \cup Gates
  BY DEF Targets, Over, Small, Large, Implementing, Gates
<1>8. Fits("thrown", s)
  BY <1>2, <1>7 DEF Fits, Settled
<1> QED
  BY <1>1, <1>2, <1>4, <1>5, <1>6, <1>7, <1>8, WritesOK DEF Claims, Implementing, Large

\* What a step that writes or goes on leaves alone.
LEMMA StepKeeps ==
  ASSUME IInv, NEW r \in Runs, pc[r] # "idle", NEW changed, NEW place,
         Writes(r, changed, place) \/ Goto(r, place),
         \A q \in Runs \ {r} : run'[q] = run[q],
         run'[r].task = run[r].task, run'[r].policy = run[r].policy,
         \A t \in Tasks : approved[t] \subseteq approved'[t], signed \subseteq signed'
  PROVE  /\ Kept(r) /\ Mine(r)' = Mine(r) /\ Kinded(r)' = Kinded(r)
         /\ Writes(r, changed, place) => UpdateStage(r, changed, place) /\ UNCHANGED broken
         /\ Goto(r, place) => /\ pc'[r] = place /\ (place # "writing" => Toward(r)' = place)
                              /\ UNCHANGED <<row, fresh, todo, writer, broken>>
BY Started DEF Kept, Writes, UpdateStage, Goto, TypeOK, Mine, Kinded, Toward

\* Changes of the locals keep the options.
LEMMA LocalsKept ==
  ASSUME IInv, NEW r \in Runs, pc[r] # "idle", NEW p, NEW c, NEW v,
         \/ run' = [run EXCEPT ![r].planId = p]
         \/ run' = [run EXCEPT ![r].cycles = c]
         \/ run' = [run EXCEPT ![r].verdict = v]
  PROVE  /\ \A q \in Runs \ {r} : run'[q] = run[q]
         /\ run'[r].task = run[r].task /\ run'[r].policy = run[r].policy
         /\ run'[r].existing = run[r].existing
         /\ run' = [run EXCEPT ![r].planId = p] => run'[r].planId = p /\ run'[r].verdict = run[r].verdict
         /\ run' = [run EXCEPT ![r].cycles = c] =>
              run'[r].planId = run[r].planId /\ run'[r].verdict = run[r].verdict
         /\ run' = [run EXCEPT ![r].verdict = v] => run'[r].planId = run[r].planId /\ run'[r].verdict = v
<1>1. run[r] \in Locals /\ TypeOK
  BY Started
<1> DEFINE o == run[r]
<1>2. o \in Locals
  BY <1>1
<1> HIDE DEF o
<1>3. LET x == [o EXCEPT !.planId = p]
      IN  /\ x.task = o.task /\ x.policy = o.policy /\ x.existing = o.existing
          /\ x.planId = p /\ x.verdict = o.verdict
  BY <1>2 DEF Locals
<1>4. LET x == [o EXCEPT !.cycles = c]
      IN  /\ x.task = o.task /\ x.policy = o.policy /\ x.existing = o.existing
          /\ x.planId = o.planId /\ x.verdict = o.verdict
  BY <1>2 DEF Locals
<1>5. LET x == [o EXCEPT !.verdict = v]
      IN  /\ x.task = o.task /\ x.policy = o.policy /\ x.existing = o.existing
          /\ x.planId = o.planId /\ x.verdict = v
  BY <1>2 DEF Locals
<1>6. /\ run' = [run EXCEPT ![r].planId = p] => run'[r] = [o EXCEPT !.planId = p]
      /\ run' = [run EXCEPT ![r].cycles = c] => run'[r] = [o EXCEPT !.cycles = c]
      /\ run' = [run EXCEPT ![r].verdict = v] => run'[r] = [o EXCEPT !.verdict = v]
  BY <1>1 DEF TypeOK, o
<1> QED
  BY <1>1, <1>3, <1>4, <1>5, <1>6 DEF TypeOK, o

LEMMA RouteOK ==
  ASSUME IInv, TypeOK', NEW r \in Runs, Route(r)
  PROVE  IInv'
<1>1. pc[r] = "routing" /\ UNCHANGED <<aborted, faults, approved, signed>>
  BY DEF Route, Step
<1>2. TypeOK /\ RunOK(r) /\ run[r] \in Locals
  BY <1>1, Started
<1>3. ASSUME NEW place, \/ place = "answering" /\ Kinded(r) = "conversation"
                        \/ place = "sketching" /\ Kinded(r) = "simple_change",
             Goto(r, place), UNCHANGED run
      PROVE  IInv'
  <2>1. /\ Kept(r) /\ Kinded(r)' = Kinded(r) /\ pc'[r] = place /\ Toward(r)' = place
        /\ UNCHANGED <<row, fresh, todo, writer>>
    BY <1>1, <1>3, StepKeeps
  <2>2. OnRoute(r)' /\ Allowed(r)'
    BY <1>3, <2>1 DEF OnRoute, Allowed, Small, Large, Implementing
  <2>3. Fits(pc'[r], row[Mine(r)].stage)
    BY <1>3, <2>1 DEF Fits, Over, Gates
  <2> QED
    BY <1>1, <1>3, <2>1, <2>2, <2>3, GotoOK
<1>4. ASSUME NEW s, NEW place, \/ s = "executing" /\ place = "changing" /\ Kinded(r) = "simple_change"
                               \/ s = "planning" /\ place = "planning" /\ Kinded(r) = "complex",
             Writes(r, Stage(r, s), place), UNCHANGED run
      PROVE  IInv'
  <2>1. Kept(r) /\ UpdateStage(r, Stage(r, s), place)
    BY <1>1, <1>4, StepKeeps
  <2>2. Stage(r, s) \in Row /\ place \in Targets
    BY <1>1, <1>4, StageType DEF Stages, Targets, Calls
  <2> QED
    BY <1>1, <1>4, <2>1, <2>2, WritesOK, Fields
       DEF Fits, Claims, Small, Large, Implementing, Over, Gates
<1>5. ASSUME NEW plan, Kinded(r) = "complex",
             run[r].existing # NoRow, plan = run[r].existing.planId, plan # None,
             run' = [run EXCEPT ![r].planId = plan],
             Writes(r, StageAndPlan(r, "ready", plan), "chosen")
      PROVE  IInv'
  <2>1. plan \in Plans
    BY <1>2, <1>5 DEF Locals, Row
  <2>2. /\ \A q \in Runs \ {r} : run'[q] = run[q]
        /\ run'[r].task = run[r].task /\ run'[r].policy = run[r].policy
        /\ run'[r].existing = run[r].existing /\ run'[r].planId = plan
    BY <1>1, <1>5, LocalsKept
  <2>3. Kept(r) /\ UpdateStage(r, StageAndPlan(r, "ready", plan), "chosen")
    BY <1>1, <1>5, <2>2, StepKeeps
  <2>4. StageAndPlan(r, "ready", plan) \in Row /\ "chosen" \in Targets
    BY <1>1, <2>1, StageType DEF Stages, Targets
  <2> QED
    BY <1>1, <1>5, <2>2, <2>3, <2>4, WritesOK, Fields
       DEF Fits, Claims, Small, Large, Implementing, Over, Gates
<1> QED
  BY <1>3, <1>4, <1>5 DEF Route

\* A step that leaves the locals alone and writes a stage.
LEMMA SmallStageOK ==
  ASSUME IInv, TypeOK', NEW r \in Runs, pc[r] \notin {"idle", "done"},
         NEW s \in Stages, NEW place \in {"done", "fixing"},
         Writes(r, Stage(r, s), place), UNCHANGED <<approved, signed>>,
         \A q \in Runs \ {r} : run'[q] = run[q],
         run'[r].task = run[r].task, run'[r].policy = run[r].policy,
         run'[r].existing = run[r].existing,
         Kinded(r) # "complex",
         place = "done" => s \in Settled,
         place = "fixing" => s # "completed" /\ Kinded(r) = "simple_change",
         s = "completed" => Kinded(r) = "conversation" \/ run'[r].verdict = "pass"
  PROVE  IInv'
<1>1. /\ Kept(r) /\ UpdateStage(r, Stage(r, s), place)
      /\ Kinded(r)' = Kinded(r)
  BY StepKeeps
<1>2. Stage(r, s) \in Row /\ place \in Targets
  BY StageType DEF Targets, Over, Calls
<1>3. Claims(Stage(r, s)) => place = "done" /\ Justified(r)'
  BY <1>1, Fields DEF Claims, Justified
<1>4. place \notin Implementing \cup Large \cup Gates \cup {"thrown", "chosen", "answering"}
  BY DEF Implementing, Large, Gates
<1>5. Fits(place, Stage(r, s).stage)
  BY <1>4, Fields DEF Fits, Over
<1> QED
  BY <1>1, <1>2, <1>3, <1>4, <1>5, WritesOK, Fields DEF Small, Implementing

LEMMA SmallOK ==
  ASSUME IInv, TypeOK', NEW r \in Runs,
         Answered(r) \/ Sketched(r) \/ Changed(r) \/ Checked(r)
  PROVE  IInv'
<1>1. pc[r] \in {"answering"} \cup Small /\ UNCHANGED <<aborted, faults, approved, signed>>
  BY DEF Answered, Sketched, Changed, Checked, Returns, Step, Small
<1>2. TypeOK /\ OnRoute(r) /\ Allowed(r) /\ Toward(r) = pc[r]
  BY <1>1, Started DEF Small, RunOK, Toward
<1>3. CASE Answered(r)
  BY <1>1, <1>2, <1>3, SmallStageOK DEF Answered, Returns, Step, OnRoute, Stages, Settled, Small
<1>4. CASE Sketched(r)
  BY <1>1, <1>2, <1>4, SmallStageOK DEF Sketched, Returns, Step, OnRoute, Stages, Settled, Small
<1>5. CASE Changed(r)
  <2> DEFINE count == IF pc[r] = "fixing" THEN 1 ELSE 0
  <2>1. run' = [run EXCEPT ![r].cycles = count] /\ Goto(r, "checking")
    BY <1>5 DEF Changed
  <2> HIDE DEF count
  <2>2. /\ \A q \in Runs \ {r} : run'[q] = run[q]
        /\ run'[r].task = run[r].task /\ run'[r].policy = run[r].policy
        /\ run'[r].existing = run[r].existing
    BY <1>1, <2>1, LocalsKept DEF Small
  <2>3. /\ Kept(r) /\ Kinded(r)' = Kinded(r) /\ pc'[r] = "checking" /\ Toward(r)' = "checking"
        /\ UNCHANGED <<row, fresh, todo, writer>>
    BY <1>1, <2>1, <2>2, StepKeeps DEF Small
  <2>4. OnRoute(r)' /\ Allowed(r)' /\ Fits(pc'[r], row[Mine(r)].stage)
    BY <1>1, <1>2, <1>5, <2>3
       DEF OnRoute, Allowed, Fits, Small, Large, Implementing, Over, Gates, Changed, Returns, Step
  <2> QED
    BY <1>1, <2>2, <2>3, <2>4, GotoOK DEF Small
<1>6. CASE Checked(r)
  <2>1. PICK v \in {"pass", "fail"} :
          /\ run' = [run EXCEPT ![r].verdict = v]
          /\ \/ v = "pass" /\ Writes(r, Stage(r, "completed"), "done")
             \/ v = "fail" /\ Writes(r, Stage(r, "reviewing"), "fixing")
             \/ v = "fail" /\ Writes(r, Stage(r, "failed"), "done")
    BY <1>6 DEF Checked
  <2>2. /\ \A q \in Runs \ {r} : run'[q] = run[q]
        /\ run'[r].task = run[r].task /\ run'[r].policy = run[r].policy
        /\ run'[r].existing = run[r].existing /\ run'[r].verdict = v
    BY <1>1, <2>1, LocalsKept DEF Small
  <2>3. Kinded(r) = "simple_change" /\ pc[r] \notin {"idle", "done"}
    BY <1>1, <1>2, <1>6 DEF Checked, Step, OnRoute, Small
  <2>4. PICK s \in {"completed", "reviewing", "failed"}, place \in {"done", "fixing"} :
          /\ Writes(r, Stage(r, s), place)
          /\ s = "completed" => v = "pass"
          /\ place = "fixing" <=> s = "reviewing"
    BY <2>1
  <2> QED
    BY <1>1, <2>2, <2>3, <2>4, SmallStageOK DEF Stages, Settled
<1> QED
  BY <1>3, <1>4, <1>5, <1>6

LEMMA PlannedOK ==
  ASSUME IInv, TypeOK', NEW r \in Runs, Planned(r)
  PROVE  IInv'
<1>1. pc[r] = "planning" /\ UNCHANGED <<aborted, faults, approved, signed>>
  BY DEF Planned, Returns, Step
<1>2. PICK plan \in {r, Earlier} : /\ run' = [run EXCEPT ![r].planId = plan]
                                  /\ Writes(r, StageAndPlan(r, "ready", plan), "chosen")
  BY DEF Planned
<1>3. plan \in Plans /\ plan # None
  BY HarnessAssumption DEF Plans, None, Earlier
<1>4. Kinded(r) = "complex"
  BY <1>1, Started DEF RunOK, OnRoute, Toward, Large
<1>5. /\ \A q \in Runs \ {r} : run'[q] = run[q]
      /\ run'[r].task = run[r].task /\ run'[r].policy = run[r].policy
      /\ run'[r].existing = run[r].existing /\ run'[r].planId = plan
  BY <1>1, <1>2, LocalsKept
<1>6. Kept(r) /\ UpdateStage(r, StageAndPlan(r, "ready", plan), "chosen")
  BY <1>1, <1>2, <1>5, StepKeeps
<1>7. StageAndPlan(r, "ready", plan) \in Row /\ "chosen" \in Targets
  BY <1>1, <1>3, StageType DEF Stages, Targets
<1> QED
  BY <1>1, <1>3, <1>4, <1>5, <1>6, <1>7, WritesOK, Fields
     DEF Fits, Claims, Small, Large, Implementing, Over, Gates

\* A run of a complex task with a plan goes on by a write that gives stage and next action.
LEMMA LargeStageOK ==
  ASSUME IInv, TypeOK', NEW r \in Runs, pc[r] \notin {"idle", "done"}, Kinded(r) = "complex",
         NEW s \in Stages, NEW n \in NextActions,
         NEW place \in {"executing", "judging", "done"} \cup Gates,
         NEW changed \in {Stage(r, s), StageAndNext(r, s, n)},
         Writes(r, changed, place),
         \A t \in Tasks : approved[t] \subseteq approved'[t], signed \subseteq signed',
         \A q \in Runs \ {r} : run'[q] = run[q],
         run'[r].task = run[r].task, run'[r].policy = run[r].policy,
         run'[r].existing = run[r].existing, run'[r].planId # None,
         place = "done" => s \in Settled,
         place \in Gates => s = "waiting_user",
         place = "convergence" => run'[r].verdict = "pass",
         place \in Implementing \/ s = "completed" => Excused(Mine(r))',
         s = "waiting_user" => /\ changed = StageAndNext(r, s, n)
                               /\ n = "approve_specification" \/ Excused(Mine(r))',
         s = "completed" => place = "done" /\ Justified(r)',
         s # "failed"
  PROVE  IInv'
<1>1. Kept(r) /\ UpdateStage(r, changed, place)
  BY StepKeeps
<1>2. changed \in Row /\ place \in Targets
  BY StageType DEF Targets, Over, Calls
<1>3. /\ changed.stage = s /\ changed.kind = Kinded(r)
      /\ changed.executionPolicy = row[Mine(r)].executionPolicy
      /\ s = "waiting_user" => changed.nextAction = n
  BY Fields
<1>4. place \notin Small \cup {"thrown", "chosen", "answering"}
  BY DEF Gates, Small
<1>5. Fits(place, changed.stage)
  BY <1>3, <1>4 DEF Fits, Over
<1>6. Claims(changed) => place = "done" /\ Justified(r)'
  BY <1>3 DEF Claims
<1>7. place # "converging"
  BY DEF Gates
<1> QED
  BY <1>1, <1>2, <1>3, <1>4, <1>5, <1>6, <1>7, WritesOK

LEMMA ChosenOK ==
  ASSUME IInv, TypeOK', NEW r \in Runs, Chosen(r)
  PROVE  IInv'
<1>1. pc[r] = "chosen" /\ UNCHANGED <<aborted, faults, approved, signed, run>>
  BY DEF Chosen, Step
<1>2. /\ TypeOK /\ RunOK(r) /\ RowOK(Mine(r)) /\ Mine(r) \in Tasks /\ row[Mine(r)] # NoRow
      /\ run[r] \in Locals
  BY <1>1, Started
<1>3. Kinded(r) = "complex" /\ run[r].planId # None
  BY <1>1, <1>2 DEF RunOK, OnRoute, Allowed, Toward, Large
<1>4. CASE Goto(r, "done")
  <2>1. /\ Kept(r) /\ Kinded(r)' = Kinded(r) /\ pc'[r] = "done" /\ Toward(r)' = "done"
        /\ UNCHANGED <<row, fresh, todo, writer>>
    BY <1>1, <1>4, StepKeeps
  <2>2. OnRoute(r)' /\ Allowed(r)'
    BY <2>1 DEF OnRoute, Allowed, Small, Large, Implementing
  <2>3. writer[Mine(r)] = r => Fits(pc'[r], row[Mine(r)].stage)
    BY <1>1, <1>2, <2>1 DEF RowOK, Fits, Settled, Over, Gates
  <2> QED
    BY <1>1, <2>1, <2>2, <2>3, GotoOK
<1>5. CASE Writes(r, StageAndNext(r, "waiting_user", "approve_specification"),
                 IF run[r].approver THEN "specification" ELSE "done")
  BY <1>1, <1>3, <1>5, LargeStageOK DEF Stages, NextActions, Settled, Gates, Implementing
<1>6. CASE /\ ~(run[r].policy = "plan" /\ run[r].existing = NoRow)
           /\ ~(run[r].policy = "approval" /\ NeedsSpecificationApproval(run[r].existing))
           /\ Execute(r, None)
  <2>1. Excused(Mine(r))'
    <3>1. CASE run[r].policy = "auto"
      BY <1>1, <1>2, <3>1 DEF Excused, On, Mine
    <3>2. CASE run[r].policy # "auto"
      <4>1. run[r].policy = "approval" /\ ~NeedsSpecificationApproval(run[r].existing)
        BY <1>2, <1>6, <3>2 DEF RunOK, Inherited, Locals, Policy
      <4>2. Excused(Mine(r))
        BY <1>2, <1>3, <4>1 DEF RunOK, Inherited, NeedsSpecificationApproval
      <4>3. Kept(r) /\ Mine(r)' = Mine(r)
        BY <1>1, <1>6, StepKeeps DEF Execute
      <4> QED
        BY <1>2, <4>2, <4>3, ExcusedStays
    <3> QED
      BY <3>1, <3>2
  <2>2. None \in NextActions /\ "executing" \in Stages
    BY DEF NextActions, Stages
  <2>3. Writes(r, StageAndNext(r, "executing", None), "executing")
    BY <1>6 DEF Execute
  <2> QED
    BY <1>1, <1>3, <2>1, <2>2, <2>3, LargeStageOK DEF Gates
<1> QED
  BY <1>4, <1>5, <1>6 DEF Chosen

\* A run that implements keeps being allowed to.
LEMMA KeepsImplementing ==
  ASSUME IInv, NEW r \in Runs, pc[r] \in Implementing
  PROVE  /\ Kinded(r) = "complex" /\ run[r].planId # None /\ pc[r] \notin {"idle", "done"}
         /\ TypeOK /\ Mine(r) \in Tasks /\ RowOK(Mine(r)) /\ row[Mine(r)] # NoRow
         /\ pc[r] \in {"converging", "convergence"} => run[r].verdict = "pass"
         /\ Kept(r) => Excused(Mine(r))'
<1>1. pc[r] \notin {"idle", "done", "writing"}
  BY DEF Implementing
<1>2. Toward(r) = pc[r] /\ RunOK(r) /\ TypeOK /\ Mine(r) \in Tasks
      /\ RowOK(Mine(r)) /\ row[Mine(r)] # NoRow
  BY <1>1, Started DEF Toward
<1>3. Excused(Mine(r))
  BY <1>2 DEF RunOK, Allowed
<1>4. Kept(r) => Mine(r)' = Mine(r)
  BY <1>1 DEF Kept, Mine
<1> QED
  BY <1>1, <1>2, <1>3, <1>4, ExcusedStays DEF RunOK, OnRoute, Allowed

LEMMA AnswerSpecificationOK ==
  ASSUME IInv, TypeOK', NEW r \in Runs, AnswerSpecification(r)
  PROVE  IInv'
<1>1. pc[r] = "specification" /\ UNCHANGED <<run, aborted, faults, signed>>
  BY DEF AnswerSpecification
<1>2. TypeOK /\ RunOK(r) /\ Mine(r) \in Tasks
  BY <1>1, Started
<1>3. Kinded(r) = "complex" /\ run[r].planId # None
  BY <1>1, <1>2 DEF RunOK, OnRoute, Allowed, Toward, Large
<1>4. CASE approved' = [approved EXCEPT ![Mine(r)] = @ \cup {run[r].planId}] /\ Execute(r, None)
  <2>1. Writes(r, StageAndNext(r, "executing", None), "executing")
    BY <1>4 DEF Execute
  <2>2. \A t \in Tasks : approved[t] \subseteq approved'[t]
    BY <1>2, <1>4 DEF TypeOK
  <2>3. Excused(Mine(r))'
    <3>1. Mine(r)' = Mine(r) /\ run[r].planId \in approved'[Mine(r)]
      BY <1>1, <1>2, <1>4 DEF Mine, TypeOK
    <3> QED
      BY <3>1 DEF Excused
  <2>4. None \in NextActions /\ "executing" \in Stages
    BY DEF NextActions, Stages
  <2> QED
    BY <1>1, <1>3, <2>1, <2>2, <2>3, <2>4, LargeStageOK DEF Gates
<1>5. CASE UNCHANGED approved /\ Writes(r, Stage(r, "cancelled"), "done")
  <2>1. None \in NextActions /\ "cancelled" \in Stages \cap Settled
    BY DEF NextActions, Stages, Settled
  <2> QED
    BY <1>1, <1>3, <1>5, <2>1, LargeStageOK DEF Gates, Implementing
<1> QED
  BY <1>4, <1>5 DEF AnswerSpecification

LEMMA ExecutedOK ==
  ASSUME IInv, TypeOK', NEW r \in Runs, Executed(r)
  PROVE  IInv'
<1>1. pc[r] = "executing" /\ UNCHANGED <<aborted, faults, approved, signed>>
      /\ Writes(r, Stage(r, "reviewing"), "judging")
  BY DEF Executed, Returns, Step
<1>2. PICK v \in {"pass", "fail"} : run' = [run EXCEPT ![r].verdict = v]
  BY DEF Executed
<1>3. /\ \A q \in Runs \ {r} : run'[q] = run[q]
      /\ run'[r].task = run[r].task /\ run'[r].policy = run[r].policy
      /\ run'[r].existing = run[r].existing /\ run'[r].planId = run[r].planId
  BY <1>1, <1>2, LocalsKept
<1>4. Kept(r)
  BY <1>1, <1>3, StepKeeps
<1>5. None \in NextActions /\ "reviewing" \in Stages
  BY DEF NextActions, Stages
<1> QED
  BY <1>1, <1>3, <1>4, <1>5, LargeStageOK, KeepsImplementing DEF Gates, Implementing

LEMMA JudgeOK ==
  ASSUME IInv, TypeOK', NEW r \in Runs, Judge(r)
  PROVE  IInv'
<1>1. pc[r] = "judging" /\ UNCHANGED <<aborted, faults, approved, signed>>
  BY DEF Judge, Step
<1>2. CASE Passed(r) /\ Goto(r, "converging") /\ UNCHANGED run
  <2>1. /\ Kept(r) /\ Kinded(r)' = Kinded(r) /\ pc'[r] = "converging" /\ Toward(r)' = "converging"
        /\ UNCHANGED <<row, fresh, todo, writer>>
    BY <1>1, <1>2, StepKeeps
  <2>2. OnRoute(r)' /\ Allowed(r)'
    BY <1>1, <1>2, <2>1, KeepsImplementing DEF OnRoute, Allowed, Passed, Small, Implementing
  <2>3. Fits(pc'[r], row[Mine(r)].stage)
    BY <2>1 DEF Fits, Over, Gates
  <2> QED
    BY <1>1, <1>2, <2>1, <2>2, <2>3, GotoOK
<1>3. CASE Catch(r) /\ UNCHANGED run
  BY <1>1, <1>3, CatchOK
<1>4. CASE run' = [run EXCEPT ![r].cycles = Counted(@)] /\ Execute(r, "repair_cycle")
  <2> DEFINE count == Counted(run[r].cycles)
  <2>1. run' = [run EXCEPT ![r].cycles = count]
    BY <1>4
  <2> HIDE DEF count
  <2>2. Writes(r, StageAndNext(r, "executing", "repair_cycle"), "executing")
    BY <1>4 DEF Execute
  <2>3. /\ \A q \in Runs \ {r} : run'[q] = run[q]
        /\ run'[r].task = run[r].task /\ run'[r].policy = run[r].policy
        /\ run'[r].existing = run[r].existing /\ run'[r].planId = run[r].planId
    BY <1>1, <2>1, LocalsKept
  <2>4. Kept(r)
    BY <1>1, <2>2, <2>3, StepKeeps
  <2>5. "repair_cycle" \in NextActions /\ "executing" \in Stages
    BY DEF NextActions, Stages
  <2> QED
    BY <1>1, <2>2, <2>3, <2>4, <2>5, LargeStageOK, KeepsImplementing DEF Gates, Implementing
<1> QED
  BY <1>2, <1>3, <1>4 DEF Judge

LEMMA ConvergedOK ==
  ASSUME IInv, TypeOK', NEW r \in Runs, Converged(r)
  PROVE  IInv'
<1>1. pc[r] = "converging" /\ UNCHANGED <<aborted, faults, approved, signed, run>>
  BY DEF Converged, Returns, Step
<1>2. /\ Kinded(r) = "complex" /\ run[r].planId # None /\ run[r].verdict = "pass"
      /\ Kept(r) => Excused(Mine(r))'
  BY <1>1, KeepsImplementing DEF Implementing
<1>3. CASE Writes(r, StageAndNext(r, "waiting_user", "approve_convergence"),
                 IF run[r].approver THEN "convergence" ELSE "done")
  <2>1. Kept(r)
    BY <1>1, <1>3, StepKeeps
  <2> QED
    BY <1>1, <1>2, <1>3, <2>1, LargeStageOK DEF Stages, NextActions, Settled, Gates, Implementing
<1>4. CASE run[r].policy # "approval" /\ Writes(r, StageAndNext(r, "completed", None), "done")
  <2>1. Kept(r)
    BY <1>1, <1>4, StepKeeps
  <2>2. Justified(r)'
    BY <1>1, <1>2, <1>4 DEF Justified
  <2> QED
    BY <1>1, <1>2, <1>4, <2>1, <2>2, LargeStageOK DEF Stages, NextActions, Settled, Gates, Implementing
<1> QED
  BY <1>3, <1>4 DEF Converged

LEMMA AnswerConvergenceOK ==
  ASSUME IInv, TypeOK', NEW r \in Runs, AnswerConvergence(r)
  PROVE  IInv'
<1>1. pc[r] = "convergence" /\ UNCHANGED <<run, aborted, faults, approved>>
  BY DEF AnswerConvergence
<1>2. /\ Kinded(r) = "complex" /\ run[r].planId # None /\ run[r].verdict = "pass"
      /\ TypeOK /\ Mine(r) \in Tasks /\ RowOK(Mine(r)) /\ row[Mine(r)] # NoRow
      /\ Kept(r) => Excused(Mine(r))'
  BY <1>1, KeepsImplementing DEF Implementing
<1>3. CASE signed' = signed \cup {r} /\ Writes(r, StageAndNext(r, "completed", None), "done")
  <2>1. Kept(r)
    BY <1>1, <1>3, StepKeeps
  <2>2. Justified(r)'
    BY <1>1, <1>2, <1>3 DEF Justified
  <2> QED
    BY <1>1, <1>2, <1>3, <2>1, <2>2, LargeStageOK DEF Stages, NextActions, Settled, Gates, Implementing
<1>4. CASE Goto(r, "done") /\ UNCHANGED signed
  <2>1. /\ Kept(r) /\ Kinded(r)' = Kinded(r) /\ pc'[r] = "done" /\ Toward(r)' = "done"
        /\ UNCHANGED <<row, fresh, todo, writer>>
    BY <1>1, <1>4, StepKeeps
  <2>2. OnRoute(r)' /\ Allowed(r)'
    BY <2>1 DEF OnRoute, Allowed, Small, Large, Implementing
  <2>3. writer[Mine(r)] = r => Fits(pc'[r], row[Mine(r)].stage)
    BY <1>1, <1>2, <2>1 DEF RowOK, Fits, Settled, Over, Gates
  <2> QED
    BY <1>1, <2>1, <2>2, <2>3, GotoOK
<1> QED
  BY <1>3, <1>4 DEF AnswerConvergence

-----------------------------------------------------------------------------
(* The steps that write a row, and the others. *)

\* A run writes its row and is where the document says.
LEMMA PutOK ==
  ASSUME IInv, TypeOK', NEW r \in Runs, pc[r] \in {"registering", "writing"},
         NEW doc \in Row, Put(r, doc), doc.kind = Kinded(r),
         UNCHANGED <<run, aborted, faults, approved, signed, broken>>,
         \A q \in Runs \ {r} : pc'[q] = pc[q] /\ todo'[q] = todo[q],
         pc'[r] \in Places \ {"idle", "registering", "writing", "dead"},
         Fits(pc'[r], doc.stage), Says(Mine(r), doc),
         OnRoute(r)', Allowed(r)',
         Claims(doc) => (pc'[r] = "done" /\ Justified(r)) \/ Verified(Mine(r))
  PROVE  IInv'
<1>1. /\ TypeOK /\ RunOK(r) /\ Mine(r) \in Tasks /\ row[Mine(r)] \in Row
      /\ Mine(r)' = Mine(r)
  BY Started DEF Mine
<1>2. Kept(r)
  BY <1>1 DEF Kept, TypeOK
<1>3. /\ row'[Mine(r)] = doc /\ writer'[Mine(r)] = r
      /\ \A t \in Tasks \ {Mine(r)} : row'[t] = row[t] /\ writer'[t] = writer[t]
  BY <1>1 DEF Put, TypeOK
<1>4. KindsKept
  BY <1>3 DEF KindsKept, Kinded
<1>5. ASSUME NEW q \in Runs \ {r}
      PROVE  RunOK(q)'
  <2>1. \A p \in Runs \ {r} : (Mine(p) \in Tasks /\ writer'[Mine(p)] = p) =>
                                 writer[Mine(p)] = p /\ fresh'[p] = fresh[p]
    BY <1>1, <1>3 DEF Put, TypeOK
  <2> QED
    BY <1>2, <1>4, <2>1, OtherRuns
<1>6. RunOK(r)'
  <2>1. Kinded(r)' = Kinded(r)
    BY <1>1, <1>3 DEF Kinded
  <2>2. HasRow(r)' /\ Pending(r)'
    BY <1>1, <1>3 DEF HasRow, Pending
  <2>3. Inherited(r)'
    BY <1>1, <1>2, <2>1, ExcusedStays DEF RunOK, Inherited
  <2> QED
    BY <2>2, <2>3 DEF RunOK
<1>7. ASSUME NEW t \in Tasks \ {Mine(r)}
      PROVE  RowOK(t)'
  <2>1. CASE row[t] = NoRow
    BY <1>3, <2>1 DEF RowOK
  <2>2. CASE row[t] # NoRow
    <3>1. writer[t] # r
      BY <2>2 DEF IInv, RowOK, On, Mine
    <3> QED
      BY <1>2, <1>3, <3>1, SameRow
  <2> QED
    BY <2>1, <2>2
<1>8. RowOK(Mine(r))'
  <2> DEFINE t == Mine(r)
  <2>1. r \in On(t)' /\ \A q \in On(t) : q \in On(t)'
    BY DEF On, Mine
  <2>2. Says(t, doc)'
    BY <1>1, <1>2, SaysStays DEF Says
  <2>3. Claims(doc) => Verified(t)'
    <3>1. \A q \in On(t) : Justified(q) => Justified(q)'
      <4> SUFFICES ASSUME NEW q \in On(t), Justified(q)
                   PROVE  Justified(q)'
        OBVIOUS
      <4>1. q \in Runs /\ Kinded(q) = Kinded(r) /\ Kinded(q)' = doc.kind
        BY <1>3 DEF On, Kinded, Mine
      <4> QED
        BY <4>1 DEF Justified
    <3>2. r \in On(t)
      BY DEF On, Mine
    <3>3. \A q \in On(t) : q # r /\ pc[q] = "done" => pc'[q] = "done"
      BY DEF On
    <3> QED
      BY <2>1, <3>1, <3>2, <3>3 DEF Verified
  <2> QED
    BY <1>1, <1>3, <2>1, <2>2, <2>3 DEF RowOK, Fits, Claims
<1>9. \A t \in Tasks : RowOK(t)'
  <2> SUFFICES ASSUME NEW t \in Tasks
               PROVE  RowOK(t)'
    OBVIOUS
  <2>1. CASE t = Mine(r)
    BY <1>1, <1>8, <2>1
  <2> QED
    BY <1>7, <2>1
<1>10. \A q \in Runs : RunOK(q)'
  BY <1>5, <1>6
<1> QED
  BY <1>9, <1>10 DEF IInv

LEMMA WriteOK ==
  ASSUME IInv, TypeOK', NEW r \in Runs, Write(r)
  PROVE  IInv'
<1>1. /\ pc[r] = "writing" /\ UNCHANGED <<run, aborted, faults, approved, signed>>
      /\ TypeOK /\ Mine(r) \in Tasks /\ RunOK(r) /\ RowOK(Mine(r)) /\ row[Mine(r)] # NoRow
  BY Started DEF Write
<1>2. /\ todo[r].then \in Targets /\ todo[r].doc \in Row /\ Pending(r) /\ Toward(r) = todo[r].then
      /\ OnRoute(r) /\ Allowed(r)
  BY <1>1 DEF RunOK, Pending, TypeOK, Toward
<1>3. CASE fresh[r]
  <2>1. /\ Put(r, todo[r].doc) /\ UNCHANGED broken
        /\ pc' = [pc EXCEPT ![r] = todo[r].then] /\ todo' = [todo EXCEPT ![r] = NoWrite]
    BY <1>3 DEF Write
  <2>2. /\ \A q \in Runs \ {r} : pc'[q] = pc[q] /\ todo'[q] = todo[q]
        /\ pc'[r] = todo[r].then
    BY <1>1, <2>1 DEF TypeOK
  <2>3. pc'[r] \in Places \ {"idle", "registering", "writing", "dead"}
    BY <1>2, <2>2 DEF Targets, Places, Calls, Gates, Over
  <2>4. Toward(r)' = Toward(r)
    BY <1>2, <2>2, <2>3 DEF Toward
  <2>5. /\ todo[r].doc.kind = Kinded(r) /\ Fits(todo[r].then, todo[r].doc.stage)
        /\ Says(Mine(r), todo[r].doc)
        /\ Claims(todo[r].doc) => todo[r].then = "done" /\ Justified(r)
    BY <1>1, <1>2 DEF Pending
  <2>6. Kept(r) /\ Mine(r)' = Mine(r) /\ Kinded(r)' = Kinded(r)
    BY <1>1, <1>2, <2>1, <2>2, <2>5 DEF Kept, Mine, Kinded, Put, TypeOK
  <2>7. OnRoute(r)'
    BY <1>2, <2>4, <2>6 DEF OnRoute
  <2>8. Allowed(r)'
    BY <1>1, <1>2, <2>4, <2>6, ExcusedStays DEF Allowed
  <2> QED
    BY <1>1, <1>2, <2>1, <2>2, <2>3, <2>5, <2>7, <2>8, PutOK DEF Fits
<1>4. CASE ~fresh[r] /\ todo[r].then # "thrown"
  BY <1>1, <1>4, CatchOK DEF Write
<1>5. CASE ~fresh[r] /\ todo[r].then = "thrown"
  <2>1. /\ pc' = [pc EXCEPT ![r] = "thrown"] /\ todo' = [todo EXCEPT ![r] = NoWrite]
        /\ UNCHANGED <<row, fresh, writer, broken, run, approved, signed>>
    BY <1>5 DEF Write
  <2>2. pc'[r] = "thrown" /\ \A q \in Runs \ {r} : pc'[q] = pc[q] /\ todo'[q] = todo[q]
    BY <1>1, <2>1 DEF TypeOK
  <2>3. Kept(r)
    BY <2>1, <2>2 DEF Kept
  <2>4. writer[Mine(r)] # r
    BY <1>1, <1>2, <1>5 DEF Pending
  <2>5. OnRoute(r)' /\ Allowed(r)' /\ Pending(r)'
    BY <2>2 DEF OnRoute, Allowed, Pending, Toward, Small, Large, Implementing
  <2> QED
    BY <1>1, <2>1, <2>2, <2>3, <2>4, <2>5, StepOK
<1> QED
  BY <1>3, <1>4, <1>5

LEMMA RegisterOK ==
  ASSUME IInv, TypeOK', NEW r \in Runs, Register(r)
  PROVE  IInv'
<1>1. /\ pc[r] = "registering"
      /\ UNCHANGED <<todo, run, aborted, faults, approved, signed, broken>>
      /\ TypeOK /\ Mine(r) \in Tasks /\ row[Mine(r)] \in Row /\ RowOK(Mine(r))
      /\ row[Mine(r)] # NoRow
  BY Started DEF Register
<1>2. CASE Put(r, row[Mine(r)]) /\ pc' = [pc EXCEPT ![r] = "routing"]
  <2>1. pc'[r] = "routing" /\ \A q \in Runs \ {r} : pc'[q] = pc[q]
    BY <1>1, <1>2 DEF TypeOK
  <2>2. OnRoute(r)' /\ Allowed(r)'
    BY <2>1 DEF OnRoute, Allowed, Toward, Small, Large, Implementing
  <2>3. "routing" \in Places \ {"idle", "registering", "writing", "dead"}
    BY DEF Places
  <2>4. Fits("routing", row[Mine(r)].stage)
    BY DEF Fits, Over, Gates
  <2> QED
    BY <1>1, <1>2, <2>1, <2>2, <2>3, <2>4, PutOK DEF RowOK, Kinded, Fits
<1>3. CASE pc' = [pc EXCEPT ![r] = "thrown"] /\ UNCHANGED <<row, fresh, writer>>
  <2>1. pc'[r] = "thrown" /\ \A q \in Runs \ {r} : pc'[q] = pc[q]
    BY <1>1, <1>3 DEF TypeOK
  <2>2. OnRoute(r)' /\ Allowed(r)'
    BY <2>1 DEF OnRoute, Allowed, Toward, Small, Large, Implementing
  <2>3. Kept(r)
    BY <1>1, <2>1 DEF Kept
  <2>4. writer[Mine(r)] # r
    BY <1>1 DEF RowOK
  <2> QED
    BY <1>1, <1>3, <2>1, <2>2, <2>3, <2>4, GotoOK
<1> QED
  BY <1>2, <1>3 DEF Register

LEMMA AbortOK ==
  ASSUME IInv, TypeOK', NEW r \in Runs, Abort(r)
  PROVE  IInv'
<1>1. /\ pc[r] \notin {"idle", "dead", "done"} /\ broken \subseteq broken'
      /\ UNCHANGED <<row, fresh, pc, todo, run, approved, signed, writer>>
  BY DEF Abort, Live, Over
<1>2. Kept(r) /\ KindsKept
  BY <1>1 DEF Kept, KindsKept
<1>3. ASSUME NEW q \in Runs
      PROVE  RunOK(q)'
  <2>1. CASE q # r
    BY <1>1, <1>2, <2>1, OtherRuns
  <2>2. CASE q = r
    <3>1. TypeOK /\ RunOK(r) /\ Mine(r) \in Tasks /\ Mine(r)' = Mine(r) /\ Kinded(r)' = Kinded(r)
          /\ Toward(r)' = Toward(r)
      BY <1>1, Started DEF Mine, Kinded, Toward
    <3>2. Excused(Mine(r)) => Excused(Mine(r))'
      BY <1>2, <3>1, ExcusedStays
    <3>3. HasRow(r)' /\ OnRoute(r)'
      BY <1>1, <3>1 DEF RunOK, HasRow, OnRoute
    <3>4. Allowed(r)' /\ Inherited(r)'
      BY <1>1, <3>1, <3>2 DEF RunOK, Allowed, Inherited
    <3>5. Pending(r)'
      BY <1>1, <3>1, <3>2 DEF RunOK, Pending, Fits, Says, Claims, Justified
    <3> QED
      BY <2>2, <3>3, <3>4, <3>5 DEF RunOK
  <2> QED
    BY <2>1, <2>2
<1>4. ASSUME NEW t \in Tasks
      PROVE  RowOK(t)'
  <2>1. writer[t] = r /\ row[t] # NoRow => pc[r] # "registering" /\ Fits(pc[r], row[t].stage)
    BY DEF IInv, RowOK
  <2>2. CASE row[t] = NoRow
    BY <1>1, <2>2 DEF RowOK
  <2> QED
    BY <1>1, <1>2, <2>1, <2>2, SameRow
<1> QED
  BY <1>3, <1>4 DEF IInv

\* The process dies: what the rows say, they keep saying.
LEMMA CrashOK ==
  ASSUME IInv, TypeOK', Crash
  PROVE  IInv'
<1>1. /\ \A r \in Runs : pc'[r] = IF r \in Live THEN "dead" ELSE pc[r]
      /\ broken' = broken \cup {Mine(r) : r \in Live}
      /\ UNCHANGED <<row, fresh, run, aborted, approved, signed, writer>> /\ TypeOK
  BY DEF Crash, IInv
<1>2. \A t : Excused(t) => Excused(t)'
  BY <1>1 DEF Excused, On
<1>3. ASSUME NEW r \in Runs
      PROVE  RunOK(r)'
  <2>1. RunOK(r) /\ Kinded(r)' = Kinded(r) /\ Mine(r)' = Mine(r)
    BY <1>1 DEF IInv, Kinded, Mine
  <2>2. pc'[r] # "writing" /\ (pc'[r] # pc[r] =>
                                   pc[r] # "idle" /\ pc'[r] = "dead" /\ Mine(r) \in broken')
    BY <1>1 DEF Live, Over
  <2>3. HasRow(r)' /\ Pending(r)'
    BY <1>1, <2>1, <2>2 DEF RunOK, HasRow, Pending
  <2>4. OnRoute(r)' /\ Allowed(r)'
    BY <1>1, <2>1 DEF RunOK, OnRoute, Allowed, Toward, Live, Over, Small, Large, Implementing
  <2>5. Inherited(r)'
    BY <1>1, <1>2, <2>1 DEF RunOK, Inherited
  <2> QED
    BY <2>3, <2>4, <2>5 DEF RunOK
<1>4. ASSUME NEW t \in Tasks
      PROVE  RowOK(t)'
  <2> SUFFICES ASSUME row[t] # NoRow
               PROVE  RowOK(t)'
    BY <1>1 DEF RowOK
  <2>1. RowOK(t) /\ writer[t] \in Runs
    BY DEF IInv, RowOK, On
  <2>2. Says(t, row[t]) => Says(t, row[t])'
    BY <1>1, <1>2 DEF Says
  <2>3. Verified(t) => Verified(t)'
    BY <1>1 DEF Verified, On, Live, Over, Justified, Kinded, Mine
  <2>4. pc'[writer[t]] = pc[writer[t]] \/ pc'[writer[t]] = "dead"
    BY <1>1, <2>1
  <2>5. Fits("dead", row[t].stage)
    BY DEF Fits, Over, Gates
  <2> QED
    BY <1>1, <2>1, <2>2, <2>3, <2>4, <2>5 DEF RowOK, On, Fits, Claims
<1> QED
  BY <1>3, <1>4 DEF IInv

\* A row that nobody works on is true, and it tells whether its plan must be shown.
LEMMA AtRest ==
  ASSUME IInv, NEW t \in Tasks, row[t] # NoRow, On(t) \cap Live = {}
  PROVE  /\ pc[writer[t]] # "dead" => row[t].stage \in Settled
         /\ (row[t].kind = "complex" /\ row[t].stage # "cancelled") =>
              NeedsSpecificationApproval(row[t]) \/ Excused(t)
<1>1. RowOK(t) /\ row[t] \in Row /\ writer[t] \in Runs /\ Mine(writer[t]) = t
  BY DEF IInv, RowOK, On, Mine, TypeOK
<1>2. pc[writer[t]] \in {"dead"} \cup Over
  BY <1>1 DEF RowOK, On, Live
<1>3. pc[writer[t]] # "dead" => row[t].stage \in Settled
  BY <1>1, <1>2 DEF RowOK, Fits
<1>4. pc[writer[t]] = "dead" => t \in broken
  BY <1>1 DEF IInv, RunOK, HasRow
<1>5. ASSUME row[t].kind = "complex", row[t].stage \in Settled \ {"cancelled"}
      PROVE  NeedsSpecificationApproval(row[t]) \/ Excused(t)
  BY <1>1, <1>5 DEF RowOK, Says, Settled, NeedsSpecificationApproval, Excused
<1> QED
  BY <1>3, <1>4, <1>5 DEF Excused

LEMMA FreshOK ==
  ASSUME IInv, TypeOK', NEW r \in Runs, NEW t \in Tasks, NEW p \in Policies, NEW k \in Kinds,
         NEW asks \in BOOLEAN, Fresh(r, t, p, k, asks)
  PROVE  IInv'
<1> DEFINE doc == [stage |-> "understanding", nextAction |-> None, planId |-> None,
                   executionPolicy |-> IF p = "auto" THEN "auto" ELSE "approval", kind |-> k]
           options == [Idle EXCEPT !.task = t, !.policy = p, !.approver = asks, !.abortable = TRUE]
<1>1. /\ pc[r] = "idle" /\ row[t] = NoRow /\ TypeOK /\ run[r] = Idle
      /\ row' = [row EXCEPT ![t] = doc] /\ writer' = [writer EXCEPT ![t] = r]
      /\ run' = [run EXCEPT ![r] = options] /\ pc' = [pc EXCEPT ![r] = "routing"]
      /\ UNCHANGED <<fresh, todo, aborted, faults, approved, signed, broken>>
  BY DEF Fresh, Begin, IInv, RunOK, HasRow
<1>2. options.task = t /\ options.existing = NoRow
  BY DEF Idle
<1>3. doc \in Row /\ doc.stage = "understanding" /\ doc.executionPolicy # "plan"
  BY HarnessAssumption DEF Row, Stages, NextActions, Policy
<1> HIDE DEF doc, options
<1>4. /\ pc'[r] = "routing" /\ run'[r] = options /\ row'[t] = doc /\ writer'[t] = r
      /\ \A q \in Runs \ {r} : pc'[q] = pc[q] /\ run'[q] = run[q]
      /\ \A u \in Tasks \ {t} : row'[u] = row[u] /\ writer'[u] = writer[u]
  BY <1>1 DEF TypeOK
<1>5. Kept(r) /\ KindsKept
  BY <1>1, <1>3, <1>4, NoRowIsNone DEF Kept, KindsKept
<1>6. \A q \in Runs : Mine(q) # t
  <2> SUFFICES ASSUME NEW q \in Runs, Mine(q) = t
               PROVE  FALSE
    OBVIOUS
  <2>1. run[q] # Idle
    BY HarnessAssumption DEF Idle, None, Mine
  <2>2. row[t] \in Row
    BY <2>1 DEF IInv, RunOK, HasRow
  <2> QED
    BY <1>1, <2>2, NoRowIsNone
<1>7. ASSUME NEW q \in Runs \ {r}
      PROVE  RunOK(q)'
  BY <1>1, <1>4, <1>5, <1>6, OtherRuns
<1>8. RunOK(r)'
  <2>1. HasRow(r)' /\ Inherited(r)' /\ Pending(r)'
    BY <1>2, <1>3, <1>4 DEF HasRow, Inherited, Pending, Mine
  <2>2. OnRoute(r)' /\ Allowed(r)'
    BY <1>4 DEF OnRoute, Allowed, Toward, Small, Large, Implementing
  <2> QED
    BY <2>1, <2>2 DEF RunOK
<1>9. ASSUME NEW u \in Tasks
      PROVE  RowOK(u)'
  <2>1. CASE u = t
    <3>1. r \in On(t)'
      BY <1>2, <1>4 DEF On
    <3>2. Fits("routing", doc.stage) /\ ~Claims(doc) /\ Says(t, doc)'
      BY <1>3 DEF Fits, Over, Gates, Claims, Says
    <3> QED
      BY <1>4, <2>1, <3>1, <3>2 DEF RowOK, Fits, Claims, Says
  <2>2. CASE u # t /\ row[u] = NoRow
    BY <1>4, <2>2 DEF RowOK
  <2>3. CASE u # t /\ row[u] # NoRow
    <3>1. writer[u] # r
      BY <1>1, <2>3 DEF IInv, RowOK
    <3> QED
      BY <1>1, <1>4, <1>5, <2>3, <3>1, SameRow
  <2> QED
    BY <2>1, <2>2, <2>3
<1> QED
  BY <1>7, <1>8, <1>9 DEF IInv

\* A run that is given a row: what it inherits is what the row says.
LEMMA ReadExistingOK ==
  ASSUME IInv, TypeOK', NEW r \in Runs, NEW t \in Tasks, row[t] # NoRow,
         pc[r] = "idle", run' = [run EXCEPT ![r] = run'[r]],
         run'[r].task = t, run'[r].existing = row[t], run'[r].policy # "plan",
         pc' = [pc EXCEPT ![r] = "registering"], fresh' = [fresh EXCEPT ![r] = TRUE],
         UNCHANGED <<row, todo, aborted, faults, approved, signed, broken, writer>>,
         row[t].kind = "complex" => NeedsSpecificationApproval(row[t]) \/ Excused(t)'
  PROVE  IInv'
<1>1. TypeOK /\ row[t] \in Row
  BY DEF IInv, TypeOK
<1>2. /\ pc'[r] = "registering" /\ run'[r].task = t
      /\ \A q \in Runs \ {r} : pc'[q] = pc[q] /\ run'[q] = run[q] /\ fresh'[q] = fresh[q]
  BY <1>1 DEF TypeOK
<1>3. Kept(r) /\ KindsKept
  BY <1>2 DEF Kept, KindsKept
<1>4. ASSUME NEW q \in Runs \ {r}
      PROVE  RunOK(q)'
  BY <1>2, <1>3, OtherRuns
<1>5. RunOK(r)'
  <2>1. HasRow(r)' /\ Pending(r)' /\ Inherited(r)'
    BY <1>1, <1>2 DEF HasRow, Inherited, Pending, Mine, Kinded, NeedsSpecificationApproval
  <2>2. OnRoute(r)' /\ Allowed(r)'
    BY <1>2 DEF OnRoute, Allowed, Toward, Small, Large, Implementing
  <2> QED
    BY <2>1, <2>2 DEF RunOK
<1>6. ASSUME NEW u \in Tasks
      PROVE  RowOK(u)'
  <2>1. CASE row[u] = NoRow
    BY <2>1 DEF RowOK
  <2>2. CASE row[u] # NoRow
    <3>1. writer[u] # r
      BY <2>2 DEF IInv, RowOK
    <3> QED
      BY <1>3, <3>1, SameRow
  <2> QED
    BY <2>1, <2>2
<1> QED
  BY <1>4, <1>5, <1>6 DEF IInv

LEMMA StartOK ==
  ASSUME IInv, TypeOK', NEW r \in Runs, Start(r)
  PROVE  IInv'
<1>1. ASSUME NEW t \in Tasks, NEW p \in Policies, NEW asks \in BOOLEAN, Reuse(r, t, p, asks)
      PROVE  IInv'
  <2> DEFINE options == [[Idle EXCEPT !.policy = p, !.approver = asks, !.abortable = TRUE]
                            EXCEPT !.task = t, !.existing = row[t]]
  <2>1. options.task = t /\ options.existing = row[t] /\ options.policy = p
    BY DEF Idle
  <2>2. run' = [run EXCEPT ![r] = options]
    BY <1>1 DEF Reuse, ReadExisting, Begin
  <2> HIDE DEF options
  <2>3. run'[r] = options
    BY <2>2 DEF IInv, TypeOK
  <2> QED
    BY <1>1, <2>1, <2>2, <2>3, ReadExistingOK
       DEF Reuse, Ready, ReadExisting, Begin, NeedsSpecificationApproval
<1>2. ASSUME NEW t \in Tasks, Resume(r, t)
      PROVE  IInv'
  <2> DEFINE options == [[Idle EXCEPT !.policy = row[t].executionPolicy, !.approver = TRUE,
                                      !.alwaysApproves = TRUE]
                            EXCEPT !.task = t, !.existing = row[t]]
  <2>1. /\ options.task = t /\ options.existing = row[t]
        /\ options.policy = row[t].executionPolicy
    BY DEF Idle
  <2>2. run' = [run EXCEPT ![r] = options]
    BY <1>2 DEF Resume, ReadExisting, Begin
  <2> HIDE DEF options
  <2>3. run'[r] = options
    BY <2>2 DEF IInv, TypeOK
  <2>4. row[t] # NoRow /\ row[t].stage # "cancelled" /\ On(t) \cap Live = {}
    BY <1>2 DEF Resume
  <2>5. row[t].executionPolicy # "plan"
    BY <2>4 DEF IInv, RowOK, Says
  <2>6. /\ pc[r] = "idle" /\ pc' = [pc EXCEPT ![r] = "registering"]
        /\ fresh' = [fresh EXCEPT ![r] = TRUE]
        /\ UNCHANGED <<row, todo, aborted, faults, approved, signed, broken, writer>>
    BY <1>2 DEF Resume, ReadExisting, Begin
  <2>7. Kept(r)
    BY <2>2, <2>6 DEF Kept, IInv, TypeOK
  <2>8. row[t].kind = "complex" => NeedsSpecificationApproval(row[t]) \/ Excused(t)'
    BY <2>4, <2>7, AtRest, ExcusedStays
  <2> QED
    BY <2>1, <2>2, <2>3, <2>4, <2>5, <2>6, <2>8, ReadExistingOK
<1> QED
  BY <1>1, <1>2, FreshOK DEF Start

-----------------------------------------------------------------------------
(* The theorems. *)

LEMMA InvariantInit == Init => IInv
<1> SUFFICES ASSUME Init
             PROVE  IInv
  OBVIOUS
<1>1. Idle \in Locals /\ NoWrite \in [doc : Row \cup {NoRow}, then : Targets \cup {None}]
  BY HarnessAssumption DEF Idle, Locals, Policy, NoWrite
<1>2. TypeOK
  BY <1>1, HarnessAssumption DEF Init, TypeOK, Places
<1>3. ASSUME NEW r \in Runs
      PROVE  RunOK(r)
  <2>1. pc[r] = "idle" /\ run[r] = Idle
    BY DEF Init
  <2>2. HasRow(r) /\ Inherited(r) /\ Pending(r)
    BY <2>1 DEF HasRow, Inherited, Pending, Idle
  <2>3. OnRoute(r) /\ Allowed(r)
    BY <2>1 DEF OnRoute, Allowed, Toward, Small, Large, Implementing
  <2> QED
    BY <2>2, <2>3 DEF RunOK
<1>4. ASSUME NEW t \in Tasks
      PROVE  RowOK(t)
  BY DEF Init, RowOK
<1> QED
  BY <1>2, <1>3, <1>4 DEF IInv

LEMMA InvariantStep == IInv /\ [Next]_vars => IInv'
<1> SUFFICES ASSUME IInv, [Next]_vars
             PROVE  IInv'
  OBVIOUS
<1>1. TypeOK'
  BY NextType
<1>2. ASSUME NEW r \in Runs, Throw(r)
      PROVE  IInv'
  BY <1>1, <1>2, CatchOK DEF Throw, Calls
<1>3. CASE UNCHANGED vars
  BY <1>3 DEF vars, IInv, TypeOK, RunOK, HasRow, OnRoute, Allowed, Inherited, Pending, RowOK,
     Toward, Kinded, Mine, Excused, On, Says, Justified, Verified
<1> QED
  BY <1>1, <1>2, <1>3, StartOK, WriteOK, RegisterOK, RouteOK, SmallOK, PlannedOK, ChosenOK,
     ExecutedOK, JudgeOK, ConvergedOK, AnswerSpecificationOK, AnswerConvergenceOK, AbortOK, CrashOK
     DEF Next, Proceed, Answer

\* Where a run is says what its row, its options and the history of its task can be; a row
\* is what the run that wrote it last meant it to say (ProfileHarness.run, updateStage).
THEOREM HarnessInvariant == Spec => []IInv
<1>1. Init => IInv
  BY InvariantInit
<1>2. IInv /\ [Next]_vars => IInv'
  BY InvariantStep
<1> QED
  BY <1>1, <1>2, PTL DEF Spec

\* A row claims no work that nobody does and no result that nobody verified: also when runs
\* met on the row, when one of them lost every write, and after any number of resumes.
THEOREM RowsAreTrue == Spec => []RowIsTrue
<1>1. IInv => RowIsTrue
  <2> SUFFICES ASSUME IInv
               PROVE  RowIsTrue
    OBVIOUS
  <2>1. TypeOK
    BY DEF IInv
  <2>2. EndedIsSettled
    BY AtRest DEF EndedIsSettled
  <2>3. ASSUME NEW t \in Tasks, row[t] # NoRow, row[t].stage = "completed",
               row[t].kind # "conversation"
        PROVE  \E r \in On(t) : /\ run[r].verdict = "pass"
                                /\ (row[t].kind = "complex" /\ run[r].policy = "approval")
                                     => r \in signed
    BY <2>3 DEF IInv, RowOK, Claims, Verified, Justified, Kinded, Mine, On
  <2> QED
    BY <2>1, <2>2, <2>3 DEF RowIsTrue, CompletedIsVerified
<1> QED
  BY <1>1, HarnessInvariant, PTL

\* In approval mode nothing is implemented unless a plan of the task was approved, a run of it
\* was broken off or somebody ran it in auto mode, whatever the order of plan runs, reuses,
\* resumes and runs that meet on the row.
THEOREM GateIsHeld == Spec => []GateHolds
<1>1. IInv => GateHolds
  BY DEF IInv, GateHolds, RunOK, Allowed, Toward, Implementing
<1> QED
  BY <1>1, HarnessInvariant, PTL
=============================================================================
