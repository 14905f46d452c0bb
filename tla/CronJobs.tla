------------------------------ MODULE CronJobs ------------------------------
(* One scheduled job of BunCronScheduler: its row, which every write replaces under a check
   of its version, the timer the process keeps for it, the runs that the timer or a person
   starts, and the operations of persons, all of them async and none of them serialised. *)
EXTENDS Naturals, FiniteSets

CONSTANTS
  Runs,           \* runs that may be going at once
  Ops,            \* operations of persons that may be going at once
  Kinds,          \* of {"recurring", "one_shot"}
  MaxRuns,        \* max_runs of the job, 0 for none
  MaxStarted,     \* bound of the model: runs that are started
  MaxOps,         \* bound of the model: operations that are begun
  MaxUpsets,      \* bound of the model: kinds of events, of the list below, in a behaviour
  Upsets          \* which of them may happen

\* A run starts beside another; a person starts one; an operation begins beside another;
\* the agent of a run fails; the process dies.
UpsetKinds == {"overlap", "trigger", "ops", "failure", "crash"}
\* What interleaving alone brings about: a write that lost its race, and a job that was
\* completed between the reading and the writing of a pause or of a resumption.
Consequences == {"refused", "reopened"}

ASSUME CronJobsAssumption ==
  /\ Runs \cap Ops = {} /\ IsFiniteSet(Runs)
  /\ Kinds \subseteq {"recurring", "one_shot"} /\ Upsets \subseteq UpsetKinds
  /\ {MaxRuns, MaxStarted, MaxOps, MaxUpsets} \subseteq Nat

VARIABLES
  row,       \* the job: its version, 0 when there is none, status and run_count
  kind,      \* its task_type
  due,       \* the instant of a one-shot job is over
  timer,     \* handles: "none", "armed", or "spent" when a one-shot timer has fired
  pc,        \* each run and operation: where it is, the row it read for its next write, and
             \* the run_count it was started with
  up,        \* the process runs
  \* history
  open,      \* runs stored as running
  calls,     \* runs whose agent was called
  started, begun, upset

vars == <<row, kind, due, timer, pc, up, open, calls, started, begun, upset>>

NoRow == [ver |-> 0, status |-> "none", count |-> 0]
At(a) == pc[a].at
Place(place, seen) == [at |-> place, read |-> NoRow, seen |-> seen]
Rest == Place("idle", 0)
Busy(S) == \E a \in S : At(a) # "idle"
Goto(a, place) == pc' = [pc EXCEPT ![a] = Place(place, pc[a].seen)]

Init ==
  /\ row = NoRow /\ kind \in Kinds /\ due = FALSE /\ timer = "none"
  /\ pc = [a \in Runs \cup Ops |-> Rest] /\ up = TRUE
  /\ open = 0 /\ calls = 0 /\ started = 0 /\ begun = 0 /\ upset = {}

Happens(event) ==
  /\ event \in Upsets
  /\ upset' = upset \cup {event}
  /\ Cardinality(upset' \ Consequences) <= MaxUpsets
HappensIf(condition, event) ==
  IF condition THEN Happens(event) ELSE UNCHANGED upset
Without(events) == upset \cap events = {}

-----------------------------------------------------------------------------
(* The timer and the versioned write *)

AlwaysRegistered(over) == "armed"
\* register: the timer that was there is stopped; a one-shot job that is over gets none.
Registered(over) == IF kind = "one_shot" /\ over THEN "none" ELSE "armed"

Regardless(a) == TRUE
\* put with expectedVersion.
Accepted(a) == row.ver = pc[a].read.ver

\* patchCronJob, and the last write of update: what they change in the row they read.
Patches == {"count", "fail", "finish", "renew", "expire", "pause", "resume", "update"}
Patch(a) ==
  LET read == pc[a].read IN
  CASE At(a) = "count"                -> [read EXCEPT !.count = pc[a].seen + 1]
    [] At(a) \in {"finish", "expire"} -> [read EXCEPT !.status = "completed"]
    [] At(a) = "pause"                -> [read EXCEPT !.status = "paused"]
    [] At(a) = "resume"               -> [read EXCEPT !.status = "active"]
    [] OTHER                          -> read

\* Where a patch leads to, also when there is no row any more.
Then(place) ==
  CASE place = "count" -> "calling"
    [] place = "fail"  -> "closing"
    [] OTHER           -> "idle"

Reads(a) ==
  /\ At(a) \in Patches /\ pc[a].read = NoRow
  /\ IF row = NoRow
     THEN /\ Goto(a, Then(At(a)))
          /\ timer' = IF At(a) \in {"finish", "expire"} THEN "none" ELSE timer
     ELSE pc' = [pc EXCEPT ![a].read = row] /\ UNCHANGED timer
  /\ UNCHANGED <<row, kind, due, up, open, calls, started, begun, upset>>

\* What follows a write in the same step: the timer of a job that ended is stopped, that of
\* one that is resumed, or edited while active, is made anew.
Writes(a) ==
  /\ At(a) \in Patches /\ pc[a].read # NoRow /\ Accepted(a)
  /\ row' = [Patch(a) EXCEPT !.ver = row.ver + 1]
  /\ due' \in IF kind = "recurring" THEN {due}
             ELSE IF At(a) = "update" THEN {due, FALSE}
             ELSE IF At(a) = "resume" THEN {due, TRUE} ELSE {due}
  /\ timer' = IF At(a) \in {"finish", "expire"} THEN "none"
              ELSE IF At(a) \in {"resume", "update"} /\ row'.status = "active"
              THEN Registered(due') ELSE timer
  /\ Goto(a, Then(At(a)))
  /\ upset' = IF At(a) \in {"pause", "resume"} /\ row.status = "completed"
              THEN upset \cup {"reopened"} ELSE upset
  /\ UNCHANGED <<kind, up, open, calls, started, begun>>

\* The write throws, and the operation or the run ends there.
Refused(a) ==
  /\ At(a) \in Patches /\ pc[a].read # NoRow /\ ~Accepted(a)
  /\ pc' = [pc EXCEPT ![a] = Rest]
  /\ upset' = upset \cup {"refused"}
  /\ UNCHANGED <<row, kind, due, timer, up, open, calls, started, begun>>

-----------------------------------------------------------------------------
(* Runs *)

StartRun(a, place, seen) ==
  /\ At(a) = "idle" /\ started < MaxStarted /\ started' = started + 1
  /\ pc' = [pc EXCEPT ![a] = Place(place, seen)]

\* fireJob: the timer of a recurring job is armed again at once.
Fire(a) ==
  /\ up /\ timer = "armed"
  /\ HappensIf(Busy(Runs), "overlap")
  /\ StartRun(a, "loading", 0)
  /\ due' = (due \/ kind = "one_shot")
  /\ timer' = IF kind = "one_shot" THEN "spent" ELSE timer
  /\ UNCHANGED <<row, kind, up, open, calls, begun>>

\* trigger: whatever the status of the job is.
Trigger(a) ==
  /\ up /\ row # NoRow
  /\ Happens("trigger") /\ ~Busy(Runs)
  /\ StartRun(a, "storing", row.count)
  /\ UNCHANGED <<row, kind, due, timer, up, open, calls, begun>>

\* getRunnableJob: not a job that is not active, or out of its window of time.
Load(a) ==
  /\ At(a) = "loading"
  /\ \/ Goto(a, "idle")
     \/ row.status = "active" /\ Goto(a, "expire")
     \/ /\ row.status = "active"
        /\ pc' = [pc EXCEPT ![a] = Place("storing", row.count)]
  /\ UNCHANGED <<row, kind, due, timer, up, open, calls, started, begun, upset>>

\* executeJob, from one await to the next.
StoreRun(a) ==
  /\ At(a) = "storing"
  /\ open' = open + 1
  /\ Goto(a, "count")
  /\ UNCHANGED <<row, kind, due, timer, up, calls, started, begun, upset>>

AgentFails(a) == Goto(a, "fail")

Call(a) ==
  /\ At(a) = "calling"
  /\ calls' = calls + 1
  /\ \/ Goto(a, "closing") /\ UNCHANGED upset
     \/ AgentFails(a) /\ Happens("failure")
  /\ UNCHANGED <<row, kind, due, timer, up, open, started, begun>>

CloseRun(a) ==
  /\ At(a) = "closing"
  /\ open' = open - 1
  /\ Goto(a, "ending")
  /\ UNCHANGED <<row, kind, due, timer, up, calls, started, begun, upset>>

MoreThanLimit == MaxRuns > 0 /\ row.count > MaxRuns
LimitReached == MaxRuns > 0 /\ row.count >= MaxRuns

Decide(a) ==
  /\ At(a) = "ending"
  /\ Goto(a, IF row = NoRow THEN "idle"
             ELSE IF LimitReached \/ kind = "one_shot" THEN "finish" ELSE "renew")
  /\ UNCHANGED <<row, kind, due, timer, up, open, calls, started, begun, upset>>

-----------------------------------------------------------------------------
(* Operations of persons *)

Create ==
  /\ up /\ row = NoRow /\ begun = 0 /\ begun' = 1
  /\ row' = [ver |-> 1, status |-> "active", count |-> 0]
  /\ timer' = Registered(due)
  /\ UNCHANGED <<kind, due, pc, up, open, calls, started, upset>>

Begin(a) ==
  /\ up /\ At(a) = "idle" /\ row # NoRow /\ begun < MaxOps /\ begun' = begun + 1
  /\ HappensIf(Busy(Ops), "ops")

\* pause stops the timer first, and reads the row once more for its write.
Pause(a) ==
  /\ Begin(a) /\ row.status = "active"
  /\ timer' = "none"
  /\ Goto(a, "pause")
  /\ UNCHANGED <<row, kind, due, up, open, calls, started>>

Resume(a) ==
  /\ Begin(a) /\ row.status = "paused"
  /\ Goto(a, "resume")
  /\ UNCHANGED <<row, kind, due, timer, up, open, calls, started>>

Update(a) ==
  /\ Begin(a)
  /\ pc' = [pc EXCEPT ![a] = [at |-> "update", read |-> row, seen |-> 0]]
  /\ UNCHANGED <<row, kind, due, timer, up, open, calls, started>>

Delete(a) ==
  /\ Begin(a)
  /\ timer' = "none"
  /\ Goto(a, "delete")
  /\ UNCHANGED <<row, kind, due, up, open, calls, started>>

Deletes(a) ==
  /\ At(a) = "delete"
  /\ row' = NoRow
  /\ Goto(a, "idle")
  /\ UNCHANGED <<kind, due, timer, up, open, calls, started, begun, upset>>

-----------------------------------------------------------------------------
(* The process *)

Crash ==
  /\ up /\ Happens("crash")
  /\ up' = FALSE /\ timer' = "none"
  /\ pc' = [a \in Runs \cup Ops |-> Rest]
  /\ UNCHANGED <<row, kind, due, open, calls, started, begun>>

\* startup: time has gone by, and a one-shot job may be over.
Startup ==
  /\ ~up /\ up' = TRUE
  /\ due' \in IF kind = "one_shot" THEN {due, TRUE} ELSE {due}
  /\ timer' = IF row.status = "active" THEN Registered(due') ELSE "none"
  /\ UNCHANGED <<row, kind, pc, open, calls, started, begun, upset>>

RunStep(a) == Load(a) \/ StoreRun(a) \/ Call(a) \/ CloseRun(a) \/ Decide(a)
Write(a) == Reads(a) \/ Writes(a) \/ Refused(a)

Next ==
  \/ Create \/ Crash \/ Startup
  \/ \E a \in Runs : Fire(a) \/ Trigger(a) \/ RunStep(a) \/ Write(a)
  \/ \E a \in Ops : Pause(a) \/ Resume(a) \/ Update(a) \/ Delete(a) \/ Deletes(a) \/ Write(a)

Spec == Init /\ [][Next]_vars

-----------------------------------------------------------------------------
(* Properties *)

Statuses == {"none", "active", "paused", "completed"}
Places == {"idle", "loading", "storing", "calling", "closing", "ending", "delete"} \cup Patches
Rows == [ver : Nat, status : Statuses, count : Nat]

\* Every variable stays in its range; a run calls its agent at most once.
TypeOK ==
  /\ row \in Rows /\ kind \in Kinds /\ due \in BOOLEAN
  /\ timer \in {"none", "armed", "spent"}
  /\ pc \in [Runs \cup Ops -> [at : Places, read : Rows, seen : Nat]]
  /\ up \in BOOLEAN /\ open \in 0 .. started /\ calls \in 0 .. started
  /\ started \in 0 .. MaxStarted /\ begun \in Nat
  /\ upset \subseteq Upsets \cup Consequences

\* With one operation at a time, and none under way, the timer of the process agrees with the
\* stored job: what is not active, or is over, has none, and what is active has one, unless
\* a pause lost its race after it had stopped the timer.
TimerAgrees ==
  up /\ ~Busy(Ops) /\ Without({"ops"}) =>
    /\ timer = "armed" => row.status = "active" /\ ~(kind = "one_shot" /\ due)
    /\ row.status = "active" /\ ~due /\ Without({"refused"}) => timer = "armed"

\* A job that a person paused becomes active again by a resumption only, whatever the runs
\* that were going write about it.
PausedStays ==
  [][row.status = "paused" /\ row'.status = "active" =>
       \E a \in Ops : At(a) = "resume" /\ pc'[a] # pc[a]]_vars

\* As long as runs do not overlap, the job counts each of them that called its agent, and only
\* a crash makes it count one that did not.
CountIsCalls ==
  row # NoRow /\ Without({"overlap"}) =>
    LET called == calls + Cardinality({a \in Runs : At(a) = "calling"}) IN
    row.count >= called /\ (Without({"crash"}) => row.count = called)

\* max_runs is kept, as far as no run overlaps, is started by a person, or is cut short, and
\* no write of the end of the last one is refused or undone.
LimitIsKept ==
  MaxRuns > 0 /\ Without({"overlap", "trigger", "crash"} \cup Consequences) =>
    calls <= MaxRuns

\* A run that is stored as running is running, unless the process died or a write was refused.
StoredRunsEnd ==
  Without({"crash", "refused"}) =>
    open = Cardinality({a \in Runs : At(a) \in {"count", "calling", "fail", "closing"}})

\* The runs of a job are counted, kept to max_runs, and stored as what they are (executeJob).
RunsAreCounted == TypeOK /\ CountIsCalls /\ LimitIsKept /\ StoredRunsEnd

\* The stored row behaves as if every writer had changed it in one step.
Record == INSTANCE CronRecord WITH
  job <- [status |-> row.status, count |-> row.count], begun <- started
RowIsRecord == Record!Spec
=============================================================================
