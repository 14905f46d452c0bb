--------------------------- MODULE ExecutionSlots ---------------------------
(***************************************************************************)
(* The execution slots of packages/core/src/agent/execution-limits.ts: how *)
(* model calls and tool calls of concurrent agents are admitted.           *)
(*                                                                         *)
(* Every call goes through withExecutionSlot(session, signal, work,        *)
(* writer).  A session has a queue with at most Limit active calls; a call *)
(* that writes to the workspace names the path it locks, and two calls     *)
(* whose paths collide never run together, whatever their sessions.        *)
(*                                                                         *)
(* A Queue object is created on a session's first call and dropped from    *)
(* the map when it is idle.  A call keeps the object it was enqueued in    *)
(* (the closures of release and abort do), so objects have an identity:    *)
(* the call that created them.  Map order is creation order.               *)
(***************************************************************************)
EXTENDS Integers, FiniteSets, Sequences

CONSTANTS
  Jobs,        \* the calls of withExecutionSlot
  Sessions,    \* session keys
  Paths,       \* paths a call may lock: sequences of names, <<>> is "/"
  Signals,     \* abort signals
  NoWriter,    \* the call locks no path
  NoSignal,    \* the call was given no signal
  NoQueue,     \* the session has no entry in the map of queues
  NoCall,      \* the call has not been enqueued
  Limit        \* HIVE_MAX_AGENT_CONCURRENCY (no limit: Cardinality(Jobs))

ASSUME LimitAssumption == Limit \in Nat \ {0}
ASSUME JobsAssumption == IsFiniteSet(Jobs)
ASSUME PathsAssumption == Paths \subseteq Seq(STRING) /\ NoWriter \notin Paths
ASSUME NoSignalAssumption == NoSignal \notin Signals
ASSUME NoQueueAssumption == NoQueue \notin Jobs

\* What withExecutionSlot was called with, its arrival number, its queue.
Call == [session : Sessions, writer : Paths \cup {NoWriter},
         signal : Signals \cup {NoSignal}, ticket : Nat, queue : Jobs]

ASSUME NoCallAssumption == NoCall \notin Call

VARIABLES
  pc,          \* pc[j]: where call j is
  call,        \* call[j]: its arguments, arrival number and queue object
  queues,      \* queues[s]: the queue object the map holds for session s
  active,      \* active[q]: Queue.active of object q
  held,        \* workspaceWriters
  aborted,     \* the signals that fired
  clock        \* arrivals so far (the order of the pending lists)

vars == <<pc, call, queues, active, held, aborted, clock>>

PC == {"new", "pending", "granted", "working", "done", "rejected"}

Pending == {j \in Jobs : pc[j] = "pending"}
\* Calls counted in Queue.active: dispatched and not yet released.
Running == {j \in Jobs : pc[j] \in {"granted", "working"}}

-----------------------------------------------------------------------------
(* Paths *)

\* q.startsWith(p + path.sep).  For p = "/" the text p + sep is "//", which
\* begins no resolved path.
StrictlyInside(q, p) ==
  /\ p # <<>>
  /\ Len(p) < Len(q)
  /\ SubSeq(q, 1, Len(p)) = p

Collides(p, q) == p = q \/ StrictlyInside(p, q) \/ StrictlyInside(q, p)

Blocked(w, paths) == w # NoWriter /\ \E p \in paths : Collides(p, w)

WritersOf(c, S) == {c[j].writer : j \in S} \ {NoWriter}

-----------------------------------------------------------------------------
(* drain: dispatch, in order, every pending call that has room and whose   *)
(* path is free.  A call that collides is skipped, not waited for.         *)

InQueue(c, S, q) == {j \in S : c[j].queue = q}

NewestFirst(c, i, j) == c[i].ticket > c[j].ticket

\* The order in which the loops over the map and over pending visit calls.
Before(c, i, j) ==
  IF c[i].queue = c[j].queue
  THEN c[i].ticket < c[j].ticket
  ELSE c[c[i].queue].ticket < c[c[j].queue].ticket

LocksReadBefore(c, D, j, act, locks) ==
  LET earlier == {k \in D : Before(c, k, j)}
  IN  /\ act[c[j].queue] + Cardinality(InQueue(c, earlier, c[j].queue)) < Limit
      /\ ~ Blocked(c[j].writer, locks)

\* Call j can be dispatched once the members of D before it have been.
Dispatchable(c, D, j, act, locks) ==
  LET earlier == {k \in D : Before(c, k, j)}
  IN  /\ act[c[j].queue] + Cardinality(InQueue(c, earlier, c[j].queue)) < Limit
      /\ ~ Blocked(c[j].writer, locks \cup WritersOf(c, earlier))

\* D is what draining the queue objects Q dispatches of the waiters W, from
\* the counts act and the locks locks.
IsDrain(c, D, W, Q, act, locks) ==
  \A j \in W : j \in D <=> c[j].queue \in Q /\ Dispatchable(c, D, j, act, locks)

\* Queue.active after D was dispatched.
Counted(c, act, D) ==
  [q \in Jobs |-> act[q] + Cardinality(InQueue(c, D, q))]

Dispatch(D, p) == [i \in Jobs |-> IF i \in D THEN "granted" ELSE p[i]]

\* queue.active === 0 && queue.pending.length === 0
Idle(c, act, W, q) == act[q] = 0 /\ InQueue(c, W, q) = {}

OwnQueue(q) == {q}

\* The queue objects that the release of a call of q drains: all of the map.
DrainedBy(q) == {queues[s] : s \in Sessions} \ {NoQueue}

\* signal?.throwIfAborted() does not throw.
NotAborted(g) == g \notin aborted

-----------------------------------------------------------------------------

Init ==
  /\ pc = [j \in Jobs |-> "new"]
  /\ call = [j \in Jobs |-> NoCall]
  /\ queues = [s \in Sessions |-> NoQueue]
  /\ active = [q \in Jobs |-> 0]
  /\ held = {}
  /\ aborted = {}
  /\ clock = 0

\* withExecutionSlot up to its first await: take the session's queue or
\* create it, join it, drain that queue.
Submit(j, s, w, g) ==
  /\ pc[j] = "new"
  /\ NotAborted(g)
  /\ LET q == IF queues[s] = NoQueue THEN j ELSE queues[s]
         c == [call EXCEPT ![j] = [session |-> s, writer |-> w, signal |-> g,
                                   ticket |-> clock, queue |-> q]]
         W == Pending \cup {j}
     IN  \E D \in SUBSET W :
           /\ IsDrain(c, D, W, {q}, active, held)
           /\ pc' = Dispatch(D, [pc EXCEPT ![j] = "pending"])
           /\ call' = c
           /\ queues' = [queues EXCEPT ![s] = q]
           /\ active' = Counted(c, active, D)
           /\ held' = held \cup WritersOf(c, D)
           /\ clock' = clock + 1
           /\ UNCHANGED aborted

\* signal.throwIfAborted() on entry: the call is never enqueued.
Refuse(j, g) ==
  /\ pc[j] = "new"
  /\ ~ NotAborted(g)
  /\ pc' = [pc EXCEPT ![j] = "rejected"]
  /\ UNCHANGED <<call, queues, active, held, aborted, clock>>

\* A signal fires: the listeners of its waiters run one after the other in
\* one turn, each taking its call out of pending and rejecting it, and
\* dropping the queue if that made it idle.
Abort(g) ==
  /\ g \notin aborted
  /\ aborted' = aborted \cup {g}
  /\ LET gone == {j \in Pending : call[j].signal = g}
     IN  /\ pc' = [j \in Jobs |-> IF j \in gone THEN "rejected" ELSE pc[j]]
         /\ queues' = [s \in Sessions |->
              IF \E j \in gone : /\ call[j].session = s
                                 /\ Idle(call, active, Pending \ gone, call[j].queue)
              THEN NoQueue ELSE queues[s]]
  /\ UNCHANGED <<call, active, held, clock>>

\* The closure handed to the call: give the place and the lock back, drain
\* every queue in map order, then drop this queue if it is idle.
Release(j, outcome) ==
  LET q     == call[j].queue
      act   == [active EXCEPT ![q] = @ - 1]
      locks == held \ {call[j].writer}
  IN  \E D \in SUBSET Pending :
        /\ IsDrain(call, D, Pending, DrainedBy(q), act, locks)
        /\ pc' = Dispatch(D, [pc EXCEPT ![j] = outcome])
        /\ active' = Counted(call, act, D)
        /\ held' = locks \cup WritersOf(call, D)
        /\ queues' = IF Idle(call, active', Pending \ D, q)
                     THEN [queues EXCEPT ![call[j].session] = NoQueue]
                     ELSE queues
        /\ UNCHANGED <<call, aborted, clock>>

\* The await on the dispatch resumes: the signal is looked at once more,
\* and either work() starts or the place is given back at once.
Resume(j) ==
  /\ pc[j] = "granted"
  /\ \/ /\ NotAborted(call[j].signal)
        /\ pc' = [pc EXCEPT ![j] = "working"]
        /\ UNCHANGED <<call, queues, active, held, aborted, clock>>
     \/ /\ ~ NotAborted(call[j].signal)
        /\ Release(j, "rejected")

\* work() settles, with a value or an exception: release in the finally.
Finish(j) ==
  /\ pc[j] = "working"
  /\ Release(j, "done")

Next ==
  \/ \E j \in Jobs, s \in Sessions, w \in Paths \cup {NoWriter}, g \in Signals \cup {NoSignal} :
       Submit(j, s, w, g)
  \/ \E j \in Jobs, g \in Signals : Refuse(j, g)
  \/ \E g \in Signals : Abort(g)
  \/ \E j \in Jobs : Resume(j)
  \/ \E j \in Jobs : Finish(j)

Spec == Init /\ [][Next]_vars

\* Promise continuations run, and every model call and tool ends.
Fairness == \A j \in Jobs : WF_vars(Resume(j)) /\ WF_vars(Finish(j))

FairSpec == Spec /\ Fairness

-----------------------------------------------------------------------------
(* What the slots promise *)

TypeOK ==
  /\ pc \in [Jobs -> PC]
  /\ call \in [Jobs -> Call \cup {NoCall}]
  /\ queues \in [Sessions -> Jobs \cup {NoQueue}]
  /\ active \in [Jobs -> Nat]
  /\ held \subseteq Paths
  /\ aborted \subseteq Signals
  /\ clock \in Nat
  /\ \A j \in Jobs : pc[j] \notin {"new", "rejected"} => call[j] \in Call

\* Two calls that lock colliding paths are never admitted together, even
\* from different sessions (workspaceWriters is shared by all queues).
WriterExclusion ==
  \A i, j \in Running :
    i # j /\ call[i].writer # NoWriter => ~ Blocked(call[j].writer, {call[i].writer})

\* p is q or a directory above it, "/" being above every path.
Contains(p, q) == Len(p) <= Len(q) /\ SubSeq(q, 1, Len(p)) = p

\* What the comment on collides promises: a call that locks a whole
\* workspace excludes every write inside it.
ContainmentExclusion ==
  \A i, j \in Running :
    i # j /\ call[i].writer # NoWriter /\ call[j].writer # NoWriter
      => ~ Contains(call[i].writer, call[j].writer)

\* A session never has more admitted calls than the limit, however often
\* its queue object was dropped and made again in between.
SessionLimit ==
  \A s \in Sessions : Cardinality({j \in Running : call[j].session = s}) <= Limit

\* No lost wake-up: a call that waits has a reason to, its session is full
\* or an admitted call locks a colliding path.
NoIdleWaiter ==
  \A j \in Pending :
    \/ Cardinality({i \in Running : call[i].session = call[j].session}) = Limit
    \/ Blocked(call[j].writer, WritersOf(call, Running))

\* The map holds exactly the queue objects in use: a waiting or admitted
\* call is in the object the map has for its session (so the drains of
\* other releases reach it), and a session with no such call has no entry.
QueuesInUse ==
  \A s \in Sessions :
    LET mine == {j \in Pending \cup Running : call[j].session = s}
    IN  IF mine = {} THEN queues[s] = NoQueue
        ELSE \A j \in mine : call[j].queue = queues[s]

\* A signal that fired leaves no call waiting behind it: listeners added
\* after the event would never run.
NoDeafWaiter == \A j \in Pending : call[j].signal \notin aborted

\* Call j, which arrived after call i of its session, is admitted in a step
\* that leaves i waiting.
Overtaken(i, j) ==
  /\ pc[i] = "pending" /\ pc'[i] = "pending"
  /\ pc[j] # "granted" /\ pc'[j] = "granted"
  /\ call'[i].session = call'[j].session
  /\ call'[i].ticket < call'[j].ticket

\* Within a session calls are admitted in arrival order, except that one
\* may pass another that is kept out by a lock.
NoOvertaking ==
  [][\A i, j \in Jobs : Overtaken(i, j) => Blocked(call[i].writer, held')]_vars

\* Every call that was enqueued ends: nobody waits for ever.
EveryCallEnds ==
  \A j \in Jobs : pc[j] = "pending" ~> pc[j] \in {"done", "rejected"}

\* Whoever is admitted fits: beside the locks of the others, and within the limit of its
\* session (run, workspaceWriters, active).
AdmissionsFit == TypeOK /\ WriterExclusion /\ SessionLimit

\* Whoever waits has a reason to, is in the queue that the releases drain, and has heard of
\* its signal (drain, release, the abort listener).
WaitersServed == NoIdleWaiter /\ QueuesInUse /\ NoDeafWaiter

-----------------------------------------------------------------------------
(* The inductive invariant behind them *)

\* Arrival numbers tell the enqueued calls apart.
Tickets ==
  /\ \A j \in Jobs : pc[j] = "new" => call[j] = NoCall
  /\ \A j \in Jobs : call[j] \in Call => call[j].ticket < clock
  /\ \A i, j \in Jobs :
       call[i] \in Call /\ call[j] \in Call /\ call[i].ticket = call[j].ticket => i = j

\* A queue object belongs to the session of the call that made it, the map
\* has it while it is in use, and has no object out of use.
QueueObjects ==
  /\ \A j \in Pending \cup Running :
       /\ call[call[j].queue] \in Call
       /\ call[call[j].queue].session = call[j].session
       /\ queues[call[j].session] = call[j].queue
  /\ \A s \in Sessions : queues[s] # NoQueue =>
       \E j \in Pending \cup Running : call[j].session = s

Locks == held = WritersOf(call, Running)

Counts == \A q \in Jobs : /\ active[q] = Cardinality(InQueue(call, Running, q))
                         /\ active[q] <= Limit

Waiters == \A j \in Pending : active[call[j].queue] >= Limit \/ Blocked(call[j].writer, held)

\* What is true at every step of the slots, and makes the next step keep it.
IInv == /\ TypeOK /\ Tickets /\ QueueObjects /\ Locks /\ Counts /\ Waiters
        /\ WriterExclusion /\ NoDeafWaiter

=============================================================================
