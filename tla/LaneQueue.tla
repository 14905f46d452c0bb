------------------------------- MODULE LaneQueue -------------------------------
(* The lanes of the gateway: the tasks of a session run one at a time, in the order of their
   priority and their arrival, each with a signal that a person or the time limit aborts. The
   requests of the chat route wait for their task from outside, with a time limit of their own.
   Its specification has a name of its own: QueueProofs extends it beside another one. *)
EXTENDS Naturals

CONSTANTS
  Tasks, Sessions,
  Session,        \* the session of each task
  Priority,       \* the priority of each task
  Chat,           \* the tasks of the chat route, whose handlers do not look at the signal
  NoTask

ASSUME LaneQueueAssumption ==
  /\ NoTask \notin Tasks
  /\ Session \in [Tasks -> Sessions] /\ Priority \in [Tasks -> Nat]
  /\ Chat \subseteq Tasks

VARIABLES
  status,      \* each task, "new" before it is enqueued
  queues,      \* the tasks that wait in each lane, and
  arrival,     \* after how many others each task came
  arrived,     \* the tasks that came
  running,     \* the task that runs in each lane
  handlers,    \* the tasks that have a handler in the map
  aborted,     \* the tasks whose signal is aborted
  request      \* the request of each task of the chat route

laneVars == <<status, queues, arrival, arrived, running, handlers, aborted, request>>

LaneInit ==
  /\ status = [t \in Tasks |-> "new"]
  /\ queues = [s \in Sessions |-> {}] /\ running = [s \in Sessions |-> NoTask]
  /\ arrival = [t \in Tasks |-> 0] /\ arrived = 0
  /\ handlers = {} /\ aborted = {} /\ request = [t \in Tasks |-> "none"]

Ended == {"completed", "failed", "cancelled"}

-----------------------------------------------------------------------------

LastInFront(q, t, came) ==
  /\ t \in q
  /\ \A u \in q : Priority[t] > Priority[u] \/ (Priority[t] = Priority[u] /\ came[t] >= came[u])
\* The sort is stable, so that the one that came first of equals is in front.
InFront(q, t, came) ==
  /\ t \in q
  /\ \A u \in q : Priority[t] > Priority[u] \/ (Priority[t] = Priority[u] /\ came[t] <= came[u])

\* processQueue on a lane where q wait, when it starts the one in front.
Starts(s, q, t, came, st) ==
  /\ InFront(q, t, came)
  /\ queues' = [queues EXCEPT ![s] = q \ {t}]
  /\ running' = [running EXCEPT ![s] = t]
  /\ status' = [st EXCEPT ![t] = "running"]

Busy(s) == running[s] # NoTask

Enqueue(t) ==
  LET s == Session[t]
      q == queues[s] \cup {t}
      came == [arrival EXCEPT ![t] = arrived]
      st == [status EXCEPT ![t] = "pending"] IN
  /\ status[t] = "new"
  /\ arrival' = came /\ arrived' = arrived + 1
  /\ handlers' = handlers \cup {t}
  /\ request' = IF t \in Chat THEN [request EXCEPT ![t] = "polling"] ELSE request
  /\ \/ ~Busy(s) /\ \E u \in q : Starts(s, q, u, came, st)
     \/ Busy(s) /\ queues' = [queues EXCEPT ![s] = q] /\ status' = st /\ UNCHANGED running
  /\ UNCHANGED aborted

\* Whom the finally block of a task finds to start.
NobodyLeft(s) == {}
Left(s) == queues[s]

\* The handler returned or threw: the next one starts in the same step. The handler of the
\* chat route throws nothing.
Ends(t, how) ==
  LET s == Session[t]
      st == [status EXCEPT ![t] = how] IN
  /\ running[s] = t /\ (t \in Chat => how = "completed")
  /\ handlers' = handlers \ {t}
  /\ \/ \E u \in Left(s) : Starts(s, queues[s], u, arrival, st)
     \/ /\ Left(s) = {} /\ running' = [running EXCEPT ![s] = NoTask] /\ status' = st
        /\ UNCHANGED queues
  /\ UNCHANGED <<arrival, arrived, aborted, request>>

\* The time limit of the task.
NoLimit(t) == FALSE
Limit(t) == running[Session[t]] = t /\ t \notin aborted
TimeIsUp(t) ==
  /\ Limit(t)
  /\ aborted' = aborted \cup {t}
  /\ UNCHANGED <<status, queues, arrival, arrived, running, handlers, request>>

\* cancel aborts the task that runs, and takes the one in front out of the queue if none does.
Cancel(s) ==
  /\ IF Busy(s)
     THEN /\ aborted' = aborted \cup {running[s]}
          /\ UNCHANGED <<status, queues>>
     ELSE \E t \in queues[s] :
            /\ InFront(queues[s], t, arrival)
            /\ queues' = [queues EXCEPT ![s] = queues[s] \ {t}]
            /\ status' = [status EXCEPT ![t] = "cancelled"]
            /\ UNCHANGED aborted
  /\ UNCHANGED <<arrival, arrived, running, handlers, request>>

\* The request sees what the handler left for it, or gives up; its task goes on then.
Poll(t) ==
  /\ request[t] = "polling" /\ status[t] = "completed"
  /\ request' = [request EXCEPT ![t] = "answered"]
  /\ UNCHANGED <<status, queues, arrival, arrived, running, handlers, aborted>>

GiveUp(t) ==
  /\ request[t] = "polling"
  /\ request' = [request EXCEPT ![t] = "timeout"]
  /\ UNCHANGED <<status, queues, arrival, arrived, running, handlers, aborted>>

TaskStep(t) ==
  Enqueue(t) \/ (\E how \in Ended : Ends(t, how)) \/ TimeIsUp(t) \/ Poll(t) \/ GiveUp(t)
LaneNext == (\E t \in Tasks : TaskStep(t)) \/ (\E s \in Sessions : Cancel(s))

\* Timers fire, and a handler that looks at its signal ends when it is aborted. Nothing is
\* assumed of the others, nor of a handler before it is aborted.
Listens(t) == t \in aborted \ Chat /\ \E how \in Ended : Ends(t, how)
Fairness ==
  \A t \in Tasks :
    WF_laneVars(TimeIsUp(t)) /\ WF_laneVars(Listens(t)) /\ WF_laneVars(GiveUp(t))

Safety == LaneInit /\ [][LaneNext]_laneVars
LaneSpec == Safety /\ Fairness

-----------------------------------------------------------------------------
(* Properties *)

\* Every variable stays in its range.
LaneTypeOK ==
  /\ status \in [Tasks -> {"new", "pending", "running"} \cup Ended]
  /\ queues \in [Sessions -> SUBSET Tasks]
  /\ arrival \in [Tasks -> Nat] /\ arrived \in Nat
  /\ running \in [Sessions -> Tasks \cup {NoTask}]
  /\ handlers \subseteq Tasks /\ aborted \subseteq Tasks
  /\ request \in [Tasks -> {"none", "polling", "answered", "timeout"}]

\* A task runs exactly if it is the one of its lane, and waits exactly if it is in its queue:
\* never two of a session at once, and none that is forgotten.
OneAtATime ==
  \A t \in Tasks :
    /\ status[t] = "running" <=> running[Session[t]] = t
    /\ status[t] = "pending" <=> t \in queues[Session[t]]

\* A lane whose tasks wait has one that runs, so that somebody starts the next one.
NeverIdles ==
  \A s \in Sessions : queues[s] # {} => running[s] # NoTask

\* The handlers of the tasks that are not over are in the map, and no others.
HandlersKept ==
  \A t \in Tasks : t \in handlers <=> status[t] \in {"pending", "running"}

\* Of two tasks of one session and priority, the one that came later does not start before.
FirstComeFirstServed ==
  \A t, u \in Tasks :
    /\ Session[t] = Session[u] /\ Priority[t] = Priority[u]
    /\ status[t] = "pending" /\ status[u] # "new" /\ arrival[t] < arrival[u]
    => status[u] = "pending"

\* The signal of a task that has not started is never aborted: the handlers need not look at
\* it when they begin, and none is called for a task that was cancelled.
NeverStartsAborted ==
  \A t \in aborted : status[t] \notin {"new", "pending"}

\* The lanes are in order: one task at a time, nobody forgotten, no lane that stands still,
\* no handler too many or too few, no task that starts aborted.
LaneKept == LaneTypeOK /\ OneAtATime /\ NeverIdles /\ HandlersKept /\ NeverStartsAborted

\* A task that waits is over in the end, unless its lane stays with a task of the chat route.
TaskEnds ==
  \A t \in Tasks :
    status[t] = "pending" ~> (status[t] \in Ended \/ [](running[Session[t]] \in Chat))
=============================================================================
